----------------------------- MODULE Inventory ------------------------------
(***************************************************************************)
(* The inventory of StockGuardian as its concurrent HTTP requests run it:  *)
(* stock movements, product PATCH and DELETE, alert acknowledge and        *)
(* resolve, each one SQLAlchemy session over one PostgreSQL transaction    *)
(* at READ COMMITTED.  A request is a process whose steps are the SQL      *)
(* statements of its handler, in the order the service issues them; other  *)
(* requests run between any two of them.                                   *)
(*                                                                         *)
(* Of PostgreSQL (external) the module keeps what the services rely on:    *)
(* a statement sees the committed rows and its own writes, row locks with  *)
(* their modes last to the end of the transaction, the partial unique      *)
(* index of stock_alerts makes an INSERT wait for a transaction holding    *)
(* the same key, CHECKs and foreign keys, and a deadlock detector that     *)
(* aborts a member of a cycle of waits.                                    *)
(***************************************************************************)
EXTENDS StockRules, FiniteSets

CONSTANTS
  Unset,         \* a PATCH field not sent; an alert row not written
  Products,      \* product ids
  Operations,    \* the calls that clients may make in this instance
  Quantities,    \* the quantities that movements may carry
  Thresholds,    \* the [min_stock, max_stock] a product may be created with
  RequestCount,  \* how many requests arrive
  PoolSize,      \* how many may hold a connection at once (its pool)
  MaxInt,        \* the largest value of an INTEGER column
  Crashes        \* TRUE when a request's process may die

\* Requests are numbered in the order their transactions begin, so that a
\* request's number is also what now() returns in it: its created_at.
Requests == 1..RequestCount

\* An alert is named by the request that inserted it and by its kind.
AlertIds == Requests \X AlertKinds

MovementOperation ==
  [kind : {"movement"}, product : Products, type : MovementTypes,
   quantity : Quantities]

PatchOperation ==
  [kind : {"patch"}, product : Products,
   min_stock : Nat \cup {None, Unset}, max_stock : Nat \cup {None, Unset}]

DeleteOperation == [kind : {"delete"}, product : Products]

AlertOperation == [kind : {"acknowledge", "resolve"}]

Operation ==
  MovementOperation \cup PatchOperation \cup DeleteOperation \cup AlertOperation

ProductRow ==
  [quantity : 0..MaxInt, min_stock : Nat, max_stock : Nat \cup {None}]

\* The timestamps and acknowledged_by are left out.
AlertRow ==
  [product : Products, status : AlertStatuses, triggered_quantity : 0..MaxInt,
   threshold_at_trigger : Nat]

ASSUME InstanceAssumption ==
  /\ RequestCount \in Nat
  /\ PoolSize \in Nat \ {0}
  /\ MaxInt \in Nat
  /\ Quantities \subseteq Nat \ {0}
  /\ Crashes \in BOOLEAN
  /\ \A o \in Operations : o \in Operation
  /\ \A t \in Thresholds :
       /\ t \in [min_stock : Nat, max_stock : Nat \cup {None}]
       /\ t.max_stock # None => t.max_stock >= t.min_stock

ASSUME SentinelAssumption ==
  /\ None # Unset
  /\ None \notin Nat /\ None \notin ProductRow /\ None \notin AlertRow
  /\ None \notin AlertIds /\ None \notin Operations
  /\ Unset \notin Nat /\ Unset \notin AlertRow

VARIABLES
  \* The committed database.
  products,   \* [Products -> ProductRow], None once deleted
  ledger,     \* stock_movements of each product, in commit order
  alerts,     \* [AlertIds -> AlertRow], None while there is no such row
  \* The requests.
  op,         \* the call each request carries, None before it arrives
  pc,         \* the next statement of its handler, or its answer
  \* Their transactions.
  lock,       \* the lock mode held on the row of the request's product
  view,       \* the Product instance in the session's identity map
  pend,       \* the product row written and not yet committed
  staged,     \* the alert rows written and not yet committed
  target      \* the alert the next statement writes

database == <<products, ledger, alerts>>
transaction == <<lock, view, pend, staged, target>>
vars == <<products, ledger, alerts, op, pc, lock, view, pend, staged, target>>

----------------------------------------------------------------------------
(* Progress of a request. *)

\* "error" is a 500 raised before the commit, "unconfirmed" one raised after
\* it: the client cannot tell them apart.  "lost" is no answer at all.
Answers == {"ok", "not_found", "conflict", "error", "unconfirmed", "lost"}

Steps ==
  AlertKinds \cup
  {"lock", "flush", "open", "key_share", "close", "commit", "refresh",
   "acknowledge", "reacknowledge", "resolve", "children", "delete", "cascade"}

Running(r) == pc[r] \in Steps

\* A session gives its connection back at the commit, and is lent one again
\* to refresh.
Connected(r) == Running(r) /\ pc[r] # "refresh"

PoolHasRoom == Cardinality({s \in Requests : Connected(s)}) < PoolSize

Goto(r, step) == pc' = [pc EXCEPT ![r] = step]

\* Fault: a session that ends without its locks let go.
ReleaseKeepsLock(r) ==
  /\ view' = [view EXCEPT ![r] = None]
  /\ pend' = [pend EXCEPT ![r] = None]
  /\ staged' = [staged EXCEPT ![r] = [a \in AlertIds |-> Unset]]
  /\ target' = [target EXCEPT ![r] = None]
  /\ UNCHANGED lock

\* The transaction ends: locks released, session and its writes discarded.
Release(r) ==
  /\ lock' = [lock EXCEPT ![r] = "none"]
  /\ view' = [view EXCEPT ![r] = None]
  /\ pend' = [pend EXCEPT ![r] = None]
  /\ staged' = [staged EXCEPT ![r] = [a \in AlertIds |-> Unset]]
  /\ target' = [target EXCEPT ![r] = None]

\* An exception leaves the handler: the session closes, PostgreSQL rolls
\* back, exceptions/handlers.py turns the exception into the answer.
Abort(r, answer) ==
  /\ Goto(r, answer)
  /\ Release(r)
  /\ UNCHANGED <<database, op>>

----------------------------------------------------------------------------
(* Rows, row locks and waits. *)

\* What request r's own statements see of an alert.
Seen(r, a) == IF staged[r][a] = Unset THEN alerts[a] ELSE staged[r][a]

IsActiveFor(row, p) ==
  row # None /\ row # Unset /\ row.product = p /\ row.status \in ActiveAlertStatuses

AlertsOf(p) == {a \in AlertIds : alerts[a] # None /\ alerts[a].product = p}

LockModes == {"none", "key_share", "no_key", "update"}

\* PostgreSQL's row-lock conflicts, of the modes this code takes.
Conflict(m, n) ==
  \/ m = "no_key" /\ n = "no_key"
  \/ m = "update" /\ n # "none"
  \/ n = "update" /\ m # "none"

RowHolders(r, p, mode) ==
  {s \in Requests \ {r} : lock[s] # "none" /\ op[s].product = p /\ Conflict(lock[s], mode)}

AlertHolders(r, ids) ==
  {s \in Requests \ {r} : \E a \in ids : staged[s][a] # Unset}

\* Requests whose uncommitted write decides whether the key (p, kind) of
\* the partial unique index is free.
KeyHolders(r, p, kind) ==
  {s \in Requests \ {r} : \E a \in AlertIds :
     /\ a[2] = kind
     /\ staged[s][a] # Unset
     /\ IsActiveFor(alerts[a], p) \/ IsActiveFor(staged[s][a], p)}

\* Fault: stock_alerts without its unique index.
KeyNeverTaken(r, p, kind) == FALSE

KeyTaken(r, p, kind) ==
  \E a \in AlertIds :
    a[2] = kind /\ a # target[r] /\ staged[r][a] = Unset /\ IsActiveFor(alerts[a], p)

\* Fault: the UPDATE writes every column of the session's copy.
WithWholeRow(row, loaded, o) ==
  LET column(sent, old) == IF sent = Unset THEN old ELSE sent
  IN  [quantity  |-> loaded.quantity,
       min_stock |-> column(o.min_stock, loaded.min_stock),
       max_stock |-> column(o.max_stock, loaded.max_stock)]

\* setattr for each field sent; the UPDATE that follows carries only the
\* columns that differ from the row the session loaded.
WithColumns(row, loaded, o) ==
  LET column(sent, old, current) == IF sent \in {Unset, old} THEN current ELSE sent
  IN  [quantity  |-> row.quantity,
       min_stock |-> column(o.min_stock, loaded.min_stock, row.min_stock),
       max_stock |-> column(o.max_stock, loaded.max_stock, row.max_stock)]

PatchWrites(r) == WithColumns(view[r], view[r], op[r]) # view[r]

\* Fault: min_stock may be NULL, which satisfies every CHECK.
SatisfiesChecksNullable(row) ==
  row.min_stock = None \/ row.max_stock = None \/ row.max_stock >= row.min_stock

\* NOT NULL of min_stock and ck_product_max_ge_min.
SatisfiesChecks(row) ==
  /\ row.min_stock # None
  /\ row.max_stock # None => row.max_stock >= row.min_stock

\* Fault: the movement reads the product without FOR UPDATE.
LockWantedByPlainRead(r) ==
  CASE pc[r] = "lock"      -> "none"
    [] pc[r] = "delete"    -> "update"
    [] pc[r] = "flush"     -> IF PatchWrites(r) THEN "no_key" ELSE "none"
    [] pc[r] = "key_share" -> IF lock[r] = "none" THEN "key_share" ELSE lock[r]

\* The lock that request r's next statement takes on its product's row.
LockWanted(r) ==
  CASE pc[r] = "lock"      -> "update"      \* SELECT ... FOR UPDATE
    [] pc[r] = "delete"    -> "update"
    [] pc[r] = "flush"     -> IF PatchWrites(r) THEN "no_key" ELSE "none"
    [] pc[r] = "key_share" -> IF lock[r] = "none" THEN "key_share" ELSE lock[r]

\* The requests that request r's next statement waits for.
BlockedBy(r) ==
  CASE pc[r] \in {"lock", "delete", "flush", "key_share"} ->
         RowHolders(r, op[r].product, LockWanted(r))
    [] pc[r] = "open" -> KeyHolders(r, op[r].product, target[r][2])
    [] pc[r] \in {"close", "resolve"} -> AlertHolders(r, {target[r]})
    [] pc[r] \in {"acknowledge", "reacknowledge"} ->
         AlertHolders(r, {target[r]}) \cup
         (IF alerts[target[r]] = None THEN {}
          ELSE KeyHolders(r, alerts[target[r]].product, target[r][2]))
    [] pc[r] \in {"children", "cascade"} -> AlertHolders(r, AlertsOf(op[r].product))
    [] OTHER -> {}

\* Request r waits, directly or not, for itself: some requests including r
\* can be arranged so that each waits for the next one round.
InWaitCycle(r) ==
  \E S \in SUBSET Requests :
    /\ r \in S
    /\ \E next \in [S -> S] :
         /\ \A s \in S : Running(s) /\ next[s] \in BlockedBy(s)
         /\ \A s \in S : \E t \in S : next[t] = s

----------------------------------------------------------------------------
(* A request arrives: the pool lends it a connection, loading the caller   *)
(* begins its transaction, and the handler runs up to its first write.     *)

Admits(r) ==
  /\ pc[r] = "idle"
  /\ \A s \in Requests : s < r => pc[s] # "idle"
  /\ PoolHasRoom

AskMovement(r, o) ==
  /\ Admits(r)
  /\ o.kind = "movement"
  /\ op' = [op EXCEPT ![r] = o]
  /\ Goto(r, "lock")
  /\ UNCHANGED <<database, transaction>>

AskPatch(r, o) ==
  /\ Admits(r)
  /\ o.kind = "patch"
  /\ op' = [op EXCEPT ![r] = o]
  /\ view' = [view EXCEPT ![r] = products[o.product]]
  /\ Goto(r, IF products[o.product] = None THEN "not_found" ELSE "flush")
  /\ UNCHANGED <<database, lock, pend, staged, target>>

AskDelete(r, o) ==
  /\ Admits(r)
  /\ o.kind = "delete"
  /\ op' = [op EXCEPT ![r] = o]
  /\ Goto(r, IF products[o.product] = None THEN "not_found" ELSE "children")
  /\ UNCHANGED <<database, transaction>>

\* Fault: the resolved alert is not refused.
AlertStepUnchecked(kind, status) ==
  IF kind = "acknowledge" /\ status = "acknowledged" THEN "reacknowledge" ELSE kind

\* acknowledge and resolve look at the status they read here, and only
\* here.  Acknowledging again will leave the status column unwritten.
AlertStep(kind, status) ==
  CASE status = "resolved" -> "conflict"
    [] kind = "acknowledge" /\ status = "acknowledged" -> "reacknowledge"
    [] OTHER -> kind

AskAlert(r, o, a) ==
  /\ Admits(r)
  /\ o.kind \in {"acknowledge", "resolve"}
  /\ op' = [op EXCEPT ![r] = o]
  /\ \/ /\ alerts[a] = None
        /\ Goto(r, "not_found")
        /\ UNCHANGED target
     \/ /\ alerts[a] # None
        /\ AlertStep(o.kind, alerts[a].status) = "conflict"
        /\ Goto(r, "conflict")
        /\ UNCHANGED target
     \/ /\ alerts[a] # None
        /\ AlertStep(o.kind, alerts[a].status) # "conflict"
        /\ Goto(r, AlertStep(o.kind, alerts[a].status))
        /\ target' = [target EXCEPT ![r] = a]
  /\ UNCHANGED <<database, lock, view, pend, staged>>

----------------------------------------------------------------------------
(* MovementService.create, from the locking read to the flush of the new   *)
(* movement.  A result outside the column is a DataError of the driver.    *)

LockProduct(r) ==
  LET p == op[r].product
      balance == ApplyMovement(products[p].quantity, op[r].type, op[r].quantity)
      moved == [products[p] EXCEPT !.quantity = balance]
  IN  /\ pc[r] = "lock"
      /\ BlockedBy(r) = {}
      /\ \/ /\ products[p] = None
            /\ Abort(r, "not_found")
         \/ /\ products[p] # None
            /\ IsInsufficient(products[p].quantity, op[r].type, op[r].quantity)
            /\ Abort(r, "conflict")
         \/ /\ products[p] # None
            /\ balance > MaxInt
            /\ Abort(r, "error")
         \/ /\ products[p] # None
            /\ balance \in 0..MaxInt
            /\ lock' = [lock EXCEPT ![r] = LockWanted(r)]
            /\ view' = [view EXCEPT ![r] = moved]
            /\ pend' = [pend EXCEPT ![r] = moved]
            /\ Goto(r, "low_stock")
            /\ UNCHANGED <<database, op, staged, target>>

(* ProductService.update, from setattr to the flush.  A PATCH that changes *)
(* no column emits no UPDATE and takes no lock; only min_stock in the      *)
(* payload leads to evaluate.                                              *)

FlushPatch(r) ==
  LET p == op[r].product
      written == WithColumns(products[p], view[r], op[r])
      accepted == products[p] # None /\ SatisfiesChecks(written)
  IN  /\ pc[r] = "flush"
      /\ BlockedBy(r) = {}
      /\ \/ /\ PatchWrites(r)
            /\ ~accepted
            /\ Abort(r, "error")
         \/ /\ PatchWrites(r)
            /\ accepted
            /\ lock' = [lock EXCEPT ![r] = LockWanted(r)]
            /\ pend' = [pend EXCEPT ![r] = written]
            /\ view' = [view EXCEPT ![r] = WithColumns(@, @, op[r])]
            /\ Goto(r, IF op[r].min_stock = Unset THEN "commit" ELSE "low_stock")
            /\ UNCHANGED <<database, op, staged, target>>
         \/ /\ ~PatchWrites(r)
            /\ Goto(r, IF op[r].min_stock = Unset THEN "commit" ELSE "low_stock")
            /\ UNCHANGED <<database, op, transaction>>

----------------------------------------------------------------------------
(* AlertService.evaluate: for each kind a SELECT of the active alert, then *)
(* an INSERT inside a savepoint, an UPDATE, or nothing.                    *)

\* Fault: evaluate returns after the first kind.
AfterFirstKind(kind) == "commit"

AfterKind(kind) == IF kind = "low_stock" THEN "overstock" ELSE "commit"

ReadActiveAlert(r) ==
  LET kind == pc[r]
      active == {a \in AlertIds : a[2] = kind /\ IsActiveFor(Seen(r, a), op[r].product)}
      action == DecideAlertAction(Condition(kind, view[r]), active # {})
  IN  /\ pc[r] \in AlertKinds
      /\ \/ /\ action = "open"
            /\ target' = [target EXCEPT ![r] = <<r, kind>>]
            /\ Goto(r, "open")
         \/ /\ action = "resolve"
            /\ \E a \in active : target' = [target EXCEPT ![r] = a]
            /\ Goto(r, "close")
         \/ /\ action = "noop"
            /\ Goto(r, AfterKind(kind))
            /\ UNCHANGED target
      /\ UNCHANGED <<database, op, lock, view, pend, staged>>

\* The INSERT, up to the unique index.  Its IntegrityError rolls back the
\* savepoint and evaluate goes on to the next kind.
InsertAlert(r) ==
  LET kind == target[r][2]
      row == [product |-> op[r].product, status |-> "open",
              triggered_quantity |-> view[r].quantity,
              threshold_at_trigger |-> Threshold(kind, view[r])]
  IN  /\ pc[r] = "open"
      /\ BlockedBy(r) = {}
      /\ \/ /\ KeyTaken(r, op[r].product, kind)
            /\ Goto(r, AfterKind(kind))
            /\ UNCHANGED staged
         \/ /\ ~KeyTaken(r, op[r].product, kind)
            /\ staged' = [staged EXCEPT ![r][target[r]] = row]
            /\ Goto(r, "key_share")
      /\ UNCHANGED <<database, op, lock, view, pend, target>>

\* The foreign-key check that ends the INSERT locks the product row.  That
\* the product is gone is an IntegrityError too, and treated alike.
CheckAlertProduct(r) ==
  LET kind == target[r][2] IN
  /\ pc[r] = "key_share"
  /\ BlockedBy(r) = {}
  /\ \/ /\ products[op[r].product] = None
        /\ staged' = [staged EXCEPT ![r][target[r]] = Unset]
        /\ UNCHANGED lock
     \/ /\ products[op[r].product] # None
        /\ lock' = [lock EXCEPT ![r] = LockWanted(r)]
        /\ UNCHANGED staged
  /\ Goto(r, AfterKind(kind))
  /\ UNCHANGED <<database, op, view, pend, target>>

\* The UPDATE to resolved: of the row as committed by now, or of no row,
\* which the ORM reports as an error.
CloseAlert(r) ==
  LET a == target[r] IN
  /\ pc[r] = "close"
  /\ BlockedBy(r) = {}
  /\ \/ /\ alerts[a] = None
        /\ Abort(r, "error")
     \/ /\ alerts[a] # None
        /\ staged' = [staged EXCEPT ![r][a] = [alerts[a] EXCEPT !.status = "resolved"]]
        /\ Goto(r, AfterKind(a[2]))
        /\ UNCHANGED <<database, op, lock, view, pend, target>>

----------------------------------------------------------------------------
(* COMMIT of a movement or of a PATCH: product, movement and alerts.       *)

\* Fault: the session's copy of the product is what gets written.
CommittedView(r) ==
  IF pend[r] = None THEN products
  ELSE [products EXCEPT ![op[r].product] = view[r]]

CommittedProduct(r) ==
  IF pend[r] = None THEN products
  ELSE [products EXCEPT ![op[r].product] = pend[r]]

\* Fault: an adjustment to the balance there is already is not recorded.
CommittedChanges(r) ==
  IF op[r].kind # "movement" \/ pend[r].quantity = products[op[r].product].quantity
  THEN ledger
  ELSE [ledger EXCEPT ![op[r].product] =
          Append(@, [at |-> r, type |-> op[r].type, quantity |-> op[r].quantity,
                     balance_after |-> pend[r].quantity])]

CommittedLedger(r) ==
  IF op[r].kind # "movement" THEN ledger
  ELSE [ledger EXCEPT ![op[r].product] =
          Append(@, [at |-> r, type |-> op[r].type, quantity |-> op[r].quantity,
                     balance_after |-> pend[r].quantity])]

Commit(r) ==
  /\ pc[r] = "commit"
  /\ products' = CommittedProduct(r)
  /\ ledger' = CommittedLedger(r)
  /\ alerts' = [a \in AlertIds |-> Seen(r, a)]
  /\ Goto(r, "refresh")
  /\ Release(r)
  /\ UNCHANGED op

\* session.refresh reloads the row that was written: a connection from the
\* pool, a new transaction, one SELECT.  It fails when the wait for the pool
\* times out or the connection breaks, and when a product deleted meanwhile
\* has taken its movements with it.
Refresh(r) ==
  LET p == op[r].product
      found == IF op[r].kind = "movement"
               THEN \E i \in 1..Len(ledger[p]) : ledger[p][i].at = r
               ELSE products[p] # None
  IN  /\ pc[r] = "refresh"
      /\ \/ PoolHasRoom /\ found /\ Goto(r, "ok")
         \/ Goto(r, "unconfirmed")
      /\ UNCHANGED <<database, op, transaction>>

----------------------------------------------------------------------------
(* AlertService.acknowledge and resolve: UPDATE and COMMIT.  Only columns  *)
(* that changed are written: acknowledging an acknowledged alert leaves    *)
(* its status alone.  The refresh that follows, which changes nothing, is  *)
(* joined to it, and may fail as it may in Refresh.                        *)

SetAlertStatus(r) ==
  LET a == target[r]
      written == CASE pc[r] = "acknowledge"   -> "acknowledged"
                   [] pc[r] = "resolve"       -> "resolved"
                   [] pc[r] = "reacknowledge" -> alerts[a].status
  IN  /\ pc[r] \in {"acknowledge", "reacknowledge", "resolve"}
      /\ BlockedBy(r) = {}
      /\ \/ /\ alerts[a] = None
            /\ Abort(r, "error")
         \/ /\ alerts[a] # None
            /\ written # "resolved" /\ KeyTaken(r, alerts[a].product, a[2])
            /\ Abort(r, "error")
         \/ /\ alerts[a] # None
            /\ written = "resolved" \/ ~KeyTaken(r, alerts[a].product, a[2])
            /\ alerts' = [alerts EXCEPT ![a].status = written]
            /\ \E answer \in {"ok", "unconfirmed"} : Goto(r, answer)
            /\ Release(r)
            /\ UNCHANGED <<products, ledger, op>>

----------------------------------------------------------------------------
(* ProductService.delete: the ORM deletes the child rows it loaded, then   *)
(* the product; the foreign keys' ON DELETE CASCADE removes what others    *)
(* have committed in between.                                              *)

DeleteChildren(r) ==
  /\ pc[r] = "children"
  /\ BlockedBy(r) = {}
  /\ staged' = [staged EXCEPT ![r] =
                  [a \in AlertIds |-> IF a \in AlertsOf(op[r].product) THEN None ELSE @[a]]]
  /\ Goto(r, "delete")
  /\ UNCHANGED <<database, op, lock, view, pend, target>>

\* Zero rows deleted is only a warning: the answer is still 204.
DeleteProduct(r) ==
  /\ pc[r] = "delete"
  /\ BlockedBy(r) = {}
  /\ \/ /\ products[op[r].product] = None
        /\ Abort(r, "ok")
     \/ /\ products[op[r].product] # None
        /\ lock' = [lock EXCEPT ![r] = LockWanted(r)]
        /\ Goto(r, "cascade")
        /\ UNCHANGED <<database, op, view, pend, staged, target>>

CascadeDelete(r) ==
  LET p == op[r].product IN
  /\ pc[r] = "cascade"
  /\ BlockedBy(r) = {}
  /\ products' = [products EXCEPT ![p] = None]
  /\ ledger' = [ledger EXCEPT ![p] = <<>>]
  /\ alerts' = [a \in AlertIds |-> IF a \in AlertsOf(p) THEN None ELSE alerts[a]]
  /\ Goto(r, "ok")
  /\ Release(r)
  /\ UNCHANGED op

----------------------------------------------------------------------------
(* PostgreSQL breaks a cycle of waits by failing one of its statements: an *)
(* error no handler catches.  A process that dies loses its connection,    *)
(* and with it what its transaction had not committed; a connection that   *)
(* breaks under a statement, COMMIT included, counts as that too.          *)

DetectDeadlock(r) ==
  /\ InWaitCycle(r)
  /\ Abort(r, "error")

Crash(r) ==
  /\ Crashes
  /\ Running(r)
  /\ Abort(r, "lost")

----------------------------------------------------------------------------
Init ==
  /\ \E limits \in [Products -> Thresholds] :
       products = [p \in Products |->
                     [quantity |-> 0, min_stock |-> limits[p].min_stock,
                      max_stock |-> limits[p].max_stock]]
  /\ ledger = [p \in Products |-> <<>>]
  /\ alerts = [a \in AlertIds |-> None]
  /\ op = [r \in Requests |-> None]
  /\ pc = [r \in Requests |-> "idle"]
  /\ lock = [r \in Requests |-> "none"]
  /\ view = [r \in Requests |-> None]
  /\ pend = [r \in Requests |-> None]
  /\ staged = [r \in Requests |-> [a \in AlertIds |-> Unset]]
  /\ target = [r \in Requests |-> None]

Ask(r) ==
  \E o \in Operations :
    \/ AskMovement(r, o)
    \/ AskPatch(r, o)
    \/ AskDelete(r, o)
    \/ \E a \in AlertIds : AskAlert(r, o, a)

Step(r) ==
  \/ LockProduct(r)
  \/ FlushPatch(r)
  \/ ReadActiveAlert(r)
  \/ InsertAlert(r)
  \/ CheckAlertProduct(r)
  \/ CloseAlert(r)
  \/ Commit(r)
  \/ Refresh(r)
  \/ SetAlertStatus(r)
  \/ DeleteChildren(r)
  \/ DeleteProduct(r)
  \/ CascadeDelete(r)

\* Every request has its answer and the instance is over.
Finished ==
  /\ \A r \in Requests : pc[r] \in Answers
  /\ UNCHANGED vars

Next ==
  \/ \E r \in Requests :
       \/ Ask(r)
       \/ Step(r)
       \/ DetectDeadlock(r)
       \/ Crash(r)
  \/ Finished

\* A handler in progress keeps running, PostgreSQL wakes whoever can get
\* the lock it waits for, and its deadlock detector runs.  Clients need not
\* call, and nothing has to crash.
Fairness ==
  /\ \A r \in Requests : WF_vars(Step(r))
  /\ WF_vars(\E r \in Requests : DetectDeadlock(r))

Spec == Init /\ [][Next]_vars /\ Fairness
=============================================================================
