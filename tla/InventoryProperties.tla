------------------------ MODULE InventoryProperties -------------------------
(***************************************************************************)
(* What the inventory must never do, and what it must always get round to  *)
(* doing, whatever its concurrent requests are.  The constants of a run    *)
(* decide which calls are in play: some of these properties hold of every  *)
(* mix of calls, some only of a narrower one, and the README says which.   *)
(***************************************************************************)
EXTENDS Inventory

\* The shape of every variable.  Code: the ORM models and the schemas.
TypeOK ==
  /\ products \in [Products -> ProductRow \cup {None}]
  /\ ledger \in [Products ->
       Seq([at : Requests, type : MovementTypes, quantity : Quantities,
            balance_after : 0..MaxInt])]
  /\ alerts \in [AlertIds -> AlertRow \cup {None}]
  /\ op \in [Requests -> Operations \cup {None}]
  /\ pc \in [Requests -> {"idle"} \cup Steps \cup Answers]
  /\ lock \in [Requests -> LockModes]
  /\ view \in [Requests -> ProductRow \cup {None}]
  /\ pend \in [Requests -> ProductRow \cup {None}]
  /\ staged \in [Requests -> [AlertIds -> AlertRow \cup {None, Unset}]]
  /\ target \in [Requests -> AlertIds \cup {None}]

----------------------------------------------------------------------------
(* Safety. *)

\* A product's quantity is the balance its newest movement recorded, and
\* every movement's balance_after follows from the one before: no movement
\* is lost, applied twice or computed from a stale balance, and no PATCH
\* writes an old quantity back.  Code: the row lock of MovementService.create
\* and the column-wise UPDATE of ProductService.update.
LedgerSound ==
  \A p \in Products : products[p] # None =>
    /\ products[p].quantity = Closing(ledger[p])
    /\ Replays(ledger[p])

\* At most one alert of a kind is open or acknowledged for a product,
\* although every path checks before it inserts and holds no lock on what
\* it checked.  Code: evaluate and the partial unique index behind it.
OneActiveAlert ==
  \A a, b \in AlertIds :
    /\ alerts[a] # None /\ a[2] = b[2]
    /\ IsActiveFor(alerts[a], alerts[a].product)
    /\ IsActiveFor(alerts[b], alerts[a].product)
    => a = b

\* Once a product has moved, it has an active alert of a kind exactly when
\* its committed row meets that kind's condition.  Code: evaluate, run in
\* the transaction of whoever changed the stock.
AlertsFollowStock ==
  \A p \in Products : ledger[p] # <<>> =>
    \A kind \in AlertKinds :
      Condition(kind, products[p]) <=>
        \E a \in AlertIds : a[2] = kind /\ IsActiveFor(alerts[a], p)

\* What an alert says about its opening is true of the history: the
\* quantity is one the product did have, and it did cross the threshold.
\* Code: the snapshot columns filled by evaluate.
AlertSnapshotsTrue ==
  \A a \in AlertIds : alerts[a] # None =>
    LET row == alerts[a]
        balances == {ledger[row.product][i].balance_after : i \in 1..Len(ledger[row.product])}
    IN  /\ products[row.product] # None
        /\ row.triggered_quantity \in balances \cup {0}
        /\ IF a[2] = "low_stock"
           THEN row.triggered_quantity <= row.threshold_at_trigger
           ELSE row.triggered_quantity > row.threshold_at_trigger

\* A call whose transaction has committed, whatever its client is told.
Committed(r) == op[r] # None /\ pc[r] \in {"refresh", "ok", "unconfirmed"}

\* No movement is recorded twice.  One answered 201 is in the ledger while
\* its product exists, and so is one whose refresh failed after the commit,
\* although its client gets a 500; one that was refused, that failed before
\* the commit or is still on its way to it is not there at all.  Code: the
\* single commit of MovementService.create.
AnswersMatchLedger ==
  \A r \in Requests : op[r] # None =>
    (op[r].kind = "movement" =>
      LET rows == {i \in 1..Len(ledger[op[r].product]) : ledger[op[r].product][i].at = r}
      IN  /\ \A i, j \in rows : i = j
          /\ Committed(r) /\ products[op[r].product] # None => rows # {}
          /\ ~Committed(r) /\ pc[r] # "lost" => rows = {})

\* A committed call that ran evaluate on product p.
Evaluated(r, p) ==
  /\ Committed(r)
  /\ \/ op[r] \in MovementOperation
     \/ op[r] \in PatchOperation /\ op[r].min_stock # Unset
  /\ op[r].product = p

\* A committed PATCH that changed max_stock and did not run evaluate.
OnlyMaximum(r, p) ==
  /\ Committed(r)
  /\ op[r] \in PatchOperation /\ op[r].min_stock = Unset /\ op[r].max_stock # Unset
  /\ op[r].product = p

\* An alert resolved by a client, whatever the stock.
ResolvedByHand(r) == Committed(r) /\ op[r].kind = "resolve"

\* One call at a time, alerts and stock part in two ways only: a PATCH of
\* max_stock alone leaves the overstock alert as it was, and an alert may be
\* resolved by hand while its condition holds.  The next movement or PATCH
\* of min_stock puts both right.  Code: the condition that
\* ProductService.update sets before evaluate, and AlertService.resolve.
DriftExplained ==
  \A p \in Products, kind \in AlertKinds : ledger[p] # <<>> =>
    \/ Condition(kind, products[p]) <=>
         \E a \in AlertIds : a[2] = kind /\ IsActiveFor(alerts[a], p)
    \/ \E r \in Requests :
         /\ \/ kind = "overstock" /\ OnlyMaximum(r, p)
            \/ Condition(kind, products[p]) /\ ResolvedByHand(r)
         /\ \A s \in Requests : s > r => ~Evaluated(s, p)

\* The history lists the newest created_at first, so its first row carries
\* the current balance.  Code: list_history, and created_at = now().
NewestRowIsCurrent ==
  \A p \in Products : \A i \in 1..Len(ledger[p]) :
    (\A j \in 1..Len(ledger[p]) : ledger[p][j].at <= ledger[p][i].at)
      => ledger[p][i].balance_after = products[p].quantity

----------------------------------------------------------------------------
(* Action properties. *)

Rank(status) ==
  CASE status = "open" -> 1 [] status = "acknowledged" -> 2 [] status = "resolved" -> 3

\* An alert only goes forward, open to acknowledged to resolved, and its
\* snapshot never changes.  One request at a time that is the order in which
\* the guards look at the status; beside a movement it fails (run AckRace).
\* Code: evaluate, acknowledge and resolve.
AlertsOnlyAdvance ==
  [][\A a \in AlertIds : alerts[a] # None /\ alerts'[a] # None =>
       /\ Rank(alerts'[a].status) >= Rank(alerts[a].status)
       /\ alerts'[a] = [alerts[a] EXCEPT !.status = alerts'[a].status]]_vars

\* Everything between a movement's locking read and its commit is invisible
\* to others and takes effect at once: with the transactions hidden, this
\* is the ledger of StockLedger.  Code: MovementService.create.
Stock == INSTANCE StockLedger WITH
  quantity <- [p \in Products |-> IF products[p] = None THEN None ELSE products[p].quantity]

ImplementsStockLedger == Stock!LedgerSpec

----------------------------------------------------------------------------
(* Liveness. *)

\* Whatever it has to wait for, a request that began is answered.  Code:
\* every handler, with PostgreSQL's deadlock detector to fall back on.
EveryRequestAnswered ==
  \A r \in Requests : Running(r) ~> pc[r] \in Answers

----------------------------------------------------------------------------
(* The inductive invariant behind TypeOK, LedgerSound and the refinement.  *)

\* From the first statement of evaluate to the commit.
EvaluateSteps == AlertKinds \cup {"open", "key_share", "close", "commit"}

\* Each step belongs to its kind of call and finds what earlier steps read.
RequestShape ==
  \A r \in Requests :
    /\ pc[r] = "lock" => op[r] \in MovementOperation
    /\ pc[r] = "flush" => op[r] \in PatchOperation /\ view[r] # None
    /\ pc[r] \in EvaluateSteps =>
         op[r] \in MovementOperation \cup PatchOperation /\ view[r] # None
    /\ pc[r] = "refresh" => op[r] \in MovementOperation \cup PatchOperation
    /\ pc[r] \in {"children", "delete", "cascade"} => op[r] \in DeleteOperation
    /\ pc[r] \in {"open", "key_share", "close", "acknowledge", "reacknowledge", "resolve"}
         => target[r] # None
    /\ pc[r] = "open" => Condition(target[r][2], view[r])

\* A row lock is held by a request in the middle of its transaction, on a
\* row that exists, and no two requests hold conflicting locks; the DELETE
\* that cascades holds the strongest.
LockSafety ==
  /\ \A r \in Requests : pc[r] = "cascade" => lock[r] = "update"
  /\ \A r \in Requests : lock[r] # "none" =>
       /\ pc[r] \in EvaluateSteps \cup {"cascade"}
       /\ products[op[r].product] # None
  /\ \A r, s \in Requests :
       r # s /\ lock[r] # "none" /\ lock[s] # "none" /\ op[r].product = op[s].product
         => ~Conflict(lock[r], lock[s])

\* A product row waits to be committed only under a lock that keeps other
\* writers away; a movement has its balance from the row as committed, a
\* PATCH keeps that row's quantity.
PendingSound ==
  \A r \in Requests :
    /\ pend[r] # None => lock[r] \in {"update", "no_key"} /\ pc[r] \in EvaluateSteps
    /\ pc[r] \in EvaluateSteps /\ op[r] \in MovementOperation =>
         /\ pend[r] # None
         /\ lock[r] = "update"
         /\ pend[r].quantity =
              ApplyMovement(products[op[r].product].quantity, op[r].type, op[r].quantity)
    /\ pend[r] # None /\ op[r] \in PatchOperation =>
         pend[r].quantity = products[op[r].product].quantity

InventoryInv ==
  TypeOK /\ RequestShape /\ LockSafety /\ PendingSound /\ LedgerSound
=============================================================================
