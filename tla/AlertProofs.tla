----------------------------- MODULE AlertProofs -----------------------------
(***************************************************************************)
(* Proofs about the alerts and the answers of Inventory, on top of the     *)
(* inductive invariant of InventoryProofs: one active alert per product    *)
(* and kind, true snapshots, answers that agree with the ledger for any    *)
(* mix of calls; alerts that follow the stock when all calls are movements *)
(* and deletions; and when calls come one at a time, alerts that only go   *)
(* forward, and the two ways in which they and the stock part.             *)
(***************************************************************************)
EXTENDS InventoryProofs, FiniteSetTheorems

\* The transaction of the request is over, or not begun.
Ended == {"refresh"} \cup Answers

\* Statements before the request's first alert row.
Unwritten ==
  {"idle", "lock", "flush", "low_stock", "acknowledge", "reacknowledge", "resolve",
   "children"} \cup Ended

Written(r, a) == staged[r][a] # Unset

\* Alerts are inserted by their own request, and committed once.
AlertsFresh == \A a \in AlertIds : alerts[a] # None => pc[a[1]] \in Ended

\* No two transactions have written the same alert.
WritesApart ==
  \A r, s \in Requests : r # s => \A a \in AlertIds : ~Written(r, a) \/ ~Written(s, a)

\* The row that InsertAlert writes.
Opened(r, kind) ==
  [product |-> op[r].product, status |-> "open",
   triggered_quantity |-> view[r].quantity,
   threshold_at_trigger |-> Threshold(kind, view[r])]

\* Which alerts a transaction has written by now: at most one of a kind,
\* in the order of the kinds.
WritesOrdered(r) ==
  /\ pc[r] \in Unwritten => \A a \in AlertIds : ~Written(r, a)
  /\ pc[r] \in {"delete", "cascade"} => \A a \in AlertIds : staged[r][a] \in {None, Unset}
  /\ pc[r] \in EvaluateSteps => \A a \in AlertIds : staged[r][a] # None
  /\ pc[r] = "overstock" => \A a \in AlertIds : Written(r, a) => a[2] = "low_stock"
  /\ pc[r] \in {"open", "close"} =>
       \A a \in AlertIds : Written(r, a) => a[2] = "low_stock" /\ target[r][2] = "overstock"
  /\ pc[r] = "key_share" =>
       \A a \in AlertIds : Written(r, a) =>
         a = target[r] \/ (a[2] = "low_stock" /\ target[r][2] = "overstock")
  /\ pc[r] \in EvaluateSteps =>
       \A a, b \in AlertIds : Written(r, a) /\ Written(r, b) /\ a[2] = b[2] => a = b

\* The alert that the next statement writes, and those it has deleted.
TargetSound(r) ==
  /\ \A a \in AlertIds : staged[r][a] = None => pc[a[1]] \in Ended
  /\ pc[r] \in {"open", "key_share"} => target[r][1] = r
  /\ pc[r] = "key_share" => staged[r][target[r]] \notin {None, Unset}
  /\ pc[r] = "close" =>
       /\ pc[target[r][1]] \in Ended
       /\ alerts[target[r]] # None => alerts[target[r]].product = op[r].product

\* What has been written: a new alert, true of the session's product and
\* under a lock on it as soon as the foreign key is checked, or a committed
\* one resolved.
WritesSound(r) ==
  \A a \in AlertIds : staged[r][a] \notin {None, Unset} =>
    \/ /\ a[1] = r /\ alerts[a] = None
       /\ staged[r][a] = Opened(r, a[2]) /\ Condition(a[2], view[r])
       /\ lock[r] # "none" \/ (pc[r] = "key_share" /\ target[r] = a)
    \/ /\ alerts[a] # None /\ alerts[a].product = op[r].product
       /\ staged[r][a] = [alerts[a] EXCEPT !.status = "resolved"]

\* Quantities that the product has had.
Balances(p) == {ledger[p][i].balance_after : i \in 1..Len(ledger[p])} \cup {0}

\* What AlertSnapshotsTrue says of one row, its product named.
SnapshotTrue(a, p) ==
  /\ alerts[a].product = p /\ products[p] # None
  /\ alerts[a].triggered_quantity \in Balances(p)
  /\ IF a[2] = "low_stock"
     THEN alerts[a].triggered_quantity <= alerts[a].threshold_at_trigger
     ELSE alerts[a].triggered_quantity > alerts[a].threshold_at_trigger

\* The session's product is the one about to be committed, or one that was
\* committed once.
ViewSound(r) ==
  /\ pc[r] \in EvaluateSteps /\ op[r] \in MovementOperation => view[r] = pend[r]
  /\ view[r] # None /\ op[r] \in PatchOperation /\ products[op[r].product] # None =>
       view[r].quantity \in Balances(op[r].product)

\* The key of a new alert is free of the committed rows and of everybody's
\* uncommitted ones.
KeysApart ==
  \A r \in Requests, a \in AlertIds : staged[r][a] \notin {None, Unset} =>
    (staged[r][a].status \in ActiveAlertStatuses =>
       \A b \in AlertIds : b[2] = a[2] =>
         /\ ~IsActiveFor(alerts[b], staged[r][a].product)
         /\ \A s \in Requests :
              IsActiveFor(staged[s][b], staged[r][a].product) => s = r /\ b = a)

RequestSound(r) == WritesOrdered(r) /\ TargetSound(r) /\ WritesSound(r) /\ ViewSound(r)

AlertInv ==
  /\ AlertsFresh /\ WritesApart /\ KeysApart
  /\ \A r \in Requests : RequestSound(r)
  /\ OneActiveAlert /\ AlertSnapshotsTrue

----------------------------------------------------------------------------
(* The answers. *)

RowsOf(r, p) == {i \in 1..Len(ledger[p]) : ledger[p][i].at = r}

\* A movement is recorded once, by its own commit and for its own product;
\* nothing else is ever recorded.
AnswersInv ==
  \A r \in Requests :
    /\ \A p \in Products :
         \/ pc[r] \notin {"refresh", "ok", "unconfirmed", "lost"}
         \/ op[r] \notin MovementOperation
         \/ p # op[r].product
         => RowsOf(r, p) = {}
    /\ pc[r] \in {"acknowledge", "reacknowledge", "resolve"} => op[r] \notin MovementOperation
    /\ op[r] \in MovementOperation /\ pc[r] \in {"refresh", "ok", "unconfirmed"}
         /\ products[op[r].product] # None =>
           \E i \in 1..Len(ledger[op[r].product]) : RowsOf(r, op[r].product) = {i}
    /\ \A p \in Products : \A i, j \in RowsOf(r, p) : i = j

----------------------------------------------------------------------------
(* Movements and deletions alone. *)

OnlyMovementsAndDeletes == Operations \subseteq MovementOperation \cup DeleteOperation

\* With what request r has written, the alert of the kind fits its product.
Settled(r, kind) ==
  Condition(kind, view[r]) <=>
    \E a \in AlertIds : a[2] = kind /\ IsActiveFor(Seen(r, a), op[r].product)

\* What evaluate has seen to, and what it is about to.
EvaluatedSound(r) ==
  /\ pc[r] = "overstock" => Settled(r, "low_stock")
  /\ pc[r] \in {"open", "key_share", "close"} /\ target[r][2] = "overstock" =>
       Settled(r, "low_stock")
  /\ pc[r] = "open" =>
       \A a \in AlertIds : a[2] = target[r][2] => ~IsActiveFor(alerts[a], op[r].product)
  /\ pc[r] = "key_share" => Settled(r, target[r][2])
  /\ pc[r] = "close" =>
       ~Condition(target[r][2], view[r]) /\ IsActiveFor(alerts[target[r]], op[r].product)
  /\ pc[r] = "commit" => \A kind \in AlertKinds : Settled(r, kind)

FollowInv ==
  /\ \A r \in Requests :
       /\ pc[r] \in {"idle", "lock", "children", "delete", "cascade"} \cup EvaluateSteps \cup Ended
       /\ pc[r] \in EvaluateSteps => op[r] \in MovementOperation
       /\ EvaluatedSound(r)
  /\ AlertsFollowStock

----------------------------------------------------------------------------
(* Facts about the data. *)

LEMMA StepKinds ==
  /\ Ended = {"refresh", "ok", "not_found", "conflict", "error", "unconfirmed", "lost"}
  /\ EvaluateSteps = {"low_stock", "overstock", "open", "key_share", "close", "commit"}
  /\ Unwritten = {"idle", "lock", "flush", "low_stock", "acknowledge", "reacknowledge",
                   "resolve", "children"} \cup Ended
BY DEF Ended, Answers, EvaluateSteps, AlertKinds, Unwritten

LEMMA SnapshotForm ==
  ASSUME TypeOK
  PROVE  AlertSnapshotsTrue <=>
           \A a \in AlertIds : alerts[a] # None => \E p \in Products : SnapshotTrue(a, p)
<1>1. ASSUME NEW a \in AlertIds, alerts[a] # None
      PROVE  alerts[a].product \in Products
  BY <1>1 DEF TypeOK, AlertRow
<1>2. ASSUME NEW a \in AlertIds, NEW p \in Products, alerts[a].product = p
      PROVE  Balances(alerts[a].product) = Balances(p)
  BY <1>2
<1> QED
  BY <1>1, <1>2 DEF AlertSnapshotsTrue, SnapshotTrue, Balances

LEMMA AlertIdTypes ==
  /\ \A a \in AlertIds : a = <<a[1], a[2]>> /\ a[1] \in Requests /\ a[2] \in AlertKinds
  /\ \A r \in Requests, kind \in AlertKinds :
       <<r, kind>> \in AlertIds /\ <<r, kind>>[1] = r /\ <<r, kind>>[2] = kind
BY DEF AlertIds

LEMMA AlertRowTypes ==
  ASSUME NEW row \in AlertRow
  PROVE  /\ row # None /\ row # Unset
         /\ row.product \in Products /\ row.status \in AlertStatuses
         /\ row.triggered_quantity \in Nat /\ row.threshold_at_trigger \in Nat
         /\ [row EXCEPT !.status = "resolved"] =
              [product |-> row.product, status |-> "resolved",
               triggered_quantity |-> row.triggered_quantity,
               threshold_at_trigger |-> row.threshold_at_trigger]
BY SentinelAssumption, InstanceAssumption DEF AlertRow

\* A product row that meets a condition has a limit to compare with.
LEMMA OpenedTypes ==
  ASSUME InventoryInv, NEW r \in Requests, NEW kind \in AlertKinds,
         pc[r] \in EvaluateSteps, Condition(kind, view[r])
  PROVE  /\ Opened(r, kind) \in AlertRow
         /\ Opened(r, kind).product = op[r].product
         /\ Opened(r, kind).status = "open"
         /\ Opened(r, kind).triggered_quantity = view[r].quantity
         /\ IF kind = "low_stock"
            THEN Opened(r, kind).triggered_quantity <= Opened(r, kind).threshold_at_trigger
            ELSE Opened(r, kind).triggered_quantity > Opened(r, kind).threshold_at_trigger
<1>1. view[r] \in ProductRow /\ op[r] \in MovementOperation \cup PatchOperation
  BY DEF InventoryInv, TypeOK, RequestShape
<1>2. op[r].product \in Products
  BY <1>1, MovementFields, PatchFields
<1>3. /\ view[r].quantity \in 0..MaxInt
      /\ view[r].min_stock \in Nat /\ view[r].max_stock \in Nat \cup {None}
  BY <1>1 DEF ProductRow
<1>4. Threshold(kind, view[r]) \in Nat
  BY <1>3 DEF Condition, Threshold, AlertKinds
<1> QED
  BY <1>2, <1>3, <1>4 DEF Opened, AlertRow, AlertStatuses, Condition, Threshold, AlertKinds

----------------------------------------------------------------------------
(* A step of one request. *)

\* A step of request r that commits nothing.
Local(r) ==
  /\ UNCHANGED <<products, ledger, alerts>>
  /\ \A s \in Requests \ {r} :
       /\ pc'[s] = pc[s] /\ op'[s] = op[s] /\ lock'[s] = lock[s] /\ view'[s] = view[s]
       /\ pend'[s] = pend[s] /\ staged'[s] = staged[s] /\ target'[s] = target[s]
  /\ pc[r] \in Ended => pc'[r] \in Ended

\* The others are as sound as they were.
LEMMA OthersKept ==
  ASSUME InventoryInv, AlertInv, NEW r \in Requests, Local(r), NEW s \in Requests \ {r}
  PROVE  RequestSound(s)'
<1>1. /\ UNCHANGED <<products, ledger, alerts>>
      /\ pc'[s] = pc[s] /\ op'[s] = op[s] /\ lock'[s] = lock[s] /\ view'[s] = view[s]
      /\ pend'[s] = pend[s] /\ staged'[s] = staged[s] /\ target'[s] = target[s]
  BY DEF Local
<1>2. \A t \in Requests : pc[t] \in Ended => pc'[t] \in Ended
  BY DEF Local
<1>3. WritesOrdered(s)' /\ ViewSound(s)'
  BY <1>1 DEF AlertInv, RequestSound, WritesOrdered, Written, ViewSound, Balances
<1>4. WritesSound(s)'
  BY <1>1 DEF AlertInv, RequestSound, WritesSound, Opened
<1>5. TargetSound(s)'
  <2>1. pc[s] = "close" => target[s][1] \in Requests
    BY AlertIdTypes DEF InventoryInv, TypeOK, RequestShape
  <2> QED
    BY <1>1, <1>2, <2>1, AlertIdTypes DEF AlertInv, RequestSound, TargetSound
<1> QED
  BY <1>3, <1>4, <1>5 DEF RequestSound

LEMMA LocalAlerts ==
  ASSUME InventoryInv, AlertInv, NEW r \in Requests, Local(r),
         WritesApart', KeysApart', RequestSound(r)'
  PROVE  AlertInv'
<1>1. \A s \in Requests : RequestSound(s)'
  BY OthersKept
<1>2. AlertsFresh'
  <2>1. \A t \in Requests : pc[t] \in Ended => pc'[t] \in Ended
    BY DEF Local
  <2> QED
    BY <2>1, AlertIdTypes DEF AlertInv, AlertsFresh, Local
<1>3. OneActiveAlert' /\ AlertSnapshotsTrue'
  BY DEF Local, AlertInv, OneActiveAlert, IsActiveFor, AlertSnapshotsTrue
<1> QED
  BY <1>1, <1>2, <1>3 DEF AlertInv

\* A request that writes no alert, or drops what it wrote.
LEMMA WritesKept ==
  ASSUME AlertInv, NEW r \in Requests, Local(r),
         \A a \in AlertIds : staged'[r][a] \in {staged[r][a], Unset}
  PROVE  WritesApart' /\ KeysApart'
<1>1. \A s \in Requests, a \in AlertIds : staged'[s][a] \in {staged[s][a], Unset}
  BY DEF Local
<1>2. WritesApart'
  BY <1>1 DEF AlertInv, WritesApart, Written
<1>3. KeysApart'
  <2> SUFFICES ASSUME NEW s \in Requests, NEW a \in AlertIds, staged'[s][a] \notin {None, Unset},
                      staged'[s][a].status \in ActiveAlertStatuses,
                      NEW b \in AlertIds, b[2] = a[2]
               PROVE  /\ ~IsActiveFor(alerts'[b], staged'[s][a].product)
                      /\ \A t \in Requests :
                           IsActiveFor(staged'[t][b], staged'[s][a].product) => t = s /\ b = a
    BY DEF KeysApart
  <2>1. staged'[s][a] = staged[s][a]
    BY <1>1
  <2>2. \A t \in Requests : staged'[t][b] = staged[t][b] \/ staged'[t][b] = Unset
    BY <1>1
  <2> QED
    BY <2>1, <2>2 DEF AlertInv, KeysApart, Local, IsActiveFor
<1> QED
  BY <1>2, <1>3

\* A request that has written no alert goes on.
LEMMA UnwrittenAlerts ==
  ASSUME InventoryInv, AlertInv, NEW r \in Requests, Local(r),
         pc'[r] \in Unwritten \cup {"commit"}, \A a \in AlertIds : staged'[r][a] = Unset, ViewSound(r)'
  PROVE  AlertInv'
<1>1. /\ pc'[r] \notin {"delete", "cascade", "overstock", "open", "key_share", "close"}
      /\ pc'[r] \in EvaluateSteps => pc'[r] \in {"low_stock", "commit"}
  BY StepKinds
<1>2. WritesOrdered(r)' /\ TargetSound(r)' /\ WritesSound(r)'
  BY <1>1, SentinelAssumption, StepKinds
     DEF WritesOrdered, Written, TargetSound, WritesSound
<1>3. RequestSound(r)'
  BY <1>2 DEF RequestSound
<1> QED
  BY <1>3, WritesKept, LocalAlerts

\* The end of a transaction without its writes.
LEMMA AbortAlerts ==
  ASSUME InventoryInv, AlertInv, NEW r \in Requests, NEW answer \in Answers, Abort(r, answer)
  PROVE  AlertInv'
<1>1. /\ UNCHANGED <<products, ledger, alerts, op>>
      /\ pc' = [pc EXCEPT ![r] = answer] /\ lock' = [lock EXCEPT ![r] = "none"]
      /\ view' = [view EXCEPT ![r] = None] /\ pend' = [pend EXCEPT ![r] = None]
      /\ staged' = [staged EXCEPT ![r] = [a \in AlertIds |-> Unset]]
      /\ target' = [target EXCEPT ![r] = None]
  BY DEF Abort, Release, Goto, database
<1>2. /\ pc'[r] = answer /\ view'[r] = None /\ answer \in Ended
      /\ \A a \in AlertIds : staged'[r][a] = Unset
  BY <1>1 DEF InventoryInv, TypeOK, Ended
<1>3. Local(r)
  BY <1>1, <1>2 DEF Local, InventoryInv, TypeOK
<1>4. pc'[r] \in Unwritten /\ ViewSound(r)'
  BY <1>2, StepKinds DEF ViewSound
<1> QED
  BY <1>2, <1>3, <1>4, UnwrittenAlerts

----------------------------------------------------------------------------
(* Calls arrive, and the statements before evaluate. *)

\* The committed quantity is one that the product has had.
LEMMA QuantityInBalances ==
  ASSUME InventoryInv, NEW p \in Products, products[p] # None
  PROVE  products[p].quantity \in Balances(p)
<1>1. ledger[p] \in Seq([at : Requests, type : MovementTypes, quantity : Quantities,
                         balance_after : 0..MaxInt])
  BY DEF InventoryInv, TypeOK
<1>2. ledger[p] # <<>> => Len(ledger[p]) \in 1..Len(ledger[p])
  BY <1>1
<1>3. products[p].quantity = Closing(ledger[p])
  BY DEF InventoryInv, LedgerSound
<1> QED
  BY <1>2, <1>3 DEF Closing, Balances

LEMMA AskAlerts ==
  ASSUME InventoryInv, AlertInv, NEW r \in Requests, Ask(r)
  PROVE  AlertInv'
<1>1. PICK o \in Operations :
        \/ AskMovement(r, o)
        \/ AskPatch(r, o)
        \/ AskDelete(r, o)
        \/ \E a \in AlertIds : AskAlert(r, o, a)
  BY DEF Ask
<1>2. /\ pc[r] = "idle"
      /\ op' = [op EXCEPT ![r] = o] /\ op'[r] = o
      /\ UNCHANGED <<products, ledger, alerts, lock, pend, staged>>
  BY <1>1 DEF AskMovement, AskPatch, AskDelete, AskAlert, Admits, database, transaction,
              InventoryInv, TypeOK
<1>3. \A a \in AlertIds : staged'[r][a] = Unset
  BY <1>2, StepKinds DEF AlertInv, RequestSound, WritesOrdered, Written
<1>4. /\ o \in Operation
      /\ o \in MovementOperation => o.kind = "movement"
      /\ o \in PatchOperation => o.kind = "patch" /\ o.product \in Products
      /\ o.kind = "patch" => o \in PatchOperation
  BY InstanceAssumption
     DEF Operation, MovementOperation, PatchOperation, DeleteOperation, AlertOperation
<1>5. PICK step \in Unwritten \ EvaluateSteps :
        pc' = [pc EXCEPT ![r] = step]
  BY <1>1, StepKinds, Zenon DEF AskMovement, AskPatch, AskDelete, AskAlert, Goto, AlertStep
<1>6. Local(r) /\ pc'[r] = step
  <2>1. pc'[r] = step /\ pc[r] \notin Ended
    BY <1>2, <1>5, StepKinds DEF InventoryInv, TypeOK
  <2>2. \A s \in Requests \ {r} : pc'[s] = pc[s] /\ op'[s] = op[s]
    BY <1>2, <1>5 DEF InventoryInv, TypeOK
  <2>3. \A s \in Requests \ {r} : view'[s] = view[s] /\ target'[s] = target[s]
    BY <1>1 DEF AskMovement, AskPatch, AskDelete, AskAlert, transaction, InventoryInv, TypeOK
  <2> QED
    BY <1>2, <2>1, <2>2, <2>3 DEF Local
<1>7. ViewSound(r)'
  <2>1. pc'[r] \notin EvaluateSteps
    BY <1>6
  <2>2. CASE o.kind # "patch"
    BY <1>2, <1>4, <2>1, <2>2 DEF ViewSound
  <2>3. CASE o.kind = "patch"
    <3>1. view' = [view EXCEPT ![r] = products[o.product]]
      BY <1>1, <2>3 DEF AskMovement, AskPatch, AskDelete, AskAlert
    <3>2. view'[r] = products[o.product] /\ o.product \in Products
      BY <1>4, <2>3, <3>1 DEF InventoryInv, TypeOK
    <3> QED
      BY <1>2, <2>1, <3>2, QuantityInBalances DEF ViewSound, Balances
  <2> QED
    BY <2>2, <2>3
<1> QED
  BY <1>3, <1>5, <1>6, <1>7, UnwrittenAlerts

LEMMA LockProductAlerts ==
  ASSUME InventoryInv, AlertInv, NEW r \in Requests, LockProduct(r)
  PROVE  AlertInv'
<1> DEFINE balance == ApplyMovement(products[op[r].product].quantity, op[r].type, op[r].quantity)
           moved == [products[op[r].product] EXCEPT !.quantity = balance]
<1>1. pc[r] = "lock" /\ op[r] \in MovementOperation
  BY DEF LockProduct, InventoryInv, RequestShape
<1>2. CASE \E answer \in Answers : Abort(r, answer)
  BY <1>2, AbortAlerts
<1>3. CASE /\ view' = [view EXCEPT ![r] = moved]
           /\ pend' = [pend EXCEPT ![r] = moved]
           /\ lock' = [lock EXCEPT ![r] = LockWanted(r)]
           /\ Goto(r, "low_stock")
           /\ UNCHANGED <<database, op, staged, target>>
  <2>1. /\ pc' = [pc EXCEPT ![r] = "low_stock"] /\ pc'[r] = "low_stock"
        /\ view'[r] = moved /\ pend'[r] = moved
        /\ UNCHANGED <<products, ledger, alerts, op, staged, target>>
    BY <1>3 DEF Goto, database, InventoryInv, TypeOK
  <2>2. Local(r)
    BY <1>1, <1>3, <2>1, StepKinds DEF Local, InventoryInv, TypeOK
  <2>3. ViewSound(r)'
    <3>1. op[r] \notin PatchOperation
      BY <1>1, MovementFields, PatchFields
    <3> QED
      BY <2>1, <3>1 DEF ViewSound
  <2>4. \A a \in AlertIds : staged'[r][a] = Unset
    BY <1>1, <2>1, StepKinds DEF AlertInv, RequestSound, WritesOrdered, Written
  <2> QED
    BY <2>1, <2>2, <2>3, <2>4, UnwrittenAlerts, StepKinds
<1> QED
  BY <1>2, <1>3 DEF LockProduct, Answers

LEMMA RefreshAlerts ==
  ASSUME InventoryInv, AlertInv, NEW r \in Requests, Refresh(r)
  PROVE  AlertInv'
<1>1. /\ pc[r] = "refresh" /\ \E answer \in {"ok", "unconfirmed"} : pc' = [pc EXCEPT ![r] = answer]
      /\ UNCHANGED <<products, ledger, alerts, op, lock, view, pend, staged, target>>
  BY DEF Refresh, Goto, database, transaction
<1>2. pc'[r] \in {"ok", "unconfirmed"}
  BY <1>1 DEF InventoryInv, TypeOK
<1>3. Local(r) /\ pc'[r] \in Unwritten /\ pc'[r] \notin EvaluateSteps
  BY <1>1, <1>2, StepKinds DEF Local, InventoryInv, TypeOK
<1>4. ViewSound(r)' /\ \A a \in AlertIds : staged'[r][a] = Unset
  BY <1>1, <1>3, StepKinds
     DEF AlertInv, RequestSound, ViewSound, Balances, WritesOrdered, Written
<1> QED
  BY <1>3, <1>4, UnwrittenAlerts

LEMMA FlushPatchAlerts ==
  ASSUME InventoryInv, AlertInv, NEW r \in Requests, FlushPatch(r)
  PROVE  AlertInv'
<1> DEFINE p == op[r].product
           written == WithColumns(products[p], view[r], op[r])
           next == IF op[r].min_stock = Unset THEN "commit" ELSE "low_stock"
<1>1. pc[r] = "flush" /\ op[r] \in PatchOperation /\ p \in Products /\ view[r] \in ProductRow
  BY PatchFields DEF FlushPatch, InventoryInv, RequestShape, TypeOK
<1>2. op[r] \notin MovementOperation
  BY <1>1, MovementFields, PatchFields
<1>3. view[r] # None
  BY <1>1, SentinelAssumption
<1>4. CASE Abort(r, "error")
  BY <1>4, AbortAlerts DEF Answers
<1>5. CASE /\ view'[r] = view[r] \/ view'[r] = WithColumns(view[r], view[r], op[r])
           /\ Goto(r, next) /\ Local(r) /\ UNCHANGED <<database, op, staged, target>>
  <2>1. /\ pc'[r] = next
        /\ UNCHANGED <<products, ledger, alerts, op, staged, target>>
    BY <1>5 DEF Goto, database, InventoryInv, TypeOK
  <2>2. view'[r].quantity = view[r].quantity
    BY <1>1, <1>5, WithColumnsType
  <2>3. ViewSound(r)'
    BY <1>2, <1>1, <1>3, <2>1, <2>2 DEF AlertInv, RequestSound, ViewSound, Balances
  <2>4. \A a \in AlertIds : staged'[r][a] = Unset
    BY <1>1, <2>1, StepKinds DEF AlertInv, RequestSound, WritesOrdered, Written
  <2> QED
    BY <1>5, <2>1, <2>3, <2>4, UnwrittenAlerts, StepKinds
<1>6. CASE /\ lock' = [lock EXCEPT ![r] = LockWanted(r)]
           /\ pend' = [pend EXCEPT ![r] = written]
           /\ view' = [view EXCEPT ![r] = WithColumns(view[r], view[r], op[r])]
           /\ Goto(r, next)
           /\ UNCHANGED <<database, op, staged, target>>
  <2>1. Local(r)
    BY <1>1, <1>6, StepKinds DEF Local, Goto, database, InventoryInv, TypeOK
  <2>2. view'[r] = WithColumns(view[r], view[r], op[r])
    BY <1>6 DEF InventoryInv, TypeOK
  <2> QED
    BY <1>5, <1>6, <2>1, <2>2
<1>7. CASE Goto(r, next) /\ UNCHANGED <<database, op, transaction>>
  <2>1. Local(r)
    BY <1>1, <1>7, StepKinds DEF Local, Goto, database, transaction, InventoryInv, TypeOK
  <2> QED
    BY <1>5, <1>7, <2>1 DEF transaction
<1> QED
  BY <1>4, <1>6, <1>7 DEF FlushPatch

----------------------------------------------------------------------------
(* AlertService.evaluate. *)

\* In evaluate, the session's request and product stay what they are.
LEMMA EvaluatingView ==
  ASSUME InventoryInv, AlertInv, NEW r \in Requests, Local(r), pc[r] \in EvaluateSteps,
         op'[r] = op[r], view'[r] = view[r], pend'[r] = pend[r]
  PROVE  ViewSound(r)'
BY DEF AlertInv, RequestSound, ViewSound, Local, Balances

LEMMA ReadActiveAlertAlerts ==
  ASSUME InventoryInv, AlertInv, NEW r \in Requests, ReadActiveAlert(r)
  PROVE  AlertInv'
<1> DEFINE kind == pc[r]
           active == {a \in AlertIds : a[2] = kind /\ IsActiveFor(Seen(r, a), op[r].product)}
<1>1. /\ kind \in AlertKinds /\ pc[r] \in {"low_stock", "overstock"}
      /\ UNCHANGED <<products, ledger, alerts, op, lock, view, pend, staged>>
  BY DEF ReadActiveAlert, database, AlertKinds
<1>2. PICK step \in {"open", "close", "overstock", "commit"} :
        /\ pc' = [pc EXCEPT ![r] = step]
        /\ step = "open" => target' = [target EXCEPT ![r] = <<r, kind>>]
        /\ step = "close" => \E a \in active : target' = [target EXCEPT ![r] = a]
        /\ step \in {"overstock", "commit"} => UNCHANGED target
        /\ step = "overstock" => kind = "low_stock"
  BY DEF ReadActiveAlert, Goto, AfterKind, AlertKinds
<1>3. pc'[r] = step /\ Local(r)
  BY <1>1, <1>2, StepKinds DEF Local, InventoryInv, TypeOK
<1>4. /\ \A a \in AlertIds : staged[r][a] # None
      /\ \A a, b \in AlertIds : Written(r, a) /\ Written(r, b) /\ a[2] = b[2] => a = b
      /\ \A a \in AlertIds : Written(r, a) => a[2] = "low_stock" /\ kind = "overstock"
  BY <1>1, StepKinds DEF AlertInv, RequestSound, WritesOrdered
<1>5. /\ step = "open" => target'[r] = <<r, kind>>
      /\ step = "close" => target'[r] \in active
  BY <1>2 DEF InventoryInv, TypeOK
<1>6. step \in {"open", "close"} => target'[r][2] = kind
  BY <1>5
<1>7. WritesOrdered(r)'
  BY <1>1, <1>2, <1>3, <1>4, <1>6, StepKinds DEF WritesOrdered, Written
<1>8. TargetSound(r)'
  <2>1. ASSUME step = "close"
        PROVE  /\ pc'[target'[r][1]] \in Ended
               /\ alerts'[target'[r]] # None /\ alerts'[target'[r]].product = op'[r].product
    <3>1. target'[r] \in AlertIds /\ ~Written(r, target'[r])
      BY <1>4, <1>5, <2>1
    <3>2. IsActiveFor(alerts[target'[r]], op[r].product)
      BY <1>5, <2>1, <3>1 DEF Seen, Written
    <3>3. pc[target'[r][1]] \in Ended /\ target'[r][1] \in Requests
      BY <3>1, <3>2, AlertIdTypes DEF AlertInv, AlertsFresh, IsActiveFor
    <3> QED
      BY <1>1, <1>3, <3>2, <3>3 DEF IsActiveFor, Local
  <2>2. \A a \in AlertIds : staged'[r][a] # None
    BY <1>1, <1>4
  <2> QED
    BY <1>3, <1>5, <2>1, <2>2 DEF TargetSound
<1>9. WritesSound(r)'
  <2>1. pc[r] # "key_share"
    BY <1>1
  <2> QED
    BY <1>1, <2>1 DEF AlertInv, RequestSound, WritesSound, Opened
<1>10. ViewSound(r)'
  BY <1>1, <1>3, StepKinds, EvaluatingView
<1>11. WritesApart' /\ KeysApart'
  BY <1>1, <1>3, WritesKept
<1> QED
  BY <1>3, <1>7, <1>8, <1>9, <1>10, <1>11, LocalAlerts DEF RequestSound

LEMMA InsertAlertAlerts ==
  ASSUME InventoryInv, AlertInv, NEW r \in Requests, InsertAlert(r)
  PROVE  AlertInv'
<1> DEFINE kind == target[r][2]
           row == Opened(r, kind)
<1>1. /\ pc[r] = "open" /\ BlockedBy(r) = {}
      /\ UNCHANGED <<products, ledger, alerts, op, lock, view, pend, target>>
      /\ \/ /\ pc' = [pc EXCEPT ![r] = AfterKind(kind)] /\ UNCHANGED staged
         \/ /\ ~KeyTaken(r, op[r].product, kind)
            /\ staged' = [staged EXCEPT ![r][target[r]] = row]
            /\ pc' = [pc EXCEPT ![r] = "key_share"]
  BY DEF InsertAlert, Goto, database, Opened
<1>2. /\ target[r] \in AlertIds /\ target[r] = <<r, kind>> /\ kind \in AlertKinds
      /\ Condition(kind, view[r])
  BY <1>1, AlertIdTypes DEF InventoryInv, TypeOK, RequestShape, AlertInv, RequestSound, TargetSound
<1>3. /\ \A a \in AlertIds : staged[r][a] # None
      /\ \A a, b \in AlertIds : Written(r, a) /\ Written(r, b) /\ a[2] = b[2] => a = b
      /\ \A a \in AlertIds : Written(r, a) => a[2] = "low_stock" /\ kind = "overstock"
  BY <1>1, StepKinds DEF AlertInv, RequestSound, WritesOrdered
<1>4. Local(r) /\ pc'[r] \in {AfterKind(kind), "key_share"}
  <2>1. \A s \in Requests \ {r} : pc'[s] = pc[s] /\ staged'[s] = staged[s]
    BY <1>1, <1>2 DEF InventoryInv, TypeOK
  <2>2. pc'[r] \in {AfterKind(kind), "key_share"}
    BY <1>1 DEF InventoryInv, TypeOK
  <2> QED
    BY <1>1, <2>1, <2>2, StepKinds DEF Local
<1>5. ViewSound(r)'
  BY <1>1, <1>4, StepKinds, EvaluatingView
<1>6. CASE /\ pc' = [pc EXCEPT ![r] = AfterKind(kind)] /\ UNCHANGED staged
  <2>1. pc'[r] = AfterKind(kind) /\ AfterKind(kind) \in {"overstock", "commit"}
    BY <1>6 DEF AfterKind, InventoryInv, TypeOK
  <2>2. WritesOrdered(r)' /\ TargetSound(r)'
    BY <1>3, <1>6, <2>1, StepKinds, AlertIdTypes DEF WritesOrdered, Written, TargetSound, AlertKinds
  <2>3. WritesSound(r)'
    BY <1>1, <1>6 DEF AlertInv, RequestSound, WritesSound, Opened
  <2> QED
    BY <1>4, <1>5, <1>6, <2>2, <2>3, WritesKept, LocalAlerts DEF RequestSound
<1>7. CASE /\ ~KeyTaken(r, op[r].product, kind)
           /\ staged' = [staged EXCEPT ![r][target[r]] = row]
           /\ pc' = [pc EXCEPT ![r] = "key_share"]
  <2>1. /\ row \in AlertRow /\ row.product = op[r].product /\ row.status = "open"
        /\ row \notin {None, Unset}
    BY <1>1, <1>2, OpenedTypes, StepKinds, AlertRowTypes
  <2>2. /\ pc'[r] = "key_share" /\ staged'[r][target[r]] = row
        /\ \A a \in AlertIds \ {target[r]} : staged'[r][a] = staged[r][a]
    BY <1>2, <1>7 DEF InventoryInv, TypeOK
  <2>3. alerts[target[r]] = None
    BY <1>1, <1>2, AlertIdTypes, StepKinds DEF AlertInv, AlertsFresh
  <2>4. \A s \in Requests \ {r} : ~Written(s, target[r])
    <3> SUFFICES ASSUME NEW s \in Requests \ {r}, Written(s, target[r]) PROVE FALSE
      OBVIOUS
    <3>1. staged[s][target[r]] \notin {None, Unset}
      BY <1>1, <1>2, AlertIdTypes, StepKinds DEF AlertInv, RequestSound, TargetSound, Written
    <3> QED
      BY <1>2, <2>3, <3>1, AlertIdTypes DEF AlertInv, RequestSound, WritesSound
  <2>5. WritesApart'
    BY <1>4, <2>2, <2>4 DEF AlertInv, WritesApart, Written, Local
  <2>6. WritesOrdered(r)' /\ TargetSound(r)'
    <3>1. target'[r] = target[r] /\ target[r][1] = r
      BY <1>1, <1>2
    <3>2. \A a \in AlertIds : staged'[r][a] # None
      BY <1>3, <2>1, <2>2
    <3>3. \A a, b \in AlertIds : Written(r, a)' /\ Written(r, b)' /\ a[2] = b[2] => a = b
      <4>1. \A a \in AlertIds : Written(r, a)' /\ a[2] = kind => a = target[r]
        BY <1>2, <1>3, <2>2 DEF Written, AlertKinds
      <4>2. \A a \in AlertIds : Written(r, a)' => a = target[r] \/ Written(r, a)
        BY <2>2 DEF Written
      <4> QED
        BY <1>3, <4>1, <4>2
    <3>4. \A a \in AlertIds : Written(r, a)' =>
            a = target[r] \/ (a[2] = "low_stock" /\ target[r][2] = "overstock")
      BY <1>3, <2>2 DEF Written
    <3>5. staged'[r][target'[r]] \notin {None, Unset}
      BY <2>1, <2>2, <3>1
    <3> QED
      BY <2>2, <3>1, <3>2, <3>3, <3>4, <3>5, StepKinds DEF WritesOrdered, TargetSound
  <2>7. WritesSound(r)'
    <3> SUFFICES ASSUME NEW a \in AlertIds, staged'[r][a] \notin {None, Unset}
                 PROVE  \/ /\ a[1] = r /\ alerts[a] = None
                           /\ staged'[r][a] = Opened(r, a[2]) /\ Condition(a[2], view[r])
                           /\ lock[r] # "none" \/ (pc'[r] = "key_share" /\ target[r] = a)
                        \/ /\ alerts[a] # None /\ alerts[a].product = op[r].product
                           /\ staged'[r][a] = [alerts[a] EXCEPT !.status = "resolved"]
      BY <1>1 DEF WritesSound, Opened
    <3>1. CASE a = target[r]
      BY <1>2, <2>2, <2>3, <3>1
    <3>2. CASE a # target[r]
      BY <1>1, <2>2, <3>2 DEF AlertInv, RequestSound, WritesSound
    <3> QED
      BY <3>1, <3>2
  <2>8. KeysApart'
    <3>1. \A s \in Requests, a \in AlertIds :
            (s = r /\ a = target[r]) \/ staged'[s][a] = staged[s][a]
      BY <1>4, <2>2 DEF Local
    <3>2. \A b \in AlertIds : b[2] = kind => ~IsActiveFor(alerts[b], op[r].product)
      <4> SUFFICES ASSUME NEW b \in AlertIds, b[2] = kind, IsActiveFor(alerts[b], op[r].product)
                   PROVE  FALSE
        OBVIOUS
      <4>1. b # target[r]
        BY <2>3 DEF IsActiveFor
      <4>2. ~Written(r, b)
        BY <1>2, <1>3 DEF AlertKinds
      <4> QED
        BY <1>7, <4>1, <4>2 DEF KeyTaken, Written
    <3>3. \A s \in Requests, b \in AlertIds :
            b[2] = kind => ~IsActiveFor(staged[s][b], op[r].product)
      <4> SUFFICES ASSUME NEW s \in Requests, NEW b \in AlertIds, b[2] = kind,
                          IsActiveFor(staged[s][b], op[r].product)
                   PROVE  FALSE
        OBVIOUS
      <4>1. Written(s, b)
        BY DEF IsActiveFor, Written
      <4>2. s # r
        BY <1>2, <1>3, <4>1 DEF AlertKinds
      <4>3. s \in KeyHolders(r, op[r].product, kind)
        BY <4>1, <4>2 DEF KeyHolders, Written
      <4> QED
        BY <1>1, <4>3 DEF BlockedBy
    <3> SUFFICES ASSUME NEW s \in Requests, NEW a \in AlertIds, staged'[s][a] \notin {None, Unset},
                        staged'[s][a].status \in ActiveAlertStatuses,
                        NEW b \in AlertIds, b[2] = a[2]
                 PROVE  /\ ~IsActiveFor(alerts[b], staged'[s][a].product)
                        /\ \A t \in Requests :
                             IsActiveFor(staged'[t][b], staged'[s][a].product) => t = s /\ b = a
      BY <1>1 DEF KeysApart, IsActiveFor
    <3>4. CASE s = r /\ a = target[r]
      <4>1. staged'[s][a].product = op[r].product /\ a[2] = kind
        BY <1>2, <2>1, <2>2, <3>4
      <4> QED
        BY <3>1, <3>2, <3>3, <3>4, <4>1
    <3>5. CASE ~(s = r /\ a = target[r])
      <4>1. staged'[s][a] = staged[s][a]
        BY <3>1, <3>5
      <4>2. ~(a[2] = kind /\ staged[s][a].product = op[r].product)
        BY <3>3, <4>1 DEF IsActiveFor
      <4>3. ASSUME NEW t \in Requests, IsActiveFor(staged'[t][b], staged[s][a].product)
            PROVE  t = s /\ b = a
        <5>1. ~(t = r /\ b = target[r])
          BY <2>1, <2>2, <4>2, <4>3, <1>2 DEF IsActiveFor
        <5> QED
          BY <3>1, <4>1, <4>3, <5>1 DEF AlertInv, KeysApart
      <4> QED
        BY <4>1, <4>3 DEF AlertInv, KeysApart
    <3> QED
      BY <3>4, <3>5
  <2> QED
    BY <1>4, <1>5, <2>5, <2>6, <2>7, <2>8, LocalAlerts DEF RequestSound
<1> QED
  BY <1>1, <1>6, <1>7

LEMMA CheckAlertProductAlerts ==
  ASSUME InventoryInv, AlertInv, NEW r \in Requests, CheckAlertProduct(r)
  PROVE  AlertInv'
<1> DEFINE kind == target[r][2]
<1>1. /\ pc[r] = "key_share"
      /\ pc' = [pc EXCEPT ![r] = AfterKind(kind)]
      /\ UNCHANGED <<products, ledger, alerts, op, view, pend, target>>
      /\ \/ staged' = [staged EXCEPT ![r][target[r]] = Unset] /\ UNCHANGED lock
         \/ lock' = [lock EXCEPT ![r] = LockWanted(r)] /\ UNCHANGED staged
  BY DEF CheckAlertProduct, Goto, database
<1>2. /\ target[r] \in AlertIds /\ kind \in AlertKinds
      /\ pc'[r] = AfterKind(kind) /\ AfterKind(kind) \in {"overstock", "commit"}
  BY <1>1, AlertIdTypes DEF InventoryInv, TypeOK, RequestShape, AfterKind
<1>3. Local(r)
  <2>1. \A s \in Requests \ {r} : pc'[s] = pc[s] /\ staged'[s] = staged[s] /\ lock'[s] = lock[s]
    BY <1>1, <1>2 DEF InventoryInv, TypeOK
  <2> QED
    BY <1>1, <2>1, StepKinds DEF Local
<1>4. \A a \in AlertIds : staged'[r][a] \in {staged[r][a], Unset}
  BY <1>1, <1>2 DEF InventoryInv, TypeOK
<1>5. /\ \A a \in AlertIds : staged[r][a] # None
      /\ \A a, b \in AlertIds : Written(r, a) /\ Written(r, b) /\ a[2] = b[2] => a = b
      /\ \A a \in AlertIds : Written(r, a) =>
           a = target[r] \/ (a[2] = "low_stock" /\ kind = "overstock")
  BY <1>1, StepKinds DEF AlertInv, RequestSound, WritesOrdered
<1>6. \A a \in AlertIds : staged'[r][a] # None /\ (Written(r, a)' => Written(r, a))
  BY <1>4, <1>5, SentinelAssumption DEF Written
<1>7. WritesOrdered(r)' /\ TargetSound(r)'
  <2>1. AfterKind(kind) = "overstock" => kind = "low_stock"
    BY <1>2 DEF AfterKind, AlertKinds
  <2> QED
    BY <1>2, <1>5, <1>6, <2>1, StepKinds DEF WritesOrdered, TargetSound
<1>8. WritesSound(r)'
  <2> SUFFICES ASSUME NEW a \in AlertIds, staged'[r][a] \notin {None, Unset}
               PROVE  \/ /\ a[1] = r /\ alerts[a] = None
                         /\ staged'[r][a] = Opened(r, a[2]) /\ Condition(a[2], view[r])
                         /\ lock'[r] # "none"
                      \/ /\ alerts[a] # None /\ alerts[a].product = op[r].product
                         /\ staged'[r][a] = [alerts[a] EXCEPT !.status = "resolved"]
    BY <1>1 DEF WritesSound, Opened
  <2>1. staged'[r][a] = staged[r][a]
    BY <1>4
  <2>2. CASE staged' = [staged EXCEPT ![r][target[r]] = Unset] /\ UNCHANGED lock
    <3>1. a # target[r]
      BY <1>2, <2>2 DEF InventoryInv, TypeOK
    <3> QED
      BY <1>1, <2>1, <2>2, <3>1 DEF AlertInv, RequestSound, WritesSound
  <2>3. CASE lock' = [lock EXCEPT ![r] = LockWanted(r)]
    <3>1. LockWanted(r) # "none"
      BY <1>1 DEF LockWanted
    <3>2. lock'[r] # "none"
      BY <2>3, <3>1 DEF InventoryInv, TypeOK
    <3> QED
      BY <2>1, <3>2 DEF AlertInv, RequestSound, WritesSound
  <2> QED
    BY <1>1, <2>2, <2>3
<1>9. ViewSound(r)'
  BY <1>1, <1>3, StepKinds, EvaluatingView
<1> QED
  BY <1>3, <1>4, <1>7, <1>8, <1>9, WritesKept, LocalAlerts DEF RequestSound

LEMMA CloseAlertAlerts ==
  ASSUME InventoryInv, AlertInv, NEW r \in Requests, CloseAlert(r)
  PROVE  AlertInv'
<1> DEFINE i == target[r]
           row == [alerts[i] EXCEPT !.status = "resolved"]
<1>1. pc[r] = "close" /\ BlockedBy(r) = {} /\ i \in AlertIds /\ i[2] \in AlertKinds
  BY AlertIdTypes DEF CloseAlert, InventoryInv, TypeOK, RequestShape
<1>2. CASE Abort(r, "error")
  BY <1>2, AbortAlerts DEF Answers
<1>3. CASE /\ alerts[i] # None
           /\ staged' = [staged EXCEPT ![r][i] = row]
           /\ Goto(r, AfterKind(i[2]))
           /\ UNCHANGED <<database, op, lock, view, pend, target>>
  <2>1. /\ pc' = [pc EXCEPT ![r] = AfterKind(i[2])]
        /\ UNCHANGED <<products, ledger, alerts, op, lock, view, pend, target>>
        /\ AfterKind(i[2]) \in {"overstock", "commit"}
        /\ pc'[r] = AfterKind(i[2])
    BY <1>3 DEF Goto, database, AfterKind, InventoryInv, TypeOK
  <2>2. /\ row \notin {None, Unset} /\ row.status = "resolved"
        /\ alerts[i].product = op[r].product
    <3>1. alerts[i] \in AlertRow
      BY <1>1, <1>3 DEF InventoryInv, TypeOK
    <3>2. row \in AlertRow
      BY <3>1 DEF AlertRow, AlertStatuses
    <3> QED
      BY <1>1, <1>3, <3>1, <3>2, AlertRowTypes DEF AlertInv, RequestSound, TargetSound
  <2>3. /\ staged'[r][i] = row
        /\ \A a \in AlertIds \ {i} : staged'[r][a] = staged[r][a]
        /\ \A s \in Requests \ {r} : staged'[s] = staged[s] /\ pc'[s] = pc[s]
    BY <1>1, <1>3, <2>1 DEF InventoryInv, TypeOK
  <2>4. Local(r)
    BY <1>1, <2>1, <2>3, StepKinds DEF Local
  <2>5. /\ \A a \in AlertIds : staged[r][a] # None
        /\ \A a, b \in AlertIds : Written(r, a) /\ Written(r, b) /\ a[2] = b[2] => a = b
        /\ \A a \in AlertIds : Written(r, a) => a[2] = "low_stock" /\ i[2] = "overstock"
    BY <1>1, StepKinds DEF AlertInv, RequestSound, WritesOrdered
  <2>6. WritesOrdered(r)' /\ TargetSound(r)'
    <3>1. \A a \in AlertIds : staged'[r][a] # None
      BY <2>2, <2>3, <2>5
    <3>2. \A a \in AlertIds : Written(r, a)' => a = i \/ Written(r, a)
      BY <2>3 DEF Written
    <3>3. \A a, b \in AlertIds : Written(r, a)' /\ Written(r, b)' /\ a[2] = b[2] => a = b
      BY <2>5, <3>2
    <3>4. AfterKind(i[2]) = "overstock" => i[2] = "low_stock"
      BY <1>1 DEF AfterKind, AlertKinds
    <3>5. AfterKind(i[2]) = "overstock" =>
            \A a \in AlertIds : Written(r, a)' => a[2] = "low_stock"
      BY <2>5, <3>2, <3>4
    <3> QED
      BY <2>1, <3>1, <3>3, <3>5, StepKinds DEF WritesOrdered, TargetSound
  <2>7. WritesSound(r)'
    <3> SUFFICES ASSUME NEW a \in AlertIds, staged'[r][a] \notin {None, Unset}
                 PROVE  \/ /\ a[1] = r /\ alerts[a] = None
                           /\ staged'[r][a] = Opened(r, a[2]) /\ Condition(a[2], view[r])
                           /\ lock[r] # "none"
                        \/ /\ alerts[a] # None /\ alerts[a].product = op[r].product
                           /\ staged'[r][a] = [alerts[a] EXCEPT !.status = "resolved"]
      BY <2>1 DEF WritesSound, Opened
    <3>1. CASE a = i
      BY <1>3, <2>2, <2>3, <3>1
    <3>2. CASE a # i
      BY <1>1, <2>3, <3>2 DEF AlertInv, RequestSound, WritesSound
    <3> QED
      BY <3>1, <3>2
  <2>8. WritesApart'
    <3>1. \A s \in Requests \ {r} : ~Written(s, i)
      BY <1>1 DEF BlockedBy, AlertHolders, Written
    <3> QED
      BY <2>3, <3>1 DEF AlertInv, WritesApart, Written
  <2>9. KeysApart'
    <3>1. \A s \in Requests, a \in AlertIds :
            (s = r /\ a = i) \/ staged'[s][a] = staged[s][a]
      BY <2>3
    <3>2. row.status \notin ActiveAlertStatuses
      BY <2>2 DEF ActiveAlertStatuses
    <3> SUFFICES ASSUME NEW s \in Requests, NEW a \in AlertIds, staged'[s][a] \notin {None, Unset},
                        staged'[s][a].status \in ActiveAlertStatuses,
                        NEW b \in AlertIds, b[2] = a[2]
                 PROVE  /\ ~IsActiveFor(alerts[b], staged'[s][a].product)
                        /\ \A t \in Requests :
                             IsActiveFor(staged'[t][b], staged'[s][a].product) => t = s /\ b = a
      BY <2>1 DEF KeysApart, IsActiveFor
    <3>3. staged'[s][a] = staged[s][a]
      BY <2>3, <3>1, <3>2
    <3>4. \A t \in Requests : IsActiveFor(staged'[t][b], staged'[s][a].product) =>
                                staged'[t][b] = staged[t][b]
      BY <2>3, <3>1, <3>2 DEF IsActiveFor
    <3> QED
      BY <3>3, <3>4 DEF AlertInv, KeysApart
  <2>10. ViewSound(r)'
    BY <1>1, <2>1, <2>4, StepKinds, EvaluatingView
  <2> QED
    BY <2>4, <2>6, <2>7, <2>8, <2>9, <2>10, LocalAlerts DEF RequestSound
<1> QED
  BY <1>2, <1>3 DEF CloseAlert

----------------------------------------------------------------------------
(* DELETE of a product. *)

LEMMA DeleteChildrenAlerts ==
  ASSUME InventoryInv, AlertInv, NEW r \in Requests, DeleteChildren(r)
  PROVE  AlertInv'
<1> DEFINE children == AlertsOf(op[r].product)
<1>1. /\ pc[r] = "children" /\ AlertHolders(r, children) = {}
      /\ pc' = [pc EXCEPT ![r] = "delete"] /\ pc'[r] = "delete"
      /\ UNCHANGED <<products, ledger, alerts, op, lock, view, pend, target>>
  BY DEF DeleteChildren, BlockedBy, Goto, database, InventoryInv, TypeOK
<1>2. \A a \in AlertIds : staged[r][a] = Unset
  BY <1>1, StepKinds DEF AlertInv, RequestSound, WritesOrdered, Written
<1>3. /\ \A a \in AlertIds : staged'[r][a] = IF a \in children THEN None ELSE Unset
      /\ \A s \in Requests \ {r} : staged'[s] = staged[s] /\ pc'[s] = pc[s]
  BY <1>1, <1>2 DEF DeleteChildren, InventoryInv, TypeOK
<1>4. Local(r)
  BY <1>1, <1>3, StepKinds DEF Local
<1>5. /\ pc'[r] \notin Unwritten \cup EvaluateSteps
      /\ \A a \in AlertIds : staged'[r][a] \in {None, Unset}
  BY <1>1, <1>3, StepKinds
<1>6. WritesOrdered(r)' /\ WritesSound(r)'
  BY <1>1, <1>5, StepKinds DEF WritesOrdered, WritesSound
<1>7. TargetSound(r)'
  <2>1. ASSUME NEW a \in AlertIds, staged'[r][a] = None
        PROVE  pc'[a[1]] \in Ended
    <3>1. alerts[a] # None
      BY <1>3, <2>1, SentinelAssumption DEF AlertsOf
    <3>2. pc[a[1]] \in Ended /\ a[1] \in Requests
      BY <3>1, AlertIdTypes DEF AlertInv, AlertsFresh
    <3> QED
      BY <1>1, <1>3, <3>2, StepKinds
  <2> QED
    BY <1>1, <2>1 DEF TargetSound
<1>8. ViewSound(r)'
  BY <1>1, StepKinds DEF AlertInv, RequestSound, ViewSound, Balances
<1>9. WritesApart'
  <2>1. \A s \in Requests \ {r}, a \in children : ~Written(s, a)
    BY <1>1 DEF AlertHolders, Written
  <2> QED
    BY <1>3, <2>1 DEF AlertInv, WritesApart, Written, AlertsOf
<1>10. KeysApart'
  <2> SUFFICES ASSUME NEW s \in Requests, NEW a \in AlertIds, staged'[s][a] \notin {None, Unset},
                      staged'[s][a].status \in ActiveAlertStatuses,
                      NEW b \in AlertIds, b[2] = a[2]
               PROVE  /\ ~IsActiveFor(alerts[b], staged'[s][a].product)
                      /\ \A t \in Requests :
                           IsActiveFor(staged'[t][b], staged'[s][a].product) => t = s /\ b = a
    BY <1>1 DEF KeysApart, IsActiveFor
  <2>1. s # r /\ staged'[s] = staged[s]
    BY <1>3, <1>5
  <2>2. \A t \in Requests : IsActiveFor(staged'[t][b], staged'[s][a].product) =>
                              staged'[t][b] = staged[t][b]
    BY <1>3, <1>5 DEF IsActiveFor
  <2> QED
    BY <2>1, <2>2 DEF AlertInv, KeysApart
<1> QED
  BY <1>4, <1>6, <1>7, <1>8, <1>9, <1>10, LocalAlerts DEF RequestSound

LEMMA DeleteProductAlerts ==
  ASSUME InventoryInv, AlertInv, NEW r \in Requests, DeleteProduct(r)
  PROVE  AlertInv'
<1>1. CASE Abort(r, "ok")
  BY <1>1, AbortAlerts DEF Answers
<1>2. CASE /\ lock' = [lock EXCEPT ![r] = LockWanted(r)] /\ Goto(r, "cascade")
           /\ UNCHANGED <<database, op, view, pend, staged, target>>
  <2>1. /\ pc[r] = "delete" /\ pc'[r] = "cascade"
        /\ UNCHANGED <<products, ledger, alerts, op, view, pend, staged, target>>
    BY <1>2 DEF DeleteProduct, Goto, database, InventoryInv, TypeOK
  <2>2. Local(r)
    BY <1>2, <2>1, StepKinds DEF Local, Goto, InventoryInv, TypeOK
  <2>3. \A a \in AlertIds : staged[r][a] \in {None, Unset}
    BY <2>1 DEF AlertInv, RequestSound, WritesOrdered
  <2>4. WritesOrdered(r)' /\ WritesSound(r)'
    BY <2>1, <2>3, StepKinds DEF WritesOrdered, WritesSound
  <2>5. TargetSound(r)'
    <3>1. \A t \in Requests : pc[t] \in Ended => pc'[t] \in Ended
      BY <2>2 DEF Local
    <3> QED
      BY <2>1, <3>1, AlertIdTypes DEF AlertInv, RequestSound, TargetSound
  <2>6. ViewSound(r)'
    BY <2>1, StepKinds DEF AlertInv, RequestSound, ViewSound, Balances
  <2>7. WritesApart' /\ KeysApart'
    BY <2>1, <2>2, WritesKept
  <2> QED
    BY <2>2, <2>4, <2>5, <2>6, <2>7, LocalAlerts DEF RequestSound
<1> QED
  BY <1>1, <1>2 DEF DeleteProduct

\* A transaction that has ended is sound.
LEMMA ReleasedSound ==
  ASSUME InventoryInv, NEW r \in Requests, Release(r), pc'[r] \in Ended
  PROVE  /\ RequestSound(r)'
         /\ \A a \in AlertIds : staged'[r][a] = Unset
         /\ \A s \in Requests \ {r} :
              /\ lock'[s] = lock[s] /\ view'[s] = view[s] /\ pend'[s] = pend[s]
              /\ staged'[s] = staged[s] /\ target'[s] = target[s]
<1>1. /\ view'[r] = None /\ \A a \in AlertIds : staged'[r][a] = Unset
      /\ \A s \in Requests \ {r} :
           /\ lock'[s] = lock[s] /\ view'[s] = view[s] /\ pend'[s] = pend[s]
           /\ staged'[s] = staged[s] /\ target'[s] = target[s]
  BY DEF Release, InventoryInv, TypeOK
<1>2. pc'[r] \notin EvaluateSteps \cup {"delete", "cascade", "open", "key_share", "close"}
  BY StepKinds
<1>3. WritesOrdered(r)' /\ TargetSound(r)' /\ WritesSound(r)' /\ ViewSound(r)'
  BY <1>1, <1>2, SentinelAssumption, StepKinds
     DEF WritesOrdered, Written, TargetSound, WritesSound, ViewSound
<1> QED
  BY <1>1, <1>3 DEF RequestSound

LEMMA CascadeDeleteAlerts ==
  ASSUME InventoryInv, AlertInv, NEW r \in Requests, CascadeDelete(r)
  PROVE  AlertInv'
<1> DEFINE p == op[r].product
<1>1. /\ pc[r] = "cascade" /\ AlertHolders(r, AlertsOf(p)) = {}
      /\ products' = [products EXCEPT ![p] = None] /\ ledger' = [ledger EXCEPT ![p] = <<>>]
      /\ alerts' = [a \in AlertIds |-> IF a \in AlertsOf(p) THEN None ELSE alerts[a]]
      /\ pc' = [pc EXCEPT ![r] = "ok"] /\ pc'[r] = "ok" /\ Release(r) /\ op' = op
  BY DEF CascadeDelete, BlockedBy, Goto, InventoryInv, TypeOK
<1>2. p \in Products
  BY <1>1, DeleteFields DEF InventoryInv, RequestShape
<1>3. /\ RequestSound(r)' /\ \A a \in AlertIds : staged'[r][a] = Unset
      /\ \A s \in Requests \ {r} :
           /\ lock'[s] = lock[s] /\ view'[s] = view[s] /\ pend'[s] = pend[s]
           /\ staged'[s] = staged[s] /\ target'[s] = target[s] /\ pc'[s] = pc[s]
  BY <1>1, ReleasedSound, StepKinds DEF InventoryInv, TypeOK
<1>4. \A t \in Requests : pc[t] \in Ended => pc'[t] \in Ended
  BY <1>1, <1>3, StepKinds
<1>5. /\ \A a \in AlertIds : alerts'[a] \in {alerts[a], None}
      /\ \A a \in AlertIds : alerts'[a] # alerts[a] => a \in AlertsOf(p)
      /\ \A a \in AlertIds : alerts'[a] # None => alerts[a].product # p
  BY <1>1 DEF AlertsOf
<1>6. \A q \in Products : products'[q] # None =>
        q # p /\ products[q] # None /\ Balances(q)' = Balances(q)
  BY <1>1, <1>2 DEF InventoryInv, TypeOK, Balances
<1>7. ASSUME NEW s \in Requests \ {r}
      PROVE  RequestSound(s)'
  <2>1. WritesOrdered(s)'
    BY <1>1, <1>3 DEF AlertInv, RequestSound, WritesOrdered, Written
  <2>2. TargetSound(s)'
    <3>1. pc[s] \in {"open", "key_share", "close"} => target[s] \in AlertIds
      BY DEF InventoryInv, TypeOK, RequestShape
    <3> QED
      BY <1>1, <1>3, <1>4, <1>5, <3>1, AlertIdTypes DEF AlertInv, RequestSound, TargetSound
  <2>3. WritesSound(s)'
    <3> SUFFICES ASSUME NEW a \in AlertIds, staged[s][a] \notin {None, Unset}
                 PROVE  \/ /\ a[1] = s /\ alerts'[a] = None
                           /\ staged[s][a] = Opened(s, a[2]) /\ Condition(a[2], view[s])
                           /\ lock[s] # "none" \/ (pc[s] = "key_share" /\ target[s] = a)
                        \/ /\ alerts'[a] # None /\ alerts'[a].product = op[s].product
                           /\ staged[s][a] = [alerts'[a] EXCEPT !.status = "resolved"]
      BY <1>1, <1>3 DEF WritesSound, Opened
    <3>1. a \notin AlertsOf(p)
      BY <1>1 DEF AlertHolders
    <3>2. alerts'[a] = alerts[a]
      BY <1>1, <3>1
    <3> QED
      BY <3>2 DEF AlertInv, RequestSound, WritesSound
  <2>4. ViewSound(s)'
    <3>1. op[s] \in PatchOperation => op[s].product \in Products
      BY PatchFields
    <3> QED
      BY <1>1, <1>3, <1>6, <3>1 DEF AlertInv, RequestSound, ViewSound
  <2> QED
    BY <2>1, <2>2, <2>3, <2>4 DEF RequestSound
<1>8. AlertsFresh'
  BY <1>4, <1>5, AlertIdTypes DEF AlertInv, AlertsFresh
<1>9. WritesApart' /\ KeysApart'
  <2>1. \A s \in Requests, a \in AlertIds : staged'[s][a] \in {staged[s][a], Unset}
    BY <1>3
  <2>2. \A a \in AlertIds : \A q : IsActiveFor(alerts'[a], q) => IsActiveFor(alerts[a], q)
    BY <1>5 DEF IsActiveFor
  <2>3. WritesApart'
    BY <2>1 DEF AlertInv, WritesApart, Written
  <2> SUFFICES ASSUME NEW s \in Requests, NEW a \in AlertIds, staged'[s][a] \notin {None, Unset},
                      staged'[s][a].status \in ActiveAlertStatuses,
                      NEW b \in AlertIds, b[2] = a[2]
               PROVE  /\ ~IsActiveFor(alerts'[b], staged'[s][a].product)
                      /\ \A t \in Requests :
                           IsActiveFor(staged'[t][b], staged'[s][a].product) => t = s /\ b = a
    BY <2>3 DEF KeysApart
  <2>4. staged'[s][a] = staged[s][a]
    BY <2>1
  <2>5. \A t \in Requests : staged'[t][b] = staged[t][b] \/ staged'[t][b] = Unset
    BY <2>1
  <2> QED
    BY <2>2, <2>4, <2>5 DEF AlertInv, KeysApart, IsActiveFor
<1>10. OneActiveAlert'
  BY <1>5 DEF AlertInv, OneActiveAlert, IsActiveFor
<1>11. AlertSnapshotsTrue'
  <2> SUFFICES ASSUME NEW a \in AlertIds, alerts'[a] # None
               PROVE  \E q \in Products : SnapshotTrue(a, q)'
    BY DEF AlertSnapshotsTrue, SnapshotTrue, Balances
  <2>1. alerts'[a] = alerts[a] /\ alerts[a].product # p
    BY <1>5
  <2>2. PICK q \in Products : SnapshotTrue(a, q)
    BY <2>1, SnapshotForm DEF AlertInv, InventoryInv
  <2>3. q # p
    BY <2>1, <2>2 DEF SnapshotTrue
  <2>4. products'[q] = products[q] /\ Balances(q)' = Balances(q)
    BY <1>1, <2>3 DEF InventoryInv, TypeOK, Balances
  <2> QED
    BY <2>1, <2>2, <2>4 DEF SnapshotTrue, Balances
<1> QED
  BY <1>3, <1>7, <1>8, <1>9, <1>10, <1>11 DEF AlertInv

----------------------------------------------------------------------------
(* AlertService.acknowledge and resolve. *)

\* A status that is written over leaves the rest of the row alone.
LEMMA StatusWritten ==
  ASSUME NEW row \in AlertRow, NEW status \in AlertStatuses
  PROVE  /\ [row EXCEPT !.status = status] \notin {None, Unset}
         /\ [row EXCEPT !.status = status].product = row.product
         /\ [row EXCEPT !.status = status].status = status
         /\ [row EXCEPT !.status = status].triggered_quantity = row.triggered_quantity
         /\ [row EXCEPT !.status = status].threshold_at_trigger = row.threshold_at_trigger
<1>1. [row EXCEPT !.status = status] \in AlertRow
  BY DEF AlertRow
<1> QED
  BY <1>1, AlertRowTypes DEF AlertRow

LEMMA SetAlertStatusAlerts ==
  ASSUME InventoryInv, AlertInv, NEW r \in Requests, SetAlertStatus(r)
  PROVE  AlertInv'
<1> DEFINE i == target[r]
           written == CASE pc[r] = "acknowledge"   -> "acknowledged"
                        [] pc[r] = "resolve"       -> "resolved"
                        [] pc[r] = "reacknowledge" -> alerts[i].status
<1>1. /\ pc[r] \in {"acknowledge", "reacknowledge", "resolve"}
      /\ BlockedBy(r) = {} /\ i \in AlertIds
  BY DEF SetAlertStatus, InventoryInv, TypeOK, RequestShape
<1>2. CASE Abort(r, "error")
  BY <1>2, AbortAlerts DEF Answers
<1>3. CASE /\ alerts[i] # None
           /\ written = "resolved" \/ ~KeyTaken(r, alerts[i].product, i[2])
           /\ alerts' = [alerts EXCEPT ![i].status = written]
           /\ \E answer \in {"ok", "unconfirmed"} : Goto(r, answer)
           /\ Release(r)
           /\ UNCHANGED <<products, ledger, op>>
  <2> DEFINE row == [alerts[i] EXCEPT !.status = written]
  <2>1. alerts[i] \in AlertRow /\ written \in AlertStatuses
    <3>1. alerts[i] \in AlertRow
      BY <1>1, <1>3 DEF InventoryInv, TypeOK
    <3>2. alerts[i].status \in AlertStatuses
      BY <3>1 DEF AlertRow
    <3> QED
      BY <1>1, <3>1, <3>2 DEF AlertStatuses
  <2>2. /\ row \notin {None, Unset} /\ row.product = alerts[i].product /\ row.status = written
        /\ row.triggered_quantity = alerts[i].triggered_quantity
        /\ row.threshold_at_trigger = alerts[i].threshold_at_trigger
    BY <2>1, StatusWritten
  <2>3. alerts'[i] = row /\ \A a \in AlertIds \ {i} : alerts'[a] = alerts[a]
    BY <1>1, <1>3 DEF InventoryInv, TypeOK
  <2>4. /\ \E answer \in {"ok", "unconfirmed"} : pc' = [pc EXCEPT ![r] = answer]
        /\ pc'[r] \in {"ok", "unconfirmed"} /\ UNCHANGED <<products, ledger, op>>
    BY <1>3 DEF Goto, InventoryInv, TypeOK
  <2>5. /\ RequestSound(r)' /\ \A a \in AlertIds : staged'[r][a] = Unset
        /\ \A s \in Requests \ {r} :
             /\ lock'[s] = lock[s] /\ view'[s] = view[s] /\ pend'[s] = pend[s]
             /\ staged'[s] = staged[s] /\ target'[s] = target[s] /\ pc'[s] = pc[s]
    BY <1>3, <2>4, ReleasedSound, StepKinds DEF InventoryInv, TypeOK
  <2>6. \A t \in Requests : pc[t] \in Ended => pc'[t] \in Ended
    BY <2>4, <2>5, StepKinds
  <2>7. \A s \in Requests \ {r} : ~Written(s, i)
    BY <1>1 DEF BlockedBy, AlertHolders, Written
  <2>8. \A a \in AlertIds : staged[r][a] = Unset
    BY <1>1, StepKinds DEF AlertInv, RequestSound, WritesOrdered, Written
  <2>9. /\ \A a \in AlertIds : alerts'[a] # None => alerts[a] # None
        /\ \A a \in AlertIds : alerts'[a] # None =>
             /\ alerts'[a].product = alerts[a].product
             /\ alerts'[a].triggered_quantity = alerts[a].triggered_quantity
             /\ alerts'[a].threshold_at_trigger = alerts[a].threshold_at_trigger
        /\ \A a \in AlertIds : alerts[a] # None => alerts'[a] # None
    BY <1>3, <2>2, <2>3
  <2>10. ASSUME NEW s \in Requests \ {r}
         PROVE  RequestSound(s)'
    <3>1. WritesOrdered(s)'
      BY <2>4, <2>5 DEF AlertInv, RequestSound, WritesOrdered, Written
    <3>2. TargetSound(s)'
      <4>1. pc[s] \in {"open", "key_share", "close"} => target[s] \in AlertIds
        BY DEF InventoryInv, TypeOK, RequestShape
      <4> QED
        BY <2>4, <2>5, <2>6, <2>9, <4>1, AlertIdTypes DEF AlertInv, RequestSound, TargetSound
    <3>3. WritesSound(s)'
      <4> SUFFICES ASSUME NEW a \in AlertIds, staged[s][a] \notin {None, Unset}
                   PROVE  \/ /\ a[1] = s /\ alerts'[a] = None
                             /\ staged[s][a] = Opened(s, a[2]) /\ Condition(a[2], view[s])
                             /\ lock[s] # "none" \/ (pc[s] = "key_share" /\ target[s] = a)
                          \/ /\ alerts'[a] # None /\ alerts'[a].product = op[s].product
                             /\ staged[s][a] = [alerts'[a] EXCEPT !.status = "resolved"]
        BY <2>4, <2>5 DEF WritesSound, Opened
      <4>1. alerts'[a] = alerts[a]
        BY <2>3, <2>7 DEF Written
      <4> QED
        BY <4>1 DEF AlertInv, RequestSound, WritesSound
    <3>4. ViewSound(s)'
      BY <2>4, <2>5 DEF AlertInv, RequestSound, ViewSound, Balances
    <3> QED
      BY <3>1, <3>2, <3>3, <3>4 DEF RequestSound
  <2>11. AlertsFresh'
    BY <2>6, <2>9, AlertIdTypes DEF AlertInv, AlertsFresh
  <2>12. WritesApart'
    BY <2>5 DEF AlertInv, WritesApart, Written
  <2>13. KeysApart'
    <3> SUFFICES ASSUME NEW s \in Requests, NEW a \in AlertIds, staged'[s][a] \notin {None, Unset},
                        staged'[s][a].status \in ActiveAlertStatuses,
                        NEW b \in AlertIds, b[2] = a[2]
                 PROVE  /\ ~IsActiveFor(alerts'[b], staged'[s][a].product)
                        /\ \A t \in Requests :
                             IsActiveFor(staged'[t][b], staged'[s][a].product) => t = s /\ b = a
      BY DEF KeysApart, IsActiveFor
    <3>1. s # r /\ staged'[s][a] = staged[s][a]
      BY <2>5
    <3>2. /\ ~IsActiveFor(alerts[b], staged[s][a].product)
          /\ \A t \in Requests :
               IsActiveFor(staged[t][b], staged[s][a].product) => t = s /\ b = a
      BY <3>1 DEF AlertInv, KeysApart
    <3>3. \A t \in Requests : IsActiveFor(staged'[t][b], staged[s][a].product) =>
                                staged'[t][b] = staged[t][b]
      BY <2>5 DEF IsActiveFor
    <3>4. ~IsActiveFor(alerts'[b], staged[s][a].product)
      <4> SUFFICES ASSUME IsActiveFor(alerts'[b], staged[s][a].product) PROVE FALSE
        OBVIOUS
      <4> HIDE DEF written, row
      <4>1. b = i /\ alerts[i].product = staged[s][a].product
        BY <2>2, <2>3, <3>2 DEF IsActiveFor
      <4>2. written # "resolved" /\ written # alerts[i].status
        BY <2>1, <2>2, <2>3, <3>2, <4>1, AlertRowTypes DEF IsActiveFor, ActiveAlertStatuses
      <4>3. KeyHolders(r, alerts[i].product, i[2]) = {}
        BY <1>1, <1>3, <4>2 DEF BlockedBy, written
      <4>4. s \in KeyHolders(r, alerts[i].product, i[2])
        BY <3>1, <4>1 DEF KeyHolders, IsActiveFor
      <4> QED
        BY <4>3, <4>4
    <3> QED
      BY <3>1, <3>2, <3>3, <3>4
  <2>14. OneActiveAlert'
    <3> SUFFICES ASSUME NEW a \in AlertIds, NEW b \in AlertIds, alerts'[a] # None, a[2] = b[2],
                        IsActiveFor(alerts'[a], alerts'[a].product),
                        IsActiveFor(alerts'[b], alerts'[a].product)
                 PROVE  a = b
      BY DEF OneActiveAlert
    <3>1. CASE a # i /\ b # i
      BY <2>3, <3>1 DEF AlertInv, OneActiveAlert
    <3>2. ASSUME NEW c \in AlertIds, c # i, c[2] = i[2], IsActiveFor(alerts'[i], alerts[i].product),
                 IsActiveFor(alerts[c], alerts[i].product)
          PROVE  FALSE
      <4>1. written # "resolved"
        BY <2>2, <2>3, <3>2 DEF IsActiveFor, ActiveAlertStatuses
      <4> QED
        BY <1>3, <2>8, <3>2, <4>1 DEF KeyTaken
    <3>3. IsActiveFor(alerts'[a], alerts[a].product) /\ alerts'[b].product = alerts[b].product
      BY <2>9 DEF IsActiveFor
    <3>4. alerts[a].product = alerts[b].product
      BY <2>9, <3>3 DEF IsActiveFor
    <3> QED
      BY <2>3, <3>1, <3>2, <3>3, <3>4 DEF IsActiveFor
  <2>15. AlertSnapshotsTrue'
    BY <2>4, <2>9 DEF AlertInv, AlertSnapshotsTrue
  <2> QED
    BY <2>5, <2>10, <2>11, <2>12, <2>13, <2>14, <2>15 DEF AlertInv
<1> QED
  BY <1>2, <1>3 DEF SetAlertStatus

----------------------------------------------------------------------------
(* COMMIT. *)

\* A commit deletes no product and forgets no balance; that of a movement
\* records its own.
LEMMA CommittedBalances ==
  ASSUME InventoryInv, NEW r \in Requests, Commit(r), NEW q \in Products
  PROVE  /\ products'[q] # None <=> products[q] # None
         /\ Balances(q) \subseteq Balances(q)'
         /\ op[r] \in MovementOperation /\ q = op[r].product =>
              pend[r].quantity \in Balances(q)'
<1> DEFINE p == op[r].product
           row == [at |-> r, type |-> op[r].type, quantity |-> op[r].quantity,
                   balance_after |-> pend[r].quantity]
<1>1. pc[r] = "commit" /\ op[r] \in MovementOperation \cup PatchOperation
  BY StepKinds DEF Commit, InventoryInv, RequestShape
<1>2. p \in Products
  BY <1>1, MovementFields, PatchFields
<1>3. products'[q] # None <=> products[q] # None
  <2>1. pend[r] # None => products[p] # None
    BY DEF InventoryInv, PendingSound, LockSafety
  <2> QED
    BY <1>2, <2>1 DEF Commit, CommittedProduct, InventoryInv, TypeOK
<1>4. CASE op[r] \in MovementOperation /\ q = p
  <2>1. ledger'[q] = Append(ledger[q], row)
    BY <1>2, <1>4, MovementFields DEF Commit, CommittedLedger, InventoryInv, TypeOK
  <2>2. PICK S : ledger[q] \in Seq(S)
    BY DEF InventoryInv, TypeOK
  <2>3. /\ Len(ledger'[q]) = Len(ledger[q]) + 1 /\ Len(ledger[q]) \in Nat
        /\ \A i \in 1..Len(ledger[q]) : ledger'[q][i] = ledger[q][i]
        /\ ledger'[q][Len(ledger'[q])] = row
    BY <2>1, <2>2
  <2>4. Balances(q) \subseteq Balances(q)' /\ row.balance_after \in Balances(q)'
    BY <2>3 DEF Balances
  <2> QED
    BY <1>3, <1>4, <2>4
<1>5. CASE ~(op[r] \in MovementOperation /\ q = p)
  <2>1. ledger'[q] = ledger[q]
    BY <1>1, <1>2, <1>5, MovementFields, PatchFields
       DEF Commit, CommittedLedger, InventoryInv, TypeOK
  <2> QED
    BY <1>3, <1>5, <2>1 DEF Balances
<1> QED
  BY <1>4, <1>5

LEMMA CommitAlerts ==
  ASSUME InventoryInv, AlertInv, NEW r \in Requests, Commit(r)
  PROVE  AlertInv'
<1> DEFINE p == op[r].product
<1>1. /\ pc[r] = "commit" /\ op[r] \in MovementOperation \cup PatchOperation /\ view[r] # None
      /\ pc' = [pc EXCEPT ![r] = "refresh"] /\ pc'[r] = "refresh"
      /\ alerts' = [a \in AlertIds |-> Seen(r, a)] /\ Release(r) /\ op' = op
  BY StepKinds DEF Commit, Goto, InventoryInv, TypeOK, RequestShape
<1>2. p \in Products
  BY <1>1, MovementFields, PatchFields
<1>3. /\ RequestSound(r)' /\ \A a \in AlertIds : staged'[r][a] = Unset
      /\ \A s \in Requests \ {r} :
           /\ lock'[s] = lock[s] /\ view'[s] = view[s] /\ pend'[s] = pend[s]
           /\ staged'[s] = staged[s] /\ target'[s] = target[s] /\ pc'[s] = pc[s]
  BY <1>1, ReleasedSound, StepKinds DEF InventoryInv, TypeOK
<1>4. \A t \in Requests : pc[t] \in Ended => pc'[t] \in Ended
  BY <1>1, <1>3, StepKinds
<1>5. ASSUME NEW a \in AlertIds
      PROVE  /\ ~Written(r, a) => alerts'[a] = alerts[a]
             /\ Written(r, a) => alerts'[a] = staged[r][a] /\ staged[r][a] \notin {None, Unset}
             /\ Written(r, a) /\ alerts[a] = None =>
                  /\ a[1] = r /\ lock[r] # "none"
                  /\ alerts'[a] = Opened(r, a[2]) /\ Condition(a[2], view[r])
             /\ Written(r, a) /\ alerts[a] # None =>
                  /\ alerts'[a] # None /\ alerts'[a].status = "resolved"
                  /\ alerts'[a].product = alerts[a].product
                  /\ alerts'[a].triggered_quantity = alerts[a].triggered_quantity
                  /\ alerts'[a].threshold_at_trigger = alerts[a].threshold_at_trigger
  <2>1. staged[r][a] # None
    BY <1>1, StepKinds DEF AlertInv, RequestSound, WritesOrdered
  <2>2. alerts'[a] = IF Written(r, a) THEN staged[r][a] ELSE alerts[a]
    BY <1>1 DEF Seen, Written
  <2>3. Written(r, a) =>
          \/ /\ a[1] = r /\ alerts[a] = None /\ lock[r] # "none"
             /\ staged[r][a] = Opened(r, a[2]) /\ Condition(a[2], view[r])
          \/ alerts[a] # None /\ staged[r][a] = [alerts[a] EXCEPT !.status = "resolved"]
    BY <1>1, <2>1 DEF AlertInv, RequestSound, WritesSound, Written
  <2>4. CASE Written(r, a) /\ alerts[a] # None
    <3>1. alerts[a] \in AlertRow /\ "resolved" \in AlertStatuses
      BY <2>4 DEF InventoryInv, TypeOK, AlertStatuses
    <3> DEFINE row == [alerts[a] EXCEPT !.status = "resolved"]
    <3>2. /\ row \notin {None, Unset} /\ row.status = "resolved"
          /\ row.product = alerts[a].product
          /\ row.triggered_quantity = alerts[a].triggered_quantity
          /\ row.threshold_at_trigger = alerts[a].threshold_at_trigger
      BY <3>1, StatusWritten
    <3>3. alerts'[a] = row /\ alerts'[a] = staged[r][a]
      BY <2>2, <2>3, <2>4
    <3> HIDE DEF row
    <3> QED
      BY <2>4, <3>2, <3>3
  <2> QED
    BY <2>1, <2>2, <2>3, <2>4 DEF Written
<1>6. ASSUME NEW s \in Requests \ {r}
      PROVE  RequestSound(s)'
  <2>1. WritesOrdered(s)'
    BY <1>1, <1>3 DEF AlertInv, RequestSound, WritesOrdered, Written
  <2>2. TargetSound(s)'
    <3>1. pc[s] \in {"open", "key_share", "close"} => target[s] \in AlertIds
      BY DEF InventoryInv, TypeOK, RequestShape
    <3>2. pc[s] = "close" /\ alerts'[target[s]] # None => alerts'[target[s]].product = op[s].product
      <4> SUFFICES ASSUME pc[s] = "close", alerts'[target[s]] # None
                   PROVE  alerts'[target[s]].product = op[s].product
        OBVIOUS
      <4>1. target[s][1] # r
        BY <1>1, StepKinds DEF AlertInv, RequestSound, TargetSound
      <4>2. alerts[target[s]] # None /\ alerts'[target[s]].product = alerts[target[s]].product
        BY <1>5, <3>1, <4>1
      <4> QED
        BY <4>2 DEF AlertInv, RequestSound, TargetSound
    <3> QED
      BY <1>1, <1>3, <1>4, <3>1, <3>2, AlertIdTypes DEF AlertInv, RequestSound, TargetSound
  <2>3. WritesSound(s)'
    <3> SUFFICES ASSUME NEW a \in AlertIds, staged[s][a] \notin {None, Unset}
                 PROVE  \/ /\ a[1] = s /\ alerts'[a] = None
                           /\ staged[s][a] = Opened(s, a[2]) /\ Condition(a[2], view[s])
                           /\ lock[s] # "none" \/ (pc[s] = "key_share" /\ target[s] = a)
                        \/ /\ alerts'[a] # None /\ alerts'[a].product = op[s].product
                           /\ staged[s][a] = [alerts'[a] EXCEPT !.status = "resolved"]
      BY <1>1, <1>3 DEF WritesSound, Opened
    <3>1. ~Written(r, a)
      BY DEF AlertInv, WritesApart, Written
    <3>2. alerts'[a] = alerts[a]
      BY <1>5, <3>1
    <3> QED
      BY <3>2 DEF AlertInv, RequestSound, WritesSound
  <2>4. ViewSound(s)'
    <3>1. op[s] \in PatchOperation => op[s].product \in Products
      BY PatchFields
    <3> QED
      BY <1>1, <1>3, <3>1, CommittedBalances DEF AlertInv, RequestSound, ViewSound
  <2> QED
    BY <2>1, <2>2, <2>3, <2>4 DEF RequestSound
<1>7. AlertsFresh'
  BY <1>1, <1>4, <1>5, AlertIdTypes, StepKinds DEF AlertInv, AlertsFresh
<1>8. WritesApart'
  BY <1>3 DEF AlertInv, WritesApart, Written
<1>9. KeysApart'
  <2> SUFFICES ASSUME NEW s \in Requests, NEW a \in AlertIds, staged'[s][a] \notin {None, Unset},
                      staged'[s][a].status \in ActiveAlertStatuses,
                      NEW b \in AlertIds, b[2] = a[2]
               PROVE  /\ ~IsActiveFor(alerts'[b], staged'[s][a].product)
                      /\ \A t \in Requests :
                           IsActiveFor(staged'[t][b], staged'[s][a].product) => t = s /\ b = a
    BY DEF KeysApart, IsActiveFor
  <2>1. s # r /\ staged'[s][a] = staged[s][a]
    BY <1>3
  <2>2. /\ ~IsActiveFor(alerts[b], staged[s][a].product)
        /\ \A t \in Requests :
             IsActiveFor(staged[t][b], staged[s][a].product) => t = s /\ b = a
    BY <2>1 DEF AlertInv, KeysApart
  <2>3. \A t \in Requests : IsActiveFor(staged'[t][b], staged[s][a].product) =>
                              staged'[t][b] = staged[t][b]
    BY <1>3 DEF IsActiveFor
  <2>4. alerts'[b] = alerts[b] \/ alerts'[b] = staged[r][b]
    BY <1>5
  <2> QED
    BY <2>1, <2>2, <2>3, <2>4
<1>10. OneActiveAlert'
  <2>1. ASSUME NEW a \in AlertIds, NEW b \in AlertIds, Written(r, a), a[2] = b[2], NEW q,
               IsActiveFor(alerts'[a], q), IsActiveFor(alerts'[b], q)
        PROVE  a = b
    <3>1. /\ staged[r][a] \notin {None, Unset} /\ staged[r][a].status \in ActiveAlertStatuses
          /\ staged[r][a].product = q
      BY <1>5, <2>1 DEF IsActiveFor
    <3>2. ~IsActiveFor(alerts[b], q) /\ (IsActiveFor(staged[r][b], q) => b = a)
      BY <2>1, <3>1 DEF AlertInv, KeysApart
    <3>3. alerts'[b] = alerts[b] \/ alerts'[b] = staged[r][b]
      BY <1>5
    <3> QED
      BY <2>1, <3>2, <3>3
  <2> SUFFICES ASSUME NEW a \in AlertIds, NEW b \in AlertIds, alerts'[a] # None, a[2] = b[2],
                      IsActiveFor(alerts'[a], alerts'[a].product),
                      IsActiveFor(alerts'[b], alerts'[a].product)
               PROVE  a = b
    BY DEF OneActiveAlert
  <2>2. CASE ~Written(r, a) /\ ~Written(r, b)
    BY <1>5, <2>2 DEF AlertInv, OneActiveAlert
  <2> QED
    BY <2>1, <2>2
<1>11. AlertSnapshotsTrue'
  <2> SUFFICES ASSUME NEW a \in AlertIds, alerts'[a] # None
               PROVE  \E q \in Products : SnapshotTrue(a, q)'
    BY DEF AlertSnapshotsTrue, SnapshotTrue, Balances
  <2>1. CASE alerts[a] # None
    <3>1. PICK q \in Products : SnapshotTrue(a, q)
      BY <2>1, SnapshotForm DEF AlertInv, InventoryInv
    <3>2. /\ alerts'[a].product = alerts[a].product
          /\ alerts'[a].triggered_quantity = alerts[a].triggered_quantity
          /\ alerts'[a].threshold_at_trigger = alerts[a].threshold_at_trigger
      BY <1>5, <2>1
    <3>3. products'[q] # None /\ Balances(q) \subseteq Balances(q)'
      BY <3>1, CommittedBalances DEF SnapshotTrue
    <3>4. alerts'[a].triggered_quantity \in Balances(q)'
      BY <3>1, <3>2, <3>3 DEF SnapshotTrue
    <3> QED
      BY <3>1, <3>2, <3>3, <3>4 DEF SnapshotTrue
  <2>2. CASE alerts[a] = None
    <3> DEFINE row == Opened(r, a[2])
    <3>1. alerts'[a] = row /\ Condition(a[2], view[r]) /\ lock[r] # "none"
      BY <1>5, <2>2
    <3>2. /\ row.product = p /\ row.triggered_quantity = view[r].quantity
          /\ IF a[2] = "low_stock" THEN row.triggered_quantity <= row.threshold_at_trigger
                                   ELSE row.triggered_quantity > row.threshold_at_trigger
      BY <1>1, <3>1, OpenedTypes, AlertIdTypes, StepKinds
    <3>3. products[p] # None
      BY <3>1 DEF InventoryInv, LockSafety
    <3>4. \A q \in Products : q = p =>
            products'[q] # None /\ view[r].quantity \in Balances(q)'
      BY <1>1, <3>3, CommittedBalances, StepKinds DEF AlertInv, RequestSound, ViewSound
    <3>5. PICK q \in Products : q = p
      BY <1>2
    <3> HIDE DEF row
    <3>6. view[r].quantity \in Balances(q)' /\ products'[q] # None
      BY <3>4, <3>5
    <3> QED
      BY <3>1, <3>2, <3>5, <3>6 DEF SnapshotTrue
  <2> QED
    BY <2>1, <2>2
<1> QED
  BY <1>3, <1>6, <1>7, <1>8, <1>9, <1>10, <1>11 DEF AlertInv

----------------------------------------------------------------------------
(* The invariant of the alerts. *)

LEMMA InitAlerts ==
  ASSUME Init
  PROVE  AlertInv
<1>1. /\ \A a \in AlertIds : alerts[a] = None
      /\ \A r \in Requests : pc[r] = "idle" /\ view[r] = None
      /\ \A r \in Requests, a \in AlertIds : staged[r][a] = Unset
  BY DEF Init
<1>2. ASSUME NEW r \in Requests
      PROVE  RequestSound(r)
  BY <1>1, SentinelAssumption, StepKinds
     DEF RequestSound, WritesOrdered, Written, TargetSound, WritesSound, ViewSound
<1>3. AlertsFresh /\ WritesApart /\ KeysApart /\ OneActiveAlert /\ AlertSnapshotsTrue
  BY <1>1 DEF AlertsFresh, WritesApart, Written, KeysApart, OneActiveAlert, AlertSnapshotsTrue
<1> QED
  BY <1>2, <1>3 DEF AlertInv

LEMMA StutterAlerts ==
  ASSUME AlertInv, UNCHANGED vars
  PROVE  AlertInv'
<1>1. UNCHANGED <<products, ledger, alerts, op, pc, lock, view, pend, staged, target>>
  BY DEF vars
<1>2. ASSUME NEW r \in Requests
      PROVE  RequestSound(r)'
  <2>1. WritesOrdered(r)' /\ TargetSound(r)' /\ ViewSound(r)'
    BY <1>1 DEF AlertInv, RequestSound, WritesOrdered, Written, TargetSound, ViewSound, Balances
  <2>2. WritesSound(r)'
    BY <1>1 DEF AlertInv, RequestSound, WritesSound, Opened
  <2> QED
    BY <2>1, <2>2 DEF RequestSound
<1>3. AlertsFresh' /\ WritesApart' /\ KeysApart' /\ OneActiveAlert' /\ AlertSnapshotsTrue'
  BY <1>1 DEF AlertInv, AlertsFresh, WritesApart, Written, KeysApart, IsActiveFor,
              OneActiveAlert, AlertSnapshotsTrue
<1> QED
  BY <1>2, <1>3 DEF AlertInv

LEMMA NextAlerts ==
  ASSUME InventoryInv, AlertInv, [Next]_vars
  PROVE  AlertInv'
<1>1. ASSUME NEW r \in Requests, Ask(r) \/ Step(r)
      PROVE  AlertInv'
  BY <1>1, AskAlerts, LockProductAlerts, FlushPatchAlerts, ReadActiveAlertAlerts,
     InsertAlertAlerts, CheckAlertProductAlerts, CloseAlertAlerts, CommitAlerts, RefreshAlerts,
     SetAlertStatusAlerts, DeleteChildrenAlerts, DeleteProductAlerts, CascadeDeleteAlerts
     DEF Step
<1>2. ASSUME NEW r \in Requests, DetectDeadlock(r) \/ Crash(r)
      PROVE  AlertInv'
  <2>1. \E answer \in Answers : Abort(r, answer)
    BY <1>2 DEF DetectDeadlock, Crash, Answers
  <2> QED
    BY <2>1, AbortAlerts
<1>3. CASE Finished \/ UNCHANGED vars
  BY <1>3, StutterAlerts DEF Finished
<1> QED
  BY <1>1, <1>2, <1>3 DEF Next

\* Who has written which alert, what it is worth and whom its key keeps out,
\* in every reachable state.
THEOREM AlertInvariant == Spec => []AlertInv
<1>1. Init => AlertInv
  BY InitAlerts
<1>2. InventoryInv /\ AlertInv /\ [Next]_vars => AlertInv'
  BY NextAlerts
<1> QED
  BY <1>1, <1>2, InventoryInvariant, PTL DEF Spec

\* At most one alert of a kind is open or acknowledged for a product,
\* whatever calls run side by side: what evaluate checked without a lock,
\* the partial unique index makes good.
THEOREM AtMostOneActiveAlert == Spec => []OneActiveAlert
<1>1. AlertInv => OneActiveAlert
  BY DEF AlertInv
<1> QED
  BY <1>1, AlertInvariant, PTL

\* The quantity in an alert's snapshot is one that its product has had, and
\* it did cross the threshold beside it: a row never comes from a movement
\* that was rolled back, nor outlives its product.
THEOREM SnapshotsAreTrue == Spec => []AlertSnapshotsTrue
<1>1. AlertInv => AlertSnapshotsTrue
  BY DEF AlertInv
<1> QED
  BY <1>1, AlertInvariant, PTL

----------------------------------------------------------------------------
(* The invariant of the answers. *)

\* A step of request r that commits nothing and ends no movement well.
LEMMA AnswersKept ==
  ASSUME AnswersInv, NEW r \in Requests, UNCHANGED <<products, ledger>>,
         \A s \in Requests \ {r} : pc'[s] = pc[s] /\ op'[s] = op[s],
         op'[r] = op[r] \/ (pc[r] = "idle" /\ pc'[r] \notin {"refresh", "ok", "unconfirmed", "lost"}),
         pc'[r] \notin {"refresh", "ok", "unconfirmed", "lost"} => pc[r] \notin {"refresh", "ok", "unconfirmed", "lost"},
         pc'[r] \in {"acknowledge", "reacknowledge", "resolve"} => op'[r] \notin MovementOperation,
         pc'[r] \in {"refresh", "ok", "unconfirmed"} /\ op'[r] \in MovementOperation => pc[r] \in {"refresh", "ok", "unconfirmed"}
  PROVE  AnswersInv'
<1>1. \A s \in Requests, p \in Products : RowsOf(s, p)' = RowsOf(s, p)
  BY DEF RowsOf
<1>2. ASSUME NEW s \in Requests
      PROVE  /\ \A p \in Products :
                  \/ pc'[s] \notin {"refresh", "ok", "unconfirmed", "lost"}
                  \/ op'[s] \notin MovementOperation
                  \/ p # op'[s].product
                  => RowsOf(s, p)' = {}
             /\ pc'[s] \in {"acknowledge", "reacknowledge", "resolve"} =>
                  op'[s] \notin MovementOperation
             /\ \A p \in Products : \A i, j \in RowsOf(s, p)' : i = j
  BY <1>1 DEF AnswersInv
<1>3. ASSUME NEW s \in Requests, op'[s] \in MovementOperation, pc'[s] \in {"refresh", "ok", "unconfirmed"},
             products'[op'[s].product] # None
      PROVE  \E i \in 1..Len(ledger'[op'[s].product]) :
               {j \in 1..Len(ledger'[op'[s].product]) : ledger'[op'[s].product][j].at = s} = {i}
  <2>1. op'[s] = op[s] /\ pc[s] \in {"refresh", "ok", "unconfirmed"}
    BY <1>3
  <2> QED
    BY <1>3, <2>1 DEF AnswersInv, RowsOf
<1> QED
  BY <1>2, <1>3 DEF AnswersInv, RowsOf

LEMMA AbortAnswers ==
  ASSUME InventoryInv, AnswersInv, NEW r \in Requests, NEW answer \in Answers, Abort(r, answer),
         answer # "lost" => pc[r] \notin {"refresh", "ok", "unconfirmed", "lost"},
         answer \in {"ok", "unconfirmed"} => op[r] \notin MovementOperation
  PROVE  AnswersInv'
<1>1. /\ pc' = [pc EXCEPT ![r] = answer] /\ pc'[r] = answer
      /\ UNCHANGED <<products, ledger, alerts, op>>
  BY DEF Abort, Goto, database, InventoryInv, TypeOK
<1>2. \A s \in Requests \ {r} : pc'[s] = pc[s] /\ op'[s] = op[s]
  BY <1>1 DEF InventoryInv, TypeOK
<1> QED
  BY <1>1, <1>2, AnswersKept DEF Answers

LEMMA AskAnswers ==
  ASSUME InventoryInv, AnswersInv, NEW r \in Requests, Ask(r)
  PROVE  AnswersInv'
<1>1. PICK o \in Operations :
        \/ AskMovement(r, o)
        \/ AskPatch(r, o)
        \/ AskDelete(r, o)
        \/ \E a \in AlertIds : AskAlert(r, o, a)
  BY DEF Ask
<1>2. /\ pc[r] = "idle" /\ op' = [op EXCEPT ![r] = o] /\ op'[r] = o
      /\ UNCHANGED <<products, ledger>>
  BY <1>1 DEF AskMovement, AskPatch, AskDelete, AskAlert, Admits, database, InventoryInv, TypeOK
<1>3. PICK step \in {"lock", "flush", "children", "acknowledge", "reacknowledge", "resolve",
                     "not_found", "conflict"} :
        /\ pc' = [pc EXCEPT ![r] = step]
        /\ step \in {"acknowledge", "reacknowledge", "resolve"} =>
             o.kind \in {"acknowledge", "resolve"}
  BY <1>1, Zenon DEF AskMovement, AskPatch, AskDelete, AskAlert, Goto, AlertStep
<1>4. /\ pc'[r] = step
      /\ \A s \in Requests \ {r} : pc'[s] = pc[s] /\ op'[s] = op[s]
  BY <1>2, <1>3 DEF InventoryInv, TypeOK
<1>5. o \in MovementOperation => o.kind = "movement"
  BY MovementFields
<1> QED
  BY <1>2, <1>3, <1>4, <1>5, AnswersKept

\* A new row is the only one that it adds to anybody's rows.
LEMMA AppendRows ==
  ASSUME NEW S, NEW l \in Seq(S), NEW m, NEW s
  PROVE  {i \in 1..Len(Append(l, m)) : Append(l, m)[i].at = s} =
           {i \in 1..Len(l) : l[i].at = s} \cup (IF m.at = s THEN {Len(l) + 1} ELSE {})
<1> DEFINE k == Append(l, m)
<1>1. /\ Len(k) = Len(l) + 1 /\ Len(l) \in Nat
      /\ \A i \in 1..Len(l) : k[i] = l[i]
      /\ k[Len(l) + 1] = m
  OBVIOUS
<1> HIDE DEF k
<1>2. \A i : i \in 1..Len(k) <=> i \in 1..Len(l) \/ i = Len(l) + 1
  BY <1>1
<1>3. \A i : (i \in 1..Len(k) /\ k[i].at = s) <=>
              (i \in 1..Len(l) /\ l[i].at = s) \/ (i = Len(l) + 1 /\ m.at = s)
  BY <1>1, <1>2
<1>4. {i \in 1..Len(k) : k[i].at = s} =
        {i \in 1..Len(l) : l[i].at = s} \cup (IF m.at = s THEN {Len(l) + 1} ELSE {})
  BY <1>3
<1> QED
  BY <1>4 DEF k

LEMMA CommitAnswers ==
  ASSUME InventoryInv, AnswersInv, NEW r \in Requests, Commit(r)
  PROVE  AnswersInv'
<1> DEFINE row == [at |-> r, type |-> op[r].type, quantity |-> op[r].quantity,
                   balance_after |-> pend[r].quantity]
<1>1. /\ pc[r] = "commit" /\ op[r] \in MovementOperation \cup PatchOperation
      /\ pc' = [pc EXCEPT ![r] = "refresh"] /\ pc'[r] = "refresh" /\ op' = op
      /\ \A s \in Requests \ {r} : pc'[s] = pc[s]
  BY StepKinds DEF Commit, Goto, InventoryInv, TypeOK, RequestShape
<1>2. PICK p \in Products : p = op[r].product
  BY <1>1, MovementFields, PatchFields
<1>3. \A q \in Products : products'[q] # None <=> products[q] # None
  BY CommittedBalances
<1>4. CASE op[r] \notin MovementOperation
  <2>1. ledger' = ledger
    BY <1>1, <1>4, PatchFields DEF Commit, CommittedLedger
  <2>2. \A s \in Requests, q \in Products : RowsOf(s, q)' = RowsOf(s, q)
    BY <2>1 DEF RowsOf
  <2>3. \A s \in Requests : op[s] \in MovementOperation => op[s].product \in Products
    BY MovementFields
  <2>4. ASSUME NEW s \in Requests, op'[s] \in MovementOperation, pc'[s] \in {"refresh", "ok", "unconfirmed"},
               products'[op'[s].product] # None
        PROVE  \E i \in 1..Len(ledger'[op'[s].product]) :
                 {j \in 1..Len(ledger'[op'[s].product]) : ledger'[op'[s].product][j].at = s} = {i}
    BY <1>1, <1>3, <1>4, <2>1, <2>3, <2>4 DEF AnswersInv, RowsOf
  <2>5. ASSUME NEW s \in Requests
        PROVE  /\ \A q \in Products :
                    \/ pc'[s] \notin {"refresh", "ok", "unconfirmed", "lost"}
                    \/ op'[s] \notin MovementOperation
                    \/ q # op'[s].product
                    => RowsOf(s, q)' = {}
               /\ pc'[s] \in {"acknowledge", "reacknowledge", "resolve"} =>
                    op'[s] \notin MovementOperation
               /\ \A q \in Products : \A i, j \in RowsOf(s, q)' : i = j
    BY <1>1, <1>4, <2>2 DEF AnswersInv
  <2> QED
    BY <2>4, <2>5 DEF AnswersInv, RowsOf
<1>5. CASE op[r] \in MovementOperation
  <2>1. PICK S : ledger[p] \in Seq(S)
    BY <1>2 DEF InventoryInv, TypeOK
  <2>2. /\ ledger'[p] = Append(ledger[p], row)
        /\ \A q \in Products \ {p} : ledger'[q] = ledger[q]
    BY <1>2, <1>5, MovementFields DEF Commit, CommittedLedger, InventoryInv, TypeOK
  <2>3. /\ Len(ledger'[p]) = Len(ledger[p]) + 1 /\ Len(ledger[p]) \in Nat
        /\ row.at = r
    BY <2>1, <2>2
  <2>4. \A s \in Requests :
          RowsOf(s, p)' = RowsOf(s, p) \cup (IF r = s THEN {Len(ledger[p]) + 1} ELSE {})
    <3> SUFFICES ASSUME NEW s \in Requests
                 PROVE  {i \in 1..Len(ledger'[p]) : ledger'[p][i].at = s} =
                          {i \in 1..Len(ledger[p]) : ledger[p][i].at = s}
                            \cup (IF r = s THEN {Len(ledger[p]) + 1} ELSE {})
      BY DEF RowsOf
    <3> HIDE DEF row
    <3> QED
      BY <2>1, <2>2, <2>3, AppendRows
  <2>5. \A s \in Requests \ {r}, q \in Products : RowsOf(s, q)' = RowsOf(s, q)
    <3>1. \A s \in Requests \ {r}, q \in Products \ {p} : RowsOf(s, q)' = RowsOf(s, q)
      BY <2>2 DEF RowsOf
    <3> QED
      BY <2>4, <3>1
  <2>6. /\ RowsOf(r, p)' = {Len(ledger'[p])}
        /\ \A q \in Products \ {p} : RowsOf(r, q)' = {}
    <3>1. \A q \in Products : RowsOf(r, q) = {}
      BY <1>1 DEF AnswersInv
    <3>2. \A q \in Products \ {p} : RowsOf(r, q)' = RowsOf(r, q)
      BY <2>2 DEF RowsOf
    <3> QED
      BY <1>2, <2>3, <2>4, <3>1, <3>2
  <2>7. ASSUME NEW s \in Requests
        PROVE  /\ \A q \in Products :
                    \/ pc'[s] \notin {"refresh", "ok", "unconfirmed", "lost"}
                    \/ op'[s] \notin MovementOperation
                    \/ q # op'[s].product
                    => RowsOf(s, q)' = {}
               /\ pc'[s] \in {"acknowledge", "reacknowledge", "resolve"} =>
                    op'[s] \notin MovementOperation
               /\ \A q \in Products : \A i, j \in RowsOf(s, q)' : i = j
    BY <1>1, <1>2, <1>5, <2>5, <2>6 DEF AnswersInv
  <2>8. ASSUME NEW s \in Requests, op[s] \in MovementOperation, pc'[s] \in {"refresh", "ok", "unconfirmed"},
               NEW q \in Products, q = op[s].product, products'[q] # None
        PROVE  \E i \in 1..Len(ledger'[q]) : RowsOf(s, q)' = {i}
    <3>1. CASE s = r
      <4>1. q = p /\ RowsOf(s, q)' = {Len(ledger'[p])}
        BY <1>2, <2>6, <2>8, <3>1 DEF RowsOf
      <4>2. Len(ledger'[p]) \in 1..Len(ledger'[p])
        BY <2>3
      <4> QED
        BY <4>1, <4>2
    <3>2. CASE s # r
      <4>1. PICK i \in 1..Len(ledger[q]) : RowsOf(s, q) = {i}
        BY <1>1, <1>3, <2>8, <3>2 DEF AnswersInv
      <4>2. i \in 1..Len(ledger'[q])
        BY <2>2, <2>3
      <4> QED
        BY <2>5, <3>2, <4>1, <4>2
    <3> QED
      BY <3>1, <3>2
  <2>9. ASSUME NEW s \in Requests, op'[s] \in MovementOperation, pc'[s] \in {"refresh", "ok", "unconfirmed"},
               products'[op'[s].product] # None
        PROVE  \E i \in 1..Len(ledger'[op'[s].product]) :
                 {j \in 1..Len(ledger'[op'[s].product]) : ledger'[op'[s].product][j].at = s} = {i}
    <3>1. PICK q \in Products : q = op[s].product
      BY <1>1, <2>9, MovementFields
    <3>2. \E i \in 1..Len(ledger'[q]) : RowsOf(s, q)' = {i}
      BY <1>1, <2>8, <2>9, <3>1
    <3> QED
      BY <1>1, <3>1, <3>2 DEF RowsOf
  <2> QED
    BY <2>7, <2>9 DEF AnswersInv, RowsOf
<1> QED
  BY <1>4, <1>5

\* The statements between a request's arrival and its commit.
LEMMA StatementAnswers ==
  ASSUME InventoryInv, AnswersInv, NEW r \in Requests,
         \/ LockProduct(r) \/ FlushPatch(r) \/ ReadActiveAlert(r) \/ InsertAlert(r)
         \/ CheckAlertProduct(r) \/ CloseAlert(r) \/ DeleteChildren(r) \/ DeleteProduct(r)
  PROVE  AnswersInv'
<1>1. /\ pc[r] \in {"lock", "flush", "low_stock", "overstock", "open", "key_share", "close",
                    "children", "delete"}
      /\ pc[r] = "delete" => op[r] \in DeleteOperation
  BY DEF LockProduct, FlushPatch, ReadActiveAlert, InsertAlert, CheckAlertProduct, CloseAlert,
         DeleteChildren, DeleteProduct, InventoryInv, RequestShape, AlertKinds
<1>2. op[r] \in DeleteOperation => op[r] \notin MovementOperation
  BY DeleteFields, MovementFields
<1>3. \/ \E answer \in {"not_found", "conflict", "error"} : Abort(r, answer)
      \/ Abort(r, "ok") /\ op[r] \notin MovementOperation
      \/ \E step \in {"low_stock", "overstock", "open", "key_share", "close", "commit",
                      "delete", "cascade"} :
           /\ pc' = [pc EXCEPT ![r] = step]
           /\ UNCHANGED <<products, ledger, op>>
  <2>1. CASE LockProduct(r)
    BY <2>1 DEF LockProduct, Goto, database
  <2>2. CASE FlushPatch(r)
    BY <2>2 DEF FlushPatch, Goto, database
  <2>3. CASE ReadActiveAlert(r)
    BY <2>3 DEF ReadActiveAlert, Goto, AfterKind, database
  <2>4. CASE InsertAlert(r)
    BY <2>4 DEF InsertAlert, Goto, AfterKind, database
  <2>5. CASE CheckAlertProduct(r)
    BY <2>5 DEF CheckAlertProduct, Goto, AfterKind, database
  <2>6. CASE CloseAlert(r)
    BY <2>6 DEF CloseAlert, Goto, AfterKind, database
  <2>7. CASE DeleteChildren(r) \/ DeleteProduct(r)
    BY <1>1, <1>2, <2>7 DEF DeleteChildren, DeleteProduct, Goto, database
  <2> QED
    BY <2>1, <2>2, <2>3, <2>4, <2>5, <2>6, <2>7
<1>4. CASE \E answer \in {"not_found", "conflict", "error"} : Abort(r, answer)
  BY <1>1, <1>4, AbortAnswers DEF Answers
<1>5. CASE Abort(r, "ok") /\ op[r] \notin MovementOperation
  BY <1>1, <1>5, AbortAnswers DEF Answers
<1>6. CASE \E step \in {"low_stock", "overstock", "open", "key_share", "close", "commit",
                        "delete", "cascade"} :
             /\ pc' = [pc EXCEPT ![r] = step]
             /\ UNCHANGED <<products, ledger, op>>
  <2>1. /\ pc'[r] \in {"low_stock", "overstock", "open", "key_share", "close", "commit",
                       "delete", "cascade"}
        /\ \A s \in Requests \ {r} : pc'[s] = pc[s] /\ op'[s] = op[s]
        /\ UNCHANGED <<products, ledger, op>>
    BY <1>6 DEF InventoryInv, TypeOK
  <2> QED
    BY <1>1, <2>1, AnswersKept
<1> QED
  BY <1>3, <1>4, <1>5, <1>6

\* Whether or not the reload succeeds, what was recorded stays so.
LEMMA RefreshAnswers ==
  ASSUME InventoryInv, AnswersInv, NEW r \in Requests, Refresh(r)
  PROVE  AnswersInv'
<1>1. /\ pc[r] = "refresh" /\ UNCHANGED <<products, ledger, op>>
      /\ \E answer \in {"ok", "unconfirmed"} : pc' = [pc EXCEPT ![r] = answer]
  BY DEF Refresh, Goto, database
<1>2. /\ pc'[r] \in {"ok", "unconfirmed"}
      /\ \A s \in Requests \ {r} : pc'[s] = pc[s] /\ op'[s] = op[s]
  BY <1>1 DEF InventoryInv, TypeOK
<1> QED
  BY <1>1, <1>2, AnswersKept

LEMMA SetAlertStatusAnswers ==
  ASSUME InventoryInv, AnswersInv, NEW r \in Requests, SetAlertStatus(r)
  PROVE  AnswersInv'
<1>1. /\ pc[r] \in {"acknowledge", "reacknowledge", "resolve"}
      /\ op[r] \notin MovementOperation
  BY DEF SetAlertStatus, AnswersInv
<1>2. CASE Abort(r, "error")
  BY <1>1, <1>2, AbortAnswers DEF Answers
<1>3. CASE /\ \E answer \in {"ok", "unconfirmed"} : pc' = [pc EXCEPT ![r] = answer]
           /\ UNCHANGED <<products, ledger, op>>
  <2>1. /\ pc'[r] \in {"ok", "unconfirmed"}
        /\ \A s \in Requests \ {r} : pc'[s] = pc[s] /\ op'[s] = op[s]
    BY <1>3 DEF InventoryInv, TypeOK
  <2> QED
    BY <1>1, <1>3, <2>1, AnswersKept
<1> QED
  BY <1>2, <1>3 DEF SetAlertStatus, Goto

LEMMA CascadeDeleteAnswers ==
  ASSUME InventoryInv, AnswersInv, NEW r \in Requests, CascadeDelete(r)
  PROVE  AnswersInv'
<1>1. /\ pc[r] = "cascade" /\ op[r] \in DeleteOperation
      /\ pc' = [pc EXCEPT ![r] = "ok"] /\ op' = op
      /\ products' = [products EXCEPT ![op[r].product] = None]
      /\ ledger' = [ledger EXCEPT ![op[r].product] = <<>>]
  BY DEF CascadeDelete, Goto, InventoryInv, RequestShape
<1>2. /\ pc'[r] = "ok" /\ \A s \in Requests \ {r} : pc'[s] = pc[s]
      /\ op[r] \notin MovementOperation
  BY <1>1, DeleteFields, MovementFields DEF InventoryInv, TypeOK
<1>3. PICK p \in Products : p = op[r].product
  BY <1>1, DeleteFields
<1>4. /\ products'[p] = None /\ ledger'[p] = <<>>
      /\ \A q \in Products \ {p} : products'[q] = products[q] /\ ledger'[q] = ledger[q]
  BY <1>1, <1>3 DEF InventoryInv, TypeOK
<1>5. \A s \in Requests :
        /\ RowsOf(s, p)' = {}
        /\ \A q \in Products \ {p} : RowsOf(s, q)' = RowsOf(s, q)
  BY <1>4 DEF RowsOf
<1>6. ASSUME NEW s \in Requests, op'[s] \in MovementOperation, pc'[s] \in {"refresh", "ok", "unconfirmed"},
             products'[op'[s].product] # None
      PROVE  \E i \in 1..Len(ledger'[op'[s].product]) :
               {j \in 1..Len(ledger'[op'[s].product]) : ledger'[op'[s].product][j].at = s} = {i}
  <2>1. op'[s] = op[s] /\ s # r /\ op[s].product \in Products \ {p}
    BY <1>1, <1>2, <1>4, <1>6, MovementFields
  <2> QED
    BY <1>2, <1>4, <1>6, <2>1 DEF AnswersInv, RowsOf
<1>7. ASSUME NEW s \in Requests
      PROVE  /\ \A q \in Products :
                  \/ pc'[s] \notin {"refresh", "ok", "unconfirmed", "lost"}
                  \/ op'[s] \notin MovementOperation
                  \/ q # op'[s].product
                  => RowsOf(s, q)' = {}
             /\ pc'[s] \in {"acknowledge", "reacknowledge", "resolve"} =>
                  op'[s] \notin MovementOperation
             /\ \A q \in Products : \A i, j \in RowsOf(s, q)' : i = j
  BY <1>1, <1>2, <1>3, <1>5 DEF AnswersInv
<1> QED
  BY <1>6, <1>7 DEF AnswersInv, RowsOf

LEMMA NextAnswers ==
  ASSUME InventoryInv, AnswersInv, [Next]_vars
  PROVE  AnswersInv'
<1>1. ASSUME NEW r \in Requests, Ask(r) \/ Step(r)
      PROVE  AnswersInv'
  BY <1>1, AskAnswers, StatementAnswers, CommitAnswers, RefreshAnswers,
     SetAlertStatusAnswers, CascadeDeleteAnswers DEF Step
<1>2. ASSUME NEW r \in Requests, Crash(r)
      PROVE  AnswersInv'
  BY <1>2, AbortAnswers DEF Crash, Answers
<1>3. ASSUME NEW r \in Requests, DetectDeadlock(r)
      PROVE  AnswersInv'
  <2>1. BlockedBy(r) # {} /\ Running(r)
    BY <1>3 DEF DetectDeadlock, InWaitCycle
  <2>2. pc[r] \notin {"refresh", "ok", "unconfirmed", "lost"}
    BY <2>1 DEF BlockedBy, Running, Steps, AlertKinds
  <2> QED
    BY <1>3, <2>2, AbortAnswers DEF DetectDeadlock, Answers
<1>4. CASE Finished \/ UNCHANGED vars
  <2>1. UNCHANGED <<products, ledger, op, pc>>
    BY <1>4 DEF Finished, vars
  <2> QED
    BY <2>1 DEF AnswersInv, RowsOf
<1> QED
  BY <1>1, <1>2, <1>3, <1>4 DEF Next

LEMMA AnswersInvariant == Spec => []AnswersInv
<1>1. Init => AnswersInv
  <2> SUFFICES ASSUME Init PROVE AnswersInv
    OBVIOUS
  <2>1. \A r \in Requests : pc[r] = "idle"
    BY DEF Init
  <2>2. \A r \in Requests, p \in Products : RowsOf(r, p) = {}
    BY DEF Init, RowsOf
  <2> QED
    BY <2>1, <2>2 DEF AnswersInv
<1>2. InventoryInv /\ AnswersInv /\ [Next]_vars => AnswersInv'
  BY NextAnswers
<1> QED
  BY <1>1, <1>2, InventoryInvariant, PTL DEF Spec

\* The ledger is worth more than the answer: no movement is in it twice, one
\* that committed is in its product's ledger for as long as the product
\* exists, whether its client was told 201 or the 500 of a refresh that
\* failed, and one refused, failed before the commit or still on its way is
\* nowhere, whatever else runs, dies or is picked to break a deadlock.
THEOREM AnswersAgreeWithLedger == Spec => []AnswersMatchLedger
<1>1. InventoryInv /\ AnswersInv => AnswersMatchLedger
  <2> SUFFICES ASSUME InventoryInv, AnswersInv, NEW r \in Requests, op[r] # None,
                      op[r].kind = "movement"
               PROVE  /\ \A i, j \in RowsOf(r, op[r].product) : i = j
                      /\ Committed(r) /\ products[op[r].product] # None
                           => RowsOf(r, op[r].product) # {}
                      /\ ~Committed(r) /\ pc[r] # "lost" => RowsOf(r, op[r].product) = {}
    BY DEF AnswersMatchLedger, RowsOf
  <2>1. op[r] \in MovementOperation
    <3>1. op[r] \in Operation
      BY InstanceAssumption DEF InventoryInv, TypeOK
    <3> QED
      BY <3>1 DEF Operation, PatchOperation, DeleteOperation, AlertOperation
  <2>2. op[r].product \in Products
    BY <2>1, MovementFields
  <2>3. \A i : {i} # {}
    OBVIOUS
  <2> QED
    BY <2>1, <2>2, <2>3 DEF AnswersInv, Committed
<1> QED
  BY <1>1, InventoryInvariant, AnswersInvariant, PTL

----------------------------------------------------------------------------
(* evaluate, kind by kind: what it has seen to fits the product. *)

LEMMA ReadActiveAlertSettles ==
  ASSUME InventoryInv, AlertInv, NEW r \in Requests, ReadActiveAlert(r), EvaluatedSound(r)
  PROVE  /\ Local(r) /\ pc'[r] \in EvaluateSteps /\ op'[r] = op[r] /\ view'[r] = view[r]
         /\ pend'[r] = pend[r] /\ EvaluatedSound(r)'
<1> DEFINE kind == pc[r]
           active == {a \in AlertIds : a[2] = kind /\ IsActiveFor(Seen(r, a), op[r].product)}
<1>1. /\ kind \in AlertKinds /\ pc[r] \in {"low_stock", "overstock"}
      /\ UNCHANGED <<products, ledger, alerts, op, lock, view, pend, staged>>
  BY DEF ReadActiveAlert, database, AlertKinds
<1>2. \/ /\ Condition(kind, view[r]) /\ active = {}
         /\ target' = [target EXCEPT ![r] = <<r, kind>>] /\ pc' = [pc EXCEPT ![r] = "open"]
      \/ /\ ~Condition(kind, view[r]) /\ \E a \in active : target' = [target EXCEPT ![r] = a]
         /\ pc' = [pc EXCEPT ![r] = "close"]
      \/ /\ Condition(kind, view[r]) <=> active # {}
         /\ UNCHANGED target
         /\ pc' = [pc EXCEPT ![r] = IF kind = "low_stock" THEN "overstock" ELSE "commit"]
  <2>1. Condition(kind, view[r]) \in BOOLEAN
    BY DEF Condition
  <2> QED
    BY <2>1 DEF ReadActiveAlert, DecideAlertAction, AfterKind, Goto
<1>3. PICK step \in {"open", "close", "overstock", "commit"} : pc' = [pc EXCEPT ![r] = step]
  BY <1>2
<1>4. pc'[r] = step /\ op'[r] = op[r] /\ step \in EvaluateSteps
  BY <1>1, <1>3, StepKinds DEF InventoryInv, TypeOK
<1>5. Local(r)
  BY <1>1, <1>2, <1>4, StepKinds DEF Local, InventoryInv, TypeOK
<1>6. \A k \in AlertKinds : Settled(r, k)' <=> Settled(r, k)
  BY <1>1 DEF Settled, Condition, Seen, IsActiveFor
<1>7. kind = "overstock" => Settled(r, "low_stock")
  BY DEF EvaluatedSound
<1>8. \A a \in AlertIds : a[2] = kind => Seen(r, a) = alerts[a]
  BY <1>1, StepKinds DEF AlertInv, RequestSound, WritesOrdered, Written, Seen
<1>9. EvaluatedSound(r)'
  <2>1. CASE /\ Condition(kind, view[r]) /\ active = {}
             /\ target' = [target EXCEPT ![r] = <<r, kind>>] /\ pc' = [pc EXCEPT ![r] = "open"]
    <3>1. pc'[r] = "open" /\ target'[r][2] = kind
      BY <2>1 DEF InventoryInv, TypeOK
    <3>2. \A a \in AlertIds : a[2] = kind => ~IsActiveFor(alerts[a], op[r].product)
      BY <1>8, <2>1
    <3> QED
      BY <1>1, <1>6, <1>7, <3>1, <3>2 DEF EvaluatedSound, AlertKinds, IsActiveFor
  <2>2. CASE /\ ~Condition(kind, view[r]) /\ \E a \in active : target' = [target EXCEPT ![r] = a]
             /\ pc' = [pc EXCEPT ![r] = "close"]
    <3>1. pc'[r] = "close" /\ target'[r] \in active
      BY <2>2 DEF InventoryInv, TypeOK
    <3>2. target'[r][2] = kind /\ IsActiveFor(alerts[target'[r]], op[r].product)
      BY <1>8, <3>1
    <3> QED
      BY <1>1, <1>6, <1>7, <2>2, <3>1, <3>2
         DEF EvaluatedSound, AlertKinds, IsActiveFor, Condition
  <2>3. CASE /\ Condition(kind, view[r]) <=> active # {}
             /\ pc' = [pc EXCEPT ![r] = IF kind = "low_stock" THEN "overstock" ELSE "commit"]
    <3>1. pc'[r] = IF kind = "low_stock" THEN "overstock" ELSE "commit"
      BY <2>3 DEF InventoryInv, TypeOK
    <3>2. Settled(r, kind)
      BY <2>3 DEF Settled
    <3> QED
      BY <1>1, <1>6, <1>7, <3>1, <3>2 DEF EvaluatedSound, AlertKinds
  <2> QED
    BY <1>2, <2>1, <2>2, <2>3
<1> QED
  BY <1>1, <1>4, <1>5, <1>9

LEMMA InsertAlertSettles ==
  ASSUME InventoryInv, AlertInv, NEW r \in Requests, InsertAlert(r), EvaluatedSound(r)
  PROVE  /\ Local(r) /\ pc'[r] \in EvaluateSteps /\ op'[r] = op[r] /\ view'[r] = view[r]
         /\ pend'[r] = pend[r] /\ EvaluatedSound(r)'
<1> DEFINE kind == target[r][2]
           row == Opened(r, kind)
<1>1. /\ pc[r] = "open"
      /\ UNCHANGED <<products, ledger, alerts, op, lock, view, pend, target>>
  BY DEF InsertAlert, database
<1>2. /\ target[r] \in AlertIds /\ kind \in AlertKinds /\ Condition(kind, view[r])
  BY <1>1, AlertIdTypes DEF InventoryInv, TypeOK, RequestShape
<1>3. ~KeyTaken(r, op[r].product, kind)
  BY <1>1 DEF KeyTaken, EvaluatedSound
<1>4. staged' = [staged EXCEPT ![r][target[r]] = row] /\ pc' = [pc EXCEPT ![r] = "key_share"]
  BY <1>3 DEF InsertAlert, Goto, Opened
<1>5. /\ pc'[r] = "key_share" /\ staged'[r][target[r]] = row
      /\ \A a \in AlertIds \ {target[r]} : staged'[r][a] = staged[r][a]
      /\ \A s \in Requests \ {r} : pc'[s] = pc[s] /\ staged'[s] = staged[s]
  BY <1>2, <1>4 DEF InventoryInv, TypeOK
<1>6. Local(r)
  BY <1>1, <1>5, StepKinds DEF Local
<1>7. IsActiveFor(row, op[r].product)
  <2>1. row \in AlertRow /\ row.product = op[r].product /\ row.status = "open"
    BY <1>1, <1>2, OpenedTypes, StepKinds
  <2> HIDE DEF row
  <2> QED
    BY <2>1, SentinelAssumption DEF IsActiveFor, ActiveAlertStatuses
<1>8. Settled(r, kind)'
  <2>1. IsActiveFor(Seen(r, target[r])', op[r].product)
    BY <1>1, <1>5, <1>7 DEF Seen, IsActiveFor
  <2> QED
    BY <1>1, <1>2, <2>1 DEF Settled, Condition, Seen, IsActiveFor
<1>9. kind = "overstock" => Settled(r, "low_stock")'
  <2>1. kind = "overstock" => Settled(r, "low_stock")
    BY <1>1 DEF EvaluatedSound
  <2>2. kind = "overstock" => \A a \in AlertIds : a[2] = "low_stock" => a # target[r]
    OBVIOUS
  <2>3. kind = "overstock" => (Settled(r, "low_stock")' <=> Settled(r, "low_stock"))
    BY <1>1, <1>5, <2>2 DEF Settled, Condition, Seen, IsActiveFor
  <2> QED
    BY <2>1, <2>3
<1>10. EvaluatedSound(r)'
  BY <1>1, <1>5, <1>8, <1>9 DEF EvaluatedSound, Settled, Condition, Seen, IsActiveFor
<1> QED
  BY <1>1, <1>5, <1>6, <1>10, StepKinds

LEMMA CheckAlertProductSettles ==
  ASSUME InventoryInv, AlertInv, NEW r \in Requests, CheckAlertProduct(r), EvaluatedSound(r),
         products[op[r].product] # None
  PROVE  /\ Local(r) /\ pc'[r] \in EvaluateSteps /\ op'[r] = op[r] /\ view'[r] = view[r]
         /\ pend'[r] = pend[r] /\ EvaluatedSound(r)'
<1> DEFINE kind == target[r][2]
           step == IF kind = "low_stock" THEN "overstock" ELSE "commit"
<1>1. /\ pc[r] = "key_share"
      /\ UNCHANGED <<products, ledger, alerts, op, view, pend, target>>
      /\ pc' = [pc EXCEPT ![r] = step]
  BY DEF CheckAlertProduct, database, Goto, AfterKind
<1>2. kind \in AlertKinds
  BY <1>1, AlertIdTypes DEF InventoryInv, TypeOK, RequestShape
<1>3. UNCHANGED staged /\ lock' = [lock EXCEPT ![r] = LockWanted(r)]
  BY DEF CheckAlertProduct
<1>4. pc'[r] = step /\ Local(r) /\ step \in EvaluateSteps
  BY <1>1, <1>3, StepKinds DEF Local, InventoryInv, TypeOK
<1>5. \A k \in AlertKinds : Settled(r, k)' <=> Settled(r, k)
  BY <1>1, <1>3 DEF Settled, Condition, Seen, IsActiveFor
<1>6. /\ Settled(r, kind)
      /\ kind = "overstock" => Settled(r, "low_stock")
  BY <1>1 DEF EvaluatedSound
<1>7. EvaluatedSound(r)'
  BY <1>2, <1>4, <1>5, <1>6 DEF EvaluatedSound, AlertKinds
<1> QED
  BY <1>1, <1>4, <1>7

LEMMA CloseAlertSettles ==
  ASSUME InventoryInv, AlertInv, NEW r \in Requests, CloseAlert(r), EvaluatedSound(r)
  PROVE  /\ Local(r) /\ pc'[r] \in EvaluateSteps /\ op'[r] = op[r] /\ view'[r] = view[r]
         /\ pend'[r] = pend[r] /\ EvaluatedSound(r)'
<1> DEFINE i == target[r]
           row == [alerts[i] EXCEPT !.status = "resolved"]
           step == IF i[2] = "low_stock" THEN "overstock" ELSE "commit"
<1>1. /\ pc[r] = "close" /\ i \in AlertIds /\ i[2] \in AlertKinds
  BY AlertIdTypes DEF CloseAlert, InventoryInv, TypeOK, RequestShape
<1>2. ~Condition(i[2], view[r]) /\ IsActiveFor(alerts[i], op[r].product)
  BY <1>1 DEF EvaluatedSound
<1>3. /\ staged' = [staged EXCEPT ![r][i] = row] /\ pc' = [pc EXCEPT ![r] = step]
      /\ UNCHANGED <<products, ledger, alerts, op, lock, view, pend, target>>
  BY <1>2 DEF CloseAlert, IsActiveFor, Goto, AfterKind, database
<1>4. /\ pc'[r] = step /\ step \in EvaluateSteps
      /\ staged'[r][i] = row
      /\ \A a \in AlertIds \ {i} : staged'[r][a] = staged[r][a]
      /\ \A s \in Requests \ {r} : pc'[s] = pc[s] /\ staged'[s] = staged[s]
  BY <1>1, <1>3, StepKinds DEF InventoryInv, TypeOK
<1>5. Local(r)
  BY <1>1, <1>3, <1>4, StepKinds DEF Local
<1>6. row.status = "resolved" /\ row # Unset
  <2>1. alerts[i] \in AlertRow /\ "resolved" \in AlertStatuses
    BY <1>1, <1>2 DEF IsActiveFor, InventoryInv, TypeOK, AlertStatuses
  <2> QED
    BY <2>1, StatusWritten
<1>7. \A a \in AlertIds : a[2] = i[2] => ~IsActiveFor(Seen(r, a)', op[r].product)
  <2> SUFFICES ASSUME NEW a \in AlertIds, a[2] = i[2], IsActiveFor(Seen(r, a)', op[r].product)
               PROVE  FALSE
    OBVIOUS
  <2>1. CASE a = i
    <3>1. Seen(r, a)' = row
      BY <1>4, <1>6, <2>1 DEF Seen
    <3> QED
      BY <1>6, <3>1 DEF IsActiveFor, ActiveAlertStatuses
  <2>2. CASE a # i
    <3>1. ~Written(r, a)
      BY <1>1, StepKinds DEF AlertInv, RequestSound, WritesOrdered
    <3>2. IsActiveFor(alerts[a], op[r].product)
      BY <1>3, <1>4, <2>2, <3>1 DEF Seen, Written
    <3> QED
      BY <1>1, <1>2, <2>2, <3>2 DEF AlertInv, OneActiveAlert, IsActiveFor
  <2> QED
    BY <2>1, <2>2
<1>8. Settled(r, i[2])'
  <2>1. \A a \in AlertIds : a[2] = i[2] => ~IsActiveFor(Seen(r, a), op[r].product)'
    BY <1>3, <1>7 DEF Seen, IsActiveFor
  <2> QED
    BY <1>2, <1>3, <2>1 DEF Settled, Condition
<1>9. i[2] = "overstock" => Settled(r, "low_stock")'
  <2>1. i[2] = "overstock" => Settled(r, "low_stock")
    BY <1>1 DEF EvaluatedSound
  <2>2. i[2] = "overstock" => \A a \in AlertIds : a[2] = "low_stock" => a # i
    OBVIOUS
  <2>3. i[2] = "overstock" => (Settled(r, "low_stock")' <=> Settled(r, "low_stock"))
    BY <1>3, <1>4, <2>2 DEF Settled, Condition, Seen, IsActiveFor
  <2> QED
    BY <2>1, <2>3
<1>10. EvaluatedSound(r)'
  <2>1. i[2] = "low_stock" => Settled(r, "low_stock")'
    BY <1>3, <1>8 DEF Settled, Condition, Seen, IsActiveFor
  <2>2. i[2] = "overstock" => Settled(r, "overstock")'
    BY <1>3, <1>8 DEF Settled, Condition, Seen, IsActiveFor
  <2> QED
    BY <1>1, <1>4, <1>9, <2>1, <2>2 DEF EvaluatedSound, AlertKinds
<1> QED
  BY <1>1, <1>3, <1>4, <1>5, <1>10

----------------------------------------------------------------------------
(* The invariant of movements and deletions. *)

LEMMA LocalFollow ==
  ASSUME InventoryInv, FollowInv, NEW r \in Requests, Local(r),
         pc'[r] \in {"idle", "lock", "children", "delete", "cascade"} \cup EvaluateSteps \cup Ended,
         pc'[r] \in EvaluateSteps => op'[r] \in MovementOperation,
         EvaluatedSound(r)'
  PROVE  FollowInv'
<1>1. UNCHANGED <<products, ledger, alerts>>
  BY DEF Local
<1>2. ASSUME NEW s \in Requests \ {r}
      PROVE  EvaluatedSound(s)'
  <2>1. /\ pc'[s] = pc[s] /\ op'[s] = op[s] /\ view'[s] = view[s]
        /\ staged'[s] = staged[s] /\ target'[s] = target[s]
    BY DEF Local
  <2>2. \A kind \in AlertKinds : Settled(s, kind)' <=> Settled(s, kind)
    BY <1>1, <2>1 DEF Settled, Condition, Seen, IsActiveFor
  <2>3. pc[s] \in {"open", "key_share", "close"} => target[s][2] \in AlertKinds
    BY AlertIdTypes DEF InventoryInv, TypeOK, RequestShape
  <2>4. pc[s] = "key_share" => (Settled(s, target[s][2])' <=> Settled(s, target[s][2]))
    BY <1>1, <2>1 DEF Settled, Condition, Seen, IsActiveFor
  <2> QED
    BY <1>1, <2>1, <2>2, <2>3, <2>4
       DEF FollowInv, EvaluatedSound, AlertKinds, Condition, IsActiveFor
<1>3. AlertsFollowStock'
  BY <1>1 DEF FollowInv, AlertsFollowStock, Condition, IsActiveFor
<1> QED
  BY <1>1, <1>2, <1>3 DEF FollowInv, Local

\* Outside evaluate there is nothing to have seen to.
LEMMA OutsideEvaluate ==
  ASSUME NEW r \in Requests, pc'[r] \notin EvaluateSteps \ {"low_stock"}
  PROVE  EvaluatedSound(r)'
BY StepKinds DEF EvaluatedSound

LEMMA AbortFollow ==
  ASSUME InventoryInv, FollowInv, NEW r \in Requests, NEW answer \in Answers, Abort(r, answer)
  PROVE  FollowInv'
<1>1. /\ UNCHANGED <<products, ledger, alerts, op>>
      /\ pc' = [pc EXCEPT ![r] = answer] /\ lock' = [lock EXCEPT ![r] = "none"]
      /\ view' = [view EXCEPT ![r] = None] /\ pend' = [pend EXCEPT ![r] = None]
      /\ staged' = [staged EXCEPT ![r] = [a \in AlertIds |-> Unset]]
      /\ target' = [target EXCEPT ![r] = None]
  BY DEF Abort, Release, Goto, database
<1>2. pc'[r] = answer /\ answer \in Ended
  BY <1>1 DEF InventoryInv, TypeOK, Ended
<1>3. Local(r)
  BY <1>1, <1>2 DEF Local, InventoryInv, TypeOK
<1>4. pc'[r] \notin EvaluateSteps
  BY <1>2, StepKinds
<1> QED
  BY <1>2, <1>3, <1>4, OutsideEvaluate, LocalFollow

\* Only movements and deletions arrive.
LEMMA AskFollow ==
  ASSUME OnlyMovementsAndDeletes, InventoryInv, FollowInv, NEW r \in Requests, Ask(r)
  PROVE  FollowInv'
<1>1. PICK o \in Operations :
        \/ AskMovement(r, o)
        \/ AskPatch(r, o)
        \/ AskDelete(r, o)
        \/ \E a \in AlertIds : AskAlert(r, o, a)
  BY DEF Ask
<1>2. o.kind \in {"movement", "delete"}
  BY MovementFields, DeleteFields DEF OnlyMovementsAndDeletes
<1>3. /\ pc[r] = "idle" /\ op' = [op EXCEPT ![r] = o]
      /\ UNCHANGED <<products, ledger, alerts, lock, view, pend, staged, target>>
      /\ \E step \in {"lock", "children", "not_found"} : pc' = [pc EXCEPT ![r] = step]
  BY <1>1, <1>2 DEF AskMovement, AskPatch, AskDelete, AskAlert, Admits, Goto, database,
                    transaction
<1>4. pc'[r] \in {"lock", "children", "not_found"} /\ Local(r)
  BY <1>3, StepKinds DEF Local, InventoryInv, TypeOK
<1>5. /\ pc'[r] \notin EvaluateSteps
      /\ pc'[r] \in {"idle", "lock", "children", "delete", "cascade"} \cup Ended
  BY <1>4, StepKinds
<1> QED
  BY <1>4, <1>5, OutsideEvaluate, LocalFollow

LEMMA LockProductFollow ==
  ASSUME InventoryInv, FollowInv, NEW r \in Requests, LockProduct(r)
  PROVE  FollowInv'
<1>1. pc[r] = "lock" /\ op[r] \in MovementOperation
  BY DEF LockProduct, InventoryInv, RequestShape
<1>2. CASE \E answer \in Answers : Abort(r, answer)
  BY <1>2, AbortFollow
<1>3. CASE /\ \E row : view' = [view EXCEPT ![r] = row] /\ pend' = [pend EXCEPT ![r] = row]
           /\ lock' = [lock EXCEPT ![r] = LockWanted(r)]
           /\ Goto(r, "low_stock")
           /\ UNCHANGED <<database, op, staged, target>>
  <2>1. /\ pc' = [pc EXCEPT ![r] = "low_stock"] /\ pc'[r] = "low_stock" /\ op'[r] = op[r]
        /\ UNCHANGED <<products, ledger, alerts, op, staged, target>>
    BY <1>3 DEF Goto, database, InventoryInv, TypeOK
  <2>2. Local(r)
    BY <1>1, <1>3, <2>1, StepKinds DEF Local, InventoryInv, TypeOK
  <2> QED
    BY <1>1, <2>1, <2>2, OutsideEvaluate, LocalFollow, StepKinds
<1> QED
  BY <1>2, <1>3 DEF LockProduct, Answers

LEMMA RefreshFollow ==
  ASSUME InventoryInv, FollowInv, NEW r \in Requests, Refresh(r)
  PROVE  FollowInv'
<1>1. /\ pc[r] = "refresh" /\ \E answer \in {"ok", "unconfirmed"} : pc' = [pc EXCEPT ![r] = answer]
      /\ UNCHANGED <<products, ledger, alerts, op, lock, view, pend, staged, target>>
  BY DEF Refresh, Goto, database, transaction
<1>2. pc'[r] \in Ended /\ pc'[r] \notin EvaluateSteps
  BY <1>1, StepKinds DEF InventoryInv, TypeOK
<1>3. Local(r)
  BY <1>1, <1>2 DEF Local, InventoryInv, TypeOK
<1> QED
  BY <1>2, <1>3, OutsideEvaluate, LocalFollow

LEMMA EvaluateFollow ==
  ASSUME InventoryInv, AlertInv, FollowInv, NEW r \in Requests,
         ReadActiveAlert(r) \/ InsertAlert(r) \/ CheckAlertProduct(r) \/ CloseAlert(r)
  PROVE  FollowInv'
<1>1. pc[r] \in EvaluateSteps
  BY StepKinds DEF ReadActiveAlert, InsertAlert, CheckAlertProduct, CloseAlert, AlertKinds
<1>2. op[r] \in MovementOperation /\ EvaluatedSound(r) /\ products[op[r].product] # None
  BY <1>1 DEF FollowInv, InventoryInv, PendingSound, LockSafety
<1>3. /\ Local(r) /\ pc'[r] \in EvaluateSteps /\ op'[r] = op[r] /\ EvaluatedSound(r)'
  BY <1>2, ReadActiveAlertSettles, InsertAlertSettles, CheckAlertProductSettles,
     CloseAlertSettles
<1> QED
  BY <1>2, <1>3, LocalFollow

----------------------------------------------------------------------------

\* A commit changes the alerts of its own product, and of no other.
LEMMA CommitElsewhere ==
  ASSUME InventoryInv, AlertInv, NEW r \in Requests, Commit(r), NEW a \in AlertIds,
         NEW p \in Products, p # op[r].product
  PROVE  IsActiveFor(alerts'[a], p) <=> IsActiveFor(alerts[a], p)
<1>1. pc[r] = "commit" /\ alerts'[a] = Seen(r, a)
  BY DEF Commit
<1>2. CASE staged[r][a] = Unset
  BY <1>1, <1>2 DEF Seen, IsActiveFor
<1>3. CASE staged[r][a] # Unset
  <2>1. alerts'[a] = staged[r][a] /\ staged[r][a] \notin {None, Unset}
    BY <1>1, <1>3, StepKinds DEF Seen, AlertInv, RequestSound, WritesOrdered
  <2>2. CASE alerts[a] = None
    <3>1. staged[r][a] = Opened(r, a[2])
      BY <2>1, <2>2 DEF AlertInv, RequestSound, WritesSound
    <3> QED
      BY <2>1, <2>2, <3>1 DEF Opened, IsActiveFor
  <2>3. CASE alerts[a] # None
    <3>1. alerts[a].product = op[r].product /\ alerts[a] \in AlertRow
          /\ staged[r][a] = [alerts[a] EXCEPT !.status = "resolved"]
      BY <2>1, <2>3 DEF AlertInv, RequestSound, WritesSound, InventoryInv, TypeOK
    <3>2. staged[r][a].product = op[r].product
      BY <3>1, AlertRowTypes
    <3> QED
      BY <2>1, <3>1, <3>2 DEF IsActiveFor
  <2> QED
    BY <2>2, <2>3
<1> QED
  BY <1>2, <1>3

\* Under the lock of r, the alerts of its product may change: no other
\* request is in the middle of a movement of that product.
LEMMA ElsewhereKept ==
  ASSUME InventoryInv, FollowInv, NEW r \in Requests, lock[r] = "update",
         NEW p \in Products, p = op[r].product,
         \A a \in AlertIds, q \in Products \ {p} :
           IsActiveFor(alerts'[a], q) <=> IsActiveFor(alerts[a], q),
         NEW s \in Requests \ {r},
         pc'[s] = pc[s], op'[s] = op[s], view'[s] = view[s], staged'[s] = staged[s],
         target'[s] = target[s]
  PROVE  EvaluatedSound(s)'
<1>1. CASE pc[s] \notin EvaluateSteps
  BY <1>1, OutsideEvaluate
<1>2. CASE pc[s] \in EvaluateSteps
  <2>1. op[s] \in MovementOperation /\ lock[s] = "update"
    BY <1>2 DEF FollowInv, InventoryInv, PendingSound
  <2>2. op[s].product \in Products \ {p}
    BY <2>1, MovementFields DEF InventoryInv, LockSafety, Conflict
  <2>3. \A a \in AlertIds :
          IsActiveFor(Seen(s, a), op[s].product)' <=> IsActiveFor(Seen(s, a), op[s].product)
    <3>1. \A a \in AlertIds :
            IsActiveFor(Seen(s, a)', op[s].product) <=> IsActiveFor(Seen(s, a), op[s].product)
      BY <2>2 DEF Seen
    <3> QED
      BY <3>1 DEF IsActiveFor
  <2>4. \A kind \in AlertKinds : Settled(s, kind)' <=> Settled(s, kind)
    BY <2>3 DEF Settled, Condition
  <2>5. pc[s] \in {"open", "key_share", "close"} =>
          target[s] \in AlertIds /\ target[s][2] \in AlertKinds
    BY AlertIdTypes DEF InventoryInv, TypeOK, RequestShape
  <2>6. pc[s] = "key_share" => (Settled(s, target[s][2])' <=> Settled(s, target[s][2]))
    BY <2>3 DEF Settled, Condition
  <2>7. /\ pc[s] = "open" =>
             \A a \in AlertIds : a[2] = target[s][2] => ~IsActiveFor(alerts'[a], op[s].product)
        /\ pc[s] = "close" =>
             ~Condition(target[s][2], view[s]) /\ IsActiveFor(alerts'[target[s]], op[s].product)
    BY <2>2, <2>5 DEF FollowInv, EvaluatedSound
  <2> QED
    BY <2>4, <2>5, <2>6, <2>7
       DEF FollowInv, EvaluatedSound, AlertKinds, IsActiveFor, Condition
<1> QED
  BY <1>1, <1>2

LEMMA CommitFollow ==
  ASSUME InventoryInv, AlertInv, FollowInv, NEW r \in Requests, Commit(r)
  PROVE  FollowInv'
<1>1. /\ pc[r] = "commit" /\ op[r] \in MovementOperation
      /\ pc' = [pc EXCEPT ![r] = "refresh"] /\ op' = op /\ Release(r)
      /\ alerts' = [a \in AlertIds |-> Seen(r, a)]
  BY StepKinds DEF Commit, Goto, FollowInv
<1>2. PICK p \in Products : p = op[r].product
  BY <1>1, MovementFields
<1>3. /\ pc'[r] = "refresh" /\ "refresh" \in Ended /\ "refresh" \notin EvaluateSteps
      /\ \A s \in Requests \ {r} :
           /\ view'[s] = view[s] /\ staged'[s] = staged[s] /\ target'[s] = target[s]
           /\ pc'[s] = pc[s]
  BY <1>1, StepKinds DEF Release, InventoryInv, TypeOK
<1>4. view[r] # None /\ view[r] = pend[r] /\ lock[r] = "update"
  BY <1>1, StepKinds DEF InventoryInv, RequestShape, PendingSound, AlertInv, RequestSound, ViewSound
<1>5. /\ products'[p] = view[r]
      /\ \A q \in Products \ {p} : products'[q] = products[q] /\ ledger'[q] = ledger[q]
  BY <1>1, <1>2, <1>4, MovementFields
     DEF Commit, CommittedProduct, CommittedLedger, InventoryInv, TypeOK
<1>6. \A a \in AlertIds, q \in Products \ {p} :
        IsActiveFor(alerts'[a], q) <=> IsActiveFor(alerts[a], q)
  BY <1>2, CommitElsewhere
<1>7. ASSUME NEW s \in Requests \ {r}
      PROVE  EvaluatedSound(s)'
  BY <1>1, <1>2, <1>3, <1>4, <1>6, ElsewhereKept
<1>8. AlertsFollowStock'
  <2> SUFFICES ASSUME NEW q \in Products, ledger'[q] # <<>>, NEW kind \in AlertKinds
               PROVE  Condition(kind, products'[q]) <=>
                        \E a \in AlertIds : a[2] = kind /\ IsActiveFor(alerts'[a], q)
    BY DEF AlertsFollowStock, Condition, IsActiveFor
  <2>1. CASE q = p
    <3>1. Settled(r, kind)
      BY <1>1 DEF FollowInv, EvaluatedSound
    <3>2. \A a \in AlertIds : alerts'[a] = Seen(r, a)
      BY <1>1
    <3> QED
      BY <1>2, <1>5, <2>1, <3>1, <3>2 DEF Settled
  <2>2. CASE q # p
    <3>1. products'[q] = products[q] /\ ledger[q] # <<>>
      BY <1>5, <2>2
    <3> QED
      BY <1>6, <2>2, <3>1 DEF FollowInv, AlertsFollowStock
  <2> QED
    BY <2>1, <2>2
<1>9. EvaluatedSound(r)'
  BY <1>3, OutsideEvaluate
<1> QED
  BY <1>1, <1>3, <1>7, <1>8, <1>9 DEF FollowInv

----------------------------------------------------------------------------
(* DELETE of a product: it takes its alerts and its history along. *)

LEMMA DeleteFollow ==
  ASSUME InventoryInv, FollowInv, NEW r \in Requests, DeleteChildren(r) \/ DeleteProduct(r)
  PROVE  FollowInv'
<1>1. CASE Abort(r, "ok")
  BY <1>1, AbortFollow DEF Answers
<1>2. CASE /\ \E step \in {"delete", "cascade"} : pc' = [pc EXCEPT ![r] = step]
           /\ UNCHANGED <<products, ledger, alerts, op, view, pend, target>>
           /\ \A s \in Requests \ {r} : lock'[s] = lock[s] /\ staged'[s] = staged[s]
           /\ pc[r] \notin Ended
  <2>1. pc'[r] \in {"delete", "cascade"} /\ \A s \in Requests \ {r} : pc'[s] = pc[s]
    BY <1>2 DEF InventoryInv, TypeOK
  <2>2. Local(r) /\ pc'[r] \notin EvaluateSteps
    BY <1>2, <2>1, StepKinds DEF Local
  <2> QED
    BY <2>1, <2>2, OutsideEvaluate, LocalFollow
<1>3. CASE DeleteChildren(r)
  <2>1. pc[r] = "children" /\ pc' = [pc EXCEPT ![r] = "delete"]
    BY <1>3 DEF DeleteChildren, Goto
  <2>2. \A s \in Requests \ {r} : lock'[s] = lock[s] /\ staged'[s] = staged[s]
    BY <1>3 DEF DeleteChildren, InventoryInv, TypeOK
  <2> QED
    BY <1>2, <1>3, <2>1, <2>2, StepKinds DEF DeleteChildren, database
<1>4. CASE DeleteProduct(r) /\ ~Abort(r, "ok")
  <2>1. pc[r] = "delete" /\ pc' = [pc EXCEPT ![r] = "cascade"]
    BY <1>4 DEF DeleteProduct, Goto
  <2>2. \A s \in Requests \ {r} : lock'[s] = lock[s] /\ staged'[s] = staged[s]
    BY <1>4 DEF DeleteProduct, InventoryInv, TypeOK
  <2> QED
    BY <1>2, <1>4, <2>1, <2>2, StepKinds DEF DeleteProduct, database
<1> QED
  BY <1>1, <1>3, <1>4

LEMMA CascadeDeleteFollow ==
  ASSUME InventoryInv, FollowInv, NEW r \in Requests, CascadeDelete(r)
  PROVE  FollowInv'
<1>1. /\ pc[r] = "cascade" /\ op[r] \in DeleteOperation /\ lock[r] = "update"
      /\ pc' = [pc EXCEPT ![r] = "ok"] /\ op' = op /\ Release(r)
  BY DEF CascadeDelete, Goto, InventoryInv, RequestShape, LockSafety
<1>2. PICK p \in Products : p = op[r].product
  BY <1>1, DeleteFields
<1>3. /\ pc'[r] = "ok" /\ "ok" \in Ended /\ "ok" \notin EvaluateSteps
      /\ \A s \in Requests \ {r} :
           /\ view'[s] = view[s] /\ staged'[s] = staged[s] /\ target'[s] = target[s]
           /\ pc'[s] = pc[s]
  BY <1>1, StepKinds DEF Release, InventoryInv, TypeOK
<1>4. /\ ledger'[p] = <<>>
      /\ \A q \in Products \ {p} : products'[q] = products[q] /\ ledger'[q] = ledger[q]
  BY <1>2 DEF CascadeDelete, InventoryInv, TypeOK
<1>5. \A a \in AlertIds, q \in Products \ {p} :
        IsActiveFor(alerts'[a], q) <=> IsActiveFor(alerts[a], q)
  <2>1. \A a \in AlertIds : alerts'[a] = IF a \in AlertsOf(p) THEN None ELSE alerts[a]
    BY <1>2 DEF CascadeDelete
  <2> QED
    BY <2>1 DEF AlertsOf, IsActiveFor
<1>6. ASSUME NEW s \in Requests \ {r}
      PROVE  EvaluatedSound(s)'
  BY <1>1, <1>2, <1>3, <1>5, ElsewhereKept
<1>7. AlertsFollowStock'
  <2> SUFFICES ASSUME NEW q \in Products, ledger'[q] # <<>>, NEW kind \in AlertKinds
               PROVE  Condition(kind, products'[q]) <=>
                        \E a \in AlertIds : a[2] = kind /\ IsActiveFor(alerts'[a], q)
    BY DEF AlertsFollowStock, Condition, IsActiveFor
  <2>1. q # p /\ products'[q] = products[q] /\ ledger[q] # <<>>
    BY <1>4
  <2> QED
    BY <1>5, <2>1 DEF FollowInv, AlertsFollowStock
<1>8. EvaluatedSound(r)'
  BY <1>3, OutsideEvaluate
<1> QED
  BY <1>1, <1>3, <1>6, <1>7, <1>8 DEF FollowInv

LEMMA NextFollow ==
  ASSUME OnlyMovementsAndDeletes, InventoryInv, AlertInv, FollowInv, [Next]_vars
  PROVE  FollowInv'
<1>1. \A r \in Requests :
        pc[r] \notin {"flush", "acknowledge", "reacknowledge", "resolve"}
  BY StepKinds DEF FollowInv
<1>2. ASSUME NEW r \in Requests, Ask(r) \/ Step(r)
      PROVE  FollowInv'
  <2>1. \/ Ask(r) \/ LockProduct(r) \/ ReadActiveAlert(r) \/ InsertAlert(r)
        \/ CheckAlertProduct(r) \/ CloseAlert(r) \/ Commit(r) \/ Refresh(r)
        \/ DeleteChildren(r) \/ DeleteProduct(r) \/ CascadeDelete(r)
    BY <1>1, <1>2 DEF Step, FlushPatch, SetAlertStatus
  <2> QED
    BY <2>1, AskFollow, LockProductFollow, EvaluateFollow, CommitFollow, RefreshFollow,
       DeleteFollow, CascadeDeleteFollow
<1>3. ASSUME NEW r \in Requests, DetectDeadlock(r) \/ Crash(r)
      PROVE  FollowInv'
  <2>1. \E answer \in Answers : Abort(r, answer)
    BY <1>3 DEF DetectDeadlock, Crash, Answers
  <2> QED
    BY <2>1, AbortFollow
<1>4. CASE Finished \/ UNCHANGED vars
  <2>1. UNCHANGED <<products, ledger, alerts, op, pc, lock, view, pend, staged, target>>
    BY <1>4 DEF Finished, vars
  <2> QED
    BY <2>1 DEF FollowInv, EvaluatedSound, Settled, Seen, IsActiveFor, Condition,
                AlertsFollowStock
<1> QED
  BY <1>2, <1>3, <1>4 DEF Next

\* As long as movements are all that changes a product before it is deleted,
\* a product that has moved has an active alert of a kind exactly when its
\* committed row meets that kind's condition, however the requests
\* interleave, fail or die: FOR UPDATE lets no other request come between
\* what evaluate compares and what is committed.
THEOREM MovementsKeepAlertsTrue ==
  ASSUME OnlyMovementsAndDeletes
  PROVE  Spec => []AlertsFollowStock
<1>1. Init => FollowInv
  <2> SUFFICES ASSUME Init PROVE FollowInv
    OBVIOUS
  <2>1. /\ \A r \in Requests : pc[r] = "idle"
        /\ \A p \in Products : ledger[p] = <<>>
    BY DEF Init
  <2> QED
    BY <2>1, StepKinds DEF FollowInv, EvaluatedSound, AlertsFollowStock
<1>2. InventoryInv /\ AlertInv /\ FollowInv /\ [Next]_vars => FollowInv'
  BY NextFollow
<1>3. FollowInv => AlertsFollowStock
  BY DEF FollowInv
<1> QED
  BY <1>1, <1>2, <1>3, InventoryInvariant, AlertInvariant, PTL DEF Spec

----------------------------------------------------------------------------
(* One connection. *)

\* The calls that run evaluate.
Evaluates(r) ==
  \/ op[r] \in MovementOperation
  \/ op[r] \in PatchOperation /\ op[r].min_stock # Unset

\* What a request found is still so, and its session's product is the row
\* that will be committed.
AloneSound(r) ==
  /\ Connected(r) => op[r] # None
  /\ pc[r] \in {"acknowledge", "reacknowledge", "resolve"} =>
       /\ op[r].kind = (IF pc[r] = "resolve" THEN "resolve" ELSE "acknowledge")
       /\ alerts[target[r]] # None
       /\ pc[r] = "acknowledge" => alerts[target[r]].status = "open"
  /\ pc[r] = "flush" => view[r] = products[op[r].product]
  /\ pc[r] \in EvaluateSteps =>
       /\ products[op[r].product] # None
       /\ view[r] = (IF pend[r] = None THEN products[op[r].product] ELSE pend[r])
       /\ Evaluates(r) => EvaluatedSound(r)
       /\ ~Evaluates(r) =>
            /\ pc[r] = "commit" /\ \A a \in AlertIds : ~Written(r, a)
            /\ view[r].quantity = products[op[r].product].quantity
            /\ view[r].min_stock = products[op[r].product].min_stock
            /\ op[r].max_stock = Unset => view[r] = products[op[r].product]

\* Requests are served one after the other, but for the wait to refresh,
\* which keeps nobody out.
OneByOne ==
  \A r, s \in Requests : s > r /\ (pc[r] = "idle" \/ Connected(r)) => pc[s] = "idle"

SerialInv == OneByOne /\ \A r \in Requests : AloneSound(r)

LEMMA ConnectedSteps ==
  ASSUME NEW r \in Requests
  PROVE  Connected(r) <=> pc[r] \in EvaluateSteps \cup
           {"lock", "flush", "acknowledge", "reacknowledge", "resolve", "children",
            "delete", "cascade"}
BY StepKinds DEF Connected, Running, Steps, AlertKinds

\* With one connection, whoever is admitted is alone.
LEMMA AdmittedAlone ==
  ASSUME PoolSize = 1, NEW r \in Requests, Admits(r)
  PROVE  \A s \in Requests : ~Connected(s)
<1> DEFINE connected == {s \in Requests : Connected(s)}
<1>1. IsFiniteSet(connected)
  <2>1. IsFiniteSet(Requests)
    BY InstanceAssumption, FS_Interval DEF Requests
  <2> QED
    BY <2>1, FS_Subset
<1>2. Cardinality(connected) \in Nat /\ Cardinality(connected) < 1
  BY <1>1, FS_CardinalityType DEF Admits, PoolHasRoom
<1>3. connected = {}
  BY <1>1, <1>2, FS_EmptySet
<1> QED
  BY <1>3

\* A step of the request in progress.
LEMMA SerialKept ==
  ASSUME InventoryInv, SerialInv, NEW r \in Requests, Connected(r), pc'[r] # "idle",
         \A s \in Requests \ {r} : pc'[s] = pc[s], AloneSound(r)'
  PROVE  SerialInv'
<1>1. pc[r] # "idle" /\ pc'[r] # "idle"
  BY ConnectedSteps, StepKinds
<1>2. \A s \in Requests \ {r} : ~Connected(s) /\ (Connected(s)' <=> Connected(s))
  <2>1. \A s \in Requests \ {r} : s > r \/ r > s
    BY InstanceAssumption DEF Requests
  <2> QED
    BY <1>1, <2>1 DEF SerialInv, OneByOne, Connected, Running, Steps, AlertKinds
<1>3. OneByOne'
  BY <1>1, <1>2 DEF SerialInv, OneByOne
<1>4. ASSUME NEW s \in Requests \ {r}
      PROVE  AloneSound(s)'
  <2>1. ~Connected(s)'
    BY <1>2
  <2> QED
    BY <2>1, StepKinds DEF AloneSound, Connected, Running, Steps, AlertKinds
<1> QED
  BY <1>3, <1>4 DEF SerialInv

LEMMA AnsweredSerial ==
  ASSUME InventoryInv, SerialInv, NEW r \in Requests, Connected(r), NEW answer \in Answers,
         pc' = [pc EXCEPT ![r] = answer]
  PROVE  SerialInv'
<1>1. pc'[r] = answer /\ \A s \in Requests \ {r} : pc'[s] = pc[s]
  BY DEF InventoryInv, TypeOK
<1>2. AloneSound(r)'
  BY <1>1, StepKinds DEF AloneSound, Answers, Connected, Running, Steps, AlertKinds
<1> QED
  BY <1>1, <1>2, SerialKept DEF Answers

\* The end of a request that had only its refresh left: what the one that
\* has the connection found and wrote is still there.
LEMMA RefreshSerial ==
  ASSUME InventoryInv, SerialInv, NEW r \in Requests, pc[r] = "refresh",
         NEW answer \in Answers, pc' = [pc EXCEPT ![r] = answer],
         UNCHANGED <<products, ledger, alerts, op>>,
         \A s \in Requests \ {r} :
           view'[s] = view[s] /\ pend'[s] = pend[s] /\ staged'[s] = staged[s] /\ target'[s] = target[s]
  PROVE  SerialInv'
<1>1. pc'[r] = answer /\ \A s \in Requests \ {r} : pc'[s] = pc[s]
  BY DEF InventoryInv, TypeOK
<1>2. /\ pc'[r] # "idle" /\ ~Connected(r)'
      /\ \A s \in Requests \ {r} : Connected(s)' <=> Connected(s)
  BY <1>1 DEF Connected, Running, Steps, AlertKinds, Answers
<1>3. OneByOne'
  BY <1>1, <1>2 DEF SerialInv, OneByOne
<1>4. AloneSound(r)'
  BY <1>1, <1>2, StepKinds DEF AloneSound, Answers
<1>5. ASSUME NEW s \in Requests \ {r}
      PROVE  AloneSound(s)'
  <2>1. \A a \in AlertIds : Seen(s, a)' = Seen(s, a) /\ (Written(s, a)' <=> Written(s, a))
    BY <1>5 DEF Seen, Written
  <2>2. \A kind : Settled(s, kind)' <=> Settled(s, kind)
    BY <1>5, <2>1 DEF Settled, Condition, IsActiveFor
  <2>3. EvaluatedSound(s)' <=> EvaluatedSound(s)
    BY <1>1, <1>5, <2>2 DEF EvaluatedSound, Condition, IsActiveFor
  <2> QED
    BY <1>1, <1>2, <1>5, <2>1, <2>3 DEF SerialInv, AloneSound, Evaluates
<1> QED
  BY <1>3, <1>4, <1>5 DEF SerialInv

LEMMA AskSerial ==
  ASSUME PoolSize = 1, InventoryInv, SerialInv, NEW r \in Requests, Ask(r)
  PROVE  SerialInv'
<1>1. PICK o \in Operations :
        \/ AskMovement(r, o)
        \/ AskPatch(r, o)
        \/ AskDelete(r, o)
        \/ \E a \in AlertIds : AskAlert(r, o, a)
  BY DEF Ask
<1>2. /\ Admits(r) /\ op' = [op EXCEPT ![r] = o] /\ op'[r] = o
      /\ UNCHANGED <<products, ledger, alerts>>
  BY <1>1 DEF AskMovement, AskPatch, AskDelete, AskAlert, database, InventoryInv, TypeOK
<1>3. /\ pc[r] = "idle" /\ \A s \in Requests : ~Connected(s)
      /\ \A s \in Requests : s < r => pc[s] # "idle"
  BY <1>2, AdmittedAlone DEF Admits
<1>4. PICK step \in {"lock", "flush", "children", "acknowledge", "reacknowledge", "resolve",
                     "not_found", "conflict"} :
        pc' = [pc EXCEPT ![r] = step]
  BY <1>1, Zenon DEF AskMovement, AskPatch, AskDelete, AskAlert, Goto, AlertStep
<1>5. pc'[r] = step /\ \A s \in Requests \ {r} : pc'[s] = pc[s]
  BY <1>4 DEF InventoryInv, TypeOK
<1>6. OneByOne'
  <2>1. \A s \in Requests \ {r} : ~Connected(s)'
    BY <1>3, <1>5 DEF Connected, Running
  <2>2. ASSUME NEW q \in Requests, NEW s \in Requests, s > q, pc'[q] = "idle" \/ Connected(q)'
        PROVE  pc'[s] = "idle"
    <3>1. CASE q = r
      <4>1. s # r
        BY <2>2, <3>1, InstanceAssumption DEF Requests
      <4> QED
        BY <1>3, <1>5, <2>2, <3>1, <4>1 DEF SerialInv, OneByOne
    <3>2. CASE q # r
      <4>1. pc[q] = "idle"
        BY <1>5, <2>1, <2>2, <3>2
      <4>2. pc[s] = "idle" /\ ~(q < r)
        BY <1>3, <2>2, <4>1 DEF SerialInv, OneByOne
      <4>3. s # r
        BY <2>2, <4>2, InstanceAssumption DEF Requests
      <4> QED
        BY <1>5, <4>2, <4>3
    <3> QED
      BY <3>1, <3>2
  <2> QED
    BY <2>2 DEF OneByOne
<1>7. ASSUME NEW s \in Requests \ {r}
      PROVE  AloneSound(s)'
  <2>1. ~Connected(s)'
    BY <1>3, <1>5 DEF Connected, Running
  <2> QED
    BY <2>1, StepKinds DEF AloneSound, Connected, Running, Steps, AlertKinds
<1>8. AloneSound(r)'
  <2>1. o # None /\ step \notin EvaluateSteps /\ step # "refresh"
    BY <1>4, SentinelAssumption, StepKinds
  <2>2. step = "flush" => view'[r] = products'[o.product]
    <3>1. step = "flush" => view' = [view EXCEPT ![r] = products[o.product]]
      BY <1>1, <1>5 DEF AskMovement, AskPatch, AskDelete, AskAlert, AlertStep, Goto,
                        InventoryInv, TypeOK
    <3> QED
      BY <1>2, <3>1 DEF InventoryInv, TypeOK
  <2>3. ASSUME step \in {"acknowledge", "reacknowledge", "resolve"}
        PROVE  /\ o.kind = (IF step = "resolve" THEN "resolve" ELSE "acknowledge")
               /\ alerts'[target'[r]] # None
               /\ step = "acknowledge" => alerts'[target'[r]].status = "open"
    <3>1. PICK a \in AlertIds : AskAlert(r, o, a)
      BY <1>1, <1>5, <2>3 DEF AskMovement, AskPatch, AskDelete, Goto, InventoryInv, TypeOK
    <3>2. /\ o.kind \in {"acknowledge", "resolve"} /\ alerts[a] # None
          /\ step = AlertStep(o.kind, alerts[a].status)
          /\ target' = [target EXCEPT ![r] = a]
      BY <1>5, <2>3, <3>1 DEF AskAlert, Goto, InventoryInv, TypeOK
    <3>3. alerts[a].status \in AlertStatuses
      BY <3>2, AlertRowTypes DEF InventoryInv, TypeOK
    <3>4. target'[r] = a
      BY <3>2 DEF InventoryInv, TypeOK
    <3> QED
      BY <1>2, <2>3, <3>2, <3>3, <3>4 DEF AlertStep, AlertStatuses
  <2> QED
    BY <1>2, <1>5, <2>1, <2>2, <2>3 DEF AloneSound
<1> QED
  BY <1>6, <1>7, <1>8 DEF SerialInv

LEMMA LockProductSerial ==
  ASSUME InventoryInv, SerialInv, NEW r \in Requests, LockProduct(r)
  PROVE  SerialInv'
<1>1. pc[r] = "lock" /\ op[r] \in MovementOperation /\ op[r].product \in Products /\ Connected(r)
  BY MovementFields DEF LockProduct, InventoryInv, RequestShape, Connected, Running, Steps
<1>2. CASE \E answer \in Answers : Abort(r, answer)
  BY <1>1, <1>2, AnsweredSerial DEF Abort, Goto
<1>3. CASE ~\E answer \in Answers : Abort(r, answer)
  <2>1. /\ products[op[r].product] # None
        /\ \E row : view' = [view EXCEPT ![r] = row] /\ pend' = [pend EXCEPT ![r] = row]
        /\ pc' = [pc EXCEPT ![r] = "low_stock"] /\ UNCHANGED <<products, ledger, alerts, op>>
    BY <1>3 DEF LockProduct, Answers, Goto, database
  <2>2. /\ pc'[r] = "low_stock" /\ \A s \in Requests \ {r} : pc'[s] = pc[s]
        /\ view'[r] = pend'[r]
    BY <2>1 DEF InventoryInv, TypeOK
  <2>3. view'[r] # None
    BY <2>2, LockProductStep, StepKinds DEF InventoryInv, RequestShape
  <2>4. Evaluates(r)'
    BY <1>1, <2>1 DEF Evaluates
  <2>5. EvaluatedSound(r)'
    BY <2>2, OutsideEvaluate
  <2>6. op[r] # None
    BY <1>1 DEF SerialInv, AloneSound
  <2>7. AloneSound(r)'
    BY <2>1, <2>2, <2>3, <2>4, <2>5, <2>6, StepKinds DEF AloneSound
  <2> QED
    BY <1>1, <2>2, <2>7, SerialKept DEF Connected, Running, Steps, AlertKinds
<1> QED
  BY <1>2, <1>3

LEMMA FlushPatchSerial ==
  ASSUME InventoryInv, AlertInv, SerialInv, NEW r \in Requests, FlushPatch(r)
  PROVE  SerialInv'
<1> DEFINE p == op[r].product
           written == WithColumns(view[r], view[r], op[r])
           next == IF op[r].min_stock = Unset THEN "commit" ELSE "low_stock"
<1>1. /\ pc[r] = "flush" /\ op[r] \in PatchOperation /\ p \in Products
      /\ view[r] \in ProductRow /\ view[r] # None /\ products[p] = view[r] /\ pend[r] = None
      /\ op[r] # None /\ Connected(r)
  <2>1. pc[r] = "flush" /\ op[r] \in PatchOperation /\ view[r] # None
    BY DEF FlushPatch, InventoryInv, RequestShape
  <2>2. Connected(r) /\ pc[r] \notin EvaluateSteps
    BY <2>1, StepKinds DEF Connected, Running, Steps
  <2>3. p \in Products /\ view[r] \in ProductRow
    BY <2>1, PatchFields DEF InventoryInv, TypeOK
  <2>4. op[r] # None /\ products[p] = view[r]
    BY <2>1, <2>2 DEF SerialInv, AloneSound
  <2>5. pend[r] = None
    BY <2>2 DEF InventoryInv, PendingSound
  <2> QED
    BY <2>1, <2>2, <2>3, <2>4, <2>5
<1>2. CASE Abort(r, "error")
  BY <1>1, <1>2, AnsweredSerial DEF Abort, Goto, Answers
<1>3. CASE ~Abort(r, "error")
  <2>1. /\ pc' = [pc EXCEPT ![r] = next] /\ UNCHANGED <<products, ledger, alerts, op, staged>>
        /\ \/ /\ written # view[r]
              /\ pend' = [pend EXCEPT ![r] = written] /\ view' = [view EXCEPT ![r] = written]
           \/ UNCHANGED <<pend, view>>
    BY <1>1, <1>3, Zenon DEF FlushPatch, PatchWrites, Goto, database, transaction
  <2>2. /\ pc'[r] = next /\ \A s \in Requests \ {r} : pc'[s] = pc[s]
        /\ \/ written # view[r] /\ pend'[r] = written /\ view'[r] = written
           \/ pend'[r] = None /\ view'[r] = view[r]
    BY <1>1, <2>1 DEF InventoryInv, TypeOK
  <2>3. view'[r] # None /\ next \in EvaluateSteps
    BY <2>2, FlushPatchStep, StepKinds DEF InventoryInv, RequestShape
  <2>4. /\ view'[r].quantity = view[r].quantity
        /\ op[r].min_stock = Unset => view'[r].min_stock = view[r].min_stock
        /\ op[r].min_stock = Unset /\ op[r].max_stock = Unset => view'[r] = view[r]
    <3>1. written = [quantity |-> view[r].quantity,
                     min_stock |-> IF op[r].min_stock \in {Unset, view[r].min_stock}
                                   THEN view[r].min_stock ELSE op[r].min_stock,
                     max_stock |-> IF op[r].max_stock \in {Unset, view[r].max_stock}
                                   THEN view[r].max_stock ELSE op[r].max_stock]
      BY <1>1, WithColumnsType
    <3>2. view[r] = [quantity |-> view[r].quantity, min_stock |-> view[r].min_stock,
                     max_stock |-> view[r].max_stock]
      BY <1>1 DEF ProductRow
    <3>3. /\ written.quantity = view[r].quantity
          /\ op[r].min_stock = Unset => written.min_stock = view[r].min_stock
          /\ op[r].min_stock = Unset /\ op[r].max_stock = Unset => written = view[r]
      BY <3>1, <3>2
    <3> QED
      BY <2>2, <3>3
  <2>5. Evaluates(r)' <=> op[r].min_stock # Unset
    <3>1. op[r] \notin MovementOperation
      BY <1>1, MovementFields, PatchFields
    <3> QED
      BY <1>1, <2>1, <3>1 DEF Evaluates
  <2>6. op[r].min_stock # Unset => EvaluatedSound(r)'
    BY <2>2, OutsideEvaluate
  <2>7. \A a \in AlertIds : ~Written(r, a)'
    BY <1>1, <2>1, StepKinds DEF AlertInv, RequestSound, WritesOrdered, Written
  <2>8. view'[r] = IF pend'[r] = None THEN products'[p] ELSE pend'[r]
    BY <1>1, <2>1, <2>2, <2>3
  <2>9. AloneSound(r)'
    <3> HIDE DEF written
    <3> QED
      BY <1>1, <2>1, <2>2, <2>3, <2>4, <2>5, <2>6, <2>7, <2>8, StepKinds DEF AloneSound
  <2>10. Connected(r)'
    BY <2>2, <2>3, StepKinds DEF Connected, Running, Steps, AlertKinds
  <2> QED
    BY <1>1, <2>2, <2>9, <2>10, SerialKept
<1> QED
  BY <1>2, <1>3

LEMMA EvaluateSerial ==
  ASSUME InventoryInv, AlertInv, SerialInv, NEW r \in Requests,
         ReadActiveAlert(r) \/ InsertAlert(r) \/ CheckAlertProduct(r) \/ CloseAlert(r)
  PROVE  SerialInv'
<1>1. pc[r] \in EvaluateSteps \ {"commit"} /\ Connected(r)
  BY StepKinds, ConnectedSteps
     DEF ReadActiveAlert, InsertAlert, CheckAlertProduct, CloseAlert, AlertKinds
<1>2. /\ Evaluates(r) /\ EvaluatedSound(r) /\ products[op[r].product] # None /\ op[r] # None
      /\ view[r] = IF pend[r] = None THEN products[op[r].product] ELSE pend[r]
  BY <1>1 DEF SerialInv, AloneSound
<1>3. /\ Local(r) /\ pc'[r] \in EvaluateSteps /\ op'[r] = op[r] /\ view'[r] = view[r]
      /\ pend'[r] = pend[r] /\ EvaluatedSound(r)'
  BY <1>2, ReadActiveAlertSettles, InsertAlertSettles, CheckAlertProductSettles,
     CloseAlertSettles
<1>4. Evaluates(r)' /\ UNCHANGED products /\ \A s \in Requests \ {r} : pc'[s] = pc[s]
  BY <1>2, <1>3 DEF Evaluates, Local
<1>5. AloneSound(r)'
  BY <1>2, <1>3, <1>4, StepKinds DEF AloneSound
<1> QED
  BY <1>1, <1>3, <1>4, <1>5, SerialKept, StepKinds DEF Connected, Running, Steps, AlertKinds

LEMMA CommitSerial ==
  ASSUME InventoryInv, SerialInv, NEW r \in Requests, Commit(r)
  PROVE  SerialInv'
<1>1. /\ pc[r] = "commit" /\ Connected(r) /\ op[r] # None /\ products[op[r].product] # None
      /\ pc' = [pc EXCEPT ![r] = "refresh"] /\ op' = op
      /\ op[r] \in MovementOperation \cup PatchOperation
  BY StepKinds, ConnectedSteps
     DEF Commit, Goto, SerialInv, AloneSound, InventoryInv, RequestShape
<1>2. pc'[r] = "refresh" /\ \A s \in Requests \ {r} : pc'[s] = pc[s]
  BY <1>1 DEF InventoryInv, TypeOK
<1>3. AloneSound(r)'
  BY <1>1, <1>2, StepKinds DEF AloneSound, Connected
<1> QED
  BY <1>1, <1>2, <1>3, SerialKept

LEMMA NextSerial ==
  ASSUME PoolSize = 1, InventoryInv, AlertInv, SerialInv, [Next]_vars
  PROVE  SerialInv'
<1>1. ASSUME NEW r \in Requests, Step(r)
      PROVE  SerialInv'
  <2>1. CASE SetAlertStatus(r) \/ CascadeDelete(r)
    <3>1. Connected(r) /\ \E answer \in Answers : pc' = [pc EXCEPT ![r] = answer]
      BY <2>1, ConnectedSteps
         DEF SetAlertStatus, CascadeDelete, Abort, Goto, Answers
    <3> QED
      BY <3>1, AnsweredSerial
  <2>2. CASE DeleteChildren(r) \/ DeleteProduct(r)
    <3>1. /\ Connected(r) /\ pc[r] \in {"children", "delete"}
          /\ \E step \in {"delete", "cascade", "ok"} : pc' = [pc EXCEPT ![r] = step]
          /\ op' = op
      BY <2>2, ConnectedSteps DEF DeleteChildren, DeleteProduct, Abort, Goto
    <3>2. /\ pc'[r] \in {"delete", "cascade", "ok"}
          /\ \A s \in Requests \ {r} : pc'[s] = pc[s]
      BY <3>1 DEF InventoryInv, TypeOK
    <3>3. AloneSound(r)'
      BY <3>1, <3>2, StepKinds DEF SerialInv, AloneSound
    <3> QED
      BY <3>1, <3>2, <3>3, SerialKept DEF Connected, Running, Steps, Answers
  <2>3. CASE Refresh(r)
    <3>1. /\ pc[r] = "refresh" /\ \E answer \in Answers : pc' = [pc EXCEPT ![r] = answer]
          /\ UNCHANGED <<products, ledger, alerts, op, view, pend, staged, target>>
      BY <2>3 DEF Refresh, Goto, Answers, database, transaction
    <3> QED
      BY <3>1, RefreshSerial
  <2> QED
    BY <1>1, <2>1, <2>2, <2>3, LockProductSerial, FlushPatchSerial, EvaluateSerial, CommitSerial
       DEF Step
<1>2. ASSUME NEW r \in Requests, DetectDeadlock(r) \/ Crash(r)
      PROVE  SerialInv'
  <2>1. Running(r) /\ \E answer \in Answers : Abort(r, answer)
    BY <1>2 DEF DetectDeadlock, Crash, InWaitCycle, Answers
  <2>2. CASE pc[r] = "refresh"
    <3>1. /\ \E answer \in Answers : pc' = [pc EXCEPT ![r] = answer]
          /\ UNCHANGED <<products, ledger, alerts, op>>
      BY <2>1 DEF Abort, Goto, database
    <3>2. \A q \in Requests \ {r} :
            view'[q] = view[q] /\ pend'[q] = pend[q] /\ staged'[q] = staged[q] /\ target'[q] = target[q]
      BY <2>1 DEF Abort, Release, InventoryInv, TypeOK
    <3> QED
      BY <2>2, <3>1, <3>2, RefreshSerial
  <2>3. CASE pc[r] # "refresh"
    <3>1. Connected(r) /\ \E answer \in Answers : pc' = [pc EXCEPT ![r] = answer]
      BY <2>1, <2>3 DEF Connected, Abort, Goto
    <3> QED
      BY <3>1, AnsweredSerial
  <2> QED
    BY <2>2, <2>3
<1>3. CASE Finished \/ UNCHANGED vars
  <2>1. UNCHANGED <<products, ledger, alerts, op, pc, lock, view, pend, staged, target>>
    BY <1>3 DEF Finished, vars
  <2>2. ASSUME NEW r \in Requests
        PROVE  AloneSound(r)'
    <3>1. EvaluatedSound(r)' <=> EvaluatedSound(r)
      BY <2>1 DEF EvaluatedSound, Settled, Seen, IsActiveFor, Condition
    <3> QED
      BY <2>1, <3>1 DEF SerialInv, AloneSound, Connected, Running, Evaluates, Written
  <2> QED
    BY <2>1, <2>2 DEF SerialInv, OneByOne, Connected, Running
<1> QED
  BY <1>1, <1>2, <1>3, AskSerial DEF Next

\* With one connection at most one request is in a transaction, and what it
\* read is still what is committed.
THEOREM SerialInvariant ==
  ASSUME PoolSize = 1
  PROVE  Spec => []SerialInv
<1>1. Init => SerialInv
  <2> SUFFICES ASSUME Init PROVE SerialInv
    OBVIOUS
  <2>1. \A r \in Requests : pc[r] = "idle"
    BY DEF Init
  <2> QED
    BY <2>1, StepKinds DEF SerialInv, OneByOne, AloneSound, Connected, Running, Steps, AlertKinds
<1>2. InventoryInv /\ AlertInv /\ SerialInv /\ [Next]_vars => SerialInv'
  BY NextSerial
<1> QED
  BY <1>1, <1>2, InventoryInvariant, AlertInvariant, PTL DEF Spec

----------------------------------------------------------------------------
(* Alerts only advance. *)

\* The step of one alert row that AlertsOnlyAdvance allows.
Advances(a) ==
  /\ Rank(alerts'[a].status) >= Rank(alerts[a].status)
  /\ alerts'[a] = [alerts[a] EXCEPT !.status = alerts'[a].status]

LEMMA StatusForward ==
  ASSUME NEW row \in AlertRow, NEW status \in AlertStatuses
  PROVE  /\ [row EXCEPT !.status = status].status = status
         /\ [row EXCEPT !.status = row.status] = row
         /\ Rank("resolved") >= Rank(row.status)
         /\ Rank("acknowledged") >= Rank("open")
         /\ Rank(status) >= Rank(status)
<1>1. row.status \in AlertStatuses
  BY AlertRowTypes
<1>2. /\ [row EXCEPT !.status = status].status = status
      /\ [row EXCEPT !.status = row.status] = row
  BY DEF AlertRow
<1>3. Rank("open") = 1 /\ Rank("acknowledged") = 2 /\ Rank("resolved") = 3
  BY DEF Rank
<1> QED
  BY <1>1, <1>2, <1>3 DEF AlertStatuses

LEMMA RowKept ==
  ASSUME TypeOK, NEW a \in AlertIds, alerts[a] # None, alerts'[a] = alerts[a]
  PROVE  Advances(a)
<1>1. alerts[a] \in AlertRow /\ alerts[a].status \in AlertStatuses
  BY AlertRowTypes DEF TypeOK
<1> QED
  BY <1>1, StatusForward DEF Advances

LEMMA CommitAdvances ==
  ASSUME InventoryInv, AlertInv, NEW r \in Requests, Commit(r),
         NEW a \in AlertIds, alerts[a] # None
  PROVE  Advances(a)
<1>1. pc[r] = "commit" /\ alerts'[a] = Seen(r, a)
  BY DEF Commit
<1>2. CASE staged[r][a] = Unset
  BY <1>1, <1>2, RowKept DEF Seen, InventoryInv
<1>3. CASE staged[r][a] # Unset
  <2>1. staged[r][a] \notin {None, Unset}
    BY <1>1, <1>3, StepKinds DEF AlertInv, RequestSound, WritesOrdered
  <2>2. alerts'[a] = [alerts[a] EXCEPT !.status = "resolved"]
    BY <1>1, <2>1 DEF Seen, AlertInv, RequestSound, WritesSound
  <2>3. alerts[a] \in AlertRow /\ "resolved" \in AlertStatuses
    BY DEF InventoryInv, TypeOK, AlertStatuses
  <2>4. alerts'[a].status = "resolved"
    BY <2>2, <2>3, StatusForward
  <2> QED
    BY <2>2, <2>3, <2>4, StatusForward DEF Advances
<1> QED
  BY <1>2, <1>3

\* With one call at a time, the status that acknowledge and resolve read is
\* still the alert's when they write.
LEMMA SetAlertStatusAdvances ==
  ASSUME InventoryInv, SerialInv, NEW r \in Requests, SetAlertStatus(r),
         NEW a \in AlertIds, alerts[a] # None
  PROVE  Advances(a)
<1> DEFINE status == CASE pc[r] = "acknowledge"   -> "acknowledged"
                       [] pc[r] = "resolve"       -> "resolved"
                       [] pc[r] = "reacknowledge" -> alerts[a].status
<1>1. CASE alerts'[a] = alerts[a]
  BY <1>1, RowKept DEF InventoryInv
<1>2. CASE target[r] = a /\ alerts' = [alerts EXCEPT ![a].status = status]
  <2>1. alerts[a] \in AlertRow /\ alerts[a].status \in AlertStatuses
    BY AlertRowTypes DEF InventoryInv, TypeOK
  <2>2. /\ pc[r] \in {"acknowledge", "reacknowledge", "resolve"}
        /\ pc[r] = "acknowledge" => alerts[a].status = "open"
    BY <1>2 DEF SetAlertStatus, SerialInv, AloneSound
  <2>3. /\ status \in AlertStatuses
        /\ Rank(status) >= Rank(alerts[a].status)
    BY <2>1, <2>2, StatusForward DEF AlertStatuses
  <2>4. alerts'[a] = [alerts[a] EXCEPT !.status = status]
    <3> HIDE DEF status
    <3> QED
      BY <1>2 DEF InventoryInv, TypeOK
  <2>5. alerts'[a].status = status
    <3> HIDE DEF status
    <3> QED
      BY <2>1, <2>3, <2>4, StatusForward
  <2> HIDE DEF status
  <2> QED
    BY <2>3, <2>4, <2>5 DEF Advances
<1>3. CASE target[r] # a
  <2>1. alerts'[a] = alerts[a]
    BY <1>3 DEF SetAlertStatus, Abort, database, InventoryInv, TypeOK
  <2> QED
    BY <1>1, <2>1
<1> QED
  BY <1>1, <1>2, <1>3 DEF SetAlertStatus, Abort, database

LEMMA NextAdvances ==
  ASSUME InventoryInv, AlertInv, SerialInv, [Next]_vars,
         NEW a \in AlertIds, alerts[a] # None, alerts'[a] # None
  PROVE  Advances(a)
<1>1. ASSUME NEW r \in Requests, CascadeDelete(r)
      PROVE  Advances(a)
  <2>1. alerts'[a] = alerts[a]
    BY <1>1 DEF CascadeDelete
  <2> QED
    BY <2>1, RowKept DEF InventoryInv
<1>2. CASE UNCHANGED alerts
  BY <1>2, RowKept DEF InventoryInv
<1>3. ASSUME NEW r \in Requests,
             Step(r), ~Commit(r), ~SetAlertStatus(r), ~CascadeDelete(r)
      PROVE  UNCHANGED alerts
  BY <1>3, Zenon
     DEF Step, LockProduct, FlushPatch, ReadActiveAlert, InsertAlert, CheckAlertProduct,
         CloseAlert, Refresh, DeleteChildren, DeleteProduct, Abort, database
<1>4. ASSUME NEW r \in Requests, Ask(r) \/ DetectDeadlock(r) \/ Crash(r)
      PROVE  UNCHANGED alerts
  BY <1>4 DEF Ask, AskMovement, AskPatch, AskDelete, AskAlert, DetectDeadlock, Crash, Abort,
              database
<1>5. CASE Finished \/ UNCHANGED vars
  BY <1>2, <1>5 DEF Finished, vars
<1> QED
  BY <1>1, <1>2, <1>3, <1>4, <1>5, CommitAdvances, SetAlertStatusAdvances DEF Next

\* When calls come one at a time, an alert only goes forward, open to
\* acknowledged to resolved, and keeps the snapshot of its opening: the
\* status that AlertService.acknowledge and resolve look at is still the
\* row's when they write it.
THEOREM AlertsAdvance ==
  ASSUME PoolSize = 1
  PROVE  Spec => AlertsOnlyAdvance
<1>1. InventoryInv /\ AlertInv /\ SerialInv /\ [Next]_vars =>
        [\A a \in AlertIds : alerts[a] # None /\ alerts'[a] # None =>
           /\ Rank(alerts'[a].status) >= Rank(alerts[a].status)
           /\ alerts'[a] = [alerts[a] EXCEPT !.status = alerts'[a].status]]_vars
  BY NextAdvances DEF Advances
<1> QED
  BY <1>1, InventoryInvariant, AlertInvariant, SerialInvariant, PTL
     DEF Spec, AlertsOnlyAdvance

----------------------------------------------------------------------------
(* The two ways in which alerts and stock part. *)

\* An active alert of the kind, exactly when the product meets its condition.
Fits(p, kind) ==
  Condition(kind, products[p]) <=>
    \E a \in AlertIds : a[2] = kind /\ IsActiveFor(alerts[a], p)

\* What may have parted them, and not been put right.
Excused(p, kind) ==
  \E r \in Requests :
    /\ \/ kind = "overstock" /\ OnlyMaximum(r, p)
       \/ Condition(kind, products[p]) /\ ResolvedByHand(r)
    /\ \A s \in Requests : s > r => ~Evaluated(s, p)

LEMMA DriftForm ==
  DriftExplained <=>
    \A p \in Products, kind \in AlertKinds :
      ledger[p] # <<>> => Fits(p, kind) \/ Excused(p, kind)
BY DEF DriftExplained, Fits, Excused

\* A step that leaves the condition, the alert and the calls committed on a
\* product as they were.
LEMMA DriftKept ==
  ASSUME NEW p \in Products, NEW kind \in AlertKinds, Fits(p, kind) \/ Excused(p, kind),
         Condition(kind, products'[p]) <=> Condition(kind, products[p]),
         \A a \in AlertIds :
           a[2] = kind => (IsActiveFor(alerts'[a], p) <=> IsActiveFor(alerts[a], p)),
         \A s \in Requests : Committed(s) => Committed(s)' /\ op'[s] = op[s],
         \A s \in Requests : Evaluated(s, p)' => Evaluated(s, p)
  PROVE  Fits(p, kind)' \/ Excused(p, kind)'
<1>1. /\ Condition(kind, products[p])' <=> Condition(kind, products[p])
      /\ \A a \in AlertIds :
           a[2] = kind => (IsActiveFor(alerts[a], p)' <=> IsActiveFor(alerts[a], p))
  BY DEF Condition, IsActiveFor
<1>2. CASE Fits(p, kind)
  BY <1>1, <1>2 DEF Fits
<1>3. CASE Excused(p, kind)
  <2>1. PICK r \in Requests :
          /\ \/ kind = "overstock" /\ OnlyMaximum(r, p)
             \/ Condition(kind, products[p]) /\ ResolvedByHand(r)
          /\ \A s \in Requests : s > r => ~Evaluated(s, p)
    BY <1>3 DEF Excused
  <2>2. Committed(r) /\ Committed(r)' /\ op'[r] = op[r]
    BY <2>1 DEF OnlyMaximum, ResolvedByHand
  <2>3. /\ OnlyMaximum(r, p) => OnlyMaximum(r, p)'
        /\ ResolvedByHand(r) => ResolvedByHand(r)'
    BY <2>2 DEF OnlyMaximum, ResolvedByHand
  <2> QED
    BY <1>1, <2>1, <2>3 DEF Excused
<1> QED
  BY <1>2, <1>3

\* A step that changes no row and commits no movement and no PATCH.
LEMMA QuietDrift ==
  ASSUME DriftExplained, UNCHANGED <<products, ledger, alerts>>,
         \A s \in Requests : Committed(s) => Committed(s)' /\ op'[s] = op[s],
         \A s \in Requests :
           Committed(s)' => Committed(s) \/ op'[s] \notin MovementOperation \cup PatchOperation
  PROVE  DriftExplained'
<1>1. \A s \in Requests, p \in Products : Evaluated(s, p)' => Evaluated(s, p)
  BY DEF Evaluated
<1>2. ASSUME NEW p \in Products, NEW kind \in AlertKinds, ledger'[p] # <<>>
      PROVE  Fits(p, kind)' \/ Excused(p, kind)'
  <2>1. Fits(p, kind) \/ Excused(p, kind)
    BY <1>2, DriftForm
  <2> QED
    BY <1>1, <2>1, DriftKept
<1> QED
  BY <1>2 DEF DriftExplained, Fits, Excused

\* A statement of request r, or its arrival, that commits nothing.
LEMMA UncommittedDrift ==
  ASSUME DriftExplained, NEW r \in Requests, UNCHANGED <<products, ledger, alerts>>,
         pc[r] \notin {"refresh", "ok", "unconfirmed"}, pc'[r] \notin {"refresh", "ok", "unconfirmed"},
         \A s \in Requests \ {r} : pc'[s] = pc[s] /\ op'[s] = op[s]
  PROVE  DriftExplained'
BY QuietDrift DEF Committed

LEMMA AbortDrift ==
  ASSUME TypeOK, DriftExplained, NEW r \in Requests, pc[r] \notin {"refresh", "ok", "unconfirmed"},
         NEW answer \in Answers \ {"ok", "unconfirmed"}, Abort(r, answer)
  PROVE  DriftExplained'
<1>1. /\ pc' = [pc EXCEPT ![r] = answer] /\ UNCHANGED <<products, ledger, alerts, op>>
  BY DEF Abort, Goto, database
<1>2. pc'[r] = answer /\ \A s \in Requests \ {r} : pc'[s] = pc[s]
  BY <1>1 DEF TypeOK
<1> QED
  BY <1>1, <1>2, UncommittedDrift DEF Answers

LEMMA AskDrift ==
  ASSUME TypeOK, DriftExplained, NEW r \in Requests, Ask(r)
  PROVE  DriftExplained'
<1>1. PICK o \in Operations :
        \/ AskMovement(r, o)
        \/ AskPatch(r, o)
        \/ AskDelete(r, o)
        \/ \E a \in AlertIds : AskAlert(r, o, a)
  BY DEF Ask
<1>2. /\ pc[r] = "idle" /\ op' = [op EXCEPT ![r] = o]
      /\ UNCHANGED <<products, ledger, alerts>>
  BY <1>1 DEF AskMovement, AskPatch, AskDelete, AskAlert, Admits, database
<1>3. \E step \in {"lock", "flush", "children", "acknowledge", "reacknowledge", "resolve",
                   "not_found", "conflict"} :
        pc' = [pc EXCEPT ![r] = step]
  BY <1>1, Zenon DEF AskMovement, AskPatch, AskDelete, AskAlert, Goto, AlertStep
<1>4. /\ pc'[r] \notin {"refresh", "ok", "unconfirmed"}
      /\ \A s \in Requests \ {r} : pc'[s] = pc[s] /\ op'[s] = op[s]
  BY <1>2, <1>3 DEF TypeOK
<1> QED
  BY <1>2, <1>4, UncommittedDrift

\* The statements of movements, PATCH and DELETE before their COMMIT.
LEMMA StatementDrift ==
  ASSUME InventoryInv, AlertInv, SerialInv, DriftExplained, NEW r \in Requests,
         \/ LockProduct(r) \/ FlushPatch(r) \/ ReadActiveAlert(r) \/ InsertAlert(r)
         \/ CheckAlertProduct(r) \/ CloseAlert(r) \/ DeleteChildren(r)
  PROVE  DriftExplained'
<1>1. pc[r] \in {"lock", "flush", "children"} \cup EvaluateSteps
  BY StepKinds DEF LockProduct, FlushPatch, ReadActiveAlert, InsertAlert, CheckAlertProduct,
                   CloseAlert, DeleteChildren, AlertKinds
<1>2. UNCHANGED <<products, ledger, alerts, op>>
  BY Zenon DEF LockProduct, FlushPatch, ReadActiveAlert, InsertAlert, CheckAlertProduct,
               CloseAlert, DeleteChildren, Abort, database
<1>3. CASE LockProduct(r) \/ FlushPatch(r) \/ DeleteChildren(r)
  <2>1. \E step \in {"not_found", "conflict", "error", "low_stock", "commit", "delete"} :
          pc' = [pc EXCEPT ![r] = step]
    BY <1>3, Zenon DEF LockProduct, FlushPatch, DeleteChildren, Abort, Goto
  <2>2. pc'[r] \notin {"refresh", "ok", "unconfirmed"} /\ \A s \in Requests \ {r} : pc'[s] = pc[s]
    BY <2>1 DEF InventoryInv, TypeOK
  <2> QED
    BY <1>1, <1>2, <2>2, UncommittedDrift, StepKinds
<1>4. CASE ReadActiveAlert(r) \/ InsertAlert(r) \/ CheckAlertProduct(r) \/ CloseAlert(r)
  <2>1. pc[r] \in EvaluateSteps \ {"commit"} /\ Connected(r)
    BY <1>4, StepKinds, ConnectedSteps
       DEF ReadActiveAlert, InsertAlert, CheckAlertProduct, CloseAlert, AlertKinds
  <2>2. EvaluatedSound(r) /\ products[op[r].product] # None
    BY <2>1 DEF SerialInv, AloneSound
  <2>3. pc'[r] \in EvaluateSteps /\ \A s \in Requests \ {r} : pc'[s] = pc[s]
    <3>1. Local(r) /\ pc'[r] \in EvaluateSteps
      BY <1>4, <2>2, ReadActiveAlertSettles, InsertAlertSettles, CheckAlertProductSettles,
         CloseAlertSettles
    <3> QED
      BY <3>1 DEF Local
  <2> QED
    BY <1>2, <2>1, <2>3, UncommittedDrift, StepKinds
<1> QED
  BY <1>3, <1>4

LEMMA RefreshDrift ==
  ASSUME InventoryInv, DriftExplained, NEW r \in Requests, Refresh(r)
  PROVE  DriftExplained'
<1>1. /\ pc[r] = "refresh" /\ \E answer \in {"ok", "unconfirmed"} : pc' = [pc EXCEPT ![r] = answer]
      /\ UNCHANGED <<products, ledger, alerts, op>>
  BY DEF Refresh, Goto, database
<1>2. pc'[r] \in {"ok", "unconfirmed"} /\ \A s \in Requests \ {r} : pc'[s] = pc[s]
  BY <1>1 DEF InventoryInv, TypeOK
<1>3. \A s \in Requests : Committed(s)' <=> Committed(s)
  BY <1>1, <1>2 DEF Committed
<1> QED
  BY <1>1, <1>3, QuietDrift

LEMMA DeleteProductDrift ==
  ASSUME InventoryInv, DriftExplained, NEW r \in Requests, DeleteProduct(r)
  PROVE  DriftExplained'
<1>1. /\ pc[r] = "delete" /\ op[r] \in DeleteOperation
      /\ \E step \in {"ok", "cascade"} : pc' = [pc EXCEPT ![r] = step]
      /\ UNCHANGED <<products, ledger, alerts, op>>
  BY DEF DeleteProduct, Abort, Goto, InventoryInv, RequestShape, database
<1>2. op[r] \notin MovementOperation \cup PatchOperation
  BY <1>1, MovementFields, PatchFields, DeleteFields
<1>3. \A s \in Requests \ {r} : pc'[s] = pc[s]
  BY <1>1 DEF InventoryInv, TypeOK
<1> QED
  BY <1>1, <1>2, <1>3, QuietDrift DEF Committed

\* evaluate has put the product's alerts right, or the PATCH changed at most
\* max_stock.
LEMMA CommitDrift ==
  ASSUME InventoryInv, AlertInv, SerialInv, DriftExplained, NEW r \in Requests, Commit(r)
  PROVE  DriftExplained'
<1>1. /\ pc[r] = "commit" /\ op[r] \in MovementOperation \cup PatchOperation
      /\ op[r] # None /\ products[op[r].product] # None /\ Connected(r)
      /\ pc' = [pc EXCEPT ![r] = "refresh"] /\ op' = op
      /\ \A a \in AlertIds : alerts'[a] = Seen(r, a)
  BY StepKinds, ConnectedSteps
     DEF Commit, Goto, SerialInv, AloneSound, InventoryInv, RequestShape
<1>2. PICK p \in Products : p = op[r].product
  BY <1>1, MovementFields, PatchFields
<1>3. pc'[r] = "refresh" /\ \A s \in Requests \ {r} : pc'[s] = pc[s]
  BY <1>1 DEF InventoryInv, TypeOK
<1>4. /\ Committed(r)' /\ \A s \in Requests : Committed(s) => Committed(s)'
      /\ \A s \in Requests \ {r} : Committed(s)' => Committed(s)
  BY <1>1, <1>3 DEF Committed
<1>5. /\ view[r] # None
      /\ view[r] = IF pend[r] = None THEN products[p] ELSE pend[r]
  BY <1>1, <1>2, StepKinds DEF SerialInv, AloneSound, InventoryInv, RequestShape
<1>6. products'[p] = view[r] /\ \A q \in Products \ {p} : products'[q] = products[q]
  BY <1>2, <1>5 DEF Commit, CommittedProduct, InventoryInv, TypeOK
<1>7. \A q \in Products \ {p} : ledger'[q] = ledger[q]
  BY <1>2 DEF Commit, CommittedLedger, InventoryInv, TypeOK
<1>8. ASSUME NEW q \in Products \ {p}, NEW kind \in AlertKinds, ledger'[q] # <<>>
      PROVE  Fits(q, kind)' \/ Excused(q, kind)'
  <2>1. Fits(q, kind) \/ Excused(q, kind)
    BY <1>7, <1>8, DriftForm
  <2>2. \A a \in AlertIds : IsActiveFor(alerts'[a], q) <=> IsActiveFor(alerts[a], q)
    BY <1>2, <1>8, CommitElsewhere
  <2>3. \A s \in Requests : Evaluated(s, q)' => Evaluated(s, q)
    BY <1>1, <1>2, <1>4, <1>8 DEF Evaluated
  <2> QED
    BY <1>1, <1>4, <1>6, <2>1, <2>2, <2>3, DriftKept
<1>9. ASSUME NEW kind \in AlertKinds, Evaluates(r)
      PROVE  Fits(p, kind)'
  <2>1. Settled(r, kind)
    BY <1>1, <1>9, StepKinds DEF SerialInv, AloneSound, EvaluatedSound
  <2>2. Condition(kind, products'[p]) <=>
          \E a \in AlertIds : a[2] = kind /\ IsActiveFor(alerts'[a], p)
    BY <1>1, <1>2, <1>6, <2>1 DEF Settled
  <2> QED
    BY <2>2 DEF Fits, Condition, IsActiveFor
<1>10. ASSUME NEW kind \in AlertKinds, ~Evaluates(r), ledger'[p] # <<>>
       PROVE  Fits(p, kind)' \/ Excused(p, kind)'
  <2>1. op[r] \in PatchOperation /\ op[r].min_stock = Unset
    BY <1>1, <1>10 DEF Evaluates
  <2>2. /\ \A a \in AlertIds : alerts'[a] = alerts[a]
        /\ products'[p].quantity = products[p].quantity
        /\ products'[p].min_stock = products[p].min_stock
        /\ op[r].max_stock = Unset => products'[p] = products[p]
    BY <1>1, <1>2, <1>6, <1>10, StepKinds DEF SerialInv, AloneSound, Written, Seen
  <2>3. ledger'[p] = ledger[p]
    <3>1. op[r].kind # "movement"
      BY <2>1, PatchFields
    <3> QED
      BY <3>1 DEF Commit, CommittedLedger
  <2>4. Fits(p, kind) \/ Excused(p, kind)
    BY <1>10, <2>3, DriftForm
  <2>5. \A s \in Requests : Evaluated(s, p)' => Evaluated(s, p)
    <3>1. ~Evaluated(r, p)'
      BY <1>1, <2>1, MovementFields, PatchFields DEF Evaluated
    <3> QED
      BY <1>1, <1>4, <3>1 DEF Evaluated
  <2>6. CASE kind = "low_stock" \/ op[r].max_stock = Unset
    <3>1. Condition(kind, products'[p]) <=> Condition(kind, products[p])
      BY <2>2, <2>6 DEF Condition
    <3> QED
      BY <1>1, <1>4, <2>2, <2>4, <2>5, <3>1, DriftKept
  <2>7. CASE kind = "overstock" /\ op[r].max_stock # Unset
    <3>1. OnlyMaximum(r, p)'
      BY <1>1, <1>2, <1>4, <2>1, <2>7 DEF OnlyMaximum
    <3>2. \A s \in Requests : s > r => ~Evaluated(s, p)'
      <4>1. \A s \in Requests : s > r => pc[s] = "idle" /\ s # r
        BY <1>1, InstanceAssumption DEF SerialInv, OneByOne, Requests
      <4> QED
        BY <1>3, <4>1 DEF Evaluated, Committed
    <3> QED
      BY <2>7, <3>1, <3>2 DEF Excused
  <2> QED
    BY <2>6, <2>7 DEF AlertKinds
<1> QED
  BY <1>8, <1>9, <1>10 DEF DriftExplained, Fits, Excused

LEMMA CascadeDeleteDrift ==
  ASSUME InventoryInv, DriftExplained, NEW r \in Requests, CascadeDelete(r)
  PROVE  DriftExplained'
<1>1. /\ pc[r] = "cascade" /\ op[r] \in DeleteOperation
      /\ pc' = [pc EXCEPT ![r] = "ok"] /\ op' = op
  BY DEF CascadeDelete, Goto, InventoryInv, RequestShape
<1>2. PICK p \in Products : p = op[r].product
  BY <1>1, DeleteFields
<1>3. /\ ledger'[p] = <<>>
      /\ \A q \in Products \ {p} : products'[q] = products[q] /\ ledger'[q] = ledger[q]
      /\ \A s \in Requests \ {r} : pc'[s] = pc[s]
  BY <1>1, <1>2 DEF CascadeDelete, InventoryInv, TypeOK
<1>4. \A a \in AlertIds, q \in Products \ {p} :
        IsActiveFor(alerts'[a], q) <=> IsActiveFor(alerts[a], q)
  <2>1. \A a \in AlertIds : alerts'[a] = IF a \in AlertsOf(p) THEN None ELSE alerts[a]
    BY <1>2 DEF CascadeDelete
  <2> QED
    BY <2>1 DEF AlertsOf, IsActiveFor
<1>5. \A s \in Requests :
        /\ Committed(s) => Committed(s)'
        /\ \A q \in Products : Evaluated(s, q)' => Evaluated(s, q)
  <2>1. op[r] \notin MovementOperation \cup PatchOperation
    BY <1>1, MovementFields, PatchFields, DeleteFields
  <2> QED
    BY <1>1, <1>3, <2>1 DEF Committed, Evaluated
<1>6. ASSUME NEW q \in Products, NEW kind \in AlertKinds, ledger'[q] # <<>>
      PROVE  Fits(q, kind)' \/ Excused(q, kind)'
  <2>1. q \in Products \ {p} /\ (Fits(q, kind) \/ Excused(q, kind))
    BY <1>3, <1>6, DriftForm
  <2> QED
    BY <1>1, <1>3, <1>4, <1>5, <2>1, DriftKept
<1> QED
  BY <1>6 DEF DriftExplained, Fits, Excused

LEMMA SetAlertStatusDrift ==
  ASSUME InventoryInv, AlertInv, SerialInv, DriftExplained, NEW r \in Requests,
         SetAlertStatus(r)
  PROVE  DriftExplained'
<1> DEFINE i == target[r]
           status == CASE pc[r] = "acknowledge"   -> "acknowledged"
                       [] pc[r] = "resolve"       -> "resolved"
                       [] pc[r] = "reacknowledge" -> alerts[i].status
<1>1. /\ pc[r] \in {"acknowledge", "reacknowledge", "resolve"} /\ Connected(r)
      /\ op[r] # None /\ i \in AlertIds /\ alerts[i] # None
      /\ op[r].kind = (IF pc[r] = "resolve" THEN "resolve" ELSE "acknowledge")
      /\ pc[r] = "acknowledge" => alerts[i].status = "open"
  BY ConnectedSteps DEF SetAlertStatus, SerialInv, AloneSound, InventoryInv, RequestShape, TypeOK
<1>2. CASE Abort(r, "error")
  BY <1>1, <1>2, AbortDrift DEF Answers, InventoryInv
<1>3. CASE /\ alerts' = [alerts EXCEPT ![i].status = status]
           /\ \E answer \in {"ok", "unconfirmed"} : pc' = [pc EXCEPT ![r] = answer]
           /\ UNCHANGED <<products, ledger, op>>
  <2>1. alerts[i] \in AlertRow /\ status \in AlertStatuses
    BY <1>1, AlertRowTypes DEF InventoryInv, TypeOK, AlertStatuses
  <2>2. PICK p \in Products : p = alerts[i].product
    BY <2>1, AlertRowTypes
  <2>3. /\ alerts'[i] # None /\ alerts'[i].product = p /\ alerts'[i].status = status
        /\ alerts'[i] # Unset
        /\ \A a \in AlertIds \ {i} : alerts'[a] = alerts[a]
    <3> HIDE DEF status
    <3>1. /\ alerts'[i] = [alerts[i] EXCEPT !.status = status]
          /\ \A a \in AlertIds \ {i} : alerts'[a] = alerts[a]
      BY <1>1, <1>3 DEF InventoryInv, TypeOK
    <3> QED
      BY <2>1, <2>2, <3>1, StatusWritten
  <2>4. pc'[r] \in {"ok", "unconfirmed"} /\ \A s \in Requests \ {r} : pc'[s] = pc[s]
    BY <1>3 DEF InventoryInv, TypeOK
  <2>5. \A s \in Requests :
          /\ Committed(s) => Committed(s)'
          /\ \A q \in Products : Evaluated(s, q)' => Evaluated(s, q)
    <3>1. op[r] \notin MovementOperation \cup PatchOperation
      BY <1>1, MovementFields, PatchFields
    <3> QED
      BY <1>3, <2>4, <3>1 DEF Committed, Evaluated
  <2>6. ASSUME NEW q \in Products, NEW kind \in AlertKinds, ledger'[q] # <<>>,
               \A a \in AlertIds :
                 a[2] = kind => (IsActiveFor(alerts'[a], q) <=> IsActiveFor(alerts[a], q))
        PROVE  Fits(q, kind)' \/ Excused(q, kind)'
    <3>1. Fits(q, kind) \/ Excused(q, kind)
      BY <1>3, <2>6, DriftForm
    <3> QED
      BY <1>3, <2>5, <2>6, <3>1, DriftKept
  <2>7. ASSUME NEW q \in Products, NEW kind \in AlertKinds, ledger'[q] # <<>>,
               q # p \/ kind # i[2] \/ ~IsActiveFor(alerts[i], p) \/ pc[r] # "resolve"
        PROVE  \A a \in AlertIds :
                 a[2] = kind => (IsActiveFor(alerts'[a], q) <=> IsActiveFor(alerts[a], q))
    <3>1. CASE pc[r] = "resolve"
      <4>1. status = "resolved" /\ ~IsActiveFor(alerts'[i], q)
        BY <2>3, <3>1 DEF IsActiveFor, ActiveAlertStatuses
      <4>2. i[2] = kind => ~IsActiveFor(alerts[i], q)
        BY <2>2, <2>7, <3>1 DEF IsActiveFor
      <4> QED
        BY <2>3, <4>1, <4>2
    <3>2. CASE pc[r] # "resolve"
      <4>1. status \in ActiveAlertStatuses <=> alerts[i].status \in ActiveAlertStatuses
        BY <1>1, <3>2 DEF ActiveAlertStatuses
      <4>2. alerts[i] \notin {None, Unset}
        BY <2>1, AlertRowTypes
      <4>3. IsActiveFor(alerts'[i], q) <=> IsActiveFor(alerts[i], q)
        <5> HIDE DEF status
        <5> QED
          BY <2>2, <2>3, <4>1, <4>2 DEF IsActiveFor
      <4> QED
        BY <2>3, <4>3
    <3> QED
      BY <3>1, <3>2
  <2>8. ASSUME NEW kind \in AlertKinds,
               kind = i[2], IsActiveFor(alerts[i], p), pc[r] = "resolve"
        PROVE  Fits(p, kind)' \/ Excused(p, kind)'
    <3>1. \A a \in AlertIds : a[2] = kind => ~IsActiveFor(alerts'[a], p)
      <4>1. \A a \in AlertIds \ {i} : a[2] = kind => ~IsActiveFor(alerts[a], p)
        BY <1>1, <2>2, <2>8 DEF AlertInv, OneActiveAlert
      <4>2. ~IsActiveFor(alerts'[i], p)
        BY <2>3, <2>8 DEF IsActiveFor, ActiveAlertStatuses
      <4> QED
        BY <2>3, <4>1, <4>2
    <3>2. CASE Condition(kind, products[p])
      <4>1. ResolvedByHand(r)'
        BY <1>1, <1>3, <2>4, <2>8 DEF ResolvedByHand, Committed
      <4>2. \A s \in Requests : s > r => ~Evaluated(s, p)'
        <5>1. \A s \in Requests : s > r => pc[s] = "idle" /\ s # r
          BY <1>1, InstanceAssumption DEF SerialInv, OneByOne, Requests
        <5> QED
          BY <2>4, <5>1 DEF Evaluated, Committed
      <4>3. Condition(kind, products[p])'
        BY <1>3, <3>2 DEF Condition
      <4> QED
        BY <4>1, <4>2, <4>3 DEF Excused
    <3>3. CASE ~Condition(kind, products[p])
      <4>1. ~Condition(kind, products[p])'
        BY <1>3, <3>3 DEF Condition
      <4>2. \A a \in AlertIds : a[2] = kind => ~IsActiveFor(alerts[a], p)'
        BY <3>1 DEF IsActiveFor
      <4> QED
        BY <4>1, <4>2 DEF Fits
    <3> QED
      BY <3>2, <3>3
  <2> QED
    BY <2>6, <2>7, <2>8 DEF DriftExplained, Fits, Excused
<1> QED
  BY <1>2, <1>3, <1>1 DEF SetAlertStatus, Goto

LEMMA NextDrift ==
  ASSUME Crashes = FALSE, InventoryInv, AlertInv, SerialInv, DriftExplained, [Next]_vars
  PROVE  DriftExplained'
<1>1. ASSUME NEW r \in Requests, Ask(r) \/ Step(r)
      PROVE  DriftExplained'
  BY <1>1, AskDrift, StatementDrift, RefreshDrift, DeleteProductDrift, CommitDrift,
     CascadeDeleteDrift, SetAlertStatusDrift DEF Step, InventoryInv
<1>2. ASSUME NEW r \in Requests, DetectDeadlock(r)
      PROVE  DriftExplained'
  <2>1. BlockedBy(r) # {} /\ Running(r) /\ Abort(r, "error")
    BY <1>2 DEF DetectDeadlock, InWaitCycle
  <2>2. pc[r] \notin {"refresh", "ok", "unconfirmed"}
    BY <2>1 DEF BlockedBy, Running, Steps, AlertKinds
  <2> QED
    BY <2>1, <2>2, AbortDrift DEF Answers, InventoryInv
<1>3. CASE Finished \/ UNCHANGED vars
  <2>1. UNCHANGED <<products, ledger, alerts, op, pc>>
    BY <1>3 DEF Finished, vars
  <2> QED
    BY <2>1, QuietDrift DEF Committed
<1> QED
  BY <1>1, <1>2, <1>3 DEF Next, Crash

\* When calls come one at a time and no process dies, a product's alerts
\* disagree with its stock only since a PATCH of max_stock alone, or an
\* alert resolved by hand while its condition holds; the next movement or
\* PATCH of min_stock, being evaluated, puts both right.
THEOREM DriftHasTwoCauses ==
  ASSUME PoolSize = 1, Crashes = FALSE
  PROVE  Spec => []DriftExplained
<1>1. Init => DriftExplained
  <2> SUFFICES ASSUME Init PROVE DriftExplained
    OBVIOUS
  <2>1. \A p \in Products : ledger[p] = <<>>
    BY DEF Init
  <2> QED
    BY <2>1 DEF DriftExplained
<1>2. InventoryInv /\ AlertInv /\ SerialInv /\ DriftExplained /\ [Next]_vars => DriftExplained'
  BY NextDrift
<1> QED
  BY <1>1, <1>2, InventoryInvariant, AlertInvariant, SerialInvariant, PTL DEF Spec
=============================================================================
