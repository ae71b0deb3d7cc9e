-------------------------- MODULE InventoryProofs ---------------------------
(***************************************************************************)
(* Proofs about Inventory for any number of products, requests and         *)
(* connections, any calls and any quantities: type correctness and the     *)
(* soundness of the ledger, both from the inductive invariant InventoryInv *)
(* of InventoryProperties, and that it implements StockLedger.             *)
(***************************************************************************)
EXTENDS InventoryProperties, TLAPS

----------------------------------------------------------------------------
(* Facts about the operators. *)

\* A movement's type decides its balance, as in _apply_movement.
LEMMA ApplyType ==
  ASSUME NEW c \in Int, NEW t \in MovementTypes, NEW q \in Int
  PROVE  ApplyMovement(c, t, q) \in Int
BY DEF ApplyMovement, MovementTypes

\* PATCH writes limits and nothing else.
LEMMA WithColumnsType ==
  ASSUME NEW row \in ProductRow, NEW loaded \in ProductRow, NEW o \in PatchOperation
  PROVE  /\ WithColumns(row, loaded, o) =
              [quantity |-> row.quantity,
               min_stock |-> IF o.min_stock \in {Unset, loaded.min_stock}
                             THEN row.min_stock ELSE o.min_stock,
               max_stock |-> IF o.max_stock \in {Unset, loaded.max_stock}
                             THEN row.max_stock ELSE o.max_stock]
         /\ WithColumns(row, loaded, o).quantity = row.quantity
         /\ WithColumns(row, loaded, o).max_stock \in Nat \cup {None}
         /\ WithColumns(row, loaded, o).min_stock \in Nat \cup {None}
<1>1. WithColumns(row, loaded, o) =
        [quantity |-> row.quantity,
         min_stock |-> IF o.min_stock \in {Unset, loaded.min_stock}
                       THEN row.min_stock ELSE o.min_stock,
         max_stock |-> IF o.max_stock \in {Unset, loaded.max_stock}
                       THEN row.max_stock ELSE o.max_stock]
  BY DEF WithColumns, ProductRow
<1>2. /\ o.min_stock \in Nat \cup {None, Unset}
      /\ o.max_stock \in Nat \cup {None, Unset}
  BY DEF PatchOperation
<1>3. row.min_stock \in Nat /\ row.max_stock \in Nat \cup {None}
  BY DEF ProductRow
<1> QED
  BY <1>1, <1>2, <1>3

\* What the CHECK constraints let through is a row of the table.
LEMMA AcceptedType ==
  ASSUME NEW row \in ProductRow, NEW loaded \in ProductRow, NEW o \in PatchOperation,
         SatisfiesChecks(WithColumns(row, loaded, o))
  PROVE  /\ WithColumns(row, loaded, o) \in ProductRow
         /\ WithColumns(loaded, loaded, o) \in ProductRow
<1>1. WithColumns(row, loaded, o).min_stock # None
  BY DEF SatisfiesChecks
<1>2. o.min_stock \in {Unset, loaded.min_stock} \/ o.min_stock # None
  BY <1>1, WithColumnsType
<1>3. loaded.min_stock # None
  BY SentinelAssumption DEF ProductRow
<1>4. WithColumns(loaded, loaded, o).min_stock # None
  BY <1>2, <1>3, WithColumnsType
<1>5. row.quantity \in 0..MaxInt /\ loaded.quantity \in 0..MaxInt
  BY DEF ProductRow
<1> QED
  BY <1>1, <1>4, <1>5, WithColumnsType DEF ProductRow

\* A movement carries a positive quantity and one of the three types.
LEMMA MovementFields ==
  ASSUME NEW o \in MovementOperation
  PROVE  /\ o.kind = "movement"
         /\ o.product \in Products
         /\ o.type \in MovementTypes
         /\ o.quantity \in Quantities
         /\ o.quantity \in Nat \ {0}
BY InstanceAssumption DEF MovementOperation

LEMMA PatchFields ==
  ASSUME NEW o \in PatchOperation
  PROVE  o.kind = "patch" /\ o.product \in Products
BY DEF PatchOperation

LEMMA DeleteFields ==
  ASSUME NEW o \in DeleteOperation
  PROVE  o.kind = "delete" /\ o.product \in Products
BY DEF DeleteOperation

\* Writing one alert row keeps the writes of all transactions well formed.
LEMMA StageType ==
  ASSUME TypeOK, NEW r \in Requests, NEW a \in AlertIds,
         NEW v \in AlertRow \cup {None, Unset},
         staged' = [staged EXCEPT ![r][a] = v]
  PROVE  staged' \in [Requests -> [AlertIds -> AlertRow \cup {None, Unset}]]
<1>1. staged \in [Requests -> [AlertIds -> AlertRow \cup {None, Unset}]]
  BY DEF TypeOK
<1> QED
  BY <1>1

\* A row whose balance follows from the closing balance extends a ledger
\* that replays to one that does.
LEMMA AppendReplays ==
  ASSUME NEW S, NEW l \in Seq(S), NEW m \in S, Replays(l),
         m.balance_after = ApplyMovement(Closing(l), m.type, m.quantity)
  PROVE  Closing(Append(l, m)) = m.balance_after /\ Replays(Append(l, m))
<1> DEFINE k == Append(l, m)
<1>1. /\ k \in Seq(S) /\ Len(k) = Len(l) + 1 /\ Len(l) \in Nat
      /\ k[Len(k)] = m
      /\ \A i \in 1..Len(l) : k[i] = l[i]
  OBVIOUS
<1>2. Closing(k) = m.balance_after
  BY <1>1 DEF Closing
<1>3. ASSUME NEW i \in 1..Len(k)
      PROVE  k[i].balance_after =
               ApplyMovement(IF i = 1 THEN 0 ELSE k[i - 1].balance_after,
                             k[i].type, k[i].quantity)
  <2>1. CASE i \in 1..Len(l)
    <3>1. i = 1 \/ i - 1 \in 1..Len(l)
      BY <1>1, <2>1
    <3> QED
      BY <1>1, <2>1, <3>1 DEF Replays
  <2>2. CASE i = Len(k)
    <3>1. Closing(l) = IF i = 1 THEN 0 ELSE k[i - 1].balance_after
      BY <1>1, <2>2 DEF Closing
    <3> QED
      BY <1>1, <2>2, <3>1
  <2> QED
    BY <1>1, <1>3, <2>1, <2>2
<1> QED
  BY <1>2, <1>3 DEF Replays

----------------------------------------------------------------------------
(* Steps.  Each lemma takes one action through the five conjuncts of       *)
(* InventoryInv.                                                           *)

\* A transaction that ends without committing disturbs nothing.
LEMMA AbortStep ==
  ASSUME InventoryInv, NEW r \in Requests, NEW answer \in Answers, Abort(r, answer)
  PROVE  InventoryInv'
<1> USE DEF InventoryInv
<1>1. /\ pc' = [pc EXCEPT ![r] = answer]
      /\ lock' = [lock EXCEPT ![r] = "none"]
      /\ view' = [view EXCEPT ![r] = None]
      /\ pend' = [pend EXCEPT ![r] = None]
      /\ staged' = [staged EXCEPT ![r] = [a \in AlertIds |-> Unset]]
      /\ target' = [target EXCEPT ![r] = None]
      /\ UNCHANGED <<products, ledger, alerts, op>>
  BY DEF Abort, Goto, Release, database
<1>2. /\ answer \notin {"lock", "flush", "refresh", "open"} \cup EvaluateSteps
      /\ answer \notin {"children", "delete", "cascade"}
      /\ answer \notin {"acknowledge", "reacknowledge", "resolve"}
  BY DEF Answers, EvaluateSteps, AlertKinds
<1>3. TypeOK'
  BY <1>1 DEF TypeOK, LockModes
<1>4. RequestShape'
  BY <1>1, <1>2 DEF RequestShape, TypeOK, EvaluateSteps, AlertKinds
<1>5. LockSafety'
  BY <1>1, <1>2 DEF LockSafety, TypeOK
<1>6. PendingSound'
  BY <1>1, <1>2 DEF PendingSound, TypeOK
<1>7. LedgerSound'
  BY <1>1 DEF LedgerSound
<1> QED
  BY <1>3, <1>4, <1>5, <1>6, <1>7

\* A request that arrives holds nothing yet.
LEMMA AskStep ==
  ASSUME InventoryInv, NEW r \in Requests, Ask(r)
  PROVE  InventoryInv'
<1> USE DEF InventoryInv
<1>1. PICK o \in Operations :
        \/ AskMovement(r, o)
        \/ AskPatch(r, o)
        \/ AskDelete(r, o)
        \/ \E a \in AlertIds : AskAlert(r, o, a)
  BY DEF Ask
<1>2. /\ pc[r] = "idle"
      /\ op' = [op EXCEPT ![r] = o]
      /\ UNCHANGED <<products, ledger, alerts, lock, pend, staged>>
  BY <1>1 DEF AskMovement, AskPatch, AskDelete, AskAlert, Admits, database, transaction
<1>3. lock[r] = "none" /\ pend[r] = None
  BY <1>2 DEF LockSafety, PendingSound, EvaluateSteps, AlertKinds
<1>4. /\ o \in Operation
      /\ o.kind = "movement" => o \in MovementOperation
      /\ o.kind = "patch" => o \in PatchOperation
      /\ o.kind = "delete" => o \in DeleteOperation
  BY InstanceAssumption
     DEF Operation, MovementOperation, PatchOperation, DeleteOperation, AlertOperation
<1>5. CASE AskMovement(r, o)
  <2>1. o \in MovementOperation /\ pc' = [pc EXCEPT ![r] = "lock"] /\ UNCHANGED <<view, target>>
    BY <1>4, <1>5 DEF AskMovement, Goto, transaction
  <2>2. TypeOK'
    BY <1>2, <2>1 DEF TypeOK, Steps
  <2>3. RequestShape'
    BY <1>2, <2>1 DEF RequestShape, TypeOK, EvaluateSteps, AlertKinds
  <2>4. LockSafety' /\ PendingSound' /\ LedgerSound'
    BY <1>2, <1>3, <2>1
       DEF LockSafety, PendingSound, LedgerSound, TypeOK, EvaluateSteps, AlertKinds
  <2> QED
    BY <2>2, <2>3, <2>4
<1>6. CASE AskPatch(r, o)
  <2>1. /\ o \in PatchOperation /\ UNCHANGED target
        /\ view' = [view EXCEPT ![r] = products[o.product]]
        /\ pc' = [pc EXCEPT ![r] = IF products[o.product] = None THEN "not_found" ELSE "flush"]
    BY <1>4, <1>6 DEF AskPatch, Goto
  <2>2. o.product \in Products /\ products[o.product] \in ProductRow \cup {None}
    BY <2>1, PatchFields DEF TypeOK
  <2>3. TypeOK'
    BY <1>2, <2>1, <2>2 DEF TypeOK, Steps, Answers
  <2>4. RequestShape'
    BY <1>2, <2>1, <2>2 DEF RequestShape, TypeOK, EvaluateSteps, AlertKinds
  <2>5. LockSafety' /\ PendingSound' /\ LedgerSound'
    BY <1>2, <1>3, <2>1
       DEF LockSafety, PendingSound, LedgerSound, TypeOK, EvaluateSteps, AlertKinds
  <2> QED
    BY <2>3, <2>4, <2>5
<1>7. CASE AskDelete(r, o)
  <2>1. /\ o \in DeleteOperation /\ UNCHANGED <<view, target>>
        /\ pc' = [pc EXCEPT ![r] = IF products[o.product] = None THEN "not_found" ELSE "children"]
    BY <1>4, <1>7 DEF AskDelete, Goto, transaction
  <2>2. TypeOK'
    BY <1>2, <2>1 DEF TypeOK, Steps, Answers
  <2>3. RequestShape'
    BY <1>2, <2>1 DEF RequestShape, TypeOK, EvaluateSteps, AlertKinds
  <2>4. LockSafety' /\ PendingSound' /\ LedgerSound'
    BY <1>2, <1>3, <2>1
       DEF LockSafety, PendingSound, LedgerSound, TypeOK, EvaluateSteps, AlertKinds
  <2> QED
    BY <2>2, <2>3, <2>4
<1>8. ASSUME NEW a \in AlertIds, AskAlert(r, o, a)
      PROVE  InventoryInv'
  <2>1. PICK step \in {"not_found", "conflict", "acknowledge", "reacknowledge", "resolve"} :
          /\ pc' = [pc EXCEPT ![r] = step]
          /\ step \in {"not_found", "conflict"} => UNCHANGED target
          /\ step \notin {"not_found", "conflict"} => target' = [target EXCEPT ![r] = a]
    BY <1>8 DEF AskAlert, AlertStep, Goto
  <2>2. UNCHANGED view /\ a # None
    BY <1>8, SentinelAssumption DEF AskAlert
  <2>3. TypeOK'
    BY <1>2, <2>1, <2>2 DEF TypeOK, Steps, Answers
  <2>4. RequestShape'
    BY <1>2, <2>1, <2>2 DEF RequestShape, TypeOK, EvaluateSteps, AlertKinds
  <2>5. LockSafety' /\ PendingSound' /\ LedgerSound'
    BY <1>2, <1>3, <2>1
       DEF LockSafety, PendingSound, LedgerSound, TypeOK, EvaluateSteps, AlertKinds
  <2> QED
    BY <2>3, <2>4, <2>5
<1> QED
  BY <1>1, <1>5, <1>6, <1>7, <1>8

\* The locking read: only a request that no conflicting lock stops gets its
\* own, and it computes the balance from the row as committed.
LEMMA LockProductStep ==
  ASSUME InventoryInv, NEW r \in Requests, LockProduct(r)
  PROVE  InventoryInv'
<1> DEFINE p == op[r].product
           balance == ApplyMovement(products[p].quantity, op[r].type, op[r].quantity)
           moved == [products[p] EXCEPT !.quantity = balance]
<1> USE DEF InventoryInv
<1>1. pc[r] = "lock" /\ op[r] \in MovementOperation /\ p \in Products
  BY MovementFields DEF LockProduct, RequestShape
<1>2. RowHolders(r, p, "update") = {}
  BY <1>1 DEF LockProduct, BlockedBy, LockWanted
<1>3. CASE \E answer \in Answers : Abort(r, answer)
  BY <1>3, AbortStep
<1>4. CASE /\ products[p] # None
           /\ balance \in 0..MaxInt
           /\ lock' = [lock EXCEPT ![r] = "update"]
           /\ view' = [view EXCEPT ![r] = moved]
           /\ pend' = [pend EXCEPT ![r] = moved]
           /\ Goto(r, "low_stock")
           /\ UNCHANGED <<database, op, staged, target>>
  <2>1. /\ pc' = [pc EXCEPT ![r] = "low_stock"]
        /\ UNCHANGED <<products, ledger, alerts, op, staged, target>>
    BY <1>4 DEF Goto, database
  <2>2. /\ moved \in ProductRow /\ moved # None
        /\ moved.quantity = balance
    <3>1. products[p] \in ProductRow
      BY <1>1, <1>4 DEF TypeOK
    <3>2. moved \in ProductRow /\ moved.quantity = balance
      BY <1>4, <3>1 DEF ProductRow
    <3> QED
      BY <3>2, SentinelAssumption
  <2>3. TypeOK'
    BY <1>4, <2>1, <2>2 DEF TypeOK, Steps, AlertKinds, LockModes
  <2>4. RequestShape'
    BY <1>1, <1>4, <2>1, <2>2 DEF RequestShape, TypeOK, EvaluateSteps, AlertKinds
  <2>5. \A s \in Requests \ {r} : lock[s] # "none" => op[s].product # p
    BY <1>2 DEF RowHolders, Conflict
  <2>6. LockSafety'
    BY <1>1, <1>4, <2>1, <2>5 DEF LockSafety, TypeOK, EvaluateSteps, AlertKinds
  <2>7. PendingSound'
    BY <1>1, <1>4, <2>1, <2>2, MovementFields, PatchFields
       DEF PendingSound, TypeOK, EvaluateSteps, AlertKinds
  <2>8. LedgerSound'
    BY <2>1 DEF LedgerSound
  <2> QED
    BY <2>3, <2>4, <2>6, <2>7, <2>8
<1> QED
  BY <1>1, <1>3, <1>4 DEF LockProduct, LockWanted, Answers

\* The UPDATE of a PATCH: under a lock that no other writer holds, and with
\* the committed row's quantity.
LEMMA FlushPatchStep ==
  ASSUME InventoryInv, NEW r \in Requests, FlushPatch(r)
  PROVE  InventoryInv'
<1> DEFINE p == op[r].product
           written == WithColumns(products[p], view[r], op[r])
           next == IF op[r].min_stock = Unset THEN "commit" ELSE "low_stock"
<1> USE DEF InventoryInv
<1>1. pc[r] = "flush" /\ op[r] \in PatchOperation /\ p \in Products /\ view[r] \in ProductRow
  BY PatchFields DEF FlushPatch, RequestShape, TypeOK
<1>2. lock[r] = "none" /\ pend[r] = None
  BY <1>1 DEF LockSafety, PendingSound, EvaluateSteps, AlertKinds
<1>3. CASE Abort(r, "error")
  BY <1>3, AbortStep DEF Answers
<1>4. CASE /\ PatchWrites(r)
           /\ products[p] # None /\ SatisfiesChecks(written)
           /\ lock' = [lock EXCEPT ![r] = LockWanted(r)]
           /\ pend' = [pend EXCEPT ![r] = written]
           /\ view' = [view EXCEPT ![r] = WithColumns(view[r], view[r], op[r])]
           /\ Goto(r, next)
           /\ UNCHANGED <<database, op, staged, target>>
  <2>1. /\ pc' = [pc EXCEPT ![r] = next]
        /\ lock' = [lock EXCEPT ![r] = "no_key"]
        /\ UNCHANGED <<products, ledger, alerts, op, staged, target>>
    BY <1>1, <1>4 DEF Goto, database, LockWanted
  <2>2. products[p] \in ProductRow
    BY <1>1, <1>4 DEF TypeOK
  <2>3. /\ written \in ProductRow /\ written # None
        /\ WithColumns(view[r], view[r], op[r]) \in ProductRow
        /\ WithColumns(view[r], view[r], op[r]) # None
        /\ written.quantity = products[p].quantity
    BY <1>1, <1>4, <2>2, AcceptedType, WithColumnsType, SentinelAssumption
  <2>4. RowHolders(r, p, "no_key") = {}
    BY <1>1, <1>4 DEF FlushPatch, BlockedBy, LockWanted
  <2>5. \A s \in Requests \ {r} : op[s].product = p => lock[s] \notin {"no_key", "update"}
    BY <2>4 DEF RowHolders, Conflict
  <2>6. TypeOK'
    BY <1>4, <2>1, <2>3 DEF TypeOK, Steps, AlertKinds, LockModes
  <2>7. RequestShape'
    BY <1>1, <1>4, <2>1, <2>3 DEF RequestShape, TypeOK, EvaluateSteps, AlertKinds
  <2>8. LockSafety'
    BY <1>1, <1>4, <2>1, <2>5 DEF LockSafety, TypeOK, EvaluateSteps, AlertKinds, Conflict, LockModes
  <2>9. PendingSound'
    <3>1. op[r] \notin MovementOperation
      BY <1>1, MovementFields, PatchFields
    <3>2. next \in EvaluateSteps
      BY DEF EvaluateSteps, AlertKinds
    <3> HIDE DEF written, next
    <3> QED
      BY <1>1, <1>4, <2>1, <2>3, <3>1, <3>2 DEF PendingSound, TypeOK
  <2>10. LedgerSound'
    BY <2>1 DEF LedgerSound
  <2> QED
    BY <2>6, <2>7, <2>8, <2>9, <2>10
<1>5. CASE Goto(r, next) /\ UNCHANGED <<database, op, transaction>>
  <2>1. /\ pc' = [pc EXCEPT ![r] = next]
        /\ UNCHANGED <<products, ledger, alerts, op, lock, view, pend, staged, target>>
    BY <1>5 DEF Goto, database, transaction
  <2>2. TypeOK'
    BY <2>1 DEF TypeOK, Steps, AlertKinds
  <2>3. RequestShape'
    BY <1>1, <2>1 DEF RequestShape, TypeOK, EvaluateSteps, AlertKinds
  <2>4. LockSafety' /\ PendingSound' /\ LedgerSound'
    BY <1>1, <1>2, <2>1, MovementFields, PatchFields
       DEF LockSafety, PendingSound, LedgerSound, TypeOK, EvaluateSteps, AlertKinds
  <2> QED
    BY <2>2, <2>3, <2>4
<1> QED
  BY <1>3, <1>4, <1>5 DEF FlushPatch

\* The SELECT of evaluate decides; an alert is opened only when its
\* condition holds.
LEMMA ReadActiveAlertStep ==
  ASSUME InventoryInv, NEW r \in Requests, ReadActiveAlert(r)
  PROVE  InventoryInv'
<1> USE DEF InventoryInv
<1>1. /\ pc[r] \in AlertKinds
      /\ UNCHANGED <<products, ledger, alerts, op, lock, view, pend, staged>>
  BY DEF ReadActiveAlert, database
<1>2. /\ op[r] \in MovementOperation \cup PatchOperation /\ view[r] # None
  BY <1>1 DEF RequestShape, EvaluateSteps
<1>3. \/ /\ target' = [target EXCEPT ![r] = <<r, pc[r]>>]
         /\ pc' = [pc EXCEPT ![r] = "open"]
         /\ Condition(pc[r], view[r])
      \/ /\ \E a \in AlertIds : target' = [target EXCEPT ![r] = a]
         /\ pc' = [pc EXCEPT ![r] = "close"]
      \/ /\ target' = target
         /\ pc' = [pc EXCEPT ![r] = AfterKind(pc[r])]
  BY <1>1 DEF ReadActiveAlert, DecideAlertAction, Goto
<1>4. <<r, pc[r]>> \in AlertIds /\ \A a \in AlertIds : a # None
  BY <1>1, SentinelAssumption DEF AlertIds
<1>5. AfterKind(pc[r]) \in {"overstock", "commit"}
  BY DEF AfterKind
<1>6. TypeOK'
  BY <1>1, <1>3, <1>4, <1>5 DEF TypeOK, Steps, AlertKinds
<1>7. RequestShape'
  <2>1. CASE /\ target' = [target EXCEPT ![r] = <<r, pc[r]>>]
             /\ pc' = [pc EXCEPT ![r] = "open"]
             /\ Condition(pc[r], view[r])
    <3>1. target'[r][2] = pc[r] /\ target'[r] # None /\ pc'[r] = "open"
      BY <1>1, <1>4, <2>1 DEF TypeOK
    <3>2. Condition(target'[r][2], view'[r])
      BY <1>1, <2>1, <3>1
    <3>3. \A s \in Requests \ {r} : pc'[s] = pc[s] /\ target'[s] = target[s]
      BY <2>1 DEF TypeOK
    <3>4. op'[r] \in MovementOperation \cup PatchOperation /\ view'[r] # None
      BY <1>1, <1>2
    <3>5. \A s \in Requests : op'[s] = op[s] /\ view'[s] = view[s]
      BY <1>1
    <3> QED
      BY <3>1, <3>2, <3>3, <3>4, <3>5 DEF RequestShape
  <2>2. ASSUME NEW a \in AlertIds, target' = [target EXCEPT ![r] = a],
               pc' = [pc EXCEPT ![r] = "close"]
        PROVE  RequestShape'
    BY <1>1, <1>2, <1>4, <2>2 DEF RequestShape, TypeOK, EvaluateSteps, AlertKinds
  <2>3. CASE target' = target /\ pc' = [pc EXCEPT ![r] = AfterKind(pc[r])]
    BY <1>1, <1>2, <1>5, <2>3 DEF RequestShape, TypeOK, EvaluateSteps, AlertKinds
  <2> QED
    BY <1>3, <2>1, <2>2, <2>3
<1>8. LockSafety' /\ PendingSound' /\ LedgerSound'
  BY <1>1, <1>3, <1>5
     DEF LockSafety, PendingSound, LedgerSound, TypeOK, EvaluateSteps, AlertKinds
<1> QED
  BY <1>6, <1>7, <1>8

\* The INSERT stages a well-formed row or, the key being taken, nothing.
LEMMA InsertAlertStep ==
  ASSUME InventoryInv, NEW r \in Requests, InsertAlert(r)
  PROVE  InventoryInv'
<1> DEFINE row == [product |-> op[r].product, status |-> "open",
                   triggered_quantity |-> view[r].quantity,
                   threshold_at_trigger |-> Threshold(target[r][2], view[r])]
<1> USE DEF InventoryInv
<1>1. /\ pc[r] = "open"
      /\ UNCHANGED <<products, ledger, alerts, op, lock, view, pend, target>>
  BY DEF InsertAlert, database
<1>2. /\ op[r] \in MovementOperation \cup PatchOperation
      /\ view[r] \in ProductRow /\ target[r] \in AlertIds
      /\ Condition(target[r][2], view[r])
  BY <1>1 DEF RequestShape, EvaluateSteps, TypeOK
<1>3. row \in AlertRow
  <2>1. op[r].product \in Products
    BY <1>2, MovementFields, PatchFields
  <2>2. Threshold(target[r][2], view[r]) \in Nat
    BY <1>2 DEF Threshold, Condition, ProductRow
  <2> QED
    BY <1>2, <2>1, <2>2 DEF AlertRow, AlertStatuses, ProductRow
<1>4. PICK step \in {"overstock", "commit", "key_share"} :
        /\ pc' = [pc EXCEPT ![r] = step]
        /\ staged' = staged \/ staged' = [staged EXCEPT ![r][target[r]] = row]
  BY DEF InsertAlert, Goto, AfterKind
<1> HIDE DEF row
<1>5. TypeOK'
  <2>1. staged' \in [Requests -> [AlertIds -> AlertRow \cup {None, Unset}]]
    BY <1>2, <1>3, <1>4, StageType DEF TypeOK
  <2> QED
    BY <1>1, <1>4, <2>1 DEF TypeOK, Steps, AlertKinds
<1>6. RequestShape'
  BY <1>1, <1>2, <1>4 DEF RequestShape, TypeOK, EvaluateSteps, AlertKinds
<1>7. LockSafety' /\ PendingSound' /\ LedgerSound'
  BY <1>1, <1>4
     DEF LockSafety, PendingSound, LedgerSound, TypeOK, EvaluateSteps, AlertKinds
<1> QED
  BY <1>5, <1>6, <1>7

\* The foreign-key check: a KEY SHARE lock for whoever had no lock.
LEMMA CheckAlertProductStep ==
  ASSUME InventoryInv, NEW r \in Requests, CheckAlertProduct(r)
  PROVE  InventoryInv'
<1> DEFINE p == op[r].product
<1> USE DEF InventoryInv
<1>1. /\ pc[r] = "key_share"
      /\ UNCHANGED <<products, ledger, alerts, op, view, pend, target>>
  BY DEF CheckAlertProduct, database
<1>2. /\ op[r] \in MovementOperation \cup PatchOperation /\ target[r] \in AlertIds
      /\ lock[r] \in LockModes
  BY <1>1 DEF RequestShape, EvaluateSteps, TypeOK
<1>3. PICK step \in {"overstock", "commit"} : pc' = [pc EXCEPT ![r] = step]
  BY DEF CheckAlertProduct, Goto, AfterKind
<1>4. staged' = staged \/ staged' = [staged EXCEPT ![r][target[r]] = Unset]
  BY DEF CheckAlertProduct
<1>5. \/ lock' = lock
      \/ /\ lock[r] = "none" /\ products[p] # None
         /\ lock' = [lock EXCEPT ![r] = "key_share"]
         /\ RowHolders(r, p, "key_share") = {}
  BY <1>1, <1>2 DEF CheckAlertProduct, LockWanted, BlockedBy, TypeOK
<1>6. TypeOK'
  <2>1. staged' \in [Requests -> [AlertIds -> AlertRow \cup {None, Unset}]]
    BY <1>2, <1>4, StageType DEF TypeOK
  <2> QED
    BY <1>1, <1>3, <1>5, <2>1 DEF TypeOK, Steps, AlertKinds, LockModes
<1>7. RequestShape'
  BY <1>1, <1>2, <1>3 DEF RequestShape, TypeOK, EvaluateSteps, AlertKinds
<1>8. LockSafety'
  <2>1. CASE lock' = lock
    BY <1>1, <1>3, <2>1 DEF LockSafety, TypeOK, EvaluateSteps, AlertKinds
  <2>2. CASE lock' # lock
    <3>1. \A s \in Requests \ {r} : lock[s] # "none" /\ op[s].product = p
                                      => lock[s] # "update"
      BY <1>5, <2>2 DEF RowHolders, Conflict
    <3> QED
      BY <1>1, <1>3, <1>5, <2>2, <3>1
         DEF LockSafety, TypeOK, EvaluateSteps, AlertKinds, Conflict
  <2> QED
    BY <2>1, <2>2
<1>9. PendingSound' /\ LedgerSound'
  BY <1>1, <1>3, <1>5
     DEF PendingSound, LedgerSound, TypeOK, EvaluateSteps, AlertKinds
<1> QED
  BY <1>6, <1>7, <1>8, <1>9

\* The UPDATE to resolved changes no product and no lock on one.
LEMMA CloseAlertStep ==
  ASSUME InventoryInv, NEW r \in Requests, CloseAlert(r)
  PROVE  InventoryInv'
<1> DEFINE row == [alerts[target[r]] EXCEPT !.status = "resolved"]
<1> USE DEF InventoryInv
<1>1. CASE Abort(r, "error")
  BY <1>1, AbortStep DEF Answers
<1>2. CASE /\ alerts[target[r]] # None
           /\ staged' = [staged EXCEPT ![r][target[r]] = row]
           /\ Goto(r, AfterKind(target[r][2]))
           /\ UNCHANGED <<database, op, lock, view, pend, target>>
  <2>1. PICK step \in {"overstock", "commit"} : pc' = [pc EXCEPT ![r] = step]
    BY <1>2 DEF Goto, AfterKind
  <2>2. UNCHANGED <<products, ledger, alerts, op, lock, view, pend, target>>
    BY <1>2 DEF database
  <2>3. pc[r] = "close" /\ target[r] \in AlertIds
    BY DEF CloseAlert, RequestShape, TypeOK
  <2>4. row \in AlertRow
    <3>1. alerts[target[r]] \in AlertRow
      BY <1>2, <2>3 DEF TypeOK
    <3> QED
      BY <3>1 DEF AlertRow, AlertStatuses
  <2> HIDE DEF row
  <2>5. TypeOK'
    <3>1. staged' \in [Requests -> [AlertIds -> AlertRow \cup {None, Unset}]]
      BY <1>2, <2>3, <2>4, StageType DEF TypeOK
    <3> QED
      BY <2>1, <2>2, <3>1 DEF TypeOK, Steps, AlertKinds
  <2>6. RequestShape'
    BY <2>1, <2>2, <2>3 DEF RequestShape, TypeOK, EvaluateSteps, AlertKinds
  <2>7. LockSafety' /\ PendingSound' /\ LedgerSound'
    BY <2>1, <2>2, <2>3
       DEF LockSafety, PendingSound, LedgerSound, TypeOK, EvaluateSteps, AlertKinds
  <2> QED
    BY <2>5, <2>6, <2>7
<1> QED
  BY <1>1, <1>2 DEF CloseAlert

\* The commit: a movement appends the one row that follows from the balance
\* it was computed from, which its lock has kept current; whoever else has
\* written the product's row would hold a conflicting lock.
LEMMA CommitStep ==
  ASSUME InventoryInv, NEW r \in Requests, Commit(r)
  PROVE  InventoryInv'
<1> DEFINE p == op[r].product
           m == [at |-> r, type |-> op[r].type, quantity |-> op[r].quantity,
                 balance_after |-> pend[r].quantity]
           Row == [at : Requests, type : MovementTypes, quantity : Quantities,
                   balance_after : 0..MaxInt]
<1> USE DEF InventoryInv
<1>1. /\ pc[r] = "commit"
      /\ products' = CommittedProduct(r)
      /\ ledger' = CommittedLedger(r)
      /\ alerts' = [a \in AlertIds |-> Seen(r, a)]
      /\ pc' = [pc EXCEPT ![r] = "refresh"]
      /\ op' = op
  BY DEF Commit, Goto
<1>2. /\ lock' = [lock EXCEPT ![r] = "none"]
      /\ view' = [view EXCEPT ![r] = None]
      /\ pend' = [pend EXCEPT ![r] = None]
      /\ staged' = [staged EXCEPT ![r] = [a \in AlertIds |-> Unset]]
      /\ target' = [target EXCEPT ![r] = None]
  BY DEF Commit, Release
<1>3. /\ op[r] \in MovementOperation \cup PatchOperation
      /\ p \in Products
      /\ pend[r] \in ProductRow \cup {None}
  BY <1>1, MovementFields, PatchFields DEF RequestShape, EvaluateSteps, TypeOK
<1>4. pend[r] # None => /\ lock[r] \in {"update", "no_key"}
                        /\ products[p] \in ProductRow
  BY <1>3 DEF PendingSound, LockSafety, TypeOK
<1>5. \/ pend[r] = None /\ products' = products
      \/ pend[r] # None /\ products' = [products EXCEPT ![p] = pend[r]]
  BY <1>1 DEF CommittedProduct
<1>6. ASSUME op[r] \in MovementOperation
      PROVE  ledger' \in [Products -> Seq(Row)] /\ LedgerSound'
  <2>1. /\ pend[r] # None /\ pend[r] \in ProductRow /\ lock[r] = "update"
        /\ pend[r].quantity =
             ApplyMovement(products[p].quantity, op[r].type, op[r].quantity)
    BY <1>1, <1>3, <1>6 DEF PendingSound, EvaluateSteps
  <2>2. ledger' = [ledger EXCEPT ![p] = Append(ledger[p], m)]
    BY <1>1, <1>6, MovementFields DEF CommittedLedger
  <2>3. m \in Row /\ ledger[p] \in Seq(Row)
    BY <1>3, <1>6, <2>1, MovementFields DEF TypeOK, ProductRow
  <2>4. products[p] # None /\ products[p].quantity = Closing(ledger[p]) /\ Replays(ledger[p])
    BY <1>3, <1>4, <2>1, SentinelAssumption DEF LedgerSound
  <2>5. /\ Closing(Append(ledger[p], m)) = pend[r].quantity
        /\ Replays(Append(ledger[p], m))
    <3>1. m.balance_after = ApplyMovement(Closing(ledger[p]), m.type, m.quantity)
      BY <2>1, <2>4
    <3> HIDE DEF m, Row
    <3>2. Closing(Append(ledger[p], m)) = m.balance_after /\ Replays(Append(ledger[p], m))
      BY <2>3, <2>4, <3>1, AppendReplays
    <3> QED
      BY <3>2 DEF m
  <2>6. Append(ledger[p], m) \in Seq(Row)
    BY <2>3
  <2> HIDE DEF m
  <2>7. ledger' \in [Products -> Seq(Row)]
    BY <1>3, <2>2, <2>6 DEF TypeOK
  <2>8. LedgerSound'
    <3>1. products' = [products EXCEPT ![p] = pend[r]]
      BY <1>5, <2>1
    <3>2. ASSUME NEW q \in Products, products'[q] # None
          PROVE  products'[q].quantity = Closing(ledger'[q]) /\ Replays(ledger'[q])
      <4>1. CASE q = p
        BY <1>3, <2>2, <2>5, <3>1, <4>1 DEF TypeOK
      <4>2. CASE q # p
        BY <1>3, <2>2, <3>1, <3>2, <4>2 DEF TypeOK, LedgerSound
      <4> QED
        BY <4>1, <4>2
    <3> QED
      BY <3>2 DEF LedgerSound
  <2> QED
    BY <2>7, <2>8
<1>7. ASSUME op[r] \in PatchOperation
      PROVE  ledger' \in [Products -> Seq(Row)] /\ LedgerSound'
  <2>1. ledger' = ledger
    BY <1>1, <1>7, PatchFields DEF CommittedLedger
  <2>2. pend[r] # None => pend[r].quantity = products[p].quantity
    BY <1>7 DEF PendingSound
  <2>3. ASSUME NEW q \in Products, products'[q] # None
        PROVE  products'[q].quantity = Closing(ledger[q]) /\ Replays(ledger[q])
    <3>1. CASE products'[q] = products[q]
      BY <2>3, <3>1 DEF LedgerSound
    <3>2. CASE products'[q] # products[q]
      <4>1. pend[r] # None /\ products' = [products EXCEPT ![p] = pend[r]]
        BY <1>5, <3>2
      <4>2. q = p /\ products'[q] = pend[r]
        BY <1>3, <3>2, <4>1 DEF TypeOK
      <4>3. products[q] # None
        BY <1>4, <4>1, <4>2, SentinelAssumption
      <4> QED
        BY <2>2, <4>1, <4>2, <4>3 DEF LedgerSound
    <3> QED
      BY <3>1, <3>2
  <2>4. ledger' \in [Products -> Seq(Row)]
    BY <2>1 DEF TypeOK
  <2> QED
    BY <2>1, <2>3, <2>4 DEF LedgerSound
<1> HIDE DEF m
<1>8. TypeOK'
  <2>1. ledger' \in [Products -> Seq(Row)]
    BY <1>3, <1>6, <1>7
  <2>2. products' \in [Products -> ProductRow \cup {None}]
    BY <1>3, <1>5 DEF TypeOK
  <2>3. alerts' \in [AlertIds -> AlertRow \cup {None}]
    BY <1>1 DEF TypeOK, Seen
  <2>4. staged' \in [Requests -> [AlertIds -> AlertRow \cup {None, Unset}]]
    BY <1>2 DEF TypeOK
  <2>5. pc' \in [Requests -> {"idle"} \cup Steps \cup Answers] /\ op' \in [Requests -> Operations \cup {None}]
    BY <1>1 DEF TypeOK, Steps
  <2>6. /\ lock' \in [Requests -> LockModes]
        /\ view' \in [Requests -> ProductRow \cup {None}]
        /\ pend' \in [Requests -> ProductRow \cup {None}]
        /\ target' \in [Requests -> AlertIds \cup {None}]
    BY <1>2 DEF TypeOK, LockModes
  <2> QED
    BY <2>1, <2>2, <2>3, <2>4, <2>5, <2>6 DEF TypeOK
<1>9. RequestShape'
  BY <1>1, <1>2, <1>3 DEF RequestShape, TypeOK, EvaluateSteps, AlertKinds
<1>10. LockSafety'
  <2>1. \A q \in Products : products[q] # None => products'[q] # None
    BY <1>3, <1>5 DEF TypeOK
  <2>2. \A s \in Requests : lock'[s] # "none" =>
          /\ s # r /\ lock[s] # "none" /\ lock'[s] = lock[s] /\ pc'[s] = pc[s]
          /\ op[s].product \in Products
    BY <1>1, <1>2, MovementFields, PatchFields, DeleteFields
       DEF LockSafety, RequestShape, TypeOK, EvaluateSteps, AlertKinds
  <2>3. \A s \in Requests : pc'[s] = "cascade" => lock'[s] = "update"
    BY <1>1, <1>2 DEF LockSafety, TypeOK
  <2> QED
    BY <1>1, <2>1, <2>2, <2>3 DEF LockSafety
<1>11. PendingSound'
  <2>1. ASSUME NEW s \in Requests \ {r}, op[s].product \in Products,
               lock[s] \in {"update", "no_key"}
        PROVE  products'[op[s].product] = products[op[s].product]
    <3>1. CASE products' = products
      BY <3>1
    <3>2. CASE pend[r] # None /\ products' = [products EXCEPT ![p] = pend[r]]
      <4>1. op[s].product # p
        BY <1>4, <2>1, <3>2 DEF LockSafety, Conflict
      <4> QED
        BY <2>1, <3>2, <4>1 DEF TypeOK
    <3> QED
      BY <1>5, <3>1, <3>2
  <2>2. ASSUME NEW s \in Requests \ {r}, pc[s] \in EvaluateSteps
        PROVE  op[s].product \in Products
    BY <2>2, MovementFields, PatchFields DEF RequestShape
  <2>3. \A s \in Requests : pend'[s] # None \/ pc'[s] \in EvaluateSteps =>
          s # r /\ pc'[s] = pc[s] /\ pend'[s] = pend[s] /\ lock'[s] = lock[s]
    BY <1>1, <1>2 DEF TypeOK, EvaluateSteps, AlertKinds
  <2>4. ASSUME NEW s \in Requests,
               pend[s] # None \/ (pc[s] \in EvaluateSteps /\ op[s] \in MovementOperation),
               s # r
        PROVE  products'[op[s].product] = products[op[s].product]
    <3>1. lock[s] \in {"update", "no_key"} /\ pc[s] \in EvaluateSteps
      BY <2>4 DEF PendingSound
    <3> QED
      BY <2>1, <2>2, <2>4, <3>1
  <2> QED
    BY <1>1, <2>3, <2>4 DEF PendingSound
<1> QED
  BY <1>3, <1>6, <1>7, <1>8, <1>9, <1>10, <1>11

\* The refresh only looks.
LEMMA RefreshStep ==
  ASSUME InventoryInv, NEW r \in Requests, Refresh(r)
  PROVE  InventoryInv'
<1> USE DEF InventoryInv
<1>1. /\ pc[r] = "refresh"
      /\ UNCHANGED <<products, ledger, alerts, op, lock, view, pend, staged, target>>
  BY DEF Refresh, database, transaction
<1>2. PICK answer \in {"ok", "unconfirmed"} : pc' = [pc EXCEPT ![r] = answer]
  BY DEF Refresh, Goto
<1>3. TypeOK'
  BY <1>1, <1>2 DEF TypeOK, Answers
<1>4. RequestShape'
  BY <1>1, <1>2 DEF RequestShape, TypeOK, EvaluateSteps, AlertKinds
<1>5. LockSafety' /\ PendingSound' /\ LedgerSound'
  BY <1>1, <1>2
     DEF LockSafety, PendingSound, LedgerSound, TypeOK, EvaluateSteps, AlertKinds
<1> QED
  BY <1>3, <1>4, <1>5

\* acknowledge and resolve commit a status, and no product.
LEMMA SetAlertStatusStep ==
  ASSUME InventoryInv, NEW r \in Requests, SetAlertStatus(r)
  PROVE  InventoryInv'
<1> USE DEF InventoryInv
<1>1. CASE Abort(r, "error")
  BY <1>1, AbortStep DEF Answers
<1>2. CASE ~Abort(r, "error")
  <2>1. PICK status : /\ status = CASE pc[r] = "acknowledge"   -> "acknowledged"
                                    [] pc[r] = "resolve"       -> "resolved"
                                    [] pc[r] = "reacknowledge" -> alerts[target[r]].status
                      /\ alerts[target[r]] # None
                      /\ alerts' = [alerts EXCEPT ![target[r]].status = status]
    BY <1>2 DEF SetAlertStatus
  <2>2. /\ pc[r] \in {"acknowledge", "reacknowledge", "resolve"}
        /\ \E answer \in {"ok", "unconfirmed"} : pc' = [pc EXCEPT ![r] = answer]
        /\ UNCHANGED <<products, ledger, op>>
    BY <1>2 DEF SetAlertStatus, Goto
  <2>3. /\ lock' = [lock EXCEPT ![r] = "none"]
        /\ view' = [view EXCEPT ![r] = None]
        /\ pend' = [pend EXCEPT ![r] = None]
        /\ staged' = [staged EXCEPT ![r] = [a \in AlertIds |-> Unset]]
        /\ target' = [target EXCEPT ![r] = None]
    BY <1>2 DEF SetAlertStatus, Release
  <2>4. target[r] \in AlertIds /\ alerts[target[r]] \in AlertRow
    BY <2>1, <2>2 DEF RequestShape, TypeOK
  <2>5. status \in AlertStatuses
    BY <2>1, <2>2, <2>4 DEF AlertRow, AlertStatuses
  <2>6. [alerts[target[r]] EXCEPT !.status = status] \in AlertRow
    BY <2>4, <2>5 DEF AlertRow
  <2>7. alerts' \in [AlertIds -> AlertRow \cup {None}]
    BY <2>1, <2>4, <2>6 DEF TypeOK
  <2>8. TypeOK'
    <3>1. staged' \in [Requests -> [AlertIds -> AlertRow \cup {None, Unset}]]
      BY <2>3 DEF TypeOK
    <3> QED
      BY <2>2, <2>3, <2>7, <3>1 DEF TypeOK, Answers, LockModes
  <2>9. RequestShape'
    BY <2>2, <2>3 DEF RequestShape, TypeOK, EvaluateSteps, AlertKinds
  <2>10. LockSafety' /\ PendingSound' /\ LedgerSound'
    BY <2>2, <2>3
       DEF LockSafety, PendingSound, LedgerSound, TypeOK, EvaluateSteps, AlertKinds
  <2> QED
    BY <2>8, <2>9, <2>10
<1> QED
  BY <1>1, <1>2

\* The ORM's DELETEs of the children stage alert rows only.
LEMMA DeleteChildrenStep ==
  ASSUME InventoryInv, NEW r \in Requests, DeleteChildren(r)
  PROVE  InventoryInv'
<1> USE DEF InventoryInv
<1>1. /\ pc[r] = "children"
      /\ pc' = [pc EXCEPT ![r] = "delete"]
      /\ UNCHANGED <<products, ledger, alerts, op, lock, view, pend, target>>
  BY DEF DeleteChildren, Goto, database
<1>2. op[r] \in DeleteOperation
  BY <1>1 DEF RequestShape
<1>3. staged' \in [Requests -> [AlertIds -> AlertRow \cup {None, Unset}]]
  BY DEF DeleteChildren, TypeOK
<1>4. TypeOK'
  BY <1>1, <1>3 DEF TypeOK, Steps
<1>5. RequestShape'
  BY <1>1, <1>2 DEF RequestShape, TypeOK, EvaluateSteps, AlertKinds
<1>6. LockSafety' /\ PendingSound' /\ LedgerSound'
  BY <1>1 DEF LockSafety, PendingSound, LedgerSound, TypeOK, EvaluateSteps, AlertKinds
<1> QED
  BY <1>4, <1>5, <1>6

\* The DELETE of the product takes the strongest lock when nobody holds one.
LEMMA DeleteProductStep ==
  ASSUME InventoryInv, NEW r \in Requests, DeleteProduct(r)
  PROVE  InventoryInv'
<1> DEFINE p == op[r].product
<1> USE DEF InventoryInv
<1>1. pc[r] = "delete" /\ op[r] \in DeleteOperation /\ p \in Products
  BY DeleteFields DEF DeleteProduct, RequestShape
<1>2. RowHolders(r, p, "update") = {}
  BY <1>1 DEF DeleteProduct, BlockedBy, LockWanted
<1>3. CASE Abort(r, "ok")
  BY <1>3, AbortStep DEF Answers
<1>4. CASE ~Abort(r, "ok")
  <2>1. /\ products[p] # None
        /\ lock' = [lock EXCEPT ![r] = "update"]
        /\ pc' = [pc EXCEPT ![r] = "cascade"]
        /\ UNCHANGED <<products, ledger, alerts, op, view, pend, staged, target>>
    BY <1>1, <1>4 DEF DeleteProduct, LockWanted, Goto, database
  <2>2. \A s \in Requests \ {r} : lock[s] # "none" => op[s].product # p
    BY <1>2 DEF RowHolders, Conflict
  <2>3. TypeOK'
    BY <2>1 DEF TypeOK, Steps, LockModes
  <2>4. RequestShape'
    BY <1>1, <2>1 DEF RequestShape, TypeOK, EvaluateSteps, AlertKinds
  <2>5. LockSafety'
    BY <1>1, <2>1, <2>2 DEF LockSafety, TypeOK, EvaluateSteps, AlertKinds
  <2>6. PendingSound' /\ LedgerSound'
    BY <1>1, <2>1 DEF PendingSound, LedgerSound, TypeOK, EvaluateSteps, AlertKinds
  <2> QED
    BY <2>3, <2>4, <2>5, <2>6
<1> QED
  BY <1>3, <1>4

\* The product and its ledger go, and with "update" held nobody else has a
\* write pending on them.
LEMMA CascadeDeleteStep ==
  ASSUME InventoryInv, NEW r \in Requests, CascadeDelete(r)
  PROVE  InventoryInv'
<1> DEFINE p == op[r].product
           Row == [at : Requests, type : MovementTypes, quantity : Quantities,
                   balance_after : 0..MaxInt]
<1> USE DEF InventoryInv
<1>1. pc[r] = "cascade" /\ op[r] \in DeleteOperation /\ p \in Products
  BY DeleteFields DEF CascadeDelete, RequestShape
<1>2. /\ products' = [products EXCEPT ![p] = None]
      /\ ledger' = [ledger EXCEPT ![p] = <<>>]
      /\ alerts' = [a \in AlertIds |-> IF a \in AlertsOf(p) THEN None ELSE alerts[a]]
      /\ pc' = [pc EXCEPT ![r] = "ok"]
      /\ op' = op
  BY DEF CascadeDelete, Goto
<1>3. /\ lock' = [lock EXCEPT ![r] = "none"]
      /\ view' = [view EXCEPT ![r] = None]
      /\ pend' = [pend EXCEPT ![r] = None]
      /\ staged' = [staged EXCEPT ![r] = [a \in AlertIds |-> Unset]]
      /\ target' = [target EXCEPT ![r] = None]
  BY DEF CascadeDelete, Release
<1>4. lock[r] = "update"
  BY <1>1 DEF LockSafety
<1>5. \A s \in Requests \ {r} : lock[s] # "none" => op[s].product # p
  BY <1>4 DEF LockSafety, Conflict
<1>6. TypeOK'
  <2>1. ledger' \in [Products -> Seq(Row)]
    <3>1. <<>> \in Seq(Row)
      OBVIOUS
    <3> HIDE DEF Row
    <3>2. ledger \in [Products -> Seq(Row)]
      BY DEF TypeOK, Row
    <3> QED
      BY <1>1, <1>2, <3>1, <3>2
  <2>2. products' \in [Products -> ProductRow \cup {None}]
    BY <1>1, <1>2 DEF TypeOK
  <2>3. alerts' \in [AlertIds -> AlertRow \cup {None}]
    BY <1>2 DEF TypeOK
  <2>4. staged' \in [Requests -> [AlertIds -> AlertRow \cup {None, Unset}]]
    BY <1>3 DEF TypeOK
  <2>5. /\ pc' \in [Requests -> {"idle"} \cup Steps \cup Answers]
        /\ op' \in [Requests -> Operations \cup {None}]
    BY <1>2 DEF TypeOK, Answers
  <2>6. /\ lock' \in [Requests -> LockModes]
        /\ view' \in [Requests -> ProductRow \cup {None}]
        /\ pend' \in [Requests -> ProductRow \cup {None}]
        /\ target' \in [Requests -> AlertIds \cup {None}]
    BY <1>3 DEF TypeOK, LockModes
  <2> QED
    BY <2>1, <2>2, <2>3, <2>4, <2>5, <2>6 DEF TypeOK
<1>7. RequestShape'
  BY <1>2, <1>3 DEF RequestShape, TypeOK, EvaluateSteps, AlertKinds
<1>8. LockSafety'
  BY <1>2, <1>3, <1>5 DEF LockSafety, TypeOK
<1>9. PendingSound'
  BY <1>2, <1>3, <1>5 DEF PendingSound, TypeOK, EvaluateSteps, AlertKinds
<1>10. LedgerSound'
  BY <1>1, <1>2 DEF LedgerSound, TypeOK
<1> QED
  BY <1>6, <1>7, <1>8, <1>9, <1>10

----------------------------------------------------------------------------
(* The invariant. *)

\* A new product has quantity 0 and no history.
LEMMA InitInv ==
  ASSUME Init
  PROVE  InventoryInv
<1> USE DEF Init
<1>1. TypeOK
  <2>1. PICK limits \in [Products -> Thresholds] :
          products = [p \in Products |->
                        [quantity |-> 0, min_stock |-> limits[p].min_stock,
                         max_stock |-> limits[p].max_stock]]
    OBVIOUS
  <2>2. ASSUME NEW p \in Products
        PROVE  products[p] \in ProductRow
    <3>1. limits[p] \in [min_stock : Nat, max_stock : Nat \cup {None}]
      BY InstanceAssumption
    <3> QED
      BY <2>1, <3>1, InstanceAssumption DEF ProductRow
  <2>3. products \in [Products -> ProductRow \cup {None}]
    BY <2>1, <2>2
  <2> QED
    BY <2>3 DEF TypeOK, LockModes
<1>2. RequestShape
  BY DEF RequestShape, EvaluateSteps, AlertKinds
<1>3. LockSafety /\ PendingSound
  BY DEF LockSafety, PendingSound, EvaluateSteps, AlertKinds
<1>4. LedgerSound
  BY DEF LedgerSound, Closing, Replays
<1> QED
  BY <1>1, <1>2, <1>3, <1>4 DEF InventoryInv

LEMMA StepInv ==
  ASSUME InventoryInv, NEW r \in Requests, Step(r)
  PROVE  InventoryInv'
BY LockProductStep, FlushPatchStep, ReadActiveAlertStep, InsertAlertStep,
   CheckAlertProductStep, CloseAlertStep, CommitStep, RefreshStep,
   SetAlertStatusStep, DeleteChildrenStep, DeleteProductStep, CascadeDeleteStep
   DEF Step

LEMMA StutterInv ==
  ASSUME InventoryInv, UNCHANGED vars
  PROVE  InventoryInv'
BY DEF vars, InventoryInv, TypeOK, RequestShape, LockSafety, PendingSound, LedgerSound

LEMMA NextInv ==
  ASSUME InventoryInv, [Next]_vars
  PROVE  InventoryInv'
<1>1. ASSUME NEW r \in Requests, Ask(r) \/ Step(r)
      PROVE  InventoryInv'
  BY <1>1, AskStep, StepInv
<1>2. ASSUME NEW r \in Requests, DetectDeadlock(r) \/ Crash(r)
      PROVE  InventoryInv'
  <2>1. \E answer \in Answers : Abort(r, answer)
    BY <1>2 DEF DetectDeadlock, Crash, Answers
  <2> QED
    BY <2>1, AbortStep
<1>3. CASE Finished \/ UNCHANGED vars
  BY <1>3, StutterInv DEF Finished
<1> QED
  BY <1>1, <1>2, <1>3 DEF Next

\* Types, the shape of requests, locks, pending writes and the ledger, in
\* every reachable state.
THEOREM InventoryInvariant == Spec => []InventoryInv
<1>1. Init => InventoryInv
  BY InitInv
<1>2. InventoryInv /\ [Next]_vars => InventoryInv'
  BY NextInv
<1> QED
  BY <1>1, <1>2, PTL DEF Spec

\* Every variable keeps its type: no row breaks its CHECK constraints, for
\* any calls, requests and connections.
THEOREM TypeCorrect == Spec => []TypeOK
<1>1. InventoryInv => TypeOK
  BY DEF InventoryInv
<1> QED
  BY <1>1, InventoryInvariant, PTL

\* A product's quantity is always the balance of its newest movement and
\* every balance follows from the one before.
THEOREM LedgerIsSound == Spec => []LedgerSound
<1>1. InventoryInv => LedgerSound
  BY DEF InventoryInv
<1> QED
  BY <1>1, InventoryInvariant, PTL

----------------------------------------------------------------------------
(* The refinement: with its transactions hidden, the inventory is the      *)
(* ledger of StockLedger.  The commit of a movement is one Record, the     *)
(* cascade of a DELETE is one Forget, and every other step leaves both the *)
(* quantities and the movements alone.                                     *)

\* The quantity of each product, as Stock sees it.
Quantity ==
  [p \in Products |-> IF products[p] = None THEN None ELSE products[p].quantity]

LEMMA LedgerInitHolds == Init => Stock!LedgerInit
<1> SUFFICES ASSUME Init PROVE Stock!LedgerInit
  OBVIOUS
<1>1. PICK limits \in [Products -> Thresholds] :
        products = [p \in Products |->
                      [quantity |-> 0, min_stock |-> limits[p].min_stock,
                       max_stock |-> limits[p].max_stock]]
  BY DEF Init
<1>2. ASSUME NEW p \in Products
      PROVE  products[p] # None /\ products[p].quantity = 0
  <2>1. InventoryInv
    BY InitInv
  <2>2. products[p] \in ProductRow \cup {None} /\ products[p].quantity = 0
    BY <1>1, <2>1 DEF InventoryInv, TypeOK
  <2>3. limits[p] \in [min_stock : Nat, max_stock : Nat \cup {None}]
    BY InstanceAssumption
  <2>4. products[p] \in ProductRow
    BY <1>1, <2>3, InstanceAssumption DEF ProductRow
  <2> QED
    BY <2>2, <2>4, SentinelAssumption
<1>3. ledger = [p \in Products |-> <<>>]
  BY DEF Init
<1> QED
  BY <1>2, <1>3 DEF Stock!LedgerInit

\* A step that touches neither products nor movements is a stutter.
LEMMA SilentStep ==
  ASSUME UNCHANGED <<products, ledger>>
  PROVE  UNCHANGED Stock!ledgerVars
BY DEF Stock!ledgerVars

\* The commit of a movement is a Record of the abstract ledger.
LEMMA CommitMovement ==
  ASSUME InventoryInv, NEW r \in Requests, Commit(r), op[r] \in MovementOperation
  PROVE  Stock!Record(op[r].product, r, op[r].type, op[r].quantity)
<1> DEFINE p == op[r].product
           balance == ApplyMovement(products[p].quantity, op[r].type, op[r].quantity)
<1> USE DEF InventoryInv
<1>1. pc[r] = "commit" /\ p \in Products
  BY MovementFields DEF Commit
<1>2. /\ pend[r] # None /\ pend[r] \in ProductRow /\ lock[r] = "update"
      /\ pend[r].quantity = balance
  BY <1>1 DEF PendingSound, EvaluateSteps, TypeOK
<1>3. products[p] # None
  BY <1>2 DEF LockSafety
<1>4. products' = [products EXCEPT ![p] = pend[r]]
  BY <1>2 DEF Commit, CommittedProduct
<1>5. ledger' = [ledger EXCEPT ![p] =
        Append(ledger[p], [at |-> r, type |-> op[r].type, quantity |-> op[r].quantity,
                           balance_after |-> balance])]
  BY <1>2, MovementFields DEF Commit, CommittedLedger
<1>6. Quantity' = [Quantity EXCEPT ![p] = balance]
  BY <1>1, <1>2, <1>4, SentinelAssumption DEF Quantity, TypeOK
<1>7. Quantity[p] = products[p].quantity /\ Quantity[p] # None
  <2>1. products[p] \in ProductRow
    BY <1>1, <1>3 DEF TypeOK
  <2>2. products[p].quantity \in Nat
    BY <2>1, InstanceAssumption DEF ProductRow
  <2> QED
    BY <1>1, <1>3, <2>2, SentinelAssumption DEF Quantity
<1>8. balance \in 0..MaxInt
  BY <1>2 DEF ProductRow
<1> HIDE DEF p
<1> QED
  <2>1. balance = Stock!ApplyMovement(Quantity[p], op[r].type, op[r].quantity)
    BY <1>7 DEF ApplyMovement, Stock!ApplyMovement
  <2> HIDE DEF balance
  <2> QED
    BY <1>5, <1>6, <1>7, <1>8, <2>1 DEF Stock!Record, Stock!MovementRow, Quantity, p

\* The commit of a PATCH leaves the quantity as it is.
LEMMA CommitPatch ==
  ASSUME InventoryInv, NEW r \in Requests, Commit(r), op[r] \in PatchOperation
  PROVE  UNCHANGED Stock!ledgerVars
<1> DEFINE p == op[r].product
<1> USE DEF InventoryInv
<1>1. p \in Products /\ ledger' = ledger
  BY PatchFields DEF Commit, CommittedLedger
<1>2. CASE pend[r] = None
  <2>1. products' = products
    BY <1>2 DEF Commit, CommittedProduct
  <2> QED
    BY <1>1, <2>1, SilentStep
<1>3. CASE pend[r] # None
  <2>1. products' = [products EXCEPT ![p] = pend[r]]
    BY <1>3 DEF Commit, CommittedProduct
  <2>2. /\ pend[r] \in ProductRow /\ products[p] # None
        /\ pend[r].quantity = products[p].quantity
    BY <1>3 DEF PendingSound, LockSafety, TypeOK
  <2>3. Quantity' = Quantity
    BY <1>1, <2>1, <2>2, SentinelAssumption DEF Quantity, TypeOK
  <2> QED
    BY <1>1, <2>3 DEF Stock!ledgerVars, Quantity
<1> QED
  BY <1>2, <1>3

\* The cascade of a DELETE is a Forget.
LEMMA CascadeForgets ==
  ASSUME InventoryInv, NEW r \in Requests, CascadeDelete(r)
  PROVE  op[r].product \in Products /\ Stock!Forget(op[r].product)
<1> DEFINE p == op[r].product
<1> USE DEF InventoryInv
<1>1. pc[r] = "cascade" /\ p \in Products
  BY DeleteFields DEF CascadeDelete, RequestShape
<1>2. products[p] # None
  BY <1>1 DEF LockSafety
<1>3. products[p].quantity # None
  BY <1>1, <1>2, InstanceAssumption, SentinelAssumption DEF TypeOK, ProductRow
<1>4. /\ products' = [products EXCEPT ![p] = None]
      /\ ledger' = [ledger EXCEPT ![p] = <<>>]
  BY DEF CascadeDelete
<1>5. Quantity' = [Quantity EXCEPT ![p] = None]
  BY <1>1, <1>4 DEF Quantity, TypeOK
<1> QED
  BY <1>1, <1>2, <1>3, <1>4, <1>5 DEF Stock!Forget, Quantity

\* Every step of the inventory is a step of the ledger or none.
LEMMA LedgerStep ==
  ASSUME InventoryInv, [Next]_vars
  PROVE  [Stock!LedgerNext]_(Stock!ledgerVars)
<1>1. ASSUME NEW r \in Requests, Ask(r)
      PROVE  UNCHANGED <<products, ledger>>
  BY <1>1 DEF Ask, AskMovement, AskPatch, AskDelete, AskAlert, database
<1>2. ASSUME NEW r \in Requests, Commit(r)
      PROVE  [Stock!LedgerNext]_(Stock!ledgerVars)
  <2>1. op[r] \in MovementOperation \cup PatchOperation
    BY <1>2 DEF Commit, InventoryInv, RequestShape, EvaluateSteps
  <2>2. CASE op[r] \in MovementOperation
    <3>1. Stock!Record(op[r].product, r, op[r].type, op[r].quantity)
      BY <1>2, <2>2, CommitMovement
    <3>2. /\ op[r].product \in Products /\ op[r].quantity \in Quantities
          /\ op[r].type \in Stock!MovementTypes
      BY <2>2, MovementFields DEF MovementTypes, Stock!MovementTypes
    <3> QED
      BY <1>2, <3>1, <3>2 DEF Stock!LedgerNext, Stock!Record, Stock!MovementRow
  <2>3. CASE op[r] \in PatchOperation
    BY <1>2, <2>3, CommitPatch
  <2> QED
    BY <2>1, <2>2, <2>3
<1>3. ASSUME NEW r \in Requests, CascadeDelete(r)
      PROVE  Stock!LedgerNext
  <2>1. op[r].product \in Products /\ Stock!Forget(op[r].product)
    BY <1>3, CascadeForgets
  <2> QED
    BY <2>1 DEF Stock!LedgerNext, Stock!Forget
<1>4. ASSUME NEW r \in Requests, Step(r), ~Commit(r), ~CascadeDelete(r)
      PROVE  UNCHANGED <<products, ledger>>
  BY <1>4
     DEF Step, LockProduct, FlushPatch, ReadActiveAlert, InsertAlert, CheckAlertProduct,
         CloseAlert, Refresh, SetAlertStatus, DeleteChildren, DeleteProduct, Abort, database
<1>5. ASSUME NEW r \in Requests, DetectDeadlock(r) \/ Crash(r)
      PROVE  UNCHANGED <<products, ledger>>
  BY <1>5 DEF DetectDeadlock, Crash, Abort, database
<1>6. CASE Finished \/ UNCHANGED vars
  BY <1>6, SilentStep DEF Finished, vars
<1> QED
  BY <1>1, <1>2, <1>3, <1>4, <1>5, <1>6, SilentStep DEF Next

\* The inventory implements the ledger of StockLedger: with transactions,
\* locks, crashes and deadlocks hidden, each movement takes effect at once
\* and no other call touches a quantity or a movement.
THEOREM Implements == Spec => ImplementsStockLedger
<1>1. Init => Stock!LedgerInit
  BY LedgerInitHolds
<1>2. InventoryInv /\ [Next]_vars => [Stock!LedgerNext]_(Stock!ledgerVars)
  BY LedgerStep
<1> QED
  BY <1>1, <1>2, InventoryInvariant, PTL DEF Spec, ImplementsStockLedger, Stock!LedgerSpec
=============================================================================
