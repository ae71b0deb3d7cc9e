----------------------------- MODULE StockRules -----------------------------
(***************************************************************************)
(* The pure rules of the stock: what a movement does to a balance          *)
(* (services/movement.py, _apply_movement) and when a product deserves an  *)
(* alert (services/alert.py, decide_alert_action and the table of checks   *)
(* at the head of evaluate).  No state: every other module of the stock    *)
(* is built from these operators.                                          *)
(***************************************************************************)
EXTENDS Naturals, Integers, Sequences

CONSTANT
  None      \* the absence of a value: SQL NULL, a row that does not exist

----------------------------------------------------------------------------
(* Movements. *)

MovementTypes == {"in", "out", "adjustment"}

\* The new balance of a movement.  A negative result is the
\* InsufficientStockError of the code: see IsInsufficient.
ApplyMovement(current, type, quantity) ==
  CASE type = "in"         -> current + quantity
    [] type = "out"        -> current - quantity
    [] type = "adjustment" -> quantity

IsInsufficient(current, type, quantity) ==
  ApplyMovement(current, type, quantity) < 0

\* A ledger is the sequence of the movements of one product, oldest first.
\* Closing(l) is the balance its last row records, 0 when there is none: a
\* product is born with quantity 0.
Closing(l) == IF l = <<>> THEN 0 ELSE l[Len(l)].balance_after

\* Every row's balance_after follows from the row before it.
Replays(l) ==
  \A i \in 1..Len(l) :
    l[i].balance_after =
      ApplyMovement(IF i = 1 THEN 0 ELSE l[i - 1].balance_after,
                    l[i].type, l[i].quantity)

----------------------------------------------------------------------------
(* Alerts. *)

AlertKinds == {"low_stock", "overstock"}

AlertStatuses == {"open", "acknowledged", "resolved"}

ActiveAlertStatuses == {"open", "acknowledged"}

\* Fault: the overstock bound taken as inclusive.
ConditionInclusive(kind, row) ==
  \/ kind = "low_stock" /\ row.quantity <= row.min_stock
  \/ kind = "overstock" /\ row.max_stock # None /\ row.quantity >= row.max_stock

\* The condition of an alert kind on a product row.
Condition(kind, row) ==
  \/ kind = "low_stock" /\ row.quantity <= row.min_stock
  \/ kind = "overstock" /\ row.max_stock # None /\ row.quantity > row.max_stock

\* The limit whose crossing the alert records.
Threshold(kind, row) ==
  IF kind = "low_stock" THEN row.min_stock ELSE row.max_stock

\* Fault: an alert is opened and never resolved.
DecideNeverResolves(condition_met, has_active) ==
  IF condition_met /\ ~has_active THEN "open" ELSE "noop"

DecideAlertAction(condition_met, has_active) ==
  CASE condition_met /\ ~has_active -> "open"
    [] ~condition_met /\ has_active -> "resolve"
    [] OTHER                        -> "noop"
=============================================================================
