---------------------------- MODULE StockLedger -----------------------------
(***************************************************************************)
(* What the inventory promises about stock, with no transaction in sight.  *)
(* A product has a quantity and a ledger of movements; one movement        *)
(* changes both at once, by the rule of _apply_movement, and is refused    *)
(* when the balance would go below zero or above what the column holds.    *)
(* A product may disappear, and its ledger with it.  Nothing else touches  *)
(* quantity or ledger.  Inventory.tla, with its transactions, locks and    *)
(* crashes, is shown to implement this module.                             *)
(***************************************************************************)
EXTENDS StockRules

CONSTANTS
  Products,     \* the products that exist at the start
  Requests,     \* the names of the requests a movement may come from
  Quantities,   \* the quantities a movement may carry
  MaxInt        \* the largest value of an INTEGER column

VARIABLES
  quantity,     \* [Products -> 0..MaxInt], None once deleted
  ledger        \* the movements of each product, oldest first

ledgerVars == <<quantity, ledger>>

MovementRow(r, type, q, balance) ==
  [at |-> r, type |-> type, quantity |-> q, balance_after |-> balance]

LedgerInit ==
  /\ quantity = [p \in Products |-> 0]
  /\ ledger = [p \in Products |-> <<>>]

\* A movement of product p, applied and recorded in one step.
Record(p, r, type, q) ==
  LET balance == ApplyMovement(quantity[p], type, q)
  IN  /\ quantity[p] # None
      /\ balance \in 0..MaxInt
      /\ quantity' = [quantity EXCEPT ![p] = balance]
      /\ ledger' = [ledger EXCEPT ![p] =
                      Append(@, MovementRow(r, type, q, balance))]

\* The product is deleted with its history.
Forget(p) ==
  /\ quantity[p] # None
  /\ quantity' = [quantity EXCEPT ![p] = None]
  /\ ledger' = [ledger EXCEPT ![p] = <<>>]

LedgerNext ==
  \E p \in Products :
    \/ Forget(p)
    \/ \E r \in Requests, type \in MovementTypes, q \in Quantities :
         Record(p, r, type, q)

LedgerSpec == LedgerInit /\ [][LedgerNext]_ledgerVars
=============================================================================
