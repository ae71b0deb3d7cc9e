------------------------------ MODULE MCReads -------------------------------
(***************************************************************************)
(* An instance of the read side for TLC: two products, one of them retired,*)
(* three movements of either, periods that leave the first or the last out.*)
(***************************************************************************)
EXTENDS Reads

CONSTANTS p1, p2, s1, s2

MCMoves ==
  {[product |-> p1, type |-> "in", quantity |-> 2], [product |-> p1, type |-> "out", quantity |-> 1],
   [product |-> p2, type |-> "in", quantity |-> 1],
   [product |-> p2, type |-> "adjustment", quantity |-> 2]}

Everything == [product |-> None, type |-> None, date_from |-> None, date_to |-> None]

MCFilters ==
  {Everything, [Everything EXCEPT !.product = p1, !.date_to = 2],
   [Everything EXCEPT !.type = "in", !.date_from = 2]}

MCShelf ==
  p1 :> [sku |-> 2, unit_price |-> 1, is_active |-> TRUE, supplier |-> s1] @@
  p2 :> [sku |-> 1, unit_price |-> 2, is_active |-> FALSE, supplier |-> s2]
=============================================================================
