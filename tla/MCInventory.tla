---------------------------- MODULE MCInventory -----------------------------
(***************************************************************************)
(* Instances of the inventory for TLC: one product, a handful of calls.    *)
(* Each cfg picks one of the sets of calls below.                          *)
(***************************************************************************)
EXTENDS InventoryProperties

CONSTANTS p1, Mix

In(q) == [kind |-> "movement", product |-> p1, type |-> "in", quantity |-> q]
Out(q) == [kind |-> "movement", product |-> p1, type |-> "out", quantity |-> q]
Adjust(q) == [kind |-> "movement", product |-> p1, type |-> "adjustment", quantity |-> q]
Patch(min, max) == [kind |-> "patch", product |-> p1, min_stock |-> min, max_stock |-> max]
Delete == [kind |-> "delete", product |-> p1]
Acknowledge == [kind |-> "acknowledge"]
Resolve == [kind |-> "resolve"]

MCOperations ==
  CASE Mix = "movements" ->
         {In(1), In(3), Out(1), Out(2), Adjust(2), Delete}
    [] Mix = "everything" ->
         {In(3), Out(1), Patch(1, Unset), Patch(2, 1), Patch(None, Unset), Delete,
          Acknowledge, Resolve}
    [] Mix = "serial" ->
         {In(3), Out(2), Patch(0, 1), Patch(Unset, None), Patch(Unset, 1),
          Acknowledge, Resolve}
    [] Mix = "minimum" ->
         {In(1), In(2), Patch(2, Unset)}
    [] Mix = "acknowledge" ->
         {In(1), In(2), Acknowledge}

MCThresholds == {[min_stock |-> 1, max_stock |-> 2], [min_stock |-> 0, max_stock |-> None]}
=============================================================================
