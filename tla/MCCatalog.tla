----------------------------- MODULE MCCatalog ------------------------------
(***************************************************************************)
(* An instance of the catalog and its dashboard for TLC: two suppliers, a  *)
(* product of one of them, a user and an alert nobody has acknowledged to  *)
(* begin with; a client that wants a key, and the seed that wants it too.  *)
(***************************************************************************)
EXTENDS Dashboard

Supplier == <<0, 1>>
Spare == <<0, 2>>
Product == <<0, 3>>
User == <<0, 4>>
Alert == <<0, 5>>

Blank ==
  [table |-> "supplier", key |-> None, active |-> TRUE,
   supplier |-> None, product |-> None, user |-> None]

MCPresent ==
  << [Blank EXCEPT !.key = "k0"],
     [Blank EXCEPT !.key = "k1"],
     [Blank EXCEPT !.table = "product", !.key = "k0", !.supplier = Supplier],
     [Blank EXCEPT !.table = "user", !.key = "k0"],
     [Blank EXCEPT !.table = "alert", !.product = Product] >>

MCDemo ==
  << [table |-> "supplier", key |-> "k1"], [table |-> "product", key |-> "k1"] >>

MCOperations ==
  {[kind |-> "create", table |-> "product", key |-> "k1", supplier |-> Spare],
   [kind |-> "seed"],
   [kind |-> "delete", row |-> Spare], [kind |-> "delete", row |-> Product],
   [kind |-> "delete", row |-> User],
   [kind |-> "patch", row |-> Spare, active |-> FALSE],
   [kind |-> "move", row |-> Product, supplier |-> Spare],
   [kind |-> "record", product |-> Product, user |-> User],
   [kind |-> "acknowledge", row |-> Alert, user |-> User]}
=============================================================================
