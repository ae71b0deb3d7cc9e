------------------------------- MODULE Reads --------------------------------
(***************************************************************************)
(* The read side, over the ledger that Inventory implements: a client that *)
(* walks the history page by page while movements are committed and        *)
(* products deleted (services/movement.py, repositories/movement.py,       *)
(* schemas/common.py), and the reports of ReportFigures.  A list call is   *)
(* two statements, the page's items and then the total, and each sees what *)
(* has been committed by then.                                             *)
(***************************************************************************)
EXTENDS StockLedger, ReportFigures

CONSTANTS
  Moves,      \* the movements that clients may make: product, type, quantity
  Filters,    \* the filters of the history that clients use
  Sizes,      \* the page sizes they ask for
  Shelf       \* a product's sku, unit_price, is_active and supplier

\* A movement's number is its created_at, which need not be the order of
\* the commits; products.sku is UNIQUE.
ASSUME ReadsAssumption ==
  /\ MaxInt \in Nat
  /\ None \notin Nat \cup MovementTypes
  /\ IsFiniteSet(Products)
  /\ \A p \in Products :
       /\ Shelf[p].sku \in Nat /\ Shelf[p].unit_price \in Nat
       /\ Shelf[p].is_active \in BOOLEAN
  /\ \A p, q \in Products : Shelf[p].sku = Shelf[q].sku => p = q
  /\ Requests \subseteq Nat /\ Quantities \subseteq Nat
  /\ Sizes \subseteq Nat \ {0}
  /\ Moves \subseteq [product : Products, type : MovementTypes, quantity : Quantities]
  /\ Filters \subseteq [product : Products \cup {None}, type : MovementTypes \cup {None},
                        date_from : Nat \cup {None}, date_to : Nat \cup {None}]

VARIABLES
  used,       \* the movements committed so far, deleted ones included
  walk,       \* what the client walks, [filter, size], or None
  page,       \* the page it asks for
  next,       \* the statement the list call is at
  items,      \* the items of the page, read and not yet answered
  seen,       \* the rows the client has been given
  repeated,   \* how often it was given one again
  before,     \* the rows that matched when it began
  recorded,   \* how many matching rows were committed since
  removed     \* how many were removed since

walkVars == <<walk, page, next, items, seen, repeated, before, recorded, removed>>
vars == <<quantity, ledger, used, walkVars>>

----------------------------------------------------------------------------
(* The statements. *)

\* The table stock_movements.
Movements ==
  UNION {{[product |-> p, at |-> ledger[p][i].at, type |-> ledger[p][i].type,
           quantity |-> ledger[p][i].quantity] : i \in 1..Len(ledger[p])} : p \in Products}

\* _filtered_stmt: one WHERE for each filter given.
Matches(m, filter) ==
  /\ filter.product \in {None, m.product}
  /\ filter.type \in {None, m.type}
  /\ filter.date_from = None \/ m.at >= filter.date_from
  /\ filter.date_to = None \/ m.at <= filter.date_to

Matching(filter) == {m \in Movements : Matches(m, filter)}

Offset(number, size) == (number - 1) * size

\* Fault: one row more is fetched, to know whether there is a next page.
LimitWithProbe(size) == size + 1

Limit(size) == size

\* ORDER BY created_at DESC OFFSET ... LIMIT ...: a row's position is the
\* number of rows that are newer.
Position(m, rows) == Cardinality({n \in rows : n.at > m.at})

ListHistory(filter, number, size) ==
  {m \in Matching(filter) :
     Position(m, Matching(filter)) \in
       Offset(number, size)..(Offset(number, size) + Limit(size) - 1)}

CountHistory(filter) == Cardinality(Matching(filter))

\* Fault: the division rounds down.
PagesRoundedDown(total, size) == total \div size

\* Fault: one page more than there are.
PagesOneMore(total, size) == total \div size + 1

\* Page.create.
Pages(total, size) == IF total = 0 THEN 0 ELSE (total + size - 1) \div size

\* summary_by_type has a WHERE of its own, and none for the type.
InSummary(m, filter) ==
  /\ filter.product \in {None, m.product}
  /\ filter.date_from = None \/ m.at >= filter.date_from
  /\ filter.date_to = None \/ m.at <= filter.date_to

Summary(filter) == MovementsSummary({m \in Movements : InSummary(m, filter)})

\* The products on the shelf, with what is left of each.
Stock ==
  {[sku |-> Shelf[p].sku, unit_price |-> Shelf[p].unit_price, supplier |-> Shelf[p].supplier,
    is_active |-> Shelf[p].is_active, quantity |-> quantity[p]] :
     p \in {p \in Products : quantity[p] # None}}

Suppliers == {Shelf[p].supplier : p \in Products} \cup {None}

Valuation(supplier, only_active) == InventoryValuation(Stock, supplier, only_active)

----------------------------------------------------------------------------
(* The ledger changes. *)

Walking == next \in {"items", "count"}

\* The rows that the walk in progress would show.
Shown(rows) == {m \in rows : Walking /\ Matches(m, walk.filter)}

\* A movement is committed, with a created_at of its own.
Move(r, o) ==
  /\ r \notin used
  /\ used' = used \cup {r}
  /\ Record(o.product, r, o.type, o.quantity)
  /\ recorded' = recorded + Cardinality(Shown(Movements' \ Movements))
  /\ UNCHANGED <<walk, page, next, items, seen, repeated, before, removed>>

\* A product is deleted and its movements with it.
DeleteProduct(p) ==
  /\ Forget(p)
  /\ removed' = removed + Cardinality(Shown(Movements \ Movements'))
  /\ UNCHANGED <<used, walk, page, next, items, seen, repeated, before, recorded>>

----------------------------------------------------------------------------
(* The walk: the first page, then the next one as long as the last answer  *)
(* says that there is one.                                                 *)

Begin(filter, size) ==
  /\ next = "idle"
  /\ walk' = [filter |-> filter, size |-> size]
  /\ page' = 1
  /\ next' = "items"
  /\ before' = Matching(filter)
  /\ UNCHANGED <<quantity, ledger, used, items, seen, repeated, recorded, removed>>

ReadItems ==
  /\ next = "items"
  /\ items' = ListHistory(walk.filter, page, walk.size)
  /\ next' = "count"
  /\ UNCHANGED <<quantity, ledger, used, walk, page, seen, repeated, before, recorded, removed>>

\* The total is read and the page answered.
ReadCount ==
  LET pages == Pages(CountHistory(walk.filter), walk.size) IN
  /\ next = "count"
  /\ seen' = seen \cup items
  /\ repeated' = repeated + Cardinality(items \cap seen)
  /\ items' = {}
  /\ page' = page + 1
  /\ next' = IF page < pages THEN "items" ELSE "done"
  /\ UNCHANGED <<quantity, ledger, used, walk, before, recorded, removed>>

Rest ==
  /\ walk' = None
  /\ page' = 0
  /\ next' = "idle"
  /\ items' = {}
  /\ seen' = {}
  /\ repeated' = 0
  /\ before' = {}
  /\ recorded' = 0
  /\ removed' = 0

End == next = "done" /\ Rest /\ UNCHANGED <<quantity, ledger, used>>

Init ==
  /\ LedgerInit
  /\ used = {}
  /\ walk = None
  /\ page = 0
  /\ next = "idle"
  /\ items = {}
  /\ seen = {}
  /\ repeated = 0
  /\ before = {}
  /\ recorded = 0
  /\ removed = 0

Next ==
  \/ \E r \in Requests, o \in Moves : Move(r, o)
  \/ \E p \in Products : DeleteProduct(p)
  \/ \E filter \in Filters, size \in Sizes : Begin(filter, size)
  \/ ReadItems
  \/ ReadCount
  \/ End

Spec == Init /\ [][Next]_vars

----------------------------------------------------------------------------
(* Properties. *)

\* The shape of every variable; a walk asks for no page past the rows there
\* ever were, its first one excepted.  Code: Page and PaginationParams.
ReadsTypeOK ==
  /\ quantity \in [Products -> 0..MaxInt \cup {None}]
  /\ walk \in [filter : Filters, size : Sizes] \cup {None}
  /\ used \subseteq Requests
  /\ next \in {"idle", "items", "count", "done"}
  /\ page \in 0..2 \cup 0..(Cardinality(used) + 1)
  /\ \A m \in items \cup seen \cup before :
       m \in [product : Products, at : Requests, type : MovementTypes, quantity : Quantities]
  /\ repeated \in Nat /\ recorded \in Nat /\ removed \in Nat

\* A walk that has ended missed no more of the rows that were there all
\* along than were removed under it: with no deletion, it missed none,
\* however many movements were committed, in whatever order of created_at.
\* Code: the newest-first order, and history reading the items before the
\* total that says whether to go on.
WalkMissesNoMore ==
  next = "done" => Cardinality((before \cap Movements) \ seen) <= removed

\* A walk is given a row again no more often than rows were committed under
\* it.  Code: offset and limit.
WalkRepeatsNoMore == repeated <= recorded

\* The movements report and the history list agree on every period, though
\* each has its own WHERE; and where nothing was adjusted, what came in
\* less what went out is the stock that the valuation reports.  Code:
\* summary_by_type, build_movement_summary_rows, inventory_valuation.
ReportsReconcile ==
  /\ \A filter \in Filters :
       LET report == Summary(filter) IN
       /\ report.total_movements = CountHistory([filter EXCEPT !.type = None])
       /\ \A t \in MovementTypes :
            RowOf(report, t).movement_count = CountHistory([filter EXCEPT !.type = t])
  /\ (\A m \in Movements : m.type # "adjustment") =>
       LET report == MovementsSummary(Movements) IN
       RowOf(report, "in").total_quantity - RowOf(report, "out").total_quantity =
         Valuation(None, FALSE).total_units

\* In the sheets, too: the rows a reader finds under the header add up to
\* the totals below them, and no cell is written over.  Code: the row
\* arithmetic of utils/excel.py.
SheetsAddUp ==
  /\ \A supplier \in Suppliers, only_active \in BOOLEAN :
       LET sheet == ValuationSheet(Valuation(supplier, only_active))
           block == Block(sheet, ValuationHeader)
           last == LastRow(sheet)
       IN  /\ sheet[last - 2][2] = Cardinality(block)
           /\ sheet[last - 1][2] = ColumnSum(sheet, block, 2)
           /\ sheet[last][2] = ColumnSum(sheet, block, 4)
  /\ \A filter \in Filters :
       LET sheet == MovementsSheet(Summary(filter))
           last == LastRow(sheet)
       IN  sheet[last][2] = ColumnSum(sheet, Block(sheet, MovementsHeader) \ {last}, 2)
=============================================================================
