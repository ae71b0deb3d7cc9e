--------------------------- MODULE ReportFigures ----------------------------
(***************************************************************************)
(* What the operational reports compute from the rows of their SELECT, and *)
(* where utils/excel.py puts it in a sheet: repositories/movement.py,      *)
(* repositories/product.py, services/report.py.  Pure operators; Reads     *)
(* applies them to a ledger that changes.                                  *)
(***************************************************************************)
EXTENDS StockRules, SequencesExt

----------------------------------------------------------------------------
(* The summary of movements. *)

\* The enum in the order of its definition, which is the report's.
TypeOrder == <<"in", "out", "adjustment">>

\* SUM(quantity), of movements or of products.
TotalOf(rows) == SumFunction([row \in rows |-> row.quantity])

\* GROUP BY type: only the types that occur have a group.
SummaryByType(movements) ==
  [t \in {m.type : m \in movements} |->
     LET group == {m \in movements : m.type = t}
     IN  [movement_count |-> Cardinality(group), total_quantity |-> TotalOf(group)]]

\* Fault: the groups are matched with the types by position.
BuildByPosition(counts) ==
  LET present == SelectSeq(TypeOrder, LAMBDA t : t \in DOMAIN counts)
  IN  [k \in 1..Len(TypeOrder) |->
         [type |-> TypeOrder[k],
          movement_count |-> IF k <= Len(present) THEN counts[present[k]].movement_count ELSE 0,
          total_quantity |-> IF k <= Len(present) THEN counts[present[k]].total_quantity ELSE 0]]

BuildMovementSummaryRows(counts) ==
  [k \in 1..Len(TypeOrder) |->
     LET t == TypeOrder[k] IN
     [type |-> t,
      movement_count |-> IF t \in DOMAIN counts THEN counts[t].movement_count ELSE 0,
      total_quantity |-> IF t \in DOMAIN counts THEN counts[t].total_quantity ELSE 0]]

MovementsSummary(movements) ==
  LET rows == BuildMovementSummaryRows(SummaryByType(movements))
  IN  [rows |-> rows,
       total_movements |-> SumFunction([k \in DOMAIN rows |-> rows[k].movement_count])]

\* The row of a type.
RowOf(report, type) ==
  LET k == CHOOSE k \in 1..Len(report.rows) : report.rows[k].type = type IN report.rows[k]

----------------------------------------------------------------------------
(* The valuation of the stock.  A product is a record with its sku (of     *)
(* which only the order matters), unit_price, quantity, is_active,         *)
(* supplier.                                                               *)

StockValue(p) == p.unit_price * p.quantity

\* ORDER BY stock_value DESC, sku ASC.
Precedes(p, q) ==
  \/ StockValue(p) > StockValue(q)
  \/ StockValue(p) = StockValue(q) /\ p.sku < q.sku

InventoryValuation(products, supplier, only_active) ==
  LET chosen == {p \in products : (only_active => p.is_active) /\
                                  supplier \in {None, p.supplier}}
  IN  [items |-> CHOOSE items \in SetToSeqs(chosen) :
                   \A i, j \in DOMAIN items : i < j => Precedes(items[i], items[j]),
       total_products |-> Cardinality(chosen),
       total_units |-> TotalOf(chosen),
       total_value |-> SumFunction([p \in chosen |-> StockValue(p)])]

----------------------------------------------------------------------------
(* Sheets: from the number of a row to its cells, below the header.  What  *)
(* is written later stands.                                                *)

ValuationHeader == 4
MovementsHeader == 5

\* Fault: the totals start where the items end.
TotalsOnLastItem(header, items) == header + items

\* The first row of the totals: one row is left blank.
TotalsRow(header, items) == header + items + 2

ValuationSheet(report) ==
  LET n == Len(report.items)
      first == TotalsRow(ValuationHeader, n)
      totals == <<report.total_products, report.total_units, report.total_value>>
  IN  [k \in (ValuationHeader + 1)..(ValuationHeader + n) \cup first..(first + 2) |->
         IF k >= first THEN <<"total", totals[k - first + 1]>>
         ELSE LET p == report.items[k - ValuationHeader]
              IN  <<p.sku, p.quantity, p.unit_price, StockValue(p)>>]

\* The total follows its rows at once.
MovementsSheet(report) ==
  LET n == Len(report.rows) IN
  [k \in (MovementsHeader + 1)..(MovementsHeader + n + 1) |->
     IF k > MovementsHeader + n THEN <<"total", report.total_movements>>
     ELSE LET row == report.rows[k - MovementsHeader]
          IN  <<row.type, row.movement_count, row.total_quantity>>]

\* The rows under the header down to the first blank one.
Block(sheet, header) ==
  {k \in DOMAIN sheet : k > header /\ \A i \in (header + 1)..k : i \in DOMAIN sheet}

ColumnSum(sheet, rows, column) == SumFunction([k \in rows |-> sheet[k][column]])

\* The last row of a sheet.
LastRow(sheet) == CHOOSE k \in DOMAIN sheet : \A i \in DOMAIN sheet : i <= k
=============================================================================
