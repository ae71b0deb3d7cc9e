SPECIFICATION Spec
CONSTANTS
  None = None
  p1 = p1
  p2 = p2
  s1 = s1
  s2 = s2
  Products = {p1, p2}
  Requests = {1, 2, 3}
  Quantities = {1, 2}
  MaxInt = 4
  Moves <- MCMoves
  Filters <- MCFilters
  Sizes = {1, 2}
  Shelf <- MCShelf
INVARIANTS
  ReadsTypeOK
  WalkMissesNoMore
  WalkRepeatsNoMore
  ReportsReconcile
  SheetsAddUp
