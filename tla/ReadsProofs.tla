----------------------------- MODULE ReadsProofs -----------------------------
(***************************************************************************)
(* Proofs about Reads: what a client that walks the history page by page   *)
(* may miss and be given twice, while movements are committed and products *)
(* deleted under it.  Each is bounded by a potential: the rows that the    *)
(* walk has been given and may still meet again, and the rows it has       *)
(* passed without being given them.                                        *)
(***************************************************************************)
EXTENDS Reads, FiniteSetTheorems, TLAPS

LedgerRow == [at : Requests, type : MovementTypes, quantity : Quantities,
              balance_after : 0..MaxInt]

Movement == [product : Products, at : Requests, type : MovementTypes, quantity : Quantities]

\* No two rows have the same created_at.
Dated(rows) ==
  /\ IsFiniteSet(rows)
  /\ \A m \in rows : m.at \in Nat
  /\ \A m, n \in rows : m.at = n.at => m = n

\* Rows of given at position k or after it: the walk may still meet them.
Ahead(given, rows, k) == {m \in given \cap rows : Position(m, rows) >= k}

\* Rows of wanted before position k: the walk has passed them.
Behind(wanted, rows, k) == {m \in wanted \cap rows : Position(m, rows) < k}

\* What the client has been given or is about to be.
Given == seen \cup items

\* The first position that the walk has yet to read.
Edge == Offset(IF next = "items" THEN page ELSE page + 1, walk.size)

LedgerShape ==
  /\ quantity \in [Products -> 0..MaxInt \cup {None}]
  /\ ledger \in [Products -> Seq(LedgerRow)]

\* Every row is of a movement committed once.
RowsSound ==
  /\ used \subseteq Requests /\ IsFiniteSet(used)
  /\ Dated(Movements) /\ Cardinality(Movements) <= Cardinality(used)
  /\ Movements \cup Given \cup before \subseteq Movement
  /\ \A m \in Movements \cup Given \cup before : m.at \in used

WalkShape ==
  /\ next \in {"idle", "items", "count", "done"}
  /\ next = "idle" =>
       /\ walk = None /\ page = 0 /\ seen = {} /\ before = {}
       /\ repeated = 0 /\ recorded = 0 /\ removed = 0
  /\ next # "idle" => walk \in [filter : Filters, size : Sizes] /\ page \in Nat \ {0}
  /\ next # "count" => items = {}
  /\ Walking => page = 1 \/ page <= Cardinality(used)
  /\ next = "done" => page <= 2 \/ page <= Cardinality(used) + 1
  /\ repeated \in Nat /\ recorded \in Nat /\ removed \in Nat

\* The potentials.  Committing a row moves at most one row that was given
\* past the edge, removing rows moves at most as many ahead of it.
WalkSound ==
  /\ IsFiniteSet(Given) /\ IsFiniteSet(before)
  /\ Walking =>
       /\ \A m \in before : Matches(m, walk.filter)
       /\ repeated + Cardinality(items \cap seen) +
            Cardinality(Ahead(Given, Matching(walk.filter), Edge)) <= recorded
       /\ Cardinality(Behind(before \ Given, Matching(walk.filter), Edge)) <= removed
  /\ next = "done" =>
       /\ repeated <= recorded
       /\ Cardinality((before \cap Movements) \ seen) <= removed

ReadsInv == LedgerShape /\ RowsSound /\ WalkShape /\ WalkSound

----------------------------------------------------------------------------
(* Positions. *)

LEMMA PositionType ==
  ASSUME NEW rows, Dated(rows), NEW m \in rows
  PROVE  Position(m, rows) \in Nat /\ Position(m, rows) < Cardinality(rows)
<1> DEFINE newer == {n \in rows : n.at > m.at}
<1>1. /\ IsFiniteSet(newer) /\ Cardinality(newer) <= Cardinality(rows)
      /\ Cardinality(newer) = Cardinality(rows) => rows = newer
  BY FS_Subset DEF Dated
<1>2. rows # newer
  BY DEF Dated
<1>3. Cardinality(newer) \in Nat /\ Cardinality(rows) \in Nat
  BY <1>1, FS_CardinalityType DEF Dated
<1> QED
  BY <1>1, <1>2, <1>3 DEF Position

\* The older row is further down.
LEMMA PositionOrder ==
  ASSUME NEW rows, Dated(rows), NEW m \in rows, NEW n \in rows, m.at > n.at
  PROVE  Position(m, rows) < Position(n, rows)
<1> DEFINE above(x) == {y \in rows : y.at > x.at}
<1>1. IsFiniteSet(above(m)) /\ IsFiniteSet(above(n))
  BY FS_Subset DEF Dated
<1>2. above(m) \subseteq above(n) /\ m \in above(n) /\ m \notin above(m)
  BY DEF Dated
<1>3. /\ Cardinality(above(m)) <= Cardinality(above(n))
      /\ Cardinality(above(m)) # Cardinality(above(n))
  BY <1>1, <1>2, FS_Subset
<1>4. Cardinality(above(m)) \in Nat /\ Cardinality(above(n)) \in Nat
  BY <1>1, FS_CardinalityType
<1> QED
  BY <1>3, <1>4 DEF Position

LEMMA PositionsDiffer ==
  ASSUME NEW rows, Dated(rows), NEW m \in rows, NEW n \in rows,
         Position(m, rows) = Position(n, rows)
  PROVE  m = n
<1>1. m.at = n.at \/ m.at > n.at \/ n.at > m.at
  BY DEF Dated
<1>2. Position(m, rows) \in Nat /\ Position(n, rows) \in Nat
  BY PositionType
<1> QED
  BY <1>1, <1>2, PositionOrder DEF Dated

LEMMA DatedSubset ==
  ASSUME NEW rows, Dated(rows), NEW fewer \in SUBSET rows
  PROVE  Dated(fewer) /\ IsFiniteSet(rows \ fewer)
         /\ Cardinality(rows \ fewer) \in Nat
<1>1. IsFiniteSet(fewer) /\ IsFiniteSet(rows \ fewer)
  BY FS_Subset DEF Dated
<1> QED
  BY <1>1, FS_CardinalityType DEF Dated

\* With more rows a row is further down, by no more than there are more.
LEMMA PositionShift ==
  ASSUME NEW rows, Dated(rows), NEW fewer \in SUBSET rows, NEW m \in fewer
  PROVE  /\ Position(m, fewer) <= Position(m, rows)
         /\ Position(m, rows) <= Position(m, fewer) + Cardinality(rows \ fewer)
<1> DEFINE few == {n \in fewer : n.at > m.at}
           all == {n \in rows : n.at > m.at}
           rest == rows \ fewer
<1>1. IsFiniteSet(all) /\ IsFiniteSet(few) /\ IsFiniteSet(rest) /\ Dated(fewer)
  BY DatedSubset, FS_Subset DEF Dated
<1>2. few \in SUBSET all /\ all \in SUBSET (few \cup rest)
  OBVIOUS
<1>3. IsFiniteSet(few \cup rest)
      /\ Cardinality(few \cup rest) =
           Cardinality(few) + Cardinality(rest) - Cardinality(few \cap rest)
  BY <1>1, FS_Union
<1>4. few \cap rest = {}
  OBVIOUS
<1>5. Cardinality(few) <= Cardinality(all) /\ Cardinality(all) <= Cardinality(few \cup rest)
  BY <1>1, <1>2, <1>3, FS_Subset
<1>6. /\ Cardinality(few) \in Nat /\ Cardinality(all) \in Nat /\ Cardinality(rest) \in Nat
      /\ Cardinality(few \cap rest) = 0
  BY <1>1, <1>4, FS_CardinalityType, FS_EmptySet
<1> HIDE DEF few, all, rest
<1>7. Cardinality(few) <= Cardinality(all)
      /\ Cardinality(all) <= Cardinality(few) + Cardinality(rest)
  BY <1>3, <1>5, <1>6
<1> QED
  BY <1>7 DEF Position, few, all, rest

\* As many positions, as many rows.
LEMMA RowsBetween ==
  ASSUME NEW rows, Dated(rows), NEW k \in Int, NEW d \in Nat,
         NEW between \in SUBSET rows,
         \A m \in between : Position(m, rows) >= k /\ Position(m, rows) < k + d
  PROVE  IsFiniteSet(between) /\ Cardinality(between) <= d
<1> DEFINE f == [m \in between |-> Position(m, rows)]
<1>1. f \in Injection(between, k..(k + d - 1))
  BY PositionType, PositionsDiffer DEF Injection, IsInjective
<1>2. IsFiniteSet(k..(k + d - 1)) /\ Cardinality(k..(k + d - 1)) = d
  BY FS_Interval
<1> HIDE DEF f
<1> QED
  BY <1>1, <1>2, FS_Injection

----------------------------------------------------------------------------
(* The potentials, over changing rows. *)

\* A set of rows within two others is no larger than both together.
LEMMA CoveredBy ==
  ASSUME NEW A, NEW B, NEW C, IsFiniteSet(B), IsFiniteSet(C), A \subseteq B \cup C
  PROVE  /\ IsFiniteSet(A)
         /\ Cardinality(A) \in Nat /\ Cardinality(B) \in Nat /\ Cardinality(C) \in Nat
         /\ Cardinality(A) <= Cardinality(B) + Cardinality(C)
<1>1. /\ IsFiniteSet(B \cup C) /\ IsFiniteSet(B \cap C)
      /\ Cardinality(B \cup C) = Cardinality(B) + Cardinality(C) - Cardinality(B \cap C)
  BY FS_Union, FS_Subset
<1>2. IsFiniteSet(A) /\ Cardinality(A) <= Cardinality(B \cup C)
  BY <1>1, FS_Subset
<1> QED
  BY <1>1, <1>2, FS_CardinalityType

LEMMA PotentialsFinite ==
  ASSUME NEW rows, Dated(rows), NEW given, NEW k \in Nat
  PROVE  /\ IsFiniteSet(Ahead(given, rows, k)) /\ Cardinality(Ahead(given, rows, k)) \in Nat
         /\ IsFiniteSet(Behind(given, rows, k)) /\ Cardinality(Behind(given, rows, k)) \in Nat
<1>1. Ahead(given, rows, k) \subseteq rows /\ Behind(given, rows, k) \subseteq rows
  BY DEF Ahead, Behind
<1> QED
  BY <1>1, FS_Subset, FS_CardinalityType DEF Dated

\* New rows push as many of the given rows ahead of the edge, at most, ...
LEMMA AheadGrows ==
  ASSUME NEW rows, Dated(rows), NEW fewer \in SUBSET rows, NEW given,
         given \cap (rows \ fewer) = {}, NEW k \in Nat
  PROVE  Cardinality(Ahead(given, rows, k)) <=
           Cardinality(Ahead(given, fewer, k)) + Cardinality(rows \ fewer)
<1> DEFINE d == Cardinality(rows \ fewer)
           pushed == {m \in fewer : Position(m, fewer) >= k - d /\ Position(m, fewer) < k}
<1>1. Dated(fewer) /\ d \in Nat
  BY DatedSubset
<1>2. IsFiniteSet(pushed) /\ Cardinality(pushed) <= d
  <2> HIDE DEF d
  <2>1. /\ k - d \in Int /\ (k - d) + d = k
    BY <1>1
  <2>2. /\ pushed \in SUBSET fewer
        /\ \A m \in pushed : Position(m, fewer) >= k - d /\ Position(m, fewer) < k
    OBVIOUS
  <2>3. \A m \in pushed : Position(m, fewer) >= k - d /\ Position(m, fewer) < (k - d) + d
    BY <2>1, <2>2
  <2> HIDE DEF pushed
  <2> QED
    BY <1>1, <2>1, <2>2, <2>3, RowsBetween
<1>3. ASSUME NEW m \in Ahead(given, rows, k)
      PROVE  m \in Ahead(given, fewer, k) \cup pushed
  <2>1. m \in given /\ m \in fewer /\ m \in rows /\ Position(m, rows) >= k
    BY DEF Ahead
  <2>2. /\ Position(m, fewer) \in Nat /\ Position(m, rows) \in Nat
        /\ Position(m, rows) <= Position(m, fewer) + d
    BY <1>1, <2>1, PositionType, PositionShift
  <2>3. Position(m, fewer) >= k \/ (Position(m, fewer) >= k - d /\ Position(m, fewer) < k)
    BY <1>1, <2>1, <2>2
  <2> QED
    BY <2>1, <2>3 DEF Ahead
<1>4. IsFiniteSet(Ahead(given, fewer, k))
  BY <1>1, PotentialsFinite
<1> HIDE DEF d, pushed
<1>5. /\ Cardinality(Ahead(given, rows, k)) <=
           Cardinality(Ahead(given, fewer, k)) + Cardinality(pushed)
      /\ Cardinality(Ahead(given, rows, k)) \in Nat /\ Cardinality(Ahead(given, fewer, k)) \in Nat
      /\ Cardinality(pushed) \in Nat
  BY <1>2, <1>3, <1>4, CoveredBy
<1>6. Cardinality(Ahead(given, rows, k)) <= Cardinality(Ahead(given, fewer, k)) + d
  BY <1>1, <1>2, <1>5
<1> QED
  BY <1>6 DEF d

\* ... and no old row behind it.
LEMMA BehindKept ==
  ASSUME NEW rows, Dated(rows), NEW fewer \in SUBSET rows, NEW wanted,
         wanted \cap (rows \ fewer) = {}, NEW k \in Nat
  PROVE  Cardinality(Behind(wanted, rows, k)) <= Cardinality(Behind(wanted, fewer, k))
<1>1. Dated(fewer)
  BY DatedSubset
<1>2. ASSUME NEW m \in Behind(wanted, rows, k)
      PROVE  m \in Behind(wanted, fewer, k)
  <2>1. m \in wanted /\ m \in fewer /\ m \in rows /\ Position(m, rows) < k
    BY DEF Behind
  <2>2. /\ Position(m, fewer) \in Nat /\ Position(m, rows) \in Nat
        /\ Position(m, fewer) <= Position(m, rows)
    BY <1>1, <2>1, PositionType, PositionShift
  <2> QED
    BY <2>1, <2>2 DEF Behind
<1> QED
  BY <1>1, <1>2, PotentialsFinite, FS_Subset

\* Rows removed let as many of the others slip behind the edge, at most, ...
LEMMA BehindGrows ==
  ASSUME NEW rows, Dated(rows), NEW fewer \in SUBSET rows, NEW wanted, NEW k \in Nat
  PROVE  Cardinality(Behind(wanted, fewer, k)) <=
           Cardinality(Behind(wanted, rows, k)) + Cardinality(rows \ fewer)
<1> DEFINE d == Cardinality(rows \ fewer)
           slipped == {m \in rows : Position(m, rows) >= k /\ Position(m, rows) < k + d}
<1>1. Dated(fewer) /\ d \in Nat
  BY DatedSubset
<1>2. IsFiniteSet(slipped) /\ Cardinality(slipped) <= d
  <2>1. /\ slipped \in SUBSET rows
        /\ \A m \in slipped : Position(m, rows) >= k /\ Position(m, rows) < k + d
    OBVIOUS
  <2> HIDE DEF slipped, d
  <2> QED
    BY <1>1, <2>1, RowsBetween
<1>3. ASSUME NEW m \in Behind(wanted, fewer, k)
      PROVE  m \in Behind(wanted, rows, k) \cup slipped
  <2>1. m \in wanted /\ m \in fewer /\ m \in rows /\ Position(m, fewer) < k
    BY DEF Behind
  <2>2. /\ Position(m, fewer) \in Nat /\ Position(m, rows) \in Nat
        /\ Position(m, rows) <= Position(m, fewer) + d
    BY <1>1, <2>1, PositionType, PositionShift
  <2>3. Position(m, rows) < k \/ (Position(m, rows) >= k /\ Position(m, rows) < k + d)
    BY <1>1, <2>1, <2>2
  <2> QED
    BY <2>1, <2>3 DEF Behind
<1>4. IsFiniteSet(Behind(wanted, rows, k))
  BY PotentialsFinite
<1> HIDE DEF d, slipped
<1>5. /\ Cardinality(Behind(wanted, fewer, k)) <=
           Cardinality(Behind(wanted, rows, k)) + Cardinality(slipped)
      /\ Cardinality(Behind(wanted, fewer, k)) \in Nat
      /\ Cardinality(Behind(wanted, rows, k)) \in Nat /\ Cardinality(slipped) \in Nat
  BY <1>2, <1>3, <1>4, CoveredBy
<1>6. Cardinality(Behind(wanted, fewer, k)) <= Cardinality(Behind(wanted, rows, k)) + d
  BY <1>1, <1>2, <1>5
<1> QED
  BY <1>6 DEF d

\* ... and push none ahead of it.
LEMMA AheadKept ==
  ASSUME NEW rows, Dated(rows), NEW fewer \in SUBSET rows, NEW given, NEW k \in Nat
  PROVE  Cardinality(Ahead(given, fewer, k)) <= Cardinality(Ahead(given, rows, k))
<1>1. Dated(fewer)
  BY DatedSubset
<1>2. ASSUME NEW m \in Ahead(given, fewer, k)
      PROVE  m \in Ahead(given, rows, k)
  <2>1. m \in given /\ m \in fewer /\ m \in rows /\ Position(m, fewer) >= k
    BY DEF Ahead
  <2>2. /\ Position(m, fewer) \in Nat /\ Position(m, rows) \in Nat
        /\ Position(m, fewer) <= Position(m, rows)
    BY <1>1, <2>1, PositionType, PositionShift
  <2> QED
    BY <2>1, <2>2 DEF Ahead
<1> QED
  BY <1>2, PotentialsFinite, FS_Subset

\* The rows that a page gives again are those that were ahead.
LEMMA PageRead ==
  ASSUME NEW rows, Dated(rows), NEW given, NEW k \in Nat, NEW size \in Nat,
         NEW shown \in SUBSET rows,
         \A m \in rows :
           m \in shown <=> Position(m, rows) >= k /\ Position(m, rows) < k + size
  PROVE  /\ IsFiniteSet(shown)
         /\ Cardinality(shown \cap given) + Cardinality(Ahead(given \cup shown, rows, k + size)) =
              Cardinality(Ahead(given, rows, k))
<1> DEFINE again == shown \cap given
           rest == Ahead(given \cup shown, rows, k + size)
<1>1. \A m \in rows : Position(m, rows) \in Nat
  BY PositionType
<1>2. again \cup rest = Ahead(given, rows, k) /\ again \cap rest = {}
  BY <1>1 DEF Ahead
<1>3. IsFiniteSet(shown) /\ IsFiniteSet(again) /\ IsFiniteSet(rest)
  BY FS_Subset DEF Dated, Ahead
<1> HIDE DEF again, rest
<1>4. /\ Cardinality(again \cup rest) =
           Cardinality(again) + Cardinality(rest) - Cardinality(again \cap rest)
      /\ Cardinality(again \cap rest) = 0
      /\ Cardinality(again) \in Nat /\ Cardinality(rest) \in Nat
  BY <1>2, <1>3, FS_Union, FS_EmptySet, FS_CardinalityType
<1>5. Cardinality(again \cup rest) = Cardinality(Ahead(given, rows, k))
  BY <1>2, Zenon
<1>6. Cardinality(again) + Cardinality(rest) = Cardinality(Ahead(given, rows, k))
  BY <1>4, <1>5
<1> QED
  BY <1>3, <1>6 DEF again, rest

----------------------------------------------------------------------------
(* Pages. *)

LEMMA OffsetType ==
  ASSUME NEW number \in Nat \ {0}, NEW size \in Nat
  PROVE  /\ Offset(number, size) \in Nat /\ Offset(number + 1, size) \in Nat
         /\ Offset(number + 1, size) = Offset(number, size) + size
         /\ Offset(number + 1, size) = number * size
BY DEF Offset

\* The last page ends where the rows do; there is no page more than rows.
LEMMA PagesEnough ==
  ASSUME NEW total \in Nat, NEW size \in Nat \ {0}
  PROVE  /\ Pages(total, size) \in Nat
         /\ Pages(total, size) <= total
         /\ total <= Pages(total, size) * size
<1>1. CASE total = 0
  BY <1>1 DEF Pages
<1>2. CASE total # 0
  <2> DEFINE pages == (total + size - 1) \div size
             left == (total + size - 1) % size
  <2>1. /\ pages \in Int /\ left \in 0..(size - 1)
        /\ total + size - 1 = pages * size + left
    OBVIOUS
  <2> HIDE DEF pages, left
  <2>2. pages * size = total + size - 1 - left
    BY <2>1
  <2>3. total <= pages * size /\ pages * size <= total + size - 1
    BY <2>1, <2>2
  <2>4. pages > 0
    BY <1>2, <2>1, <2>3
  <2>5. pages <= total
    <3>1. SUFFICES ASSUME pages >= total + 1 PROVE FALSE
      BY <2>1
    <3>2. pages * size >= (total + 1) * size
      BY <2>1, <3>1
    <3>3. total * size >= total
      OBVIOUS
    <3> QED
      BY <2>1, <2>3, <3>2, <3>3
  <2> QED
    BY <1>2, <2>1, <2>3, <2>4, <2>5 DEF Pages, pages
<1> QED
  BY <1>1, <1>2

----------------------------------------------------------------------------
(* The table of movements. *)

\* The row of stock_movements that the ledger records at i.
RowAt(p, i) ==
  [product |-> p, at |-> ledger[p][i].at, type |-> ledger[p][i].type,
   quantity |-> ledger[p][i].quantity]

LEMMA MovementsForm ==
  \A m : m \in Movements <=> \E p \in Products : \E i \in 1..Len(ledger[p]) : m = RowAt(p, i)
BY DEF Movements, RowAt

LEMMA MoveRecords ==
  ASSUME LedgerShape, RowsSound, NEW r \in Requests, NEW o \in Moves, Move(r, o),
         NEW new, new = [product |-> o.product, at |-> r, type |-> o.type,
                         quantity |-> o.quantity]
  PROVE  LedgerShape' /\ new \in Movement /\ Movements' = Movements \cup {new}
<1>1. /\ o \in [product : Products, type : MovementTypes, quantity : Quantities]
      /\ Record(o.product, r, o.type, o.quantity)
  BY ReadsAssumption DEF Move
<1>2. new \in Movement
  BY <1>1 DEF Movement
<1>3. PICK p \in Products : p = o.product
  BY <1>1
<1>4. PICK balance \in 0..MaxInt :
        /\ quantity' = [quantity EXCEPT ![p] = balance]
        /\ ledger' = [ledger EXCEPT ![p] =
             Append(ledger[p], [at |-> r, type |-> o.type, quantity |-> o.quantity,
                                balance_after |-> balance])]
  BY <1>1, <1>3 DEF Record, MovementRow
<1> DEFINE row == [at |-> r, type |-> o.type, quantity |-> o.quantity, balance_after |-> balance]
<1>5. /\ row \in LedgerRow /\ ledger[p] \in Seq(LedgerRow)
      /\ row.at = new.at /\ row.type = new.type /\ row.quantity = new.quantity
      /\ new = [product |-> p, at |-> row.at, type |-> row.type, quantity |-> row.quantity]
  BY <1>1, <1>3 DEF LedgerRow, LedgerShape
<1>6. ledger' = [ledger EXCEPT ![p] = Append(ledger[p], row)]
  BY <1>4
<1> HIDE DEF row
<1>7. LedgerShape'
  BY <1>4, <1>5, <1>6 DEF LedgerShape
<1>8. /\ ledger'[p] = Append(ledger[p], row) /\ Len(ledger[p]) \in Nat
      /\ \A q \in Products \ {p} : ledger'[q] = ledger[q]
  BY <1>5, <1>6 DEF LedgerShape
<1>9. /\ Len(ledger'[p]) = Len(ledger[p]) + 1
      /\ ledger'[p][Len(ledger[p]) + 1] = row
      /\ \A i \in 1..Len(ledger[p]) : ledger'[p][i] = ledger[p][i]
  BY <1>5, <1>8
<1>10. ASSUME NEW m
       PROVE  m \in Movements' <=> m \in Movements \/ m = new
  <2>1. ASSUME m \in Movements'
        PROVE  m \in Movements \/ m = new
    <3>1. PICK q \in Products : \E i \in 1..Len(ledger'[q]) :
            m = [product |-> q, at |-> ledger'[q][i].at, type |-> ledger'[q][i].type,
                 quantity |-> ledger'[q][i].quantity]
      BY <2>1 DEF Movements
    <3>2. PICK i \in 1..Len(ledger'[q]) :
            m = [product |-> q, at |-> ledger'[q][i].at, type |-> ledger'[q][i].type,
                 quantity |-> ledger'[q][i].quantity]
      BY <3>1
    <3>3. CASE q = p /\ i = Len(ledger[p]) + 1
      BY <1>5, <1>9, <3>2, <3>3
    <3>4. CASE q = p /\ i # Len(ledger[p]) + 1
      <4>1. i \in 1..Len(ledger[p]) /\ m = RowAt(p, i)
        BY <1>8, <1>9, <3>2, <3>4 DEF RowAt
      <4> QED
        BY <4>1, MovementsForm
    <3>5. CASE q # p
      <4>1. i \in 1..Len(ledger[q]) /\ m = RowAt(q, i)
        BY <1>8, <3>2, <3>5 DEF RowAt
      <4> QED
        BY <4>1, MovementsForm
    <3> QED
      BY <3>3, <3>4, <3>5
  <2>2. ASSUME m \in Movements
        PROVE  m \in Movements'
    <3>1. PICK q \in Products : \E i \in 1..Len(ledger[q]) : m = RowAt(q, i)
      BY <2>2, MovementsForm
    <3>2. PICK i \in 1..Len(ledger[q]) : m = RowAt(q, i)
      BY <3>1
    <3>3. i \in 1..Len(ledger'[q]) /\ ledger'[q][i] = ledger[q][i]
      BY <1>8, <1>9, <3>2
    <3> QED
      BY <3>2, <3>3 DEF Movements, RowAt
  <2>3. new \in Movements'
    <3>1. Len(ledger[p]) + 1 \in 1..Len(ledger'[p])
      BY <1>8, <1>9
    <3> QED
      BY <1>5, <1>9, <3>1 DEF Movements
  <2> QED
    BY <2>1, <2>2, <2>3
<1> QED
  BY <1>2, <1>7, <1>10

LEMMA DeleteRemoves ==
  ASSUME LedgerShape, NEW p \in Products, DeleteProduct(p)
  PROVE  LedgerShape' /\ Movements' \subseteq Movements
<1>1. /\ quantity' = [quantity EXCEPT ![p] = None]
      /\ ledger' = [ledger EXCEPT ![p] = <<>>]
  BY DEF DeleteProduct, Forget
<1>2. LedgerShape'
  BY <1>1 DEF LedgerShape
<1>3. /\ ledger'[p] = <<>> /\ Len(ledger'[p]) = 0
      /\ \A q \in Products \ {p} : ledger'[q] = ledger[q]
  BY <1>1 DEF LedgerShape
<1>4. ASSUME NEW m \in Movements'
      PROVE  m \in Movements
  <2>1. PICK q \in Products : \E i \in 1..Len(ledger'[q]) :
          m = [product |-> q, at |-> ledger'[q][i].at, type |-> ledger'[q][i].type,
               quantity |-> ledger'[q][i].quantity]
    BY <1>4 DEF Movements
  <2>2. q # p
    BY <1>3, <2>1
  <2> QED
    BY <1>3, <2>1, <2>2 DEF Movements
<1> QED
  BY <1>2, <1>4

----------------------------------------------------------------------------
(* The invariant. *)

\* What the potentials are about while the walk goes on.
LEMMA WalkTypes ==
  ASSUME ReadsInv, next # "idle"
  PROVE  /\ walk.filter \in Filters /\ walk.size \in Nat \ {0} /\ page \in Nat \ {0}
         /\ Dated(Matching(walk.filter)) /\ Matching(walk.filter) \subseteq Movements
         /\ Edge \in Nat
<1>1. walk.filter \in Filters /\ walk.size \in Nat \ {0} /\ page \in Nat \ {0}
  BY ReadsAssumption DEF ReadsInv, WalkShape
<1>2. Matching(walk.filter) \in SUBSET Movements
  BY DEF Matching
<1>3. Dated(Matching(walk.filter))
  BY <1>2, DatedSubset DEF ReadsInv, RowsSound
<1>4. Edge \in Nat
  BY <1>1, OffsetType DEF Edge
<1> QED
  BY <1>1, <1>2, <1>3, <1>4

LEMMA MoveStep ==
  ASSUME ReadsInv, NEW r \in Requests, NEW o \in Moves, Move(r, o)
  PROVE  ReadsInv'
<1> DEFINE new == [product |-> o.product, at |-> r, type |-> o.type, quantity |-> o.quantity]
<1>1. /\ r \notin used /\ used' = used \cup {r}
      /\ recorded' = recorded + Cardinality(Shown(Movements' \ Movements))
      /\ UNCHANGED <<walk, page, next, items, seen, repeated, before, removed>>
  BY DEF Move
<1>2. LedgerShape' /\ new \in Movement /\ Movements' = Movements \cup {new}
  BY MoveRecords DEF ReadsInv
<1>3. new.at = r
  OBVIOUS
<1> HIDE DEF new
<1>4. new \notin Movements \cup Given \cup before
  BY <1>1, <1>3 DEF ReadsInv, RowsSound
<1>5. /\ IsFiniteSet(used') /\ Cardinality(used') = Cardinality(used) + 1
      /\ IsFiniteSet(Movements') /\ Cardinality(Movements') = Cardinality(Movements) + 1
      /\ Cardinality(used) \in Nat /\ Cardinality(Movements) \in Nat
  BY <1>1, <1>2, <1>4, FS_AddElement, FS_CardinalityType DEF ReadsInv, RowsSound, Dated
<1>6. Dated(Movements')
  <2>1. \A m \in Movements : m.at # new.at
    BY <1>1, <1>3 DEF ReadsInv, RowsSound
  <2> QED
    BY <1>2, <1>3, <1>5, <2>1, ReadsAssumption DEF ReadsInv, RowsSound, Dated
<1>7. RowsSound'
  <2>1. Given' = Given
    BY <1>1 DEF Given
  <2>2. Dated(Movements)'
    BY <1>6 DEF Dated
  <2> QED
    BY <1>1, <1>2, <1>3, <1>5, <2>1, <2>2 DEF ReadsInv, RowsSound
<1> DEFINE rows == Matching(walk.filter)
           more == {m \in Movements' : Matches(m, walk.filter)}
           d == Cardinality(more \ rows)
<1>8. ASSUME Walking
      PROVE  /\ Dated(more) /\ rows \in SUBSET more /\ d \in Nat
             /\ recorded' = recorded + d
             /\ Given \cap (more \ rows) = {} /\ before \cap (more \ rows) = {}
  <2>1. rows \in SUBSET more /\ more \in SUBSET Movements'
    BY <1>2 DEF Matching
  <2>2. Dated(more) /\ d \in Nat
    BY <1>6, <2>1, DatedSubset
  <2>3. Shown(Movements' \ Movements) = more \ rows
    BY <1>8 DEF Shown, Matching
  <2>4. more \ rows \subseteq {new}
    BY <1>2 DEF Matching
  <2>5. recorded' = recorded + d
    BY <1>1, <2>3
  <2> QED
    BY <1>4, <2>1, <2>2, <2>4, <2>5
<1> HIDE DEF d
<1>9. /\ recorded' \in Nat
      /\ ~Walking => recorded' = recorded
  <2>1. CASE Walking
    BY <1>8, <2>1 DEF ReadsInv, WalkShape
  <2>2. CASE ~Walking
    <3>1. Shown(Movements' \ Movements) = {}
      BY <2>2 DEF Shown
    <3>2. Cardinality(Shown(Movements' \ Movements)) = 0
      BY <3>1, FS_EmptySet, Zenon
    <3>3. recorded' = recorded /\ recorded \in Nat
      BY <1>1, <3>2 DEF ReadsInv, WalkShape
    <3> QED
      BY <2>2, <3>3
  <2> QED
    BY <2>1, <2>2
<1>10. WalkShape'
  BY <1>1, <1>5, <1>9 DEF ReadsInv, WalkShape, Walking
<1>11. ASSUME Walking
       PROVE  /\ repeated + Cardinality(items \cap seen) +
                   Cardinality(Ahead(Given, more, Edge)) <= recorded'
              /\ Cardinality(Behind(before \ Given, more, Edge)) <= removed
  <2>1. Edge \in Nat /\ Dated(rows)
    BY <1>11, WalkTypes DEF Walking
  <2>2. Cardinality(Ahead(Given, more, Edge)) <= Cardinality(Ahead(Given, rows, Edge)) + d
    BY <1>8, <1>11, <2>1, AheadGrows DEF d
  <2>3. Cardinality(Behind(before \ Given, more, Edge)) <=
          Cardinality(Behind(before \ Given, rows, Edge))
    <3>1. (before \ Given) \cap (more \ rows) = {}
      BY <1>8, <1>11
    <3> QED
      BY <1>8, <1>11, <2>1, <3>1, BehindKept
  <2>4. /\ Cardinality(Ahead(Given, more, Edge)) \in Nat
        /\ Cardinality(Ahead(Given, rows, Edge)) \in Nat
        /\ Cardinality(Behind(before \ Given, more, Edge)) \in Nat
        /\ Cardinality(Behind(before \ Given, rows, Edge)) \in Nat
    BY <1>8, <1>11, <2>1, PotentialsFinite
  <2>5. Cardinality(items \cap seen) \in Nat
    <3>1. IsFiniteSet(items \cap seen)
      BY FS_Subset DEF ReadsInv, WalkSound, Given
    <3> QED
      BY <3>1, FS_CardinalityType
  <2>6. /\ repeated + Cardinality(items \cap seen) + Cardinality(Ahead(Given, rows, Edge))
             <= recorded
        /\ Cardinality(Behind(before \ Given, rows, Edge)) <= removed
        /\ repeated \in Nat /\ recorded \in Nat /\ removed \in Nat
    BY <1>11 DEF ReadsInv, WalkSound, WalkShape
  <2> HIDE DEF rows, more
  <2> QED
    BY <1>8, <1>11, <2>2, <2>3, <2>4, <2>5, <2>6
<1>12. WalkSound'
  <2>1. Given' = Given /\ Edge' = Edge /\ (Walking' <=> Walking)
    BY <1>1 DEF Given, Edge, Walking
  <2>2. Matching(walk.filter)' = more
    BY <1>1 DEF Matching
  <2>3. before' \cap Movements' = before \cap Movements
    BY <1>1, <1>2, <1>4
  <2> HIDE DEF more, rows
  <2>4. IsFiniteSet(Given') /\ IsFiniteSet(before')
    BY <1>1, <2>1 DEF ReadsInv, WalkSound
  <2>5. ASSUME Walking
        PROVE  /\ \A m \in before' : Matches(m, walk'.filter)
               /\ repeated' + Cardinality(items' \cap seen') +
                    Cardinality(Ahead(Given', Matching(walk.filter)', Edge')) <= recorded'
               /\ Cardinality(Behind(before' \ Given', Matching(walk.filter)', Edge')) <= removed'
    BY <1>1, <1>11, <2>1, <2>2, <2>5 DEF ReadsInv, WalkSound
  <2>6. ASSUME next = "done"
        PROVE  /\ repeated' <= recorded'
               /\ Cardinality((before' \cap Movements') \ seen') <= removed'
    BY <1>1, <1>9, <2>3, <2>6 DEF ReadsInv, WalkSound, Walking
  <2> QED
    BY <1>1, <2>1, <2>4, <2>5, <2>6 DEF WalkSound
<1> QED
  BY <1>2, <1>7, <1>10, <1>12 DEF ReadsInv

LEMMA DeleteStep ==
  ASSUME ReadsInv, NEW p \in Products, DeleteProduct(p)
  PROVE  ReadsInv'
<1>1. /\ removed' = removed + Cardinality(Shown(Movements \ Movements'))
      /\ UNCHANGED <<used, walk, page, next, items, seen, repeated, before, recorded>>
  BY DEF DeleteProduct
<1>2. LedgerShape' /\ Movements' \in SUBSET Movements
  BY DeleteRemoves DEF ReadsInv
<1>3. /\ Dated(Movements') /\ Cardinality(Movements') <= Cardinality(Movements)
      /\ Cardinality(Movements') \in Nat /\ Cardinality(Movements) \in Nat
      /\ Cardinality(used) \in Nat
  BY <1>2, DatedSubset, FS_Subset, FS_CardinalityType DEF ReadsInv, RowsSound, Dated
<1>4. RowsSound'
  <2>1. Given' = Given
    BY <1>1 DEF Given
  <2>2. Dated(Movements)'
    BY <1>3 DEF Dated
  <2> QED
    BY <1>1, <1>2, <1>3, <2>1, <2>2 DEF ReadsInv, RowsSound
<1> DEFINE rows == Matching(walk.filter)
           fewer == {m \in Movements' : Matches(m, walk.filter)}
           d == Cardinality(rows \ fewer)
<1>5. ASSUME Walking
      PROVE  Dated(rows) /\ fewer \in SUBSET rows /\ d \in Nat /\ removed' = removed + d
  <2>1. Dated(rows) /\ fewer \in SUBSET rows
    BY <1>2, <1>5, WalkTypes DEF Matching, Walking
  <2>2. d \in Nat
    BY <2>1, DatedSubset
  <2>3. Shown(Movements \ Movements') = rows \ fewer
    BY <1>5 DEF Shown, Matching
  <2>4. removed' = removed + d
    BY <1>1, <2>3
  <2> QED
    BY <2>1, <2>2, <2>4
<1> HIDE DEF d
<1>6. /\ removed' \in Nat
      /\ ~Walking => removed' = removed
  <2>1. CASE Walking
    BY <1>5, <2>1 DEF ReadsInv, WalkShape
  <2>2. CASE ~Walking
    <3>1. Shown(Movements \ Movements') = {}
      BY <2>2 DEF Shown
    <3>2. Cardinality(Shown(Movements \ Movements')) = 0
      BY <3>1, FS_EmptySet, Zenon
    <3>3. removed' = removed /\ removed \in Nat
      BY <1>1, <3>2 DEF ReadsInv, WalkShape
    <3> QED
      BY <2>2, <3>3
  <2> QED
    BY <2>1, <2>2
<1>7. WalkShape'
  BY <1>1, <1>6 DEF ReadsInv, WalkShape, Walking
<1>8. ASSUME Walking
      PROVE  /\ repeated + Cardinality(items \cap seen) +
                  Cardinality(Ahead(Given, fewer, Edge)) <= recorded
             /\ Cardinality(Behind(before \ Given, fewer, Edge)) <= removed'
  <2>1. Edge \in Nat /\ Dated(fewer)
    BY <1>5, <1>8, WalkTypes, DatedSubset DEF Walking
  <2>2. Cardinality(Ahead(Given, fewer, Edge)) <= Cardinality(Ahead(Given, rows, Edge))
    BY <1>5, <1>8, <2>1, AheadKept
  <2>3. Cardinality(Behind(before \ Given, fewer, Edge)) <=
          Cardinality(Behind(before \ Given, rows, Edge)) + d
    BY <1>5, <1>8, <2>1, BehindGrows DEF d
  <2>4. /\ Cardinality(Ahead(Given, fewer, Edge)) \in Nat
        /\ Cardinality(Ahead(Given, rows, Edge)) \in Nat
        /\ Cardinality(Behind(before \ Given, fewer, Edge)) \in Nat
        /\ Cardinality(Behind(before \ Given, rows, Edge)) \in Nat
    BY <1>5, <1>8, <2>1, PotentialsFinite
  <2>5. Cardinality(items \cap seen) \in Nat
    <3>1. IsFiniteSet(items \cap seen)
      BY FS_Subset DEF ReadsInv, WalkSound, Given
    <3> QED
      BY <3>1, FS_CardinalityType
  <2>6. /\ repeated + Cardinality(items \cap seen) + Cardinality(Ahead(Given, rows, Edge))
             <= recorded
        /\ Cardinality(Behind(before \ Given, rows, Edge)) <= removed
        /\ repeated \in Nat /\ recorded \in Nat /\ removed \in Nat
    BY <1>8 DEF ReadsInv, WalkSound, WalkShape
  <2> HIDE DEF rows, fewer
  <2> QED
    BY <1>5, <1>8, <2>2, <2>3, <2>4, <2>5, <2>6
<1>9. WalkSound'
  <2>1. Given' = Given /\ Edge' = Edge /\ (Walking' <=> Walking)
    BY <1>1 DEF Given, Edge, Walking
  <2>2. Matching(walk.filter)' = fewer
    BY <1>1 DEF Matching
  <2>3. IsFiniteSet(Given') /\ IsFiniteSet(before')
    BY <1>1, <2>1 DEF ReadsInv, WalkSound
  <2>4. ASSUME Walking
        PROVE  /\ \A m \in before' : Matches(m, walk'.filter)
               /\ repeated' + Cardinality(items' \cap seen') +
                    Cardinality(Ahead(Given', Matching(walk.filter)', Edge')) <= recorded'
               /\ Cardinality(Behind(before' \ Given', Matching(walk.filter)', Edge')) <= removed'
    <3> HIDE DEF fewer
    <3> QED
      BY <1>1, <1>8, <2>1, <2>2, <2>4 DEF ReadsInv, WalkSound
  <2>5. ASSUME next = "done"
        PROVE  /\ repeated' <= recorded'
               /\ Cardinality((before' \cap Movements') \ seen') <= removed'
    <3> DEFINE missed == (before \cap Movements) \ seen
               still == (before \cap Movements') \ seen
    <3>1. IsFiniteSet(missed) /\ still \in SUBSET missed
      BY <1>2, FS_Subset DEF ReadsInv, WalkSound
    <3>2. /\ Cardinality(still) <= Cardinality(missed)
          /\ Cardinality(still) \in Nat /\ Cardinality(missed) \in Nat
      BY <3>1, FS_Subset, FS_CardinalityType
    <3>3. Cardinality(missed) <= removed /\ repeated <= recorded /\ removed' = removed
          /\ removed \in Nat
      BY <1>6, <2>5 DEF ReadsInv, WalkSound, WalkShape, Walking
    <3>4. Cardinality(still) <= removed'
      <4> HIDE DEF still, missed
      <4> QED
        BY <3>2, <3>3
    <3> QED
      BY <1>1, <3>3, <3>4
  <2> QED
    BY <1>1, <2>1, <2>3, <2>4, <2>5 DEF WalkSound
<1> QED
  BY <1>2, <1>4, <1>7, <1>9 DEF ReadsInv

\* A step of the client changes no row.
LEMMA ClientStep ==
  ASSUME ReadsInv, UNCHANGED <<quantity, ledger, used>>, WalkShape', WalkSound',
         (seen \cup items \cup before)' \subseteq Given \cup before \cup Movements
  PROVE  ReadsInv'
<1>1. Movements' = Movements
  BY DEF Movements
<1>2. Dated(Movements)'
  BY <1>1 DEF Dated, ReadsInv, RowsSound
<1> QED
  BY <1>1, <1>2 DEF ReadsInv, RowsSound, LedgerShape, Given

LEMMA BeginStep ==
  ASSUME ReadsInv, NEW filter \in Filters, NEW size \in Sizes, Begin(filter, size)
  PROVE  ReadsInv'
<1>1. /\ next = "idle" /\ next' = "items" /\ page' = 1
      /\ walk' = [filter |-> filter, size |-> size] /\ before' = Matching(filter)
      /\ UNCHANGED <<quantity, ledger, used, items, seen, repeated, recorded, removed>>
  BY DEF Begin
<1>2. /\ items = {} /\ seen = {} /\ Given' = {}
      /\ repeated = 0 /\ recorded = 0 /\ removed = 0
  BY <1>1 DEF ReadsInv, WalkShape, Given
<1>3. Matching(filter) \in SUBSET Movements /\ Matching(walk.filter)' = Matching(filter)
  BY <1>1 DEF Matching, Movements
<1>4. Dated(Matching(filter))
  BY <1>3, DatedSubset DEF ReadsInv, RowsSound
<1>5. WalkShape'
  BY <1>1, <1>2 DEF WalkShape, Walking
<1>6. Edge' = 0
  BY <1>1, ReadsAssumption DEF Edge, Offset
<1>7. /\ Ahead({}, Matching(filter), 0) = {}
      /\ Behind(Matching(filter), Matching(filter), 0) = {}
  BY <1>4, PositionType DEF Ahead, Behind
<1>8. /\ Cardinality(Ahead({}, Matching(filter), 0)) = 0
      /\ Cardinality(Behind(Matching(filter), Matching(filter), 0)) = 0
  BY <1>7, FS_EmptySet, Zenon
<1>9. WalkSound'
  <2>1. IsFiniteSet(Given') /\ IsFiniteSet(before')
    BY <1>1, <1>2, <1>4, FS_EmptySet DEF Dated
  <2>2. \A m \in before' : Matches(m, walk'.filter)
    BY <1>1 DEF Matching
  <2>3. Ahead(Given', Matching(walk.filter)', Edge') = Ahead({}, Matching(filter), 0)
    BY <1>2, <1>3, <1>6, Zenon
  <2>4. before' \ Given' = Matching(filter)
    BY <1>1, <1>2
  <2>5. Behind(before' \ Given', Matching(walk.filter)', Edge') =
          Behind(Matching(filter), Matching(filter), 0)
    BY <1>3, <1>6, <2>4, Zenon
  <2>6. Cardinality(items' \cap seen') = 0
    <3>1. items' \cap seen' = {}
      BY <1>1, <1>2
    <3> QED
      BY <3>1, FS_EmptySet, Zenon
  <2>7. /\ repeated' + Cardinality(items' \cap seen') +
             Cardinality(Ahead(Given', Matching(walk.filter)', Edge')) <= recorded'
        /\ Cardinality(Behind(before' \ Given', Matching(walk.filter)', Edge')) <= removed'
    BY <1>1, <1>2, <1>8, <2>3, <2>5, <2>6
  <2> QED
    BY <1>1, <2>1, <2>2, <2>7 DEF WalkSound
<1> QED
  BY <1>1, <1>2, <1>3, <1>5, <1>9, ClientStep

LEMMA ReadItemsStep ==
  ASSUME ReadsInv, ReadItems
  PROVE  ReadsInv'
<1> DEFINE rows == Matching(walk.filter)
           k == Offset(page, walk.size)
           shown == ListHistory(walk.filter, page, walk.size)
<1>1. /\ next = "items" /\ next' = "count" /\ items' = shown
      /\ UNCHANGED <<quantity, ledger, used, walk, page, seen, repeated, before, recorded, removed>>
  BY DEF ReadItems
<1>2. /\ Dated(rows) /\ rows \subseteq Movements /\ page \in Nat \ {0} /\ walk.size \in Nat
      /\ items = {} /\ Given = seen /\ Edge = k /\ Walking
  BY <1>1, WalkTypes DEF ReadsInv, WalkShape, Given, Edge, Walking
<1>3. /\ Given' = seen \cup shown /\ Edge' = k + walk.size /\ k \in Nat
      /\ Matching(walk.filter)' = rows
  <2>1. Given' = seen \cup shown /\ Matching(walk.filter)' = rows
    BY <1>1 DEF Given, Matching, Movements
  <2>2. Edge' = Offset(page + 1, walk.size)
    BY <1>1 DEF Edge
  <2> QED
    BY <1>2, <2>1, <2>2, OffsetType
<1>4. /\ shown \in SUBSET rows
      /\ \A m \in rows :
           m \in shown <=> Position(m, rows) >= k /\ Position(m, rows) < k + walk.size
  <2>1. shown = {m \in rows : Position(m, rows) \in k..(k + walk.size - 1)}
    BY DEF ListHistory, Limit
  <2>2. \A m \in rows : Position(m, rows) \in Nat
    BY <1>2, PositionType
  <2> HIDE DEF rows, k, shown
  <2> QED
    BY <1>2, <1>3, <2>1, <2>2
<1>5. WalkShape'
  BY <1>1 DEF ReadsInv, WalkShape, Walking
<1> HIDE DEF rows, k, shown
<1>6. /\ IsFiniteSet(shown)
      /\ Cardinality(shown \cap seen) + Cardinality(Ahead(seen \cup shown, rows, k + walk.size)) =
           Cardinality(Ahead(seen, rows, k))
      /\ Behind(before \ (seen \cup shown), rows, k + walk.size) = Behind(before \ seen, rows, k)
  <2>1. Dated(rows) /\ k \in Nat /\ walk.size \in Nat
    BY <1>2, <1>3
  <2>2. /\ IsFiniteSet(shown)
        /\ Cardinality(shown \cap seen) + Cardinality(Ahead(seen \cup shown, rows, k + walk.size)) =
             Cardinality(Ahead(seen, rows, k))
    BY <1>4, <2>1, PageRead
  <2>3. Behind(before \ (seen \cup shown), rows, k + walk.size) = Behind(before \ seen, rows, k)
    <3>1. \A m \in rows : Position(m, rows) \in Nat
      BY <2>1, PositionType
    <3> QED
      BY <1>4, <2>1, <3>1 DEF Behind
  <2> QED
    BY <2>2, <2>3
<1>7. WalkSound'
  <2>1. IsFiniteSet(Given') /\ IsFiniteSet(before')
    BY <1>1, <1>2, <1>3, <1>6, FS_Union DEF ReadsInv, WalkSound
  <2>2. /\ repeated + Cardinality(items \cap seen) + Cardinality(Ahead(seen, rows, k)) <= recorded
        /\ Cardinality(Behind(before \ seen, rows, k)) <= removed
        /\ \A m \in before : Matches(m, walk.filter)
    BY <1>2 DEF ReadsInv, WalkSound, rows
  <2>3. Cardinality(items \cap seen) = 0
    <3>1. items \cap seen = {}
      BY <1>2
    <3> QED
      BY <3>1, FS_EmptySet, Zenon
  <2>4. /\ repeated \in Nat /\ Cardinality(shown \cap seen) \in Nat
        /\ Cardinality(Ahead(seen \cup shown, rows, k + walk.size)) \in Nat
    <3>1. IsFiniteSet(shown \cap seen) /\ k + walk.size \in Nat
      BY <1>2, <1>3, <1>6, FS_Subset
    <3> QED
      BY <1>2, <3>1, FS_CardinalityType, PotentialsFinite DEF ReadsInv, WalkShape
  <2>5. repeated + Cardinality(shown \cap seen) +
          Cardinality(Ahead(seen \cup shown, rows, k + walk.size)) <= recorded
    BY <1>6, <2>2, <2>3, <2>4
  <2>6. Cardinality(Behind(before \ (seen \cup shown), rows, k + walk.size)) <= removed
    BY <1>6, <2>2
  <2> QED
    BY <1>1, <1>3, <2>1, <2>2, <2>5, <2>6 DEF WalkSound
<1> QED
  BY <1>1, <1>2, <1>4, <1>5, <1>7, ClientStep

LEMMA ReadCountStep ==
  ASSUME ReadsInv, ReadCount
  PROVE  ReadsInv'
<1> DEFINE rows == Matching(walk.filter)
           total == Cardinality(rows)
           pages == Pages(total, walk.size)
<1>1. /\ next = "count" /\ seen' = seen \cup items /\ items' = {} /\ page' = page + 1
      /\ repeated' = repeated + Cardinality(items \cap seen)
      /\ next' = IF page < pages THEN "items" ELSE "done"
      /\ UNCHANGED <<quantity, ledger, used, walk, before, recorded, removed>>
  BY DEF ReadCount, CountHistory
<1>2. /\ Dated(rows) /\ rows \in SUBSET Movements /\ page \in Nat \ {0}
      /\ walk.size \in Nat \ {0} /\ Walking /\ Edge \in Nat
      /\ Edge = Offset(page + 1, walk.size)
  BY <1>1, WalkTypes DEF Edge, Walking
<1>3. total \in Nat /\ total <= Cardinality(used) /\ Cardinality(used) \in Nat
  <2>1. /\ IsFiniteSet(Movements) /\ IsFiniteSet(used) /\ IsFiniteSet(rows)
        /\ Cardinality(Movements) <= Cardinality(used)
    BY <1>2 DEF ReadsInv, RowsSound, Dated
  <2>2. /\ Cardinality(rows) <= Cardinality(Movements)
        /\ Cardinality(rows) \in Nat /\ Cardinality(Movements) \in Nat
        /\ Cardinality(used) \in Nat
    BY <1>2, <2>1, FS_Subset, FS_CardinalityType
  <2> QED
    BY <2>1, <2>2
<1>4. /\ Given' = Given /\ (next' = "items" => Edge' = Edge)
      /\ Matching(walk.filter)' = rows /\ Movements' = Movements
  BY <1>1, <1>2 DEF Given, Edge, Matching, Movements
<1> HIDE DEF total
<1>5. pages \in Nat /\ pages <= total /\ total <= pages * walk.size
  BY <1>2, <1>3, PagesEnough
<1> HIDE DEF pages
<1>6. Cardinality(items \cap seen) \in Nat /\ Cardinality(Ahead(Given, rows, Edge)) \in Nat
  <2>1. IsFiniteSet(items \cap seen)
    BY FS_Subset DEF ReadsInv, WalkSound, Given
  <2> QED
    BY <1>2, <2>1, FS_CardinalityType, PotentialsFinite
<1>7. WalkShape'
  BY <1>1, <1>2, <1>3, <1>5, <1>6 DEF ReadsInv, WalkShape, Walking
<1>8. /\ repeated + Cardinality(items \cap seen) + Cardinality(Ahead(Given, rows, Edge)) <= recorded
      /\ Cardinality(Behind(before \ Given, rows, Edge)) <= removed
      /\ \A m \in before : Matches(m, walk.filter)
      /\ repeated \in Nat /\ recorded \in Nat
  BY <1>2 DEF ReadsInv, WalkSound, WalkShape
<1>9. WalkSound'
  <2>1. IsFiniteSet(Given') /\ IsFiniteSet(before')
    BY <1>1, <1>4 DEF ReadsInv, WalkSound
  <2>2. ASSUME next' = "items"
        PROVE  /\ repeated' + Cardinality(items' \cap seen') +
                    Cardinality(Ahead(Given', Matching(walk.filter)', Edge')) <= recorded'
               /\ Cardinality(Behind(before' \ Given', Matching(walk.filter)', Edge')) <= removed'
    <3>1. Cardinality(items' \cap seen') = 0
      <4>1. items' \cap seen' = {}
        BY <1>1
      <4> QED
        BY <4>1, FS_EmptySet, Zenon
    <3>2. Edge' = Edge
      BY <1>4, <2>2
    <3> HIDE DEF rows
    <3> QED
      BY <1>1, <1>4, <1>6, <1>8, <3>1, <3>2
  <2>3. ASSUME next' = "done"
        PROVE  /\ repeated' <= recorded'
               /\ Cardinality((before' \cap Movements') \ seen') <= removed'
    <3>1. repeated' <= recorded'
      BY <1>1, <1>6, <1>8
    <3>2. total <= Edge
      <4>1. page >= pages
        BY <1>1, <1>2, <1>5, <2>3
      <4>2. pages * walk.size <= page * walk.size
        BY <1>2, <1>5, <4>1
      <4>3. Edge = page * walk.size
        BY <1>2, OffsetType
      <4>4. pages * walk.size \in Nat /\ page * walk.size \in Nat
        BY <1>2, <1>5
      <4> QED
        BY <1>3, <1>5, <4>2, <4>3, <4>4
    <3>3. \A m \in rows : Position(m, rows) < Edge
      <4>1. \A m \in rows : Position(m, rows) \in Nat /\ Position(m, rows) < total
        BY <1>2, PositionType DEF total
      <4> QED
        BY <1>2, <1>3, <3>2, <4>1
    <3>4. before \cap Movements \subseteq rows /\ rows \subseteq Movements
      BY <1>2, <1>8 DEF Matching
    <3>5. (before' \cap Movements') \ seen' = Behind(before \ Given, rows, Edge)
      BY <1>1, <1>4, <3>3, <3>4 DEF Behind, Given
    <3> HIDE DEF rows
    <3> QED
      BY <1>1, <1>8, <3>1, <3>5
  <2>4. next' \in {"items", "done"} /\ \A m \in before' : Matches(m, walk'.filter)
    BY <1>1, <1>8
  <2> QED
    BY <2>1, <2>2, <2>3, <2>4 DEF WalkSound, Walking
<1>10. (seen \cup items \cup before)' \subseteq Given \cup before
  BY <1>1 DEF Given
<1> QED
  BY <1>1, <1>7, <1>9, <1>10, ClientStep

LEMMA EndStep ==
  ASSUME ReadsInv, End
  PROVE  ReadsInv'
<1>1. /\ next' = "idle" /\ walk' = None /\ page' = 0 /\ items' = {} /\ seen' = {}
      /\ repeated' = 0 /\ before' = {} /\ recorded' = 0 /\ removed' = 0
      /\ UNCHANGED <<quantity, ledger, used>>
  BY DEF End, Rest
<1>2. WalkShape'
  BY <1>1 DEF WalkShape, Walking
<1>3. WalkSound'
  BY <1>1, FS_EmptySet DEF WalkSound, Walking, Given
<1> QED
  BY <1>1, <1>2, <1>3, ClientStep

LEMMA NextReads == ReadsInv /\ [Next]_vars => ReadsInv'
<1> SUFFICES ASSUME ReadsInv, [Next]_vars PROVE ReadsInv'
  OBVIOUS
<1>1. CASE UNCHANGED vars
  <2>1. /\ UNCHANGED <<quantity, ledger, used>>
        /\ UNCHANGED <<walk, page, next, items, seen, repeated, before, recorded, removed>>
    BY <1>1 DEF vars, walkVars
  <2>2. Movements' = Movements /\ Edge' = Edge /\ Given' = Given
        /\ Matching(walk.filter)' = Matching(walk.filter)
    BY <2>1 DEF Movements, Edge, Given, Matching
  <2>3. WalkShape'
    BY <2>1 DEF ReadsInv, WalkShape, Walking
  <2>4. WalkSound'
    BY <2>1, <2>2 DEF ReadsInv, WalkSound, Walking
  <2> QED
    BY <2>1, <2>3, <2>4, ClientStep DEF Given
<1> QED
  BY <1>1, MoveStep, DeleteStep, BeginStep, ReadItemsStep, ReadCountStep, EndStep DEF Next

LEMMA InitReads == Init => ReadsInv
<1> SUFFICES ASSUME Init PROVE ReadsInv
  OBVIOUS
<1>1. /\ next = "idle" /\ walk = None /\ page = 0 /\ items = {} /\ seen = {}
      /\ repeated = 0 /\ before = {} /\ recorded = 0 /\ removed = 0 /\ used = {}
      /\ quantity = [p \in Products |-> 0] /\ ledger = [p \in Products |-> <<>>]
  BY DEF Init, LedgerInit
<1>2. LedgerShape
  BY <1>1, ReadsAssumption DEF LedgerShape
<1>3. Movements = {}
  <2>1. \A p \in Products : Len(ledger[p]) = 0
    BY <1>1
  <2> QED
    BY <2>1 DEF Movements
<1>4. RowsSound
  BY <1>1, <1>3, FS_EmptySet DEF RowsSound, Dated, Given
<1>5. WalkShape
  BY <1>1 DEF WalkShape, Walking
<1>6. WalkSound
  BY <1>1, FS_EmptySet DEF WalkSound, Walking, Given
<1> QED
  BY <1>2, <1>4, <1>5, <1>6 DEF ReadsInv

THEOREM ReadsInvariant == Spec => []ReadsInv
BY InitReads, NextReads, PTL DEF Spec

----------------------------------------------------------------------------
(* The theorems. *)

\* Every variable keeps its shape, and a walk asks for no page past the rows
\* there ever were, its first one excepted: Page.create counts no page that
\* has no row.
THEOREM ReadsTypeCorrect == Spec => []ReadsTypeOK
<1>1. ReadsInv => ReadsTypeOK
  <2> SUFFICES ASSUME ReadsInv PROVE ReadsTypeOK
    OBVIOUS
  <2>1. /\ quantity \in [Products -> 0..MaxInt \cup {None}] /\ used \subseteq Requests
        /\ next \in {"idle", "items", "count", "done"}
        /\ repeated \in Nat /\ recorded \in Nat /\ removed \in Nat
        /\ Given \cup before \subseteq Movement
    BY DEF ReadsInv, LedgerShape, RowsSound, WalkShape
  <2>2. walk \in [filter : Filters, size : Sizes] \cup {None}
    BY DEF ReadsInv, WalkShape
  <2>3. Cardinality(used) \in Nat
    BY FS_CardinalityType DEF ReadsInv, RowsSound
  <2>4. page \in 0..2 \cup 0..(Cardinality(used) + 1)
    BY <2>3 DEF ReadsInv, WalkShape, Walking
  <2> QED
    BY <2>1, <2>2, <2>4 DEF ReadsTypeOK, Movement, Given
<1> QED
  BY <1>1, ReadsInvariant, PTL

\* Whatever is committed or deleted under it, in whatever order of
\* created_at, a walk through the pages of list_history is given a row again
\* at most once for each matching row committed since it began.
THEOREM RepeatsBounded == Spec => []WalkRepeatsNoMore
<1>1. ReadsInv => WalkRepeatsNoMore
  <2> SUFFICES ASSUME ReadsInv PROVE WalkRepeatsNoMore
    OBVIOUS
  <2>1. CASE Walking
    <3>1. /\ repeated + Cardinality(items \cap seen) +
               Cardinality(Ahead(Given, Matching(walk.filter), Edge)) <= recorded
          /\ repeated \in Nat /\ recorded \in Nat
      BY <2>1 DEF ReadsInv, WalkSound, WalkShape
    <3>2. /\ Cardinality(items \cap seen) \in Nat
          /\ Cardinality(Ahead(Given, Matching(walk.filter), Edge)) \in Nat
      <4>1. IsFiniteSet(items \cap seen)
        BY FS_Subset DEF ReadsInv, WalkSound, Given
      <4> QED
        BY <2>1, <4>1, WalkTypes, FS_CardinalityType, PotentialsFinite DEF Walking
    <3> QED
      BY <3>1, <3>2 DEF WalkRepeatsNoMore
  <2>2. CASE ~Walking
    BY <2>2 DEF ReadsInv, WalkSound, WalkShape, WalkRepeatsNoMore, Walking
  <2> QED
    BY <2>1, <2>2
<1> QED
  BY <1>1, ReadsInvariant, PTL

\* A walk that has ended missed no more of the rows that were there from its
\* beginning than rows were deleted under it: new movements make it miss
\* none, history reading a page's items before the total that ends the walk.
THEOREM MissesBounded == Spec => []WalkMissesNoMore
<1>1. ReadsInv => WalkMissesNoMore
  BY DEF ReadsInv, WalkSound, WalkMissesNoMore
<1> QED
  BY <1>1, ReadsInvariant, PTL
=============================================================================
