----------------------------- MODULE ReportProofs -----------------------------
(***************************************************************************)
(* Proofs about the figures of the reports: for any products, movements    *)
(* and filters, the report of movements counts what the history lists, and *)
(* what came in less what went out is the stock that the valuation sums.   *)
(* They rest on a theory of finite sums: what a SUM(...) is, whatever the  *)
(* order in which the rows are added.                                      *)
(***************************************************************************)
EXTENDS ReadsProofs, WellFoundedInduction

----------------------------------------------------------------------------
(* Sums.  The set that an induction over subsets speaks of stands for the  *)
(* property that it proves.                                                *)

\* A set of finite sets that grows from proper subsets has every one.
LEMMA SubsetInduction ==
  ASSUME NEW S, IsFiniteSet(S), NEW G,
         \A T \in SUBSET S : (\A U \in SUBSET T : U # T => U \in G) => T \in G
  PROVE  S \in G
<1> DEFINE R == StrictSubsetOrdering(S)
           Bad == FiniteSubsetsOf(S) \ G
<1>1. IsWellFoundedOn(R, FiniteSubsetsOf(S))
  BY FS_StrictSubsetOrderingWellFounded
<1>2. SUFFICES ASSUME Bad # {}
               PROVE  FALSE
  BY DEF FiniteSubsetsOf
<1>3. PICK T \in Bad : \A U \in Bad : ~ (<<U, T>> \in R)
  <2>1. Bad \subseteq FiniteSubsetsOf(S)
    OBVIOUS
  <2> HIDE DEF R, Bad
  <2> QED
    BY <1>1, <1>2, <2>1, WFMin
<1>4. \A U \in SUBSET T : U # T => U \in G
  <2> SUFFICES ASSUME NEW U \in SUBSET T, U # T
               PROVE  U \in G
    OBVIOUS
  <2>1. U \in FiniteSubsetsOf(S)
    BY <1>3, FS_Subset DEF FiniteSubsetsOf
  <2>2. <<U, T>> \in R
    BY <1>3, <2>1 DEF StrictSubsetOrdering, FiniteSubsetsOf
  <2> QED
    BY <1>3, <2>1, <2>2
<1> QED
  BY <1>3, <1>4 DEF FiniteSubsetsOf

Adds(f, fun, S) ==
  f = [T \in SUBSET S |->
         IF T = {} THEN 0
         ELSE fun[CHOOSE x \in T : TRUE] + f[T \ {CHOOSE x \in T : TRUE}]]

LEMMA SumForm ==
  ASSUME NEW fun, NEW S
  PROVE  SumFunctionOnSet(fun, S) = (CHOOSE f : Adds(f, fun, S))[S]
BY DEF SumFunctionOnSet, FoldFunctionOnSet, MapThenFoldSet, Adds

\* What a summing function is at a set and at those below it.
LEMMA AddsAt ==
  ASSUME NEW f, NEW fun, NEW S, Adds(f, fun, S), NEW T \in SUBSET S
  PROVE  f[T] = IF T = {} THEN 0
                ELSE fun[CHOOSE x \in T : TRUE] + f[T \ {CHOOSE x \in T : TRUE}]
BY DEF Adds

LEMMA Chosen ==
  ASSUME NEW T, T # {}
  PROVE  /\ (CHOOSE x \in T : TRUE) \in T
         /\ T \ {CHOOSE x \in T : TRUE} \in SUBSET T
         /\ T \ {CHOOSE x \in T : TRUE} # T
OBVIOUS

\* Two of them agree wherever both are defined, if what they sum does.
LEMMA AddsAgree ==
  ASSUME NEW S, NEW T, NEW fun, NEW gun, NEW f, NEW g, Adds(f, fun, S), Adds(g, gun, T),
         NEW U \in SUBSET (S \cap T), IsFiniteSet(U), \A x \in U : fun[x] = gun[x]
  PROVE  f[U] = g[U]
<1> DEFINE G == {V \in SUBSET U : f[V] = g[V]}
<1>1. ASSUME NEW V \in SUBSET U, \A W \in SUBSET V : W # V => W \in G
      PROVE  V \in G
  <2>1. CASE V = {}
    BY <2>1, AddsAt
  <2>2. CASE V # {}
    <3> DEFINE c == CHOOSE x \in V : TRUE
    <3>1. c \in V /\ V \ {c} \in SUBSET V /\ V \ {c} # V
      BY <2>2, Chosen
    <3>2. f[V \ {c}] = g[V \ {c}]
      BY <1>1, <3>1
    <3>3. V \in SUBSET S /\ V \in SUBSET T
      <4> HIDE DEF G, c
      <4>1. V \subseteq U /\ U \subseteq S /\ U \subseteq T
        OBVIOUS
      <4> QED
        BY <4>1
    <3>4. f[V] = IF V = {} THEN 0 ELSE fun[c] + f[V \ {c}]
      <4>1. Adds(f, fun, S) /\ V \in SUBSET S
        BY <3>3
      <4> QED
        BY ONLY <4>1, AddsAt
    <3>5. g[V] = IF V = {} THEN 0 ELSE gun[c] + g[V \ {c}]
      <4>1. Adds(g, gun, T) /\ V \in SUBSET T
        BY <3>3
      <4> QED
        BY ONLY <4>1, AddsAt
    <3> HIDE DEF c
    <3> QED
      BY <2>2, <3>1, <3>2, <3>4, <3>5
  <2> QED
    BY <2>1, <2>2
<1>2. U \in G
  <2> HIDE DEF G
  <2> QED
    BY <1>1, SubsetInduction
<1> QED
  BY <1>2

\* There is one for every finite set.
LEMMA AddsExists ==
  ASSUME NEW S, IsFiniteSet(S), NEW fun
  PROVE  \E f : Adds(f, fun, S)
<1> DEFINE G == {T \in SUBSET S : \E f : Adds(f, fun, T)}
<1>1. ASSUME NEW T \in SUBSET S, \A U \in SUBSET T : U # T => U \in G
      PROVE  T \in G
  <2> DEFINE Sub(U) == CHOOSE f : Adds(f, fun, U)
             c(U) == CHOOSE x \in U : TRUE
             Below(U) == IF U = {} THEN 0 ELSE fun[c(U)] + Sub(U \ {c(U)})[U \ {c(U)}]
             f == [U \in SUBSET T |-> Below(U)]
  <2>1. \A U \in SUBSET T : U # T => Adds(Sub(U), fun, U)
    BY <1>1
  <2>2. ASSUME NEW U \in SUBSET T, U # {}
        PROVE  f[U \ {c(U)}] = Sub(U \ {c(U)})[U \ {c(U)}]
    <3> DEFINE V == U \ {c(U)}
    <3>1. c(U) \in U /\ V \in SUBSET T /\ V # T
      BY <2>2, Chosen
    <3>2. Adds(Sub(V), fun, V)
      BY <2>1, <3>1
    <3>3. f[V] = Below(V)
      BY <3>1
    <3>4. CASE V = {}
      BY <3>2, <3>3, <3>4, AddsAt
    <3>5. CASE V # {}
      <4> DEFINE W == V \ {c(V)}
      <4>1. c(V) \in V /\ W \in SUBSET V /\ W # V
        BY <3>5, Chosen
      <4>2. Adds(Sub(W), fun, W)
        BY <2>1, <3>1, <4>1
      <4>3. IsFiniteSet(W)
        BY <3>1, <4>1, FS_Subset
      <4>4. Sub(W)[W] = Sub(V)[W]
        <5> HIDE DEF W, V, Sub, c
        <5> QED
          BY <3>2, <4>1, <4>2, <4>3, AddsAgree
      <4>5. Sub(V)[V] = fun[c(V)] + Sub(V)[W]
        BY <3>2, <3>5, AddsAt
      <4> QED
        BY <3>3, <3>5, <4>4, <4>5
    <3> QED
      BY <3>4, <3>5
  <2>3. \A U \in SUBSET T : Below(U) = IF U = {} THEN 0 ELSE fun[c(U)] + f[U \ {c(U)}]
    <3> HIDE DEF f, c
    <3> QED
      BY <2>2
  <2>4. f = [U \in SUBSET T |-> IF U = {} THEN 0 ELSE fun[c(U)] + f[U \ {c(U)}]]
    <3>1. f = [U \in SUBSET T |-> Below(U)]
      OBVIOUS
    <3> HIDE DEF f, c, Below
    <3> QED
      BY <2>3, <3>1
  <2>5. Adds(f, fun, T)
    <3> HIDE DEF f
    <3> QED
      BY <2>4 DEF Adds
  <2> QED
    BY <2>5
<1>2. S \in G
  <2> HIDE DEF G
  <2> QED
    BY <1>1, SubsetInduction
<1> QED
  BY <1>2


\* The recursion that a sum stands for, at the first set and at any other.
LEMMA SumIsRecursive ==
  ASSUME NEW fun, NEW S, IsFiniteSet(S)
  PROVE  SumFunctionOnSet(fun, S) =
           IF S = {} THEN 0
           ELSE fun[CHOOSE x \in S : TRUE] +
                  SumFunctionOnSet(fun, S \ {CHOOSE x \in S : TRUE})
<1> DEFINE c == CHOOSE x \in S : TRUE
           f == CHOOSE h : Adds(h, fun, S)
           g == CHOOSE h : Adds(h, fun, S \ {c})
<1>1. Adds(f, fun, S)
  BY AddsExists
<1>2. IsFiniteSet(S \ {c})
  BY FS_RemoveElement
<1>3. Adds(g, fun, S \ {c})
  BY <1>2, AddsExists
<1>4. f[S \ {c}] = g[S \ {c}]
  <2> HIDE DEF f, g, c
  <2> QED
    BY <1>1, <1>2, <1>3, AddsAgree
<1>5. f[S] = IF S = {} THEN 0 ELSE fun[c] + f[S \ {c}]
  BY <1>1, AddsAt
<1>6. SumFunctionOnSet(fun, S) = f[S] /\ SumFunctionOnSet(fun, S \ {c}) = g[S \ {c}]
  BY SumForm
<1> QED
  BY <1>4, <1>5, <1>6

\* A sum depends on its terms alone.
LEMMA SumAgrees ==
  ASSUME NEW fun, NEW gun, NEW S, IsFiniteSet(S), \A x \in S : fun[x] = gun[x]
  PROVE  SumFunctionOnSet(fun, S) = SumFunctionOnSet(gun, S)
<1> DEFINE f == CHOOSE h : Adds(h, fun, S)
           g == CHOOSE h : Adds(h, gun, S)
<1>1. Adds(f, fun, S) /\ Adds(g, gun, S)
  BY AddsExists
<1>2. f[S] = g[S]
  <2> HIDE DEF f, g
  <2> QED
    BY <1>1, AddsAgree
<1> QED
  BY <1>2, SumForm

\* A sum of integers is an integer, and that of natural numbers one of them.
LEMMA SumTypes ==
  ASSUME NEW fun, NEW S, IsFiniteSet(S), NEW N \in {Nat, Int}, \A x \in S : fun[x] \in N
  PROVE  SumFunctionOnSet(fun, S) \in N
<1> DEFINE G == {T \in SUBSET S : SumFunctionOnSet(fun, T) \in N}
<1>1. ASSUME NEW T \in SUBSET S, \A U \in SUBSET T : U # T => U \in G
      PROVE  T \in G
  <2> DEFINE c == CHOOSE x \in T : TRUE
  <2>1. SumFunctionOnSet(fun, T) =
          IF T = {} THEN 0 ELSE fun[c] + SumFunctionOnSet(fun, T \ {c})
    BY FS_Subset, SumIsRecursive
  <2>2. CASE T = {}
    BY <2>1, <2>2
  <2>3. CASE T # {}
    <3>1. c \in T /\ T \ {c} \in SUBSET T /\ T \ {c} # T
      BY <2>3, Chosen
    <3>2. SumFunctionOnSet(fun, T \ {c}) \in N /\ fun[c] \in N
      BY <1>1, <3>1
    <3> HIDE DEF c
    <3> QED
      BY <2>1, <2>3, <3>2
  <2> QED
    BY <2>2, <2>3
<1>2. S \in G
  <2> HIDE DEF G
  <2> QED
    BY <1>1, SubsetInduction
<1> QED
  BY <1>2

\* Any element may be taken first.
LEMMA SumRemoves ==
  ASSUME NEW fun, NEW S, IsFiniteSet(S), \A x \in S : fun[x] \in Int, NEW y \in S
  PROVE  SumFunctionOnSet(fun, S) = fun[y] + SumFunctionOnSet(fun, S \ {y})
<1> DEFINE Sum(T) == SumFunctionOnSet(fun, T)
           G == {T \in SUBSET S : \A x \in T : Sum(T) = fun[x] + Sum(T \ {x})}
<1>1. \A T \in SUBSET S : IsFiniteSet(T) /\ Sum(T) \in Int
  <2> SUFFICES ASSUME NEW T \in SUBSET S
               PROVE  IsFiniteSet(T) /\ Sum(T) \in Int
    OBVIOUS
  <2>1. IsFiniteSet(T)
    BY FS_Subset
  <2> QED
    BY <2>1, SumTypes
<1>2. ASSUME NEW T \in SUBSET S, \A U \in SUBSET T : U # T => U \in G
      PROVE  T \in G
  <2> SUFFICES ASSUME NEW x \in T
               PROVE  Sum(T) = fun[x] + Sum(T \ {x})
    OBVIOUS
  <2> DEFINE c == CHOOSE u \in T : TRUE
  <2>1. Sum(T) = fun[c] + Sum(T \ {c})
    BY <1>1, SumIsRecursive
  <2>2. c \in T /\ T \ {c} \in SUBSET T /\ T \ {c} # T
    BY Chosen
  <2>3. CASE x = c
    BY <2>1, <2>3
  <2>4. CASE x # c
    <3>1. Sum(T \ {c}) = fun[x] + Sum((T \ {c}) \ {x})
      BY <1>2, <2>2, <2>4
    <3>2. T \ {x} \in SUBSET T /\ T \ {x} # T /\ c \in T \ {x}
      BY <2>2, <2>4
    <3>3. Sum(T \ {x}) = fun[c] + Sum((T \ {x}) \ {c})
      BY <1>2, <3>2
    <3>4. (T \ {c}) \ {x} = (T \ {x}) \ {c} /\ (T \ {c}) \ {x} \in SUBSET S
      OBVIOUS
    <3>5. fun[x] \in Int /\ fun[c] \in Int /\ Sum((T \ {c}) \ {x}) \in Int
      BY <1>1, <2>2, <3>4
    <3>6. Sum(T) = fun[c] + (fun[x] + Sum((T \ {c}) \ {x}))
      BY <2>1, <3>1
    <3>7. Sum(T \ {x}) = fun[c] + Sum((T \ {c}) \ {x})
      BY <3>3, <3>4
    <3> HIDE DEF c, Sum, G
    <3> QED
      BY <3>5, <3>6, <3>7
  <2> QED
    BY <2>3, <2>4
<1>3. S \in G
  <2> HIDE DEF G
  <2> QED
    BY <1>2, SubsetInduction
<1> QED
  BY <1>3

LEMMA SumOfNone ==
  ASSUME NEW fun
  PROVE  SumFunctionOnSet(fun, {}) = 0
BY FS_EmptySet, SumIsRecursive

LEMMA SumOfOne ==
  ASSUME NEW fun, NEW x, fun[x] \in Int
  PROVE  SumFunctionOnSet(fun, {x}) = fun[x]
<1>1. IsFiniteSet({x}) /\ {x} \ {x} = {} /\ \A y \in {x} : fun[y] \in Int
  BY FS_Singleton
<1>2. SumFunctionOnSet(fun, {x}) = fun[x] + SumFunctionOnSet(fun, {x} \ {x})
  BY <1>1, SumRemoves
<1> QED
  BY <1>1, <1>2, SumOfNone

\* Sums of disjoint sets add up.
LEMMA SumUnion ==
  ASSUME NEW fun, NEW A, NEW B, IsFiniteSet(A), IsFiniteSet(B), A \cap B = {},
         \A x \in A \cup B : fun[x] \in Int
  PROVE  SumFunctionOnSet(fun, A \cup B) = SumFunctionOnSet(fun, A) + SumFunctionOnSet(fun, B)
<1> DEFINE Sum(T) == SumFunctionOnSet(fun, T)
           G == {T \in SUBSET A : Sum(T \cup B) = Sum(T) + Sum(B)}
<1>1. ASSUME NEW T \in SUBSET (A \cup B)
      PROVE  IsFiniteSet(T) /\ Sum(T) \in Int
  <2>1. IsFiniteSet(A \cup B)
    BY FS_Union
  <2>2. IsFiniteSet(T)
    BY <2>1, FS_Subset
  <2> QED
    BY <2>2, SumTypes
<1>2. ASSUME NEW T \in SUBSET A, \A U \in SUBSET T : U # T => U \in G
      PROVE  T \in G
  <2>1. CASE T = {}
    <3>1. Sum(T) = 0 /\ T \cup B = B /\ Sum(B) \in Int
      BY <1>1, <2>1, SumOfNone
    <3> QED
      BY <3>1
  <2>2. CASE T # {}
    <3>1. PICK c \in T : TRUE
      BY <2>2
    <3>2. T \ {c} \in SUBSET T /\ T \ {c} # T
      OBVIOUS
    <3>3. Sum((T \ {c}) \cup B) = Sum(T \ {c}) + Sum(B)
      BY <1>2, <3>2
    <3>4. T \in SUBSET (A \cup B) /\ T \cup B \in SUBSET (A \cup B) /\ c \in A \cup B
          /\ T \ {c} \in SUBSET (A \cup B) /\ B \in SUBSET (A \cup B)
      OBVIOUS
    <3>5. IsFiniteSet(T) /\ IsFiniteSet(T \cup B)
      BY <1>1, <3>4
    <3>6. Sum(T) = fun[c] + Sum(T \ {c})
      BY <3>4, <3>5, SumRemoves
    <3>7. Sum(T \cup B) = fun[c] + Sum((T \cup B) \ {c})
      BY <3>4, <3>5, SumRemoves
    <3>8. (T \cup B) \ {c} = (T \ {c}) \cup B
      OBVIOUS
    <3>9. fun[c] \in Int /\ Sum(T \ {c}) \in Int /\ Sum(B) \in Int
      BY <1>1, <3>4
    <3> HIDE DEF Sum
    <3>10. Sum(T \cup B) = fun[c] + (Sum(T \ {c}) + Sum(B))
      BY <3>3, <3>7, <3>8
    <3> QED
      BY <3>6, <3>9, <3>10
  <2> QED
    BY <2>1, <2>2
<1>3. A \in G
  <2> HIDE DEF G
  <2> QED
    BY <1>2, SubsetInduction
<1> QED
  BY <1>3

\* A sum does not depend on what its terms are indexed by.
LEMMA SumReindexed ==
  ASSUME NEW A, IsFiniteSet(A), NEW b, NEW fun, NEW gun,
         \A x, y \in A : b[x] = b[y] => x = y,
         \A x \in A : gun[x] = fun[b[x]] /\ gun[x] \in Int
  PROVE  SumFunctionOnSet(gun, A) = SumFunctionOnSet(fun, {b[x] : x \in A})
<1> DEFINE Image(T) == {b[x] : x \in T}
           Same(T) == SumFunctionOnSet(gun, T) = SumFunctionOnSet(fun, Image(T))
           G == {T \in SUBSET A : Same(T)}
<1>1. ASSUME NEW T \in SUBSET A, \A U \in SUBSET T : U # T => Same(U)
      PROVE  Same(T)
  <2>1. CASE T = {}
    <3>1. Image(T) = {}
      BY <2>1
    <3> HIDE DEF Image
    <3> QED
      BY <2>1, <3>1, SumOfNone
  <2>2. CASE T # {}
    <3>1. PICK c \in T : TRUE
      BY <2>2
    <3>2. IsFiniteSet(T) /\ T \ {c} \in SUBSET T /\ T \ {c} # T /\ c \in A
      BY FS_Subset
    <3>3. IsFiniteSet(Image(T))
      <4> DEFINE h == [x \in T |-> b[x]]
      <4>1. h \in Surjection(T, Image(T))
        BY DEF Surjection
      <4> HIDE DEF h, Image
      <4> QED
        BY <3>2, <4>1, FS_Surjection
    <3>4. /\ b[c] \in Image(T) /\ Image(T) \ {b[c]} = Image(T \ {c})
          /\ \A y \in Image(T) : fun[y] \in Int
      OBVIOUS
    <3> HIDE DEF Image
    <3>5. SumFunctionOnSet(gun, T) = gun[c] + SumFunctionOnSet(gun, T \ {c})
      BY <3>2, SumRemoves
    <3>6. SumFunctionOnSet(fun, Image(T)) =
            fun[b[c]] + SumFunctionOnSet(fun, Image(T) \ {b[c]})
      BY <3>3, <3>4, SumRemoves
    <3>7. SumFunctionOnSet(gun, T \ {c}) = SumFunctionOnSet(fun, Image(T \ {c}))
      BY <1>1, <3>2
    <3> QED
      BY <3>2, <3>4, <3>5, <3>6, <3>7
  <2> QED
    BY <2>1, <2>2
<1>2. A \in G
  <2> HIDE DEF Same
  <2>1. \A T \in SUBSET A : (\A U \in SUBSET T : U # T => U \in G) => T \in G
    BY <1>1
  <2> HIDE DEF G
  <2> QED
    BY <2>1, SubsetInduction
<1> QED
  BY <1>2

----------------------------------------------------------------------------
(* SUM(quantity). *)

LEMMA TotalForm ==
  ASSUME NEW rows
  PROVE  TotalOf(rows) = SumFunctionOnSet([row \in rows |-> row.quantity], rows)
BY DEF TotalOf, SumFunction

LEMMA TotalOfNone == TotalOf({}) = 0
BY TotalForm, SumOfNone

LEMMA TotalOfOne ==
  ASSUME NEW row, row.quantity \in Int
  PROVE  TotalOf({row}) = row.quantity
<1> DEFINE fun == [x \in {row} |-> x.quantity]
<1>1. fun[row] = row.quantity
  OBVIOUS
<1>2. SumFunctionOnSet(fun, {row}) = fun[row]
  <2> HIDE DEF fun
  <2> QED
    BY <1>1, SumOfOne
<1> QED
  BY <1>1, <1>2, TotalForm

\* A total of integers is one.
LEMMA TotalType ==
  ASSUME NEW rows, IsFiniteSet(rows), \A row \in rows : row.quantity \in Int
  PROVE  TotalOf(rows) \in Int
<1> DEFINE fun == [row \in rows |-> row.quantity]
<1>1. \A row \in rows : fun[row] \in Int
  OBVIOUS
<1>2. SumFunctionOnSet(fun, rows) \in Int
  <2> HIDE DEF fun
  <2> QED
    BY <1>1, SumTypes
<1> QED
  BY <1>2, TotalForm

\* The totals of two sets of rows with none in common add up.
LEMMA TotalUnion ==
  ASSUME NEW A, NEW B, IsFiniteSet(A), IsFiniteSet(B), A \cap B = {},
         \A row \in A \cup B : row.quantity \in Int
  PROVE  /\ TotalOf(A \cup B) = TotalOf(A) + TotalOf(B)
         /\ TotalOf(A) \in Int /\ TotalOf(B) \in Int
<1> DEFINE fun == [row \in A \cup B |-> row.quantity]
           fa == [row \in A |-> row.quantity]
           fb == [row \in B |-> row.quantity]
<1>1. /\ \A row \in A \cup B : fun[row] \in Int
      /\ \A row \in A : fun[row] = fa[row]
      /\ \A row \in B : fun[row] = fb[row]
  OBVIOUS
<1>2. /\ TotalOf(A \cup B) = SumFunctionOnSet(fun, A \cup B)
      /\ TotalOf(A) = SumFunctionOnSet(fa, A) /\ TotalOf(B) = SumFunctionOnSet(fb, B)
  BY TotalForm
<1>3. TotalOf(A) \in Int /\ TotalOf(B) \in Int
  BY TotalType
<1> HIDE DEF fun, fa, fb
<1>4. /\ SumFunctionOnSet(fun, A) = SumFunctionOnSet(fa, A)
      /\ SumFunctionOnSet(fun, B) = SumFunctionOnSet(fb, B)
  BY <1>1, SumAgrees
<1>5. SumFunctionOnSet(fun, A \cup B) = SumFunctionOnSet(fun, A) + SumFunctionOnSet(fun, B)
  BY <1>1, SumUnion
<1> QED
  BY <1>2, <1>3, <1>4, <1>5

----------------------------------------------------------------------------
(* The summary of movements. *)

OfType(movements, t) == {m \in movements : m.type = t}

\* The outer merge gives every type its row, with what its group holds.
LEMMA SummaryRows ==
  ASSUME NEW movements, NEW k \in 1..3
  PROVE  /\ DOMAIN MovementsSummary(movements).rows = 1..3
         /\ Len(MovementsSummary(movements).rows) = 3
         /\ MovementsSummary(movements).rows[k] =
              [type |-> TypeOrder[k],
               movement_count |-> Cardinality(OfType(movements, TypeOrder[k])),
               total_quantity |-> TotalOf(OfType(movements, TypeOrder[k]))]
<1> DEFINE t == TypeOrder[k]
           counts == SummaryByType(movements)
           rows == BuildMovementSummaryRows(counts)
<1>1. MovementsSummary(movements).rows = rows
  BY DEF MovementsSummary
<1>2. Len(TypeOrder) = 3
  BY DEF TypeOrder
<1>3. rows = [i \in 1..3 |->
                [type |-> TypeOrder[i],
                 movement_count |-> IF TypeOrder[i] \in DOMAIN counts
                                    THEN counts[TypeOrder[i]].movement_count ELSE 0,
                 total_quantity |-> IF TypeOrder[i] \in DOMAIN counts
                                    THEN counts[TypeOrder[i]].total_quantity ELSE 0]]
  BY <1>2 DEF BuildMovementSummaryRows
<1>4. DOMAIN rows = 1..3 /\ Len(rows) = 3
  <2> HIDE DEF counts, rows
  <2> QED
    BY <1>3
<1>5. /\ DOMAIN counts = {m.type : m \in movements}
      /\ t \in DOMAIN counts =>
           /\ counts[t].movement_count = Cardinality(OfType(movements, t))
           /\ counts[t].total_quantity = TotalOf(OfType(movements, t))
  BY DEF SummaryByType, OfType
<1>6. t \notin DOMAIN counts => OfType(movements, t) = {}
  BY <1>5 DEF OfType
<1>7. rows[k] = [type |-> t,
                 movement_count |-> Cardinality(OfType(movements, t)),
                 total_quantity |-> TotalOf(OfType(movements, t))]
  <2>1. rows[k] = [type |-> t,
                   movement_count |-> IF t \in DOMAIN counts
                                      THEN counts[t].movement_count ELSE 0,
                   total_quantity |-> IF t \in DOMAIN counts
                                      THEN counts[t].total_quantity ELSE 0]
    <3> HIDE DEF counts, rows
    <3> QED
      BY <1>3
  <2> HIDE DEF counts, rows, t
  <2>2. CASE t \in DOMAIN counts
    BY <1>5, <2>1, <2>2
  <2>3. CASE t \notin DOMAIN counts
    <3>1. Cardinality(OfType(movements, t)) = 0 /\ TotalOf(OfType(movements, t)) = 0
      BY <1>6, <2>3, FS_EmptySet, TotalOfNone
    <3> QED
      BY <2>1, <2>3, <3>1
  <2> QED
    BY <2>2, <2>3
<1> QED
  BY <1>1, <1>4, <1>7

\* The row of a type is the one that has its figures.
LEMMA RowOfType ==
  ASSUME NEW movements, NEW t \in MovementTypes
  PROVE  RowOf(MovementsSummary(movements), t) =
           [type |-> t, movement_count |-> Cardinality(OfType(movements, t)),
            total_quantity |-> TotalOf(OfType(movements, t))]
<1> DEFINE report == MovementsSummary(movements)
           k == CHOOSE k \in 1..Len(report.rows) : report.rows[k].type = t
<1>1. ASSUME NEW i \in 1..3
      PROVE  /\ Len(report.rows) = 3
             /\ report.rows[i] =
                  [type |-> TypeOrder[i],
                   movement_count |-> Cardinality(OfType(movements, TypeOrder[i])),
                   total_quantity |-> TotalOf(OfType(movements, TypeOrder[i]))]
  BY SummaryRows
<1>2. 1 \in 1..3
  OBVIOUS
<1>3. \E i \in 1..3 : TypeOrder[i] = t
  BY DEF TypeOrder, MovementTypes
<1> HIDE DEF report
<1>4. k \in 1..3 /\ TypeOrder[k] = t
  <2>1. Len(report.rows) = 3 /\ \A i \in 1..3 : report.rows[i].type = TypeOrder[i]
    BY <1>1, <1>2
  <2> QED
    BY <1>3, <2>1
<1>5. RowOf(report, t) = report.rows[k]
  BY DEF RowOf
<1> HIDE DEF k
<1>6. RowOf(report, t) =
        [type |-> t, movement_count |-> Cardinality(OfType(movements, t)),
         total_quantity |-> TotalOf(OfType(movements, t))]
  BY <1>1, <1>4, <1>5
<1> QED
  BY <1>6 DEF report

\* The total of the report is the number of the movements, a type at a time.
LEMMA SummaryTotal ==
  ASSUME NEW movements, IsFiniteSet(movements), \A m \in movements : m.type \in MovementTypes
  PROVE  MovementsSummary(movements).total_movements = Cardinality(movements)
<1> DEFINE rows == MovementsSummary(movements).rows
           fun == [k \in DOMAIN rows |-> rows[k].movement_count]
           size(k) == Cardinality(OfType(movements, TypeOrder[k]))
<1>1. MovementsSummary(movements).total_movements = SumFunctionOnSet(fun, DOMAIN fun)
  BY DEF MovementsSummary, SumFunction
<1>2. DOMAIN fun = 1..3 /\ \A k \in 1..3 : fun[k] = size(k)
  <2>1. ASSUME NEW k \in 1..3
        PROVE  DOMAIN rows = 1..3 /\ rows[k].movement_count = size(k)
    <3>1. /\ DOMAIN rows = 1..3
          /\ rows[k] = [type |-> TypeOrder[k], movement_count |-> size(k),
                        total_quantity |-> TotalOf(OfType(movements, TypeOrder[k]))]
      BY SummaryRows
    <3> HIDE DEF rows, size
    <3> QED
      BY <3>1
  <2>2. 1 \in 1..3
    OBVIOUS
  <2> HIDE DEF rows, size
  <2> QED
    BY <2>1, <2>2
<1>3. \A k \in 1..3 : IsFiniteSet(OfType(movements, TypeOrder[k])) /\ size(k) \in Nat
  <2> SUFFICES ASSUME NEW k \in 1..3
               PROVE  IsFiniteSet(OfType(movements, TypeOrder[k])) /\ size(k) \in Nat
    OBVIOUS
  <2>1. OfType(movements, TypeOrder[k]) \in SUBSET movements
    BY DEF OfType
  <2> QED
    BY <2>1, FS_Subset, FS_CardinalityType
<1>4. SumFunctionOnSet(fun, 1..3) = size(1) + size(2) + size(3)
  <2>1. IsFiniteSet({1}) /\ IsFiniteSet({2}) /\ IsFiniteSet({3}) /\ IsFiniteSet({1, 2})
    <3>1. IsFiniteSet({1}) /\ IsFiniteSet({2}) /\ IsFiniteSet({3})
      BY FS_Singleton
    <3>2. IsFiniteSet({1} \cup {2})
      BY <3>1, FS_Union
    <3>3. {1, 2} = {1} \cup {2}
      OBVIOUS
    <3> QED
      BY <3>1, <3>2, <3>3
  <2>2. \A k \in 1..3 : fun[k] \in Int
    BY <1>2, <1>3
  <2>3. 1..3 = {1, 2} \cup {3} /\ {1, 2} = {1} \cup {2}
    OBVIOUS
  <2> HIDE DEF fun
  <2>4. SumFunctionOnSet(fun, {1} \cup {2}) =
          SumFunctionOnSet(fun, {1}) + SumFunctionOnSet(fun, {2})
    BY <2>1, <2>2, SumUnion
  <2>5. SumFunctionOnSet(fun, {1, 2} \cup {3}) =
          SumFunctionOnSet(fun, {1, 2}) + SumFunctionOnSet(fun, {3})
    BY <2>1, <2>2, SumUnion
  <2>6. \A k \in 1..3 : SumFunctionOnSet(fun, {k}) = fun[k]
    BY <2>2, SumOfOne
  <2> HIDE DEF size
  <2> QED
    BY <1>2, <2>3, <2>4, <2>5, <2>6
<1>5. Cardinality(movements) = size(1) + size(2) + size(3)
  <2> DEFINE In == OfType(movements, "in")
             Out == OfType(movements, "out")
             Adjusted == OfType(movements, "adjustment")
  <2>1. size(1) = Cardinality(In) /\ size(2) = Cardinality(Out) /\ size(3) = Cardinality(Adjusted)
        /\ IsFiniteSet(In) /\ IsFiniteSet(Out) /\ IsFiniteSet(Adjusted)
    BY <1>3 DEF TypeOrder
  <2>2. movements = (In \cup Out) \cup Adjusted /\ In \cap Out = {}
        /\ (In \cup Out) \cap Adjusted = {}
    BY DEF OfType, MovementTypes
  <2> HIDE DEF In, Out, Adjusted, size
  <2>3. IsFiniteSet(In \cup Out)
        /\ Cardinality(In \cup Out) = Cardinality(In) + Cardinality(Out) - Cardinality(In \cap Out)
    BY <2>1, FS_Union
  <2>4. Cardinality((In \cup Out) \cup Adjusted) =
          Cardinality(In \cup Out) + Cardinality(Adjusted)
            - Cardinality((In \cup Out) \cap Adjusted)
    BY <2>1, <2>3, FS_Union
  <2>5. Cardinality(In \cap Out) = 0 /\ Cardinality((In \cup Out) \cap Adjusted) = 0
    BY <2>2, FS_EmptySet
  <2>6. Cardinality(In) \in Nat /\ Cardinality(Out) \in Nat /\ Cardinality(Adjusted) \in Nat
    BY <2>1, FS_CardinalityType
  <2>7. Cardinality((In \cup Out) \cup Adjusted) =
          Cardinality(In) + Cardinality(Out) + Cardinality(Adjusted)
    BY <2>3, <2>4, <2>5, <2>6
  <2> QED
    BY <2>1, <2>2, <2>7
<1> HIDE DEF fun, size
<1> QED
  BY <1>1, <1>2, <1>4, <1>5

----------------------------------------------------------------------------
(* The report of movements and the history. *)

\* The two WHERE clauses agree: a row of the report and the total of the
\* history with the same filters and that type count the same rows.
LEMMA CountsAgree ==
  ASSUME ReadsInv, NEW filter \in Filters
  PROVE  /\ Summary(filter).total_movements = CountHistory([filter EXCEPT !.type = None])
         /\ \A t \in MovementTypes :
              RowOf(Summary(filter), t).movement_count = CountHistory([filter EXCEPT !.type = t])
<1> DEFINE rows == {m \in Movements : InSummary(m, filter)}
<1>1. /\ filter \in [product : Products \cup {None}, type : MovementTypes \cup {None},
                     date_from : Nat \cup {None}, date_to : Nat \cup {None}]
      /\ None \notin MovementTypes
  BY ReadsAssumption
<1>2. rows \in SUBSET Movements /\ IsFiniteSet(rows) /\ \A m \in rows : m.type \in MovementTypes
  <2>1. rows \in SUBSET Movements /\ IsFiniteSet(Movements) /\ Movements \subseteq Movement
    BY DEF ReadsInv, RowsSound, Dated
  <2> QED
    BY <2>1, FS_Subset DEF Movement
<1>3. Summary(filter) = MovementsSummary(rows)
  BY DEF Summary
<1>4. rows = Matching([filter EXCEPT !.type = None])
  BY <1>1 DEF Matching, Matches, InSummary
<1>5. \A t \in MovementTypes : OfType(rows, t) = Matching([filter EXCEPT !.type = t])
  BY <1>1 DEF Matching, Matches, InSummary, OfType
<1> HIDE DEF rows
<1>6. MovementsSummary(rows).total_movements = Cardinality(rows)
  BY <1>2, SummaryTotal
<1>7. \A t \in MovementTypes :
        RowOf(MovementsSummary(rows), t).movement_count = Cardinality(OfType(rows, t))
  BY RowOfType
<1> QED
  BY <1>3, <1>4, <1>5, <1>6, <1>7 DEF CountHistory

----------------------------------------------------------------------------
(* The ledger and the stock. *)

MovementsOf(p) == {m \in Movements : m.product = p}

\* What came in of a product less what went out of it.
Flow(p) == TotalOf(OfType(MovementsOf(p), "in")) - TotalOf(OfType(MovementsOf(p), "out"))

\* A product is gone with its movements; one that was never adjusted has in
\* stock what came in less what went out.
Balanced ==
  \A p \in Products :
    IF quantity[p] = None THEN MovementsOf(p) = {}
    ELSE OfType(MovementsOf(p), "adjustment") = {} => quantity[p] = Flow(p)

\* What rows of the table are.
LEMMA MovementsTyped ==
  ASSUME ReadsInv, NEW rows \in SUBSET Movements
  PROVE  /\ IsFiniteSet(rows)
         /\ \A m \in rows : m.quantity \in Nat /\ m.type \in MovementTypes /\ m.product \in Products
<1>1. IsFiniteSet(Movements) /\ Movements \subseteq Movement
  BY DEF ReadsInv, RowsSound, Dated
<1>2. IsFiniteSet(rows) /\ rows \subseteq Movement
  BY <1>1, FS_Subset
<1>3. Quantities \subseteq Nat
  BY ReadsAssumption
<1> QED
  BY <1>2, <1>3 DEF Movement

\* One row more adds its quantity to the total of its type.
LEMMA TotalWithRow ==
  ASSUME NEW rows, IsFiniteSet(rows), \A m \in rows : m.quantity \in Int,
         NEW new, new \notin rows, new.quantity \in Int, NEW t
  PROVE  /\ TotalOf(OfType(rows, t)) \in Int
         /\ TotalOf(OfType(rows \cup {new}, t)) =
              IF new.type = t THEN TotalOf(OfType(rows, t)) + new.quantity
              ELSE TotalOf(OfType(rows, t))
<1> DEFINE A == OfType(rows, t)
<1>1. A \in SUBSET rows
  BY DEF OfType
<1>2. IsFiniteSet(A) /\ \A m \in A : m.quantity \in Int
  BY <1>1, FS_Subset
<1>3. TotalOf(A) \in Int
  BY <1>2, TotalType
<1>4. CASE new.type = t
  <2>1. OfType(rows \cup {new}, t) = A \cup {new}
    BY <1>4 DEF OfType
  <2>2. A \cap {new} = {} /\ IsFiniteSet({new})
    BY <1>1, FS_Singleton
  <2> HIDE DEF A
  <2>3. TotalOf(A \cup {new}) = TotalOf(A) + TotalOf({new}) /\ TotalOf({new}) = new.quantity
    BY <1>2, <2>2, TotalUnion, TotalOfOne
  <2> QED
    BY <1>3, <1>4, <2>1, <2>3 DEF A
<1>5. CASE new.type # t
  <2>1. OfType(rows \cup {new}, t) = A
    BY <1>5 DEF OfType
  <2> QED
    BY <1>3, <1>5, <2>1
<1> QED
  BY <1>4, <1>5

\* The rows of the other products stay.
LEMMA DeleteForgets ==
  ASSUME LedgerShape, NEW p \in Products, DeleteProduct(p)
  PROVE  /\ quantity' = [quantity EXCEPT ![p] = None]
         /\ Movements' = {m \in Movements : m.product # p}
<1>1. /\ quantity' = [quantity EXCEPT ![p] = None]
      /\ ledger' = [ledger EXCEPT ![p] = <<>>]
  BY DEF DeleteProduct, Forget
<1>2. /\ ledger'[p] = <<>> /\ Len(ledger'[p]) = 0
      /\ \A q \in Products \ {p} : ledger'[q] = ledger[q]
  BY <1>1 DEF LedgerShape
<1>3. ASSUME NEW m \in Movements'
      PROVE  m \in Movements /\ m.product # p
  <2>1. PICK q \in Products : \E i \in 1..Len(ledger'[q]) :
          m = [product |-> q, at |-> ledger'[q][i].at, type |-> ledger'[q][i].type,
               quantity |-> ledger'[q][i].quantity]
    BY <1>3 DEF Movements
  <2>2. q # p
    BY <1>2, <2>1
  <2> QED
    BY <1>2, <2>1, <2>2 DEF Movements
<1>4. ASSUME NEW m \in Movements, m.product # p
      PROVE  m \in Movements'
  <2>1. PICK q \in Products : \E i \in 1..Len(ledger[q]) :
          m = [product |-> q, at |-> ledger[q][i].at, type |-> ledger[q][i].type,
               quantity |-> ledger[q][i].quantity]
    BY <1>4 DEF Movements
  <2>2. q # p
    BY <1>4, <2>1
  <2> QED
    BY <1>2, <2>1, <2>2 DEF Movements
<1> QED
  BY <1>1, <1>3, <1>4

\* A movement changes the stock of its product by what it adds to its flow.
LEMMA MoveBalanced ==
  ASSUME ReadsInv, Balanced, NEW r \in Requests, NEW o \in Moves, Move(r, o)
  PROVE  Balanced'
<1> DEFINE new == [product |-> o.product, at |-> r, type |-> o.type, quantity |-> o.quantity]
<1>1. /\ r \notin used
      /\ o \in [product : Products, type : MovementTypes, quantity : Quantities]
      /\ Record(o.product, r, o.type, o.quantity)
  BY ReadsAssumption DEF Move
<1>2. new \in Movement /\ Movements' = Movements \cup {new}
  BY MoveRecords DEF ReadsInv
<1>3. /\ new.product = o.product /\ new.at = r /\ new.type = o.type
      /\ new.quantity = o.quantity /\ new.quantity \in Nat
  BY <1>1, ReadsAssumption
<1> HIDE DEF new
<1>4. new \notin Movements
  BY <1>1, <1>3 DEF ReadsInv, RowsSound
<1>5. PICK c \in Products : c = o.product
  BY <1>1
<1>6. PICK balance \in 0..MaxInt :
        /\ quantity[c] # None
        /\ balance = ApplyMovement(quantity[c], o.type, o.quantity)
        /\ quantity' = [quantity EXCEPT ![c] = balance]
  BY <1>1, <1>5 DEF Record
<1>7. balance # None
  BY <1>6, ReadsAssumption
<1>8. /\ quantity'[c] = balance /\ quantity[c] \in Nat
      /\ \A q \in Products \ {c} : quantity'[q] = quantity[q]
  BY <1>6, ReadsAssumption DEF ReadsInv, LedgerShape
<1> SUFFICES ASSUME NEW p \in Products
             PROVE  IF quantity'[p] = None THEN MovementsOf(p)' = {}
                    ELSE OfType(MovementsOf(p), "adjustment")' = {} =>
                           quantity'[p] = Flow(p)'
  BY DEF Balanced
<1> DEFINE own == MovementsOf(p)
<1>9. CASE p # c
  <2>1. MovementsOf(p)' = MovementsOf(p)
    BY <1>2, <1>3, <1>5, <1>9 DEF MovementsOf
  <2>2. OfType(MovementsOf(p), "adjustment")' = OfType(MovementsOf(p), "adjustment")
        /\ Flow(p)' = Flow(p)
    BY <2>1 DEF Flow, OfType
  <2> QED
    BY <1>8, <1>9, <2>1, <2>2 DEF Balanced
<1>10. CASE p = c
  <2>1. MovementsOf(p)' = own \cup {new} /\ own \in SUBSET Movements
    BY <1>2, <1>3, <1>5, <1>10 DEF MovementsOf
  <2>2. IsFiniteSet(own) /\ \A m \in own : m.quantity \in Int
    BY <2>1, MovementsTyped
  <2>3. new \notin own /\ new.quantity \in Int
    BY <1>3, <1>4, <2>1
  <2> HIDE DEF own
  <2>4. \A t : TotalOf(OfType(own, t)) \in Int
    BY <2>2, <2>3, TotalWithRow
  <2>5. \A t : TotalOf(OfType(own \cup {new}, t)) =
                 IF new.type = t THEN TotalOf(OfType(own, t)) + new.quantity
                 ELSE TotalOf(OfType(own, t))
    BY <2>2, <2>3, TotalWithRow
  <2>6. Flow(p)' = TotalOf(OfType(own \cup {new}, "in")) - TotalOf(OfType(own \cup {new}, "out"))
        /\ OfType(MovementsOf(p), "adjustment")' = OfType(own \cup {new}, "adjustment")
    BY <2>1 DEF Flow, OfType
  <2>7. SUFFICES ASSUME OfType(own \cup {new}, "adjustment") = {}
                 PROVE  balance = Flow(p)'
    BY <1>7, <1>8, <1>10, <2>6
  <2>8. OfType(own, "adjustment") = {} /\ o.type # "adjustment"
    BY <1>3, <2>7 DEF OfType
  <2>9. quantity[c] = TotalOf(OfType(own, "in")) - TotalOf(OfType(own, "out"))
    BY <1>6, <1>10, <2>8 DEF Balanced, Flow, own
  <2>10. o.type \in {"in", "out"}
    BY <1>1, <2>8 DEF MovementTypes
  <2>11. CASE o.type = "in"
    <3>1. balance = quantity[c] + new.quantity
      BY <1>3, <1>6, <2>11 DEF ApplyMovement
    <3>2. TotalOf(OfType(own \cup {new}, "in")) = TotalOf(OfType(own, "in")) + new.quantity
          /\ TotalOf(OfType(own \cup {new}, "out")) = TotalOf(OfType(own, "out"))
      BY <1>3, <2>5, <2>11
    <3> QED
      BY <1>3, <2>4, <2>6, <2>9, <3>1, <3>2
  <2>12. CASE o.type = "out"
    <3>1. balance = quantity[c] - new.quantity
      BY <1>3, <1>6, <2>12 DEF ApplyMovement
    <3>2. TotalOf(OfType(own \cup {new}, "in")) = TotalOf(OfType(own, "in"))
          /\ TotalOf(OfType(own \cup {new}, "out")) = TotalOf(OfType(own, "out")) + new.quantity
      BY <1>3, <2>5, <2>12
    <3> QED
      BY <1>3, <2>4, <2>6, <2>9, <3>1, <3>2
  <2> QED
    BY <2>10, <2>11, <2>12
<1> QED
  BY <1>9, <1>10

\* A deletion takes a product's stock and its movements at once.
LEMMA DeleteBalanced ==
  ASSUME ReadsInv, Balanced, NEW d \in Products, DeleteProduct(d)
  PROVE  Balanced'
<1>1. /\ quantity' = [quantity EXCEPT ![d] = None]
      /\ Movements' = {m \in Movements : m.product # d}
  BY DeleteForgets DEF ReadsInv
<1>2. quantity'[d] = None /\ \A q \in Products \ {d} : quantity'[q] = quantity[q]
  BY <1>1 DEF ReadsInv, LedgerShape
<1> SUFFICES ASSUME NEW p \in Products
             PROVE  IF quantity'[p] = None THEN MovementsOf(p)' = {}
                    ELSE OfType(MovementsOf(p), "adjustment")' = {} =>
                           quantity'[p] = Flow(p)'
  BY DEF Balanced
<1>3. CASE p = d
  BY <1>1, <1>2, <1>3 DEF MovementsOf
<1>4. CASE p # d
  <2>1. MovementsOf(p)' = MovementsOf(p)
    BY <1>1, <1>4 DEF MovementsOf
  <2>2. OfType(MovementsOf(p), "adjustment")' = OfType(MovementsOf(p), "adjustment")
        /\ Flow(p)' = Flow(p)
    BY <2>1 DEF Flow, OfType
  <2> QED
    BY <1>2, <1>4, <2>1, <2>2 DEF Balanced
<1> QED
  BY <1>3, <1>4

\* At the start there is neither stock nor movement.
LEMMA InitBalanced == Init => Balanced
<1> SUFFICES ASSUME Init PROVE Balanced
  OBVIOUS
<1>1. quantity = [p \in Products |-> 0] /\ ledger = [p \in Products |-> <<>>]
  BY DEF Init, LedgerInit
<1>2. Movements = {}
  <2>1. \A p \in Products : Len(ledger[p]) = 0
    BY <1>1
  <2> QED
    BY <2>1 DEF Movements
<1>3. ASSUME NEW p \in Products
      PROVE  /\ MovementsOf(p) = {} /\ quantity[p] = 0
             /\ OfType(MovementsOf(p), "in") = {} /\ OfType(MovementsOf(p), "out") = {}
  BY <1>1, <1>2 DEF MovementsOf, OfType
<1>4. \A p \in Products : Flow(p) = 0
  BY <1>3, TotalOfNone DEF Flow
<1> QED
  BY <1>3, <1>4 DEF Balanced

LEMMA NextBalanced == ReadsInv /\ Balanced /\ [Next]_vars => Balanced'
<1> SUFFICES ASSUME ReadsInv, Balanced, [Next]_vars PROVE Balanced'
  OBVIOUS
<1>1. CASE UNCHANGED <<quantity, ledger>>
  <2>1. Movements' = Movements /\ quantity' = quantity
    BY <1>1 DEF Movements
  <2>2. \A p : /\ MovementsOf(p)' = MovementsOf(p) /\ Flow(p)' = Flow(p)
               /\ OfType(MovementsOf(p), "adjustment")' = OfType(MovementsOf(p), "adjustment")
    BY <2>1 DEF MovementsOf, Flow, OfType
  <2> QED
    BY <2>1, <2>2 DEF Balanced
<1>2. CASE UNCHANGED vars
  BY <1>1, <1>2 DEF vars
<1>3. CASE \E filter \in Filters, size \in Sizes : Begin(filter, size)
  BY <1>1, <1>3 DEF Begin
<1>4. CASE ReadItems
  BY <1>1, <1>4 DEF ReadItems
<1>5. CASE ReadCount
  BY <1>1, <1>5 DEF ReadCount
<1>6. CASE End
  BY <1>1, <1>6 DEF End
<1> QED
  BY <1>2, <1>3, <1>4, <1>5, <1>6, MoveBalanced, DeleteBalanced DEF Next

\* The rows of stock of some products: the record that Stock makes of each.
OnShelf(p) ==
  [sku |-> Shelf[p].sku, unit_price |-> Shelf[p].unit_price, supplier |-> Shelf[p].supplier,
   is_active |-> Shelf[p].is_active, quantity |-> quantity[p]]

Left(some) == {p \in some : quantity[p] # None}

StockOf(some) == {OnShelf(p) : p \in Left(some)}

\* The movements of a type of some products.
MovesOf(some, t) == {m \in Movements : m.product \in some /\ m.type = t}

\* Each product has one row at most.
LEMMA StockFinite ==
  ASSUME NEW some, IsFiniteSet(some)
  PROVE  IsFiniteSet(StockOf(some))
<1> DEFINE fun == [p \in Left(some) |-> OnShelf(p)]
<1>1. Left(some) \in SUBSET some
  BY DEF Left
<1>2. IsFiniteSet(Left(some))
  BY <1>1, FS_Subset
<1>3. StockOf(some) = {fun[p] : p \in Left(some)}
  BY DEF StockOf
<1>4. fun \in Surjection(Left(some), {fun[p] : p \in Left(some)})
  BY DEF Surjection
<1> HIDE DEF fun
<1> QED
  BY <1>2, <1>3, <1>4, FS_Surjection

\* Product by product, what came in less what went out is what there is.
LEMMA FlowIsStock ==
  ASSUME ReadsInv, Balanced, OfType(Movements, "adjustment") = {}
  PROVE  TotalOf(MovesOf(Products, "in")) - TotalOf(MovesOf(Products, "out")) =
           TotalOf(StockOf(Products))
<1> DEFINE In(T) == TotalOf(MovesOf(T, "in"))
           Out(T) == TotalOf(MovesOf(T, "out"))
           Units(T) == TotalOf(StockOf(T))
           G == {T \in SUBSET Products : In(T) - Out(T) = Units(T)}
<1>1. IsFiniteSet(Products)
  BY ReadsAssumption
<1>2. ASSUME NEW T \in SUBSET Products
      PROVE  /\ IsFiniteSet(StockOf(T)) /\ \A row \in StockOf(T) : row.quantity \in Int
             /\ \A t : /\ IsFiniteSet(MovesOf(T, t))
                       /\ \A m \in MovesOf(T, t) : m.quantity \in Int
  <2>1. \A t : MovesOf(T, t) \in SUBSET Movements
    BY DEF MovesOf
  <2>2. \A t : IsFiniteSet(MovesOf(T, t)) /\ \A m \in MovesOf(T, t) : m.quantity \in Int
    BY <2>1, MovementsTyped
  <2>3. IsFiniteSet(StockOf(T))
    <3>1. IsFiniteSet(T)
      BY <1>1, FS_Subset
    <3> QED
      BY <3>1, StockFinite
  <2>4. \A row \in StockOf(T) : row.quantity \in Int
    BY DEF StockOf, Left, OnShelf, ReadsInv, LedgerShape
  <2> QED
    BY <2>2, <2>3, <2>4
<1>3. ASSUME NEW c \in Products
      PROVE  In({c}) - Out({c}) = Units({c})
  <2>1. /\ MovesOf({c}, "in") = OfType(MovementsOf(c), "in")
        /\ MovesOf({c}, "out") = OfType(MovementsOf(c), "out")
        /\ OfType(MovementsOf(c), "adjustment") = {}
    BY DEF MovesOf, OfType, MovementsOf
  <2>2. CASE quantity[c] = None
    <3>1. MovesOf({c}, "in") = {} /\ MovesOf({c}, "out") = {} /\ StockOf({c}) = {}
      BY <2>1, <2>2 DEF Balanced, OfType, StockOf, Left
    <3> QED
      BY <3>1, TotalOfNone
  <2>3. CASE quantity[c] # None
    <3>1. StockOf({c}) = {OnShelf(c)}
      BY <2>3 DEF StockOf, Left
    <3>2. OnShelf(c).quantity = quantity[c] /\ quantity[c] \in Int
      BY <2>3 DEF OnShelf, ReadsInv, LedgerShape
    <3>3. Units({c}) = quantity[c]
      BY <3>1, <3>2, TotalOfOne
    <3>4. quantity[c] = Flow(c)
      BY <2>1, <2>3 DEF Balanced
    <3> QED
      BY <2>1, <3>3, <3>4 DEF Flow
  <2> QED
    BY <2>2, <2>3
<1>4. ASSUME NEW T \in SUBSET Products, \A U \in SUBSET T : U # T => U \in G
      PROVE  T \in G
  <2>1. CASE T = {}
    <3>1. MovesOf(T, "in") = {} /\ MovesOf(T, "out") = {} /\ StockOf(T) = {}
      BY <2>1 DEF MovesOf, StockOf, Left
    <3>2. In(T) = 0 /\ Out(T) = 0 /\ Units(T) = 0
      BY <3>1, TotalOfNone
    <3> QED
      BY <3>2
  <2>2. CASE T # {}
    <3>1. PICK c \in T : TRUE
      BY <2>2
    <3> DEFINE U == T \ {c}
    <3>2. U \in SUBSET T /\ U # T /\ U \in SUBSET Products /\ {c} \in SUBSET Products
          /\ c \in Products
      OBVIOUS
    <3>3. In(U) - Out(U) = Units(U)
      BY <1>4, <3>2
    <3>4. In({c}) - Out({c}) = Units({c})
      BY <1>3
    <3>5. \A t : /\ MovesOf(T, t) = MovesOf(U, t) \cup MovesOf({c}, t)
                 /\ MovesOf(U, t) \cap MovesOf({c}, t) = {}
      BY DEF MovesOf
    <3>6. /\ StockOf(T) = StockOf(U) \cup StockOf({c})
          /\ StockOf(U) \cap StockOf({c}) = {}
      <4>1. \A p \in U : OnShelf(p).sku # OnShelf(c).sku
        BY <3>2, ReadsAssumption DEF OnShelf
      <4>2. \A p \in U : OnShelf(p) # OnShelf(c)
        BY <4>1
      <4> QED
        BY <4>2 DEF StockOf, Left
    <3> HIDE DEF U
    <3>7. \A t \in {"in", "out"} :
            /\ TotalOf(MovesOf(T, t)) = TotalOf(MovesOf(U, t)) + TotalOf(MovesOf({c}, t))
            /\ TotalOf(MovesOf(U, t)) \in Int /\ TotalOf(MovesOf({c}, t)) \in Int
      <4> SUFFICES ASSUME NEW t \in {"in", "out"}
                   PROVE  /\ TotalOf(MovesOf(T, t)) =
                               TotalOf(MovesOf(U, t)) + TotalOf(MovesOf({c}, t))
                          /\ TotalOf(MovesOf(U, t)) \in Int /\ TotalOf(MovesOf({c}, t)) \in Int
        OBVIOUS
      <4>1. /\ IsFiniteSet(MovesOf(U, t)) /\ IsFiniteSet(MovesOf({c}, t))
            /\ \A m \in MovesOf(U, t) \cup MovesOf({c}, t) : m.quantity \in Int
        BY <1>2, <3>2
      <4> QED
        BY <3>5, <4>1, TotalUnion
    <3>8. /\ Units(T) = Units(U) + Units({c}) /\ Units(U) \in Int /\ Units({c}) \in Int
      <4>1. /\ IsFiniteSet(StockOf(U)) /\ IsFiniteSet(StockOf({c}))
            /\ \A m \in StockOf(U) \cup StockOf({c}) : m.quantity \in Int
        BY <1>2, <3>2
      <4> QED
        BY <3>6, <4>1, TotalUnion
    <3>9. /\ In(T) = In(U) + In({c}) /\ In(U) \in Int /\ In({c}) \in Int
          /\ Out(T) = Out(U) + Out({c}) /\ Out(U) \in Int /\ Out({c}) \in Int
      BY <3>7
    <3> HIDE DEF In, Out, Units
    <3>10. In(T) - Out(T) = Units(T)
      BY <3>3, <3>4, <3>8, <3>9
    <3> QED
      BY <3>10
  <2> QED
    BY <2>1, <2>2
<1>5. Products \in G
  <2> HIDE DEF G
  <2> QED
    BY <1>1, <1>4, SubsetInduction
<1> QED
  BY <1>5

\* On every period the movements report counts the rows that the history
\* list has for the same filters, though each query has its own WHERE; and
\* where no movement is an adjustment, what came in less what went out is
\* the stock that the valuation reports, whatever was recorded and deleted.
THEOREM FiguresReconcile == Spec => []ReportsReconcile
<1>1. ReadsInv /\ Balanced => ReportsReconcile
  <2> SUFFICES ASSUME ReadsInv, Balanced PROVE ReportsReconcile
    OBVIOUS
  <2>1. ASSUME \A m \in Movements : m.type # "adjustment"
        PROVE  RowOf(MovementsSummary(Movements), "in").total_quantity -
                 RowOf(MovementsSummary(Movements), "out").total_quantity =
                 Valuation(None, FALSE).total_units
    <3>1. /\ RowOf(MovementsSummary(Movements), "in").total_quantity =
               TotalOf(OfType(Movements, "in"))
          /\ RowOf(MovementsSummary(Movements), "out").total_quantity =
               TotalOf(OfType(Movements, "out"))
      BY RowOfType DEF MovementTypes
    <3>2. /\ OfType(Movements, "in") = MovesOf(Products, "in")
          /\ OfType(Movements, "out") = MovesOf(Products, "out")
          /\ OfType(Movements, "adjustment") = {}
      BY <2>1, MovementsTyped DEF OfType, MovesOf
    <3>3. Valuation(None, FALSE).total_units = TotalOf(Stock)
      <4>1. {p \in Stock : (FALSE => p.is_active) /\ None \in {None, p.supplier}} = Stock
        OBVIOUS
      <4> QED
        BY <4>1 DEF Valuation, InventoryValuation
    <3>4. Stock = StockOf(Products)
      BY DEF Stock, StockOf, Left, OnShelf
    <3> QED
      BY <3>1, <3>2, <3>3, <3>4, FlowIsStock
  <2>2. \A filter \in Filters :
          LET report == Summary(filter) IN
          /\ report.total_movements = CountHistory([filter EXCEPT !.type = None])
          /\ \A t \in MovementTypes :
               RowOf(report, t).movement_count = CountHistory([filter EXCEPT !.type = t])
    BY CountsAgree
  <2> QED
    BY <2>1, <2>2 DEF ReportsReconcile
<1>2. Spec => []Balanced
  BY ReadsInvariant, InitBalanced, NextBalanced, PTL DEF Spec
<1> QED
  BY <1>1, <1>2, ReadsInvariant, PTL

----------------------------------------------------------------------------
(* The order of the valuation. *)

\* Rows of products as the schema has them: the sku is UNIQUE.
Priced(rows) ==
  /\ IsFiniteSet(rows)
  /\ \A p \in rows : p.sku \in Nat /\ p.unit_price \in Nat /\ p.quantity \in Nat
  /\ \A p, q \in rows : p.sku = q.sku => p = q

\* A price times a quantity.
LEMMA ValueType ==
  ASSUME NEW rows, Priced(rows), NEW p \in rows
  PROVE  StockValue(p) \in Nat
<1>1. p.unit_price \in Nat /\ p.quantity \in Nat
  BY DEF Priced
<1>2. \A x, y \in Nat : x * y \in Nat
  OBVIOUS
<1> QED
  BY <1>1, <1>2 DEF StockValue

\* ORDER BY puts any two rows in one order and no other.
LEMMA PrecedesOrders ==
  ASSUME NEW rows, Priced(rows), NEW p \in rows, NEW q \in rows, NEW r \in rows
  PROVE  /\ ~Precedes(p, p)
         /\ p # q => Precedes(p, q) \/ Precedes(q, p)
         /\ Precedes(p, q) /\ Precedes(q, r) => Precedes(p, r)
<1>1. StockValue(p) \in Nat /\ StockValue(q) \in Nat /\ StockValue(r) \in Nat
  BY ValueType
<1>2. p.sku \in Nat /\ q.sku \in Nat /\ r.sku \in Nat /\ (p # q => p.sku # q.sku)
  BY DEF Priced
<1> QED
  BY <1>1, <1>2 DEF Precedes

Rank(p, rows) == Cardinality({q \in rows : Precedes(q, p)})

\* How many rows come before a row.
LEMMA RankType ==
  ASSUME NEW rows, Priced(rows), NEW p \in rows
  PROVE  Rank(p, rows) \in Nat /\ Rank(p, rows) < Cardinality(rows)
<1> DEFINE first == {q \in rows : Precedes(q, p)}
<1>1. first \in SUBSET rows /\ p \notin first
  BY PrecedesOrders
<1>2. /\ IsFiniteSet(rows) /\ IsFiniteSet(first) /\ Cardinality(first) <= Cardinality(rows)
      /\ Cardinality(first) = Cardinality(rows) => rows = first
  BY <1>1, FS_Subset DEF Priced
<1>3. Cardinality(first) \in Nat /\ Cardinality(rows) \in Nat
  BY <1>2, FS_CardinalityType
<1>4. Rank(p, rows) = Cardinality(first)
  BY DEF Rank
<1> HIDE DEF first
<1> QED
  BY <1>1, <1>2, <1>3, <1>4

\* Fewer come before the row that precedes.
LEMMA RankOrder ==
  ASSUME NEW rows, Priced(rows), NEW p \in rows, NEW q \in rows, Precedes(p, q)
  PROVE  Rank(p, rows) < Rank(q, rows)
<1> DEFINE first(x) == {y \in rows : Precedes(y, x)}
<1>1. /\ first(p) \in SUBSET first(q) /\ p \in first(q) /\ p \notin first(p)
      /\ first(p) \in SUBSET rows /\ first(q) \in SUBSET rows
  BY PrecedesOrders
<1>2. IsFiniteSet(first(p)) /\ IsFiniteSet(first(q))
  BY <1>1, FS_Subset DEF Priced
<1>3. /\ Cardinality(first(p)) <= Cardinality(first(q))
      /\ Cardinality(first(p)) = Cardinality(first(q)) => first(q) = first(p)
  BY <1>1, <1>2, FS_Subset
<1>4. Cardinality(first(p)) \in Nat /\ Cardinality(first(q)) \in Nat
  BY <1>2, FS_CardinalityType
<1>5. Rank(p, rows) = Cardinality(first(p)) /\ Rank(q, rows) = Cardinality(first(q))
  BY DEF Rank
<1> HIDE DEF first
<1> QED
  BY <1>1, <1>3, <1>4, <1>5

\* There is a list of the rows in that order.
LEMMA ListExists ==
  ASSUME NEW rows, Priced(rows)
  PROVE  \E list \in SetToSeqs(rows) :
           \A i, j \in DOMAIN list : i < j => Precedes(list[i], list[j])
<1> DEFINE n == Cardinality(rows)
           place == [p \in rows |-> Rank(p, rows) + 1]
<1>1. IsFiniteSet(rows) /\ n \in Nat
  BY FS_CardinalityType DEF Priced
<1>2. place \in [rows -> 1..n]
  BY <1>1, RankType
<1>3. \A p, q \in rows : /\ Precedes(p, q) => place[p] < place[q]
                         /\ place[p] = place[q] => p = q
  <2> SUFFICES ASSUME NEW p \in rows, NEW q \in rows
               PROVE  /\ Precedes(p, q) => place[p] < place[q]
                      /\ place[p] = place[q] => p = q
    OBVIOUS
  <2>1. Rank(p, rows) \in Nat /\ Rank(q, rows) \in Nat
    BY RankType
  <2>2. /\ Precedes(p, q) => Rank(p, rows) < Rank(q, rows)
        /\ Precedes(q, p) => Rank(q, rows) < Rank(p, rows)
    BY RankOrder
  <2>3. p # q => Precedes(p, q) \/ Precedes(q, p)
    BY PrecedesOrders
  <2> QED
    BY <2>1, <2>2, <2>3
<1> HIDE DEF n, place
<1>4. IsFiniteSet(1..n) /\ Cardinality(1..n) = n
  BY <1>1, FS_Interval
<1>5. place \in Injection(rows, 1..n)
  BY <1>2, <1>3 DEF Injection, IsInjective
<1>6. place \in Surjection(rows, 1..n)
  BY <1>4, <1>5, FS_Injection DEF n
<1> DEFINE list == [i \in 1..n |-> CHOOSE p \in rows : place[p] = i]
<1>7. \A i \in 1..n : list[i] \in rows /\ place[list[i]] = i
  BY <1>6 DEF Surjection
<1>8. list \in [1..n -> rows] /\ DOMAIN list = 1..n
  BY <1>7
<1> HIDE DEF list
<1>9. ASSUME NEW i \in 1..n, NEW j \in 1..n, i < j
      PROVE  Precedes(list[i], list[j])
  <2>1. /\ list[i] \in rows /\ list[j] \in rows
        /\ place[list[i]] = i /\ place[list[j]] = j
    BY <1>7
  <2>2. list[i] # list[j]
    BY <1>9, <2>1
  <2>3. ~Precedes(list[j], list[i])
    BY <1>3, <1>9, <2>1
  <2> QED
    BY <2>1, <2>2, <2>3, PrecedesOrders
<1>10. list \in SetToSeqs(rows)
  BY <1>7, <1>8 DEF SetToSeqs, n
<1> QED
  BY <1>8, <1>9, <1>10

----------------------------------------------------------------------------
(* The sheets. *)

\* The rows in the order of the query.
Sorted(rows) ==
  CHOOSE list \in SetToSeqs(rows) : \A i, j \in DOMAIN list : i < j => Precedes(list[i], list[j])

\* A list has each of the rows once.
Lists(list, rows) ==
  /\ Len(list) \in Nat /\ Len(list) = Cardinality(rows)
  /\ \A i \in 1..Len(list) : list[i] \in rows
  /\ \A i, j \in 1..Len(list) : list[i] = list[j] => i = j
  /\ \A p \in rows : \E i \in 1..Len(list) : list[i] = p

LEMMA ItemsListed ==
  ASSUME NEW rows, Priced(rows)
  PROVE  Lists(Sorted(rows), rows)
<1> DEFINE n == Cardinality(rows)
           list == Sorted(rows)
<1>1. IsFiniteSet(rows) /\ n \in Nat
  BY FS_CardinalityType DEF Priced
<1>2. list \in SetToSeqs(rows)
  BY ListExists DEF Sorted
<1>3. list \in [1..n -> rows] /\ \A i, j \in 1..n : list[i] = list[j] => i = j
  BY <1>2 DEF SetToSeqs
<1> HIDE DEF n, list
<1>4. Len(list) = n
  BY <1>1, <1>3
<1>5. IsFiniteSet(1..n) /\ Cardinality(1..n) = n
  BY <1>1, FS_Interval
<1>6. list \in Injection(1..n, rows)
  BY <1>3 DEF Injection, IsInjective
<1>7. list \in Surjection(1..n, rows)
  BY <1>1, <1>5, <1>6, FS_Injection DEF n
<1> QED
  BY <1>1, <1>3, <1>4, <1>7 DEF n, list, Lists, Surjection

\* What utils/excel.py does with the rows and the totals of a valuation: the
\* rows stand under the header, one line is blank, the totals are the last.
LEMMA ValuationLayout ==
  ASSUME NEW report, NEW n \in Nat, Len(report.items) = n
  PROVE  LET sheet == ValuationSheet(report) IN
         /\ Block(sheet, ValuationHeader) = 5..(n + 4)
         /\ LastRow(sheet) = n + 8
         /\ sheet[n + 6][2] = report.total_products
         /\ sheet[n + 7][2] = report.total_units
         /\ sheet[n + 8][2] = report.total_value
         /\ \A k \in 5..(n + 4) : /\ sheet[k][2] = report.items[k - 4].quantity
                                  /\ sheet[k][4] = StockValue(report.items[k - 4])
<1> DEFINE sheet == ValuationSheet(report)
           totals == <<report.total_products, report.total_units, report.total_value>>
           filled == 5..(n + 4) \cup (n + 6)..(n + 8)
<1>1. sheet = [k \in filled |->
                 IF k >= n + 6 THEN <<"total", totals[k - (n + 6) + 1]>>
                 ELSE <<report.items[k - 4].sku, report.items[k - 4].quantity,
                        report.items[k - 4].unit_price, StockValue(report.items[k - 4])>>]
  <2>1. TotalsRow(ValuationHeader, n) = n + 6 /\ ValuationHeader + 1 = 5
        /\ ValuationHeader + n = n + 4 /\ ValuationHeader = 4 /\ (n + 6) + 2 = n + 8
    BY DEF TotalsRow, ValuationHeader
  <2> QED
    BY <2>1 DEF ValuationSheet
<1> HIDE DEF sheet
<1>2. /\ DOMAIN sheet = filled
      /\ sheet[n + 6] = <<"total", totals[1]>> /\ sheet[n + 7] = <<"total", totals[2]>>
      /\ sheet[n + 8] = <<"total", totals[3]>>
  <2>1. n + 6 \in filled /\ n + 7 \in filled /\ n + 8 \in filled
    OBVIOUS
  <2>2. (n + 6) - (n + 6) + 1 = 1 /\ (n + 7) - (n + 6) + 1 = 2 /\ (n + 8) - (n + 6) + 1 = 3
    OBVIOUS
  <2> HIDE DEF totals, filled
  <2> QED
    BY <1>1, <2>1, <2>2
<1>3. \A k \in 5..(n + 4) :
        sheet[k] = <<report.items[k - 4].sku, report.items[k - 4].quantity,
                     report.items[k - 4].unit_price, StockValue(report.items[k - 4])>>
  <2>1. \A k \in 5..(n + 4) : k \in filled /\ ~(k >= n + 6)
    OBVIOUS
  <2> HIDE DEF totals, filled
  <2> QED
    BY <1>1, <2>1
<1>4. Block(sheet, ValuationHeader) = 5..(n + 4)
  <2>1. Block(sheet, ValuationHeader) = {k \in filled : k > 4 /\ \A i \in 5..k : i \in filled}
    BY <1>2 DEF Block, ValuationHeader
  <2>2. \A k \in filled : (\A i \in 5..k : i \in filled) => k \in 5..(n + 4)
    <3> SUFFICES ASSUME NEW k \in filled, k \notin 5..(n + 4)
                 PROVE  \E i \in 5..k : i \notin filled
      OBVIOUS
    <3>1. n + 5 \in 5..k /\ n + 5 \notin filled
      OBVIOUS
    <3> QED
      BY <3>1
  <2>3. \A k \in 5..(n + 4) : k \in filled /\ k > 4 /\ \A i \in 5..k : i \in filled
    OBVIOUS
  <2> HIDE DEF filled
  <2> QED
    BY <2>1, <2>2, <2>3
<1>5. LastRow(sheet) = n + 8
  <2>1. n + 8 \in filled /\ \A i \in filled : i <= n + 8
    OBVIOUS
  <2>2. \A k \in filled : (\A i \in filled : i <= k) => k = n + 8
    OBVIOUS
  <2> HIDE DEF filled
  <2> QED
    BY <1>2, <2>1, <2>2 DEF LastRow
<1>6. /\ sheet[n + 6][2] = report.total_products /\ sheet[n + 7][2] = report.total_units
      /\ sheet[n + 8][2] = report.total_value
  BY <1>2
<1>7. \A k \in 5..(n + 4) : /\ sheet[k][2] = report.items[k - 4].quantity
                            /\ sheet[k][4] = StockValue(report.items[k - 4])
  BY <1>3
<1> QED
  BY <1>4, <1>5, <1>6, <1>7 DEF sheet

\* The cells of a column, from the row under the header on, hold what a
\* function makes of the listed rows.
Holds(sheet, column, fun, list) ==
  \A k \in 5..(Len(list) + 4) : sheet[k][column] = fun[list[k - 4]]

\* Then the column adds up to the sum over the rows.
LEMMA ColumnAddsUp ==
  ASSUME NEW rows, NEW list, Lists(list, rows),
         NEW fun, \A p \in rows : fun[p] \in Int,
         NEW sheet, NEW column, Holds(sheet, column, fun, list)
  PROVE  ColumnSum(sheet, 5..(Len(list) + 4), column) = SumFunctionOnSet(fun, rows)
<1> DEFINE n == Len(list)
<1>1. /\ n \in Nat
      /\ \A i \in 1..n : list[i] \in rows
      /\ \A i, j \in 1..n : list[i] = list[j] => i = j
      /\ \A p \in rows : \E i \in 1..n : list[i] = p
      /\ \A k \in 5..(n + 4) : sheet[k][column] = fun[list[k - 4]]
  BY DEF Lists, Holds
<1> HIDE DEF n
<1> DEFINE A == 5..(n + 4)
           gun == [k \in A |-> sheet[k][column]]
           b == [k \in A |-> list[k - 4]]
<1>2. IsFiniteSet(A)
  <2>1. n + 4 \in Int /\ 5 \in Int
    BY <1>1
  <2> QED
    BY <2>1, FS_Interval
<1>3. \A k \in A : k - 4 \in 1..n /\ b[k] = list[k - 4] /\ b[k] \in rows
  BY <1>1
<1>4. \A x, y \in A : b[x] = b[y] => x = y
  BY <1>1, <1>3
<1>5. \A x \in A : gun[x] = fun[b[x]] /\ gun[x] \in Int
  BY <1>1, <1>3
<1>6. {b[x] : x \in A} = rows
  <2>1. \A p \in rows : \E x \in A : b[x] = p
    <3> SUFFICES ASSUME NEW p \in rows
                 PROVE  \E x \in A : b[x] = p
      OBVIOUS
    <3>1. PICK i \in 1..n : list[i] = p
      BY <1>1
    <3>2. i + 4 \in A /\ (i + 4) - 4 = i
      BY <1>1
    <3> QED
      BY <3>1, <3>2
  <2> HIDE DEF b, A
  <2> QED
    BY <1>3, <2>1
<1>7. ColumnSum(sheet, A, column) = SumFunctionOnSet(gun, A)
  BY DEF ColumnSum, SumFunction
<1> HIDE DEF A, b, gun
<1>8. SumFunctionOnSet(gun, A) = SumFunctionOnSet(fun, {b[x] : x \in A})
  BY <1>2, <1>4, <1>5, SumReindexed
<1>9. ColumnSum(sheet, A, column) = SumFunctionOnSet(fun, rows)
  BY <1>6, <1>7, <1>8
<1> QED
  BY <1>9 DEF A, n

\* The three totals are those of the rows under the header.
LEMMA ValuationAddsUp ==
  ASSUME NEW rows, Priced(rows), NEW supplier, NEW only_active
  PROVE  LET sheet == ValuationSheet(InventoryValuation(rows, supplier, only_active))
             block == Block(sheet, ValuationHeader)
             last == LastRow(sheet)
         IN  /\ sheet[last - 2][2] = Cardinality(block)
             /\ sheet[last - 1][2] = ColumnSum(sheet, block, 2)
             /\ sheet[last][2] = ColumnSum(sheet, block, 4)
<1> DEFINE chosen == {p \in rows : (only_active => p.is_active) /\
                                   supplier \in {None, p.supplier}}
           report == InventoryValuation(rows, supplier, only_active)
           list == report.items
           n == Cardinality(chosen)
           sheet == ValuationSheet(report)
           units == [p \in chosen |-> p.quantity]
           value == [p \in chosen |-> StockValue(p)]
<1>1. Priced(chosen)
  <2>1. chosen \in SUBSET rows
    OBVIOUS
  <2> HIDE DEF chosen
  <2>2. IsFiniteSet(chosen)
    BY <2>1, FS_Subset DEF Priced
  <2> QED
    BY <2>1, <2>2 DEF Priced
<1>2. /\ list = Sorted(chosen)
      /\ report.total_products = n
      /\ report.total_units = SumFunctionOnSet(units, chosen)
      /\ report.total_value = SumFunctionOnSet(value, chosen)
  BY DEF InventoryValuation, TotalOf, SumFunction, Sorted
<1>3. /\ \A p \in chosen : units[p] = p.quantity /\ units[p] \in Int
      /\ \A p \in chosen : value[p] = StockValue(p) /\ value[p] \in Int
  <2>1. \A p \in chosen : p.quantity \in Int /\ StockValue(p) \in Int
    BY <1>1, ValueType DEF Priced
  <2> HIDE DEF chosen
  <2> QED
    BY <2>1
<1> HIDE DEF chosen, report, units, value
<1>4. Lists(list, chosen)
  BY <1>1, <1>2, ItemsListed
<1>5. n \in Nat /\ Len(list) = n /\ \A i \in 1..n : list[i] \in chosen
  BY <1>4 DEF Lists
<1> HIDE DEF n
<1>6. /\ Block(sheet, ValuationHeader) = 5..(n + 4)
      /\ LastRow(sheet) = n + 8
      /\ sheet[n + 6][2] = report.total_products
      /\ sheet[n + 7][2] = report.total_units
      /\ sheet[n + 8][2] = report.total_value
      /\ \A k \in 5..(n + 4) : /\ sheet[k][2] = list[k - 4].quantity
                               /\ sheet[k][4] = StockValue(list[k - 4])
  BY <1>5, ValuationLayout
<1> HIDE DEF sheet, list
<1>7. Holds(sheet, 2, units, list) /\ Holds(sheet, 4, value, list)
  <2>1. \A k \in 5..(n + 4) : k - 4 \in 1..n
    BY <1>5
  <2> QED
    BY <1>3, <1>5, <1>6, <2>1 DEF Holds
<1>8. ColumnSum(sheet, 5..(n + 4), 2) = SumFunctionOnSet(units, chosen)
  BY <1>3, <1>4, <1>5, <1>7, ColumnAddsUp
<1>9. ColumnSum(sheet, 5..(n + 4), 4) = SumFunctionOnSet(value, chosen)
  BY <1>3, <1>4, <1>5, <1>7, ColumnAddsUp
<1>10. Cardinality(5..(n + 4)) = n
  BY <1>5, FS_Interval
<1>11. (n + 8) - 2 = n + 6 /\ (n + 8) - 1 = n + 7
  BY <1>5
<1> QED
  BY <1>2, <1>6, <1>8, <1>9, <1>10, <1>11 DEF sheet, report

\* The sheet of the movements: a row for each type, the total at once below.
LEMMA MovementsAddUp ==
  ASSUME NEW movements, IsFiniteSet(movements), \A m \in movements : m.type \in MovementTypes
  PROVE  LET sheet == MovementsSheet(MovementsSummary(movements))
             last == LastRow(sheet)
         IN  sheet[last][2] = ColumnSum(sheet, Block(sheet, MovementsHeader) \ {last}, 2)
<1> DEFINE report == MovementsSummary(movements)
           sheet == MovementsSheet(report)
           fun == [k \in DOMAIN report.rows |-> report.rows[k].movement_count]
           cells == 6..8
           gun == [k \in cells |-> sheet[k][2]]
           b == [k \in cells |-> k - 5]
<1>1. /\ DOMAIN report.rows = 1..3 /\ Len(report.rows) = 3
      /\ \A k \in 1..3 : report.rows[k].movement_count \in Int
  <2>1. ASSUME NEW k \in 1..3
        PROVE  /\ DOMAIN report.rows = 1..3 /\ Len(report.rows) = 3
               /\ report.rows[k].movement_count \in Int
    <3> DEFINE group == OfType(movements, TypeOrder[k])
    <3>1. /\ DOMAIN report.rows = 1..3 /\ Len(report.rows) = 3
          /\ report.rows[k] = [type |-> TypeOrder[k], movement_count |-> Cardinality(group),
                               total_quantity |-> TotalOf(group)]
      BY SummaryRows
    <3>2. Cardinality(group) \in Int
      <4>1. group \in SUBSET movements
        BY DEF OfType
      <4> HIDE DEF group
      <4> QED
        BY <4>1, FS_Subset, FS_CardinalityType
    <3> HIDE DEF report, group
    <3> QED
      BY <3>1, <3>2
  <2>2. 1 \in 1..3
    OBVIOUS
  <2> HIDE DEF report
  <2> QED
    BY <2>1, <2>2
<1>2. report.total_movements = SumFunctionOnSet(fun, 1..3)
  BY <1>1 DEF MovementsSummary, SumFunction
<1> HIDE DEF report
<1>3. sheet = [k \in 6..9 |->
                 IF k > 8 THEN <<"total", report.total_movements>>
                 ELSE <<report.rows[k - 5].type, report.rows[k - 5].movement_count,
                        report.rows[k - 5].total_quantity>>]
  <2>1. MovementsHeader + 3 = 8 /\ MovementsHeader + 1 = 6 /\ MovementsHeader + 3 + 1 = 9
        /\ MovementsHeader = 5
    BY DEF MovementsHeader
  <2> QED
    BY <1>1, <2>1 DEF MovementsSheet
<1> HIDE DEF sheet
<1>4. /\ DOMAIN sheet = 6..9 /\ sheet[9][2] = report.total_movements
      /\ \A k \in 6..8 : sheet[k][2] = report.rows[k - 5].movement_count
  BY <1>3
<1>5. LastRow(sheet) = 9
  BY <1>4 DEF LastRow
<1>6. Block(sheet, MovementsHeader) \ {9} = 6..8
  BY <1>4 DEF Block, MovementsHeader
<1>7. ColumnSum(sheet, cells, 2) = SumFunctionOnSet(gun, cells)
  BY DEF ColumnSum, SumFunction
<1>8. /\ \A x \in cells : gun[x] = fun[b[x]] /\ gun[x] \in Int
      /\ \A x, y \in cells : b[x] = b[y] => x = y
  <2>1. \A x \in cells : x - 5 \in 1..3
    OBVIOUS
  <2> QED
    BY <1>1, <1>4, <2>1
<1>9. {b[x] : x \in cells} = 1..3
  <2>1. \A i \in 1..3 : i + 5 \in cells /\ b[i + 5] = i
    OBVIOUS
  <2>2. \A x \in cells : b[x] \in 1..3
    OBVIOUS
  <2> HIDE DEF b, cells
  <2> QED
    BY <2>1, <2>2
<1>10. IsFiniteSet(cells)
  <2>1. 6 \in Int /\ 8 \in Int
    OBVIOUS
  <2> QED
    BY <2>1, FS_Interval
<1> HIDE DEF fun, gun, b, cells
<1>11. SumFunctionOnSet(gun, cells) = SumFunctionOnSet(fun, {b[x] : x \in cells})
  BY <1>8, <1>10, SumReindexed
<1> QED
  BY <1>2, <1>4, <1>5, <1>6, <1>7, <1>9, <1>11 DEF sheet, report, cells

\* The stock is as the schema has it.
LEMMA StockPriced ==
  ASSUME ReadsInv
  PROVE  Priced(Stock)
<1>1. Stock = StockOf(Products)
  BY DEF Stock, StockOf, Left, OnShelf
<1>2. IsFiniteSet(StockOf(Products))
  BY ReadsAssumption, StockFinite
<1>3. \A p \in Products : quantity[p] # None => quantity[p] \in Nat
  BY DEF ReadsInv, LedgerShape
<1>4. \A p, q \in Products : Shelf[p].sku = Shelf[q].sku => p = q
  BY ReadsAssumption
<1>5. \A p \in Products : Shelf[p].sku \in Nat /\ Shelf[p].unit_price \in Nat
  BY ReadsAssumption
<1>6. \A row \in StockOf(Products) : \E p \in Products :
        row = OnShelf(p) /\ quantity[p] # None
  BY DEF StockOf, Left
<1>7. ASSUME NEW row \in StockOf(Products)
      PROVE  row.sku \in Nat /\ row.unit_price \in Nat /\ row.quantity \in Nat
  BY <1>3, <1>5, <1>6 DEF OnShelf
<1>8. ASSUME NEW row \in StockOf(Products), NEW other \in StockOf(Products), row.sku = other.sku
      PROVE  row = other
  <2>1. PICK p \in Products : row = OnShelf(p)
    BY <1>6
  <2>2. PICK q \in Products : other = OnShelf(q)
    BY <1>6
  <2> QED
    BY <1>4, <1>8, <2>1, <2>2 DEF OnShelf
<1> QED
  BY <1>1, <1>2, <1>7, <1>8 DEF Priced

\* In the workbooks the rows under the header add up to the totals below
\* them, for any number of products and of movements, and no cell is
\* written over: the row arithmetic of utils/excel.py.
THEOREM WorkbooksAddUp == Spec => []SheetsAddUp
<1>1. ReadsInv => SheetsAddUp
  <2> SUFFICES ASSUME ReadsInv PROVE SheetsAddUp
    OBVIOUS
  <2>1. ASSUME NEW filter \in Filters
        PROVE  LET sheet == MovementsSheet(Summary(filter))
                   last == LastRow(sheet)
               IN  sheet[last][2] = ColumnSum(sheet, Block(sheet, MovementsHeader) \ {last}, 2)
    <3> DEFINE rows == {m \in Movements : InSummary(m, filter)}
    <3>1. rows \in SUBSET Movements
      OBVIOUS
    <3>2. Summary(filter) = MovementsSummary(rows)
      BY DEF Summary
    <3> HIDE DEF rows
    <3>3. IsFiniteSet(rows) /\ \A m \in rows : m.type \in MovementTypes
      BY <3>1, MovementsTyped
    <3> QED
      BY <3>2, <3>3, MovementsAddUp
  <2>2. ASSUME NEW supplier \in Suppliers, NEW only_active \in BOOLEAN
        PROVE  LET sheet == ValuationSheet(Valuation(supplier, only_active))
                   block == Block(sheet, ValuationHeader)
                   last == LastRow(sheet)
               IN  /\ sheet[last - 2][2] = Cardinality(block)
                   /\ sheet[last - 1][2] = ColumnSum(sheet, block, 2)
                   /\ sheet[last][2] = ColumnSum(sheet, block, 4)
    BY StockPriced, ValuationAddsUp DEF Valuation
  <2> QED
    BY <2>1, <2>2 DEF SheetsAddUp
<1> QED
  BY <1>1, ReadsInvariant, PTL
=============================================================================
