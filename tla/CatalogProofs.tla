--------------------------- MODULE CatalogProofs ----------------------------
(***************************************************************************)
(* Proofs about Catalog for any number of requests, any rows to begin with *)
(* and any calls: keys are unique, every reference leads to a row of the   *)
(* right table, the history of movements is kept, all from the inductive   *)
(* invariant CatalogInv; and the seed script may be run again, from        *)
(* SeedInv on top of it.                                                   *)
(***************************************************************************)
EXTENDS Dashboard, FiniteSetTheorems, TLAPS

\* The database's transaction of the request is over, or not begun.
Done(r) == pc[r] \in {"refresh"} \cup Answers
Busy(r) == pc[r] # "idle" /\ ~Done(r)

\* No request will insert row k any more.
Old(k) == \A r \in Requests : k[1] = r => Done(r)

Inserting == {"create", "record", "seed"}
Updating == {"patch", "move", "acknowledge"}

\* What kind of call is at each statement.
KindSound(r) ==
  Busy(r) =>
    /\ op[r] \in Operations
    /\ pc[r] = "supplier" =>
         op[r].kind = "move" \/ (op[r].kind = "create" /\ op[r].table = "product")
    /\ pc[r] = "lock_product" => op[r].kind = "record"
    /\ pc[r] = "seed" => op[r].kind = "seed"
    /\ pc[r] = "insert" => op[r].kind \in Inserting
    /\ pc[r] = "reference" => op[r].kind \in Inserting \cup {"move", "acknowledge"}
    /\ pc[r] = "update" => op[r].kind \in Updating
    /\ pc[r] \in {"detach", "delete", "references"} => op[r].kind = "delete"

\* Nothing is written or locked before the first write and after the last.
QuietSound(r) ==
  pc[r] \in {"idle", "supplier", "lock_product", "update", "detach", "refresh"} \cup Answers =>
    staged[r] = NoWrites /\ locks[r] = NoLocks

\* What an insert knows: its place, and the supplier of the next product.
CursorSound(r) ==
  /\ pc[r] = "idle" => cursor[r] = NoCursor
  /\ Busy(r) /\ op[r].kind \in {"create", "record"} => cursor[r].next = 1
  /\ Busy(r) /\ op[r].kind = "create" => cursor[r].supplier = op[r].supplier
  /\ pc[r] = "seed" \/ (pc[r] \in {"insert", "reference"} /\ op[r].kind = "seed") =>
       /\ cursor[r].next \in 1..Len(Demo)
       /\ (\E m \in 1..(cursor[r].next - 1) : Demo[m].table = "supplier") =>
            cursor[r].supplier # None
  /\ pc[r] = "reference" /\ op[r].kind \in {"create", "seed"} => cursor[r].supplier # None
  /\ pc[r] \in {"seed", "insert", "reference"} /\ op[r].kind \in Inserting =>
       \A k \in RowIds : staged[r][k] # Unset =>
         k[2] <= cursor[r].next /\ (k[2] = cursor[r].next => pc[r] = "reference")

\* The row that an update or a delete loaded is, if it is still there, what
\* it was.
LoadedSound(r) ==
  Busy(r) /\ op[r].kind \in Updating \cup {"delete"} =>
    /\ loaded[r] # None
    /\ Old(op[r].row)
    /\ rows[op[r].row] # None => rows[op[r].row].table = loaded[r].table
    /\ op[r].kind \in {"patch", "delete"} => loaded[r].table \in Resources
    /\ op[r].kind = "move" => loaded[r].table = "product"
    /\ op[r].kind = "acknowledge" => loaded[r].table = "alert"
    /\ pc[r] = "detach" => loaded[r].table \in {"supplier", "product"}

\* A row written and not committed is a new one of the request's own, or
\* one it has locked.
StagedSound(r) ==
  \A k \in RowIds : staged[r][k] # Unset =>
    \/ /\ k[1] = r /\ rows[k] = None
       /\ staged[r][k] # None /\ op[r].kind \in Inserting
    \/ /\ rows[k] # None /\ locks[r][k] \in {"no_key", "update"}
       /\ staged[r][k] = None => op[r].kind = "delete" /\ locks[r][k] = "update"
       /\ staged[r][k] # None =>
            /\ op[r].kind \in Updating \cup {"delete"}
            /\ staged[r][k].table = rows[k].table /\ staged[r][k].key = rows[k].key
            /\ rows[k].table # "movement"

\* A row of the table that will still be there when request r commits.
Holds(r, j, table) ==
  /\ IsA(Seen(r, j), {table})
  /\ staged[r][j] # Unset \/ locks[r][j] # "none"

\* Where a row that was written refers to: the reference was there before,
\* or its row is held, or is about to be checked.
Secured(r, k, column, j, table) ==
  j # None =>
    \/ rows[k] # None /\ column = j
    \/ Holds(r, j, table)
    \/ pc[r] = "reference" /\ j = Referred(r) /\ table = ReferredTable(r)

ReferencesSound(r) ==
  \A k \in RowIds : staged[r][k] \notin {None, Unset} =>
    /\ Complete(staged[r][k])
    /\ Secured(r, k, rows[k].supplier, staged[r][k].supplier, "supplier")
    /\ Secured(r, k, rows[k].product, staged[r][k].product, "product")
    /\ Secured(r, k, rows[k].user, staged[r][k].user, "user")

RecordSound(r) ==
  pc[r] \in {"insert", "reference"} /\ op[r].kind = "record" =>
    Holds(r, op[r].product, "product")

\* What a delete has put away, and that nobody refers to it any more.
DeleteSound(r) ==
  Busy(r) /\ op[r].kind = "delete" =>
    /\ \A k \in RowIds : staged[r][k] = None =>
         \/ k = op[r].row /\ pc[r] \in {"references", "commit"}
         \/ rows[k].table \in {"movement", "alert"} /\ rows[k].product = op[r].row
    /\ pc[r] \in {"delete", "references"} =>
         \A k \in RowIds : staged[r][k] \in {None, Unset}
    /\ pc[r] = "references" => staged[r][op[r].row] = None
    /\ pc[r] = "commit" =>
         \/ rows[op[r].row] = None
         \/ /\ staged[r][op[r].row] = None
            /\ \A k \in RowIds : Seen(r, k) # None => ~Refers(Seen(r, k), op[r].row)

RequestSound(r) ==
  /\ KindSound(r) /\ QuietSound(r) /\ CursorSound(r) /\ LoadedSound(r)
  /\ StagedSound(r) /\ ReferencesSound(r) /\ RecordSound(r) /\ DeleteSound(r)

\* Rows are inserted by their own request.
RowsFresh == \A k \in RowIds : rows[k] # None => Old(k)

LocksApart ==
  \A r, s \in Requests : r # s => \A k \in RowIds : ~Conflict(locks[r][k], locks[s][k])

\* No two rows, committed or not, have one key.
KeysApart ==
  \A r \in Requests, k \in RowIds : staged[r][k] \notin {None, Unset} =>
    \A i \in RowIds :
      /\ HasKey(rows[i], staged[r][k].table, staged[r][k].key) => i = k
      /\ \A s \in Requests : HasKey(staged[s][i], staged[r][k].table, staged[r][k].key) => i = k

CatalogInv ==
  /\ CatalogTypeOK /\ UniqueKeys /\ EveryReferenceHolds
  /\ RowsFresh /\ LocksApart /\ KeysApart
  /\ \A r \in Requests : RequestSound(r)

CatalogNext == \E r \in Requests : Arrive(r) \/ Serve(r) \/ DetectDeadlock(r)

----------------------------------------------------------------------------
(* Facts about the data. *)

\* What a call carries, by its kind.
LEMMA OperationTypes ==
  ASSUME NEW o \in Operations
  PROVE  /\ o.kind \in Inserting \cup Updating \cup {"delete"}
         /\ o.kind = "create" =>
              o.table \in Resources /\ o.key \in STRING /\ o.supplier \in RowIds
         /\ o.kind \in Updating \cup {"delete"} => o.row \in RowIds
         /\ o.kind = "patch" => o.active \in BOOLEAN
         /\ o.kind = "move" => o.supplier \in RowIds
         /\ o.kind = "record" => o.product \in RowIds
         /\ o.kind \in {"record", "acknowledge"} => o.user \in RowIds
<1>1. o \in Operation
  BY CatalogAssumption
<1> QED
  BY <1>1 DEF Operation, Inserting, Updating

LEMMA RowTypes ==
  ASSUME NEW row \in Row
  PROVE  /\ row # None /\ row # Unset
         /\ row.table \in Tables /\ row.active \in BOOLEAN
         /\ row.supplier \in RowIds \cup {None} /\ row.product \in RowIds \cup {None}
         /\ row.user \in RowIds \cup {None}
BY MarkersAssumption DEF Row

LEMMA DemoTypes ==
  /\ Len(Demo) \in Nat /\ Len(Demo) >= 1
  /\ \A n \in 1..Len(Demo) : Demo[n] \in Resource
BY CatalogAssumption

LEMMA RowIdTypes ==
  /\ \A k \in RowIds : k = <<k[1], k[2]>> /\ k[1] \in Nat /\ k[2] \in Nat
  /\ \A r \in Requests : <<r, 1>> \in RowIds /\ \A n \in 1..Len(Demo) : <<r, n>> \in RowIds
  /\ Requests \subseteq Nat
BY CatalogAssumption, DemoTypes DEF RowIds, Requests

LEMMA ConflictFacts ==
  /\ \A m, n : Conflict(m, n) <=> Conflict(n, m)
  /\ \A m : ~Conflict(m, "none") /\ ~Conflict("none", m)
  /\ \A m, n : m \in {"no_key", "update"} /\ n \in {"no_key", "update"} => Conflict(m, n)
  /\ \A m : m # "none" => Conflict(m, "update")
BY DEF Conflict

----------------------------------------------------------------------------
(* A step of one request. *)

\* Whose writes and locks are over needs nothing more.
LEMMA DoneSound ==
  ASSUME NEW r \in Requests, Done(r)', staged'[r] = NoWrites, locks'[r] = NoLocks
  PROVE  RequestSound(r)'
<1>1. /\ pc'[r] \in {"refresh"} \cup Answers /\ pc'[r] # "idle" /\ ~Busy(r)'
      /\ pc'[r] \notin {"seed", "insert", "reference"}
  BY DEF Done, Busy, Answers
<1>2. \A k \in RowIds : staged'[r][k] = Unset
  BY DEF NoWrites
<1>3. KindSound(r)' /\ QuietSound(r)' /\ CursorSound(r)' /\ LoadedSound(r)'
  BY <1>1 DEF KindSound, QuietSound, CursorSound, LoadedSound
<1>4. StagedSound(r)' /\ ReferencesSound(r)' /\ RecordSound(r)' /\ DeleteSound(r)'
  BY <1>1, <1>2 DEF StagedSound, ReferencesSound, RecordSound, DeleteSound
<1> QED
  BY <1>3, <1>4 DEF RequestSound

\* A request is as sound as it was while others only read and lock.
LEMMA OthersKept ==
  ASSUME NEW s \in Requests, RequestSound(s), rows' = rows,
         pc'[s] = pc[s], op'[s] = op[s], loaded'[s] = loaded[s], cursor'[s] = cursor[s],
         staged'[s] = staged[s], locks'[s] = locks[s],
         \A k : Old(k) => Old(k)'
  PROVE  RequestSound(s)'
<1>1. /\ Done(s)' = Done(s) /\ Busy(s)' = Busy(s)
      /\ Referred(s)' = Referred(s) /\ ReferredTable(s)' = ReferredTable(s)
      /\ \A j : Seen(s, j)' = Seen(s, j)
  BY DEF Done, Busy, Referred, ReferredTable, Seen
<1>2. \A j, table : Holds(s, j, table)' = Holds(s, j, table)
  BY <1>1 DEF Holds
<1>3. KindSound(s)' /\ QuietSound(s)' /\ CursorSound(s)'
  BY <1>1 DEF RequestSound, KindSound, QuietSound, CursorSound
<1>4. LoadedSound(s)' /\ StagedSound(s)'
  BY <1>1 DEF RequestSound, LoadedSound, StagedSound
<1>5. ReferencesSound(s)'
  BY <1>1, <1>2 DEF RequestSound, ReferencesSound, Secured
<1>6. RecordSound(s)' /\ DeleteSound(s)'
  BY <1>1, <1>2 DEF RequestSound, RecordSound, DeleteSound
<1> QED
  BY <1>3, <1>4, <1>5, <1>6 DEF RequestSound

\* A step of request r that commits nothing.
Local(r) ==
  /\ rows' = rows
  /\ \A s \in Requests \ {r} :
       /\ pc'[s] = pc[s] /\ op'[s] = op[s] /\ loaded'[s] = loaded[s]
       /\ cursor'[s] = cursor[s] /\ staged'[s] = staged[s] /\ locks'[s] = locks[s]
  /\ Done(r) => Done(r)'

LEMMA LocalOld ==
  ASSUME NEW r \in Requests, Local(r)
  PROVE  \A k : Old(k) => Old(k)'
<1>1. \A s \in Requests : Done(s) => Done(s)'
  BY DEF Local, Done
<1> QED
  BY <1>1 DEF Old

LEMMA LocalStep ==
  ASSUME CatalogInv, NEW r \in Requests, Local(r), CatalogTypeOK', RequestSound(r)',
         \A s \in Requests \ {r}, k \in RowIds : ~Conflict(locks[s][k], locks'[r][k]),
         KeysApart'
  PROVE  CatalogInv'
<1>1. rows' = rows /\ \A k : Old(k) => Old(k)'
  BY LocalOld DEF Local
<1>2. UniqueKeys' /\ EveryReferenceHolds' /\ RowsFresh'
  BY <1>1 DEF CatalogInv, UniqueKeys, EveryReferenceHolds, RowsFresh, Leads
<1>3. \A s \in Requests : RequestSound(s)'
  BY <1>1, OthersKept DEF CatalogInv, Local
<1>4. LocksApart'
  <2> SUFFICES ASSUME NEW s \in Requests, NEW u \in Requests, s # u, NEW k \in RowIds
               PROVE  ~Conflict(locks'[s][k], locks'[u][k])
    BY DEF LocksApart
  <2> QED
    BY ConflictFacts DEF CatalogInv, LocksApart, Local
<1> QED
  BY <1>2, <1>3, <1>4 DEF CatalogInv

\* A request that writes no row, or drops what it wrote.
LEMMA KeysKept ==
  ASSUME CatalogInv, NEW r \in Requests, Local(r), staged'[r] \in {staged[r], NoWrites}
  PROVE  KeysApart'
<1>1. \A s \in Requests, k \in RowIds : staged'[s][k] \in {staged[s][k], Unset}
  BY DEF Local, NoWrites
<1> SUFFICES ASSUME NEW s \in Requests, NEW k \in RowIds, staged'[s][k] \notin {None, Unset},
                    NEW i \in RowIds
             PROVE  /\ HasKey(rows'[i], staged'[s][k].table, staged'[s][k].key) => i = k
                    /\ \A u \in Requests :
                         HasKey(staged'[u][i], staged'[s][k].table, staged'[s][k].key) => i = k
  BY DEF KeysApart
<1>2. staged'[s][k] = staged[s][k]
  BY <1>1
<1>3. \A u \in Requests : staged'[u][i] = staged[u][i] \/ staged'[u][i] = Unset
  BY <1>1
<1> QED
  BY <1>2, <1>3 DEF CatalogInv, KeysApart, Local, HasKey

LEMMA LocksKept ==
  ASSUME CatalogInv, NEW r \in Requests, locks'[r] \in {locks[r], NoLocks}
  PROVE  \A s \in Requests \ {r}, k \in RowIds : ~Conflict(locks[s][k], locks'[r][k])
BY ConflictFacts DEF CatalogInv, LocksApart, NoLocks

\* The end of a transaction without its writes.
LEMMA AbortStep ==
  ASSUME CatalogInv, NEW r \in Requests, NEW answer \in Answers, Abort(r, answer)
  PROVE  CatalogInv'
<1>1. /\ rows' = rows /\ op' = op
      /\ pc' = [pc EXCEPT ![r] = answer] /\ loaded' = [loaded EXCEPT ![r] = None]
      /\ cursor' = [cursor EXCEPT ![r] = NoCursor]
      /\ staged' = [staged EXCEPT ![r] = NoWrites] /\ locks' = [locks EXCEPT ![r] = NoLocks]
  BY DEF Abort, Goto, Release, Forget
<1>2. /\ NoWrites \in [RowIds -> Row \cup {None, Unset}]
      /\ NoLocks \in [RowIds -> {"none", "key_share", "no_key", "update"}]
      /\ NoCursor \in [next : Nat, supplier : RowIds \cup {None}]
  BY DEF NoWrites, NoLocks, NoCursor
<1>3. CatalogTypeOK'
  BY <1>1, <1>2 DEF CatalogInv, CatalogTypeOK
<1>4. pc'[r] = answer /\ staged'[r] = NoWrites /\ locks'[r] = NoLocks /\ Local(r)
  BY <1>1 DEF CatalogInv, CatalogTypeOK, Local, Done
<1>5. RequestSound(r)'
  BY <1>4, DoneSound DEF Done
<1> QED
  BY <1>3, <1>4, <1>5, KeysKept, LocksKept, LocalStep

----------------------------------------------------------------------------
(* Calls arrive and read, before they write anything. *)

\* A request that has written nothing goes on.
LEMMA QuietStep ==
  ASSUME CatalogInv, NEW r \in Requests, Local(r), CatalogTypeOK',
         staged[r] = NoWrites, locks[r] = NoLocks, staged'[r] = NoWrites, locks'[r] = NoLocks,
         KindSound(r)', CursorSound(r)', LoadedSound(r)',
         pc'[r] \in {"insert", "reference"} => op'[r].kind # "record",
         pc'[r] \in {"references", "commit"} => op'[r].kind # "delete"
  PROVE  CatalogInv'
<1>1. \A k \in RowIds : staged'[r][k] = Unset
  BY DEF NoWrites
<1>2. QuietSound(r)' /\ StagedSound(r)' /\ ReferencesSound(r)' /\ RecordSound(r)'
  BY <1>1 DEF QuietSound, StagedSound, ReferencesSound, RecordSound
<1>3. DeleteSound(r)'
  BY <1>1, MarkersAssumption DEF DeleteSound
<1>4. RequestSound(r)'
  BY <1>2, <1>3 DEF RequestSound
<1> QED
  BY <1>4, KeysKept, LocksKept, LocalStep

\* A call arrives.
Asks(r, o) ==
  /\ pc[r] = "idle"
  /\ op' = [op EXCEPT ![r] = o]
  /\ UNCHANGED <<rows, staged, locks>>

LEMMA AskFacts ==
  ASSUME CatalogInv, NEW r \in Requests, pc[r] = "idle"
  PROVE  /\ staged[r] = NoWrites /\ locks[r] = NoLocks /\ cursor[r] = NoCursor
         /\ ~Done(r) /\ ~Busy(r)
BY DEF CatalogInv, RequestSound, QuietSound, CursorSound, Done, Busy, Answers

LEMMA AskCreateStep ==
  ASSUME CatalogInv, NEW r \in Requests, NEW o \in Operations, AskCreate(r, o)
  PROVE  CatalogInv'
<1>0. CatalogTypeOK
  BY DEF CatalogInv
<1>1. /\ staged[r] = NoWrites /\ locks[r] = NoLocks /\ cursor[r] = NoCursor
      /\ ~Done(r) /\ pc[r] = "idle"
  BY AskFacts DEF AskCreate
<1>2. /\ rows' = rows /\ staged' = staged /\ locks' = locks /\ loaded' = loaded
      /\ op' = [op EXCEPT ![r] = o] /\ o.kind = "create"
      /\ cursor' = [cursor EXCEPT ![r].supplier = o.supplier]
      /\ pc' = [pc EXCEPT ![r] = pc'[r]]
      /\ pc'[r] \in {"conflict", "supplier", "insert"}
      /\ pc'[r] = "supplier" => o.table = "product"
  BY <1>0 DEF AskCreate, Goto, CatalogTypeOK
<1>3. o.supplier \in RowIds /\ op'[r] = o
  BY <1>0, <1>2, OperationTypes DEF CatalogTypeOK
<1>4. cursor'[r] = [next |-> 1, supplier |-> o.supplier]
  BY <1>0, <1>1, <1>2 DEF CatalogTypeOK, NoCursor
<1>5. /\ op' \in [Requests -> Operations \cup {None}]
      /\ cursor' \in [Requests -> [next : Nat, supplier : RowIds \cup {None}]]
  BY <1>0, <1>2, <1>3, <1>4 DEF CatalogTypeOK
<1>6. CatalogTypeOK'
  BY <1>0, <1>2, <1>5 DEF CatalogTypeOK, Answers
<1>7. Local(r)
  BY <1>0, <1>1, <1>2 DEF CatalogTypeOK, Local
<1>8. KindSound(r)'
  BY <1>2, <1>3 DEF KindSound, Inserting
<1>9. CursorSound(r)'
  BY <1>1, <1>2, <1>3, <1>4 DEF CursorSound, NoWrites
<1>10. LoadedSound(r)'
  BY <1>2, <1>3 DEF LoadedSound, Updating
<1> QED
  BY <1>1, <1>2, <1>3, <1>6, <1>7, <1>8, <1>9, <1>10, QuietStep

LEMMA AskRecordStep ==
  ASSUME CatalogInv, NEW r \in Requests, NEW o \in Operations, AskRecord(r, o)
  PROVE  CatalogInv'
<1>0. CatalogTypeOK
  BY DEF CatalogInv
<1>1. /\ staged[r] = NoWrites /\ locks[r] = NoLocks /\ cursor[r] = NoCursor
      /\ ~Done(r) /\ pc[r] = "idle"
  BY AskFacts DEF AskRecord
<1>2. /\ rows' = rows /\ staged' = staged /\ locks' = locks /\ loaded' = loaded
      /\ op' = [op EXCEPT ![r] = o] /\ o.kind = "record" /\ cursor' = cursor
      /\ pc' = [pc EXCEPT ![r] = pc'[r]]
      /\ pc'[r] \in {"unauthenticated", "lock_product"}
  BY <1>0 DEF AskRecord, Goto, CatalogTypeOK
<1>3. op'[r] = o /\ CatalogTypeOK'
  BY <1>0, <1>2 DEF CatalogTypeOK, Answers
<1>4. Local(r)
  BY <1>0, <1>1, <1>2 DEF CatalogTypeOK, Local
<1>5. KindSound(r)' /\ CursorSound(r)' /\ LoadedSound(r)'
  BY <1>1, <1>2, <1>3 DEF KindSound, CursorSound, LoadedSound, Updating, NoCursor
<1> QED
  BY <1>1, <1>2, <1>3, <1>4, <1>5, QuietStep

LEMMA AskSeedStep ==
  ASSUME CatalogInv, NEW r \in Requests, NEW o \in Operations, AskSeed(r, o)
  PROVE  CatalogInv'
<1>0. CatalogTypeOK
  BY DEF CatalogInv
<1>1. /\ staged[r] = NoWrites /\ locks[r] = NoLocks /\ cursor[r] = NoCursor
      /\ ~Done(r) /\ pc[r] = "idle"
  BY AskFacts DEF AskSeed
<1>2. /\ rows' = rows /\ staged' = staged /\ locks' = locks /\ loaded' = loaded
      /\ op' = [op EXCEPT ![r] = o] /\ o.kind = "seed" /\ cursor' = cursor
      /\ pc' = [pc EXCEPT ![r] = "seed"]
  BY DEF AskSeed, Goto
<1>3. op'[r] = o /\ pc'[r] = "seed" /\ CatalogTypeOK'
  BY <1>0, <1>2 DEF CatalogTypeOK, Answers
<1>4. Local(r)
  BY <1>0, <1>1, <1>2 DEF CatalogTypeOK, Local
<1>5. KindSound(r)' /\ LoadedSound(r)'
  BY <1>2, <1>3 DEF KindSound, LoadedSound, Updating
<1>6. cursor'[r].next = 1 /\ 1 \in 1..Len(Demo) /\ 1..(1 - 1) = {}
  BY <1>1, <1>2, DemoTypes DEF NoCursor
<1>7. CursorSound(r)'
  BY <1>1, <1>2, <1>3, <1>6 DEF CursorSound, NoWrites
<1> QED
  BY <1>1, <1>2, <1>3, <1>4, <1>5, <1>7, QuietStep

\* An update or a delete loads its row.
LEMMA AskLoadedStep ==
  ASSUME CatalogInv, NEW r \in Requests, NEW o \in Operations, Asks(r, o),
         o.kind \in Updating \cup {"delete"},
         cursor' = cursor, loaded' = [loaded EXCEPT ![r] = rows[o.row]],
         pc' = [pc EXCEPT ![r] = pc'[r]],
         pc'[r] \in {"supplier", "update", "commit", "detach", "delete"} \cup Answers,
         pc'[r] \notin Answers => rows[o.row] # None,
         rows[o.row] # None =>
           /\ o.kind \in {"patch", "delete"} => rows[o.row].table \in Resources
           /\ o.kind = "move" => rows[o.row].table = "product"
           /\ o.kind = "acknowledge" => rows[o.row].table = "alert",
         pc'[r] = "supplier" => o.kind = "move",
         pc'[r] \in {"update", "commit"} => o.kind \in Updating,
         pc'[r] \in {"detach", "delete"} => o.kind = "delete",
         pc'[r] = "detach" => rows[o.row].table \in {"supplier", "product"}
  PROVE  CatalogInv'
<1>0. CatalogTypeOK
  BY DEF CatalogInv
<1>1. /\ staged[r] = NoWrites /\ locks[r] = NoLocks /\ cursor[r] = NoCursor
      /\ ~Done(r) /\ pc[r] = "idle"
  BY AskFacts DEF Asks
<1>2. /\ rows' = rows /\ staged' = staged /\ locks' = locks
      /\ op' = [op EXCEPT ![r] = o] /\ o.row \in RowIds
  BY OperationTypes DEF Asks
<1>3. op'[r] = o /\ loaded'[r] = rows[o.row]
  BY <1>0, <1>2 DEF CatalogTypeOK
<1>4. CatalogTypeOK'
  BY <1>0, <1>2 DEF CatalogTypeOK
<1>5. Local(r)
  BY <1>0, <1>1, <1>2 DEF CatalogTypeOK, Local
<1>6. KindSound(r)'
  BY <1>3 DEF KindSound, Updating, Inserting, Answers
<1>7. CursorSound(r)'
  BY <1>1, <1>3 DEF CursorSound, Answers, Updating
<1>8. LoadedSound(r)'
  <2> SUFFICES ASSUME Busy(r)'
               PROVE  LoadedSound(r)'
    BY DEF LoadedSound
  <2>1. rows[o.row] # None
    BY DEF Busy, Done
  <2>2. Old(o.row)'
    BY <1>2, <1>5, <2>1, LocalOld DEF CatalogInv, RowsFresh
  <2> QED
    BY <1>2, <1>3, <2>1, <2>2 DEF LoadedSound, Answers
<1>9. /\ pc'[r] \notin {"insert", "reference", "references"}
      /\ pc'[r] = "commit" => op'[r].kind # "delete"
  BY <1>3 DEF Updating, Answers
<1> QED
  BY <1>1, <1>2, <1>4, <1>5, <1>6, <1>7, <1>8, <1>9, QuietStep

LEMMA AskUpdateStep ==
  ASSUME CatalogInv, NEW r \in Requests, NEW o \in Operations, AskUpdate(r, o)
  PROVE  CatalogInv'
<1>1. Asks(r, o) /\ o.kind \in {"patch", "move"}
  BY DEF AskUpdate, Asks
<1>2. pc \in [Requests -> {"idle", "supplier", "lock_product", "insert", "reference", "seed",
                "update", "detach", "delete", "references", "commit", "refresh"} \cup Answers]
  BY DEF CatalogInv, CatalogTypeOK
<1>3. /\ cursor' = cursor /\ loaded' = [loaded EXCEPT ![r] = rows[o.row]]
      /\ pc' = [pc EXCEPT ![r] = pc'[r]]
      /\ pc'[r] \in {"not_found", "supplier", "commit", "update"}
      /\ pc'[r] # "not_found" => rows[o.row] # None
      /\ pc'[r] = "supplier" => o.kind = "move"
  BY <1>2 DEF AskUpdate, Goto
<1>4. rows[o.row] # None =>
        /\ o.kind = "patch" => rows[o.row].table \in Resources
        /\ o.kind = "move" => rows[o.row].table = "product"
  BY DEF AskUpdate, IsA
<1> QED
  BY <1>1, <1>3, <1>4, AskLoadedStep DEF Updating, Answers

LEMMA AskAcknowledgeStep ==
  ASSUME CatalogInv, NEW r \in Requests, NEW o \in Operations, AskAcknowledge(r, o)
  PROVE  CatalogInv'
<1>1. Asks(r, o) /\ o.kind = "acknowledge"
  BY DEF AskAcknowledge, Asks
<1>2. pc \in [Requests -> {"idle", "supplier", "lock_product", "insert", "reference", "seed",
                "update", "detach", "delete", "references", "commit", "refresh"} \cup Answers]
  BY DEF CatalogInv, CatalogTypeOK
<1>3. /\ cursor' = cursor /\ loaded' = [loaded EXCEPT ![r] = rows[o.row]]
      /\ pc' = [pc EXCEPT ![r] = pc'[r]]
      /\ pc'[r] \in {"unauthenticated", "not_found", "update"}
      /\ pc'[r] = "update" => rows[o.row] # None
  BY <1>2 DEF AskAcknowledge, Goto
<1>4. rows[o.row] # None => rows[o.row].table = "alert"
  BY DEF AskAcknowledge, IsA
<1> QED
  BY <1>1, <1>3, <1>4, AskLoadedStep DEF Updating, Answers

LEMMA AskDeleteStep ==
  ASSUME CatalogInv, NEW r \in Requests, NEW o \in Operations, AskDelete(r, o)
  PROVE  CatalogInv'
<1>1. Asks(r, o) /\ o.kind = "delete"
  BY DEF AskDelete, Asks
<1>2. pc \in [Requests -> {"idle", "supplier", "lock_product", "insert", "reference", "seed",
                "update", "detach", "delete", "references", "commit", "refresh"} \cup Answers]
  BY DEF CatalogInv, CatalogTypeOK
<1>3. rows[o.row] # None => rows[o.row].table \in Resources
  BY DEF AskDelete, IsA
<1>4. /\ cursor' = cursor /\ loaded' = [loaded EXCEPT ![r] = rows[o.row]]
      /\ pc' = [pc EXCEPT ![r] = pc'[r]]
      /\ pc'[r] \in {"not_found", "delete", "detach"}
      /\ pc'[r] # "not_found" => rows[o.row] # None
      /\ pc'[r] = "detach" => rows[o.row].table \in {"supplier", "product"}
  BY <1>2, <1>3 DEF AskDelete, Goto, Resources
<1> QED
  BY <1>1, <1>3, <1>4, AskLoadedStep DEF Updating, Answers

----------------------------------------------------------------------------
(* Reads, and the lock on a product. *)

LEMMA BusyFacts ==
  ASSUME CatalogInv, NEW r \in Requests, pc[r] # "idle", pc[r] \notin {"refresh"} \cup Answers
  PROVE  /\ Busy(r) /\ ~Done(r) /\ op[r] \in Operations
         /\ cursor[r] \in [next : Nat, supplier : RowIds \cup {None}]
         /\ RequestSound(r) /\ CatalogTypeOK
BY DEF CatalogInv, RequestSound, KindSound, Busy, Done, CatalogTypeOK

LEMMA Unblocked ==
  ASSUME NEW r \in Requests, BlockedBy(r) = {}, NEW want \in Wants(r), NEW s \in Requests \ {r}
  PROVE  ~Conflict(locks[s][want[1]], want[2])
BY DEF BlockedBy

LEMMA LockApart ==
  ASSUME CatalogInv, NEW r \in Requests, NEW i \in RowIds, NEW mode,
         \A s \in Requests \ {r} : ~Conflict(locks[s][i], mode),
         locks'[r] = [locks[r] EXCEPT ![i] = mode]
  PROVE  \A s \in Requests \ {r}, k \in RowIds : ~Conflict(locks[s][k], locks'[r][k])
BY DEF CatalogInv, CatalogTypeOK, LocksApart

LEMMA FindSupplierStep ==
  ASSUME CatalogInv, NEW r \in Requests, FindSupplier(r)
  PROVE  CatalogInv'
<1>1. /\ Busy(r) /\ ~Done(r) /\ op[r] \in Operations /\ pc[r] = "supplier"
      /\ RequestSound(r) /\ CatalogTypeOK
  BY BusyFacts DEF FindSupplier, Answers
<1>2. /\ rows' = rows /\ staged' = staged /\ locks' = locks /\ loaded' = loaded
      /\ op' = op /\ cursor' = cursor
      /\ pc' = [pc EXCEPT ![r] = pc'[r]]
      /\ pc'[r] \in {"not_found", "insert", "commit", "update"}
      /\ pc'[r] = "insert" => op[r].kind = "create"
      /\ pc'[r] \in {"commit", "update"} => op[r].kind # "create"
  BY <1>1 DEF FindSupplier, Goto, CatalogTypeOK
<1>3. op[r].kind \in {"move", "create"} /\ staged[r] = NoWrites /\ locks[r] = NoLocks
  BY <1>1 DEF RequestSound, KindSound, QuietSound
<1>4. CatalogTypeOK' /\ Local(r)
  BY <1>1, <1>2 DEF CatalogTypeOK, Local, Answers
<1>5. KindSound(r)'
  BY <1>1, <1>2, <1>3 DEF KindSound, Inserting, Updating, Busy
<1>6. CursorSound(r)'
  BY <1>1, <1>2, <1>3 DEF RequestSound, CursorSound, Busy, NoWrites
<1>7. LoadedSound(r)'
  <2>1. \A k : Old(k) => Old(k)'
    BY <1>4, LocalOld
  <2> QED
    BY <1>1, <1>2, <1>3, <2>1 DEF RequestSound, LoadedSound
<1> QED
  BY <1>2, <1>3, <1>4, <1>5, <1>6, <1>7, QuietStep

LEMMA LockProductStep ==
  ASSUME CatalogInv, NEW r \in Requests, BlockedBy(r) = {}, LockProduct(r)
  PROVE  CatalogInv'
<1> DEFINE i == op[r].product
<1>1. /\ Busy(r) /\ ~Done(r) /\ op[r] \in Operations /\ pc[r] = "lock_product"
      /\ RequestSound(r) /\ CatalogTypeOK
  BY BusyFacts DEF LockProduct, Answers
<1>2. CASE Abort(r, "not_found")
  BY <1>2, AbortStep DEF Answers
<1>3. CASE /\ IsA(rows[i], {"product"}) /\ Lock(r, i, "update") /\ Goto(r, "insert")
           /\ UNCHANGED <<rows, op, loaded, cursor, staged>>
  <2>1. op[r].kind = "record" /\ i \in RowIds /\ staged[r] = NoWrites
    BY <1>1, OperationTypes DEF RequestSound, KindSound, QuietSound
  <2>2. /\ pc' = [pc EXCEPT ![r] = "insert"]
        /\ locks' = [locks EXCEPT ![r] = [locks[r] EXCEPT ![i] = "update"]]
        /\ rows' = rows /\ op' = op /\ loaded' = loaded /\ cursor' = cursor /\ staged' = staged
    BY <1>3 DEF Lock, Goto
  <2>3. pc'[r] = "insert" /\ locks'[r] = [locks[r] EXCEPT ![i] = "update"] /\ locks'[r][i] = "update"
    BY <1>1, <2>1, <2>2 DEF CatalogTypeOK
  <2>4. CatalogTypeOK' /\ Local(r)
    BY <1>1, <2>1, <2>2 DEF CatalogTypeOK, Local
  <2>5. <<i, "update">> \in Wants(r)
    BY <1>1 DEF Wants
  <2>6. \A s \in Requests \ {r} : ~Conflict(locks[s][i], "update")
    BY <2>5, Unblocked
  <2>7. \A k \in RowIds : staged'[r][k] = Unset
    BY <2>1, <2>2 DEF NoWrites
  <2>8. KindSound(r)' /\ QuietSound(r)' /\ LoadedSound(r)'
    BY <1>1, <2>1, <2>2, <2>3 DEF KindSound, QuietSound, LoadedSound, Inserting, Updating, Answers
  <2>9. CursorSound(r)'
    BY <1>1, <2>1, <2>2, <2>3, <2>7 DEF RequestSound, CursorSound
  <2>10. StagedSound(r)' /\ ReferencesSound(r)' /\ DeleteSound(r)'
    BY <2>1, <2>2, <2>7 DEF StagedSound, ReferencesSound, DeleteSound
  <2>11. RecordSound(r)'
    BY <1>3, <2>1, <2>2, <2>3, <2>7 DEF RecordSound, Holds, Seen
  <2> QED
    BY <2>1, <2>2, <2>3, <2>4, <2>6, <2>8, <2>9, <2>10, <2>11, LockApart, KeysKept, LocalStep
       DEF RequestSound
<1> QED
  BY <1>2, <1>3 DEF LockProduct

LEMMA RefreshStep ==
  ASSUME CatalogInv, NEW r \in Requests, Refresh(r)
  PROVE  CatalogInv'
<1>1. CatalogTypeOK /\ RequestSound(r) /\ pc[r] = "refresh"
  BY DEF CatalogInv, Refresh
<1>2. /\ rows' = rows /\ staged' = staged /\ locks' = locks /\ loaded' = loaded
      /\ op' = op /\ cursor' = cursor
      /\ pc' = [pc EXCEPT ![r] = pc'[r]]
      /\ pc'[r] \in {"ok", "error"}
  BY <1>1 DEF Refresh, Goto, CatalogTypeOK
<1>3. staged[r] = NoWrites /\ locks[r] = NoLocks
  BY <1>1 DEF RequestSound, QuietSound
<1>4. CatalogTypeOK' /\ Local(r) /\ Done(r)'
  BY <1>1, <1>2 DEF CatalogTypeOK, Local, Answers, Done
<1>5. RequestSound(r)'
  BY <1>2, <1>3, <1>4, DoneSound
<1> QED
  BY <1>2, <1>3, <1>4, <1>5, KeysKept, LocksKept, LocalStep

----------------------------------------------------------------------------
(* Inserts, the seed's included. *)

LEMMA SeedStep ==
  ASSUME CatalogInv, NEW r \in Requests, Seed(r)
  PROVE  CatalogInv'
<1> DEFINE n == cursor[r].next
<1>1. /\ Busy(r) /\ ~Done(r) /\ op[r] \in Operations /\ pc[r] = "seed"
      /\ RequestSound(r) /\ CatalogTypeOK /\ n \in Nat
      /\ cursor[r].supplier \in RowIds \cup {None}
  BY BusyFacts DEF Seed, Answers
<1>2. op[r].kind = "seed" /\ n \in 1..Len(Demo)
  BY <1>1 DEF RequestSound, KindSound, CursorSound
<1>3. /\ rows' = rows /\ staged' = staged /\ locks' = locks /\ loaded' = loaded /\ op' = op
      /\ pc' = [pc EXCEPT ![r] = pc'[r]]
      /\ \/ pc'[r] = "insert" /\ cursor' = cursor
         \/ /\ pc'[r] \in {"seed", "commit"}
            /\ pc'[r] = "seed" => n + 1 <= Len(Demo)
            /\ \E i \in RowIds : cursor' = [cursor EXCEPT ![r] =
                 [next |-> n + 1,
                  supplier |-> IF Demo[n].table = "supplier" THEN i ELSE cursor[r].supplier]]
  <2>1. rows' = rows /\ staged' = staged /\ locks' = locks /\ loaded' = loaded /\ op' = op
    BY DEF Seed
  <2>2. CASE Goto(r, "insert") /\ UNCHANGED cursor
    BY <1>1, <2>1, <2>2 DEF Goto, CatalogTypeOK
  <2>3. CASE \E i \in RowIds :
               /\ cursor' = [cursor EXCEPT ![r] =
                    [next |-> SkipSeed(r),
                     supplier |-> IF Demo[n].table = "supplier" THEN i ELSE @.supplier]]
               /\ Goto(r, IF SkipSeed(r) > Len(Demo) THEN "commit" ELSE "seed")
    <3>1. SkipSeed(r) = n + 1 /\ Len(Demo) \in Nat
      BY DemoTypes DEF SkipSeed
    <3>2. /\ pc' = [pc EXCEPT ![r] = pc'[r]] /\ pc'[r] \in {"seed", "commit"}
          /\ pc'[r] = "seed" => n + 1 <= Len(Demo)
      BY <1>1, <2>3, <3>1 DEF Goto, CatalogTypeOK
    <3> QED
      BY <2>1, <2>3, <3>1, <3>2
  <2> QED
    BY <2>2, <2>3 DEF Seed
<1>4. /\ cursor' \in [Requests -> [next : Nat, supplier : RowIds \cup {None}]]
      /\ \A s \in Requests \ {r} : cursor'[s] = cursor[s]
  <2>1. cursor \in [Requests -> [next : Nat, supplier : RowIds \cup {None}]] /\ n + 1 \in Nat
    BY <1>1 DEF CatalogTypeOK
  <2>2. CASE cursor' = cursor
    BY <2>1, <2>2
  <2>3. CASE \E i \in RowIds : cursor' = [cursor EXCEPT ![r] =
               [next |-> n + 1,
                supplier |-> IF Demo[n].table = "supplier" THEN i ELSE cursor[r].supplier]]
    <3>1. PICK i \in RowIds : cursor' = [cursor EXCEPT ![r] =
               [next |-> n + 1,
                supplier |-> IF Demo[n].table = "supplier" THEN i ELSE cursor[r].supplier]]
      BY <2>3
    <3>2. [next |-> n + 1,
           supplier |-> IF Demo[n].table = "supplier" THEN i ELSE cursor[r].supplier]
            \in [next : Nat, supplier : RowIds \cup {None}]
      BY <1>1, <2>1
    <3> QED
      BY <2>1, <3>1, <3>2
  <2> QED
    BY <1>3, <2>2, <2>3
<1>5. CatalogTypeOK' /\ Local(r)
  BY <1>1, <1>3, <1>4 DEF CatalogTypeOK, Local
<1>6. KindSound(r)' /\ QuietSound(r)' /\ LoadedSound(r)' /\ RecordSound(r)' /\ DeleteSound(r)'
  BY <1>1, <1>2, <1>3
     DEF KindSound, QuietSound, LoadedSound, RecordSound, DeleteSound, Inserting, Updating, Answers
<1>7. /\ (\E m \in 1..(n - 1) : Demo[m].table = "supplier") => cursor[r].supplier # None
      /\ \A k \in RowIds : staged[r][k] # Unset => k[2] <= n /\ k[2] # n
  BY <1>1, <1>2 DEF RequestSound, CursorSound, Inserting
<1>8. CursorSound(r)'
  <2>1. CASE pc'[r] = "insert" /\ cursor' = cursor
    BY <1>2, <1>3, <1>7, <2>1 DEF CursorSound
  <2>2. CASE pc'[r] = "commit"
    BY <1>2, <1>3, <2>2 DEF CursorSound
  <2>3. CASE pc'[r] = "seed"
    <3>1. PICK i \in RowIds : cursor' = [cursor EXCEPT ![r] =
                 [next |-> n + 1,
                  supplier |-> IF Demo[n].table = "supplier" THEN i ELSE cursor[r].supplier]]
      BY <1>3, <2>3
    <3>2. /\ cursor'[r].next = n + 1
          /\ cursor'[r].supplier = IF Demo[n].table = "supplier" THEN i ELSE cursor[r].supplier
      BY <1>1, <3>1 DEF CatalogTypeOK
    <3>3. n + 1 \in 1..Len(Demo)
      BY <1>1, <1>3, <2>3, DemoTypes
    <3>4. \A m \in 1..(n + 1 - 1) : m = n \/ m \in 1..(n - 1)
      BY <1>2
    <3>5. (\E m \in 1..(n + 1 - 1) : Demo[m].table = "supplier") => cursor'[r].supplier # None
      BY <1>7, <3>2, <3>4, MarkersAssumption
    <3>6. \A k \in RowIds : staged[r][k] # Unset => k[2] <= n + 1 /\ k[2] # n + 1
      BY <1>1, <1>7, RowIdTypes
    <3> QED
      BY <1>2, <1>3, <2>3, <3>2, <3>3, <3>5, <3>6 DEF CursorSound
  <2> QED
    BY <1>3, <2>1, <2>2, <2>3
<1>9. /\ \A j, table : Holds(r, j, table) => Holds(r, j, table)'
      /\ pc[r] # "reference"
  BY <1>1, <1>3 DEF Holds, Seen
<1>10. StagedSound(r)' /\ ReferencesSound(r)'
  BY <1>1, <1>3, <1>9 DEF RequestSound, StagedSound, ReferencesSound, Secured
<1> QED
  BY <1>3, <1>5, <1>6, <1>8, <1>10, KeysKept, LocksKept, LocalStep DEF RequestSound

\* Which row a foreign key's check looks at.
LEMMA ReferredFacts ==
  ASSUME NEW r \in Requests
  PROVE  /\ op[r].kind \in {"record", "acknowledge"} =>
              Referred(r) = op[r].user /\ ReferredTable(r) = "user"
         /\ op[r].kind = "move" =>
              Referred(r) = op[r].supplier /\ ReferredTable(r) = "supplier"
         /\ op[r].kind \in {"create", "seed"} =>
              Referred(r) = cursor[r].supplier /\ ReferredTable(r) = "supplier"
BY DEF Referred, ReferredTable

LEMMA ReferredKept ==
  ASSUME NEW r, op'[r] = op[r], cursor'[r] = cursor[r]
  PROVE  Referred(r)' = Referred(r) /\ ReferredTable(r)' = ReferredTable(r)
BY DEF Referred, ReferredTable

\* The row that an insert writes.
LEMMA NewRowFacts ==
  ASSUME CatalogInv, NEW r \in Requests, pc[r] = "insert"
  PROVE  /\ Wanted(r).table \in {"supplier", "product", "user", "movement"}
         /\ Wanted(r).table = "movement" <=> op[r].kind = "record"
         /\ op[r].kind = "seed" => Wanted(r) = Demo[cursor[r].next]
         /\ Wanted(r).table = "product" => cursor[r].supplier # None
         /\ NewRow(r) \in Row /\ Complete(NewRow(r))
         /\ NewRow(r).table = Wanted(r).table /\ NewRow(r).key = Wanted(r).key
         /\ NewRow(r).supplier # None => NewRow(r).supplier = cursor[r].supplier /\ op[r].kind # "record"
         /\ NewRow(r).product # None => NewRow(r).product = op[r].product /\ op[r].kind = "record"
         /\ NewRow(r).user # None => NewRow(r).user = op[r].user /\ op[r].kind = "record"
<1> DEFINE w == Wanted(r)
<1>1. /\ Busy(r) /\ op[r] \in Operations /\ op[r].kind \in Inserting
      /\ RequestSound(r) /\ CatalogTypeOK
      /\ cursor[r].supplier \in RowIds \cup {None}
  BY BusyFacts DEF RequestSound, KindSound, Answers
<1>2. /\ op[r].kind = "record" => w.table = "movement" /\ w.key = None
      /\ op[r].kind # "record" => w.table \in Resources /\ w.key \in STRING
      /\ op[r].kind = "seed" => w = Demo[cursor[r].next]
      /\ op[r].kind = "create" => cursor[r].supplier \in RowIds
  <2>1. CASE op[r].kind = "create"
    BY <1>1, <2>1, OperationTypes DEF Wanted, RequestSound, CursorSound
  <2>2. CASE op[r].kind = "record"
    BY <2>2 DEF Wanted
  <2>3. CASE op[r].kind = "seed"
    <3>1. w = Demo[cursor[r].next]
      BY <2>3 DEF Wanted
    <3>2. Demo[cursor[r].next] \in Resource
      BY <1>1, <2>3, DemoTypes DEF RequestSound, CursorSound
    <3> QED
      BY <2>3, <3>1, <3>2 DEF Resource
  <2> QED
    BY <1>1, <2>1, <2>2, <2>3 DEF Inserting
<1>3. w.table = "product" => cursor[r].supplier # None
  <2>1. CASE op[r].kind = "seed" /\ w.table = "product"
    BY <1>1, <1>2, <2>1, CatalogAssumption DEF RequestSound, CursorSound
  <2> QED
    BY <1>1, <1>2, <2>1, MarkersAssumption DEF Inserting
<1>4. /\ op[r].kind = "record" => op[r].product \in RowIds /\ op[r].user \in RowIds
      /\ None \notin RowIds
  BY <1>1, OperationTypes, MarkersAssumption
<1>5. /\ NewRow(r) = [table |-> w.table, key |-> w.key, active |-> TRUE,
           supplier |-> IF w.table = "product" THEN cursor[r].supplier ELSE None,
           product  |-> IF w.table = "movement" THEN op[r].product ELSE None,
           user     |-> IF w.table = "movement" THEN op[r].user ELSE None]
  BY DEF NewRow
<1>6. w.table = "movement" <=> op[r].kind = "record"
  BY <1>2 DEF Resources
<1>7. NewRow(r) \in Row
  BY <1>1, <1>2, <1>4, <1>5, <1>6 DEF Row, Resources, Tables
<1>8. Complete(NewRow(r))
  BY <1>2, <1>3, <1>4, <1>5, <1>6 DEF Complete, Resources
<1>9. w.table \in {"supplier", "product", "user", "movement"}
  BY <1>2 DEF Resources
<1>10. /\ NewRow(r).table = w.table /\ NewRow(r).key = w.key
       /\ NewRow(r).supplier # None => NewRow(r).supplier = cursor[r].supplier /\ w.table = "product"
       /\ NewRow(r).product # None => NewRow(r).product = op[r].product /\ w.table = "movement"
       /\ NewRow(r).user # None => NewRow(r).user = op[r].user /\ w.table = "movement"
  BY <1>5
<1> QED
  BY <1>2, <1>3, <1>6, <1>7, <1>8, <1>9, <1>10

\* Where a call goes once a row is in.
LEMMA InsertedFacts ==
  ASSUME CatalogInv, NEW r \in Requests, pc[r] \in {"insert", "reference"}, op' = op,
         NEW supplier \in RowIds \cup {None}, Inserted(r, supplier),
         op[r].kind = "seed" =>
           \A m \in 1..cursor[r].next : Demo[m].table = "supplier" => supplier # None,
         \A k \in RowIds : staged'[r][k] # Unset =>
           staged[r][k] # Unset \/ k = <<r, cursor[r].next>>
  PROVE  /\ pc' = [pc EXCEPT ![r] = pc'[r]] /\ pc'[r] \in {"commit", "seed"}
         /\ cursor' \in [Requests -> [next : Nat, supplier : RowIds \cup {None}]]
         /\ \A s \in Requests \ {r} : cursor'[s] = cursor[s]
         /\ KindSound(r)' /\ QuietSound(r)' /\ CursorSound(r)'
<1> DEFINE n == cursor[r].next
           Moved == [next |-> n + 1, supplier |-> supplier]
<1>1. /\ Busy(r) /\ op[r] \in Operations
      /\ RequestSound(r) /\ CatalogTypeOK /\ n \in Nat
      /\ cursor \in [Requests -> [next : Nat, supplier : RowIds \cup {None}]]
      /\ op'[r] = op[r]
  BY BusyFacts DEF Answers, CatalogTypeOK
<1>2. CASE op[r].kind # "seed"
  <2>1. cursor' = cursor /\ pc' = [pc EXCEPT ![r] = "commit"]
    BY <1>2 DEF Inserted, Goto
  <2>2. pc'[r] = "commit"
    BY <1>1, <2>1 DEF CatalogTypeOK
  <2>3. KindSound(r)' /\ QuietSound(r)' /\ CursorSound(r)'
    BY <1>1, <1>2, <2>1, <2>2 DEF RequestSound, KindSound, QuietSound, CursorSound, Answers
  <2> QED
    BY <1>1, <2>1, <2>2, <2>3
<1>3. CASE op[r].kind = "seed"
  <2>1. /\ cursor' = [cursor EXCEPT ![r] = Moved]
        /\ pc' = [pc EXCEPT ![r] = IF n = Len(Demo) THEN "commit" ELSE "seed"]
    BY <1>1, <1>3 DEF Inserted, Goto
  <2>2. Moved \in [next : Nat, supplier : RowIds \cup {None}]
    BY <1>1
  <2>3. /\ cursor' \in [Requests -> [next : Nat, supplier : RowIds \cup {None}]]
        /\ \A s \in Requests \ {r} : cursor'[s] = cursor[s]
        /\ cursor'[r].next = n + 1 /\ cursor'[r].supplier = supplier
    BY <1>1, <2>1, <2>2
  <2>4. pc'[r] = IF n = Len(Demo) THEN "commit" ELSE "seed"
    BY <1>1, <2>1 DEF CatalogTypeOK
  <2>5. /\ n \in 1..Len(Demo)
        /\ \A k \in RowIds : staged[r][k] # Unset => k[2] <= n
    BY <1>1, <1>3 DEF RequestSound, CursorSound, Inserting
  <2>6. KindSound(r)' /\ QuietSound(r)'
    BY <1>1, <1>3, <2>4 DEF KindSound, QuietSound, Answers
  <2>7. CursorSound(r)'
    <3>1. CASE n = Len(Demo)
      BY <1>1, <1>3, <2>4, <3>1 DEF CursorSound
    <3>2. CASE n # Len(Demo)
      <4>1. pc'[r] = "seed" /\ n + 1 \in 1..Len(Demo) /\ 1..(n + 1 - 1) = 1..n
        BY <2>4, <2>5, <3>2, DemoTypes
      <4>2. \A k \in RowIds : staged'[r][k] # Unset => k[2] <= n + 1 /\ k[2] # n + 1
        BY <1>1, <2>5, RowIdTypes
      <4>3. (\E m \in 1..(n + 1 - 1) : Demo[m].table = "supplier") => supplier # None
        BY <1>3, <4>1
      <4> QED
        BY <1>1, <1>3, <2>3, <4>1, <4>2, <4>3 DEF CursorSound
    <3> QED
      BY <3>1, <3>2
  <2> QED
    BY <2>1, <2>3, <2>4, <2>6, <2>7
<1> QED
  BY <1>2, <1>3

\* A new row with a key that neither the request nor anybody else has.
LEMMA KeysInserted ==
  ASSUME CatalogInv, NEW r \in Requests, Local(r), NEW i \in RowIds, NEW row \in Row,
         staged'[r] = [staged[r] EXCEPT ![i] = row],
         \A k \in RowIds : ~HasKey(rows[k], row.table, row.key),
         \A s \in Requests, k \in RowIds : ~HasKey(staged[s][k], row.table, row.key)
  PROVE  KeysApart'
<1>1. /\ \A s \in Requests, k \in RowIds :
            (s = r /\ k = i) \/ staged'[s][k] = staged[s][k]
      /\ staged'[r][i] = row /\ rows' = rows
  BY DEF CatalogInv, CatalogTypeOK, Local
<1>2. \A a, b : HasKey(a, b.table, b.key) /\ b \notin {None, Unset} => HasKey(b, a.table, a.key)
  BY DEF HasKey
<1>3. row \notin {None, Unset}
  BY RowTypes
<1> SUFFICES ASSUME NEW s \in Requests, NEW k \in RowIds, staged'[s][k] \notin {None, Unset},
                    NEW j \in RowIds
             PROVE  /\ HasKey(rows'[j], staged'[s][k].table, staged'[s][k].key) => j = k
                    /\ \A u \in Requests :
                         HasKey(staged'[u][j], staged'[s][k].table, staged'[s][k].key) => j = k
  BY DEF KeysApart
<1>4. CASE s = r /\ k = i
  BY <1>1, <1>4
<1>5. CASE ~(s = r /\ k = i)
  <2>1. staged'[s][k] = staged[s][k]
    BY <1>1, <1>5
  <2>2. HasKey(rows[j], staged[s][k].table, staged[s][k].key) => j = k
    BY <2>1 DEF CatalogInv, KeysApart
  <2>3. ASSUME NEW u \in Requests, HasKey(staged'[u][j], staged[s][k].table, staged[s][k].key)
        PROVE  j = k
    <3>1. CASE u = r /\ j = i
      <4>1. HasKey(staged[s][k], row.table, row.key)
        BY <1>1, <1>2, <2>1, <2>3, <3>1
      <4> QED
        BY <4>1
    <3>2. CASE ~(u = r /\ j = i)
      BY <1>1, <2>1, <2>3, <3>2 DEF CatalogInv, KeysApart
    <3> QED
      BY <3>1, <3>2
  <2> QED
    BY <1>1, <2>1, <2>2, <2>3
<1> QED
  BY <1>4, <1>5

LEMMA InsertStep ==
  ASSUME CatalogInv, NEW r \in Requests, BlockedBy(r) = {}, Insert(r)
  PROVE  CatalogInv'
<1> DEFINE w == Wanted(r)
           n == cursor[r].next
           i == <<r, n>>
           Next0 == IF w.table = "supplier" THEN i ELSE cursor[r].supplier
<1>1. /\ Busy(r) /\ ~Done(r) /\ op[r] \in Operations /\ pc[r] = "insert"
      /\ op[r].kind \in Inserting /\ n \in Nat
      /\ RequestSound(r) /\ CatalogTypeOK
      /\ cursor[r].supplier \in RowIds \cup {None}
  BY BusyFacts DEF Insert, Answers, RequestSound, KindSound
<1>2. CASE Abort(r, "error")
  BY <1>2, AbortStep DEF Answers
<1>3. CASE /\ ~Duplicate(r, w.table, w.key)
           /\ Write(r, i, NewRow(r))
           /\ IF w.table \in {"product", "movement"}
              THEN Goto(r, "reference") /\ UNCHANGED cursor
              ELSE Inserted(r, Next0)
           /\ UNCHANGED <<rows, op, loaded, locks>>
  <2>1. i \in RowIds /\ i[1] = r /\ i[2] = n
    BY <1>1, RowIdTypes DEF RequestSound, CursorSound, Inserting
  <2>2. rows[i] = None /\ staged[r][i] = Unset
    <3>1. ~Old(i)
      BY <1>1, <2>1 DEF Old
    <3> QED
      BY <1>1, <2>1, <3>1 DEF CatalogInv, RowsFresh, RequestSound, CursorSound
  <2>3. /\ staged' = [staged EXCEPT ![r] = [staged[r] EXCEPT ![i] = NewRow(r)]]
        /\ rows' = rows /\ op' = op /\ loaded' = loaded /\ locks' = locks
    BY <1>3 DEF Write
  <2>4. /\ NewRow(r) \in Row /\ NewRow(r) \notin {None, Unset}
        /\ staged'[r] = [staged[r] EXCEPT ![i] = NewRow(r)]
        /\ staged'[r][i] = NewRow(r) /\ staged' \in [Requests -> [RowIds -> Row \cup {None, Unset}]]
        /\ \A k \in RowIds : k # i => staged'[r][k] = staged[r][k]
    BY <1>1, <2>1, <2>3, NewRowFacts, RowTypes DEF CatalogTypeOK
  <2>5. /\ pc' = [pc EXCEPT ![r] = pc'[r]] /\ pc'[r] \in {"reference", "commit", "seed"}
        /\ cursor' \in [Requests -> [next : Nat, supplier : RowIds \cup {None}]]
        /\ \A s \in Requests \ {r} : cursor'[s] = cursor[s]
        /\ KindSound(r)' /\ QuietSound(r)' /\ CursorSound(r)'
        /\ w.table \in {"product", "movement"} => pc'[r] = "reference" /\ cursor' = cursor
        /\ w.table \notin {"product", "movement"} => pc'[r] # "reference"
    <3>1. CASE w.table \in {"product", "movement"}
      <4>1. pc' = [pc EXCEPT ![r] = "reference"] /\ cursor' = cursor
        BY <1>3, <3>1 DEF Goto
      <4>2. pc'[r] = "reference"
        BY <1>1, <4>1 DEF CatalogTypeOK
      <4>3. KindSound(r)' /\ QuietSound(r)'
        BY <1>1, <2>3, <4>2 DEF KindSound, QuietSound, Inserting, Answers
      <4>4. op[r].kind \in {"create", "seed"} => cursor[r].supplier # None
        BY <3>1, <1>1, NewRowFacts
      <4>5. \A k \in RowIds : staged'[r][k] # Unset => k[2] <= n
        BY <1>1, <2>1, <2>4 DEF RequestSound, CursorSound
      <4>6. CursorSound(r)'
        BY <1>1, <2>3, <4>1, <4>2, <4>4, <4>5 DEF RequestSound, CursorSound, Busy, Done, Answers
      <4> QED
        BY <1>1, <3>1, <4>1, <4>2, <4>3, <4>6 DEF CatalogTypeOK
    <3>2. CASE w.table \notin {"product", "movement"}
      <4>1. Inserted(r, Next0) /\ Next0 \in RowIds \cup {None}
        BY <1>1, <1>3, <2>1, <3>2
      <4>2. op[r].kind = "seed" =>
              \A m \in 1..n : Demo[m].table = "supplier" => Next0 # None
        <5> SUFFICES ASSUME op[r].kind = "seed", NEW m \in 1..n, Demo[m].table = "supplier"
                     PROVE  Next0 # None
          OBVIOUS
        <5>1. m = n => w.table = "supplier"
          BY <1>1, NewRowFacts
        <5>2. m # n => m \in 1..(n - 1)
          BY <1>1
        <5>3. i # None
          BY <2>1, MarkersAssumption
        <5> QED
          BY <1>1, <5>1, <5>2, <5>3 DEF RequestSound, CursorSound
      <4>3. \A k \in RowIds : staged'[r][k] # Unset => staged[r][k] # Unset \/ k = i
        BY <2>4
      <4> HIDE DEF Next0
      <4> QED
        BY <1>1, <2>3, <3>2, <4>1, <4>2, <4>3, InsertedFacts
    <3> QED
      BY <3>1, <3>2
  <2>6. CatalogTypeOK' /\ Local(r)
    <3>1. CatalogTypeOK'
      <4>1. pc' \in [Requests -> {"idle", "supplier", "lock_product", "insert", "reference", "seed",
                "update", "detach", "delete", "references", "commit", "refresh"} \cup Answers]
        BY <1>1, <2>5 DEF CatalogTypeOK
      <4>2. /\ rows' \in [RowIds -> Row \cup {None}] /\ op' \in [Requests -> Operations \cup {None}]
            /\ loaded' \in [Requests -> Row \cup {None}]
            /\ locks' \in [Requests -> [RowIds -> {"none", "key_share", "no_key", "update"}]]
        BY <1>1, <2>3 DEF CatalogTypeOK
      <4> QED
        BY <2>4, <2>5, <4>1, <4>2 DEF CatalogTypeOK
    <3>2. Local(r)
      BY <1>1, <2>3, <2>5 DEF CatalogTypeOK, Local
    <3> QED
      BY <3>1, <3>2
  <2>7. StagedSound(r)'
    BY <1>1, <2>1, <2>2, <2>3, <2>4 DEF RequestSound, StagedSound
  <2>8. \A j, table : Holds(r, j, table) /\ j \in RowIds => Holds(r, j, table)'
    BY <2>2, <2>3, <2>4 DEF Holds, Seen, IsA
  <2>9. op[r].kind = "record" => op[r].product \in RowIds /\ Holds(r, op[r].product, "product")
    BY <1>1, OperationTypes DEF RequestSound, RecordSound
  <2>10. ReferencesSound(r)'
    <3> SUFFICES ASSUME NEW k \in RowIds, staged'[r][k] \notin {None, Unset}
                 PROVE  /\ Complete(staged'[r][k])
                        /\ Secured(r, k, rows[k].supplier, staged[r][k].supplier, "supplier")'
                        /\ Secured(r, k, rows[k].product, staged[r][k].product, "product")'
                        /\ Secured(r, k, rows[k].user, staged[r][k].user, "user")'
      BY DEF ReferencesSound
    <3>1. CASE k # i
      <4>1. staged'[r][k] = staged[r][k] /\ staged[r][k] \in Row
        BY <1>1, <2>4, <3>1 DEF CatalogTypeOK
      <4> QED
        BY <1>1, <2>3, <2>8, <4>1, RowTypes DEF RequestSound, ReferencesSound, Secured
    <3>2. CASE k = i
      <4>1. NewRow(r).table \in {"product", "movement"} =>
              Referred(r)' = Referred(r) /\ ReferredTable(r)' = ReferredTable(r) /\ pc'[r] = "reference"
        BY <1>1, <2>3, <2>5, NewRowFacts, ReferredKept
      <4>2. /\ Complete(NewRow(r))
            /\ NewRow(r).supplier # None =>
                 /\ NewRow(r).table = "product"
                 /\ Referred(r) = NewRow(r).supplier /\ ReferredTable(r) = "supplier"
            /\ NewRow(r).product # None =>
                 NewRow(r).product \in RowIds /\ Holds(r, NewRow(r).product, "product")
            /\ NewRow(r).user # None =>
                 /\ NewRow(r).table = "movement"
                 /\ Referred(r) = NewRow(r).user /\ ReferredTable(r) = "user"
        <5>1. /\ Complete(NewRow(r))
              /\ NewRow(r).supplier # None =>
                   NewRow(r).supplier = cursor[r].supplier /\ op[r].kind \in {"create", "seed"}
              /\ NewRow(r).product # None => NewRow(r).product = op[r].product /\ op[r].kind = "record"
              /\ NewRow(r).user # None => NewRow(r).user = op[r].user /\ op[r].kind = "record"
              /\ op[r].kind = "record" => NewRow(r).table = "movement"
          BY <1>1, NewRowFacts DEF Inserting
        <5>2. NewRow(r).supplier # None => NewRow(r).table = "product"
          BY <5>1 DEF Complete
        <5> QED
          BY <2>9, <5>1, <5>2, ReferredFacts
      <4>3. Secured(r, k, rows[k].supplier, staged[r][k].supplier, "supplier")'
        BY <2>4, <3>2, <4>1, <4>2 DEF Secured
      <4>4. Secured(r, k, rows[k].product, staged[r][k].product, "product")'
        BY <2>4, <2>8, <3>2, <4>2 DEF Secured
      <4>5. Secured(r, k, rows[k].user, staged[r][k].user, "user")'
        BY <2>4, <3>2, <4>1, <4>2 DEF Secured
      <4> QED
        BY <2>4, <3>2, <4>2, <4>3, <4>4, <4>5
    <3> QED
      BY <3>1, <3>2
  <2>11. LoadedSound(r)' /\ RecordSound(r)' /\ DeleteSound(r)'
    BY <1>1, <2>3, <2>8, <2>9 DEF LoadedSound, RecordSound, DeleteSound, Inserting, Updating
  <2>12. KeysApart'
    <3> DEFINE row == NewRow(r)
    <3>1. row.table = w.table /\ row.key = w.key
      BY <1>1, NewRowFacts
    <3>2. \A k \in RowIds : ~HasKey(Seen(r, k), row.table, row.key)
      BY <1>3, <3>1 DEF Duplicate
    <3>3. \A k \in RowIds : staged[r][k] # Unset => rows[k] = None
      BY <1>1 DEF RequestSound, StagedSound, Inserting, Updating
    <3>4. \A k \in RowIds : /\ ~HasKey(rows[k], row.table, row.key)
                            /\ ~HasKey(staged[r][k], row.table, row.key)
      BY <3>2, <3>3 DEF Seen, HasKey
    <3>5. \A s \in Requests \ {r}, k \in RowIds : ~HasKey(staged[s][k], row.table, row.key)
      BY <1>1, <3>1 DEF BlockedBy, KeyHolders
    <3> HIDE DEF row
    <3> QED
      BY <2>1, <2>4, <2>6, <3>4, <3>5, KeysInserted DEF row
  <2> QED
    BY <2>3, <2>5, <2>6, <2>7, <2>10, <2>11, <2>12, LocksKept, LocalStep DEF RequestSound
<1> QED
  BY <1>2, <1>3 DEF Insert

LEMMA ReferredType ==
  ASSUME CatalogInv, NEW r \in Requests, pc[r] = "reference"
  PROVE  Referred(r) \in RowIds
<1>1. /\ Busy(r) /\ op[r] \in Operations /\ RequestSound(r)
      /\ cursor[r].supplier \in RowIds \cup {None}
  BY BusyFacts DEF Answers
<1>2. op[r].kind \in Inserting \cup {"move", "acknowledge"}
  BY <1>1 DEF RequestSound, KindSound
<1>3. op[r].kind \in {"create", "seed"} => cursor[r].supplier \in RowIds
  BY <1>1 DEF RequestSound, CursorSound
<1> QED
  BY <1>1, <1>2, <1>3, OperationTypes, ReferredFacts DEF Inserting

LEMMA CheckReferenceStep ==
  ASSUME CatalogInv, NEW r \in Requests, BlockedBy(r) = {}, CheckReference(r)
  PROVE  CatalogInv'
<1> DEFINE i == Referred(r)
<1>1. /\ Busy(r) /\ ~Done(r) /\ op[r] \in Operations /\ pc[r] = "reference"
      /\ RequestSound(r) /\ CatalogTypeOK
      /\ cursor[r].supplier \in RowIds \cup {None} /\ i \in RowIds
  BY BusyFacts, ReferredType DEF CheckReference, Answers
<1>2. CASE Abort(r, "error")
  BY <1>2, AbortStep DEF Answers
<1>3. CASE /\ IsA(Seen(r, i), {ReferredTable(r)})
           /\ IF locks[r][i] = "none" THEN Lock(r, i, "key_share") ELSE UNCHANGED locks
           /\ Inserted(r, cursor[r].supplier)
           /\ UNCHANGED <<rows, op, loaded, staged>>
  <2>1. rows' = rows /\ op' = op /\ loaded' = loaded /\ staged' = staged
    BY <1>3
  <2>2. /\ locks' \in [Requests -> [RowIds -> {"none", "key_share", "no_key", "update"}]]
        /\ \A s \in Requests \ {r} : locks'[s] = locks[s]
        /\ \A k \in RowIds : \/ locks'[r][k] = locks[r][k]
                             \/ k = i /\ locks[r][k] = "none" /\ locks'[r][k] = "key_share"
        /\ locks'[r][i] # "none"
    <3>1. CASE locks[r][i] = "none"
      <4>1. locks' = [locks EXCEPT ![r] = [locks[r] EXCEPT ![i] = "key_share"]]
        BY <1>3, <3>1 DEF Lock
      <4> QED
        BY <1>1, <3>1, <4>1 DEF CatalogTypeOK
    <3>2. CASE locks[r][i] # "none"
      BY <1>1, <1>3, <3>2 DEF CatalogTypeOK
    <3> QED
      BY <3>1, <3>2
  <2>3. op[r].kind = "seed" => cursor[r].supplier # None
    BY <1>1 DEF RequestSound, CursorSound
  <2>4. /\ pc' = [pc EXCEPT ![r] = pc'[r]] /\ pc'[r] \in {"commit", "seed"}
        /\ cursor' \in [Requests -> [next : Nat, supplier : RowIds \cup {None}]]
        /\ \A s \in Requests \ {r} : cursor'[s] = cursor[s]
        /\ KindSound(r)' /\ QuietSound(r)' /\ CursorSound(r)'
    BY <1>1, <1>3, <2>1, <2>3, InsertedFacts
  <2>5. CatalogTypeOK'
    <3>1. pc' \in [Requests -> {"idle", "supplier", "lock_product", "insert", "reference", "seed",
              "update", "detach", "delete", "references", "commit", "refresh"} \cup Answers]
      BY <1>1, <2>4 DEF CatalogTypeOK
    <3>2. /\ rows' \in [RowIds -> Row \cup {None}] /\ op' \in [Requests -> Operations \cup {None}]
          /\ loaded' \in [Requests -> Row \cup {None}]
          /\ staged' \in [Requests -> [RowIds -> Row \cup {None, Unset}]]
      BY <1>1, <2>1 DEF CatalogTypeOK
    <3> QED
      BY <2>2, <2>4, <3>1, <3>2 DEF CatalogTypeOK
  <2>6. Local(r)
    BY <1>1, <2>1, <2>2, <2>4 DEF CatalogTypeOK, Local
  <2>7. \A s \in Requests \ {r}, k \in RowIds : ~Conflict(locks[s][k], locks'[r][k])
    <3>1. <<i, "key_share">> \in Wants(r)
      BY <1>1 DEF Wants
    <3>2. \A s \in Requests \ {r} : ~Conflict(locks[s][i], "key_share")
      BY <3>1, Unblocked
    <3> QED
      BY <2>2, <3>2 DEF CatalogInv, LocksApart
  <2>8. \A j \in RowIds : \A table : Holds(r, j, table) => Holds(r, j, table)'
    BY <1>3, <2>1, <2>2 DEF Holds, Seen
  <2>9. \A j, table : j = i /\ table = ReferredTable(r) => Holds(r, j, table)'
    BY <1>3, <2>1, <2>2 DEF Holds, Seen
  <2>10. StagedSound(r)'
    BY <1>1, <2>1, <2>2 DEF RequestSound, StagedSound
  <2>11. ReferencesSound(r)'
    <3> SUFFICES ASSUME NEW k \in RowIds, staged[r][k] \notin {None, Unset}
                 PROVE  /\ Complete(staged[r][k])
                        /\ Secured(r, k, rows[k].supplier, staged[r][k].supplier, "supplier")'
                        /\ Secured(r, k, rows[k].product, staged[r][k].product, "product")'
                        /\ Secured(r, k, rows[k].user, staged[r][k].user, "user")'
      BY <2>1 DEF ReferencesSound
    <3>1. staged[r][k] \in Row
      BY <1>1 DEF CatalogTypeOK
    <3>2. /\ Complete(staged[r][k])
          /\ Secured(r, k, rows[k].supplier, staged[r][k].supplier, "supplier")
          /\ Secured(r, k, rows[k].product, staged[r][k].product, "product")
          /\ Secured(r, k, rows[k].user, staged[r][k].user, "user")
      BY <1>1 DEF RequestSound, ReferencesSound
    <3> QED
      BY <2>1, <2>8, <2>9, <3>1, <3>2, RowTypes DEF Secured
  <2>12. op[r].kind \in Inserting \cup {"move", "acknowledge"}
    BY <1>1 DEF RequestSound, KindSound
  <2>13. RecordSound(r)' /\ DeleteSound(r)'
    BY <2>1, <2>4, <2>12 DEF RecordSound, DeleteSound, Inserting
  <2>14. LoadedSound(r)'
    <3>1. \A k : Old(k) => Old(k)'
      BY <2>6, LocalOld
    <3> QED
      BY <1>1, <2>1, <2>4, <3>1 DEF RequestSound, LoadedSound
  <2> QED
    BY <2>1, <2>4, <2>5, <2>6, <2>7, <2>10, <2>11, <2>13, <2>14, KeysKept, LocalStep
       DEF RequestSound
<1> QED
  BY <1>2, <1>3 DEF CheckReference

----------------------------------------------------------------------------
(* Updates. *)

\* Rows written in place of others keep their keys.
LEMMA KeysCopied ==
  ASSUME CatalogInv, NEW r \in Requests, Local(r),
         \A k \in RowIds :
           \/ staged'[r][k] \in {staged[r][k], None, Unset}
           \/ /\ rows[k] # None
              /\ staged'[r][k].table = rows[k].table /\ staged'[r][k].key = rows[k].key
  PROVE  KeysApart'
<1> DEFINE Copy(s, k) ==
      /\ rows[k] # None
      /\ staged'[s][k].table = rows[k].table /\ staged'[s][k].key = rows[k].key
<1>1. \A s \in Requests, k \in RowIds :
        staged'[s][k] \in {staged[s][k], None, Unset} \/ Copy(s, k)
  BY DEF Local
<1>2. \A k \in RowIds : rows[k] # Unset
  BY MarkersAssumption DEF CatalogInv, CatalogTypeOK
<1> SUFFICES ASSUME NEW s \in Requests, NEW k \in RowIds, staged'[s][k] \notin {None, Unset},
                    NEW j \in RowIds
             PROVE  /\ HasKey(rows'[j], staged'[s][k].table, staged'[s][k].key) => j = k
                    /\ \A u \in Requests :
                         HasKey(staged'[u][j], staged'[s][k].table, staged'[s][k].key) => j = k
  BY DEF KeysApart
<1> DEFINE table == staged'[s][k].table
           key == staged'[s][k].key
<1>3. HasKey(rows[j], table, key) => j = k
  <2>1. CASE staged'[s][k] = staged[s][k]
    BY <2>1 DEF CatalogInv, KeysApart
  <2>2. CASE Copy(s, k)
    BY <2>2 DEF CatalogInv, UniqueKeys
  <2> QED
    BY <1>1, <2>1, <2>2
<1>4. ASSUME NEW u \in Requests, HasKey(staged'[u][j], table, key)
      PROVE  j = k
  <2>1. CASE Copy(u, j)
    <3>1. HasKey(rows[j], table, key)
      BY <1>2, <1>4, <2>1 DEF HasKey
    <3> QED
      BY <1>3, <3>1
  <2>2. CASE staged'[u][j] = staged[u][j]
    <3>1. CASE staged'[s][k] = staged[s][k]
      BY <1>4, <2>2, <3>1 DEF CatalogInv, KeysApart
    <3>2. CASE Copy(s, k)
      <4>1. HasKey(rows[k], staged[u][j].table, staged[u][j].key) /\ staged[u][j] \notin {None, Unset}
        BY <1>2, <1>4, <2>2, <3>2 DEF HasKey
      <4> QED
        BY <4>1 DEF CatalogInv, KeysApart
    <3> QED
      BY <1>1, <3>1, <3>2
  <2> QED
    BY <1>1, <1>4, <2>1, <2>2 DEF HasKey
<1> QED
  BY <1>3, <1>4 DEF Local

LEMMA ChangedFacts ==
  ASSUME NEW o \in Operations, o.kind \in Updating, NEW was, NEW now \in Row, Complete(now),
         o.kind = "move" => now.table = "product",
         o.kind = "acknowledge" => now.table = "alert"
  PROVE  /\ Changed(o, was, now) \in Row
         /\ Changed(o, was, now).table = now.table /\ Changed(o, was, now).key = now.key
         /\ Complete(Changed(o, was, now))
         /\ \/ Changed(o, was, now).supplier = now.supplier
            \/ o.kind = "move" /\ Changed(o, was, now).supplier = o.supplier
         /\ Changed(o, was, now).product = now.product
         /\ \/ Changed(o, was, now).user = now.user
            \/ o.kind = "acknowledge" /\ was.user # o.user /\ Changed(o, was, now).user = o.user
<1>1. CASE o.kind = "patch"
  <2>1. Changed(o, was, now) = [now EXCEPT !.active = o.active] /\ o.active \in BOOLEAN
    BY <1>1, OperationTypes DEF Changed
  <2> QED
    BY <1>1, <2>1 DEF Row, Complete
<1>2. CASE o.kind = "move"
  <2>1. /\ Changed(o, was, now) = [now EXCEPT !.supplier = o.supplier]
        /\ o.supplier \in RowIds /\ o.supplier # None
    BY <1>2, OperationTypes, MarkersAssumption DEF Changed
  <2> QED
    BY <1>2, <2>1 DEF Row, Complete
<1>3. CASE o.kind = "acknowledge"
  <2>1. /\ Changed(o, was, now) = IF was.user = o.user THEN now ELSE [now EXCEPT !.user = o.user]
        /\ o.user \in RowIds /\ o.user # None
    BY <1>3, OperationTypes, MarkersAssumption DEF Changed
  <2> QED
    BY <1>3, <2>1 DEF Row, Complete
<1> QED
  BY <1>1, <1>2, <1>3 DEF Updating

LEMMA UpdateStep ==
  ASSUME CatalogInv, NEW r \in Requests, BlockedBy(r) = {}, Update(r)
  PROVE  CatalogInv'
<1> DEFINE o == op[r]
           i == o.row
           row == Changed(o, loaded[r], rows[i])
<1>1. /\ Busy(r) /\ ~Done(r) /\ o \in Operations /\ pc[r] = "update"
      /\ RequestSound(r) /\ CatalogTypeOK
  BY BusyFacts DEF Update, Answers
<1>2. CASE Abort(r, "error")
  BY <1>2, AbortStep DEF Answers
<1>3. CASE /\ rows[i] # None
           /\ Write(r, i, row)
           /\ Lock(r, i, "no_key")
           /\ Goto(r, IF o.kind = "move" \/ (o.kind = "acknowledge" /\ loaded[r].user # o.user)
                      THEN "reference" ELSE "commit")
           /\ UNCHANGED <<rows, op, loaded, cursor>>
  <2>1. /\ o.kind \in Updating /\ i \in RowIds /\ staged[r] = NoWrites
        /\ rows[i] \in Row /\ Complete(rows[i])
    BY <1>1, <1>3, OperationTypes
       DEF RequestSound, KindSound, QuietSound, CatalogTypeOK, CatalogInv, EveryReferenceHolds
  <2>2. /\ o.kind = "patch" => rows[i].table \in Resources
        /\ o.kind = "move" => rows[i].table = "product"
        /\ o.kind = "acknowledge" => rows[i].table = "alert"
    BY <1>1, <1>3, <2>1 DEF RequestSound, LoadedSound
  <2>3. /\ row \in Row /\ Complete(row) /\ row.table = rows[i].table /\ row.key = rows[i].key
        /\ row.supplier = rows[i].supplier \/ (o.kind = "move" /\ row.supplier = o.supplier)
        /\ row.product = rows[i].product
        /\ \/ row.user = rows[i].user
           \/ o.kind = "acknowledge" /\ loaded[r].user # o.user /\ row.user = o.user
    BY <1>1, <2>1, <2>2, ChangedFacts
  <2> HIDE DEF row
  <2>4. /\ staged' = [staged EXCEPT ![r] = [staged[r] EXCEPT ![i] = row]]
        /\ locks' = [locks EXCEPT ![r] = [locks[r] EXCEPT ![i] = "no_key"]]
        /\ rows' = rows /\ op' = op /\ loaded' = loaded /\ cursor' = cursor
        /\ pc' = [pc EXCEPT ![r] = pc'[r]] /\ pc'[r] \in {"reference", "commit"}
        /\ o.kind = "move" \/ (o.kind = "acknowledge" /\ loaded[r].user # o.user)
             => pc'[r] = "reference"
        /\ pc'[r] = "reference" => o.kind \in {"move", "acknowledge"}
    BY <1>1, <1>3 DEF Write, Lock, Goto, CatalogTypeOK
  <2>5. /\ staged'[r][i] = row /\ \A k \in RowIds : k # i => staged'[r][k] = Unset
        /\ locks'[r] = [locks[r] EXCEPT ![i] = "no_key"] /\ locks'[r][i] = "no_key"
        /\ staged' \in [Requests -> [RowIds -> Row \cup {None, Unset}]]
        /\ locks' \in [Requests -> [RowIds -> {"none", "key_share", "no_key", "update"}]]
    BY <1>1, <2>1, <2>3, <2>4 DEF CatalogTypeOK, NoWrites
  <2>6. CatalogTypeOK'
    BY <1>1, <2>4, <2>5 DEF CatalogTypeOK
  <2>7. Local(r)
    BY <1>1, <2>4 DEF CatalogTypeOK, Local
  <2>8. \A s \in Requests \ {r} : ~Conflict(locks[s][i], "no_key")
    <3>1. <<i, "no_key">> \in Wants(r)
      BY <1>1 DEF Wants
    <3> QED
      BY <3>1, Unblocked
  <2>9. KindSound(r)' /\ QuietSound(r)' /\ CursorSound(r)'
    BY <1>1, <2>1, <2>4 DEF KindSound, QuietSound, CursorSound, Updating, Inserting, Answers
  <2>10. LoadedSound(r)'
    <3>1. \A k : Old(k) => Old(k)'
      BY <2>7, LocalOld
    <3> QED
      BY <1>1, <1>3, <2>1, <2>4, <3>1 DEF RequestSound, LoadedSound
  <2>11. StagedSound(r)'
    BY <1>3, <2>1, <2>2, <2>3, <2>4, <2>5, RowTypes DEF StagedSound, Resources, Updating
  <2>12. ReferencesSound(r)'
    <3>1. pc'[r] = "reference" =>
            /\ o.kind = "move" => Referred(r)' = o.supplier /\ ReferredTable(r)' = "supplier"
            /\ o.kind = "acknowledge" => Referred(r)' = o.user /\ ReferredTable(r)' = "user"
      BY <2>4, ReferredFacts, ReferredKept
    <3>2. /\ Secured(r, i, rows[i].supplier, staged[r][i].supplier, "supplier")'
          /\ Secured(r, i, rows[i].product, staged[r][i].product, "product")'
          /\ Secured(r, i, rows[i].user, staged[r][i].user, "user")'
      BY <1>3, <2>3, <2>4, <2>5, <3>1 DEF Secured
    <3> QED
      BY <2>3, <2>4, <2>5, <3>2 DEF ReferencesSound
  <2>13. RecordSound(r)' /\ DeleteSound(r)'
    BY <2>1, <2>4 DEF RecordSound, DeleteSound, Updating
  <2>14. KeysApart'
    BY <1>3, <2>1, <2>3, <2>5, <2>7, KeysCopied
  <2> QED
    BY <2>1, <2>5, <2>6, <2>7, <2>8, <2>9, <2>10, <2>11, <2>12, <2>13, <2>14, LockApart, LocalStep
       DEF RequestSound
<1> QED
  BY <1>2, <1>3 DEF Update

----------------------------------------------------------------------------
(* Deletes. *)

\* Who refers to whom.
LEMMA DependentsFacts ==
  ASSUME CatalogInv, NEW i \in RowIds, NEW k \in Dependents(i)
  PROVE  /\ rows[i] \in Row /\ rows[k] \in Row /\ k \in RowIds /\ Complete(rows[k])
         /\ \/ /\ rows[k].table = "product" /\ rows[i].table = "supplier"
            \/ /\ rows[k].table \in {"movement", "alert"} /\ rows[i].table = "product"
               /\ rows[k].product = i
            \/ /\ rows[k].table \in {"movement", "alert"} /\ rows[i].table = "user"
               /\ rows[k].user = i
<1>1. k \in RowIds /\ rows[k] # None /\ i \in {rows[k].supplier, rows[k].product, rows[k].user}
  BY DEF Dependents, Refers
<1>2. i # None
  BY MarkersAssumption
<1>3. Complete(rows[k]) /\ Leads(rows, rows[k])
  BY <1>1 DEF CatalogInv, EveryReferenceHolds
<1>4. rows[k] \in Row /\ rows[i] \in Row \cup {None}
  BY <1>1 DEF CatalogInv, CatalogTypeOK
<1>5. CASE rows[k].supplier = i
  BY <1>2, <1>3, <1>4, <1>5, <1>1 DEF Complete, Leads, IsA
<1>6. CASE rows[k].product = i
  BY <1>2, <1>3, <1>4, <1>6, <1>1 DEF Complete, Leads, IsA
<1>7. CASE rows[k].user = i
  BY <1>2, <1>3, <1>4, <1>7, <1>1 DEF Complete, Leads, IsA
<1> QED
  BY <1>1, <1>5, <1>6, <1>7

\* What the foreign keys do to them.
LEMMA ActingFacts ==
  ASSUME CatalogInv, NEW i \in RowIds, NEW k \in Dependents(i)
  PROVE  /\ k \in Acting(i, "restrict") \/ k \in Acting(i, "cascade") \/ k \in Acting(i, "set_null")
         /\ k \in Acting(i, "cascade") =>
              rows[k].table \in {"movement", "alert"} /\ rows[k].product = i
         /\ k \in Acting(i, "set_null") =>
              rows[k].table = "alert" /\ rows[k].user = i /\ rows[i].table = "user"
<1> DEFINE action == OnDelete(rows[k].table, rows[i].table)
<1>1. \A a : k \in Acting(i, a) <=> action = a
  BY DEF Acting
<1>2. CASE rows[k].table = "product" /\ rows[i].table = "supplier"
  <2>1. action = "restrict"
    BY <1>2 DEF OnDelete
  <2> QED
    BY <1>1, <2>1
<1>3. CASE /\ rows[k].table \in {"movement", "alert"} /\ rows[i].table = "product"
           /\ rows[k].product = i
  <2>1. action = "cascade"
    BY <1>3 DEF OnDelete
  <2> QED
    BY <1>1, <1>3, <2>1
<1>4. CASE /\ rows[k].table = "movement" /\ rows[i].table = "user"
           /\ rows[k].user = i
  <2>1. action = "restrict"
    BY <1>4 DEF OnDelete
  <2> QED
    BY <1>1, <2>1
<1>5. CASE /\ rows[k].table = "alert" /\ rows[i].table = "user"
           /\ rows[k].user = i
  <2>1. action = "set_null"
    BY <1>5 DEF OnDelete
  <2> QED
    BY <1>1, <1>5, <2>1
<1> QED
  BY <1>2, <1>3, <1>4, <1>5, DependentsFacts

\* An alert without the user who acknowledged it.
Unassigned(row) == [row EXCEPT !.user = None]

LEMMA UnassignedFacts ==
  ASSUME NEW row \in Row, row.table = "alert", Complete(row)
  PROVE  /\ Unassigned(row) \in Row
         /\ Unassigned(row).table = "alert" /\ Unassigned(row).key = row.key
         /\ Complete(Unassigned(row)) /\ Unassigned(row).supplier = None
         /\ Unassigned(row).product = row.product /\ Unassigned(row).user = None
<1>1. Unassigned(row) \in Row
  BY DEF Unassigned, Row
<1> QED
  BY <1>1 DEF Unassigned, Row, Complete

\* What a delete does to row k.
Deletes(r, k) ==
  \/ staged'[r][k] = staged[r][k] /\ locks'[r][k] = locks[r][k]
  \/ /\ staged'[r][k] = None /\ locks'[r][k] = "update" /\ rows[k] # None
     /\ \A s \in Requests \ {r} : ~Conflict(locks[s][k], "update")
  \/ /\ staged'[r][k] = Unassigned(rows[k]) /\ locks'[r][k] = "no_key"
     /\ rows[k] # None /\ rows[k].table = "alert"
     /\ \A s \in Requests \ {r} : ~Conflict(locks[s][k], "no_key")

\* A delete puts rows away that nobody else holds.
LEMMA DeletingStep ==
  ASSUME CatalogInv, NEW r \in Requests, Busy(r), op[r].kind = "delete",
         pc[r] \in {"detach", "delete", "references"},
         rows' = rows, op' = op, loaded' = loaded, cursor' = cursor,
         staged' = [staged EXCEPT ![r] = staged'[r]],
         staged'[r] \in [RowIds -> Row \cup {None, Unset}],
         locks' = [locks EXCEPT ![r] = locks'[r]],
         locks'[r] \in [RowIds -> {"none", "key_share", "no_key", "update"}],
         pc' = [pc EXCEPT ![r] = pc'[r]], pc'[r] \in {"delete", "references", "commit"},
         \A k \in RowIds : Deletes(r, k),
         DeleteSound(r)'
  PROVE  CatalogInv'
<1>1. /\ ~Done(r) /\ RequestSound(r) /\ CatalogTypeOK /\ op[r] \in Operations
      /\ pc[r] # "idle"
  BY DEF CatalogInv, Busy, RequestSound, KindSound
<1>2. CatalogTypeOK'
  BY <1>1 DEF CatalogTypeOK
<1>3. Local(r)
  BY <1>1 DEF CatalogTypeOK, Local
<1>4. \A k \in RowIds : rows[k] # None /\ rows[k].table = "alert" =>
        /\ Unassigned(rows[k]).table = "alert" /\ Unassigned(rows[k]).key = rows[k].key
        /\ Complete(Unassigned(rows[k])) /\ Unassigned(rows[k]).supplier = None
        /\ Unassigned(rows[k]).product = rows[k].product /\ Unassigned(rows[k]).user = None
        /\ Unassigned(rows[k]) # None
  BY <1>1, UnassignedFacts, RowTypes DEF CatalogInv, CatalogTypeOK, EveryReferenceHolds
<1>5. \A s \in Requests \ {r}, k \in RowIds : ~Conflict(locks[s][k], locks'[r][k])
  BY DEF CatalogInv, LocksApart, Deletes
<1>6. KeysApart'
  BY <1>3, <1>4, KeysCopied DEF Deletes
<1>7. KindSound(r)' /\ QuietSound(r)' /\ CursorSound(r)' /\ RecordSound(r)'
  BY <1>1 DEF KindSound, QuietSound, CursorSound, RecordSound, Inserting, Answers
<1>8. LoadedSound(r)'
  <2>1. \A k : Old(k) => Old(k)'
    BY <1>3, LocalOld
  <2> QED
    BY <1>1, <2>1 DEF RequestSound, LoadedSound
<1>9. StagedSound(r)'
  <2> SUFFICES ASSUME NEW k \in RowIds, staged'[r][k] # Unset
               PROVE  /\ rows[k] # None /\ locks'[r][k] \in {"no_key", "update"}
                      /\ staged'[r][k] = None => locks'[r][k] = "update"
                      /\ staged'[r][k] # None =>
                           /\ staged'[r][k].table = rows[k].table
                           /\ staged'[r][k].key = rows[k].key /\ rows[k].table # "movement"
    BY DEF StagedSound
  <2>1. staged[r][k] # Unset =>
          /\ rows[k] # None /\ locks[r][k] \in {"no_key", "update"}
          /\ staged[r][k] = None => locks[r][k] = "update"
          /\ staged[r][k] # None =>
               /\ staged[r][k].table = rows[k].table
               /\ staged[r][k].key = rows[k].key /\ rows[k].table # "movement"
    BY <1>1 DEF RequestSound, StagedSound, Inserting
  <2> QED
    BY <1>4, <2>1 DEF Deletes
<1>10. ReferencesSound(r)'
  <2> SUFFICES ASSUME NEW k \in RowIds, staged'[r][k] \notin {None, Unset}
               PROVE  /\ Complete(staged'[r][k])
                      /\ Secured(r, k, rows[k].supplier, staged[r][k].supplier, "supplier")'
                      /\ Secured(r, k, rows[k].product, staged[r][k].product, "product")'
                      /\ Secured(r, k, rows[k].user, staged[r][k].user, "user")'
    BY DEF ReferencesSound
  <2>1. staged[r][k] \in {None, Unset}
    BY <1>1 DEF RequestSound, QuietSound, DeleteSound, NoWrites
  <2>2. staged'[r][k] = Unassigned(rows[k]) /\ rows[k] # None /\ rows[k].table = "alert"
    BY <2>1 DEF Deletes
  <2> QED
    BY <1>4, <2>2 DEF Secured
<1> QED
  BY <1>2, <1>3, <1>5, <1>6, <1>7, <1>8, <1>9, <1>10, LocalStep DEF RequestSound

LEMMA DetachStep ==
  ASSUME CatalogInv, NEW r \in Requests, BlockedBy(r) = {}, Detach(r)
  PROVE  CatalogInv'
<1> DEFINE i == op[r].row
           children == Dependents(i)
<1>1. /\ Busy(r) /\ op[r] \in Operations /\ pc[r] = "detach"
      /\ RequestSound(r) /\ CatalogTypeOK
  BY BusyFacts DEF Detach, Answers
<1>2. op[r].kind = "delete" /\ i \in RowIds /\ staged[r] = NoWrites /\ locks[r] = NoLocks
  BY <1>1, OperationTypes DEF RequestSound, KindSound, QuietSound
<1>3. CASE Abort(r, "error")
  BY <1>3, AbortStep DEF Answers
<1>4. CASE /\ loaded[r].table = "supplier" => children = {}
           /\ staged' = [staged EXCEPT ![r] = [k \in RowIds |-> IF k \in children THEN None ELSE @[k]]]
           /\ locks' = [locks EXCEPT ![r] = [k \in RowIds |-> IF k \in children THEN "update" ELSE @[k]]]
           /\ Goto(r, "delete")
           /\ UNCHANGED <<rows, op, loaded, cursor>>
  <2>1. /\ staged'[r] = [k \in RowIds |-> IF k \in children THEN None ELSE staged[r][k]]
        /\ staged' = [staged EXCEPT ![r] = staged'[r]]
        /\ locks'[r] = [k \in RowIds |-> IF k \in children THEN "update" ELSE locks[r][k]]
        /\ locks' = [locks EXCEPT ![r] = locks'[r]]
        /\ pc' = [pc EXCEPT ![r] = pc'[r]] /\ pc'[r] = "delete"
        /\ rows' = rows /\ op' = op /\ loaded' = loaded /\ cursor' = cursor
    BY <1>1, <1>4 DEF CatalogTypeOK, Goto
  <2>2. /\ staged'[r] \in [RowIds -> Row \cup {None, Unset}]
        /\ locks'[r] \in [RowIds -> {"none", "key_share", "no_key", "update"}]
    BY <1>1, <2>1 DEF CatalogTypeOK
  <2>3. \A k \in children : /\ rows[k].table \in {"movement", "alert"}
                            /\ rows[k].product = i /\ rows[k] # None
    <3> SUFFICES ASSUME NEW k \in children
                 PROVE  /\ rows[k].table \in {"movement", "alert"}
                        /\ rows[k].product = i /\ rows[k] # None
      OBVIOUS
    <3>1. rows[i] # None /\ rows[k] # None
      BY <1>2, DependentsFacts, RowTypes
    <3>2. rows[i].table \in {"supplier", "product"} /\ rows[i].table = loaded[r].table
      BY <1>1, <1>2, <3>1 DEF RequestSound, LoadedSound
    <3>3. rows[i].table = "product"
      BY <1>4, <3>2
    <3> QED
      BY <1>2, <3>1, <3>3, DependentsFacts
  <2>4. \A k \in children, s \in Requests \ {r} : ~Conflict(locks[s][k], "update")
    <3> SUFFICES ASSUME NEW k \in children, NEW s \in Requests \ {r}
                 PROVE  ~Conflict(locks[s][k], "update")
      OBVIOUS
    <3>1. <<k, "update">> \in Wants(r)
      BY <1>1, <1>4 DEF Wants
    <3> QED
      BY <3>1, Unblocked
  <2>5. DeleteSound(r)'
    BY <1>2, <2>1, <2>3, MarkersAssumption DEF DeleteSound, NoWrites
  <2>6. \A k \in RowIds : Deletes(r, k)
    BY <2>1, <2>3, <2>4 DEF Deletes
  <2> QED
    BY <1>1, <1>2, <2>1, <2>2, <2>5, <2>6, DeletingStep
<1> QED
  BY <1>3, <1>4 DEF Detach

LEMMA DeleteStep ==
  ASSUME CatalogInv, NEW r \in Requests, BlockedBy(r) = {}, Delete(r)
  PROVE  CatalogInv'
<1> DEFINE i == op[r].row
<1>1. /\ Busy(r) /\ op[r] \in Operations /\ pc[r] = "delete"
      /\ RequestSound(r) /\ CatalogTypeOK
  BY BusyFacts DEF Delete, Answers
<1>2. op[r].kind = "delete" /\ i \in RowIds
  BY <1>1, OperationTypes DEF RequestSound, KindSound
<1>3. \A k \in RowIds :
        /\ staged[r][k] = None => rows[k].table \in {"movement", "alert"} /\ rows[k].product = i
        /\ staged[r][k] \in {None, Unset}
  BY <1>1, <1>2 DEF RequestSound, DeleteSound
<1>4. CASE /\ rows[i] = None
           /\ Goto(r, "commit")
           /\ UNCHANGED <<rows, op, loaded, cursor, staged, locks>>
  <2>1. /\ staged' = staged /\ locks' = locks
        /\ pc' = [pc EXCEPT ![r] = pc'[r]] /\ pc'[r] = "commit"
        /\ rows' = rows /\ op' = op /\ loaded' = loaded /\ cursor' = cursor
    BY <1>1, <1>4 DEF CatalogTypeOK, Goto
  <2>2. /\ staged' = [staged EXCEPT ![r] = staged'[r]] /\ locks' = [locks EXCEPT ![r] = locks'[r]]
        /\ staged'[r] \in [RowIds -> Row \cup {None, Unset}]
        /\ locks'[r] \in [RowIds -> {"none", "key_share", "no_key", "update"}]
    BY <1>1, <2>1 DEF CatalogTypeOK
  <2>3. DeleteSound(r)'
    BY <1>2, <1>3, <1>4, <2>1 DEF DeleteSound
  <2> QED
    BY <1>1, <1>2, <2>1, <2>2, <2>3, DeletingStep DEF Deletes
<1>5. CASE /\ rows[i] # None
           /\ Write(r, i, None)
           /\ Lock(r, i, "update")
           /\ Goto(r, "references")
           /\ UNCHANGED <<rows, op, loaded, cursor>>
  <2>1. /\ staged'[r] = [staged[r] EXCEPT ![i] = None]
        /\ staged' = [staged EXCEPT ![r] = staged'[r]]
        /\ locks'[r] = [locks[r] EXCEPT ![i] = "update"]
        /\ locks' = [locks EXCEPT ![r] = locks'[r]]
        /\ pc' = [pc EXCEPT ![r] = pc'[r]] /\ pc'[r] = "references"
        /\ rows' = rows /\ op' = op /\ loaded' = loaded /\ cursor' = cursor
    BY <1>1, <1>5 DEF CatalogTypeOK, Goto, Write, Lock
  <2>2. /\ staged'[r] \in [RowIds -> Row \cup {None, Unset}]
        /\ locks'[r] \in [RowIds -> {"none", "key_share", "no_key", "update"}]
        /\ staged'[r][i] = None /\ locks'[r][i] = "update"
        /\ \A k \in RowIds : k # i => staged'[r][k] = staged[r][k] /\ locks'[r][k] = locks[r][k]
    BY <1>1, <1>2, <2>1 DEF CatalogTypeOK
  <2>3. DeleteSound(r)'
    BY <1>2, <1>3, <2>1, <2>2 DEF DeleteSound
  <2>4. \A s \in Requests \ {r} : ~Conflict(locks[s][i], "update")
    <3>1. <<i, "update">> \in Wants(r)
      BY <1>1 DEF Wants
    <3> QED
      BY <3>1, Unblocked
  <2> QED
    <3>1. \A k \in RowIds : Deletes(r, k)
      BY <1>5, <2>2, <2>4 DEF Deletes
    <3> QED
      BY <1>1, <1>2, <2>1, <2>2, <2>3, <3>1, DeletingStep
<1> QED
  BY <1>4, <1>5 DEF Delete

LEMMA ApplyOnDeleteStep ==
  ASSUME CatalogInv, NEW r \in Requests, BlockedBy(r) = {}, ApplyOnDelete(r)
  PROVE  CatalogInv'
<1> DEFINE i == op[r].row
           Gone == Acting(i, "cascade")
           Cleared == Acting(i, "set_null")
<1>1. /\ Busy(r) /\ op[r] \in Operations /\ pc[r] = "references"
      /\ RequestSound(r) /\ CatalogTypeOK
  BY BusyFacts DEF ApplyOnDelete, Answers
<1>2. op[r].kind = "delete" /\ i \in RowIds
  BY <1>1, OperationTypes DEF RequestSound, KindSound
<1>3. /\ staged[r][i] = None
      /\ \A k \in RowIds :
           /\ staged[r][k] = None =>
                k = i \/ (rows[k].table \in {"movement", "alert"} /\ rows[k].product = i)
           /\ staged[r][k] \in {None, Unset}
  BY <1>1, <1>2 DEF RequestSound, DeleteSound
<1>4. CASE Abort(r, "error")
  BY <1>4, AbortStep DEF Answers
<1>5. CASE /\ Acting(i, "restrict") = {}
           /\ staged' = [staged EXCEPT ![r] = [k \in RowIds |->
                IF k \in Gone THEN None
                ELSE IF k \in Cleared THEN [rows[k] EXCEPT !.user = None] ELSE @[k]]]
           /\ locks' = [locks EXCEPT ![r] = [k \in RowIds |->
                IF k \in Gone THEN "update"
                ELSE IF k \in Cleared THEN "no_key" ELSE @[k]]]
           /\ Goto(r, "commit")
           /\ UNCHANGED <<rows, op, loaded, cursor>>
  <2>1. /\ staged'[r] = [k \in RowIds |->
             IF k \in Gone THEN None
             ELSE IF k \in Cleared THEN Unassigned(rows[k]) ELSE staged[r][k]]
        /\ staged' = [staged EXCEPT ![r] = staged'[r]]
        /\ locks'[r] = [k \in RowIds |->
             IF k \in Gone THEN "update"
             ELSE IF k \in Cleared THEN "no_key" ELSE locks[r][k]]
        /\ locks' = [locks EXCEPT ![r] = locks'[r]]
        /\ pc' = [pc EXCEPT ![r] = pc'[r]] /\ pc'[r] = "commit"
        /\ rows' = rows /\ op' = op /\ loaded' = loaded /\ cursor' = cursor
    BY <1>1, <1>5 DEF CatalogTypeOK, Goto, Unassigned
  <2>2. Gone \subseteq Dependents(i) /\ Cleared \subseteq Dependents(i)
    BY DEF Acting
  <2>3. \A k \in Dependents(i) :
          /\ k \in RowIds /\ k # i /\ rows[k] \in Row /\ rows[k] # None /\ Complete(rows[k])
          /\ k \in Gone \/ k \in Cleared
          /\ k \in Gone => rows[k].table \in {"movement", "alert"} /\ rows[k].product = i
          /\ k \in Cleared => rows[k].table = "alert" /\ rows[i].table = "user"
    BY <1>2, <1>5, DependentsFacts, ActingFacts, RowTypes
  <2>4. /\ staged'[r] \in [RowIds -> Row \cup {None, Unset}]
        /\ locks'[r] \in [RowIds -> {"none", "key_share", "no_key", "update"}]
    <3>1. \A k \in Cleared : Unassigned(rows[k]) \in Row
      BY <2>2, <2>3, UnassignedFacts
    <3>2. /\ staged[r] \in [RowIds -> Row \cup {None, Unset}]
          /\ locks[r] \in [RowIds -> {"none", "key_share", "no_key", "update"}]
      BY <1>1 DEF CatalogTypeOK
    <3> HIDE DEF Gone, Cleared
    <3> QED
      BY <2>1, <3>1, <3>2
  <2>5. \A k \in RowIds : Deletes(r, k)
    <3>1. /\ \A k \in Gone : <<k, "update">> \in Wants(r)
          /\ \A k \in Cleared : <<k, "no_key">> \in Wants(r)
      BY <1>1 DEF Wants
    <3>2. /\ \A k \in Gone, s \in Requests \ {r} : ~Conflict(locks[s][k], "update")
          /\ \A k \in Cleared, s \in Requests \ {r} : ~Conflict(locks[s][k], "no_key")
      BY <3>1, Unblocked
    <3> HIDE DEF Gone, Cleared
    <3> QED
      BY <2>1, <2>2, <2>3, <3>2 DEF Deletes
  <2>6. staged'[r][i] = None
    <3> HIDE DEF Gone, Cleared
    <3> QED
      BY <1>2, <1>3, <2>1, <2>2, <2>3
  <2>7. ASSUME NEW k \in RowIds, Seen(r, k)' # None
        PROVE  ~Refers(Seen(r, k)', i)
    <3>1. CASE k \in Gone
      BY <2>1, <2>7, <3>1, MarkersAssumption DEF Seen
    <3>2. CASE k \in Cleared /\ k \notin Gone
      <4>1. rows[k] \in Row /\ Complete(rows[k]) /\ Leads(rows, rows[k]) /\ rows[k].table = "alert"
            /\ rows[i].table = "user"
        BY <2>2, <2>3, <3>2 DEF CatalogInv, EveryReferenceHolds
      <4>2. /\ Unassigned(rows[k]) \in Row /\ Unassigned(rows[k]).supplier = None
            /\ Unassigned(rows[k]).product = rows[k].product /\ Unassigned(rows[k]).user = None
        BY <4>1, UnassignedFacts
      <4>3. Seen(r, k)' = Unassigned(rows[k])
        <5> HIDE DEF Gone, Cleared
        <5> QED
          BY <2>1, <3>2, <4>2, RowTypes DEF Seen
      <4>4. rows[k].product # i
        BY <4>1 DEF Complete, Leads, IsA
      <4> QED
        BY <1>2, <4>2, <4>3, <4>4, MarkersAssumption DEF Refers
    <3>3. CASE k \notin Gone /\ k \notin Cleared
      <4>1. staged'[r][k] = staged[r][k] /\ k \notin Dependents(i)
        <5> HIDE DEF Gone, Cleared
        <5> QED
          BY <2>1, <2>3, <3>3
      <4>2. Seen(r, k)' = rows[k]
        BY <1>3, <2>1, <2>7, <4>1 DEF Seen
      <4> QED
        BY <2>7, <4>1, <4>2 DEF Dependents
    <3> QED
      BY <3>1, <3>2, <3>3
  <2>8. DeleteSound(r)'
    <3>1. \A k \in RowIds : staged'[r][k] = None =>
            k = i \/ (rows[k].table \in {"movement", "alert"} /\ rows[k].product = i)
      <4>1. \A k \in Cleared : Unassigned(rows[k]) # None
        <5>1. \A k \in Cleared : Unassigned(rows[k]) \in Row
          BY <2>2, <2>3, UnassignedFacts
        <5> QED
          BY <5>1, RowTypes
      <4> HIDE DEF Gone, Cleared
      <4> QED
        BY <1>3, <2>1, <2>2, <2>3, <4>1
    <3> QED
      BY <2>1, <2>6, <2>7, <3>1 DEF DeleteSound
  <2> QED
    BY <1>1, <1>2, <2>1, <2>4, <2>5, <2>8, DeletingStep
<1> QED
  BY <1>4, <1>5 DEF ApplyOnDelete

----------------------------------------------------------------------------
(* COMMIT: what one request wrote becomes what the others see. *)

\* What changes, and what others have locked does not go.
LEMMA CommitFacts ==
  ASSUME CatalogInv, NEW r \in Requests, Commit(r)
  PROVE  /\ Busy(r) /\ ~Done(r) /\ op[r] \in Operations /\ pc[r] = "commit"
         /\ RequestSound(r) /\ CatalogTypeOK /\ CatalogTypeOK'
         /\ \A k \in RowIds : rows'[k] = Seen(r, k)
         /\ op' = op /\ pc'[r] \in {"refresh", "ok"} /\ Done(r)'
         /\ staged'[r] = NoWrites /\ locks'[r] = NoLocks
         /\ \A s \in Requests \ {r} :
              /\ pc'[s] = pc[s] /\ op'[s] = op[s] /\ loaded'[s] = loaded[s]
              /\ cursor'[s] = cursor[s] /\ staged'[s] = staged[s] /\ locks'[s] = locks[s]
         /\ \A k : Old(k) => Old(k)'
<1>1. /\ Busy(r) /\ ~Done(r) /\ op[r] \in Operations /\ pc[r] = "commit"
      /\ RequestSound(r) /\ CatalogTypeOK
  BY BusyFacts DEF Commit, Answers
<1>2. /\ rows' = [i \in RowIds |-> Seen(r, i)] /\ op' = op
      /\ pc' = [pc EXCEPT ![r] = pc'[r]] /\ pc'[r] \in {"refresh", "ok"}
      /\ loaded' = [loaded EXCEPT ![r] = None] /\ cursor' = [cursor EXCEPT ![r] = NoCursor]
      /\ staged' = [staged EXCEPT ![r] = NoWrites] /\ locks' = [locks EXCEPT ![r] = NoLocks]
  BY <1>1 DEF Commit, Goto, Release, Forget, CatalogTypeOK
<1>3. /\ NoWrites \in [RowIds -> Row \cup {None, Unset}]
      /\ NoLocks \in [RowIds -> {"none", "key_share", "no_key", "update"}]
      /\ NoCursor \in [next : Nat, supplier : RowIds \cup {None}]
  BY DEF NoWrites, NoLocks, NoCursor
<1>4. \A k \in RowIds : Seen(r, k) \in Row \cup {None}
  BY <1>1 DEF CatalogTypeOK, Seen
<1>5. rows' \in [RowIds -> Row \cup {None}]
  BY <1>2, <1>4
<1>6. /\ op' \in [Requests -> Operations \cup {None}]
      /\ loaded' \in [Requests -> Row \cup {None}]
      /\ cursor' \in [Requests -> [next : Nat, supplier : RowIds \cup {None}]]
      /\ staged' \in [Requests -> [RowIds -> Row \cup {None, Unset}]]
      /\ locks' \in [Requests -> [RowIds -> {"none", "key_share", "no_key", "update"}]]
  BY <1>1, <1>2, <1>3 DEF CatalogTypeOK
<1>7. pc' \in [Requests -> {"idle", "supplier", "lock_product", "insert", "reference", "seed",
              "update", "detach", "delete", "references", "commit", "refresh"} \cup Answers]
  BY <1>1, <1>2 DEF CatalogTypeOK, Answers
<1>8. CatalogTypeOK'
  BY <1>5, <1>6, <1>7 DEF CatalogTypeOK
<1>9. \A s \in Requests \ {r} :
        /\ pc'[s] = pc[s] /\ op'[s] = op[s] /\ loaded'[s] = loaded[s]
        /\ cursor'[s] = cursor[s] /\ staged'[s] = staged[s] /\ locks'[s] = locks[s]
  BY <1>1, <1>2 DEF CatalogTypeOK
<1>10. Done(r)' /\ staged'[r] = NoWrites /\ locks'[r] = NoLocks
  BY <1>1, <1>2 DEF CatalogTypeOK, Done, Answers
<1>11. \A k : Old(k) => Old(k)'
  <2>1. \A s \in Requests : Done(s) => Done(s)'
    BY <1>9, <1>10 DEF Done
  <2> QED
    BY <2>1 DEF Old
<1> QED
  BY <1>1, <1>2, <1>8, <1>9, <1>10, <1>11

LEMMA CommitRows ==
  ASSUME CatalogInv, NEW r \in Requests, Commit(r), NEW k \in RowIds
  PROVE  /\ rows[k] = None /\ rows'[k] # None => k[1] = r /\ ~Old(k)
         /\ rows[k] # None /\ rows'[k] # None =>
              rows'[k].table = rows[k].table /\ rows'[k].key = rows[k].key
         /\ \A s \in Requests \ {r} : staged[s][k] # Unset => rows'[k] = rows[k]
         /\ \A s \in Requests \ {r} :
              locks[s][k] # "none" /\ rows[k] # None => rows'[k] # None
<1>1. /\ ~Done(r) /\ RequestSound(r) /\ CatalogTypeOK
      /\ rows'[k] = IF staged[r][k] = Unset THEN rows[k] ELSE staged[r][k]
  BY CommitFacts DEF Seen
<1>2. rows[k] = None /\ rows'[k] # None => k[1] = r /\ ~Old(k)
  BY <1>1 DEF RequestSound, StagedSound, Old
<1>3. rows[k] # None /\ rows'[k] # None =>
        rows'[k].table = rows[k].table /\ rows'[k].key = rows[k].key
  BY <1>1 DEF RequestSound, StagedSound
<1>4. ASSUME NEW s \in Requests \ {r}, staged[s][k] # Unset
      PROVE  staged[r][k] = Unset
  <2>1. StagedSound(r) /\ StagedSound(s) /\ ~Conflict(locks[r][k], locks[s][k])
    BY DEF CatalogInv, RequestSound, LocksApart
  <2> QED
    BY <1>4, <2>1, ConflictFacts DEF StagedSound
<1>5. ASSUME NEW s \in Requests \ {r}, locks[s][k] # "none", rows[k] # None
      PROVE  rows'[k] # None
  <2>1. ~Conflict(locks[s][k], locks[r][k])
    BY DEF CatalogInv, LocksApart
  <2>2. locks[r][k] # "update"
    BY <1>5, <2>1, ConflictFacts
  <2> QED
    BY <1>1, <1>5, <2>2 DEF RequestSound, StagedSound
<1> QED
  BY <1>1, <1>2, <1>3, <1>4, <1>5

LEMMA CommitKeys ==
  ASSUME CatalogInv, NEW r \in Requests, Commit(r)
  PROVE  UniqueKeys' /\ KeysApart'
<1>1. /\ CatalogTypeOK /\ CatalogTypeOK'
      /\ \A k \in RowIds : rows'[k] = IF staged[r][k] = Unset THEN rows[k] ELSE staged[r][k]
      /\ \A s \in Requests, k \in RowIds :
           staged'[s][k] = staged[s][k] \/ staged'[s][k] = Unset
  BY CommitFacts DEF Seen, NoWrites
<1>2. \A k \in RowIds : rows[k] # Unset
  BY <1>1, MarkersAssumption DEF CatalogTypeOK
<1>3. \A a, b : HasKey(a, b.table, b.key) /\ b \notin {None, Unset} => HasKey(b, a.table, a.key)
  BY DEF HasKey
<1>4. UniqueKeys'
  <2> SUFFICES ASSUME NEW i \in RowIds, NEW k \in RowIds, rows'[i] # None,
                      HasKey(rows'[k], rows'[i].table, rows'[i].key)
               PROVE  i = k
    BY DEF UniqueKeys
  <2>1. CASE staged[r][i] # Unset
    BY <1>1, <2>1 DEF CatalogInv, KeysApart
  <2>2. CASE staged[r][i] = Unset /\ staged[r][k] # Unset
    <3>1. HasKey(rows[i], staged[r][k].table, staged[r][k].key)
      BY <1>1, <1>2, <1>3, <2>2
    <3>2. staged[r][k] \notin {None, Unset}
      BY <1>1, <2>2 DEF HasKey
    <3> QED
      BY <3>1, <3>2 DEF CatalogInv, KeysApart
  <2>3. CASE staged[r][i] = Unset /\ staged[r][k] = Unset
    BY <1>1, <2>3 DEF CatalogInv, UniqueKeys
  <2> QED
    BY <2>1, <2>2, <2>3
<1>5. KeysApart'
  <2> SUFFICES ASSUME NEW s \in Requests, NEW k \in RowIds, staged'[s][k] \notin {None, Unset},
                      NEW j \in RowIds
               PROVE  /\ HasKey(rows'[j], staged'[s][k].table, staged'[s][k].key) => j = k
                      /\ \A u \in Requests :
                           HasKey(staged'[u][j], staged'[s][k].table, staged'[s][k].key) => j = k
    BY DEF KeysApart
  <2>1. staged'[s][k] = staged[s][k]
    BY <1>1
  <2>2. /\ HasKey(rows[j], staged[s][k].table, staged[s][k].key) => j = k
        /\ \A u \in Requests : HasKey(staged[u][j], staged[s][k].table, staged[s][k].key) => j = k
    BY <2>1 DEF CatalogInv, KeysApart
  <2>3. \A u \in Requests : staged'[u][j] = staged[u][j] \/ staged'[u][j] = Unset
    BY <1>1
  <2>4. rows'[j] = rows[j] \/ rows'[j] = staged[r][j]
    BY <1>1
  <2> QED
    BY <2>1, <2>2, <2>3, <2>4 DEF HasKey
<1> QED
  BY <1>4, <1>5

\* A row that somebody still refers to survives the commit of a delete.
LEMMA CommitKeeps ==
  ASSUME CatalogInv, NEW r \in Requests, Commit(r), NEW k \in RowIds, rows'[k] # None,
         NEW j \in RowIds, Refers(rows'[k], j),
         NEW table \in {"supplier", "product", "user"}, IsA(rows[j], {table})
  PROVE  IsA(rows'[j], {table})
<1>1. /\ Busy(r) /\ pc[r] = "commit" /\ RequestSound(r) /\ rows[j] # None
      /\ rows[j].table = table
      /\ rows'[k] = Seen(r, k) /\ rows'[j] = Seen(r, j)
  BY CommitFacts DEF IsA
<1>2. rows'[j] # None
  <2> SUFFICES ASSUME rows'[j] = None
               PROVE  FALSE
    OBVIOUS
  <2>1. staged[r][j] = None
    BY <1>1 DEF Seen
  <2>2. op[r].kind = "delete"
    BY <1>1, <2>1, MarkersAssumption DEF RequestSound, StagedSound
  <2>3. j = op[r].row
    BY <1>1, <2>1, <2>2 DEF RequestSound, DeleteSound
  <2> QED
    BY <1>1, <2>2, <2>3 DEF RequestSound, DeleteSound
<1> QED
  BY <1>1, <1>2, CommitRows DEF IsA

LEMMA CommitReferences ==
  ASSUME CatalogInv, NEW r \in Requests, Commit(r)
  PROVE  EveryReferenceHolds'
<1> SUFFICES ASSUME NEW k \in RowIds, rows'[k] # None
             PROVE  Complete(rows'[k]) /\ Leads(rows', rows'[k])
  BY DEF EveryReferenceHolds
<1>1. /\ pc[r] = "commit" /\ RequestSound(r) /\ CatalogTypeOK
      /\ rows'[k] \in Row /\ \A i \in RowIds : rows'[i] = Seen(r, i)
  BY CommitFacts DEF CatalogTypeOK
<1>2. rows'[k] = IF staged[r][k] = Unset THEN rows[k] ELSE staged[r][k]
  BY <1>1 DEF Seen
<1> DEFINE Led(column, j, table) ==
      j # None => (rows[k] # None /\ column = j) \/ Holds(r, j, table)
<1>3. /\ Complete(rows'[k])
      /\ Led(rows[k].supplier, rows'[k].supplier, "supplier")
      /\ Led(rows[k].product, rows'[k].product, "product")
      /\ Led(rows[k].user, rows'[k].user, "user")
  <2>1. CASE staged[r][k] = Unset
    BY <1>2, <2>1 DEF CatalogInv, EveryReferenceHolds
  <2>2. CASE staged[r][k] # Unset
    BY <1>1, <1>2, <2>2 DEF RequestSound, ReferencesSound, Secured
  <2> QED
    BY <2>1, <2>2
<1>4. ASSUME NEW column, NEW j \in RowIds, NEW table \in {"supplier", "product", "user"},
             Led(column, j, table), Refers(rows'[k], j),
             rows[k] # None /\ column = j => IsA(rows[j], {table})
      PROVE  IsA(rows'[j], {table})
  <2>0. j # None
    BY MarkersAssumption
  <2>1. CASE Holds(r, j, table)
    BY <1>1, <2>1 DEF Holds
  <2>2. CASE rows[k] # None /\ column = j
    BY <1>4, <2>2, CommitKeeps
  <2> QED
    BY <1>4, <2>0, <2>1, <2>2
<1>5. rows[k] # None => Leads(rows, rows[k])
  BY DEF CatalogInv, EveryReferenceHolds
<1>6. /\ rows'[k].supplier \in RowIds \cup {None} /\ rows'[k].product \in RowIds \cup {None}
      /\ rows'[k].user \in RowIds \cup {None}
  BY <1>1, RowTypes
<1>7. rows'[k].supplier # None => IsA(rows'[rows'[k].supplier], {"supplier"})
  <2> SUFFICES ASSUME NEW j \in RowIds, j = rows'[k].supplier
               PROVE  IsA(rows'[j], {"supplier"})
    BY <1>6
  <2>1. Refers(rows'[k], j) /\ j # None
    BY MarkersAssumption DEF Refers
  <2>2. rows[k] # None /\ rows[k].supplier = j => IsA(rows[j], {"supplier"})
    BY <1>5, <2>1 DEF Leads
  <2> HIDE DEF Led
  <2> QED
    BY <1>3, <1>4, <2>1, <2>2
<1>8. rows'[k].product # None => IsA(rows'[rows'[k].product], {"product"})
  <2> SUFFICES ASSUME NEW j \in RowIds, j = rows'[k].product
               PROVE  IsA(rows'[j], {"product"})
    BY <1>6
  <2>1. Refers(rows'[k], j) /\ j # None
    BY MarkersAssumption DEF Refers
  <2>2. rows[k] # None /\ rows[k].product = j => IsA(rows[j], {"product"})
    BY <1>5, <2>1 DEF Leads
  <2> HIDE DEF Led
  <2> QED
    BY <1>3, <1>4, <2>1, <2>2
<1>9. rows'[k].user # None => IsA(rows'[rows'[k].user], {"user"})
  <2> SUFFICES ASSUME NEW j \in RowIds, j = rows'[k].user
               PROVE  IsA(rows'[j], {"user"})
    BY <1>6
  <2>1. Refers(rows'[k], j) /\ j # None
    BY MarkersAssumption DEF Refers
  <2>2. rows[k] # None /\ rows[k].user = j => IsA(rows[j], {"user"})
    BY <1>5, <2>1 DEF Leads
  <2> HIDE DEF Led
  <2> QED
    BY <1>3, <1>4, <2>1, <2>2
<1> QED
  BY <1>3, <1>7, <1>8, <1>9 DEF Leads

\* The other requests keep what they have established.
LEMMA CommitOthers ==
  ASSUME CatalogInv, NEW r \in Requests, Commit(r), NEW s \in Requests \ {r}
  PROVE  RequestSound(s)'
<1>1. /\ RequestSound(s) /\ RequestSound(r) /\ CatalogTypeOK /\ pc[r] = "commit" /\ ~Done(r)
      /\ pc'[s] = pc[s] /\ op'[s] = op[s] /\ loaded'[s] = loaded[s]
      /\ cursor'[s] = cursor[s] /\ staged'[s] = staged[s] /\ locks'[s] = locks[s]
      /\ \A k : Old(k) => Old(k)'
      /\ \A k \in RowIds : rows'[k] = Seen(r, k)
  BY CommitFacts DEF CatalogInv
<1>2. /\ Done(s)' = Done(s) /\ Busy(s)' = Busy(s)
      /\ Referred(s)' = Referred(s) /\ ReferredTable(s)' = ReferredTable(s)
  BY <1>1 DEF Done, Busy, Referred, ReferredTable
<1>3. \A k \in RowIds : staged[s][k] # Unset => rows'[k] = rows[k]
  BY CommitRows
<1>4. \A j \in RowIds : \A table : Holds(s, j, table) => Holds(s, j, table)'
  <2> SUFFICES ASSUME NEW j \in RowIds, NEW table, Holds(s, j, table)
               PROVE  Holds(s, j, table)'
    OBVIOUS
  <2>1. CASE staged[s][j] # Unset
    BY <1>1, <2>1 DEF Holds, Seen
  <2>2. CASE staged[s][j] = Unset
    <3>1. rows[j] # None /\ rows[j].table = table /\ locks[s][j] # "none"
      BY <2>2 DEF Holds, Seen, IsA
    <3>2. rows'[j] # None /\ rows'[j].table = table
      BY <3>1, CommitRows
    <3> QED
      BY <1>1, <2>2, <3>1, <3>2 DEF Holds, Seen, IsA
  <2> QED
    BY <2>1, <2>2
<1>5. KindSound(s)' /\ QuietSound(s)' /\ CursorSound(s)'
  BY <1>1, <1>2 DEF RequestSound, KindSound, QuietSound, CursorSound
<1>6. Busy(s) => op[s] \in Operations
  BY <1>1 DEF RequestSound, KindSound
<1>7. LoadedSound(s)'
  <2>1. \A i \in RowIds : Old(i) /\ rows'[i] # None => rows[i] # None /\ rows'[i].table = rows[i].table
    BY CommitRows
  <2>2. Busy(s) /\ op[s].kind \in Updating \cup {"delete"} => op[s].row \in RowIds
    BY <1>6, OperationTypes
  <2> QED
    BY <1>1, <1>2, <2>1, <2>2 DEF RequestSound, LoadedSound
<1>8. StagedSound(s)'
  BY <1>1, <1>3 DEF RequestSound, StagedSound
<1>9. ReferencesSound(s)'
  <2> SUFFICES ASSUME NEW k \in RowIds, staged[s][k] \notin {None, Unset}
               PROVE  /\ Complete(staged[s][k])
                      /\ Secured(s, k, rows[k].supplier, staged[s][k].supplier, "supplier")'
                      /\ Secured(s, k, rows[k].product, staged[s][k].product, "product")'
                      /\ Secured(s, k, rows[k].user, staged[s][k].user, "user")'
    BY <1>1 DEF ReferencesSound
  <2>1. staged[s][k] \in Row /\ rows'[k] = rows[k]
    BY <1>1, <1>3 DEF CatalogTypeOK
  <2>2. /\ Complete(staged[s][k])
        /\ Secured(s, k, rows[k].supplier, staged[s][k].supplier, "supplier")
        /\ Secured(s, k, rows[k].product, staged[s][k].product, "product")
        /\ Secured(s, k, rows[k].user, staged[s][k].user, "user")
    BY <1>1 DEF RequestSound, ReferencesSound
  <2> QED
    BY <1>1, <1>2, <1>4, <2>1, <2>2, RowTypes DEF Secured
<1>10. RecordSound(s)'
  <2>1. pc[s] \in {"insert", "reference"} /\ op[s].kind = "record" =>
          op[s].product \in RowIds /\ Holds(s, op[s].product, "product")
    BY <1>1, <1>6, OperationTypes DEF RequestSound, RecordSound, Busy, Done, Answers
  <2> QED
    BY <1>1, <1>4, <2>1 DEF RecordSound
<1>11. DeleteSound(s)'
  <2> SUFFICES ASSUME Busy(s), op[s].kind = "delete"
               PROVE  DeleteSound(s)'
    BY <1>1, <1>2 DEF DeleteSound
  <2> DEFINE i == op[s].row
  <2>1. i \in RowIds /\ Old(i)
    BY <1>1, <1>6, OperationTypes DEF RequestSound, LoadedSound
  <2>2. \A k \in RowIds : staged[s][k] = None =>
          \/ k = i /\ pc[s] \in {"references", "commit"}
          \/ rows'[k].table \in {"movement", "alert"} /\ rows'[k].product = i
    BY <1>1, <1>3, MarkersAssumption DEF RequestSound, DeleteSound
  <2>3. pc[s] = "commit" /\ rows[i] = None => rows'[i] = None
    BY <2>1, CommitRows
  <2>4. ASSUME pc[s] = "commit", rows[i] # None, NEW k \in RowIds, Seen(s, k)' # None
        PROVE  staged[s][i] = None /\ ~Refers(Seen(s, k)', i)
    <3>1. /\ staged[s][i] = None
          /\ \A j \in RowIds : Seen(s, j) # None => ~Refers(Seen(s, j), i)
      BY <1>1, <2>4 DEF RequestSound, DeleteSound
    <3>2. CASE staged[s][k] # Unset
      BY <1>1, <2>4, <3>1, <3>2 DEF Seen
    <3>3. CASE staged[s][k] = Unset /\ staged[r][k] = Unset
      <4>1. Seen(s, k)' = rows[k] /\ Seen(s, k) = rows[k]
        BY <1>1, <3>3 DEF Seen
      <4> QED
        BY <2>4, <3>1, <4>1
    <3>4. CASE staged[s][k] = Unset /\ staged[r][k] # Unset
      <4>1. Seen(s, k)' = staged[r][k] /\ Seen(s, k) = rows[k] /\ staged[r][k] \in Row
        BY <1>1, <2>4, <3>4 DEF Seen, CatalogTypeOK
      <4>2. \A table : ~Holds(r, i, table)
        <5>1. locks[s][i] = "update"
          BY <1>1, <2>1, <2>4, <3>1, MarkersAssumption DEF RequestSound, StagedSound
        <5>2. locks[r][i] = "none"
          BY <1>1, <2>1, <5>1, ConflictFacts DEF CatalogInv, LocksApart
        <5>3. staged[r][i] = Unset
          BY <1>1, <2>1, <2>4, <5>2 DEF RequestSound, StagedSound
        <5> QED
          BY <5>2, <5>3 DEF Holds
      <4>3. /\ Secured(r, k, rows[k].supplier, staged[r][k].supplier, "supplier")
            /\ Secured(r, k, rows[k].product, staged[r][k].product, "product")
            /\ Secured(r, k, rows[k].user, staged[r][k].user, "user")
        BY <1>1, <4>1, RowTypes DEF RequestSound, ReferencesSound
      <4>4. i # None
        BY <2>1, MarkersAssumption
      <4>5. rows[k] # None => ~Refers(rows[k], i)
        BY <3>1, <4>1
      <4> QED
        BY <1>1, <3>1, <4>1, <4>2, <4>3, <4>4, <4>5 DEF Secured, Refers
    <3> QED
      BY <3>1, <3>2, <3>3, <3>4
  <2>5. /\ pc[s] \in {"delete", "references"} => \A k \in RowIds : staged[s][k] \in {None, Unset}
        /\ pc[s] = "references" => staged[s][i] = None
        /\ pc[s] = "commit" /\ rows[i] # None => staged[s][i] = None
    BY <1>1 DEF RequestSound, DeleteSound
  <2> QED
    BY <1>1, <2>2, <2>3, <2>4, <2>5 DEF DeleteSound
<1> QED
  BY <1>5, <1>7, <1>8, <1>9, <1>10, <1>11 DEF RequestSound

LEMMA CommitStep ==
  ASSUME CatalogInv, NEW r \in Requests, Commit(r)
  PROVE  CatalogInv'
<1>1. /\ CatalogTypeOK' /\ Done(r)' /\ staged'[r] = NoWrites /\ locks'[r] = NoLocks
      /\ \A s \in Requests \ {r} : locks'[s] = locks[s]
      /\ \A k : Old(k) => Old(k)'
  BY CommitFacts
<1>2. \A s \in Requests : RequestSound(s)'
  BY <1>1, CommitOthers, DoneSound
<1>3. RowsFresh'
  <2> SUFFICES ASSUME NEW k \in RowIds, rows'[k] # None
               PROVE  Old(k)'
    BY DEF RowsFresh
  <2>1. CASE rows[k] # None
    BY <1>1, <2>1 DEF CatalogInv, RowsFresh
  <2>2. CASE rows[k] = None
    <3>1. k[1] = r
      BY <2>2, CommitRows
    <3> QED
      BY <1>1, <3>1 DEF Old
  <2> QED
    BY <2>1, <2>2
<1>4. LocksApart'
  <2> SUFFICES ASSUME NEW s \in Requests, NEW u \in Requests, s # u, NEW k \in RowIds
               PROVE  ~Conflict(locks'[s][k], locks'[u][k])
    BY DEF LocksApart
  <2>1. NoLocks[k] = "none"
    BY DEF NoLocks
  <2> QED
    BY <1>1, <2>1, ConflictFacts DEF CatalogInv, LocksApart
<1> QED
  BY <1>1, <1>2, <1>3, <1>4, CommitKeys, CommitReferences DEF CatalogInv

----------------------------------------------------------------------------
(* The inductive invariant. *)

LEMMA CatalogInitInv == CatalogInit => CatalogInv
<1> SUFFICES ASSUME CatalogInit
             PROVE  CatalogInv
  OBVIOUS
<1>1. /\ rows = AtStart
      /\ \A r \in Requests : /\ pc[r] = "idle" /\ cursor[r] = NoCursor
                             /\ staged[r] = NoWrites /\ locks[r] = NoLocks
  BY DEF CatalogInit
<1>2. \A n \in 1..Len(Present) : Present[n] \in Row
  BY CatalogAssumption
<1>3. \A i \in RowIds : i[1] = 0 => i[2] \in 1..Len(Present)
  BY CatalogAssumption DEF RowIds, Requests
<1>4. AtStart \in [RowIds -> Row \cup {None}]
  BY <1>2, <1>3 DEF AtStart
<1>5. /\ NoWrites \in [RowIds -> Row \cup {None, Unset}]
      /\ NoLocks \in [RowIds -> {"none", "key_share", "no_key", "update"}]
      /\ NoCursor \in [next : Nat, supplier : RowIds \cup {None}]
  BY DEF NoWrites, NoLocks, NoCursor
<1>6. CatalogTypeOK
  BY <1>4, <1>5 DEF CatalogInit, CatalogTypeOK
<1>7. UniqueKeys /\ EveryReferenceHolds
  BY <1>1, PresentAssumption DEF UniqueKeys, EveryReferenceHolds
<1>8. RowsFresh
  BY <1>1, CatalogAssumption DEF RowsFresh, AtStart, Old, Requests
<1>9. LocksApart
  BY <1>1, ConflictFacts DEF LocksApart, NoLocks
<1>10. KeysApart
  BY <1>1 DEF KeysApart, NoWrites
<1>11. ASSUME NEW r \in Requests
       PROVE  RequestSound(r)
  <2>1. \A k \in RowIds : staged[r][k] = Unset
    BY <1>1 DEF NoWrites
  <2>2. ~Busy(r)
    BY <1>1 DEF Busy
  <2>3. KindSound(r) /\ QuietSound(r) /\ CursorSound(r) /\ LoadedSound(r) /\ RecordSound(r)
    BY <1>1, <2>2 DEF KindSound, QuietSound, CursorSound, LoadedSound, RecordSound
  <2>4. StagedSound(r) /\ ReferencesSound(r) /\ DeleteSound(r)
    BY <2>1, <2>2 DEF StagedSound, ReferencesSound, DeleteSound
  <2> QED
    BY <2>3, <2>4 DEF RequestSound
<1> QED
  BY <1>6, <1>7, <1>8, <1>9, <1>10, <1>11 DEF CatalogInv

LEMMA CatalogStutterInv ==
  ASSUME CatalogInv, UNCHANGED catalogVars
  PROVE  CatalogInv'
<1>1. /\ rows' = rows /\ op' = op /\ pc' = pc /\ loaded' = loaded /\ cursor' = cursor
      /\ staged' = staged /\ locks' = locks
  BY DEF catalogVars
<1>2. \A k : Old(k) => Old(k)'
  BY <1>1 DEF Old, Done
<1>3. \A s \in Requests : RequestSound(s)'
  BY <1>1, <1>2, OthersKept DEF CatalogInv
<1>4. CatalogTypeOK' /\ UniqueKeys' /\ EveryReferenceHolds'
  BY <1>1 DEF CatalogInv, CatalogTypeOK, UniqueKeys, EveryReferenceHolds, Leads
<1>5. RowsFresh' /\ LocksApart' /\ KeysApart'
  BY <1>1, <1>2 DEF CatalogInv, RowsFresh, LocksApart, KeysApart
<1> QED
  BY <1>3, <1>4, <1>5 DEF CatalogInv

LEMMA CatalogStepInv == CatalogInv /\ [CatalogNext]_catalogVars => CatalogInv'
<1>1. ASSUME CatalogInv, NEW r \in Requests, Arrive(r)
      PROVE  CatalogInv'
  BY <1>1, AskCreateStep, AskRecordStep, AskSeedStep, AskUpdateStep, AskAcknowledgeStep,
     AskDeleteStep DEF Arrive
<1>2. ASSUME CatalogInv, NEW r \in Requests, Serve(r)
      PROVE  CatalogInv'
  BY <1>2, FindSupplierStep, LockProductStep, InsertStep, CheckReferenceStep, SeedStep,
     UpdateStep, DetachStep, DeleteStep, ApplyOnDeleteStep, CommitStep, RefreshStep DEF Serve
<1>3. ASSUME CatalogInv, NEW r \in Requests, DetectDeadlock(r)
      PROVE  CatalogInv'
  BY <1>3, AbortStep DEF DetectDeadlock, Answers
<1> QED
  BY <1>1, <1>2, <1>3, CatalogStutterInv DEF CatalogNext

\* The dashboard only reads the catalog.
LEMMA DashboardReads == [Next]_vars => [CatalogNext]_catalogVars
BY DEF Next, vars, CatalogNext, catalogVars, Get, TurnAway, Count, Set, Expire

\* The inductive invariant holds, and the dashboard does not disturb it.
THEOREM CatalogInvariant == Spec => []CatalogInv
<1>1. Init => CatalogInv
  BY CatalogInitInv DEF Init
<1>2. CatalogInv /\ [Next]_vars => CatalogInv'
  BY CatalogStepInv, DashboardReads
<1> QED
  BY <1>1, <1>2, PTL DEF Spec

\* No two rows of a table share a key, whatever creates and seeds run at once.
THEOREM KeysAreUnique == Spec => []UniqueKeys
BY CatalogInvariant, PTL DEF CatalogInv

\* Every reference leads to a row of the right table, whatever is deleted
\* while rows that refer to it are written.
THEOREM ReferencesHold == Spec => []EveryReferenceHolds
BY CatalogInvariant, PTL DEF CatalogInv

\* The only step that changes rows is a COMMIT.
LEMMA OnlyCommitWrites ==
  ASSUME [CatalogNext]_catalogVars, rows' # rows
  PROVE  \E r \in Requests : Commit(r)
<1>1. PICK r \in Requests : Arrive(r) \/ Serve(r) \/ DetectDeadlock(r)
  BY DEF CatalogNext, catalogVars
<1>2. \A answer : Abort(r, answer) => rows' = rows
  BY DEF Abort
<1>3. ~DetectDeadlock(r)
  BY <1>2 DEF DetectDeadlock
<1>4. ~Arrive(r)
  BY DEF Arrive, AskCreate, AskRecord, AskSeed, AskUpdate, AskAcknowledge, AskDelete
<1>5. /\ ~FindSupplier(r) /\ ~LockProduct(r) /\ ~Insert(r) /\ ~CheckReference(r) /\ ~Seed(r)
      /\ ~Update(r) /\ ~Refresh(r)
  BY <1>2 DEF FindSupplier, LockProduct, Insert, CheckReference, Seed, Update, Refresh
<1>6. ~Detach(r) /\ ~Delete(r) /\ ~ApplyOnDelete(r)
  BY <1>2 DEF Detach, Delete, ApplyOnDelete
<1> QED
  BY <1>1, <1>3, <1>4, <1>5, <1>6 DEF Serve

\* A movement never changes, and disappears only in the commit that deletes
\* its product.
THEOREM MovementsAreKept == Spec => HistoryIsKept
<1> DEFINE Kept == \A k \in RowIds : rows[k] # None =>
      (rows[k].table = "movement" /\ rows'[k] # rows[k] =>
         rows'[k] = None /\ rows'[rows[k].product] = None)
<1>1. CatalogInv /\ [CatalogNext]_catalogVars => Kept
  <2> SUFFICES ASSUME CatalogInv, [CatalogNext]_catalogVars, NEW k \in RowIds, rows[k] # None,
                      rows[k].table = "movement", rows'[k] # rows[k]
               PROVE  rows'[k] = None /\ rows'[rows[k].product] = None
    OBVIOUS
  <2>1. PICK r \in Requests : Commit(r)
    BY OnlyCommitWrites
  <2>2. /\ Busy(r) /\ pc[r] = "commit" /\ RequestSound(r) /\ CatalogTypeOK
        /\ op[r] \in Operations
        /\ \A i \in RowIds : rows'[i] = IF staged[r][i] = Unset THEN rows[i] ELSE staged[r][i]
    BY <2>1, CommitFacts DEF Seen
  <2>3. staged[r][k] = None /\ op[r].kind = "delete"
    BY <2>2 DEF RequestSound, StagedSound
  <2>4. op[r].row \in RowIds
    BY <2>2, <2>3, OperationTypes
  <2>5. k # op[r].row
    BY <2>2, <2>3 DEF RequestSound, LoadedSound, Resources
  <2>6. rows[k].product = op[r].row
    BY <2>2, <2>3, <2>5 DEF RequestSound, DeleteSound
  <2>7. rows[op[r].row] # None
    <3>1. Leads(rows, rows[k]) /\ rows[k].product # None
      BY <2>4, <2>6, MarkersAssumption DEF CatalogInv, EveryReferenceHolds
    <3> QED
      BY <2>6, <3>1 DEF Leads, IsA
  <2>8. staged[r][op[r].row] = None
    BY <2>2, <2>3, <2>7 DEF RequestSound, DeleteSound
  <2> QED
    BY <2>2, <2>3, <2>4, <2>6, <2>8, MarkersAssumption
<1>2. CatalogInv /\ [Next]_vars => [Kept]_catalogVars
  BY <1>1, DashboardReads
<1> QED
  BY <1>2, CatalogInvariant, PTL DEF Spec, HistoryIsKept

----------------------------------------------------------------------------
(* The seed. *)

\* The rows of the seed's list that request r sees.
InSight(r, n) == \E i \in RowIds : HasKey(Seen(r, i), Demo[n].table, Demo[n].key)

\* What a seed has passed on its list is there, committed or in its own
\* transaction.
ListSound(r) ==
  Busy(r) /\ op[r].kind = "seed" =>
    /\ \A n \in 1..Len(Demo) :
         n < cursor[r].next \/ (n = cursor[r].next /\ pc[r] = "reference") => InSight(r, n)
    /\ pc[r] = "commit" => cursor[r].next > Len(Demo)

NobodyDeletes == \A s \in Requests : op[s] # None => op[s].kind # "delete"

\* Every call is known from its arrival on.
CallsKnown == \A r \in Requests : pc[r] = "idle" => op[r] = None

SeedInv ==
  /\ CallsKnown
  /\ NobodyDeletes => \A r \in Requests : ListSound(r)

\* A step of one request leaves what the others have done.
LEMMA OneActs ==
  ASSUME CatalogTypeOK, NEW r \in Requests, Arrive(r) \/ Serve(r) \/ DetectDeadlock(r)
  PROVE  /\ \A s \in Requests \ {r} :
              pc'[s] = pc[s] /\ op'[s] = op[s] /\ cursor'[s] = cursor[s] /\ staged'[s] = staged[s]
         /\ pc[r] # "idle" => op' = op
         /\ pc[r] # "idle" => ~Arrive(r)
         /\ Serve(r) => pc[r] # "idle"
         /\ pc'[r] # "idle"
<1>0. /\ pc \in [Requests -> {"idle", "supplier", "lock_product", "insert", "reference", "seed",
                "update", "detach", "delete", "references", "commit", "refresh"} \cup Answers]
      /\ op \in [Requests -> Operations \cup {None}]
      /\ cursor \in [Requests -> [next : Nat, supplier : RowIds \cup {None}]]
      /\ staged \in [Requests -> [RowIds -> Row \cup {None, Unset}]]
  BY DEF CatalogTypeOK
<1> DEFINE Frame == \A s \in Requests \ {r} :
              pc'[s] = pc[s] /\ op'[s] = op[s] /\ cursor'[s] = cursor[s] /\ staged'[s] = staged[s]
           Acts == Frame /\ pc'[r] # "idle" /\ pc[r] # "idle" /\ op' = op
<1>1. \A answer \in Answers : Abort(r, answer) => Frame /\ pc'[r] # "idle" /\ op' = op
  BY <1>0 DEF Abort, Goto, Release, Forget, Answers
<1>2. ASSUME Arrive(r)
      PROVE  Frame /\ pc'[r] # "idle" /\ pc[r] = "idle"
  <2>1. PICK o \in Operations :
          AskCreate(r, o) \/ AskRecord(r, o) \/ AskSeed(r, o)
            \/ AskUpdate(r, o) \/ AskAcknowledge(r, o) \/ AskDelete(r, o)
    BY <1>2 DEF Arrive
  <2>2. pc[r] = "idle"
    BY <2>1 DEF AskCreate, AskRecord, AskSeed, AskUpdate, AskAcknowledge, AskDelete
  <2>3. CASE AskCreate(r, o)
    BY <1>0, <2>2, <2>3 DEF AskCreate, Goto, Answers
  <2>4. CASE AskRecord(r, o) \/ AskSeed(r, o)
    BY <1>0, <2>2, <2>4 DEF AskRecord, AskSeed, Goto
  <2>5. CASE AskUpdate(r, o)
    BY <1>0, <2>2, <2>5 DEF AskUpdate, Goto
  <2>6. CASE AskAcknowledge(r, o) \/ AskDelete(r, o)
    BY <1>0, <2>2, <2>6 DEF AskAcknowledge, AskDelete, Goto
  <2> QED
    BY <2>1, <2>2, <2>3, <2>4, <2>5, <2>6
<1>3. \A supplier : Inserted(r, supplier) =>
        /\ \A s \in Requests \ {r} : pc'[s] = pc[s] /\ cursor'[s] = cursor[s]
        /\ pc'[r] \in {"commit", "seed"}
  BY <1>0 DEF Inserted, Goto
<1>4. ASSUME Serve(r)
      PROVE  Acts
  <2>1. ASSUME FindSupplier(r) \/ Refresh(r)
        PROVE  Acts
    BY <1>0, <2>1 DEF FindSupplier, Refresh, Goto
  <2>2. ASSUME LockProduct(r)
        PROVE  Acts
    BY <1>0, <1>1, <2>2 DEF LockProduct, Goto, Answers
  <2>3. ASSUME Insert(r)
        PROVE  Acts
    <3>1. CASE Abort(r, "error")
      BY <1>1, <2>3, <3>1 DEF Insert, Answers
    <3>2. CASE ~Abort(r, "error")
      BY <1>0, <1>3, <2>3, <3>2 DEF Insert, Write, Goto
    <3> QED
      BY <3>1, <3>2
  <2>4. ASSUME CheckReference(r)
        PROVE  Acts
    BY <1>0, <1>1, <1>3, <2>4 DEF CheckReference, Answers
  <2>5. ASSUME Seed(r)
        PROVE  Acts
    BY <1>0, <2>5 DEF Seed, Goto
  <2>6. ASSUME Update(r)
        PROVE  Acts
    BY <1>0, <1>1, <2>6 DEF Update, Write, Goto, Answers
  <2>7. ASSUME Detach(r)
        PROVE  Acts
    BY <1>0, <1>1, <2>7 DEF Detach, Goto, Answers
  <2>8. ASSUME Delete(r)
        PROVE  Acts
    BY <1>0, <2>8 DEF Delete, Write, Goto
  <2>9. ASSUME ApplyOnDelete(r)
        PROVE  Acts
    BY <1>0, <1>1, <2>9 DEF ApplyOnDelete, Goto, Answers
  <2>10. ASSUME Commit(r)
         PROVE  Acts
    BY <1>0, <2>10 DEF Commit, Release, Forget, Goto
  <2> QED
    BY <1>4, <2>1, <2>2, <2>3, <2>4, <2>5, <2>6, <2>7, <2>8, <2>9, <2>10 DEF Serve
<1>5. ASSUME DetectDeadlock(r)
      PROVE  Acts
  <2>1. Frame /\ pc'[r] # "idle" /\ op' = op
    BY <1>1, <1>5 DEF DetectDeadlock, Answers
  <2>2. pc[r] # "idle"
    <3>1. SUFFICES ASSUME pc[r] = "idle"
                   PROVE  BlockedBy(r) = {}
      BY <1>5 DEF DetectDeadlock
    <3>2. Wants(r) = {}
      BY <3>1 DEF Wants
    <3> QED
      BY <3>1, <3>2 DEF BlockedBy
  <2> QED
    BY <2>1, <2>2
<1> QED
  BY <1>2, <1>4, <1>5

\* A row found in a transaction that only adds to what it sees stays found.
LEMMA SightGrows ==
  ASSUME NEW r \in Requests,
         \A i \in RowIds : Seen(r, i) \notin {None, Unset} =>
           /\ Seen(r, i)' \notin {None, Unset}
           /\ Seen(r, i)'.table = Seen(r, i).table /\ Seen(r, i)'.key = Seen(r, i).key
  PROVE  \A n : InSight(r, n) => InSight(r, n)'
<1> SUFFICES ASSUME NEW n, NEW i \in RowIds, HasKey(Seen(r, i), Demo[n].table, Demo[n].key)
             PROVE  HasKey(Seen(r, i)', Demo[n].table, Demo[n].key)
  BY DEF InSight
<1> QED
  BY DEF HasKey

\* A request in progress is not disturbed by what another one does.
LEMMA OthersList ==
  ASSUME CatalogInv, NEW r \in Requests, Arrive(r) \/ Serve(r) \/ DetectDeadlock(r),
         NEW s \in Requests \ {r}, ListSound(s), op[r] # None => op[r].kind # "delete"
  PROVE  ListSound(s)'
<1>1. /\ pc'[s] = pc[s] /\ op'[s] = op[s] /\ cursor'[s] = cursor[s] /\ staged'[s] = staged[s]
      /\ CatalogTypeOK
  BY OneActs DEF CatalogInv
<1>2. \A n : InSight(s, n) => InSight(s, n)'
  <2> SUFFICES ASSUME NEW i \in RowIds, Seen(s, i) \notin {None, Unset}
               PROVE  /\ Seen(s, i)' \notin {None, Unset}
                      /\ Seen(s, i)'.table = Seen(s, i).table /\ Seen(s, i)'.key = Seen(s, i).key
    BY SightGrows
  <2>1. CASE rows' = rows
    BY <1>1, <2>1 DEF Seen
  <2>2. CASE staged[s][i] # Unset
    BY <1>1, <2>2 DEF Seen
  <2>3. CASE Commit(r) /\ staged[s][i] = Unset
    <3>1. /\ rows'[i] = Seen(r, i) /\ Seen(s, i) = rows[i] /\ Seen(s, i)' = rows'[i]
          /\ RequestSound(r) /\ rows[i] # None /\ op[r] \in Operations
          /\ rows' \in [RowIds -> Row \cup {None}]
      BY <1>1, <2>3, CommitFacts DEF Seen, CatalogTypeOK
    <3>2. op[r] # None
      BY <3>1, CatalogAssumption, MarkersAssumption
    <3>3. staged[r][i] # None
      BY <3>1, <3>2, MarkersAssumption DEF RequestSound, StagedSound
    <3>4. rows'[i] # None
      BY <3>1, <3>3 DEF Seen
    <3>5. rows'[i].table = rows[i].table /\ rows'[i].key = rows[i].key
      BY <2>3, <3>1, <3>4, CommitRows
    <3> QED
      BY <3>1, <3>4, <3>5, MarkersAssumption
  <2>4. rows' = rows \/ Commit(r)
    <3>1. ASSUME NEW u \in Requests, Commit(u), u # r
          PROVE  FALSE
      BY <3>1, CommitFacts, OneActs
    <3> QED
      BY <3>1, OnlyCommitWrites DEF CatalogNext
  <2> QED
    BY <2>1, <2>2, <2>3, <2>4
<1> QED
  BY <1>1, <1>2 DEF ListSound, Busy, Done

\* A seed whose row is in goes on with the next, or to the row's reference.
LEMMA Passed ==
  ASSUME CatalogInv, NEW r \in Requests, op' = op, op[r].kind = "seed",
         pc[r] \in {"insert", "reference"},
         \/ pc' = [pc EXCEPT ![r] = "reference"] /\ cursor' = cursor
         \/ \E supplier : Inserted(r, supplier),
         NEW n, n = cursor[r].next, InSight(r, n)',
         \A m \in 1..Len(Demo) : m < n => InSight(r, m)'
  PROVE  ListSound(r)'
<1>1. /\ CatalogTypeOK /\ RequestSound(r) /\ Busy(r)
      /\ n \in 1..Len(Demo) /\ Len(Demo) \in Nat
  BY DemoTypes DEF CatalogInv, RequestSound, CursorSound, Busy, Done, Answers
<1>2. CASE pc' = [pc EXCEPT ![r] = "reference"] /\ cursor' = cursor
  <2>1. pc'[r] = "reference" /\ cursor'[r] = cursor[r]
    BY <1>1, <1>2 DEF CatalogTypeOK
  <2> QED
    BY <1>1, <2>1 DEF ListSound
<1>3. ASSUME NEW supplier, Inserted(r, supplier)
      PROVE  ListSound(r)'
  <2>1. /\ cursor'[r].next = n + 1
        /\ pc'[r] = IF n = Len(Demo) THEN "commit" ELSE "seed"
    BY <1>1, <1>3 DEF CatalogTypeOK, Inserted, Goto
  <2>2. \A m \in 1..Len(Demo) : m < n + 1 => m < n \/ m = n
    BY <1>1
  <2> QED
    BY <1>1, <2>1, <2>2 DEF ListSound
<1> QED
  BY <1>2, <1>3

\* The seed's own statements: a row of the list is passed when it was found
\* or has been inserted.
LEMMA OwnList ==
  ASSUME CatalogInv, NEW r \in Requests, Arrive(r) \/ Serve(r) \/ DetectDeadlock(r), ListSound(r)
  PROVE  ListSound(r)'
<1>0. PICK n : n = cursor[r].next
  OBVIOUS
<1>1. CatalogTypeOK /\ RequestSound(r)
  BY DEF CatalogInv
<1>2. CASE Arrive(r)
  <2>1. pc[r] = "idle" /\ n = 1
    BY <1>0, <1>1, <1>2, OneActs DEF RequestSound, CursorSound, NoCursor
  <2>2. PICK o \in Operations :
          AskCreate(r, o) \/ AskRecord(r, o) \/ AskSeed(r, o)
            \/ AskUpdate(r, o) \/ AskAcknowledge(r, o) \/ AskDelete(r, o)
    BY <1>2 DEF Arrive
  <2>3. op'[r] = o
    BY <1>0, <1>1, <2>2 DEF CatalogTypeOK, AskCreate, AskRecord, AskSeed, AskUpdate, AskAcknowledge,
       AskDelete
  <2>4. CASE AskSeed(r, o)
    <3>1. pc'[r] = "seed" /\ cursor' = cursor
      BY <1>0, <1>1, <2>4 DEF CatalogTypeOK, AskSeed, Goto
    <3>2. Len(Demo) \in Nat
      BY DemoTypes
    <3>3. \A m \in 1..Len(Demo) : ~(m < 1)
      BY <3>2
    <3>4. cursor'[r].next = 1
      BY <1>0, <2>1, <3>1
    <3> QED
      BY <3>1, <3>3, <3>4 DEF ListSound
  <2>5. CASE ~AskSeed(r, o)
    <3>1. o.kind # "seed"
      BY <2>2, <2>5 DEF AskCreate, AskRecord, AskUpdate, AskAcknowledge, AskDelete
    <3> QED
      BY <2>3, <3>1 DEF ListSound
  <2> QED
    BY <2>4, <2>5
<1>3. \A answer \in Answers : Abort(r, answer) => ListSound(r)'
  BY <1>1 DEF CatalogTypeOK, Abort, Goto, ListSound, Busy, Done
<1>4. CASE DetectDeadlock(r)
  BY <1>3, <1>4 DEF DetectDeadlock, Answers
<1>5. ASSUME Serve(r)
      PROVE  ListSound(r)'
  <2>1. /\ pc[r] # "idle" /\ op' = op /\ n \in Nat
    BY <1>0, <1>1, <1>5, OneActs DEF CatalogTypeOK, Arrive, AskCreate
  <2>2. ASSUME Commit(r) \/ Refresh(r)
        PROVE  ListSound(r)'
    <3>1. Done(r)'
      BY <1>0, <1>1, <2>2 DEF CatalogTypeOK, Commit, Refresh, Goto, Done, Answers
    <3> QED
      BY <3>1 DEF ListSound, Busy
  <2>3. ASSUME FindSupplier(r) \/ LockProduct(r) \/ Update(r) \/ Detach(r) \/ Delete(r)
                 \/ ApplyOnDelete(r)
        PROVE  ListSound(r)'
    <3>1. pc[r] \in {"supplier", "lock_product", "update", "detach", "delete", "references"}
      BY <2>3 DEF FindSupplier, LockProduct, Update, Detach, Delete, ApplyOnDelete
    <3>2. op[r].kind # "seed"
      BY <1>0, <1>1, <3>1 DEF RequestSound, KindSound, Busy, Done, Answers, Updating
    <3> QED
      BY <1>0, <2>1, <3>2 DEF ListSound
  <2>4. CASE op[r].kind # "seed"
    BY <1>0, <2>1, <2>4 DEF ListSound
  <2>5. ASSUME op[r].kind = "seed", Seed(r)
        PROVE  ListSound(r)'
    <3>1. /\ n \in 1..Len(Demo) /\ Len(Demo) \in Nat /\ Busy(r) /\ pc[r] = "seed"
          /\ \A i \in RowIds : Seen(r, i)' = Seen(r, i)
      BY <1>0, <1>1, <2>5, DemoTypes DEF Seed, RequestSound, CursorSound, Seen, Busy, Done, Answers
    <3>2. \A m \in 1..Len(Demo) : m < n => InSight(r, m)
      BY <1>0, <2>5, <3>1 DEF ListSound
    <3>3. \A m : InSight(r, m) => InSight(r, m)'
      BY <3>1 DEF InSight
    <3>4. CASE pc'[r] = "insert" /\ cursor' = cursor
      BY <1>0, <2>1, <3>1, <3>2, <3>3, <3>4 DEF ListSound
    <3>5. CASE /\ cursor'[r].next = n + 1 /\ InSight(r, n)
               /\ pc'[r] = "seed" \/ (pc'[r] = "commit" /\ n + 1 > Len(Demo))
      <4>1. \A m \in 1..Len(Demo) : m < n + 1 => m < n \/ m = n
        BY <3>1
      <4> QED
        BY <1>0, <2>1, <3>1, <3>2, <3>3, <3>5, <4>1 DEF ListSound
    <3> QED
      <4>1. pc' = [pc EXCEPT ![r] = pc'[r]]
        BY <1>0, <1>1, <2>5 DEF CatalogTypeOK, Seed, Goto
      <4>2. CASE Goto(r, "insert") /\ UNCHANGED cursor
        BY <1>0, <1>1, <3>4, <4>2 DEF CatalogTypeOK, Goto
      <4>3. ASSUME NEW i \in RowIds, HasKey(Seen(r, i), Demo[n].table, Demo[n].key), NEW supplier,
                   cursor' = [cursor EXCEPT ![r] = [next |-> SkipSeed(r), supplier |-> supplier]],
                   Goto(r, IF SkipSeed(r) > Len(Demo) THEN "commit" ELSE "seed")
            PROVE  ListSound(r)'
        BY <1>0, <1>1, <3>1, <3>5, <4>3 DEF CatalogTypeOK, Goto, SkipSeed, InSight
      <4> QED
        BY <1>0, <2>5, <4>2, <4>3 DEF Seed
  <2>6. ASSUME op[r].kind = "seed", Insert(r)
        PROVE  ListSound(r)'
    <3> DEFINE w == Wanted(r)
               i == <<r, n>>
    <3>1. /\ n \in 1..Len(Demo) /\ Len(Demo) \in Nat /\ ~Done(r) /\ Busy(r) /\ pc[r] = "insert"
          /\ w = Demo[n] /\ w \in Resource
          /\ NewRow(r) \in Row /\ NewRow(r).table = w.table /\ NewRow(r).key = w.key
      BY <1>0, <1>1, <2>6, DemoTypes, NewRowFacts
      DEF Insert, RequestSound, CursorSound, Busy, Done, Answers
    <3>2. CASE Abort(r, "error")
      BY <1>3, <3>2 DEF Answers
    <3>3. CASE ~Abort(r, "error")
      <4>1. /\ rows' = rows /\ i \in RowIds
            /\ staged' = [staged EXCEPT ![r] = [staged[r] EXCEPT ![i] = NewRow(r)]]
            /\ \/ /\ pc' = [pc EXCEPT ![r] = "reference"] /\ cursor' = cursor
               \/ \E supplier : Inserted(r, supplier)
        BY <1>0, <2>6, <3>1, <3>3, RowIdTypes DEF Insert, Write, Goto
      <4>2. staged'[r][i] = NewRow(r) /\ \A k \in RowIds : k # i => Seen(r, k)' = Seen(r, k)
        BY <1>0, <1>1, <4>1 DEF CatalogTypeOK, Seen
      <4>3. Seen(r, i) \in {None, Unset}
        <5>1. ~Old(i) /\ i[2] = n
          BY <3>1 DEF Old
        <5>2. rows[i] = None /\ staged[r][i] = Unset
          BY <1>0, <1>1, <2>6, <3>1, <4>1, <5>1
          DEF CatalogInv, RowsFresh, RequestSound, CursorSound, Inserting
        <5> QED
          BY <5>2 DEF Seen
      <4>4. \A m : InSight(r, m) => InSight(r, m)'
        <5>1. \A k \in RowIds : Seen(r, k) \notin {None, Unset} => Seen(r, k)' = Seen(r, k)
          BY <4>2, <4>3
        <5> QED
          BY <5>1, SightGrows
      <4>5. InSight(r, n)'
        <5>1. Seen(r, i)' = NewRow(r)
          BY <3>1, <4>2, RowTypes DEF Seen
        <5>2. Demo[n].key # None
          BY <3>1, MarkersAssumption DEF Resource
        <5>3. HasKey(Seen(r, i)', Demo[n].table, Demo[n].key)
          BY <3>1, <5>1, <5>2, RowTypes DEF HasKey
        <5> QED
          BY <4>1, <5>3 DEF InSight
      <4>6. \A m \in 1..Len(Demo) : m < n => InSight(r, m)'
        BY <1>0, <2>6, <3>1, <4>4 DEF ListSound
      <4> QED
        BY <1>0, <2>1, <2>6, <3>1, <4>1, <4>5, <4>6, Passed
    <3> QED
      BY <3>2, <3>3
  <2>7. ASSUME op[r].kind = "seed", CheckReference(r)
        PROVE  ListSound(r)'
    <3>1. /\ n \in 1..Len(Demo) /\ Busy(r) /\ pc[r] = "reference"
      BY <1>0, <1>1, <2>7 DEF CheckReference, RequestSound, CursorSound, Busy, Done, Answers
    <3>2. CASE Abort(r, "error")
      BY <1>3, <3>2 DEF Answers
    <3>3. CASE ~Abort(r, "error")
      <4>1. rows' = rows /\ staged' = staged /\ Inserted(r, cursor[r].supplier)
        BY <1>0, <2>7, <3>3 DEF CheckReference
      <4>2. \A m : InSight(r, m)' = InSight(r, m)
        BY <4>1 DEF InSight, Seen
      <4>3. InSight(r, n)' /\ \A m \in 1..Len(Demo) : m < n => InSight(r, m)'
        BY <1>0, <2>7, <3>1, <4>2 DEF ListSound
      <4> QED
        BY <1>0, <2>1, <2>7, <3>1, <4>1, <4>3, Passed
    <3> QED
      BY <3>2, <3>3
  <2> QED
    BY <1>5, <2>2, <2>3, <2>4, <2>5, <2>6, <2>7 DEF Serve
<1> QED
  BY <1>2, <1>4, <1>5

\* Whoever deletes is known to delete from then on.
LEMMA StillNobodyDeletes ==
  ASSUME CatalogTypeOK, CallsKnown, NEW r \in Requests,
         Arrive(r) \/ Serve(r) \/ DetectDeadlock(r)
  PROVE  CallsKnown' /\ (NobodyDeletes' => NobodyDeletes)
<1>1. /\ \A s \in Requests \ {r} : pc'[s] = pc[s] /\ op'[s] = op[s]
      /\ pc[r] # "idle" => op' = op
      /\ pc'[r] # "idle"
  BY OneActs
<1>2. CallsKnown'
  BY <1>1 DEF CallsKnown
<1>3. \A s \in Requests : op[s] # None => op'[s] = op[s]
  BY <1>1 DEF CallsKnown
<1> QED
  BY <1>2, <1>3 DEF NobodyDeletes

\* Nobody deletes, or what the seeds have passed is still in their sight.
THEOREM SeedInvariant == Spec => []SeedInv
<1>1. Init => SeedInv
  <2>1. CatalogInit => SeedInv
    BY DEF CatalogInit, SeedInv, CallsKnown, ListSound, Busy
  <2> QED
    BY <2>1 DEF Init
<1>2. CatalogInv /\ SeedInv /\ [CatalogNext]_catalogVars => SeedInv'
  <2> SUFFICES ASSUME CatalogInv, SeedInv, [CatalogNext]_catalogVars
               PROVE  SeedInv'
    OBVIOUS
  <2>1. ASSUME NEW r \in Requests, Arrive(r) \/ Serve(r) \/ DetectDeadlock(r)
        PROVE  SeedInv'
    <3>1. CallsKnown' /\ (NobodyDeletes' => NobodyDeletes)
      BY <2>1, StillNobodyDeletes DEF CatalogInv, SeedInv
    <3>2. ASSUME NobodyDeletes, NEW s \in Requests
          PROVE  ListSound(s)'
      BY <2>1, <3>2, OwnList, OthersList DEF SeedInv, NobodyDeletes
    <3> QED
      BY <3>1, <3>2 DEF SeedInv
  <2>2. CASE UNCHANGED catalogVars
    <3>1. /\ rows' = rows /\ op' = op /\ pc' = pc /\ cursor' = cursor /\ staged' = staged
      BY <2>2 DEF catalogVars
    <3>2. \A r, n : InSight(r, n)' = InSight(r, n)
      BY <3>1 DEF InSight, Seen
    <3>3. \A r \in Requests : ListSound(r)' = ListSound(r)
      BY <3>1, <3>2 DEF ListSound, Busy, Done
    <3> QED
      BY <3>1, <3>3 DEF SeedInv, CallsKnown, NobodyDeletes
  <2> QED
    BY <2>1, <2>2 DEF CatalogNext
<1> QED
  BY <1>1, <1>2, CatalogInvariant, DashboardReads, PTL DEF Spec

\* A seed that ends well has changed no row there was, and unless somebody
\* deletes rows, its whole list is in the database, whatever runs beside it.
THEOREM SeedRunsAgain == Spec => SeedIsIdempotent
<1> DEFINE Idempotent == \A r \in Requests :
             pc[r] = "commit" /\ pc'[r] = "ok" /\ op[r] = [kind |-> "seed"] =>
               /\ \A i \in RowIds : rows[i] # None => rows'[i] = rows[i]
               /\ \/ \E s \in Requests : op[s] # None /\ op[s].kind = "delete"
                  \/ \A n \in 1..Len(Demo) :
                       \E i \in RowIds : HasKey(rows'[i], Demo[n].table, Demo[n].key)
<1>1. CatalogInv /\ SeedInv /\ [CatalogNext]_catalogVars => Idempotent
  <2> SUFFICES ASSUME CatalogInv, SeedInv, [CatalogNext]_catalogVars, NEW r \in Requests,
                      pc[r] = "commit", pc'[r] = "ok", op[r] = [kind |-> "seed"]
               PROVE  /\ \A i \in RowIds : rows[i] # None => rows'[i] = rows[i]
                      /\ NobodyDeletes => \A n \in 1..Len(Demo) :
                           \E i \in RowIds : HasKey(rows'[i], Demo[n].table, Demo[n].key)
    BY DEF NobodyDeletes
  <2>1. Commit(r)
    <3>1. PICK u \in Requests : Arrive(u) \/ Serve(u) \/ DetectDeadlock(u)
      BY DEF CatalogNext, catalogVars
    <3>2. u = r /\ ~Arrive(r)
      BY <3>1, OneActs DEF CatalogInv
    <3>3. ~DetectDeadlock(r)
      BY DEF CatalogInv, CatalogTypeOK, DetectDeadlock, Abort, Goto
    <3> QED
      BY <3>1, <3>2, <3>3 DEF Serve, FindSupplier, LockProduct, Insert, CheckReference, Seed,
         Update, Detach, Delete, ApplyOnDelete, Refresh
  <2>2. /\ Busy(r) /\ RequestSound(r) /\ op[r].kind = "seed"
        /\ \A i \in RowIds : rows'[i] = Seen(r, i)
    BY <2>1, CommitFacts
  <2>3. ASSUME NEW i \in RowIds, rows[i] # None
        PROVE  rows'[i] = rows[i]
    BY <2>2, <2>3 DEF RequestSound, StagedSound, Seen, Updating
  <2>4. ASSUME NobodyDeletes, NEW n \in 1..Len(Demo)
        PROVE  \E i \in RowIds : HasKey(rows'[i], Demo[n].table, Demo[n].key)
    <3>1. cursor[r].next > Len(Demo) /\ cursor[r].next \in Nat /\ ListSound(r)
      BY <2>2, <2>4 DEF SeedInv, ListSound, CatalogInv, CatalogTypeOK
    <3>2. InSight(r, n)
      BY <2>2, <3>1, DemoTypes DEF ListSound
    <3> QED
      BY <2>2, <3>2 DEF InSight
  <2> QED
    BY <2>3, <2>4
<1>2. CatalogInv /\ SeedInv /\ [Next]_vars => [Idempotent]_catalogVars
  BY <1>1, DashboardReads
<1> QED
  BY <1>2, CatalogInvariant, SeedInvariant, PTL DEF Spec, SeedIsIdempotent

----------------------------------------------------------------------------
(* The dashboard. *)

LEMMA RowIdsFinite == IsFiniteSet(RowIds)
<1> DEFINE Bound == Len(Present) + Len(Demo) + 1
<1>1. Len(Present) \in Nat /\ Len(Demo) \in Nat /\ Bound \in Nat /\ RequestCount \in Nat
  BY CatalogAssumption
<1>2. IsFiniteSet((0..RequestCount) \X (0..Bound))
  <2>1. IsFiniteSet(0..RequestCount) /\ IsFiniteSet(0..Bound)
    BY <1>1, FS_Interval
  <2> QED
    BY <2>1, FS_Product
<1>3. RowIds \subseteq (0..RequestCount) \X (0..Bound)
  BY <1>1 DEF RowIds, Requests
<1> QED
  BY <1>2, <1>3, FS_Subset

LEMMA CountedBound ==
  ASSUME NEW counter
  PROVE  Cardinality(Counted(counter)) \in 0..Cardinality(RowIds)
<1>1. Counted(counter) \subseteq RowIds
  BY DEF Counted
<1>2. /\ IsFiniteSet(Counted(counter)) /\ Cardinality(RowIds) \in Nat
      /\ Cardinality(Counted(counter)) <= Cardinality(RowIds)
  BY <1>1, RowIdsFinite, FS_Subset, FS_CardinalityType
<1>3. Cardinality(Counted(counter)) \in Nat
  BY <1>2, FS_CardinalityType
<1> QED
  BY <1>2, <1>3

\* Every variable has its type; no counter exceeds the rows there can be.
THEOREM DashboardTypeCorrect == Spec => []DashboardTypeOK
<1> DEFINE N == Cardinality(RowIds)
           Own == /\ cache # None => cache \in [Counters -> 0..N]
                  /\ reader \in [Readers -> {"idle", "set"} \cup Counters]
                  /\ partial \in [Readers -> [Counters -> 0..N]]
<1>1. N \in Nat
  BY RowIdsFinite, FS_CardinalityType
<1>2. Nothing \in [Counters -> 0..N]
  BY <1>1 DEF Nothing
<1>3. Init => Own
  BY <1>2 DEF Init
<1>4. Own /\ [Next]_vars => Own'
  <2> SUFFICES ASSUME Own, [Next]_vars
               PROVE  Own'
    OBVIOUS
  <2>1. ASSUME NEW d \in Readers, Get(d)
        PROVE  Own'
    BY <2>1 DEF Get, Continue, Counters
  <2>2. ASSUME NEW d \in Readers, TurnAway(d)
        PROVE  Own'
    BY <2>2 DEF TurnAway, vars
  <2>3. ASSUME NEW d \in Readers, Count(d)
        PROVE  Own'
    <3> DEFINE n == Cardinality(Counted(reader[d]))
    <3>1. n \in 0..N /\ reader[d] \in Counters
      BY <2>3, CountedBound DEF Count
    <3>2. /\ cache' = cache
          /\ partial' = [partial EXCEPT ![d] = [partial[d] EXCEPT ![reader[d]] = n]]
          /\ reader' = [reader EXCEPT ![d] = reader'[d]]
          /\ reader'[d] \in {"idle", "set"} \cup Counters
      BY <2>3, <3>1 DEF Count, Continue, Counters
    <3> HIDE DEF n, N
    <3> QED
      BY <3>1, <3>2
  <2>4. ASSUME NEW d \in Readers, Set(d)
        PROVE  Own'
    BY <1>2, <2>4 DEF Set, Continue
  <2>5. CASE Expire
    BY <2>5 DEF Expire
  <2>6. CASE UNCHANGED dashboardVars
    BY <2>6 DEF dashboardVars
  <2>7. CASE UNCHANGED vars
    BY <2>7 DEF vars
  <2> QED
    BY <2>1, <2>2, <2>3, <2>4, <2>5, <2>6, <2>7 DEF Next
<1>5. CatalogInv /\ Own => DashboardTypeOK
  BY DEF CatalogInv, DashboardTypeOK
<1> QED
  BY <1>3, <1>4, <1>5, CatalogInvariant, PTL DEF Spec
=============================================================================
