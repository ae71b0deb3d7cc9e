------------------------------ MODULE Catalog -------------------------------
(***************************************************************************)
(* Suppliers, products and users as records with a unique key (document,   *)
(* SKU, e-mail), and the rows that refer to them: create, PATCH and delete *)
(* of services/supplier.py, services/product.py, services/user.py and      *)
(* AuthService.register, the references a movement and an acknowledgement  *)
(* add, and the seed script.  Each call looks first and writes later; what *)
(* it saw may be gone by then, and only the database's unique indexes and  *)
(* foreign keys stand behind it.  A PATCH is of is_active or of a          *)
(* product's supplier.  Quantities, limits and the life of alerts are      *)
(* Inventory's.                                                            *)
(***************************************************************************)
EXTENDS Naturals, FiniteSets, Sequences

CONSTANTS
  None,           \* no row, no value
  Unset,          \* a row that a transaction has not written
  Operations,     \* the calls that clients may make in this instance
  RequestCount,   \* how many requests arrive
  Present,        \* the rows there are at the start, a sequence
  Demo            \* what the seed script inserts, in its order: table and key

Requests == 1..RequestCount

\* A row is named by the request that inserted it and its place among that
\* request's rows; request 0 stands for what was there before.
RowIds ==
  {<<0, n>> : n \in 1..Len(Present)} \cup {<<r, 1>> : r \in Requests} \cup
  {<<r, n>> : r \in Requests, n \in 1..Len(Demo)}

Tables == {"supplier", "product", "user", "movement", "alert"}

\* The tables with routes to create, update and delete their rows.
Resources == {"supplier", "product", "user"}

\* Only the columns that refer to other rows, or that others refer by.
Row ==
  [table : Tables, key : STRING \cup {None}, active : BOOLEAN,
   supplier : RowIds \cup {None}, product : RowIds \cup {None},
   user : RowIds \cup {None}]

Operation ==
  [kind : {"create"}, table : Resources, key : STRING,
   supplier : RowIds] \cup
  [kind : {"delete"}, row : RowIds] \cup
  [kind : {"patch"}, row : RowIds, active : BOOLEAN] \cup
  [kind : {"move"}, row : RowIds, supplier : RowIds] \cup
  [kind : {"record"}, product : RowIds, user : RowIds] \cup
  [kind : {"acknowledge"}, row : RowIds, user : RowIds] \cup
  [kind : {"seed"}]

Resource == [table : Resources, key : STRING]

\* The seed inserts a supplier before its products.
ASSUME CatalogAssumption ==
  /\ RequestCount \in Nat
  /\ Operations \subseteq Operation
  /\ Present \in Seq(Row) /\ Demo \in Seq(Resource) /\ Demo # <<>>
  /\ \A n \in 1..Len(Demo) : Demo[n].table = "product" =>
       \E m \in 1..(n - 1) : Demo[m].table = "supplier"

\* The columns a row has by its table, and those that are NOT NULL.
Complete(row) ==
  /\ row.supplier # None <=> row.table = "product"
  /\ row.product # None <=> row.table \in {"movement", "alert"}
  /\ row.user # None => row.table \in {"movement", "alert"}
  /\ row.table = "movement" => row.user # None

IsA(row, tables) == row # None /\ row.table \in tables

\* Where a row refers to, there is a row of the right table.
Leads(at, row) ==
  /\ row.supplier # None => IsA(at[row.supplier], {"supplier"})
  /\ row.product # None => IsA(at[row.product], {"product"})
  /\ row.user # None => IsA(at[row.user], {"user"})

HasKey(row, table, key) ==
  row \notin {None, Unset} /\ key # None /\ row.table = table /\ row.key = key

AtStart == [i \in RowIds |-> IF i[1] = 0 THEN Present[i[2]] ELSE None]

\* What is there to begin with was written under the same constraints.
ASSUME PresentAssumption ==
  \A i \in RowIds : AtStart[i] # None =>
    /\ Complete(AtStart[i]) /\ Leads(AtStart, AtStart[i])
    /\ \A k \in RowIds : HasKey(AtStart[k], AtStart[i].table, AtStart[i].key) => i = k

ASSUME MarkersAssumption ==
  /\ None # Unset
  /\ None \notin Row /\ Unset \notin Row
  /\ None \notin RowIds /\ None \notin Operation /\ None \notin STRING

VARIABLES
  rows,     \* the committed rows
  op,       \* the call of each request
  pc,       \* the next statement of its handler, or its answer
  loaded,   \* the row an update read before it changes it
  cursor,   \* the row it inserts next, and the supplier that row will have
  staged,   \* what it has written and not committed: row id to row, None or Unset
  locks     \* the row locks it holds: row id to mode

catalogVars == <<rows, op, pc, loaded, cursor, staged, locks>>

Answers == {"ok", "unauthenticated", "not_found", "conflict", "error"}

Running(r) == pc[r] # "idle" /\ pc[r] \notin Answers

----------------------------------------------------------------------------
Goto(r, step) == pc' = [pc EXCEPT ![r] = step]

NoWrites == [i \in RowIds |-> Unset]
NoLocks == [i \in RowIds |-> "none"]
NoCursor == [next |-> 1, supplier |-> None]

\* Fault: locks outlive the transaction.
ReleaseKeepsLocks(r) ==
  /\ staged' = [staged EXCEPT ![r] = NoWrites]
  /\ UNCHANGED locks

\* End of the transaction.
Release(r) ==
  /\ staged' = [staged EXCEPT ![r] = NoWrites]
  /\ locks' = [locks EXCEPT ![r] = NoLocks]

\* The request is over, and with it what its session remembers.
Forget(r) ==
  /\ loaded' = [loaded EXCEPT ![r] = None]
  /\ cursor' = [cursor EXCEPT ![r] = NoCursor]

Abort(r, answer) ==
  /\ Goto(r, answer)
  /\ Release(r)
  /\ Forget(r)
  /\ UNCHANGED <<rows, op>>

Lock(r, i, mode) == locks' = [locks EXCEPT ![r][i] = mode]

Conflict(m, n) ==
  \/ m = "no_key" /\ n = "no_key"
  \/ m = "update" /\ n # "none"
  \/ n = "update" /\ m # "none"

Write(r, i, row) == staged' = [staged EXCEPT ![r][i] = row]

\* What a statement of request r sees in row i.
Seen(r, i) == IF staged[r][i] = Unset THEN rows[i] ELSE staged[r][i]

\* get_by_document, get_by_sku, get_by_email: a row has the key.
KeyTaken(table, key) == \E i \in RowIds : HasKey(rows[i], table, key)

\* Fault: the column is not unique.
NotUnique(r, table, key) == FALSE

\* The unique index refuses the INSERT.
Duplicate(r, table, key) == \E i \in RowIds : HasKey(Seen(r, i), table, key)

\* The account of a caller, loaded with the call.
Live(user) == IsA(rows[user], {"user"}) /\ rows[user].active

\* The requests whose INSERT or DELETE decides whether the key is free.
KeyHolders(r, table, key) ==
  {s \in Requests \ {r} : \E i \in RowIds :
     \/ HasKey(staged[s][i], table, key)
     \/ staged[s][i] = None /\ HasKey(rows[i], table, key)}

----------------------------------------------------------------------------
(* create: look for the key, look for the supplier, INSERT, the foreign    *)
(* key's check, COMMIT.                                                    *)

AskCreate(r, o) ==
  /\ pc[r] = "idle"
  /\ o.kind = "create"
  /\ op' = [op EXCEPT ![r] = o]
  /\ cursor' = [cursor EXCEPT ![r].supplier = o.supplier]
  /\ Goto(r, IF KeyTaken(o.table, o.key) THEN "conflict"
             ELSE IF o.table = "product" THEN "supplier" ELSE "insert")
  /\ UNCHANGED <<rows, loaded, staged, locks>>

FindSupplier(r) ==
  /\ pc[r] = "supplier"
  /\ Goto(r, IF ~IsA(rows[op[r].supplier], {"supplier"}) THEN "not_found"
             ELSE IF op[r].kind = "create" THEN "insert"
             ELSE IF op[r].supplier = loaded[r].supplier THEN "commit" ELSE "update")
  /\ UNCHANGED <<rows, op, loaded, cursor, staged, locks>>

\* A movement is recorded: the caller's account was loaded first; the
\* product is locked, then the row inserted.
AskRecord(r, o) ==
  /\ pc[r] = "idle"
  /\ o.kind = "record"
  /\ op' = [op EXCEPT ![r] = o]
  /\ Goto(r, IF Live(o.user) THEN "lock_product" ELSE "unauthenticated")
  /\ UNCHANGED <<rows, loaded, cursor, staged, locks>>

LockProduct(r) ==
  LET i == op[r].product IN
  /\ pc[r] = "lock_product"
  /\ \/ ~IsA(rows[i], {"product"}) /\ Abort(r, "not_found")
     \/ /\ IsA(rows[i], {"product"})
        /\ Lock(r, i, "update")
        /\ Goto(r, "insert")
        /\ UNCHANGED <<rows, op, loaded, cursor, staged>>

\* The table and key of the row that request r inserts now.
Wanted(r) ==
  CASE op[r].kind = "create" -> [table |-> op[r].table, key |-> op[r].key]
    [] op[r].kind = "record" -> [table |-> "movement", key |-> None]
    [] op[r].kind = "seed"   -> Demo[cursor[r].next]

\* Fault: is_active has no default.
NewRowWithoutDefault(r) ==
  LET w == Wanted(r) IN
  [table |-> w.table, key |-> w.key, active |-> None,
   supplier |-> IF w.table = "product" THEN cursor[r].supplier ELSE None,
   product  |-> IF w.table = "movement" THEN op[r].product ELSE None,
   user     |-> IF w.table = "movement" THEN op[r].user ELSE None]

NewRow(r) ==
  LET w == Wanted(r) IN
  [table |-> w.table, key |-> w.key, active |-> TRUE,
   supplier |-> IF w.table = "product" THEN cursor[r].supplier ELSE None,
   product  |-> IF w.table = "movement" THEN op[r].product ELSE None,
   user     |-> IF w.table = "movement" THEN op[r].user ELSE None]

\* Where a call goes once a row is in: the seed to the next of its list.
Inserted(r, supplier) ==
  IF op[r].kind = "seed"
  THEN /\ cursor' = [cursor EXCEPT ![r] = [next |-> @.next + 1, supplier |-> supplier]]
       /\ Goto(r, IF cursor[r].next = Len(Demo) THEN "commit" ELSE "seed")
  ELSE Goto(r, "commit") /\ UNCHANGED cursor

Insert(r) ==
  LET w == Wanted(r)
      i == <<r, cursor[r].next>>
  IN  /\ pc[r] = "insert"
      /\ \/ /\ Duplicate(r, w.table, w.key)
            /\ Abort(r, "error")
         \/ /\ ~Duplicate(r, w.table, w.key)
            /\ Write(r, i, NewRow(r))
            /\ IF w.table \in {"product", "movement"}
               THEN Goto(r, "reference") /\ UNCHANGED cursor
               ELSE Inserted(r, IF w.table = "supplier" THEN i ELSE cursor[r].supplier)
            /\ UNCHANGED <<rows, op, loaded, locks>>

\* The row whose existence the statement's foreign key requires.
Referred(r) ==
  CASE op[r].kind \in {"record", "acknowledge"} -> op[r].user
    [] op[r].kind = "move"                      -> op[r].supplier
    [] op[r].kind \in {"create", "seed"}        -> cursor[r].supplier

\* The table it must be a row of.
ReferredTable(r) == IF op[r].kind \in {"record", "acknowledge"} THEN "user" ELSE "supplier"

\* The foreign key's check: a shared lock on the row referred to, unless
\* this transaction has inserted that row itself.
CheckReference(r) ==
  LET i == Referred(r) IN
  /\ pc[r] = "reference"
  /\ \/ /\ ~IsA(Seen(r, i), {ReferredTable(r)})
        /\ Abort(r, "error")
     \/ /\ IsA(Seen(r, i), {ReferredTable(r)})
        /\ IF locks[r][i] = "none" THEN Lock(r, i, "key_share") ELSE UNCHANGED locks
        /\ Inserted(r, cursor[r].supplier)
        /\ UNCHANGED <<rows, op, loaded, staged>>

----------------------------------------------------------------------------
(* scripts/seed.py: in one transaction, for each row of its list, look for *)
(* the key and insert the row when there is none.                          *)

AskSeed(r, o) ==
  /\ pc[r] = "idle"
  /\ o.kind = "seed"
  /\ op' = [op EXCEPT ![r] = o]
  /\ Goto(r, "seed")
  /\ UNCHANGED <<rows, loaded, cursor, staged, locks>>

\* Fault: the first row found ends the list.
NextSeed(r) == Len(Demo) + 1

\* The place of the row after the one just found.
SkipSeed(r) == cursor[r].next + 1

Seed(r) ==
  LET w == Demo[cursor[r].next]
      found == {i \in RowIds : HasKey(Seen(r, i), w.table, w.key)}
  IN  /\ pc[r] = "seed"
      /\ \/ /\ found = {}
            /\ Goto(r, "insert")
            /\ UNCHANGED cursor
         \/ \E i \in found :
              /\ cursor' = [cursor EXCEPT ![r] =
                   [next |-> SkipSeed(r),
                    supplier |-> IF w.table = "supplier" THEN i ELSE @.supplier]]
              /\ Goto(r, IF SkipSeed(r) > Len(Demo) THEN "commit" ELSE "seed")
      /\ UNCHANGED <<rows, op, loaded, staged, locks>>

----------------------------------------------------------------------------
(* update: load the row, look for a new supplier, UPDATE what changed. An  *)
(* UPDATE that finds no row is an error of the ORM.  An acknowledgement    *)
(* always has something to write: its time.                                *)

AskUpdate(r, o) ==
  LET current == rows[o.row] IN
  /\ pc[r] = "idle"
  /\ \/ o.kind = "patch" /\ (current # None => IsA(current, Resources))
     \/ o.kind = "move" /\ (current # None => IsA(current, {"product"}))
  /\ op' = [op EXCEPT ![r] = o]
  /\ loaded' = [loaded EXCEPT ![r] = current]
  /\ Goto(r, IF current = None THEN "not_found"
             ELSE IF o.kind = "move" THEN "supplier"
             ELSE IF current.active = o.active THEN "commit" ELSE "update")
  /\ UNCHANGED <<rows, cursor, staged, locks>>

AskAcknowledge(r, o) ==
  /\ pc[r] = "idle"
  /\ o.kind = "acknowledge"
  /\ rows[o.row] # None => IsA(rows[o.row], {"alert"})
  /\ op' = [op EXCEPT ![r] = o]
  /\ loaded' = [loaded EXCEPT ![r] = rows[o.row]]
  /\ Goto(r, IF ~Live(o.user) THEN "unauthenticated"
             ELSE IF rows[o.row] = None THEN "not_found" ELSE "update")
  /\ UNCHANGED <<rows, cursor, staged, locks>>

\* The columns that differ from what was loaded.
Changed(o, was, now) ==
  CASE o.kind = "patch"       -> [now EXCEPT !.active = o.active]
    [] o.kind = "move"        -> [now EXCEPT !.supplier = o.supplier]
    [] o.kind = "acknowledge" -> IF was.user = o.user THEN now
                                 ELSE [now EXCEPT !.user = o.user]

Update(r) ==
  LET o == op[r]
      i == o.row
  IN  /\ pc[r] = "update"
      /\ \/ /\ rows[i] = None
            /\ Abort(r, "error")
         \/ /\ rows[i] # None
            /\ Write(r, i, Changed(o, loaded[r], rows[i]))
            /\ Lock(r, i, "no_key")
            /\ Goto(r, IF o.kind = "move" \/ (o.kind = "acknowledge" /\ loaded[r].user # o.user)
                       THEN "reference" ELSE "commit")
            /\ UNCHANGED <<rows, op, loaded, cursor>>

----------------------------------------------------------------------------
(* delete: load the row; the ORM deletes a product's movements, and clears *)
(* the supplier of a supplier's products, which NOT NULL forbids; DELETE;  *)
(* then the foreign keys of the rows that still refer to it act.           *)

Refers(row, i) == i \in {row.supplier, row.product, row.user}

\* The rows that refer to row i.
Dependents(i) == {k \in RowIds : rows[k] # None /\ Refers(rows[k], i)}

AskDelete(r, o) ==
  /\ pc[r] = "idle"
  /\ o.kind = "delete"
  /\ rows[o.row] # None => IsA(rows[o.row], Resources)
  /\ op' = [op EXCEPT ![r] = o]
  /\ loaded' = [loaded EXCEPT ![r] = rows[o.row]]
  /\ Goto(r, IF rows[o.row] = None THEN "not_found"
             ELSE IF rows[o.row].table = "user" THEN "delete" ELSE "detach")
  /\ UNCHANGED <<rows, cursor, staged, locks>>

Detach(r) ==
  LET children == Dependents(op[r].row) IN
  /\ pc[r] = "detach"
  /\ \/ /\ loaded[r].table = "supplier"
        /\ children # {}
        /\ Abort(r, "error")
     \/ /\ loaded[r].table = "supplier" => children = {}
        /\ staged' = [staged EXCEPT ![r] = [k \in RowIds |-> IF k \in children THEN None ELSE @[k]]]
        /\ locks' = [locks EXCEPT ![r] = [k \in RowIds |-> IF k \in children THEN "update" ELSE @[k]]]
        /\ Goto(r, "delete")
        /\ UNCHANGED <<rows, op, loaded, cursor>>

\* Deleting no row is only a warning.
Delete(r) ==
  LET i == op[r].row IN
  /\ pc[r] = "delete"
  /\ \/ /\ rows[i] = None
        /\ Goto(r, "commit")
        /\ UNCHANGED <<rows, op, loaded, cursor, staged, locks>>
     \/ /\ rows[i] # None
        /\ Write(r, i, None)
        /\ Lock(r, i, "update")
        /\ Goto(r, "references")
        /\ UNCHANGED <<rows, op, loaded, cursor>>

\* Fault: a user's movements go with the user.
CascadeUsers(child, parent) ==
  CASE child = "movement" \/ parent = "product" -> "cascade"
    [] child = "alert" /\ parent = "user"        -> "set_null"
    [] child = "product"                         -> "restrict"

\* Fault: supplier_id is a plain column.
IgnoreSuppliers(child, parent) ==
  CASE child = "movement" /\ parent = "product" -> "cascade"
    [] child = "movement" /\ parent = "user"    -> "restrict"
    [] child = "product"                        -> "ignore"
    [] child = "alert" /\ parent = "product"    -> "cascade"
    [] child = "alert" /\ parent = "user"       -> "set_null"

\* The ON DELETE of the foreign keys, by the tables at their two ends.
OnDelete(child, parent) ==
  CASE child = "movement" /\ parent = "product" -> "cascade"
    [] child = "movement" /\ parent = "user"    -> "restrict"
    [] child = "product"                        -> "restrict"
    [] child = "alert" /\ parent = "product"    -> "cascade"
    [] child = "alert" /\ parent = "user"       -> "set_null"

\* The rows on which deleting row i acts so.
Acting(i, action) == {k \in Dependents(i) : OnDelete(rows[k].table, rows[i].table) = action}

ApplyOnDelete(r) ==
  LET Acted(action) == Acting(op[r].row, action) IN
  /\ pc[r] = "references"
  /\ \/ /\ Acted("restrict") # {}
        /\ Abort(r, "error")
     \/ /\ Acted("restrict") = {}
        /\ staged' = [staged EXCEPT ![r] = [k \in RowIds |->
             IF k \in Acted("cascade") THEN None
             ELSE IF k \in Acted("set_null") THEN [rows[k] EXCEPT !.user = None] ELSE @[k]]]
        /\ locks' = [locks EXCEPT ![r] = [k \in RowIds |->
             IF k \in Acted("cascade") THEN "update"
             ELSE IF k \in Acted("set_null") THEN "no_key" ELSE @[k]]]
        /\ Goto(r, "commit")
        /\ UNCHANGED <<rows, op, loaded, cursor>>

\* COMMIT; all but delete and the seed go on to reload the row.
Commit(r) ==
  /\ pc[r] = "commit"
  /\ rows' = [i \in RowIds |-> Seen(r, i)]
  /\ Goto(r, IF op[r].kind \in {"delete", "seed"} THEN "ok" ELSE "refresh")
  /\ Release(r)
  /\ Forget(r)
  /\ UNCHANGED op

\* The reload, on a connection lent anew: there may be none to be had, or
\* no row any more.  The 500 of either hides a call that is committed.
Refresh(r) ==
  LET i == IF op[r].kind \in {"create", "record"} THEN <<r, 1>> ELSE op[r].row IN
  /\ pc[r] = "refresh"
  /\ \/ rows[i] # None /\ Goto(r, "ok")
     \/ Goto(r, "error")
  /\ UNCHANGED <<rows, op, loaded, cursor, staged, locks>>

----------------------------------------------------------------------------
(* Waiting: a statement runs when nobody else holds a row it wants, or the *)
(* key it inserts.  PostgreSQL ends a cycle of waits by aborting a member. *)

\* The rows that request r's next statement locks, and how.
Wants(r) ==
  CASE pc[r] = "lock_product" -> {<<op[r].product, "update">>}
    [] pc[r] = "reference"    -> {<<Referred(r), "key_share">>}
    [] pc[r] = "update"       -> {<<op[r].row, "no_key">>}
    [] pc[r] = "detach"       -> IF loaded[r].table = "supplier" THEN {}
                                 ELSE Dependents(op[r].row) \X {"update"}
    [] pc[r] = "delete"       -> {<<op[r].row, "update">>}
    [] pc[r] = "references"   ->
         (Acting(op[r].row, "restrict") \X {"key_share"}) \cup
         (Acting(op[r].row, "cascade") \X {"update"}) \cup
         (Acting(op[r].row, "set_null") \X {"no_key"})
    [] OTHER -> {}

BlockedBy(r) ==
  {s \in Requests \ {r} : \E want \in Wants(r) : Conflict(locks[s][want[1]], want[2])} \cup
  (IF pc[r] = "insert" THEN KeyHolders(r, Wanted(r).table, Wanted(r).key) ELSE {})

\* The requests that r waits for, directly or not.
WaitsFor(r) ==
  LET further[n \in 0..RequestCount] ==
        IF n = 0 THEN BlockedBy(r)
        ELSE further[n - 1] \cup UNION {BlockedBy(s) : s \in further[n - 1]}
  IN  further[RequestCount]

DetectDeadlock(r) ==
  /\ BlockedBy(r) # {}
  /\ r \in WaitsFor(r)
  /\ Abort(r, "error")

----------------------------------------------------------------------------
CatalogInit ==
  /\ rows = AtStart
  /\ op = [r \in Requests |-> None]
  /\ pc = [r \in Requests |-> "idle"]
  /\ loaded = [r \in Requests |-> None]
  /\ cursor = [r \in Requests |-> NoCursor]
  /\ staged = [r \in Requests |-> NoWrites]
  /\ locks = [r \in Requests |-> NoLocks]

\* Requests are numbered in the order they arrive.
Arrive(r) ==
  /\ \A s \in 1..(r - 1) : pc[s] # "idle"
  /\ \E o \in Operations :
       \/ AskCreate(r, o) \/ AskRecord(r, o) \/ AskSeed(r, o)
       \/ AskUpdate(r, o) \/ AskAcknowledge(r, o) \/ AskDelete(r, o)

Serve(r) ==
  /\ BlockedBy(r) = {}
  /\ \/ FindSupplier(r) \/ LockProduct(r) \/ Insert(r) \/ CheckReference(r) \/ Seed(r)
     \/ Update(r) \/ Detach(r) \/ Delete(r) \/ ApplyOnDelete(r)
     \/ Commit(r) \/ Refresh(r)

\* While some call in progress need not wait, or waits in a cycle, the
\* database goes on with one of them.
CatalogFairness == WF_catalogVars(\E r \in Requests : Serve(r) \/ DetectDeadlock(r))

----------------------------------------------------------------------------
(* Properties. *)

\* The shape of every variable.  Code: the models.
CatalogTypeOK ==
  /\ rows \in [RowIds -> Row \cup {None}]
  /\ op \in [Requests -> Operations \cup {None}]
  /\ pc \in [Requests -> {"idle", "supplier", "lock_product", "insert", "reference", "seed",
                "update", "detach", "delete", "references", "commit", "refresh"} \cup Answers]
  /\ loaded \in [Requests -> Row \cup {None}]
  /\ cursor \in [Requests -> [next : Nat, supplier : RowIds \cup {None}]]
  /\ staged \in [Requests -> [RowIds -> Row \cup {None, Unset}]]
  /\ locks \in [Requests -> [RowIds -> {"none", "key_share", "no_key", "update"}]]

\* No two suppliers share a document, no two products a SKU, no two users
\* an e-mail, although create and the seed look for a duplicate long before
\* they insert.  Code: create of the three services, seed, and the unique
\* columns behind them.
UniqueKeys ==
  \A i, k \in RowIds :
    rows[i] # None /\ HasKey(rows[k], rows[i].table, rows[i].key) => i = k

\* Every reference leads to a row that is there: a product created, moved
\* or seeded while its supplier is being deleted, a movement recorded while
\* its product or its user is, an acknowledgement likewise.  Code: the
\* foreign keys, and the deletes that clear what refers to the row.
EveryReferenceHolds ==
  \A k \in RowIds : rows[k] # None => Complete(rows[k]) /\ Leads(rows, rows[k])

\* A movement disappears only with its product and never changes: deleting
\* its user, or its product's supplier, leaves the history as it was.
\* Code: StockMovement, whose user_id is ON DELETE RESTRICT.
HistoryIsKept ==
  [][\A k \in RowIds : rows[k] # None =>
       (rows[k].table = "movement" /\ rows'[k] # rows[k] =>
          rows'[k] = None /\ rows'[rows[k].product] = None)]_catalogVars

\* The seed may be run again, and beside anything else: it changes no row
\* that is there, and when it has ended well every row of its list is in
\* the database, unless somebody deletes rows.  Code: seed, "idempotente".
SeedIsIdempotent ==
  [][\A r \in Requests : pc[r] = "commit" /\ pc'[r] = "ok" /\ op[r] = [kind |-> "seed"] =>
       /\ \A i \in RowIds : rows[i] # None => rows'[i] = rows[i]
       /\ \/ \E s \in Requests : op[s] # None /\ op[s].kind = "delete"
          \/ \A n \in 1..Len(Demo) :
               \E i \in RowIds : HasKey(rows'[i], Demo[n].table, Demo[n].key)]_catalogVars
=============================================================================
