----------------------------- MODULE Dashboard ------------------------------
(***************************************************************************)
(* The dashboard's summary over the catalog: three COUNTs, one statement   *)
(* each, cached in Redis for a while (services/dashboard.py, the           *)
(* get_or_set of core/cache.py).  No write to the catalog touches the      *)
(* cache, and several readers may miss and fill it at once.                *)
(***************************************************************************)
EXTENDS Catalog

CONSTANTS
  Readers,    \* the callers of the dashboard
  PoolSize    \* how many handlers may hold a database connection at once

ASSUME PoolAssumption == PoolSize \in Nat \ {0}

VARIABLES
  cache,    \* the cached summary, None when absent or expired
  reader,   \* the next call of each reader's handler
  partial   \* the counters a reader has computed so far

dashboardVars == <<cache, reader, partial>>
vars == <<catalogVars, cache, reader, partial>>

Counters == {"active_products", "active_suppliers", "total_users"}

Nothing == [counter \in Counters |-> 0]

Counted(counter) ==
  {i \in RowIds : rows[i] # None /\
     CASE counter = "active_products"  -> rows[i].table = "product" /\ rows[i].active
       [] counter = "active_suppliers" -> rows[i].table = "supplier" /\ rows[i].active
       [] counter = "total_users"      -> rows[i].table = "user"}

\* What the summary would say if all three counts were taken now.
Truth == [counter \in Counters |-> Cardinality(Counted(counter))]

Continue(d, step) == reader' = [reader EXCEPT ![d] = step]

\* The pool has a connection left for one more handler.  One that has
\* committed has given its own back, and needs another to reload its row.
Admits ==
  Cardinality({r \in Requests : Running(r) /\ pc[r] # "refresh"}) +
    Cardinality({d \in Readers : reader[d] # "idle"}) < PoolSize

\* The caller is loaded, then redis.get: a hit is the answer.
Get(d) ==
  /\ reader[d] = "idle"
  /\ Admits
  /\ Continue(d, IF cache # None THEN "idle" ELSE "active_products")
  /\ UNCHANGED <<catalogVars, cache, partial>>

\* The pool's timeout runs out: the caller gets an error and nothing else
\* happens.
TurnAway(d) ==
  /\ reader[d] = "idle"
  /\ ~Admits
  /\ UNCHANGED vars

\* factory: the counts in the order of the dict.
Count(d) ==
  LET counter == reader[d] IN
  /\ counter \in Counters
  /\ partial' = [partial EXCEPT ![d][counter] = Cardinality(Counted(counter))]
  /\ Continue(d, CASE counter = "active_products"  -> "active_suppliers"
                   [] counter = "active_suppliers" -> "total_users"
                   [] counter = "total_users"      -> "set")
  /\ UNCHANGED <<catalogVars, cache>>

\* redis.set with the TTL, over whatever is there.
Set(d) ==
  /\ reader[d] = "set"
  /\ cache' = partial[d]
  /\ partial' = [partial EXCEPT ![d] = Nothing]
  /\ Continue(d, "idle")
  /\ UNCHANGED catalogVars

\* Fault: the key is set without a TTL.
NeverExpire == FALSE /\ UNCHANGED vars

\* The TTL given to set runs out.
Expire ==
  /\ cache # None
  /\ cache' = None
  /\ UNCHANGED <<catalogVars, reader, partial>>

Init ==
  /\ CatalogInit
  /\ cache = None
  /\ reader = [d \in Readers |-> "idle"]
  /\ partial = [d \in Readers |-> Nothing]

Next ==
  \/ \E r \in Requests :
       /\ (Admits /\ Arrive(r)) \/ Serve(r) \/ DetectDeadlock(r)
       /\ pc[r] = "refresh" /\ pc'[r] = "ok" => Admits
       /\ UNCHANGED dashboardVars
  \/ \E d \in Readers : Get(d) \/ TurnAway(d) \/ Count(d) \/ Set(d)
  \/ Expire

\* Handlers in progress go on and the TTL runs out.  Nobody need call.
Spec ==
  /\ Init /\ [][Next]_vars
  /\ CatalogFairness
  /\ \A d \in Readers : WF_vars(Count(d) \/ Set(d))
  /\ WF_vars(Expire)

----------------------------------------------------------------------------
(* Properties. *)

\* The shape of every variable, the catalog's included.  Code: the models,
\* and summary.
DashboardTypeOK ==
  LET Summary == [Counters -> 0..Cardinality(RowIds)]
  IN  /\ CatalogTypeOK
      /\ cache # None => cache \in Summary
      /\ reader \in [Readers -> {"idle", "set"} \cup Counters]
      /\ partial \in [Readers -> Summary]

\* When writes stop, the summary served comes to agree with the database
\* for good, although a reader that counted before a write may set its
\* summary over that of one that counted after it.  Code: get_or_set and
\* its TTL, the only invalidation.
SummaryConverges ==
  <>[](\A r \in Requests : ~Running(r)) =>
    <>[](cache = None \/ cache = Truth)

\* The calls in progress are all answered.  Waits for row locks and unique
\* keys do go round among creates, updates and deletes; PostgreSQL fails one
\* member of each such cycle, and nothing else makes a call wait for ever.
\* Code: the statement order of the services, none of which retries.
EveryCallAnswered == []<>(\A r \in Requests : ~Running(r))
=============================================================================
