----------------------------- MODULE Deployment -----------------------------
(***************************************************************************)
(* The containers of one deployment over their shared database: migration  *)
(* (scripts/entrypoint.sh, migrations/env.py, k8s/migrate-job.yaml), the   *)
(* lifespan of the API (main.py), restarts, and inside each process the    *)
(* two lazily created clients (core/redis.py, core/queue.py) with the      *)
(* calls that use them.                                                    *)
(***************************************************************************)
EXTENDS Migrations, FiniteSets

CONSTANTS
  None,
  Api,           \* containers that run the image's entrypoint
  Direct,        \* API containers whose command bypasses it
  Jobs,          \* migration jobs
  Callers,       \* tasks that call the report routes, over and over
  Home,          \* the container that serves each caller
  BackoffLimit,  \* how often a failed job is tried again
  MaxFaults      \* bound on deaths and on failures to reach the database

Containers == Api \cup Direct \cup Jobs

ASSUME DeploymentAssumption ==
  /\ BackoffLimit \in Nat /\ MaxFaults \in Nat /\ IsFiniteSet(Callers)
  /\ None \notin Nat
  /\ Api \cap Jobs = {} /\ Direct \cap Jobs = {} /\ Api \cap Direct = {}
  /\ Home \in [Callers -> Api \cup Direct]

VARIABLES
  schema,    \* the revision the database is at
  stage,     \* what each container does
  upgrade,   \* its migration transaction: the revision it found and the one it is at
  tries,     \* the pods a job has used
  redis,     \* core/redis.py's _redis is there
  pool,      \* core/queue.py's _pool: the number of a pool, or None
  open,      \* the pools that the process has created and not closed
  created,   \* how many it has created
  call,      \* what each caller is at
  handle,    \* the pool it was given
  faults     \* deaths and failures so far

process == <<redis, pool, open, created, call, handle>>
vars == <<schema, stage, upgrade, tries, redis, pool, open, created, call, handle, faults>>

Stages ==
  {"down", "upgrade", "boot", "serving", "draining", "close_redis", "close_pool",
   "stopped", "completed", "failed"}

Up == {"serving", "draining", "close_redis", "close_pool"}

Goto(c, s) == stage' = [stage EXCEPT ![c] = s]

CallersOf(c) == {d \in Callers : Home[d] = c}

----------------------------------------------------------------------------
(* Start and migration.  alembic upgrade head is one transaction: it reads *)
(* the version, applies what is missing and commits.                       *)

\* Fault: the backoff limit is not applied.
MayStartAlways(c) == TRUE

MayStart(c) == c \in Jobs => tries[c] <= BackoffLimit

Start(c) ==
  /\ stage[c] = "down"
  /\ MayStart(c)
  /\ Goto(c, IF c \in Direct THEN "boot" ELSE "upgrade")
  /\ tries' = [tries EXCEPT ![c] = IF c \in Jobs THEN @ + 1 ELSE @]
  /\ UNCHANGED <<schema, upgrade, process, faults>>

\* The job has used up its pods.
GiveUp(c) ==
  /\ stage[c] = "down"
  /\ ~MayStart(c)
  /\ Goto(c, "failed")
  /\ UNCHANGED <<schema, upgrade, tries, process, faults>>

\* Fault: the script goes on after a command that fails.
AfterFailureAnyway(c) == IF c \in Jobs THEN "down" ELSE "boot"

\* Fault: nothing starts an exited container again.
AfterFailureForGood(c) == "failed"

\* set -e: the container exits, and its restart policy starts it again.
AfterFailure(c) == "down"

ReadVersion(c) ==
  /\ stage[c] = "upgrade"
  /\ upgrade[c] = None
  /\ upgrade' = [upgrade EXCEPT ![c] = [found |-> schema, at |-> schema]]
  /\ UNCHANGED <<schema, stage, tries, process, faults>>

\* Uncommitted DDL makes whoever creates the same objects wait.
Migrating(c) == upgrade[c] # None /\ upgrade[c].at # upgrade[c].found

\* Fault: each revision is committed by itself.
SchemaAfterEach(c) == upgrade[c].at + 1

\* What others see of the schema while the transaction goes on.
SchemaDuring(c) == schema

\* The objects that the transaction sees: what it has made, or what another
\* one has committed since it read the version.
Visible(c) == SchemaAt[IF schema > upgrade[c].at THEN schema ELSE upgrade[c].at]

\* The next revision's DDL and its UPDATE of alembic_version, or an error,
\* with which everything is rolled back.
ApplyRevision(c) ==
  /\ stage[c] = "upgrade"
  /\ upgrade[c] # None
  /\ upgrade[c].at < Latest
  /\ \A d \in Containers \ {c} : ~Migrating(d)
  /\ \/ /\ Fails(Visible(c), Revisions[upgrade[c].at + 1])
        /\ upgrade' = [upgrade EXCEPT ![c] = None]
        /\ Goto(c, AfterFailure(c))
        /\ UNCHANGED schema
     \/ /\ ~Fails(Visible(c), Revisions[upgrade[c].at + 1])
        /\ upgrade' = [upgrade EXCEPT ![c].at = @ + 1]
        /\ schema' = SchemaDuring(c)
        /\ UNCHANGED stage
  /\ UNCHANGED <<tries, process, faults>>

\* The database cannot be reached or gives up the connection.
UpgradeFails(c) ==
  /\ stage[c] = "upgrade"
  /\ faults < MaxFaults
  /\ faults' = faults + 1
  /\ upgrade' = [upgrade EXCEPT ![c] = None]
  /\ Goto(c, AfterFailure(c))
  /\ UNCHANGED <<schema, tries, process>>

CommitUpgrade(c) ==
  /\ stage[c] = "upgrade"
  /\ upgrade[c] # None
  /\ upgrade[c].at = Latest
  /\ schema' = Latest
  /\ upgrade' = [upgrade EXCEPT ![c] = None]
  /\ Goto(c, IF c \in Jobs THEN "completed" ELSE "boot")
  /\ UNCHANGED <<tries, process, faults>>

----------------------------------------------------------------------------
(* The lifespan: the first get_redis creates the client; that Redis does   *)
(* not answer the ping is only logged.  SIGTERM: the server takes no more  *)
(* requests, waits for those in progress, and lets the lifespan end.       *)

Boot(c) ==
  /\ stage[c] = "boot"
  /\ redis' = [redis EXCEPT ![c] = TRUE]
  /\ Goto(c, "serving")
  /\ UNCHANGED <<schema, upgrade, tries, pool, open, created, call, handle, faults>>

Terminate(c) ==
  /\ stage[c] = "serving"
  /\ Goto(c, "draining")
  /\ UNCHANGED <<schema, upgrade, tries, process, faults>>

Drained(c) ==
  /\ stage[c] = "draining"
  /\ \A d \in CallersOf(c) : call[d] = "idle"
  /\ Goto(c, "close_redis")
  /\ UNCHANGED <<schema, upgrade, tries, process, faults>>

CloseRedis(c) ==
  /\ stage[c] = "close_redis"
  /\ redis' = [redis EXCEPT ![c] = FALSE]
  /\ Goto(c, "close_pool")
  /\ UNCHANGED <<schema, upgrade, tries, pool, open, created, call, handle, faults>>

\* close_arq_pool, and the end of the process with all it still had open.
ClosePool(c) ==
  /\ stage[c] = "close_pool"
  /\ pool' = [pool EXCEPT ![c] = None]
  /\ open' = [open EXCEPT ![c] = {}]
  /\ created' = [created EXCEPT ![c] = 0]
  /\ Goto(c, "stopped")
  /\ UNCHANGED <<schema, upgrade, tries, redis, call, handle, faults>>

\* A container dies: its transaction is rolled back, its memory lost.
Crash(c) ==
  /\ stage[c] \in {"upgrade", "boot"} \cup Up
  /\ faults < MaxFaults
  /\ faults' = faults + 1
  /\ Goto(c, "down")
  /\ upgrade' = [upgrade EXCEPT ![c] = None]
  /\ redis' = [redis EXCEPT ![c] = FALSE]
  /\ pool' = [pool EXCEPT ![c] = None]
  /\ open' = [open EXCEPT ![c] = {}]
  /\ created' = [created EXCEPT ![c] = 0]
  /\ call' = [d \in Callers |-> IF Home[d] = c THEN "idle" ELSE call[d]]
  /\ handle' = [d \in Callers |-> IF Home[d] = c THEN None ELSE handle[d]]
  /\ UNCHANGED <<schema, tries>>

----------------------------------------------------------------------------
(* get_arq_pool and its callers.                                           *)

\* The check; a pool that is there is returned at once.
AskPool(d) ==
  LET c == Home[d] IN
  /\ stage[c] = "serving"
  /\ call[d] = "idle"
  /\ call' = [call EXCEPT ![d] = IF pool[c] = None THEN "creating" ELSE "using"]
  /\ handle' = [handle EXCEPT ![d] = pool[c]]
  /\ UNCHANGED <<schema, stage, upgrade, tries, redis, pool, open, created, faults>>

\* Fault: without the global statement a local variable is assigned.
StoredLocally(c) == pool[c]

\* What _pool refers to once create_pool has returned.
Stored(c) == created[c] + 1

\* create_pool returns: store and return.
CreatePool(d) ==
  LET c == Home[d] IN
  /\ call[d] = "creating"
  /\ created' = [created EXCEPT ![c] = @ + 1]
  /\ open' = [open EXCEPT ![c] = @ \cup {created[c] + 1}]
  /\ pool' = [pool EXCEPT ![c] = Stored(c)]
  /\ handle' = [handle EXCEPT ![d] = created[c] + 1]
  /\ call' = [call EXCEPT ![d] = "using"]
  /\ UNCHANGED <<schema, stage, upgrade, tries, redis, faults>>

\* Redis does not answer: the call ends in an error.
CreateFails(d) ==
  /\ call[d] = "creating"
  /\ call' = [call EXCEPT ![d] = "idle"]
  /\ UNCHANGED <<schema, stage, upgrade, tries, redis, pool, open, created, handle, faults>>

\* Fault: the dependency closes the pool when the request ends.
OpenAfterCallClosed(d) == open[Home[d]] \ {handle[d]}

\* The pools that are open after a call: the dependency leaves them alone.
OpenAfterCall(d) == open[Home[d]]

EndCall(d) ==
  /\ call[d] = "using"
  /\ call' = [call EXCEPT ![d] = "idle"]
  /\ handle' = [handle EXCEPT ![d] = None]
  /\ open' = [open EXCEPT ![Home[d]] = OpenAfterCall(d)]
  /\ UNCHANGED <<schema, stage, upgrade, tries, redis, pool, created, faults>>

----------------------------------------------------------------------------
\* The database may be at any revision that was once deployed.
Init ==
  /\ schema \in 0..Latest
  /\ stage = [c \in Containers |-> "down"]
  /\ upgrade = [c \in Containers |-> None]
  /\ tries = [c \in Containers |-> 0]
  /\ redis = [c \in Containers |-> FALSE]
  /\ pool = [c \in Containers |-> None]
  /\ open = [c \in Containers |-> {}]
  /\ created = [c \in Containers |-> 0]
  /\ call = [d \in Callers |-> "idle"]
  /\ handle = [d \in Callers |-> None]
  /\ faults = 0

\* What a container does unless it dies or is told to stop.
Run(c) ==
  \/ Start(c) \/ GiveUp(c)
  \/ ReadVersion(c) \/ ApplyRevision(c) \/ CommitUpgrade(c)
  \/ Boot(c) \/ Drained(c) \/ CloseRedis(c) \/ ClosePool(c)

Proceed(d) == CreatePool(d) \/ CreateFails(d) \/ EndCall(d)

\* Everything has been stopped or is over.
Finished ==
  /\ \A c \in Containers : stage[c] \notin {"down", "upgrade", "boot"} \cup Up
  /\ UNCHANGED vars

Next ==
  \/ \E c \in Containers : Run(c) \/ UpgradeFails(c) \/ Terminate(c) \/ Crash(c)
  \/ \E d \in Callers : AskPool(d) \/ Proceed(d)
  \/ Finished

\* The platform starts what is down, processes go on, calls come back.
\* Nobody need call, die, fail or be stopped.
Spec ==
  /\ Init /\ [][Next]_vars
  /\ \A c \in Containers : WF_vars(Run(c))
  /\ \A d \in Callers : WF_vars(Proceed(d))

----------------------------------------------------------------------------
(* Properties. *)

\* The shape of every variable; a job uses no more pods than its first and
\* backoffLimit more.  Code: migrate-job.yaml, main.py, queue.py.
DeploymentTypeOK ==
  /\ schema \in 0..Latest
  /\ stage \in [Containers -> Stages]
  /\ upgrade \in [Containers -> [found : 0..Latest, at : 0..Latest] \cup {None}]
  /\ tries \in [Containers -> 0..(BackoffLimit + 1)]
  /\ redis \in [Containers -> BOOLEAN]
  /\ pool \in [Containers -> Nat \cup {None}]
  /\ open \in [Containers -> SUBSET Nat]
  /\ created \in [Containers -> Nat]
  /\ call \in [Callers -> {"idle", "creating", "using"}]
  /\ handle \in [Callers -> Nat \cup {None}]
  /\ faults \in 0..MaxFaults

\* A container that goes through the entrypoint never serves over a
\* database that lacks what its models name, although another may be
\* migrating, or have failed, at the same time.  Code: set -e and the order
\* of entrypoint.sh, the revisions against models/.
ServesWholeSchema ==
  \A c \in Api : stage[c] \in Up => Metadata \subseteq SchemaAt[schema]

\* Whoever migrates, and however many at once, and whoever dies of it: the
\* schema others see goes from what it was to head in one step.  Code: the
\* one transaction of env.py.
UpgradeIsWhole == [][schema' # schema => schema < Latest /\ schema' = Latest]_vars

\* A call in progress has the clients it was given, open, although others
\* may have stored another pool since; the stored pool is open too.  Code:
\* get_arq_pool, which closes no pool it replaces, and get_report_queue.
\* That the lifespan does not close them under a call is uvicorn's doing, in
\* Drained, and is assumed here.
HandlesOpen ==
  /\ \A d \in Callers : call[d] = "using" =>
       handle[d] \in open[Home[d]] /\ redis[Home[d]]
  /\ \A c \in Containers : pool[c] # None => pool[c] \in open[c]

\* The pool is no true singleton: callers that all find none create one
\* each, and only the last is kept and closed.  But the leak is bounded:
\* over any number of calls a process opens no more pools than it ever had
\* first callers at once.  Code: get_arq_pool, check, await, store.
PoolsBounded == \A c \in Containers : Cardinality(open[c]) <= Cardinality(CallersOf(c))

\* Unless it is told to stop, an API container gets to serve, and once told
\* it stops; a job ends.  Code: the restart policies, and an upgrade that
\* fails because another was faster finds the schema at head when tried
\* again.
EveryContainerSettles ==
  \A c \in Containers :
    []<>(stage[c] \in IF c \in Jobs THEN {"completed", "failed"} ELSE {"serving", "stopped"})
----------------------------------------------------------------------------
(* The inductive invariant behind them. *)

\* Only a process that is up answers calls, with a client it has; a process
\* keeps the pool it created last.
ClientsSound ==
  /\ \A c \in Containers :
       /\ stage[c] \in {"serving", "draining", "close_redis"} => redis[c]
       /\ open[c] = 1..created[c]
       /\ pool[c] = IF created[c] = 0 THEN None ELSE created[c]
  /\ \A d \in Callers :
       /\ call[d] # "idle" => stage[Home[d]] \in {"serving", "draining"}
       /\ call[d] = "using" => handle[d] \in open[Home[d]]

\* After the entrypoint's command the schema is at its last revision.
MigratedFirst ==
  \A c \in Api : stage[c] \in {"boot"} \cup Up => schema = Latest

Creating(c) == {d \in CallersOf(c) : call[d] = "creating"}

\* Whoever creates a pool was there before the first one was stored.
PoolsCounted ==
  \A c \in Containers :
    created[c] + Cardinality(Creating(c)) <= Cardinality(CallersOf(c))

DeploymentInv ==
  DeploymentTypeOK /\ MigratedFirst /\ ClientsSound /\ PoolsCounted
=============================================================================
