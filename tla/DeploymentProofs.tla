-------------------------- MODULE DeploymentProofs --------------------------
(***************************************************************************)
(* Proofs about Deployment for any number of containers, jobs and callers, *)
(* any backoff limit and any number of faults: that what serves finds the  *)
(* schema it needs, that the schema changes in one step, that the clients  *)
(* in use are open, and that a process opens no more pools than it has     *)
(* callers.  All from the inductive invariant DeploymentInv.               *)
(***************************************************************************)
EXTENDS Deployment, FiniteSetTheorems, TLAPS

----------------------------------------------------------------------------
(* Facts about the constants. *)

\* The migrations are three.
LEMMA LatestIsThree == Latest = 3 /\ 0..Latest \subseteq Nat
BY DEF Latest, Revisions

\* Every caller lives in a container.
LEMMA HomeType == ASSUME NEW d \in Callers PROVE Home[d] \in Containers
BY DeploymentAssumption DEF Containers

----------------------------------------------------------------------------
(* Types. *)

LEMMA TypeInit == Init => DeploymentTypeOK
BY DeploymentAssumption, LatestIsThree DEF Init, DeploymentTypeOK, Stages

LEMMA TypeStep ==
  ASSUME DeploymentTypeOK, [Next]_vars
  PROVE  DeploymentTypeOK'
<1> USE LatestIsThree DEF DeploymentTypeOK, Goto, process
<1>1. ASSUME NEW c \in Containers, Start(c)
      PROVE  DeploymentTypeOK'
  BY <1>1, DeploymentAssumption DEF Start, MayStart, Stages
<1>2. ASSUME NEW c \in Containers, GiveUp(c)
      PROVE  DeploymentTypeOK'
  BY <1>2 DEF GiveUp, Stages
<1>3. ASSUME NEW c \in Containers, ReadVersion(c)
      PROVE  DeploymentTypeOK'
  BY <1>3 DEF ReadVersion
<1>4. ASSUME NEW c \in Containers, ApplyRevision(c)
      PROVE  DeploymentTypeOK'
  <2>1. upgrade[c] \in [found : 0..Latest, at : 0..Latest] /\ upgrade[c].at + 1 \in 0..Latest
    BY <1>4 DEF ApplyRevision
  <2>2. upgrade' \in [Containers -> [found : 0..Latest, at : 0..Latest] \cup {None}]
    BY <1>4, <2>1 DEF ApplyRevision
  <2>3. stage' \in [Containers -> Stages] /\ schema' = schema
    BY <1>4 DEF ApplyRevision, AfterFailure, SchemaDuring, Stages
  <2> QED
    BY <1>4, <2>2, <2>3 DEF ApplyRevision
<1>5. ASSUME NEW c \in Containers, CommitUpgrade(c)
      PROVE  DeploymentTypeOK'
  BY <1>5 DEF CommitUpgrade, Stages
<1>6. ASSUME NEW c \in Containers, Boot(c)
      PROVE  DeploymentTypeOK'
  BY <1>6 DEF Boot, Stages
<1>7. ASSUME NEW c \in Containers, Drained(c)
      PROVE  DeploymentTypeOK'
  BY <1>7 DEF Drained, Stages
<1>8. ASSUME NEW c \in Containers, CloseRedis(c)
      PROVE  DeploymentTypeOK'
  BY <1>8 DEF CloseRedis, Stages
<1>9. ASSUME NEW c \in Containers, ClosePool(c)
      PROVE  DeploymentTypeOK'
  BY <1>9 DEF ClosePool, Stages
<1>10. ASSUME NEW c \in Containers, UpgradeFails(c)
       PROVE  DeploymentTypeOK'
  BY <1>10, DeploymentAssumption DEF UpgradeFails, AfterFailure, Stages
<1>11. ASSUME NEW c \in Containers, Terminate(c)
       PROVE  DeploymentTypeOK'
  BY <1>11 DEF Terminate, Stages
<1>12. ASSUME NEW c \in Containers, Crash(c)
       PROVE  DeploymentTypeOK'
  BY <1>12, DeploymentAssumption DEF Crash, Stages
<1>13. ASSUME NEW d \in Callers, AskPool(d)
       PROVE  DeploymentTypeOK'
  BY <1>13, HomeType DEF AskPool
<1>14. ASSUME NEW d \in Callers, CreatePool(d)
       PROVE  DeploymentTypeOK'
  BY <1>14, HomeType DEF CreatePool, Stored
<1>15. ASSUME NEW d \in Callers, CreateFails(d)
       PROVE  DeploymentTypeOK'
  BY <1>15 DEF CreateFails
<1>16. ASSUME NEW d \in Callers, EndCall(d)
       PROVE  DeploymentTypeOK'
  BY <1>16, HomeType DEF EndCall, OpenAfterCall
<1>17. CASE UNCHANGED vars
  BY <1>17 DEF vars
<1> QED
  BY <1>1, <1>2, <1>3, <1>4, <1>5, <1>6, <1>7, <1>8, <1>9, <1>10, <1>11, <1>12,
     <1>13, <1>14, <1>15, <1>16, <1>17 DEF Next, Run, Proceed, Finished

----------------------------------------------------------------------------
(* Migration. *)

\* The schema only ever goes to its last revision.
LEMMA SchemaStep ==
  ASSUME [Next]_vars
  PROVE  schema' = schema \/ schema' = Latest
BY DEF Next, Run, Proceed, Finished, vars, process, Start, GiveUp, ReadVersion, ApplyRevision,
  SchemaDuring, CommitUpgrade, Boot, Drained, CloseRedis, ClosePool, UpgradeFails, Terminate,
  Crash, AskPool, CreatePool, CreateFails, EndCall

LEMMA MigratedStep ==
  ASSUME DeploymentTypeOK, MigratedFirst, [Next]_vars
  PROVE  MigratedFirst'
<1> SUFFICES ASSUME NEW a \in Api, stage'[a] \in {"boot"} \cup Up
             PROVE  schema' = Latest
  BY DEF MigratedFirst
<1>1. a \in Containers /\ a \notin Jobs /\ a \notin Direct /\ stage \in [Containers -> Stages]
  BY DeploymentAssumption DEF Containers, DeploymentTypeOK
<1>2. CASE stage[a] \in {"boot"} \cup Up
  BY <1>2, SchemaStep DEF MigratedFirst
<1>3. CASE stage[a] \notin {"boot"} \cup Up
  \* Only the commit of its own migration brings a container that far.
  <2>1. ASSUME NEW c \in Containers, Start(c)
        PROVE  FALSE
    BY <1>1, <1>3, <2>1 DEF Start, Goto, Up
  <2>2. ASSUME NEW c \in Containers, ApplyRevision(c)
        PROVE  FALSE
    BY <1>1, <1>3, <2>2 DEF ApplyRevision, AfterFailure, Goto, Up
  <2>3. ASSUME NEW c \in Containers, CommitUpgrade(c)
        PROVE  schema' = Latest
    BY <2>3 DEF CommitUpgrade
  <2>4. ASSUME NEW c \in Containers, UpgradeFails(c)
        PROVE  FALSE
    BY <1>1, <1>3, <2>4 DEF UpgradeFails, AfterFailure, Goto, Up
  <2>5. ASSUME NEW c \in Containers,
               GiveUp(c) \/ ReadVersion(c) \/ Boot(c) \/ Drained(c) \/ CloseRedis(c) \/
               ClosePool(c) \/ Terminate(c) \/ Crash(c)
        PROVE  FALSE
    BY <1>1, <1>3, <2>5
    DEF GiveUp, ReadVersion, Boot, Drained, CloseRedis, ClosePool, Terminate, Crash, Goto, Up
  <2>6. ASSUME NEW d \in Callers, AskPool(d) \/ Proceed(d)
        PROVE  FALSE
    BY <1>1, <1>3, <2>6 DEF AskPool, Proceed, CreatePool, CreateFails, EndCall
  <2>7. CASE UNCHANGED vars
    BY <1>3, <2>7 DEF vars
  <2> QED
    BY <2>1, <2>2, <2>3, <2>4, <2>5, <2>6, <2>7 DEF Next, Run, Finished
<1> QED
  BY <1>2, <1>3

----------------------------------------------------------------------------
(* Clients. *)

LEMMA ClientsInit == Init => ClientsSound
BY DeploymentAssumption, HomeType DEF Init, ClientsSound

LEMMA ClientsStep ==
  ASSUME DeploymentTypeOK, ClientsSound, [Next]_vars
  PROVE  ClientsSound'
<1> USE HomeType DEF ClientsSound, Goto, process
<1>0. /\ stage \in [Containers -> Stages] /\ redis \in [Containers -> BOOLEAN]
      /\ pool \in [Containers -> Nat \cup {None}] /\ open \in [Containers -> SUBSET Nat]
      /\ created \in [Containers -> Nat] /\ handle \in [Callers -> Nat \cup {None}]
      /\ call \in [Callers -> {"idle", "creating", "using"}]
  BY DEF DeploymentTypeOK
<1>1. ASSUME NEW c \in Containers, Start(c)
      PROVE  ClientsSound'
  BY <1>0, <1>1 DEF Start
<1>2. ASSUME NEW c \in Containers, GiveUp(c)
      PROVE  ClientsSound'
  BY <1>0, <1>2 DEF GiveUp
<1>3. ASSUME NEW c \in Containers, ReadVersion(c)
      PROVE  ClientsSound'
  BY <1>0, <1>3 DEF ReadVersion
<1>4. ASSUME NEW c \in Containers, ApplyRevision(c)
      PROVE  ClientsSound'
  BY <1>0, <1>4 DEF ApplyRevision, AfterFailure
<1>5. ASSUME NEW c \in Containers, CommitUpgrade(c)
      PROVE  ClientsSound'
  BY <1>0, <1>5 DEF CommitUpgrade
<1>6. ASSUME NEW c \in Containers, Boot(c)
      PROVE  ClientsSound'
  BY <1>0, <1>6 DEF Boot
<1>7. ASSUME NEW c \in Containers, Drained(c)
      PROVE  ClientsSound'
  BY <1>0, <1>7 DEF Drained, CallersOf
<1>8. ASSUME NEW c \in Containers, CloseRedis(c)
      PROVE  ClientsSound'
  BY <1>0, <1>8 DEF CloseRedis
<1>9. ASSUME NEW c \in Containers, ClosePool(c)
      PROVE  ClientsSound'
  BY <1>0, <1>9 DEF ClosePool
<1>10. ASSUME NEW c \in Containers, UpgradeFails(c)
       PROVE  ClientsSound'
  BY <1>0, <1>10 DEF UpgradeFails, AfterFailure
<1>11. ASSUME NEW c \in Containers, Terminate(c)
       PROVE  ClientsSound'
  BY <1>0, <1>11 DEF Terminate
<1>12. ASSUME NEW c \in Containers, Crash(c)
       PROVE  ClientsSound'
  BY <1>0, <1>12 DEF Crash
<1>13. ASSUME NEW d \in Callers, AskPool(d)
       PROVE  ClientsSound'
  BY <1>0, <1>13, DeploymentAssumption DEF AskPool
<1>14. ASSUME NEW d \in Callers, CreatePool(d)
       PROVE  ClientsSound'
  <2> DEFINE c == Home[d]
  <2>1. /\ open' = [open EXCEPT ![c] = open[c] \cup {created[c] + 1}]
        /\ created' = [created EXCEPT ![c] = created[c] + 1]
        /\ pool' = [pool EXCEPT ![c] = created[c] + 1]
        /\ handle' = [handle EXCEPT ![d] = created[c] + 1]
        /\ call' = [call EXCEPT ![d] = "using"] /\ call[d] = "creating"
        /\ UNCHANGED <<stage, redis>>
    BY <1>14 DEF CreatePool, Stored
  <2>2. (1..created[c]) \cup {created[c] + 1} = 1..(created[c] + 1)
    BY <1>0
  <2>3. \A b \in Containers : open[b] \subseteq open'[b]
    BY <1>0, <2>1
  <2>4. \A b \in Containers :
          /\ open'[b] = 1..created'[b]
          /\ pool'[b] = IF created'[b] = 0 THEN None ELSE created'[b]
    <3>1. ASSUME NEW b \in Containers, b # c
          PROVE  open'[b] = open[b] /\ created'[b] = created[b] /\ pool'[b] = pool[b]
      BY <1>0, <2>1, <3>1
    <3>2. /\ open'[c] = (1..created[c]) \cup {created[c] + 1}
          /\ created'[c] = created[c] + 1 /\ pool'[c] = created[c] + 1
      BY <1>0, <2>1
    <3>3. created[c] \in Nat
      BY <1>0
    <3>4. /\ open'[c] = 1..created'[c]
          /\ pool'[c] = IF created'[c] = 0 THEN None ELSE created'[c]
      <4>1. open[c] = 1..created[c]
        OBVIOUS
      <4>2. created'[c] # 0
        BY <3>2, <3>3
      <4> QED
        BY <2>2, <3>2, <4>1, <4>2
    <3> QED
      BY <3>1, <3>4
  <2>5. \A e \in Callers :
          /\ call'[e] # "idle" => stage'[Home[e]] \in {"serving", "draining"}
          /\ call'[e] = "using" => handle'[e] \in open'[Home[e]]
    BY <1>0, <2>1, <2>3
  <2> QED
    BY <2>1, <2>4, <2>5
<1>15. ASSUME NEW d \in Callers, CreateFails(d)
       PROVE  ClientsSound'
  BY <1>0, <1>15 DEF CreateFails
<1>16. ASSUME NEW d \in Callers, EndCall(d)
       PROVE  ClientsSound'
  BY <1>0, <1>16 DEF EndCall, OpenAfterCall
<1>17. CASE UNCHANGED vars
  BY <1>17 DEF vars
<1> QED
  BY <1>1, <1>2, <1>3, <1>4, <1>5, <1>6, <1>7, <1>8, <1>9, <1>10, <1>11, <1>12,
     <1>13, <1>14, <1>15, <1>16, <1>17 DEF Next, Run, Proceed, Finished

----------------------------------------------------------------------------
(* Counting pools. *)

LEMMA CreatingFinite ==
  ASSUME NEW c
  PROVE  /\ IsFiniteSet(CallersOf(c)) /\ Cardinality(CallersOf(c)) \in Nat
         /\ IsFiniteSet(Creating(c)) /\ Cardinality(Creating(c)) \in Nat
         /\ Cardinality(Creating(c)) <= Cardinality(CallersOf(c))
<1>1. CallersOf(c) \in SUBSET Callers /\ Creating(c) \in SUBSET CallersOf(c)
  BY DEF CallersOf, Creating
<1>2. IsFiniteSet(CallersOf(c))
  BY <1>1, DeploymentAssumption, FS_Subset
<1>3. IsFiniteSet(Creating(c)) /\ Cardinality(Creating(c)) <= Cardinality(CallersOf(c))
  BY <1>1, <1>2, FS_Subset
<1> QED
  BY <1>2, <1>3, FS_CardinalityType

\* Callers of one container do not count in another.
LEMMA CreatingElsewhere ==
  ASSUME NEW d \in Callers, NEW c \in Containers, c # Home[d],
         \A e \in Callers : e # d => call'[e] = call[e]
  PROVE  Creating(c)' = Creating(c)
BY DEF Creating, CallersOf

\* A caller that stops creating makes one less.
LEMMA CreatingLess ==
  ASSUME DeploymentTypeOK, NEW d \in Callers, call[d] = "creating",
         NEW s \in {"idle", "using"}, call' = [call EXCEPT ![d] = s]
  PROVE  Cardinality(Creating(Home[d])') = Cardinality(Creating(Home[d])) - 1
<1>1. d \in Creating(Home[d])
  BY DEF Creating, CallersOf
<1>2. Creating(Home[d])' = Creating(Home[d]) \ {d}
  BY DEF Creating, CallersOf, DeploymentTypeOK
<1> QED
  BY <1>1, <1>2, CreatingFinite, FS_RemoveElement

LEMMA CountedInit == Init => PoolsCounted
<1> SUFFICES ASSUME Init, NEW c \in Containers
             PROVE  created[c] + Cardinality(Creating(c)) <= Cardinality(CallersOf(c))
  BY DEF PoolsCounted
<1>1. created[c] = 0
  BY DEF Init
<1> QED
  BY <1>1, CreatingFinite

LEMMA CountedStep ==
  ASSUME DeploymentTypeOK, ClientsSound, PoolsCounted, [Next]_vars
  PROVE  PoolsCounted'
<1>0. /\ created \in [Containers -> Nat] /\ pool \in [Containers -> Nat \cup {None}]
      /\ call \in [Callers -> {"idle", "creating", "using"}]
  BY DEF DeploymentTypeOK
<1>1. CASE UNCHANGED <<created, call>>
  <2>1. \A c \in Containers : Creating(c)' = Creating(c) /\ created'[c] = created[c]
    BY <1>1 DEF Creating
  <2> QED
    BY <2>1 DEF PoolsCounted, CallersOf
<1>2. ASSUME NEW c \in Containers, ClosePool(c)
      PROVE  PoolsCounted'
  <2> SUFFICES ASSUME NEW b \in Containers
               PROVE  created'[b] + Cardinality(Creating(b)') <= Cardinality(CallersOf(b))
    BY DEF PoolsCounted, CallersOf
  <2>1. Creating(b)' = Creating(b) /\ created'[b] \in {0, created[b]}
    BY <1>0, <1>2 DEF ClosePool, Creating
  <2> QED
    BY <1>0, <2>1, CreatingFinite DEF PoolsCounted
<1>3. ASSUME NEW c \in Containers, Crash(c)
      PROVE  PoolsCounted'
  <2> SUFFICES ASSUME NEW b \in Containers
               PROVE  created'[b] + Cardinality(Creating(b)') <= Cardinality(CallersOf(b))
    BY DEF PoolsCounted, CallersOf
  <2>1. CASE b = c
    <3>1. created'[b] = 0
      BY <1>0, <1>3, <2>1 DEF Crash
    <3>2. Creating(b)' = {}
      BY <1>0, <1>3, <2>1 DEF Crash, Creating, CallersOf
    <3> QED
      BY <3>1, <3>2, CreatingFinite, FS_EmptySet
  <2>2. CASE b # c
    <3>1. created'[b] = created[b] /\ Creating(b)' = Creating(b)
      BY <1>0, <1>3, <2>2 DEF Crash, Creating, CallersOf
    <3> QED
      BY <3>1 DEF PoolsCounted
  <2> QED
    BY <2>1, <2>2
<1>4. ASSUME NEW d \in Callers, AskPool(d)
      PROVE  PoolsCounted'
  <2> SUFFICES ASSUME NEW b \in Containers
               PROVE  created'[b] + Cardinality(Creating(b)') <= Cardinality(CallersOf(b))
    BY DEF PoolsCounted, CallersOf
  <2>1. created' = created /\ \A e \in Callers : e # d => call'[e] = call[e]
    BY <1>0, <1>4 DEF AskPool
  <2>2. CASE b # Home[d]
    BY <2>1, <2>2, CreatingElsewhere DEF PoolsCounted
  <2>3. CASE b = Home[d] /\ pool[b] = None
    \* Nothing has been created yet, so all its callers may be creating.
    <3>1. created'[b] = 0
      BY <1>0, <2>1, <2>3, DeploymentAssumption DEF ClientsSound
    <3>2. Creating(b)' \in SUBSET CallersOf(b)
      BY DEF Creating, CallersOf
    <3> QED
      BY <3>1, <3>2, CreatingFinite, FS_Subset, FS_CardinalityType
  <2>4. CASE b = Home[d] /\ pool[b] # None
    <3>1. call'[d] = "using" /\ call[d] = "idle"
      BY <1>0, <1>4, <2>4 DEF AskPool
    <3>2. Creating(b)' = Creating(b)
      BY <2>1, <3>1 DEF Creating, CallersOf
    <3> QED
      BY <2>1, <3>2 DEF PoolsCounted
  <2> QED
    BY <2>2, <2>3, <2>4
<1>5. ASSUME NEW d \in Callers, CreatePool(d) \/ CreateFails(d)
      PROVE  PoolsCounted'
  <2> SUFFICES ASSUME NEW b \in Containers
               PROVE  created'[b] + Cardinality(Creating(b)') <= Cardinality(CallersOf(b))
    BY DEF PoolsCounted, CallersOf
  <2>1. /\ call[d] = "creating"
        /\ \E s \in {"idle", "using"} : call' = [call EXCEPT ![d] = s]
        /\ \A e \in Callers : e # d => call'[e] = call[e]
        /\ \/ created' = created
           \/ created' = [created EXCEPT ![Home[d]] = @ + 1]
    BY <1>0, <1>5 DEF CreatePool, CreateFails
  <2>2. CASE b # Home[d]
    <3>1. created'[b] = created[b]
      BY <1>0, <2>1, <2>2
    <3> QED
      BY <2>1, <2>2, <3>1, CreatingElsewhere DEF PoolsCounted
  <2>3. CASE b = Home[d]
    <3>1. Cardinality(Creating(b)') = Cardinality(Creating(b)) - 1
      BY <2>1, <2>3, CreatingLess
    <3>2. created'[b] \in {created[b], created[b] + 1} /\ created[b] \in Nat
      BY <1>0, <2>1, <2>3
    <3>3. created[b] + Cardinality(Creating(b)) <= Cardinality(CallersOf(b))
      BY DEF PoolsCounted
    <3> QED
      BY <3>1, <3>2, <3>3, CreatingFinite
  <2> QED
    BY <2>2, <2>3
<1>6. ASSUME NEW d \in Callers, EndCall(d)
      PROVE  PoolsCounted'
  <2>1. \A b \in Containers : Creating(b)' = Creating(b) /\ created'[b] = created[b]
    BY <1>0, <1>6 DEF EndCall, Creating, CallersOf
  <2> QED
    BY <2>1 DEF PoolsCounted, CallersOf
<1>7. ASSUME NEW c \in Containers,
             Start(c) \/ GiveUp(c) \/ ReadVersion(c) \/ ApplyRevision(c) \/ CommitUpgrade(c) \/
             Boot(c) \/ Drained(c) \/ CloseRedis(c) \/ UpgradeFails(c) \/ Terminate(c)
      PROVE  UNCHANGED <<created, call>>
  BY <1>7 DEF Start, GiveUp, ReadVersion, ApplyRevision, CommitUpgrade, Boot, Drained,
    CloseRedis, UpgradeFails, Terminate, process
<1> QED
  BY <1>1, <1>2, <1>3, <1>4, <1>5, <1>6, <1>7 DEF Next, Run, Proceed, Finished, vars

----------------------------------------------------------------------------
(* The theorems. *)

\* The inductive invariant holds.
THEOREM DeploymentInvariant == Spec => []DeploymentInv
<1>1. Init => DeploymentInv
  <2>1. Init => MigratedFirst
    BY DeploymentAssumption DEF Init, MigratedFirst, Containers, Up
  <2> QED
    BY <2>1, TypeInit, ClientsInit, CountedInit DEF DeploymentInv
<1>2. DeploymentInv /\ [Next]_vars => DeploymentInv'
  BY TypeStep, MigratedStep, ClientsStep, CountedStep DEF DeploymentInv
<1> QED
  BY <1>1, <1>2, PTL DEF Spec

\* Every variable has its type, and a job uses no more pods than it may.
THEOREM DeploymentTypeCorrect == Spec => []DeploymentTypeOK
BY DeploymentInvariant, PTL DEF DeploymentInv

\* A container that runs the entrypoint serves over a database that has all
\* that models/ names, however many others migrate, fail or die beside it.
THEOREM SchemaWhileServing == Spec => []ServesWholeSchema
<1>1. DeploymentInv => ServesWholeSchema
  BY LatestIsComplete DEF DeploymentInv, MigratedFirst, ServesWholeSchema
<1> QED
  BY <1>1, DeploymentInvariant, PTL

\* Others see the schema change once, to its last revision.
THEOREM UpgradesAreWhole == Spec => UpgradeIsWhole
<1>1. DeploymentInv /\ [Next]_vars =>
        [schema' # schema => schema < Latest /\ schema' = Latest]_vars
  <2> SUFFICES ASSUME DeploymentInv, [Next]_vars, schema' # schema
               PROVE  schema < Latest /\ schema' = Latest
    OBVIOUS
  <2>1. schema' = Latest
    BY SchemaStep
  <2>2. schema \in 0..Latest
    BY DEF DeploymentInv, DeploymentTypeOK
  <2> QED
    BY <2>1, <2>2, LatestIsThree
<1> QED
  BY <1>1, DeploymentInvariant, PTL DEF Spec, UpgradeIsWhole

\* Whoever else creates and stores a pool, a call in progress has its own
\* open, and so has the process; given that uvicorn drains (Drained).
THEOREM ClientsStayOpen == Spec => []HandlesOpen
<1>1. DeploymentInv => HandlesOpen
  <2> SUFFICES ASSUME DeploymentInv
               PROVE  HandlesOpen
    OBVIOUS
  <2>1. ASSUME NEW d \in Callers, call[d] = "using"
        PROVE  handle[d] \in open[Home[d]] /\ redis[Home[d]]
    BY <2>1, HomeType DEF DeploymentInv, ClientsSound
  <2>2. ASSUME NEW c \in Containers, pool[c] # None
        PROVE  pool[c] \in open[c]
    <3>1. created[c] \in Nat /\ created[c] # 0 /\ pool[c] = created[c]
      BY <2>2 DEF DeploymentInv, DeploymentTypeOK, ClientsSound
    <3>2. open[c] = 1..created[c]
      BY DEF DeploymentInv, ClientsSound
    <3> QED
      BY <3>1, <3>2
  <2> QED
    BY <2>1, <2>2 DEF HandlesOpen
<1> QED
  BY <1>1, DeploymentInvariant, PTL

\* Over any number of calls, the pools a process has open are no more than
\* its callers.
THEOREM PoolsStayBounded == Spec => []PoolsBounded
<1>1. DeploymentInv => PoolsBounded
  <2> SUFFICES ASSUME DeploymentInv, NEW c \in Containers
               PROVE  Cardinality(open[c]) <= Cardinality(CallersOf(c))
    BY DEF PoolsBounded
  <2>1. created[c] \in Nat /\ open[c] = 1..created[c]
    BY DEF DeploymentInv, DeploymentTypeOK, ClientsSound
  <2>2. Cardinality(open[c]) = created[c]
    BY <2>1, FS_Interval
  <2>3. created[c] + Cardinality(Creating(c)) <= Cardinality(CallersOf(c))
    BY DEF DeploymentInv, PoolsCounted
  <2> QED
    BY <2>1, <2>2, <2>3, CreatingFinite
<1> QED
  BY <1>1, DeploymentInvariant, PTL
=============================================================================
