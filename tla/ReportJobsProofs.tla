-------------------------- MODULE ReportJobsProofs --------------------------
(***************************************************************************)
(* Proofs about ReportJobs for any number of jobs, requests, tries and     *)
(* changes of the data: types, that every answer but a failure was true    *)
(* while it was made, and that a file is the report that was asked for.    *)
(* All from the inductive invariant ReportJobsInv.                         *)
(***************************************************************************)
EXTENDS ReportJobs, TLAPS

----------------------------------------------------------------------------
(* Facts about the operators. *)

\* No answer is not an answer.
LEMMA NoneIsNoFile == None # "file" /\ ReportJobState \cup {"processing", "file"} \subseteq Answers
BY JobsAssumption DEF Answers

LEMMA StateType ==
  ASSUME NEW j, job[j] \in Job \cup {None}
  PROVE  StateOf(j) \in ReportJobState
BY DEF StateOf, MapJobStatus, JobStatus, HasResult, Job, ReportJobState

\* What a state says of the job.
LEMMA StateMeaning ==
  ASSUME NEW j, job[j] \in Job
  PROVE  /\ job[j].stage = "queued" => StateOf(j) = "queued"
         /\ job[j].stage = "in_progress" => StateOf(j) = "in_progress"
         /\ job[j].stage = "complete" /\ job[j].success => StateOf(j) = "complete"
         /\ job[j].stage = "expired" => StateOf(j) = "not_found"
BY JobsAssumption DEF StateOf, MapJobStatus, JobStatus, HasResult, Job

\* A job's task generates its report.
LEMMA TaskType ==
  ASSUME NEW report \in Reports
  PROVE  /\ TaskName(report) \in Registered
         /\ Generates(TaskName(report)) = report
         /\ Registered = {"generate_inventory_valuation_export",
                          "generate_movements_summary_export"}
BY DEF Reports, TaskName, Generates, Registered

----------------------------------------------------------------------------
(* A job moves. *)

\* How a job may move: on in its life, for the same report.
Continues(j, now) ==
  job[j] # None =>
    /\ now.report = job[j].report /\ now.since = job[j].since
    /\ job[j].stage \in {"complete", "expired"} => now.stage \in {"complete", "expired"}
    /\ job[j].success => now.success

LEMMA MovesType ==
  ASSUME JobsTypeOK, NEW j \in Jobs, NEW now \in Job, Moves(j, now)
  PROVE  /\ job' \in [Jobs -> Job \cup {None}]
         /\ seen' \in [Requests -> SUBSET ReportJobState]
<1>1. job' \in [Jobs -> Job \cup {None}] /\ job'[j] \in Job \cup {None}
  BY DEF JobsTypeOK, Moves
<1>2. StateOf(j)' \in ReportJobState
  BY <1>1 DEF StateOf, MapJobStatus, JobStatus, HasResult, Job, ReportJobState
<1> QED
  BY <1>1, <1>2 DEF JobsTypeOK, Moves

\* A request that does not move itself stays sound when a job moves.
LEMMA MovesRequest ==
  ASSUME ReportJobsInv, NEW j \in Jobs, NEW now \in Job, Moves(j, now), Continues(j, now),
         NEW r \in Requests,
         pc'[r] = pc[r], call'[r] = call[r], answer'[r] = answer[r], file'[r] = file[r]
  PROVE  RequestSound(r)'
<1>0. /\ job \in [Jobs -> Job \cup {None}] /\ seen \in [Requests -> SUBSET ReportJobState]
      /\ AskingSound(r) /\ AnsweredSound(r) /\ WasTrue(r)
  BY DEF ReportJobsInv, JobsTypeOK, RequestSound
<1>1. job' = [job EXCEPT ![j] = now] /\ job'[j] = now /\ now # None
  BY <1>0, JobsAssumption DEF Moves
<1>2. \A i \in Jobs : i # j => job'[i] = job[i] /\ StateOf(i)' = StateOf(i)
  BY <1>0, <1>1 DEF StateOf, JobStatus, HasResult
<1>3. seen[r] \subseteq seen'[r]
  BY <1>0 DEF Moves
<1>4. WasTrue(r)'
  BY <1>0, <1>3 DEF WasTrue
<1>5. AnsweredSound(r)'
  BY <1>0, <1>1, <1>2 DEF AnsweredSound, Continues
<1>6. AskingSound(r)'
  <2> SUFFICES ASSUME pc[r] \in Asking
               PROVE  AskingSound(r)'
    BY DEF AskingSound
  <2>1. CASE call[r].job = j
    <3>1. StateOf(j)' \in seen'[r]
      BY <1>0, <2>1 DEF Moves
    <3>2. /\ pc[r] # "status" => now.stage \in {"complete", "expired"}
          /\ pc[r] \in {"fetch", "content"} => now.success
      BY <1>0, <2>1 DEF AskingSound, Continues, Asking
    <3> QED
      BY <1>1, <2>1, <3>1, <3>2 DEF AskingSound
  <2>2. CASE call[r].job # j
    BY <1>0, <1>2, <1>3, <2>2 DEF AskingSound
  <2> QED
    BY <2>1, <2>2
<1> QED
  BY <1>4, <1>5, <1>6 DEF RequestSound

\* The data and the flags of a job before and after.
LEMMA MovesJobs ==
  ASSUME ReportJobsInv, NEW j \in Jobs, NEW now \in Job, Moves(j, now), UNCHANGED version,
         now.task = TaskName(now.report), now.since <= version,
         now.data # None => now.data.report = now.report /\ now.data.version >= now.since,
         now.success => now.data # None /\ now.stage \in {"complete", "expired"}
  PROVE  \A i \in Jobs : JobSound(i)'
<1> SUFFICES ASSUME NEW i \in Jobs
             PROVE  JobSound(i)'
  OBVIOUS
<1>1. CASE i = j
  BY <1>1 DEF ReportJobsInv, JobsTypeOK, JobSound, Moves
<1>2. CASE i # j
  BY <1>2 DEF ReportJobsInv, JobsTypeOK, JobSound, Moves
<1> QED
  BY <1>1, <1>2

\* The worker's steps, all at once.
LEMMA WorkerMove ==
  ASSUME ReportJobsInv, NEW j \in Jobs, NEW now \in Job, Moves(j, now), Continues(j, now),
         UNCHANGED <<version, call, pc, answer, file>>,
         now.task = TaskName(now.report), now.since <= version,
         now.data # None => now.data.report = now.report /\ now.data.version >= now.since,
         now.success => now.data # None /\ now.stage \in {"complete", "expired"}
  PROVE  ReportJobsInv'
<1>1. JobsTypeOK'
  BY MovesType DEF ReportJobsInv, JobsTypeOK
<1> QED
  BY <1>1, MovesJobs, MovesRequest DEF ReportJobsInv

----------------------------------------------------------------------------
(* The worker. *)

\* What the invariant says of a job that ARQ holds.
LEMMA JobFacts ==
  ASSUME ReportJobsInv, NEW j \in Jobs, job[j] # None
  PROVE  /\ job[j] \in Job
         /\ job[j].report \in Reports /\ job[j].since \in 0..MaxVersion
         /\ version \in 0..MaxVersion /\ job[j].tries \in 0..MaxTries
         /\ job[j].task = TaskName(job[j].report)
         /\ job[j].since <= version
         /\ job[j].data # None =>
              job[j].data.report = job[j].report /\ job[j].data.version >= job[j].since
         /\ job[j].success => job[j].data # None /\ job[j].stage \in {"complete", "expired"}
<1>1. job[j] \in Job
  BY DEF ReportJobsInv, JobsTypeOK
<1>2. JobSound(j)
  BY DEF ReportJobsInv
<1> QED
  BY <1>1, <1>2 DEF JobSound, Job, ReportJobsInv, JobsTypeOK

\* A status that is not not_found names the stage.
LEMMA StatusIsStage ==
  ASSUME NEW j, JobStatus(j) # "not_found"
  PROVE  job[j] # None /\ job[j].stage = JobStatus(j)
BY DEF JobStatus

LEMMA WorkStep ==
  ASSUME ReportJobsInv, NEW j \in Jobs, Work(j)
  PROVE  ReportJobsInv'
<1>1. CASE StartJob(j)
  <2>1. job[j] # None /\ job[j].stage = "queued"
    BY <1>1, StatusIsStage DEF StartJob
  <2>2. CASE Exhausted(j) \/ job[j].task \notin Registered
    <3> DEFINE now == [job[j] EXCEPT !.stage = "complete"]
    <3>1. now \in Job /\ Continues(j, now) /\ now.success = FALSE
      BY <2>1, JobFacts DEF Job, Continues
    <3>2. /\ now.task = job[j].task /\ now.report = job[j].report /\ now.since = job[j].since
          /\ now.data = job[j].data
      BY <2>1, JobFacts DEF Job
    <3> HIDE DEF now
    <3> QED
      BY <1>1, <2>1, <2>2, <3>1, <3>2, JobFacts, WorkerMove DEF StartJob, now
  <2>3. CASE ~(Exhausted(j) \/ job[j].task \notin Registered)
    <3> DEFINE now == [job[j] EXCEPT !.stage = "in_progress", !.tries = @ + 1, !.alive = TRUE]
    <3>1. job[j].tries + 1 \in 0..MaxTries
      BY <2>1, <2>3, JobFacts, JobsAssumption DEF Exhausted
    <3>2. now \in Job /\ Continues(j, now) /\ now.success = FALSE
      BY <2>1, <3>1, JobFacts DEF Job, Continues
    <3>3. /\ now.task = job[j].task /\ now.report = job[j].report /\ now.since = job[j].since
          /\ now.data = job[j].data
      BY <2>1, JobFacts DEF Job
    <3> HIDE DEF now
    <3> QED
      BY <1>1, <2>1, <2>3, <3>2, <3>3, JobFacts, WorkerMove DEF StartJob, now
  <2> QED
    BY <2>2, <2>3
<1>2. CASE ReadReport(j)
  <2> DEFINE data == [report |-> Generates(job[j].task), version |-> version]
             now == [job[j] EXCEPT !.data = data]
  <2>1. job[j] # None /\ job[j].stage = "in_progress"
    BY <1>2, StatusIsStage DEF ReadReport, Works
  <2>2. data \in Data /\ data.report = job[j].report /\ data.version = version
    BY <2>1, JobFacts, TaskType DEF Data
  <2> HIDE DEF data
  <2>3. now \in Job /\ Continues(j, now) /\ now.success = FALSE
    BY <2>1, <2>2, JobFacts DEF Job, Continues
  <2>4. /\ now.task = job[j].task /\ now.report = job[j].report /\ now.since = job[j].since
        /\ now.data = data
    BY <2>1, JobFacts DEF Job
  <2> HIDE DEF now
  <2> QED
    BY <1>2, <2>1, <2>2, <2>3, <2>4, JobFacts, WorkerMove DEF ReadReport, now, data
<1>3. CASE FinishJob(j)
  <2> DEFINE now == [job[j] EXCEPT !.stage = "complete", !.success = TRUE]
  <2>1. job[j] # None /\ job[j].stage = "in_progress" /\ job[j].data # None
    BY <1>3, StatusIsStage DEF FinishJob, Works
  <2>2. now \in Job /\ Continues(j, now) /\ now.stage = "complete"
    BY <2>1, JobFacts DEF Job, Continues
  <2>3. /\ now.task = job[j].task /\ now.report = job[j].report /\ now.since = job[j].since
        /\ now.data = job[j].data
    BY <2>1, JobFacts DEF Job
  <2> HIDE DEF now
  <2> QED
    BY <1>3, <2>1, <2>2, <2>3, JobFacts, WorkerMove DEF FinishJob, now
<1>4. CASE FailJob(j)
  <2> DEFINE now == [job[j] EXCEPT !.stage = "complete"]
  <2>1. job[j] # None /\ job[j].stage = "in_progress"
    BY <1>4, StatusIsStage DEF FailJob, Works
  <2>2. now \in Job /\ Continues(j, now) /\ now.success = FALSE
    BY <2>1, JobFacts DEF Job, Continues
  <2>3. /\ now.task = job[j].task /\ now.report = job[j].report /\ now.since = job[j].since
        /\ now.data = job[j].data
    BY <2>1, JobFacts DEF Job
  <2> HIDE DEF now
  <2> QED
    BY <1>4, <2>1, <2>2, <2>3, JobFacts, WorkerMove DEF FailJob, now
<1> QED
  BY <1>1, <1>2, <1>3, <1>4 DEF Work

\* Death of a worker, its key running out, the end of a result's life.
LEMMA PassingStep ==
  ASSUME ReportJobsInv, NEW j \in Jobs, KillWorker(j) \/ Requeue(j) \/ ExpireResult(j)
  PROVE  ReportJobsInv'
<1>1. CASE KillWorker(j)
  <2> DEFINE now == [job[j] EXCEPT !.alive = FALSE, !.data = None]
  <2>1. job[j] # None /\ job[j].stage = "in_progress"
    BY <1>1, StatusIsStage DEF KillWorker, Works
  <2>2. now \in Job /\ Continues(j, now) /\ now.success = FALSE /\ now.data = None
    BY <2>1, JobFacts DEF Job, Continues
  <2>3. now.task = job[j].task /\ now.report = job[j].report /\ now.since = job[j].since
    BY <2>1, JobFacts DEF Job
  <2> HIDE DEF now
  <2> QED
    BY <1>1, <2>1, <2>2, <2>3, JobFacts, WorkerMove DEF KillWorker, now
<1>2. CASE Requeue(j)
  <2> DEFINE now == [job[j] EXCEPT !.stage = "queued"]
  <2>1. job[j] # None /\ job[j].stage = "in_progress"
    BY <1>2, StatusIsStage DEF Requeue
  <2>2. now \in Job /\ Continues(j, now) /\ now.success = FALSE
    BY <2>1, JobFacts DEF Job, Continues
  <2>3. /\ now.task = job[j].task /\ now.report = job[j].report /\ now.since = job[j].since
        /\ now.data = job[j].data
    BY <2>1, JobFacts DEF Job
  <2> HIDE DEF now
  <2> QED
    BY <1>2, <2>1, <2>2, <2>3, JobFacts, WorkerMove DEF Requeue, now
<1>3. CASE ExpireResult(j)
  <2> DEFINE now == [job[j] EXCEPT !.stage = "expired"]
  <2>1. job[j] # None /\ job[j].stage = "complete"
    BY <1>3, StatusIsStage DEF ExpireResult, HasResult
  <2>2. now \in Job /\ Continues(j, now) /\ now.stage = "expired"
    BY <2>1, JobFacts DEF Job, Continues
  <2>3. /\ now.task = job[j].task /\ now.report = job[j].report /\ now.since = job[j].since
        /\ now.data = job[j].data /\ now.success = job[j].success
    BY <2>1, JobFacts DEF Job
  <2> HIDE DEF now
  <2> QED
    BY <1>3, <2>1, <2>2, <2>3, JobFacts, WorkerMove DEF ExpireResult, now
<1> QED
  BY <1>1, <1>2, <1>3

LEMMA ChangeStep ==
  ASSUME ReportJobsInv, ChangeData
  PROVE  ReportJobsInv'
<1>1. /\ version \in 0..MaxVersion /\ version' = version + 1 /\ version' \in 0..MaxVersion
      /\ UNCHANGED <<job, call, pc, answer, file, seen>>
  BY JobsAssumption DEF ReportJobsInv, JobsTypeOK, ChangeData
<1>2. JobsTypeOK'
  BY <1>1 DEF ReportJobsInv, JobsTypeOK
<1>3. ASSUME NEW j \in Jobs
      PROVE  JobSound(j)'
  <2> SUFFICES ASSUME job[j] # None
               PROVE  JobSound(j)'
    BY <1>1 DEF JobSound
  <2> QED
    BY <1>1, JobFacts DEF JobSound
<1>4. ASSUME NEW r \in Requests
      PROVE  RequestSound(r)'
  BY <1>1 DEF ReportJobsInv, RequestSound, AskingSound, AnsweredSound, WasTrue, StateOf,
    JobStatus, HasResult
<1> QED
  BY <1>2, <1>3, <1>4 DEF ReportJobsInv

----------------------------------------------------------------------------
(* The routes. *)

\* While the jobs rest, a request that does not move stays sound.
LEMMA RestingRequest ==
  ASSUME NEW r, RequestSound(r), UNCHANGED job,
         pc'[r] = pc[r], call'[r] = call[r], answer'[r] = answer[r], file'[r] = file[r],
         seen'[r] = seen[r]
  PROVE  RequestSound(r)'
BY DEF RequestSound, AskingSound, AnsweredSound, WasTrue, StateOf, JobStatus, HasResult

\* A handler that is asking: its job, and what it has seen.
LEMMA AskingFacts ==
  ASSUME ReportJobsInv, NEW r \in Requests, pc[r] \in Asking
  PROVE  /\ call[r].job \in Jobs /\ job[call[r].job] \in Job \cup {None}
         /\ StateOf(call[r].job) \in seen[r]
         /\ answer[r] = None
         /\ pc[r] # "status" => /\ job[call[r].job] \in Job
                                /\ job[call[r].job].stage \in {"complete", "expired"}
         /\ pc[r] \in {"fetch", "content"} => job[call[r].job].success
<1>1. AskingSound(r) /\ AnsweredSound(r)
  BY DEF ReportJobsInv, RequestSound
<1>2. call[r].job \in Jobs
  BY <1>1 DEF AskingSound
<1> QED
  BY <1>1, <1>2 DEF AskingSound, AnsweredSound, ReportJobsInv, JobsTypeOK, Asking

LEMMA EnqueueStep ==
  ASSUME ReportJobsInv, NEW r \in Requests, NEW report \in Reports, NEW j \in Jobs,
         Enqueue(r, report, j)
  PROVE  ReportJobsInv'
<1>0. /\ pc \in [Requests -> {"idle", "status", "info", "fetch", "content", "done"}]
      /\ call \in [Requests -> Call \cup {None}]
      /\ answer \in [Requests -> Answers \cup {None}]
      /\ version \in 0..MaxVersion
  BY DEF ReportJobsInv, JobsTypeOK
<1>1. /\ call' = [call EXCEPT ![r] = [kind |-> "enqueue", report |-> report]]
      /\ pc' = [pc EXCEPT ![r] = "done"]
      /\ \E a \in {"accepted", "conflict"} : answer' = [answer EXCEPT ![r] = a]
      /\ {"accepted", "conflict"} \subseteq Answers
      /\ UNCHANGED <<version, file>>
  BY DEF Enqueue, Reply, Goto, Answers
<1>2. [kind |-> "enqueue", report |-> report] \in Call
  BY DEF Call
<1>3. RequestSound(r)'
  BY <1>0, <1>1 DEF RequestSound, AskingSound, AnsweredSound, WasTrue, Asking
<1>4. ASSUME NEW q \in Requests, q # r
      PROVE  /\ pc'[q] = pc[q] /\ call'[q] = call[q] /\ answer'[q] = answer[q]
             /\ file'[q] = file[q]
  BY <1>0, <1>1, <1>4
<1>5. CASE UNCHANGED <<job, seen>>
  <2>1. JobsTypeOK'
    BY <1>0, <1>1, <1>2, <1>5 DEF ReportJobsInv, JobsTypeOK
  <2>2. \A i \in Jobs : JobSound(i)'
    BY <1>1, <1>5 DEF ReportJobsInv, JobSound
  <2>3. \A q \in Requests : q # r => RequestSound(q)'
    BY <1>4, <1>5, RestingRequest DEF ReportJobsInv
  <2> QED
    BY <1>3, <2>1, <2>2, <2>3 DEF ReportJobsInv
<1>6. CASE job[j] = None
  <2> DEFINE now == [report |-> report, task |-> TaskName(report), since |-> version,
                     stage |-> "queued", tries |-> 0, alive |-> FALSE, data |-> None,
                     success |-> FALSE]
  <2>1. now \in Job /\ Continues(j, now)
    BY <1>0, <1>6, TaskType, JobsAssumption DEF Job, Continues
  <2>2. /\ now.task = TaskName(now.report) /\ now.since = version
        /\ now.data = None /\ now.success = FALSE
    OBVIOUS
  <2>3. Moves(j, now)
    BY <1>6 DEF Enqueue
  <2> HIDE DEF now
  <2>4. JobsTypeOK'
    BY <1>0, <1>1, <1>2, <2>1, <2>3, MovesType DEF ReportJobsInv, JobsTypeOK
  <2>5. \A i \in Jobs : JobSound(i)'
    BY <1>0, <1>1, <2>1, <2>2, <2>3, MovesJobs
  <2>6. \A q \in Requests : q # r => RequestSound(q)'
    BY <1>4, <2>1, <2>3, MovesRequest
  <2> QED
    BY <1>3, <2>4, <2>5, <2>6 DEF ReportJobsInv
<1> QED
  BY <1>5, <1>6 DEF Enqueue

LEMMA PollStep ==
  ASSUME ReportJobsInv, NEW r \in Requests, NEW kind \in {"status", "download"},
         NEW j \in Jobs, Poll(r, kind, j)
  PROVE  ReportJobsInv'
<1>1. /\ call' = [call EXCEPT ![r] = [kind |-> kind, job |-> j]]
      /\ seen' = [seen EXCEPT ![r] = {StateOf(j)}]
      /\ pc' = [pc EXCEPT ![r] = "status"] /\ pc[r] = "idle"
      /\ UNCHANGED <<version, job, answer, file>>
  BY DEF Poll, Goto
<1>2. [kind |-> kind, job |-> j] \in Call
  BY DEF Call
<1>3. StateOf(j) \in ReportJobState
  BY StateType DEF ReportJobsInv, JobsTypeOK
<1>4. JobsTypeOK'
  BY <1>1, <1>2, <1>3 DEF ReportJobsInv, JobsTypeOK
<1>5. \A i \in Jobs : JobSound(i)'
  BY <1>1 DEF ReportJobsInv, JobSound
<1>6. RequestSound(r)'
  <2>1. /\ pc'[r] = "status" /\ call'[r] = [kind |-> kind, job |-> j]
        /\ seen'[r] = {StateOf(j)}
    BY <1>1 DEF ReportJobsInv, JobsTypeOK
  <2>2. AnsweredSound(r)
    BY DEF ReportJobsInv, RequestSound
  <2>3. answer'[r] = None
    BY <1>1, <2>2 DEF AnsweredSound
  <2>4. StateOf(j)' = StateOf(j)
    BY <1>1 DEF StateOf, JobStatus, HasResult
  <2>5. AskingSound(r)'
    BY <2>1, <2>4 DEF AskingSound
  <2> QED
    BY <2>1, <2>3, <2>5, NoneIsNoFile DEF RequestSound, AnsweredSound, WasTrue
<1>7. ASSUME NEW q \in Requests, q # r
      PROVE  RequestSound(q)'
  <2>1. pc'[q] = pc[q] /\ call'[q] = call[q] /\ seen'[q] = seen[q]
    BY <1>1, <1>7 DEF ReportJobsInv, JobsTypeOK
  <2> QED
    BY <1>1, <2>1, RestingRequest DEF ReportJobsInv
<1> QED
  BY <1>4, <1>5, <1>6, <1>7 DEF ReportJobsInv

\* The frame of a handler's step.
LEMMA HandlerStep ==
  ASSUME ReportJobsInv, NEW r \in Requests,
         NEW step \in {"idle", "status", "info", "fetch", "content", "done"},
         NEW a \in Answers \cup {None},
         NEW f \in Data \cup {None},
         pc' = [pc EXCEPT ![r] = step], answer' = [answer EXCEPT ![r] = a],
         file' = [file EXCEPT ![r] = f], UNCHANGED <<version, job, call, seen>>,
         RequestSound(r)'
  PROVE  ReportJobsInv'
<1>1. JobsTypeOK'
  BY DEF ReportJobsInv, JobsTypeOK
<1>2. \A i \in Jobs : JobSound(i)'
  BY DEF ReportJobsInv, JobSound
<1>3. ASSUME NEW q \in Requests, q # r
      PROVE  RequestSound(q)'
  <2>1. pc'[q] = pc[q] /\ answer'[q] = answer[q] /\ file'[q] = file[q]
    BY <1>3 DEF ReportJobsInv, JobsTypeOK
  <2> QED
    BY <2>1, RestingRequest DEF ReportJobsInv
<1> QED
  BY <1>1, <1>2, <1>3 DEF ReportJobsInv

\* What a state leads to: an answer, or for a complete job's file another
\* read.
LEMMA ConcludeStep ==
  ASSUME ReportJobsInv, NEW r \in Requests, pc[r] \in Asking, NEW state \in ReportJobState,
         Conclude(r, state), UNCHANGED <<version, job, call, file, seen>>,
         state # "failed" => state \in seen[r],
         state = "complete" => /\ job[call[r].job] \in Job
                               /\ job[call[r].job].stage \in {"complete", "expired"}
                               /\ job[call[r].job].success
  PROVE  ReportJobsInv'
<1>0. /\ file[r] \in Data \cup {None} /\ answer[r] = None
      /\ pc \in [Requests -> {"idle", "status", "info", "fetch", "content", "done"}]
      /\ answer \in [Requests -> Answers \cup {None}]
  BY AskingFacts DEF ReportJobsInv, JobsTypeOK
<1>1. file' = [file EXCEPT ![r] = file[r]]
  BY DEF ReportJobsInv, JobsTypeOK
<1>2. ASSUME NEW a \in ReportJobState \cup {"processing"},
             pc' = [pc EXCEPT ![r] = "done"], answer' = [answer EXCEPT ![r] = a],
             a = "processing" => state \in {"queued", "in_progress"},
             a # "processing" => a = state
      PROVE  ReportJobsInv'
  <2>1. pc'[r] = "done" /\ answer'[r] = a
    BY <1>0, <1>2
  <2>2. RequestSound(r)'
    BY <1>2, <2>1 DEF RequestSound, AskingSound, AnsweredSound, WasTrue, Asking, ReportJobState
  <2> QED
    BY <1>0, <1>1, <1>2, <2>2, HandlerStep, NoneIsNoFile
<1>3. ASSUME pc' = [pc EXCEPT ![r] = "fetch"], UNCHANGED answer, state = "complete"
      PROVE  ReportJobsInv'
  <2>1. pc'[r] = "fetch" /\ answer'[r] = None /\ answer' = [answer EXCEPT ![r] = None]
    BY <1>0, <1>3
  <2>2. StateOf(call[r].job)' = StateOf(call[r].job) /\ StateOf(call[r].job) \in seen[r]
    BY AskingFacts DEF StateOf, JobStatus, HasResult
  <2>3. AskingSound(r)'
    BY <1>3, <2>1, <2>2, AskingFacts, JobsAssumption DEF AskingSound
  <2>4. RequestSound(r)'
    BY <2>1, <2>3, NoneIsNoFile DEF RequestSound, AnsweredSound, WasTrue
  <2> QED
    BY <1>0, <1>1, <1>3, <2>1, <2>4, HandlerStep
<1> QED
  BY <1>2, <1>3 DEF Conclude, Reply, Goto, ReportJobState

LEMMA ServeStep ==
  ASSUME ReportJobsInv, NEW r \in Requests, Serve(r)
  PROVE  ReportJobsInv'
<1> DEFINE j == call[r].job
<1>0. /\ pc \in [Requests -> {"idle", "status", "info", "fetch", "content", "done"}]
      /\ answer \in [Requests -> Answers \cup {None}]
      /\ file \in [Requests -> Data \cup {None}]
  BY DEF ReportJobsInv, JobsTypeOK
<1>1. CASE ReadStatus(r)
  <2>1. pc[r] = "status" /\ pc[r] \in Asking
    BY <1>1 DEF ReadStatus, Asking
  <2>2. CASE JobStatus(j) = "complete"
    <3>1. /\ pc' = [pc EXCEPT ![r] = "info"] /\ UNCHANGED <<version, job, call, seen>>
          /\ answer' = [answer EXCEPT ![r] = answer[r]] /\ file' = [file EXCEPT ![r] = file[r]]
      BY <1>0, <1>1, <2>2 DEF ReadStatus, Goto
    <3>2. job[j] # None /\ job[j].stage = "complete"
      BY <2>2 DEF JobStatus
    <3>3. StateOf(j)' = StateOf(j)
      BY <3>1 DEF StateOf, JobStatus, HasResult
    <3>4. pc'[r] = "info" /\ answer'[r] = None
      BY <1>0, <2>1, <3>1, AskingFacts
    <3>5. RequestSound(r)'
      BY <2>1, <3>1, <3>2, <3>3, <3>4, AskingFacts, NoneIsNoFile
      DEF RequestSound, AskingSound, AnsweredSound, WasTrue
    <3> QED
      BY <1>0, <3>1, <3>5, HandlerStep
  <2>3. CASE JobStatus(j) # "complete"
    <3> DEFINE state == MapJobStatus(JobStatus(j), FALSE)
    <3>1. state = StateOf(j) /\ state \in ReportJobState \ {"complete"}
      BY <2>1, <2>3, AskingFacts
      DEF StateOf, MapJobStatus, HasResult, JobStatus, Job, ReportJobState
    <3>2. Conclude(r, state) /\ UNCHANGED <<version, job, call, file, seen>>
      BY <1>1, <2>3 DEF ReadStatus
    <3> HIDE DEF state
    <3> QED
      BY <2>1, <3>1, <3>2, AskingFacts, ConcludeStep
  <2> QED
    BY <2>2, <2>3
<1>2. CASE ReadInfo(r)
  <2> DEFINE state == MapJobStatus("complete", HasResult(j) /\ job[j].success)
  <2>1. pc[r] = "info" /\ pc[r] \in Asking
    BY <1>2 DEF ReadInfo, Asking
  <2>2. state \in {"complete", "failed"}
    BY DEF MapJobStatus
  <2>3. state = "complete" => job[j].stage = "complete" /\ job[j].success
    BY DEF MapJobStatus, HasResult, JobStatus
  <2>4. state = "complete" => state \in seen[r]
    BY <2>1, <2>3, AskingFacts, StateMeaning
  <2>5. Conclude(r, state) /\ UNCHANGED <<version, job, call, file, seen>>
    BY <1>2 DEF ReadInfo
  <2> HIDE DEF state
  <2>6. state \in ReportJobState
    BY <2>2 DEF ReportJobState
  <2> QED
    BY <2>1, <2>2, <2>3, <2>4, <2>5, <2>6, AskingFacts, ConcludeStep
<1>3. ASSUME pc[r] \in {"fetch", "content"}, HasResult(j) = FALSE
      PROVE  "not_found" \in seen[r]
  <2>1. job[j] \in Job /\ job[j].stage = "expired"
    BY <1>3, AskingFacts, JobsAssumption DEF HasResult, JobStatus, Asking
  <2> QED
    BY <1>3, <2>1, AskingFacts, StateMeaning DEF Asking
<1>4. ASSUME pc' = [pc EXCEPT ![r] = "done"], answer' = [answer EXCEPT ![r] = "not_found"],
             UNCHANGED <<version, job, call, file, seen>>, "not_found" \in seen[r]
      PROVE  ReportJobsInv'
  <2>1. pc'[r] = "done" /\ answer'[r] = "not_found" /\ file' = [file EXCEPT ![r] = file[r]]
    BY <1>0, <1>4
  <2>2. RequestSound(r)'
    BY <1>4, <2>1 DEF RequestSound, AskingSound, AnsweredSound, WasTrue, Asking
  <2> QED
    BY <1>0, <1>4, <2>1, <2>2, HandlerStep, NoneIsNoFile DEF ReportJobState
<1>5. CASE FetchStatus(r)
  <2>1. CASE HasResult(j)
    <3>1. /\ pc[r] = "fetch" /\ pc[r] \in Asking /\ pc' = [pc EXCEPT ![r] = "content"]
          /\ UNCHANGED <<version, job, call, seen>>
          /\ answer' = [answer EXCEPT ![r] = answer[r]] /\ file' = [file EXCEPT ![r] = file[r]]
      BY <1>0, <1>5, <2>1 DEF FetchStatus, Goto, Asking
    <3>2. StateOf(j)' = StateOf(j)
      BY <3>1 DEF StateOf, JobStatus, HasResult
    <3>3. pc'[r] = "content" /\ answer'[r] = None
      BY <1>0, <3>1, AskingFacts
    <3>4. job[j] # None
      BY <2>1 DEF HasResult, JobStatus
    <3>5. RequestSound(r)'
      BY <3>1, <3>2, <3>3, <3>4, AskingFacts, NoneIsNoFile
      DEF RequestSound, AskingSound, AnsweredSound, WasTrue
    <3> QED
      BY <1>0, <3>1, <3>5, HandlerStep
  <2>2. CASE ~HasResult(j)
    <3>1. HasResult(j) = FALSE /\ pc[r] = "fetch"
      BY <1>5, <2>2 DEF HasResult, FetchStatus
    <3> QED
      BY <1>3, <1>4, <1>5, <2>2, <3>1 DEF FetchStatus, Reply, Goto
  <2> QED
    BY <2>1, <2>2
<1>6. CASE FetchResult(r)
  <2>0. pc[r] = "content" /\ pc[r] \in Asking
    BY <1>6 DEF FetchResult, Asking
  <2>1. CASE HasResult(j) /\ job[j].success
    <3>1. /\ pc' = [pc EXCEPT ![r] = "done"] /\ answer' = [answer EXCEPT ![r] = "file"]
          /\ file' = [file EXCEPT ![r] = job[j].data] /\ UNCHANGED <<version, job, call, seen>>
      BY <1>6, <2>1 DEF FetchResult, Reply, Goto
    <3>2. job[j] # None /\ job[j].stage = "complete"
      BY <2>1 DEF HasResult, JobStatus
    <3>3. "complete" \in seen[r]
      BY <2>0, <2>1, <3>2, AskingFacts, StateMeaning
    <3>4. j \in Jobs /\ job[j].data \in Data /\ job[j].data.report = job[j].report
          /\ job[j].data.version >= job[j].since
      BY <2>0, <2>1, <3>2, AskingFacts, JobFacts DEF Job
    <3>5. pc'[r] = "done" /\ answer'[r] = "file" /\ file'[r] = job[j].data
      BY <1>0, <3>1
    <3>6. RequestSound(r)'
      BY <3>1, <3>2, <3>3, <3>4, <3>5
      DEF RequestSound, AskingSound, AnsweredSound, WasTrue, Asking
    <3> QED
      BY <3>1, <3>4, <3>6, HandlerStep, NoneIsNoFile
  <2>2. CASE ~(HasResult(j) /\ job[j].success)
    <3>1. HasResult(j) = FALSE
      BY <2>0, <2>2, AskingFacts DEF HasResult
    <3> QED
      BY <1>3, <1>4, <1>6, <2>0, <2>2, <3>1 DEF FetchResult, Reply, Goto
  <2> QED
    BY <2>1, <2>2
<1> QED
  BY <1>1, <1>2, <1>5, <1>6 DEF Serve

----------------------------------------------------------------------------
(* The theorems. *)

LEMMA InvInit == Init => ReportJobsInv
BY JobsAssumption, NoneIsNoFile
DEF Init, ReportJobsInv, JobsTypeOK, JobSound, RequestSound, AskingSound, AnsweredSound,
  WasTrue, Asking

LEMMA InvStep == ReportJobsInv /\ [Next]_vars => ReportJobsInv'
<1> SUFFICES ASSUME ReportJobsInv, [Next]_vars
             PROVE  ReportJobsInv'
  OBVIOUS
<1>1. CASE UNCHANGED vars
  BY <1>1
  DEF vars, ReportJobsInv, JobsTypeOK, JobSound, RequestSound, AskingSound, AnsweredSound,
    WasTrue, StateOf, JobStatus, HasResult
<1> QED
  BY <1>1, ChangeStep, WorkStep, PassingStep, EnqueueStep, PollStep, ServeStep
  DEF Next, Finished

\* The inductive invariant holds.
THEOREM ReportJobsInvariant == Spec => []ReportJobsInv
BY InvInit, InvStep, PTL DEF Spec

\* Every variable has its type; no job is tried more often than MaxTries.
THEOREM JobsTypeCorrect == Spec => []JobsTypeOK
BY ReportJobsInvariant, PTL DEF ReportJobsInv

\* Whatever happens to the job between a handler's reads, its answer (but
\* for a failure) was true while it was being made.
THEOREM AnswersAreTrue == Spec => []AnswersWereTrue
<1>1. ReportJobsInv => AnswersWereTrue
  BY DEF ReportJobsInv, RequestSound, AnswersWereTrue
<1> QED
  BY <1>1, ReportJobsInvariant, PTL

\* A file is of the kind asked for, on data not older than the call.
THEOREM FilesAreFresh == Spec => []FileIsTheReportAskedFor
<1>1. ReportJobsInv => FileIsTheReportAskedFor
  BY DEF ReportJobsInv, RequestSound, AnsweredSound, FileIsTheReportAskedFor
<1> QED
  BY <1>1, ReportJobsInvariant, PTL
=============================================================================
