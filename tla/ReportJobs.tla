----------------------------- MODULE ReportJobs -----------------------------
(***************************************************************************)
(* Report exports as background jobs: the routes that enqueue a job, poll  *)
(* it and download its file (routes/reports.py, services/report_jobs.py),  *)
(* the ARQ worker that runs it (worker/tasks.py, worker/settings.py) and,  *)
(* external, what ARQ keeps of a job in Redis: its queue entry, the key    *)
(* that says it is in progress, and a result that expires.                 *)
(*                                                                         *)
(* A request reads Redis several times, and the job moves on in between.   *)
(***************************************************************************)
EXTENDS Naturals, FiniteSets

CONSTANTS
  None,        \* no job, no result, no answer yet
  Jobs,        \* the ids enqueue_job may draw (uuid4)
  Requests,    \* the HTTP requests
  MaxTries,    \* how often ARQ starts a job before it gives up
  MaxVersion   \* bound: how often the reported data changes

Reports == {"inventory_valuation", "movements_summary"}

ReportJobState == {"queued", "in_progress", "complete", "failed", "not_found"}

Answers == ReportJobState \cup {"processing", "file", "accepted", "conflict"}

Call ==
  [kind : {"enqueue"}, report : Reports] \cup [kind : {"status", "download"}, job : Jobs]

\* What a report was generated from.
Data == [report : Reports, version : 0..MaxVersion]

\* What ARQ and the worker hold of a job.
Job ==
  [report : Reports,
   task : {"generate_inventory_valuation_export", "generate_movements_summary_export"},
   since : 0..MaxVersion, stage : {"queued", "in_progress", "complete", "expired"},
   tries : 0..MaxTries, alive : BOOLEAN, data : Data \cup {None}, success : BOOLEAN]

ASSUME JobsAssumption ==
  /\ MaxTries \in Nat \ {0} /\ MaxVersion \in Nat
  /\ None \notin Job /\ None \notin Data /\ None \notin Answers

VARIABLES
  version,   \* how many times the data that reports read has changed
  job,       \* what ARQ holds of each job, None before it is enqueued
  call,      \* the call of each request, None before it arrives
  pc,        \* the next read of its handler
  answer,    \* what it was answered
  file,      \* the content it downloaded
  seen       \* history: the states its job was in while it ran

vars == <<version, job, call, pc, answer, file, seen>>

----------------------------------------------------------------------------
(* Jobs. *)

\* Fault: both routes enqueue the same function.
OneTaskName(report) == "generate_inventory_valuation_export"

\* The function name each enqueue_* passes, and the report it generates.
TaskName(report) ==
  IF report = "inventory_valuation" THEN "generate_inventory_valuation_export"
                                    ELSE "generate_movements_summary_export"

Generates(task) ==
  CASE task = "generate_inventory_valuation_export" -> "inventory_valuation"
    [] task = "generate_movements_summary_export"   -> "movements_summary"

\* WorkerSettings.functions.
Registered == {TaskName("inventory_valuation"), TaskName("movements_summary")}

\* Job.status: one transaction over the result, in-progress and queue keys.
JobStatus(j) ==
  IF job[j] = None \/ job[j].stage = "expired" THEN "not_found" ELSE job[j].stage

HasResult(j) == JobStatus(j) = "complete"

MapJobStatus(status, success) ==
  CASE status \in {"deferred", "queued"} -> "queued"
    [] status = "in_progress"            -> "in_progress"
    [] status = "not_found"              -> "not_found"
    [] status = "complete"               -> IF success THEN "complete" ELSE "failed"

\* The state a client would be told of job j if nothing moved meanwhile.
StateOf(j) == MapJobStatus(JobStatus(j), HasResult(j) /\ job[j].success)

\* The steps of a handler that asks for a job.
Asking == {"status", "info", "fetch", "content"}

\* Every change of a job is seen by the requests about it.
Moves(j, now) ==
  /\ job' = [job EXCEPT ![j] = now]
  /\ seen' = [r \in Requests |->
       IF pc[r] \in Asking /\ call[r].job = j
       THEN seen[r] \cup {StateOf(j)'} ELSE seen[r]]

----------------------------------------------------------------------------
(* The worker. *)

\* Fault: tries are not limited.
NeverExhausted(j) == FALSE

Exhausted(j) == job[j].tries = MaxTries

\* A try begins; one too many is recorded as a failure.
StartJob(j) ==
  /\ JobStatus(j) = "queued"
  /\ IF Exhausted(j) \/ job[j].task \notin Registered
     THEN Moves(j, [job[j] EXCEPT !.stage = "complete"])
     ELSE Moves(j, [job[j] EXCEPT !.stage = "in_progress", !.tries = @ + 1, !.alive = TRUE])
  /\ UNCHANGED <<version, call, pc, answer, file>>

Works(j) == JobStatus(j) = "in_progress" /\ job[j].alive

\* The task's one SELECT, in a session of its own.
ReadReport(j) ==
  /\ Works(j)
  /\ job[j].data = None
  /\ Moves(j, [job[j] EXCEPT !.data = [report |-> Generates(job[j].task), version |-> version]])
  /\ UNCHANGED <<version, call, pc, answer, file>>

\* The workbook is built and returned, and ARQ stores it.
FinishJob(j) ==
  /\ Works(j)
  /\ job[j].data # None
  /\ Moves(j, [job[j] EXCEPT !.stage = "complete", !.success = TRUE])
  /\ UNCHANGED <<version, call, pc, answer, file>>

\* The task raises or runs out of time.
FailJob(j) ==
  /\ Works(j)
  /\ Moves(j, [job[j] EXCEPT !.stage = "complete"])
  /\ UNCHANGED <<version, call, pc, answer, file>>

\* The worker dies, and the job with it.
KillWorker(j) ==
  /\ Works(j)
  /\ Moves(j, [job[j] EXCEPT !.alive = FALSE, !.data = None])
  /\ UNCHANGED <<version, call, pc, answer, file>>

\* Fault: the in-progress key has no TTL.
NeverRequeue(j) == FALSE /\ UNCHANGED vars

\* The in-progress key of a dead worker runs out: another may start the job.
Requeue(j) ==
  /\ JobStatus(j) = "in_progress"
  /\ ~job[j].alive
  /\ Moves(j, [job[j] EXCEPT !.stage = "queued"])
  /\ UNCHANGED <<version, call, pc, answer, file>>

\* keep_result seconds later.
ExpireResult(j) ==
  /\ HasResult(j)
  /\ Moves(j, [job[j] EXCEPT !.stage = "expired"])
  /\ UNCHANGED <<version, call, pc, answer, file>>

\* A movement or a PATCH commits.
ChangeData ==
  /\ version < MaxVersion
  /\ version' = version + 1
  /\ UNCHANGED <<job, call, pc, answer, file, seen>>

----------------------------------------------------------------------------
(* The routes. *)

Goto(r, step) == pc' = [pc EXCEPT ![r] = step]

Reply(r, what) ==
  /\ Goto(r, "done")
  /\ answer' = [answer EXCEPT ![r] = what]

\* enqueue_job, which returns None for an id in use.
Enqueue(r, report, j) ==
  /\ pc[r] = "idle"
  /\ call' = [call EXCEPT ![r] = [kind |-> "enqueue", report |-> report]]
  /\ \/ /\ job[j] = None
        /\ Moves(j, [report |-> report, task |-> TaskName(report), since |-> version,
                     stage |-> "queued", tries |-> 0, alive |-> FALSE, data |-> None,
                     success |-> FALSE])
        /\ Reply(r, "accepted")
     \/ /\ job[j] # None
        /\ Reply(r, "conflict")
        /\ UNCHANGED <<job, seen>>
  /\ UNCHANGED <<version, file>>

Poll(r, kind, j) ==
  /\ pc[r] = "idle"
  /\ call' = [call EXCEPT ![r] = [kind |-> kind, job |-> j]]
  /\ seen' = [seen EXCEPT ![r] = {StateOf(j)}]
  /\ Goto(r, "status")
  /\ UNCHANGED <<version, job, answer, file>>

\* What report_job_status and report_job_download make of get_status.
Conclude(r, state) ==
  IF call[r].kind = "status"
  THEN Reply(r, state)
  ELSE CASE state \in {"not_found", "failed"}       -> Reply(r, state)
         [] state \in {"queued", "in_progress"}     -> Reply(r, "processing")
         [] state = "complete"                      -> Goto(r, "fetch") /\ UNCHANGED answer

\* get_status: the status, and for a complete job a second read.
ReadStatus(r) ==
  /\ pc[r] = "status"
  /\ LET status == JobStatus(call[r].job)
     IN  IF status = "complete" THEN Goto(r, "info") /\ UNCHANGED answer
                                ELSE Conclude(r, MapJobStatus(status, FALSE))
  /\ UNCHANGED <<version, job, call, file, seen>>

\* Fault: complete is taken for success.
ReadNoInfo(r) ==
  /\ pc[r] = "info"
  /\ Conclude(r, "complete")
  /\ UNCHANGED <<version, job, call, file, seen>>

ReadInfo(r) ==
  LET j == call[r].job IN
  /\ pc[r] = "info"
  /\ Conclude(r, MapJobStatus("complete", HasResult(j) /\ job[j].success))
  /\ UNCHANGED <<version, job, call, file, seen>>

\* get_result: the status once more, then the result itself.
FetchStatus(r) ==
  /\ pc[r] = "fetch"
  /\ IF HasResult(call[r].job) THEN Goto(r, "content") /\ UNCHANGED answer
                               ELSE Reply(r, "not_found")
  /\ UNCHANGED <<version, job, call, file, seen>>

FetchResult(r) ==
  LET j == call[r].job IN
  /\ pc[r] = "content"
  /\ \/ /\ HasResult(j) /\ job[j].success
        /\ Reply(r, "file")
        /\ file' = [file EXCEPT ![r] = job[j].data]
     \/ /\ ~(HasResult(j) /\ job[j].success)
        /\ Reply(r, "not_found")
        /\ UNCHANGED file
  /\ UNCHANGED <<version, job, call, seen>>

----------------------------------------------------------------------------
Init ==
  /\ version = 0
  /\ job = [j \in Jobs |-> None]
  /\ call = [r \in Requests |-> None]
  /\ pc = [r \in Requests |-> "idle"]
  /\ answer = [r \in Requests |-> None]
  /\ file = [r \in Requests |-> None]
  /\ seen = [r \in Requests |-> {}]

Work(j) == StartJob(j) \/ ReadReport(j) \/ FinishJob(j) \/ FailJob(j)

Serve(r) == ReadStatus(r) \/ ReadInfo(r) \/ FetchStatus(r) \/ FetchResult(r)

\* Every request is answered, every job over, and the instance at its end.
Finished ==
  /\ \A r \in Requests : pc[r] = "done"
  /\ \A j \in Jobs : JobStatus(j) = "not_found"
  /\ UNCHANGED vars

Next ==
  \/ Finished
  \/ ChangeData
  \/ \E j \in Jobs : Work(j) \/ KillWorker(j) \/ Requeue(j) \/ ExpireResult(j)
  \/ \E r \in Requests, j \in Jobs :
       \/ \E report \in Reports : Enqueue(r, report, j)
       \/ \E kind \in {"status", "download"} : Poll(r, kind, j)
  \/ \E r \in Requests : Serve(r)

\* A worker is up and works, a dead one's key runs out, and a handler in
\* progress goes on.
Fairness ==
  /\ \A j \in Jobs : WF_vars(Work(j)) /\ WF_vars(Requeue(j))
  /\ \A r \in Requests : WF_vars(Serve(r))

Spec == Init /\ [][Next]_vars /\ Fairness

----------------------------------------------------------------------------
(* Properties. *)

\* The shape of every variable.  Code: ReportJobState and ARQ's job data.
JobsTypeOK ==
  /\ version \in 0..MaxVersion
  /\ job \in [Jobs -> Job \cup {None}]
  /\ call \in [Requests -> Call \cup {None}]
  /\ pc \in [Requests -> {"idle", "status", "info", "fetch", "content", "done"}]
  /\ answer \in [Requests -> Answers \cup {None}]
  /\ file \in [Requests -> Data \cup {None}]
  /\ seen \in [Requests -> SUBSET ReportJobState]

\* A handler reads a job up to four times while it runs, retries, finishes
\* and expires: still, what it answers was true at some moment while it was
\* answering.  Failure is the exception, stated apart.  Code: get_status,
\* get_result and the two routes.
WasTrue(r) ==
  answer[r] # None =>
    CASE answer[r] \in {"queued", "in_progress", "complete", "not_found"} -> answer[r] \in seen[r]
      [] answer[r] = "processing" -> seen[r] \cap {"queued", "in_progress"} # {}
      [] answer[r] = "file"       -> "complete" \in seen[r]
      [] OTHER                    -> TRUE

AnswersWereTrue == \A r \in Requests : WasTrue(r)

\* A job is reported as failed only if it failed.  Code: get_status, whose
\* result_info may find the result already expired.
FailureWasTrue ==
  \A r \in Requests : answer[r] = "failed" => "failed" \in seen[r]

\* A downloaded file is of the kind of report that was asked for, on data no
\* older than the request for it, whichever try produced it.  (The filters,
\* arguments of the job, are left out.)  Code: enqueue_* names the task, the
\* task reads when it runs, get_result rebuilds the file.
FileIsTheReportAskedFor ==
  \A r \in Requests : answer[r] = "file" =>
    LET j == call[r].job
    IN  file[r].report = job[j].report /\ file[r].version >= job[j].since

\* An accepted job ends, as a file or as a failure, however often workers
\* die under it.  Code: the worker settings, with ARQ's limit on tries.
EveryJobEnds ==
  \A j \in Jobs :
    (job[j] # None) ~> (job[j] # None /\ job[j].stage \in {"complete", "expired"})

----------------------------------------------------------------------------
(* The inductive invariant behind the safety properties. *)

\* A job has the data its report asks for, not older than its request.
JobSound(j) ==
  job[j] # None =>
    /\ job[j].task = TaskName(job[j].report)
    /\ job[j].since <= version
    /\ job[j].data # None =>
         job[j].data.report = job[j].report /\ job[j].data.version >= job[j].since
    /\ job[j].success => job[j].data # None /\ job[j].stage \in {"complete", "expired"}

\* A handler that asks has seen the job's present state; a job found over
\* stays over.
AskingSound(r) ==
  pc[r] \in Asking =>
    LET j == call[r].job IN
    /\ j \in Jobs
    /\ StateOf(j) \in seen[r]
    /\ pc[r] # "status" => job[j] # None /\ job[j].stage \in {"complete", "expired"}
    /\ pc[r] \in {"fetch", "content"} => job[j].success

\* Who has not finished has no answer; a file came from its job.
AnsweredSound(r) ==
  /\ pc[r] # "done" => answer[r] = None
  /\ answer[r] = "file" =>
       LET j == call[r].job IN
       /\ j \in Jobs /\ job[j] # None
       /\ file[r].report = job[j].report /\ file[r].version >= job[j].since

RequestSound(r) == AskingSound(r) /\ AnsweredSound(r) /\ WasTrue(r)

ReportJobsInv ==
  /\ JobsTypeOK
  /\ \A j \in Jobs : JobSound(j)
  /\ \A r \in Requests : RequestSound(r)
=============================================================================
