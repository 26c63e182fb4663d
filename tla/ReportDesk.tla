----------------------------- MODULE ReportDesk -----------------------------
(***************************************************************************)
(* analysis/equity_report: the list of report jobs (store.py), the worker  *)
(* that writes one report at a time (runner.py) and the requests that      *)
(* create, cancel and delete jobs.  A change of the list and its save in   *)
(* equity_reports.json are one step, because both happen under _LOCK and   *)
(* the file is read only when the process starts; a crash inside a save    *)
(* leaves no list.  A report's text is a file of its own.  The model that  *)
(* writes the text is outside: it may answer, pause, fail or break.        *)
(***************************************************************************)
EXTENDS Naturals, FiniteSets

CONSTANTS
    Tickers,
    Requests,      \* threads of the API
    MaxPasses,     \* MAX_CONTINUATIONS + 1
    ReportCases    \* configurations, see ReportCaseType

(* keep: MAX_JOBS; cap: reports a day may cost, 0 for no cap; shutdown: the
   server is stopped in an orderly way; the bounds: jobs created, cancels and
   deletes, crashes. *)
ReportCaseType == [keep : Nat, cap : Nat, shutdown : BOOLEAN, created : Nat, withdrawn : Nat, crashes : Nat]

ASSUME MaxPassesAssumption == MaxPasses \in Nat \ {0}
ASSUME ReportCasesAssumption == ReportCases \subseteq ReportCaseType /\ \A k \in ReportCases : k.keep > 0

VARIABLES
    reports,       \* the case of this behaviour
    jobs,       \* _JOBS: ticker and status of a job; later jobs have higher numbers
    index,      \* equity_reports.json
    bodies,     \* the jobs whose report is a complete file
    worker,     \* where the runner thread is, and in which job
    wake,       \* _wake_event
    stopping,   \* _stop_event
    request,    \* where each request is
    counts      \* jobs created, cancels and deletes, crashes

reportVars == <<reports, jobs, index, bodies, worker, wake, stopping, request, counts>>
InProgress == {"queued", "running"}
NoJobs == [j \in {} |-> <<>>]
Job == [ticker : Tickers, status : InProgress \cup {"done", "failed", "cancelled"}]
Stages == {"look", "start", "check", "stream", "refused", "broken", "text", "keep", "write", "record"}
AtPick == [at |-> "pick", job |-> 0, pass |-> 0]
NoRequest == [at |-> "idle", ticker |-> CHOOSE t \in Tickers : TRUE, job |-> 0]

WithStatus(s) == {j \in DOMAIN jobs : jobs[j].status = s}
Cancelled(j) == j \in WithStatus("cancelled")
Restricted(f, S) == [j \in S |-> f[j]]
Keep(f) == LET Newer(j) == {i \in DOMAIN f : i > j} IN {j \in DOMAIN f : Cardinality(Newer(j)) < reports.keep}

ReportInit ==
    /\ reports \in ReportCases
    /\ jobs = NoJobs /\ index = NoJobs /\ bodies = {}
    /\ worker = AtPick /\ wake = FALSE /\ stopping = FALSE
    /\ request = [r \in Requests |-> NoRequest]
    /\ counts = [created |-> 0, withdrawn |-> 0, crashes |-> 0]

Save(f) == jobs' = f /\ index' = f

(* Mutant of SetStatus: a job that was deleted comes back with its status. *)
SetStatusUpserts(j, s) == Save([i \in DOMAIN jobs \cup {j} |->
    IF i # j THEN jobs[i] ELSE IF j \in DOMAIN jobs THEN [jobs[j] EXCEPT !.status = s] ELSE [status |-> s]])

(* _patch_locked: nothing for a job that is no longer listed. *)
SetStatus(j, s) == Save(IF j \in DOMAIN jobs THEN [jobs EXCEPT ![j].status = s] ELSE jobs)

Goes(stage) == worker' = [worker EXCEPT !.at = stage]
WorkerOnly == UNCHANGED <<reports, jobs, index, bodies, wake, stopping, request, counts>>

(* The oldest queued job, or sleep. *)
PickJob ==
    /\ worker.at = "pick" /\ ~stopping
    /\ IF WithStatus("queued") = {} THEN Goes("wait")
       ELSE \E j \in WithStatus("queued") :
              /\ \A i \in WithStatus("queued") : j <= i
              /\ worker' = [AtPick EXCEPT !.at = "look", !.job = j]
    /\ WorkerOnly

LoopEnds == worker.at = "pick" /\ stopping /\ Goes("ended") /\ WorkerOnly

WakeUp == worker.at = "wait" /\ wake /\ Goes("clear") /\ WorkerOnly

(* The wait also ends after five seconds, of which no fairness is asked. *)
WaitTimesOut == worker.at = "wait" /\ ~wake /\ Goes("clear") /\ WorkerOnly

ClearWake ==
    /\ worker.at = "clear" /\ worker' = AtPick /\ wake' = FALSE
    /\ UNCHANGED <<reports, jobs, index, bodies, stopping, request, counts>>

LookCancelled ==
    /\ worker.at = "look"
    /\ worker' = IF Cancelled(worker.job) THEN AtPick ELSE [worker EXCEPT !.at = "start"]
    /\ WorkerOnly

(* Whatever the job has become since, it is running now. *)
MarkRunning ==
    /\ worker.at = "start" /\ Goes("check")
    /\ SetStatus(worker.job, "running")
    /\ UNCHANGED <<reports, bodies, wake, stopping, request, counts>>

CheckCancel ==
    /\ worker.at = "check"
    /\ worker' = IF Cancelled(worker.job) \/ stopping THEN [worker EXCEPT !.at = "refused"]
                 ELSE [worker EXCEPT !.at = "stream", !.pass = @ + 1]
    /\ WorkerOnly

(* One pass of the model: a paused turn asks again, until the passes are
   used up. *)
ModelAnswers ==
    /\ worker.at = "stream"
    /\ \/ worker.pass < MaxPasses /\ Goes("check")
       \/ \E stage \in {"refused", "broken", "text"} : Goes(stage)
    /\ WorkerOnly

(* A ReportError: a cancelled job stays as it is. *)
ReportRefused ==
    /\ worker.at = "refused"
    /\ worker' = IF Cancelled(worker.job) THEN AtPick ELSE [worker EXCEPT !.at = "broken"]
    /\ WorkerOnly

(* Any other exception, or a ReportError of a job that was not cancelled. *)
MarkFailed ==
    /\ worker.at = "broken" /\ worker' = AtPick
    /\ SetStatus(worker.job, "failed")
    /\ UNCHANGED <<reports, bodies, wake, stopping, request, counts>>

LookAtText == worker.at = "text" /\ Goes(IF Cancelled(worker.job) THEN "keep" ELSE "write") /\ WorkerOnly

(* Mutant of WriteBody: only the report of a job still listed as cancelled is
   written first. *)
WriteBodyLater ==
    /\ worker.at \in {"keep", "write"}
    /\ bodies' = IF worker.at = "keep" THEN bodies \cup {worker.job} ELSE bodies
    /\ worker' = IF worker.at = "keep" THEN AtPick ELSE [worker EXCEPT !.at = "record"]
    /\ UNCHANGED <<reports, jobs, index, wake, stopping, request, counts>>

WriteBody ==
    /\ worker.at \in {"keep", "write"}
    /\ bodies' = bodies \cup {worker.job}
    /\ worker' = IF worker.at = "keep" THEN AtPick ELSE [worker EXCEPT !.at = "record"]
    /\ UNCHANGED <<reports, jobs, index, wake, stopping, request, counts>>

MarkDone ==
    /\ worker.at = "record" /\ worker' = AtPick
    /\ SetStatus(worker.job, "done")
    /\ UNCHANGED <<reports, bodies, wake, stopping, request, counts>>

WorkerSteps ==
    \/ PickJob \/ LoopEnds \/ WakeUp \/ ClearWake \/ LookCancelled \/ MarkRunning \/ CheckCancel
    \/ ModelAnswers \/ ReportRefused \/ MarkFailed \/ LookAtText \/ WriteBody \/ MarkDone

-----------------------------------------------------------------------------
(* The reports in the list that were paid for, today: a deleted job costs
   nothing any more, and a failed or cancelled one never did. *)
AskCap(r, t) ==
    /\ request[r].at = "idle" /\ counts.created < reports.created
    /\ reports.cap = 0 \/ Cardinality(WithStatus("done")) < reports.cap
    /\ request' = [request EXCEPT ![r] = [NoRequest EXCEPT !.at = "insert", !.ticker = t]]
    /\ UNCHANGED <<reports, jobs, index, bodies, worker, wake, stopping, counts>>

Busy(t) == \E j \in DOMAIN jobs : jobs[j].ticker = t /\ jobs[j].status \in InProgress

Inserts(r) == request[r].at = "insert" /\ ~Busy(request[r].ticker) /\ counts.created < reports.created
Added(r) == LET j == counts.created + 1 IN
    [i \in DOMAIN jobs \cup {j} |-> IF i = j THEN [ticker |-> request[r].ticker, status |-> "queued"] ELSE jobs[i]]
Dropped(f) == DOMAIN f \ Keep(f)

InsertJob(r) ==
    /\ Inserts(r)
    /\ Save(Restricted(Added(r), Keep(Added(r))))
    /\ bodies' = bodies \ Dropped(Added(r))
    /\ counts' = [counts EXCEPT !.created = @ + 1]
    /\ request' = [request EXCEPT ![r].at = "notify"]
    /\ UNCHANGED <<reports, worker, wake, stopping>>

InsertRefused(r) ==
    /\ request[r].at = "insert" /\ (Busy(request[r].ticker) \/ counts.created = reports.created)
    /\ request' = [request EXCEPT ![r] = NoRequest]
    /\ UNCHANGED <<reports, jobs, index, bodies, worker, wake, stopping, counts>>

(* Mutant of NotifyQueued: nobody is told. *)
NotifyQueuedSilently(r) ==
    /\ request[r].at = "notify" /\ request' = [request EXCEPT ![r] = NoRequest]
    /\ UNCHANGED <<reports, jobs, index, bodies, worker, wake, stopping, counts>>

NotifyQueued(r) ==
    /\ request[r].at = "notify" /\ request' = [request EXCEPT ![r] = NoRequest] /\ wake' = TRUE
    /\ UNCHANGED <<reports, jobs, index, bodies, worker, stopping, counts>>

CancelJob(j) ==
    /\ counts.withdrawn < reports.withdrawn /\ jobs[j].status \in InProgress
    /\ SetStatus(j, "cancelled")
    /\ counts' = [counts EXCEPT !.withdrawn = @ + 1]
    /\ UNCHANGED <<reports, bodies, worker, wake, stopping, request>>

(* The row first, then its report. *)
DeleteJob(r, j) ==
    /\ request[r].at = "idle" /\ counts.withdrawn < reports.withdrawn
    /\ Save(Restricted(jobs, DOMAIN jobs \ {j}))
    /\ counts' = [counts EXCEPT !.withdrawn = @ + 1]
    /\ request' = [request EXCEPT ![r] = [NoRequest EXCEPT !.at = "unlink", !.job = j]]
    /\ UNCHANGED <<reports, bodies, worker, wake, stopping>>

Unlink(r) ==
    /\ request[r].at = "unlink" /\ request' = [request EXCEPT ![r] = NoRequest]
    /\ bodies' = bodies \ {request[r].job}
    /\ UNCHANGED <<reports, jobs, index, worker, wake, stopping, counts>>

RequestSteps(r) == InsertJob(r) \/ InsertRefused(r) \/ NotifyQueued(r) \/ Unlink(r)

-----------------------------------------------------------------------------
StopRunner ==
    /\ reports.shutdown /\ ~stopping
    /\ stopping' = TRUE /\ wake' = TRUE
    /\ UNCHANGED <<reports, jobs, index, bodies, worker, request, counts>>

(* Mutant of RestoredJobs: a job that was under way is taken up as it is. *)
RestoredJobsAsTheyAre(f) == f

RestoredJobs(f) == [j \in DOMAIN f |-> [f[j] EXCEPT !.status = IF @ \in InProgress THEN "failed" ELSE @]]

(* The process ends, after a stop or not, and starts again. *)
RestartWith(f) ==
    /\ jobs' = RestoredJobs(f) /\ index' = RestoredJobs(f)
    /\ worker' = AtPick /\ wake' = FALSE /\ stopping' = FALSE
    /\ request' = [r \in Requests |-> NoRequest]

ShutdownEnds ==
    /\ stopping /\ reports' = [reports EXCEPT !.shutdown = FALSE]
    /\ RestartWith(index) /\ UNCHANGED <<bodies, counts>>

(* Inside an insert, after the reports that the full list drops are gone and
   before the list is saved, inside a save, or between two steps. *)
DeskCrash ==
    /\ counts.crashes < reports.crashes
    /\ \E f \in {index, NoJobs} : RestartWith(f)
    /\ bodies' \in {bodies} \cup {bodies \ Dropped(Added(r)) : r \in {q \in Requests : Inserts(q)}}
    /\ counts' = [counts EXCEPT !.crashes = @ + 1]
    /\ UNCHANGED reports

ReportNext ==
    \/ WorkerSteps \/ WaitTimesOut
    \/ \E r \in Requests : RequestSteps(r) \/ \E t \in Tickers : AskCap(r, t)
    \/ \E j \in DOMAIN jobs : CancelJob(j) \/ \E r \in Requests : DeleteJob(r, j)
    \/ StopRunner \/ ShutdownEnds \/ DeskCrash

(* The runner thread and a request that has begun go on; a stopped server is
   started again. *)
ReportFairness ==
    /\ WF_reportVars(WorkerSteps) /\ WF_reportVars(ShutdownEnds)
    /\ \A r \in Requests : WF_reportVars(RequestSteps(r))

ReportSpec == ReportInit /\ [][ReportNext]_reportVars /\ ReportFairness

-----------------------------------------------------------------------------
(* Types of the desk's state (store.py:29, runner.py:20). *)
ReportTypeOK ==
    /\ reports \in ReportCaseType /\ wake \in BOOLEAN /\ stopping \in BOOLEAN
    /\ \A f \in {jobs, index} : DOMAIN f \subseteq 1..counts.created /\ \A j \in DOMAIN f : f[j] \in Job
    /\ bodies \subseteq 1..counts.created
    /\ worker.at \in Stages \cup {"pick", "wait", "clear", "ended"} /\ worker.job \in 0..counts.created
    /\ \A r \in Requests : request[r].at \in {"idle", "insert", "notify", "unlink"} /\ request[r].ticker \in Tickers

(* A job listed as done, in memory or in the file that a restart reads, has
   its report, whatever is cancelled, deleted or dropped beside the worker and
   wherever the process dies (store.py:278, :347). *)
DoneHasBody == \A f \in {jobs, index} : \A j \in DOMAIN f : f[j].status = "done" => j \in bodies

(* A job that the desk shows as running is the one the worker is at: no job
   stays running after a failure, a crash or an orderly stop (runner.py:40,
   store.py:122). *)
RunningIsWorked == \A j \in WithStatus("running") : worker.job = j /\ worker.at \in Stages

(* The desk comes to rest: every report asked for ends or is withdrawn, on the
   wake-up alone and without the five-second poll (runner.py:27, :97). *)
JobsEnd == []<>(\A j \in DOMAIN jobs : jobs[j].status \notin InProgress)
=============================================================================
