------------------------ MODULE AnalysisDesks_proofs ------------------------
(***************************************************************************)
(* Theorems about the services with a store of their own, ReportDesk,      *)
(* SkewArchive and GammaHistory, for every number of jobs, requests,       *)
(* expiries and snapshots and every length of a list: a job that is done   *)
(* has its report; a daily row is the last reading of its session; a       *)
(* frozen reversal does not change.                                        *)
(***************************************************************************)
EXTENDS ReportDesk, SkewArchive, GammaHistory, FiniteSetTheorems, SequenceTheorems, TLAPS

(* Reports: the jobs, the worker and the requests. *)
WorkerType == [at : Stages \cup {"pick", "wait", "clear", "ended"}, job : 0 .. counts.created, pass : Nat]
RequestType == [at : {"idle", "insert", "notify", "unlink"}, ticker : Tickers \cup {NoRequest.ticker}, job : Nat]
Listed(f) == DOMAIN f \subseteq 1 .. counts.created /\ \A j \in DOMAIN f : f[j] \in Job

Types ==
    /\ counts \in [created : Nat, withdrawn : Nat, crashes : Nat]
    /\ Listed(jobs) /\ index = jobs
    /\ worker \in WorkerType
    /\ request \in [Requests -> RequestType]
    /\ \A r \in Requests : request[r].at = "insert" => request[r].ticker \in Tickers

(* No crash, or a list that never is full: a crash inside an insert that drops
   a job leaves the job in the file and its report gone. *)
Roomy == \A k \in ReportCases : k.crashes = 0 \/ k.created <= k.keep

(* A job that is done, or that the worker is about to mark as done, has its
   report as long as it is listed. *)
HasBody == Roomy =>
    /\ \A j \in WithStatus("done") : j \in bodies
    /\ worker.at = "record" /\ worker.job \in DOMAIN jobs => worker.job \in bodies

(* A job that is running is the worker's, which no longer is once the text of
   a cancelled job is kept. *)
Worked ==
    /\ \A j \in WithStatus("running") : worker.job = j /\ worker.at \in Stages
    /\ worker.at = "keep" /\ worker.job \in DOMAIN jobs => Cancelled(worker.job)

(* A report that is about to be removed belongs to no listed job, nor to one
   that is still to come. *)
Unlinked == \A r \in Requests : request[r].at = "unlink" =>
    request[r].job \in 1 .. counts.created /\ request[r].job \notin DOMAIN jobs

(* What the worker and the requests never change. *)
Case ==
    /\ DOMAIN reports = {"keep", "cap", "shutdown", "created", "withdrawn", "crashes"}
    /\ {reports.created, reports.keep, reports.crashes} \subseteq Nat
    /\ Roomy => reports.crashes = 0 \/ reports.created <= reports.keep

Inv == Types /\ HasBody /\ Worked /\ Unlinked

LEMMA InitInv == ASSUME ReportInit PROVE Inv
<1> USE DEF ReportInit
<1>1. DOMAIN jobs = {} /\ index = jobs
  BY DEF NoJobs
<1>2. worker \in WorkerType /\ worker.at = "pick"
  BY DEF AtPick, WorkerType
<1>3. request \in [Requests -> RequestType] /\ \A r \in Requests : request[r].at = "idle"
  <2>1. NoRequest \in RequestType /\ NoRequest.at = "idle"
    BY DEF NoRequest, RequestType
  <2> QED BY <2>1
<1>4. Types
  BY <1>1, <1>2, <1>3 DEF Types, Listed
<1> QED BY <1>1, <1>2, <1>3, <1>4 DEF Inv, HasBody, Worked, Unlinked, WithStatus, Cancelled

(* What the worker is at changes, nothing else does. *)
LEMMA WorkerMoves ==
  ASSUME Inv, UNCHANGED <<jobs, index, bodies, request, counts>>, worker' \in WorkerType,
         worker'.at \notin Stages => WithStatus("running") = {},
         worker'.at \in Stages /\ worker.at \in Stages => worker'.job = worker.job,
         worker'.at \in Stages => worker.at \in Stages \/ WithStatus("running") = {},
         worker'.at # "record",
         worker'.at = "keep" => Cancelled(worker'.job)
  PROVE  Inv'
<1>1. Types'
  BY DEF Inv, Types, Listed, WorkerType, RequestType, NoRequest
<1>2. WithStatus("running")' = WithStatus("running") /\ WithStatus("done")' = WithStatus("done")
  BY DEF WithStatus
<1>3. HasBody'
  BY <1>2 DEF Inv, HasBody
<1>4. Worked'
  BY <1>2 DEF Inv, Worked, Cancelled, WithStatus
<1>5. Unlinked'
  BY DEF Inv, Unlinked
<1> QED BY <1>1, <1>3, <1>4, <1>5 DEF Inv

(* The steps of the worker that only look. *)
LEMMA LookKeeps ==
  ASSUME Inv, \/ PickJob \/ LoopEnds \/ WakeUp \/ WaitTimesOut \/ ClearWake \/ LookCancelled \/ CheckCancel
              \/ ModelAnswers \/ ReportRefused \/ LookAtText
  PROVE  Inv'
<1>1. /\ worker \in WorkerType /\ DOMAIN jobs \subseteq 1 .. counts.created /\ counts.created \in Nat
      /\ UNCHANGED <<jobs, index, bodies, request, counts>>
  BY DEF Inv, Types, Listed, PickJob, LoopEnds, WakeUp, WaitTimesOut, ClearWake, LookCancelled, CheckCancel,
         ModelAnswers, ReportRefused, LookAtText, WorkerOnly
<1>2. AtPick \in WorkerType
  BY <1>1 DEF AtPick, WorkerType
<1>3. worker.at \notin Stages => WithStatus("running") = {}
  BY DEF Inv, Worked
<1>4. Cancelled(worker.job) => WithStatus("running") = {}
  BY DEF Inv, Worked, Cancelled, WithStatus
<1>5. CASE PickJob
  <2>1. CASE WithStatus("queued") = {}
    BY <1>1, <1>3, <1>5, <2>1, WorkerMoves DEF PickJob, Goes, WorkerType, Stages
  <2>2. CASE WithStatus("queued") # {}
    <3>1. PICK j \in WithStatus("queued") : worker' = [AtPick EXCEPT !.at = "look", !.job = j]
      BY <1>5, <2>2 DEF PickJob
    <3>2. j \in 0 .. counts.created
      BY <1>1 DEF WithStatus
    <3>3. worker' \in WorkerType /\ worker'.at = "look" /\ worker.at = "pick"
      BY <1>5, <3>1, <3>2 DEF AtPick, WorkerType, Stages, PickJob
    <3> QED BY <1>1, <1>3, <3>3, WorkerMoves DEF Stages
  <2> QED BY <2>1, <2>2
<1>6. CASE LoopEnds \/ WakeUp \/ WaitTimesOut \/ ClearWake
  <2>1. worker.at \notin Stages
    BY <1>6 DEF LoopEnds, WakeUp, WaitTimesOut, ClearWake, Stages
  <2>2. worker' \in WorkerType /\ worker'.at \in {"ended", "clear", "pick"}
    BY <1>1, <1>2, <1>6 DEF LoopEnds, WakeUp, WaitTimesOut, ClearWake, Goes, AtPick, WorkerType
  <2> QED BY <1>1, <1>3, <2>1, <2>2, WorkerMoves DEF Stages
<1>7. CASE LookCancelled \/ ReportRefused
  <2>1. worker.at \in Stages
    BY <1>7 DEF LookCancelled, ReportRefused, Stages
  <2>2. CASE Cancelled(worker.job)
    <3>1. worker' = AtPick
      BY <1>7, <2>2 DEF LookCancelled, ReportRefused
    <3> QED BY <1>1, <1>2, <1>4, <2>2, <3>1, WorkerMoves DEF AtPick, Stages
  <2>3. CASE ~Cancelled(worker.job)
    <3>1. worker' \in WorkerType /\ worker'.job = worker.job /\ worker'.at \in {"start", "broken"}
      BY <1>1, <1>7, <2>3 DEF LookCancelled, ReportRefused, WorkerType, Stages
    <3> QED BY <1>1, <2>1, <3>1, WorkerMoves DEF Stages
  <2> QED BY <2>2, <2>3
<1>8. CASE CheckCancel \/ ModelAnswers \/ LookAtText
  <2>1. worker.at \in Stages
    BY <1>8 DEF CheckCancel, ModelAnswers, LookAtText, Stages
  <2>2. /\ worker' \in WorkerType /\ worker'.job = worker.job
        /\ worker'.at \in {"refused", "stream", "check", "broken", "text", "keep", "write"}
        /\ worker'.at = "keep" => Cancelled(worker.job)
    <3>1. CASE CheckCancel
      <4>1. worker' = [worker EXCEPT !.at = "refused"] \/ worker' = [worker EXCEPT !.at = "stream", !.pass = @ + 1]
        BY <3>1 DEF CheckCancel
      <4>2. worker.pass \in Nat /\ worker.pass + 1 \in Nat
        BY <1>1 DEF WorkerType
      <4>3. CASE worker' = [worker EXCEPT !.at = "refused"]
        BY <1>1, <4>3 DEF WorkerType, Stages
      <4>4. CASE worker' = [worker EXCEPT !.at = "stream", !.pass = @ + 1]
        BY <1>1, <4>2, <4>4 DEF WorkerType, Stages
      <4> QED BY <4>1, <4>3, <4>4
    <3>2. CASE ModelAnswers
      BY <1>1, <3>2 DEF ModelAnswers, Goes, WorkerType, Stages
    <3>3. CASE LookAtText
      BY <1>1, <3>3 DEF LookAtText, Goes, WorkerType, Stages
    <3> QED BY <1>8, <3>1, <3>2, <3>3
  <2> QED BY <1>1, <2>1, <2>2, WorkerMoves DEF Stages
<1> QED BY <1>5, <1>6, <1>7, <1>8

(* _patch_locked changes the status of a listed job only. *)
LEMMA StatusSet ==
  ASSUME Inv, NEW j, NEW s \in {"queued", "running", "done", "failed", "cancelled"}, SetStatus(j, s)
  PROVE  /\ index' = jobs' /\ DOMAIN jobs' = DOMAIN jobs /\ \A i \in DOMAIN jobs : jobs'[i] \in Job
         /\ \A i \in DOMAIN jobs : jobs'[i].status = IF i = j THEN s ELSE jobs[i].status
<1>1. \A i \in DOMAIN jobs : jobs[i] \in Job
  BY DEF Inv, Types, Listed
<1>2. CASE j \in DOMAIN jobs
  <2>1. jobs' = [jobs EXCEPT ![j].status = s] /\ index' = jobs'
    BY <1>2 DEF SetStatus, Save
  <2> QED BY <1>1, <1>2, <2>1 DEF Job, InProgress
<1>3. CASE j \notin DOMAIN jobs
  <2>1. jobs' = jobs /\ index' = jobs'
    BY <1>3 DEF SetStatus, Save
  <2> QED BY <1>1, <1>3, <2>1
<1> QED BY <1>2, <1>3

LEMMA MarkKeeps == ASSUME Inv, MarkRunning \/ MarkFailed \/ MarkDone PROVE Inv'
<1> DEFINE s == IF MarkRunning THEN "running" ELSE IF MarkFailed THEN "failed" ELSE "done"
           j == worker.job
<1>1. worker \in WorkerType /\ counts.created \in Nat
  BY DEF Inv, Types
<1>2. /\ SetStatus(j, s) /\ UNCHANGED <<bodies, request, counts>> /\ s \in {"running", "failed", "done"}
      /\ worker' \in WorkerType /\ worker'.at \in {"check", "pick"}
      /\ s = "running" => worker'.job = j /\ worker'.at = "check"
      /\ s = "done" => worker.at = "record"
  BY <1>1 DEF MarkRunning, MarkFailed, MarkDone, Goes, AtPick, WorkerType, Stages
<1> HIDE DEF s
<1>3. /\ index' = jobs' /\ DOMAIN jobs' = DOMAIN jobs /\ \A i \in DOMAIN jobs : jobs'[i] \in Job
      /\ \A i \in DOMAIN jobs : jobs'[i].status = IF i = j THEN s ELSE jobs[i].status
  BY <1>2, StatusSet
<1>4. Types'
  BY <1>2, <1>3 DEF Inv, Types, Listed, WorkerType, RequestType, NoRequest
<1>5. HasBody'
  BY <1>2, <1>3 DEF Inv, HasBody, WithStatus
<1>6. Worked'
  BY <1>2, <1>3 DEF Inv, Worked, WithStatus, Stages
<1>7. Unlinked'
  BY <1>2, <1>3 DEF Inv, Unlinked
<1> QED BY <1>4, <1>5, <1>6, <1>7 DEF Inv

LEMMA WriteKeeps == ASSUME Inv, WriteBody PROVE Inv'
<1>1. /\ worker \in WorkerType /\ counts.created \in Nat /\ UNCHANGED <<jobs, index, request, counts>>
      /\ bodies' = bodies \cup {worker.job}
  BY DEF Inv, Types, WriteBody
<1>2. /\ worker' \in WorkerType /\ WithStatus("running")' = WithStatus("running") /\ WithStatus("done")' = WithStatus("done")
      /\ \/ worker.at = "keep" /\ worker'.at = "pick"
         \/ worker.at = "write" /\ worker'.at = "record" /\ worker'.job = worker.job
  BY <1>1 DEF WriteBody, AtPick, WorkerType, Stages, WithStatus
<1>3. Types'
  BY <1>1, <1>2 DEF Inv, Types, Listed, WorkerType, RequestType, NoRequest
<1>4. HasBody'
  BY <1>1, <1>2 DEF Inv, HasBody
<1>5. worker.at = "keep" => WithStatus("running") = {}
  BY DEF Inv, Worked, Cancelled, WithStatus
<1>6. Worked'
  BY <1>1, <1>2, <1>5 DEF Inv, Worked, Stages
<1>7. Unlinked'
  BY <1>1 DEF Inv, Unlinked
<1> QED BY <1>3, <1>4, <1>6, <1>7 DEF Inv

-----------------------------------------------------------------------------
(* A request moves and nothing that the worker sees changes. *)
LEMMA RequestMoves ==
  ASSUME Inv, NEW r \in Requests, NEW q \in RequestType, request' = [request EXCEPT ![r] = q],
         UNCHANGED <<jobs, index, bodies, worker, counts>>,
         q.at = "insert" => q.ticker \in Tickers, q.at # "unlink"
  PROVE  Inv'
<1>1. Types'
  BY DEF Inv, Types, Listed, WorkerType, RequestType, NoRequest
<1>2. HasBody' /\ Worked'
  BY DEF Inv, HasBody, Worked, WithStatus, Cancelled
<1>3. Unlinked'
  BY DEF Inv, Types, Unlinked
<1> QED BY <1>1, <1>2, <1>3 DEF Inv

LEMMA AskKeeps ==
  ASSUME Inv, NEW r \in Requests, InsertRefused(r) \/ NotifyQueued(r) \/ \E t \in Tickers : AskCap(r, t)
  PROVE  Inv'
<1>1. NoRequest \in RequestType /\ NoRequest.at = "idle"
  BY DEF NoRequest, RequestType
<1>2. CASE InsertRefused(r) \/ NotifyQueued(r)
  BY <1>1, <1>2, RequestMoves DEF InsertRefused, NotifyQueued
<1>3. ASSUME NEW t \in Tickers, AskCap(r, t) PROVE Inv'
  <2> DEFINE q == [NoRequest EXCEPT !.at = "insert", !.ticker = t]
  <2>1. q \in RequestType /\ q.at = "insert" /\ q.ticker = t
    BY DEF NoRequest, RequestType
  <2>2. request' = [request EXCEPT ![r] = q] /\ UNCHANGED <<jobs, index, bodies, worker, counts>>
    BY <1>3 DEF AskCap
  <2> HIDE DEF q
  <2> QED BY <2>1, <2>2, RequestMoves
<1> QED BY <1>2, <1>3

(* The new job is no job yet; the reports that go are of jobs that go. *)
LEMMA InsertKeeps == ASSUME Inv, NEW r \in Requests, InsertJob(r) PROVE Inv'
<1> DEFINE n == counts.created + 1
           added == Added(r)
<1>1. /\ counts \in [created : Nat, withdrawn : Nat, crashes : Nat] /\ DOMAIN jobs \subseteq 1 .. counts.created
      /\ (\A i \in DOMAIN jobs : jobs[i] \in Job) /\ request \in [Requests -> RequestType] /\ worker \in WorkerType
      /\ request[r].ticker \in Tickers /\ request[r].at = "insert"
  BY DEF Inv, Types, Listed, InsertJob, Inserts
<1>2. /\ jobs' = Restricted(added, Keep(added)) /\ index' = jobs' /\ bodies' = bodies \ (DOMAIN added \ Keep(added))
      /\ counts' = [counts EXCEPT !.created = n] /\ request' = [request EXCEPT ![r].at = "notify"]
      /\ worker' = worker
  BY DEF InsertJob, Save, Dropped
<1>3. n \in Nat /\ counts.created \in Nat /\ counts'.created = n /\ n \notin 1 .. counts.created
      /\ 1 .. counts.created \subseteq 1 .. n /\ n \in 1 .. n /\ 0 .. counts.created \subseteq 0 .. n
  BY <1>1, <1>2
<1>4. Keep(added) \subseteq DOMAIN added /\ DOMAIN added = DOMAIN jobs \cup {n}
  BY DEF Keep, Added
<1>5. /\ DOMAIN jobs' = Keep(added) /\ (\A i \in DOMAIN jobs' : jobs'[i] = added[i])
  BY <1>2 DEF Restricted
<1>6. \A i \in DOMAIN jobs' :
        \/ i = n /\ jobs'[i] = [ticker |-> request[r].ticker, status |-> "queued"]
        \/ i # n /\ i \in DOMAIN jobs /\ jobs'[i] = jobs[i]
  BY <1>4, <1>5 DEF Added
<1> HIDE DEF n, added
<1>7. Types'
  <2>1. Listed(jobs)'
    <3>1. DOMAIN jobs' \subseteq 1 .. n
      BY <1>1, <1>3, <1>6
    <3>2. [ticker |-> request[r].ticker, status |-> "queued"] \in Job
      BY <1>1 DEF Job, InProgress
    <3>3. \A i \in DOMAIN jobs' : jobs'[i] \in Job
      BY <1>1, <1>6, <3>2
    <3> QED BY <1>3, <3>1, <3>3 DEF Listed
  <2>2. counts' \in [created : Nat, withdrawn : Nat, crashes : Nat]
    BY <1>1, <1>2, <1>3
  <2>3. worker' \in WorkerType'
    BY <1>1, <1>2, <1>3 DEF WorkerType
  <2>4. request' \in [Requests -> RequestType'] /\ \A q \in Requests : request'[q].at = "insert" => request'[q].ticker \in Tickers
    BY <1>1, <1>2 DEF Inv, Types, RequestType, NoRequest
  <2> QED BY <1>2, <2>1, <2>2, <2>3, <2>4 DEF Types
<1>8. HasBody'
  <2>1. \A i \in DOMAIN jobs' : i \in bodies => i \in bodies'
    BY <1>2, <1>5
  <2>2. worker.job \in DOMAIN jobs' => worker.job \in DOMAIN jobs
    BY <1>1, <1>3, <1>6 DEF WorkerType
  <2> QED BY <1>2, <1>6, <2>1, <2>2 DEF Inv, HasBody, WithStatus
<1>9. Worked'
  <2>1. worker.job \in DOMAIN jobs' => worker.job \in DOMAIN jobs /\ jobs'[worker.job] = jobs[worker.job]
    BY <1>1, <1>3, <1>6 DEF WorkerType
  <2>2. \A i \in DOMAIN jobs' : jobs'[i].status = "running" => i \in DOMAIN jobs /\ jobs[i].status = "running"
    BY <1>6
  <2> QED BY <1>2, <2>1, <2>2 DEF Inv, Worked, WithStatus, Cancelled
<1>10. Unlinked'
  <2>1. \A q \in Requests : request'[q].at = "unlink" => request[q].at = "unlink" /\ request'[q].job = request[q].job
    BY <1>1, <1>2 DEF RequestType
  <2> QED BY <1>3, <1>6, <2>1 DEF Inv, Unlinked
<1> QED BY <1>7, <1>8, <1>9, <1>10 DEF Inv

LEMMA CancelKeeps == ASSUME Inv, NEW j \in DOMAIN jobs, CancelJob(j) PROVE Inv'
<1>1. /\ index' = jobs' /\ DOMAIN jobs' = DOMAIN jobs /\ (\A i \in DOMAIN jobs : jobs'[i] \in Job)
      /\ \A i \in DOMAIN jobs : jobs'[i].status = IF i = j THEN "cancelled" ELSE jobs[i].status
  BY StatusSet DEF CancelJob
<1>2. /\ UNCHANGED <<bodies, worker, request>> /\ counts' \in [created : Nat, withdrawn : Nat, crashes : Nat]
      /\ counts'.created = counts.created
  BY DEF CancelJob, Inv, Types
<1>3. Types'
  BY <1>1, <1>2 DEF Inv, Types, Listed, WorkerType, RequestType, NoRequest
<1>4. HasBody'
  BY <1>1, <1>2 DEF Inv, HasBody, WithStatus
<1>5. Worked'
  BY <1>1, <1>2 DEF Inv, Worked, WithStatus, Cancelled
<1>6. Unlinked'
  BY <1>1, <1>2 DEF Inv, Unlinked
<1> QED BY <1>3, <1>4, <1>5, <1>6 DEF Inv

LEMMA DeleteKeeps ==
  ASSUME Inv, NEW r \in Requests, NEW j \in DOMAIN jobs, DeleteJob(r, j)
  PROVE  Inv'
<1> DEFINE q == [NoRequest EXCEPT !.at = "unlink", !.job = j]
<1>1. /\ index' = jobs' /\ DOMAIN jobs' = DOMAIN jobs \ {j} /\ \A i \in DOMAIN jobs' : jobs'[i] = jobs[i]
  BY DEF DeleteJob, Save, Restricted
<1>2. /\ UNCHANGED <<bodies, worker>> /\ counts' \in [created : Nat, withdrawn : Nat, crashes : Nat]
      /\ counts'.created = counts.created /\ counts.created \in Nat
      /\ request' = [request EXCEPT ![r] = q] /\ request \in [Requests -> RequestType]
  BY DEF DeleteJob, Inv, Types
<1>3. j \in 1 .. counts.created /\ j \in Nat
  BY <1>2 DEF Inv, Types, Listed
<1>4. q \in RequestType /\ q.at = "unlink" /\ q.job = j
  BY <1>2, <1>3 DEF NoRequest, RequestType
<1> HIDE DEF q
<1>5. Types'
  BY <1>1, <1>2, <1>4 DEF Inv, Types, Listed, WorkerType, RequestType, NoRequest
<1>6. HasBody'
  BY <1>1, <1>2 DEF Inv, HasBody, WithStatus
<1>7. Worked'
  BY <1>1, <1>2 DEF Inv, Worked, WithStatus, Cancelled
<1>8. Unlinked'
  BY <1>1, <1>2, <1>3, <1>4 DEF Inv, Unlinked
<1> QED BY <1>5, <1>6, <1>7, <1>8 DEF Inv

LEMMA UnlinkKeeps == ASSUME Inv, NEW r \in Requests, Unlink(r) PROVE Inv'
<1>1. NoRequest \in RequestType /\ NoRequest.at = "idle"
  BY DEF NoRequest, RequestType
<1>2. /\ UNCHANGED <<jobs, index, worker, counts>> /\ bodies' = bodies \ {request[r].job}
      /\ request' = [request EXCEPT ![r] = NoRequest] /\ request[r].job \notin DOMAIN jobs
  BY DEF Unlink, Inv, Unlinked
<1>3. Types'
  BY <1>1, <1>2 DEF Inv, Types, Listed, WorkerType, RequestType, NoRequest
<1>4. HasBody'
  BY <1>2 DEF Inv, HasBody, WithStatus
<1>5. Worked'
  BY <1>2 DEF Inv, Worked, WithStatus, Cancelled
<1>6. Unlinked'
  BY <1>1, <1>2 DEF Inv, Types, Unlinked
<1> QED BY <1>3, <1>4, <1>5, <1>6 DEF Inv

-----------------------------------------------------------------------------
(* A restart takes over what is done and fails what was under way. *)
LEMMA RestartKeeps ==
  ASSUME Inv, NEW f \in {index, NoJobs}, RestartWith(f), Roomy => bodies' = bodies,
         counts' \in [created : Nat, withdrawn : Nat, crashes : Nat], counts'.created = counts.created
  PROVE  Inv'
<1>1. Listed(f) /\ (Roomy => \A j \in DOMAIN f : f[j].status = "done" => j \in bodies)
  <2>1. CASE f = index
    BY <2>1 DEF Inv, Types, HasBody, WithStatus
  <2>2. CASE f = NoJobs
    BY <2>2 DEF NoJobs, Listed
  <2> QED BY <2>1, <2>2
<1>2. index' = jobs' /\ DOMAIN jobs' = DOMAIN f /\ \A j \in DOMAIN f :
        jobs'[j] = [f[j] EXCEPT !.status = IF @ \in InProgress THEN "failed" ELSE @]
  BY DEF RestartWith, RestoredJobs
<1>3. \A j \in DOMAIN f :
        /\ jobs'[j] \in Job /\ jobs'[j].status \notin InProgress
        /\ jobs'[j].status = "done" => f[j].status = "done"
  BY <1>1, <1>2 DEF Listed, Job, InProgress
<1>4. worker' \in WorkerType' /\ worker'.at = "pick"
  BY DEF RestartWith, AtPick, WorkerType
<1>5. NoRequest \in RequestType' /\ NoRequest.at = "idle"
  BY DEF NoRequest, RequestType
<1>6. request' \in [Requests -> RequestType'] /\ \A r \in Requests : request'[r].at = "idle"
  BY <1>5 DEF RestartWith
<1>7. Types'
  BY <1>1, <1>2, <1>3, <1>4, <1>6 DEF Types, Listed
<1>8. HasBody'
  BY <1>1, <1>2, <1>3, <1>4 DEF HasBody, WithStatus
<1>9. Worked'
  BY <1>2, <1>3, <1>4 DEF Worked, WithStatus, InProgress
<1>10. Unlinked'
  BY <1>6 DEF Unlinked
<1> QED BY <1>7, <1>8, <1>9, <1>10 DEF Inv

LEMMA CaseKept == ReportSpec => []Case
<1>1. ReportInit => Case
  BY ReportCasesAssumption DEF ReportInit, ReportCaseType, Case, Roomy
<1>2. ASSUME Case, [ReportNext]_reportVars PROVE Case'
  <2>1. reports' = reports \/ reports' = [reports EXCEPT !.shutdown = FALSE]
    BY <1>2 DEF ReportNext, reportVars, WorkerSteps, WorkerOnly, PickJob, LoopEnds, WakeUp, WaitTimesOut, ClearWake,
       LookCancelled, MarkRunning, CheckCancel, ModelAnswers, ReportRefused, MarkFailed, LookAtText, WriteBody,
       MarkDone, RequestSteps, InsertJob, InsertRefused, NotifyQueued, Unlink, AskCap, CancelJob, DeleteJob,
       StopRunner, ShutdownEnds, DeskCrash
  <2> QED BY <1>2, <2>1 DEF Case
<1> QED BY <1>1, <1>2, PTL DEF ReportSpec

(* In a roomy list no job is dropped. *)
LEMMA NothingDropped ==
  ASSUME Inv, Case, Roomy, reports.crashes # 0, NEW r \in Requests, Inserts(r)
  PROVE  Dropped(Added(r)) = {}
<1> DEFINE n == counts.created + 1
<1>1. n \in Nat /\ n <= reports.keep /\ reports.keep \in Nat
  BY DEF Inv, Types, Case, Inserts
<1>2. DOMAIN Added(r) \subseteq 1 .. n
  BY <1>1 DEF Inv, Types, Listed, Added
<1>3. ASSUME NEW j \in DOMAIN Added(r) PROVE j \in Keep(Added(r))
  <2> DEFINE newer == {i \in DOMAIN Added(r) : i > j}
  <2>1. n \in Int /\ j + 1 \in Int /\ j \in 1 .. n /\ j \in Nat /\ j <= n
    BY <1>1, <1>2
  <2>2. newer \subseteq j + 1 .. n
    BY <1>1, <1>2, <2>1
  <2> HIDE DEF newer, n
  <2>3. /\ IsFiniteSet(j + 1 .. n)
        /\ Cardinality(j + 1 .. n) = IF j + 1 > n THEN 0 ELSE n - (j + 1) + 1
    BY <2>1, FS_Interval
  <2>4. IsFiniteSet(newer) /\ Cardinality(newer) <= Cardinality(j + 1 .. n)
    BY <2>2, <2>3, FS_Subset
  <2>5. Cardinality(newer) \in Nat
    BY <2>4, FS_CardinalityType
  <2>6. Cardinality(newer) < reports.keep
    BY <1>1, <2>1, <2>3, <2>4, <2>5
  <2> QED BY <2>6 DEF Keep, newer
<1> QED BY <1>3 DEF Dropped

LEMMA NextKeeps == ASSUME Inv, Case, [ReportNext]_reportVars PROVE Inv'
<1>1. CASE WorkerSteps \/ WaitTimesOut
  BY <1>1, LookKeeps, MarkKeeps, WriteKeeps DEF WorkerSteps
<1>2. ASSUME NEW r \in Requests, RequestSteps(r) \/ \E t \in Tickers : AskCap(r, t) PROVE Inv'
  BY <1>2, AskKeeps, InsertKeeps, UnlinkKeeps DEF RequestSteps
<1>3. ASSUME NEW j \in DOMAIN jobs, CancelJob(j) \/ \E r \in Requests : DeleteJob(r, j) PROVE Inv'
  BY <1>3, CancelKeeps, DeleteKeeps
<1>4. CASE StopRunner \/ UNCHANGED reportVars
  <2>1. UNCHANGED <<jobs, index, bodies, worker, request, counts>>
    BY <1>4 DEF StopRunner, reportVars
  <2>2. Types'
    BY <2>1 DEF Inv, Types, Listed, WorkerType, RequestType, NoRequest
  <2>3. HasBody' /\ Worked' /\ Unlinked'
    BY <2>1 DEF Inv, HasBody, Worked, Unlinked, WithStatus, Cancelled
  <2> QED BY <2>2, <2>3 DEF Inv
<1>5. CASE ShutdownEnds
  BY <1>5, RestartKeeps DEF ShutdownEnds, Inv, Types
<1>6. CASE DeskCrash
  <2>1. counts' \in [created : Nat, withdrawn : Nat, crashes : Nat] /\ counts'.created = counts.created
    BY <1>6 DEF DeskCrash, Inv, Types
  <2>2. reports.crashes # 0
    BY <1>6 DEF DeskCrash, Inv, Types
  <2>3. Roomy => bodies' = bodies
    BY <1>6, <2>2, NothingDropped DEF DeskCrash
  <2> QED BY <1>6, <2>1, <2>3, RestartKeeps DEF DeskCrash
<1> QED BY <1>1, <1>2, <1>3, <1>4, <1>5, <1>6 DEF ReportNext

LEMMA Invariant == ReportSpec => []Inv
BY InitInv, NextKeeps, CaseKept, PTL DEF ReportSpec

(* A job that is done, in memory or in the file, has its report, whatever is
   asked, cancelled and deleted beside the worker, when nothing crashes or the
   list never is full. *)
THEOREM ReportsAreKept == ASSUME Roomy PROVE ReportSpec => []DoneHasBody
<1>1. Inv => DoneHasBody
  BY DEF Inv, Types, HasBody, DoneHasBody, WithStatus
<1> QED BY Invariant, <1>1, PTL

(* A job that is running is the one the worker is at. *)
THEOREM WorkerRuns == ReportSpec => []RunningIsWorked
<1>1. Inv => RunningIsWorked
  BY DEF Inv, Worked, RunningIsWorked
<1> QED BY Invariant, <1>1, PTL

(* The rest of the types: every report is one of a job that was created, since
   the worker writes for the job it has picked. *)
Picked ==
    /\ reports \in ReportCaseType /\ wake \in BOOLEAN /\ stopping \in BOOLEAN
    /\ bodies \subseteq 1 .. counts.created
    /\ worker.at \in Stages => worker.job \in 1 .. counts.created

LEMMA PickedNext == ASSUME Inv, Picked, [ReportNext]_reportVars PROVE Picked'
<1> USE DEF WorkerOnly
<1>1. /\ worker \in WorkerType /\ counts \in [created : Nat, withdrawn : Nat, crashes : Nat]
      /\ DOMAIN jobs \subseteq 1 .. counts.created /\ counts.created \in Nat
  BY DEF Inv, Types, Listed
<1>2. CASE PickJob
  <2>1. UNCHANGED <<reports, bodies, wake, stopping, counts>>
    BY <1>2 DEF PickJob
  <2>2. worker'.at \in Stages => worker'.job \in 1 .. counts.created
    BY <1>1, <1>2 DEF PickJob, Goes, AtPick, WithStatus, Stages, WorkerType
  <2> QED BY <2>1, <2>2 DEF Picked
<1>3. CASE LookCancelled \/ MarkRunning \/ CheckCancel \/ ModelAnswers \/ ReportRefused \/ MarkFailed
           \/ LookAtText \/ WriteBody \/ MarkDone
  <2>1. worker.at \in Stages /\ worker.job \in 1 .. counts.created
    BY <1>3 DEF LookCancelled, MarkRunning, CheckCancel, ModelAnswers, ReportRefused, MarkFailed, LookAtText,
                WriteBody, MarkDone, Picked, Stages
  <2>2. UNCHANGED <<reports, wake, stopping, counts>> /\ bodies' \subseteq bodies \cup {worker.job}
    BY <1>3 DEF LookCancelled, MarkRunning, CheckCancel, ModelAnswers, ReportRefused, MarkFailed, LookAtText,
                WriteBody, MarkDone
  <2>3. worker'.at \in Stages => worker'.job = worker.job
    <3>1. CASE LookCancelled \/ MarkRunning
      BY <1>1, <3>1 DEF LookCancelled, MarkRunning, Goes, AtPick, Stages, WorkerType
    <3>2. CASE CheckCancel
      <4>1. worker' = [worker EXCEPT !.at = "refused"] \/ worker' = [worker EXCEPT !.at = "stream", !.pass = @ + 1]
        BY <3>2 DEF CheckCancel
      <4> QED BY <1>1, <4>1 DEF WorkerType
    <3>3. CASE ModelAnswers \/ ReportRefused \/ MarkFailed
      BY <1>1, <3>3 DEF ModelAnswers, ReportRefused, MarkFailed, Goes, AtPick, Stages, WorkerType
    <3>4. CASE LookAtText \/ WriteBody \/ MarkDone
      BY <1>1, <3>4 DEF LookAtText, WriteBody, MarkDone, Goes, AtPick, Stages, WorkerType
    <3> QED BY <1>3, <3>1, <3>2, <3>3, <3>4
  <2> QED BY <2>1, <2>2, <2>3 DEF Picked
<1>4. CASE LoopEnds \/ WakeUp \/ WaitTimesOut \/ ClearWake
  <2>1. UNCHANGED <<reports, bodies, stopping, counts>> /\ wake' \in BOOLEAN
    BY <1>4 DEF LoopEnds, WakeUp, WaitTimesOut, ClearWake, Picked
  <2>2. worker'.at \notin Stages
    BY <1>1, <1>4 DEF LoopEnds, WakeUp, WaitTimesOut, ClearWake, Goes, AtPick, Stages, WorkerType
  <2> QED BY <2>1, <2>2 DEF Picked
<1>5. ASSUME NEW r \in Requests, InsertJob(r) PROVE Picked'
  <2>1. UNCHANGED <<reports, worker, wake, stopping>> /\ bodies' \subseteq bodies /\ counts'.created = counts.created + 1
    BY <1>1, <1>5 DEF InsertJob
  <2>2. 1 .. counts.created \subseteq 1 .. counts'.created
    BY <1>1, <2>1
  <2> QED BY <2>1, <2>2 DEF Picked
<1>6. ASSUME NEW r \in Requests, InsertRefused(r) \/ NotifyQueued(r) \/ Unlink(r) \/ \E t \in Tickers : AskCap(r, t)
      PROVE  Picked'
  <2>1. UNCHANGED <<reports, worker, stopping, counts>> /\ bodies' \subseteq bodies /\ wake' \in BOOLEAN
    BY <1>6 DEF InsertRefused, NotifyQueued, Unlink, AskCap, Picked
  <2> QED BY <2>1 DEF Picked
<1>7. ASSUME NEW j \in DOMAIN jobs, CancelJob(j) \/ \E r \in Requests : DeleteJob(r, j) PROVE Picked'
  <2>1. UNCHANGED <<reports, bodies, worker, wake, stopping>> /\ counts'.created = counts.created
    BY <1>1, <1>7 DEF CancelJob, DeleteJob
  <2> QED BY <2>1 DEF Picked
<1>8. CASE StopRunner \/ UNCHANGED reportVars
  BY <1>8 DEF StopRunner, reportVars, Picked
<1>9. CASE ShutdownEnds \/ DeskCrash
  <2>1. /\ worker' = AtPick /\ wake' = FALSE /\ stopping' = FALSE /\ bodies' \subseteq bodies
        /\ counts'.created = counts.created
        /\ reports' = reports \/ reports' = [reports EXCEPT !.shutdown = FALSE]
    BY <1>1, <1>9 DEF ShutdownEnds, DeskCrash, RestartWith
  <2>2. reports' \in ReportCaseType
    BY <2>1 DEF Picked, ReportCaseType
  <2> QED BY <2>1, <2>2 DEF Picked, AtPick, Stages
<1> QED BY <1>2, <1>3, <1>4, <1>5, <1>6, <1>7, <1>8, <1>9 DEF ReportNext, WorkerSteps, RequestSteps

(* The desk's state has its types, and a report is one of a job that was
   created, whatever else happens to its job. *)
THEOREM ReportTypes == ASSUME Tickers # {} PROVE ReportSpec => []ReportTypeOK
<1>1. ASSUME ReportInit PROVE Picked
  <2>1. reports \in ReportCaseType
    BY <1>1, ReportCasesAssumption DEF ReportInit
  <2>2. wake = FALSE /\ stopping = FALSE /\ bodies = {} /\ worker.at = "pick"
    BY <1>1 DEF ReportInit, AtPick
  <2> QED BY <2>1, <2>2 DEF Picked, Stages
<1>2. ASSUME Inv, Picked PROVE ReportTypeOK
  <2>1. NoRequest.ticker \in Tickers
    BY DEF NoRequest
  <2> QED BY <1>2, <2>1 DEF Inv, Types, Listed, Picked, WorkerType, RequestType, ReportTypeOK
<1> QED BY Invariant, <1>1, <1>2, PickedNext, PTL DEF ReportSpec

-----------------------------------------------------------------------------
(* Induction over the naturals, by a smallest counterexample: the ordering of
   the finite sets 0..n by inclusion has no infinite descent. *)
LEMMA CountingUp ==
  ASSUME NEW T \in SUBSET Nat, 0 \in T, \A n \in T : n + 1 \in T
  PROVE  T = Nat
<1> SUFFICES ASSUME NEW z \in Nat \ T PROVE FALSE
  OBVIOUS
<1> DEFINE B == {0..n : n \in Nat \ T}
<1>1. IsWellFoundedOn(StrictSubsetOrdering(Nat), FiniteSubsetsOf(Nat))
  BY FS_StrictSubsetOrderingWellFounded
<1>2. B \subseteq FiniteSubsetsOf(Nat) /\ B # {}
  <2>1. ASSUME NEW n \in Nat \ T PROVE 0..n \in FiniteSubsetsOf(Nat)
    <3>1. n \in Int /\ 0 \in Int /\ 0..n \in SUBSET Nat
      OBVIOUS
    <3> QED BY <3>1, FS_Interval DEF FiniteSubsetsOf
  <2>2. 0..z \in B
    OBVIOUS
  <2> QED BY <2>1, <2>2
<1>3. PICK X \in B : \A Y \in B : ~ (<<Y, X>> \in StrictSubsetOrdering(Nat))
  <2> HIDE DEF B
  <2> QED BY <1>1, <1>2, WFMin
<1>4. PICK n \in Nat \ T : X = 0..n
  BY <1>3
<1>5. n # 0 /\ n - 1 \in Nat /\ n = (n - 1) + 1
  BY <1>4
<1>6. n - 1 \notin T
  BY <1>4, <1>5
<1>7. 0..n - 1 \in B
  BY <1>5, <1>6
<1>8. <<0..n - 1, 0..n>> \in StrictSubsetOrdering(Nat)
  <2>1. 0..n - 1 \subseteq 0..n /\ n \in 0..n /\ n \notin 0..n - 1 /\ 0..n - 1 \in SUBSET Nat /\ 0..n \in SUBSET Nat
    BY <1>5
  <2> QED BY <2>1 DEF StrictSubsetOrdering
<1> QED BY <1>3, <1>4, <1>7, <1>8

(* Every set of naturals that is not empty has a least element. *)
LEMMA LeastNatural ==
  ASSUME NEW S \in SUBSET Nat, S # {}
  PROVE  \E m \in S : \A k \in S : m <= k
<1> DEFINE T == {n \in Nat : \A k \in S : k >= n}
<1> SUFFICES ASSUME \A m \in S : \E k \in S : k < m PROVE FALSE
  OBVIOUS
<1>1. 0 \in T
  OBVIOUS
<1>2. ASSUME NEW n \in T PROVE n + 1 \in T
  <2>1. n \notin S
    OBVIOUS
  <2> QED BY <2>1
<1>3. T = Nat
  <2>1. T \in SUBSET Nat
    OBVIOUS
  <2> HIDE DEF T
  <2> QED BY <1>1, <1>2, <2>1, CountingUp
<1>4. PICK k \in S : TRUE
  OBVIOUS
<1>5. k + 1 \in T
  BY <1>3
<1> QED BY <1>5

(* A recursive function on 0..n whose value is computed from the one before. *)
StepFunctions(n, V) == [1..n -> [V -> V]]
Runs(f, n, V, base, step) ==
    f \in [0..n -> V] /\ f[0] = base /\ \A i \in 1..n : f[i] = step[i][f[i - 1]]

LEMMA StepByStep ==
  ASSUME NEW n \in Nat, NEW V, NEW base \in V, NEW step \in StepFunctions(n, V)
  PROVE  \E f : Runs(f, n, V, base, step)
<1> DEFINE T == {k \in Nat : k <= n => \E f : Runs(f, k, V, base, step)}
<1>1. 0 \in T
  <2> DEFINE g == [i \in 0..0 |-> base]
  <2>1. g \in [0..0 -> V] /\ g[0] = base /\ 1..0 = {}
    OBVIOUS
  <2>2. Runs(g, 0, V, base, step)
    BY <2>1 DEF Runs
  <2> QED BY <2>2
<1>2. ASSUME NEW k \in T PROVE k + 1 \in T
  <2>1. SUFFICES ASSUME k + 1 <= n PROVE \E f : Runs(f, k + 1, V, base, step)
    OBVIOUS
  <2>2. PICK g : Runs(g, k, V, base, step)
    BY <2>1
  <2>3. k \in Nat /\ k + 1 \in 1..n /\ k \in 0..k
    BY <2>1
  <2>4. step[k + 1] \in [V -> V] /\ g[k] \in V
    BY <2>2, <2>3 DEF Runs, StepFunctions
  <2>5. step[k + 1][g[k]] \in V
    BY <2>4
  <2> DEFINE h == [i \in 0..k + 1 |-> IF i = k + 1 THEN step[k + 1][g[k]] ELSE g[i]]
  <2>6. h \in [0..k + 1 -> V]
    BY <2>2, <2>3, <2>5 DEF Runs
  <2>7. h[0] = base
    BY <2>2, <2>3 DEF Runs
  <2>8. ASSUME NEW i \in 1..k + 1 PROVE h[i] = step[i][h[i - 1]]
    <3>1. CASE i = k + 1
      BY <2>3, <3>1
    <3>2. CASE i \in 1..k
      <4>1. h[i] = g[i] /\ h[i - 1] = g[i - 1] /\ g[i] = step[i][g[i - 1]]
        BY <2>2, <2>3, <3>2 DEF Runs
      <4> QED BY <4>1
    <3> QED BY <2>3, <3>1, <3>2
  <2> HIDE DEF h
  <2>9. Runs(h, k + 1, V, base, step)
    BY <2>6, <2>7, <2>8 DEF Runs
  <2> QED BY <2>9
<1>3. T = Nat
  <2>1. T \subseteq Nat
    OBVIOUS
  <2> HIDE DEF T
  <2> QED BY <1>1, <1>2, <2>1, CountingUp
<1>4. n \in T
  BY <1>3
<1> QED BY <1>4

(* It stays in the set of its values. *)
LEMMA StepsStay ==
  ASSUME NEW n \in Nat, NEW V, NEW g, g[0] \in V, \A i \in 1..n : g[i - 1] \in V => g[i] \in V
  PROVE  \A i \in 0..n : g[i] \in V
<1> DEFINE T == {k \in Nat : k <= n => g[k] \in V}
<1>1. 0 \in T
  OBVIOUS
<1>2. ASSUME NEW k \in T PROVE k + 1 \in T
  <2>1. SUFFICES ASSUME k + 1 <= n PROVE g[k + 1] \in V
    OBVIOUS
  <2>2. k + 1 \in 1..n /\ (k + 1) - 1 = k /\ g[k] \in V
    BY <2>1
  <2> QED BY <2>2
<1>3. T = Nat
  <2>1. T \subseteq Nat
    OBVIOUS
  <2> HIDE DEF T
  <2> QED BY <1>1, <1>2, <2>1, CountingUp
<1> QED BY <1>3

-----------------------------------------------------------------------------
(* The sampled and the daily files of the archive. *)
(* An appended file whose lines hold nothing but elements of X; half a line is
   written onto an existing end. *)
FileOf(X) == {f \in [lines : Seq(SUBSET X), cut : BOOLEAN] : f.cut => f.lines # << >>}

LEMMA FileIsWider ==
  ASSUME NEW X, NEW Y, X \subseteq Y, NEW f \in FileOf(X)
  PROVE  f \in FileOf(Y)
<1>1. f.lines \in Seq(SUBSET Y)
  <2>1. f.lines \in Seq(SUBSET X) /\ Len(f.lines) \in Nat
    BY DEF FileOf
  <2>2. \A i \in 1..Len(f.lines) : f.lines[i] \in SUBSET Y
    BY <2>1
  <2> QED BY <2>1, <2>2
<1> QED BY <1>1 DEF FileOf

LEMMA RowsOfFile ==
  ASSUME NEW X, NEW f \in FileOf(X)
  PROVE  RowsIn(f) \subseteq X
BY DEF RowsIn, Range, FileOf

LEMMA NoLinesIsFile == \A X : NoLines \in FileOf(X) /\ Len(NoLines.lines) = 0
BY DEF NoLines, FileOf

LEMMA FrontOf ==
  ASSUME NEW X, NEW s \in Seq(X), s # << >>
  PROVE  Front(s) \in Seq(X) /\ Len(Front(s)) = Len(s) - 1
<1>1. Len(s) \in Nat /\ Len(s) > 0 /\ Len(s) - 1 \in 0..Len(s)
  OBVIOUS
<1> DEFINE n == Len(s) - 1
           front == SubSeq(s, 1, n)
<1>2. 1 \in Int /\ n \in Nat /\ \A i \in 1..n : s[i] \in X
  BY <1>1
<1> HIDE DEF n
<1>3. front \in Seq(X) /\ Len(front) = IF 1 <= n THEN n - 1 + 1 ELSE 0
  BY <1>2, SubSeqProperties
<1> HIDE DEF front
<1>4. Len(front) = n
  BY <1>2, <1>3
<1> QED BY <1>3, <1>4 DEF Front, front, n

(* Appending: the file stays one, and no longer than the lines given to it. *)
Fits(after, f, items, X) ==
    after \in FileOf(X) /\ Len(after.lines) <= Len(f.lines) + Len(items) /\ (items # << >> => after.lines # << >>)

LEMMA AppendedIsFile ==
  ASSUME NEW X, NEW f \in FileOf(X), NEW items \in Seq(X)
  PROVE  Fits(Appended(f, items), f, items, X)
<1> DEFINE new == [i \in DOMAIN items |-> {items[i]}]
           after == Appended(f, items)
<1>1. new \in Seq(SUBSET X) /\ Len(new) = Len(items) /\ Len(items) \in Nat /\ (new = << >> <=> items = << >>)
  <2>1. Len(items) \in Nat /\ DOMAIN items = 1..Len(items) /\ \A i \in 1..Len(items) : {items[i]} \in SUBSET X
    OBVIOUS
  <2> QED BY <2>1
<1>2. f.lines \in Seq(SUBSET X) /\ Len(f.lines) \in Nat /\ f.cut \in BOOLEAN /\ (f.cut => f.lines # << >>)
      /\ f \in [lines : Seq(SUBSET X), cut : BOOLEAN]
  BY DEF FileOf
<1>3. after = IF new = << >> THEN f
              ELSE IF ~f.cut THEN [f EXCEPT !.lines = @ \o new]
              ELSE [lines |-> Front(f.lines) \o <<HalfLine>> \o Tail(new), cut |-> FALSE]
  BY DEF Appended
<1> HIDE DEF new, after
<1>4. ASSUME new = << >> PROVE Fits(after, f, items, X)
  <2>1. after = f
    BY <1>3, <1>4
  <2> QED BY <1>1, <1>2, <1>4, <2>1 DEF Fits
<1>5. ASSUME new # << >> /\ ~f.cut PROVE Fits(after, f, items, X)
  <2> DEFINE lines == f.lines \o new
  <2>1. lines \in Seq(SUBSET X) /\ Len(lines) = Len(f.lines) + Len(new) /\ Len(new) > 0
    BY <1>1, <1>2, <1>5
  <2>2. after = [f EXCEPT !.lines = lines]
    BY <1>3, <1>5
  <2> HIDE DEF lines
  <2>3. after \in [lines : Seq(SUBSET X), cut : BOOLEAN] /\ after.lines = lines /\ after.cut = f.cut
    BY <1>2, <2>1, <2>2
  <2>4. lines # << >>
    BY <1>1, <1>2, <2>1
  <2> QED BY <1>1, <1>2, <1>5, <2>1, <2>3, <2>4 DEF FileOf, Fits
<1>6. ASSUME new # << >> /\ f.cut PROVE Fits(after, f, items, X)
  <2> DEFINE lines == Front(f.lines) \o <<HalfLine>> \o Tail(new)
  <2>1. Front(f.lines) \in Seq(SUBSET X) /\ Len(Front(f.lines)) = Len(f.lines) - 1
    BY <1>2, <1>6, FrontOf
  <2>2. Tail(new) \in Seq(SUBSET X) /\ Len(Tail(new)) = Len(new) - 1
    BY <1>1, <1>6
  <2>3. <<HalfLine>> \in Seq(SUBSET X) /\ Len(<<HalfLine>>) = 1
    BY DEF HalfLine
  <2>4. Front(f.lines) \o <<HalfLine>> \in Seq(SUBSET X) /\ Len(Front(f.lines) \o <<HalfLine>>) = Len(f.lines)
    <3>1. /\ Front(f.lines) \o <<HalfLine>> \in Seq(SUBSET X)
          /\ Len(Front(f.lines) \o <<HalfLine>>) = Len(Front(f.lines)) + Len(<<HalfLine>>)
      BY <2>1, <2>3, ConcatProperties
    <3> QED BY <1>2, <2>1, <2>3, <3>1
  <2>5. lines \in Seq(SUBSET X) /\ Len(lines) = Len(f.lines) + Len(new) - 1
    <3> DEFINE first == Front(f.lines) \o <<HalfLine>>
    <3>1. first \in Seq(SUBSET X) /\ Len(first) = Len(f.lines)
      BY <2>4
    <3> HIDE DEF first
    <3>2. first \o Tail(new) \in Seq(SUBSET X) /\ Len(first \o Tail(new)) = Len(first) + Len(Tail(new))
      BY <2>2, <3>1, ConcatProperties
    <3> QED BY <1>1, <1>2, <2>2, <3>1, <3>2 DEF first
  <2>6. Len(f.lines) > 0 /\ Len(new) > 0
    BY <1>1, <1>2, <1>6
  <2>7. after = [lines |-> lines, cut |-> FALSE]
    BY <1>3, <1>6
  <2> HIDE DEF lines
  <2>8. lines # << >>
    BY <1>1, <1>2, <2>5, <2>6
  <2> QED BY <1>1, <1>2, <2>5, <2>7, <2>8 DEF FileOf, Fits
<1>7. (new = << >>) \/ (new # << >> /\ ~f.cut) \/ (new # << >> /\ f.cut)
  BY <1>2
<1>8. Fits(after, f, items, X)
  BY <1>4, <1>5, <1>6, <1>7
<1> QED BY <1>8 DEF after

LEMMA CutShortIsFile ==
  ASSUME NEW X, NEW f \in FileOf(X), NEW items \in Seq(X), NEW after \in CutShort(f, items)
  PROVE  after \in FileOf(X) /\ Len(after.lines) <= Len(f.lines) + Len(items)
<1> DEFINE first(k) == SubSeq(items, 1, k)
           upTo(k) == Appended(f, first(k))
<1>1. Len(items) \in Nat /\ Len(f.lines) \in Nat
  BY DEF FileOf
<1>2. ASSUME NEW k \in 0..Len(items)
      PROVE  /\ upTo(k) \in FileOf(X) /\ Len(upTo(k).lines) <= Len(f.lines) + Len(items)
             /\ k # 0 => upTo(k).lines # << >>
  <2>1. first(k) \in Seq(X) /\ Len(first(k)) = k
    <3>1. 1 \in Int /\ k \in Int /\ \A i \in 1..k : items[i] \in X
      BY <1>1
    <3>2. first(k) \in Seq(X) /\ Len(first(k)) = IF 1 <= k THEN k - 1 + 1 ELSE 0
      BY <3>1, SubSeqProperties
    <3> HIDE DEF first
    <3> QED BY <3>2
  <2> HIDE DEF first
  <2>2. k # 0 => first(k) # << >>
    BY <2>1
  <2>3. Fits(upTo(k), f, first(k), X)
    BY <2>1, AppendedIsFile
  <2> HIDE DEF upTo
  <2>4. Len(upTo(k).lines) \in Nat
    BY <2>3 DEF Fits, FileOf
  <2> QED BY <1>1, <2>1, <2>2, <2>3, <2>4 DEF Fits
<1>3. \/ \E k \in 0..Len(items) : after = upTo(k)
      \/ \E k \in 1..Len(items) : after = [upTo(k) EXCEPT !.cut = TRUE]
      \/ \E k \in 1..Len(items) : after = [lines |-> Append(Front(upTo(k).lines), HalfLine), cut |-> TRUE]
  BY DEF CutShort
<1> HIDE DEF upTo
<1>4. ASSUME NEW k \in 0..Len(items), after = upTo(k)
      PROVE  after \in FileOf(X) /\ Len(after.lines) <= Len(f.lines) + Len(items)
  BY <1>2, <1>4
<1>5. ASSUME NEW k \in 1..Len(items), after = [upTo(k) EXCEPT !.cut = TRUE]
      PROVE  after \in FileOf(X) /\ Len(after.lines) <= Len(f.lines) + Len(items)
  <2>1. k \in 0..Len(items) /\ k # 0
    BY <1>1
  <2>2. upTo(k) \in FileOf(X) /\ Len(upTo(k).lines) <= Len(f.lines) + Len(items) /\ upTo(k).lines # << >>
    BY <1>2, <2>1
  <2> QED BY <1>5, <2>2 DEF FileOf
<1>6. ASSUME NEW k \in 1..Len(items), after = [lines |-> Append(Front(upTo(k).lines), HalfLine), cut |-> TRUE]
      PROVE  after \in FileOf(X) /\ Len(after.lines) <= Len(f.lines) + Len(items)
  <2>1. k \in 0..Len(items) /\ k # 0
    BY <1>1
  <2>2. upTo(k) \in FileOf(X) /\ Len(upTo(k).lines) <= Len(f.lines) + Len(items) /\ upTo(k).lines # << >>
    BY <1>2, <2>1
  <2> DEFINE lines == upTo(k).lines
  <2>3. lines \in Seq(SUBSET X) /\ lines # << >> /\ Len(lines) <= Len(f.lines) + Len(items)
    BY <2>2 DEF FileOf
  <2> HIDE DEF lines
  <2>4. Front(lines) \in Seq(SUBSET X) /\ Len(Front(lines)) = Len(lines) - 1 /\ Len(lines) \in Nat
    BY <2>3, FrontOf
  <2>5. HalfLine \in SUBSET X
    BY DEF HalfLine
  <2>6. /\ Append(Front(lines), HalfLine) \in Seq(SUBSET X) /\ Len(Append(Front(lines), HalfLine)) = Len(lines)
        /\ Append(Front(lines), HalfLine) # << >>
    BY <2>4, <2>5
  <2>7. after = [lines |-> Append(Front(lines), HalfLine), cut |-> TRUE]
    BY <1>6 DEF lines
  <2> QED BY <2>3, <2>6, <2>7 DEF FileOf
<1> QED BY <1>3, <1>4, <1>5, <1>6

-----------------------------------------------------------------------------
(* A set of numbers up to n that is not empty has a greatest. *)
LEMMA MaxIsIn ==
  ASSUME NEW n \in Nat, NEW S \in SUBSET (0..n), S # {}
  PROVE  Max(S) \in S
<1> DEFINE below == {n - k : k \in S}
<1>1. below \in SUBSET Nat /\ below # {}
  <2>1. ASSUME NEW k \in S PROVE n - k \in Nat
    <3>1. k \in 0..n
      OBVIOUS
    <3> QED BY <3>1
  <2> QED BY <2>1
<1>2. PICK b \in below : \A c \in below : b <= c
  <2> HIDE DEF below
  <2> QED BY <1>1, LeastNatural
<1>3. PICK k \in S : b = n - k
  BY <1>2
<1>4. ASSUME NEW j \in S PROVE k >= j
  <2>1. n - k <= n - j
    BY <1>2, <1>3
  <2>2. k \in 0..n /\ j \in 0..n
    BY <1>3
  <2> QED BY <2>1, <2>2
<1>5. \E x \in S : \A y \in S : x >= y
  BY <1>4
<1> QED BY <1>5 DEF Max

LEMMA MinIsIn ==
  ASSUME NEW S \in SUBSET Nat, S # {}
  PROVE  Min(S) \in S
<1>1. \E x \in S : \A y \in S : x <= y
  BY LeastNatural
<1> QED BY <1>1 DEF Min

-----------------------------------------------------------------------------
TrueRows == {row \in [day : 1..today - 1, rank : 1..Ranks, sample : 1..skew.samples] :
                row.sample = LastTrusted(row.day, row.rank)}
RollType == [at : {"idle", "build", "load", "roll"}, cutoff : 0..today,
             done : SUBSET (1..skew.days), left : SUBSET (1..skew.days)]

SkewTypesInv ==
    /\ skew \in SkewCases /\ today \in 1..skew.days /\ torn \in 0..skew.crashes
    /\ raw \in [1..skew.days -> FileOf(Readings)]
    /\ \A d \in 1..skew.days : Len(raw[d].lines) <= skew.samples
    /\ roll \in [Rollers -> RollType]

(* Only the sampler appends samples, to the session under way; what is rolled
   up is older than it. *)
RollOK(t) == /\ roll[t].at = "build" => t = Sampler /\ roll[t].cutoff = today
             /\ roll[t].left \subseteq 1..roll[t].cutoff - 1
             /\ roll[t].at = "roll" => roll[t].left # {}

SkewInv == SkewTypesInv /\ daily \in FileOf(TrueRows) /\ \A t \in Rollers : RollOK(t)

LEMMA BoundsOfSkew ==
  ASSUME skew \in SkewCases
  PROVE  skew.days \in Nat /\ skew.days # 0 /\ skew.samples \in Nat /\ skew.crashes \in Nat /\ skew \in SkewCaseType
BY SkewCasesAssumption DEF SkewCaseType

LEMMA LastTrustedType ==
  ASSUME SkewTypesInv, NEW d \in 1..skew.days, NEW e
  PROVE  LastTrusted(d, e) \in 0..skew.samples
<1> DEFINE Of(qualities) == {i \in DOMAIN raw[d].lines : \E sample \in raw[d].lines[i] : sample[e] \in qualities}
<1>1. skew.samples \in Nat
  BY BoundsOfSkew DEF SkewTypesInv
<1>2. Len(raw[d].lines) \in Nat /\ Len(raw[d].lines) <= skew.samples /\ DOMAIN raw[d].lines = 1..Len(raw[d].lines)
  BY DEF SkewTypesInv, FileOf
<1>3. \A q : Of(q) \in SUBSET (0..skew.samples)
  BY <1>1, <1>2
<1>4. LastTrusted(d, e) = IF Of({"clean"}) # {} THEN Max(Of({"clean"}))
                          ELSE IF Of({"degraded"}) # {} THEN Max(Of({"degraded"})) ELSE 0
  BY DEF LastTrusted
<1> HIDE DEF Of
<1>5. \A q : Of(q) # {} => Max(Of(q)) \in Of(q)
  BY <1>1, <1>3, MaxIsIn
<1>6. \A q : Of(q) # {} => Max(Of(q)) \in 0..skew.samples
  BY <1>3, <1>5
<1> QED BY <1>1, <1>4, <1>6

(* What a finished session is rolled up to. *)
LEMMA RollupDayIsTrue ==
  ASSUME SkewTypesInv, NEW d \in 1..today - 1
  PROVE  RollupDay(d) \in Seq(TrueRows)
<1> DEFINE row(e) == [day |-> d, rank |-> e, sample |-> LastTrusted(d, e)]
           rows[e \in 0..Ranks] ==
              IF e = 0 THEN << >>
              ELSE IF row(e).sample = 0 THEN rows[e - 1] ELSE Append(rows[e - 1], row(e))
           V == Seq(TrueRows)
           step == [e \in 1..Ranks |-> [seq \in V |-> IF row(e).sample = 0 THEN seq ELSE Append(seq, row(e))]]
<1>1. Ranks \in Nat /\ d \in 1..skew.days
  BY SkewAssumption, BoundsOfSkew DEF SkewTypesInv
<1>2. ASSUME NEW e \in 1..Ranks, NEW seq \in V
      PROVE  (IF row(e).sample = 0 THEN seq ELSE Append(seq, row(e))) \in V
  <2>1. CASE row(e).sample = 0
    BY <2>1
  <2>2. CASE row(e).sample # 0
    <3>1. LastTrusted(d, e) \in 0..skew.samples /\ skew.samples \in Nat /\ LastTrusted(d, e) # 0
      BY <1>1, <2>2, LastTrustedType, BoundsOfSkew DEF SkewTypesInv
    <3>2. row(e) \in TrueRows
      BY <3>1 DEF TrueRows
    <3> HIDE DEF row
    <3> QED BY <3>2, <2>2
  <2> QED BY <2>1, <2>2
<1>3. << >> \in V
  OBVIOUS
<1> HIDE DEF row, V
<1>4. PICK f : Runs(f, Ranks, V, << >>, step)
  <2>1. step \in StepFunctions(Ranks, V)
    BY <1>2 DEF StepFunctions
  <2> HIDE DEF step
  <2> QED BY <1>1, <1>3, <2>1, StepByStep
<1>5. f = [e \in 0..Ranks |-> IF e = 0 THEN << >>
                              ELSE IF row(e).sample = 0 THEN f[e - 1] ELSE Append(f[e - 1], row(e))]
  <2>1. ASSUME NEW e \in 1..Ranks
        PROVE  f[e] = IF row(e).sample = 0 THEN f[e - 1] ELSE Append(f[e - 1], row(e))
    <3>1. e - 1 \in 0..Ranks
      BY <1>1
    <3>2. f[e - 1] \in V /\ f[e] = step[e][f[e - 1]]
      BY <1>4, <3>1 DEF Runs
    <3> QED BY <3>2
  <2>2. f \in [0..Ranks -> V] /\ f[0] = << >>
    BY <1>4 DEF Runs
  <2>3. \A e \in 0..Ranks : e # 0 => e \in 1..Ranks
    BY <1>1
  <2> HIDE DEF step
  <2> QED BY <2>1, <2>2, <2>3
<1>6. rows = [e \in 0..Ranks |-> IF e = 0 THEN << >>
                                 ELSE IF row(e).sample = 0 THEN rows[e - 1] ELSE Append(rows[e - 1], row(e))]
  BY <1>5, Zenon
<1> HIDE DEF rows
<1>7. ASSUME NEW e \in 1..Ranks, rows[e - 1] \in V PROVE rows[e] \in V
  <2>1. e \in 0..Ranks /\ e # 0
    BY <1>1
  <2>2. rows[e] = IF row(e).sample = 0 THEN rows[e - 1] ELSE Append(rows[e - 1], row(e))
    BY <1>6, <2>1
  <2> QED BY <1>2, <1>7, <2>2
<1>8. rows[0] \in V /\ Ranks \in 0..Ranks
  <2>1. 0 \in 0..Ranks /\ Ranks \in 0..Ranks
    BY <1>1
  <2> QED BY <1>3, <1>6, <2>1
<1>9. rows[Ranks] \in V
  BY <1>1, <1>7, <1>8, StepsStay
<1>10. RollupDay(d) = rows[Ranks]
  BY DEF RollupDay, rows, row
<1> QED BY <1>9, <1>10 DEF V

(* No file of a finished session changes any more. *)
LEMMA RowsStayTrue ==
  ASSUME SkewTypesInv, skew' = skew, today' \in Nat, today <= today', \A d \in 1..today - 1 : raw'[d] = raw[d]
  PROVE  TrueRows \subseteq TrueRows'
<1>1. today \in Nat /\ 1..today - 1 \subseteq 1..today' - 1
  <2>1. today \in Nat
    <3>1. skew.days \in Nat /\ today \in 1..skew.days
      BY BoundsOfSkew DEF SkewTypesInv
    <3> QED BY <3>1
  <2>2. \A m, n \in Nat : m <= n => 1..m - 1 \subseteq 1..n - 1
    OBVIOUS
  <2> QED BY <2>1, <2>2
<1>2. \A d \in 1..today - 1 : \A e : LastTrusted(d, e)' = LastTrusted(d, e)
  BY DEF LastTrusted
<1> QED BY <1>1, <1>2 DEF TrueRows

(* The session a rolling thread is at, and what it appends. *)
LEMMA NewRowsAreTrue ==
  ASSUME SkewInv, NEW t \in Rollers, roll[t].at = "roll"
  PROVE  Oldest(t) \in roll[t].left /\ NewRows(t) \in Seq(TrueRows)
<1>1. /\ roll[t].left \subseteq 1..roll[t].cutoff - 1 /\ roll[t].left # {} /\ roll[t].cutoff \in 0..today /\ today \in Nat
  BY DEF SkewInv, SkewTypesInv, RollType, RollOK
<1>2. Oldest(t) \in roll[t].left
  BY <1>1, MinIsIn DEF Oldest
<1>3. Oldest(t) \in 1..today - 1
  BY <1>1, <1>2
<1>4. RollupDay(Oldest(t)) \in Seq(TrueRows)
  BY <1>3, RollupDayIsTrue DEF SkewInv
<1> QED BY <1>2, <1>4 DEF NewRows

-----------------------------------------------------------------------------
(* A step of one thread's call of ensure_rollup. *)
LEMMA OneRoll ==
  ASSUME SkewInv, NEW t \in Rollers, NEW call \in RollType, roll' = [roll EXCEPT ![t] = call], today' = today,
         call.at = "build" => t = Sampler /\ call.cutoff = today,
         call.left \subseteq 1..call.cutoff - 1, call.at = "roll" => call.left # {}
  PROVE  roll' \in [Rollers -> RollType] /\ \A u \in Rollers : RollOK(u)'
<1>1. roll' \in [Rollers -> RollType] /\ roll'[t] = call /\ \A u \in Rollers \ {t} : roll'[u] = roll[u]
  BY DEF SkewInv, SkewTypesInv
<1>2. ASSUME NEW u \in Rollers PROVE RollOK(u)'
  <2>1. CASE u = t
    BY <1>1, <2>1 DEF RollOK
  <2>2. CASE u # t
    BY <1>1, <2>2 DEF RollOK, SkewInv
  <2> QED BY <2>1, <2>2
<1> QED BY <1>1, <1>2

LEMMA NotRollingIsFine ==
  ASSUME SkewTypesInv
  PROVE  NotRolling \in RollType /\ NotRolling.left = {} /\ NotRolling.at = "idle" /\ 0 \in 0..today /\ today \in 0..today
BY DEF NotRolling, RollType, SkewTypesInv

(* Steps that leave the files, the date and the crashes alone. *)
LEMMA FilesKept ==
  ASSUME SkewInv, UNCHANGED <<skew, today, raw, daily, torn>>,
         roll' \in [Rollers -> RollType], \A u \in Rollers : RollOK(u)'
  PROVE  SkewInv'
<1>1. TrueRows' = TrueRows /\ RollType' = RollType
  BY DEF TrueRows, LastTrusted, RollType
<1> QED BY <1>1 DEF SkewInv, SkewTypesInv

LEMMA FinishedType ==
  ASSUME SkewInv, NEW t \in Rollers, NEW left \in SUBSET roll[t].left
  PROVE  /\ Finished(left, t) \in RollType /\ Finished(left, t).at \in {"idle", "roll"}
         /\ Finished(left, t).left \subseteq 1..Finished(left, t).cutoff - 1
         /\ Finished(left, t).at = "roll" => Finished(left, t).left # {}
<1>1. roll[t] \in RollType /\ left \subseteq 1..roll[t].cutoff - 1 /\ left \in SUBSET (1..skew.days)
  BY DEF SkewInv, SkewTypesInv, RollOK, RollType
<1>2. CASE left = {}
  BY <1>2, NotRollingIsFine DEF Finished, SkewInv
<1>3. CASE left # {}
  BY <1>1, <1>3 DEF Finished, RollType
<1> QED BY <1>2, <1>3

LEMMA TickStep == ASSUME SkewInv, TickBegins \/ BuildFails PROVE SkewInv'
<1>1. Sampler \in Rollers /\ roll[Sampler] \in RollType /\ RollOK(Sampler)
  BY DEF Rollers, SkewInv, SkewTypesInv
<1>2. CASE TickBegins
  <2> DEFINE call == [NotRolling EXCEPT !.at = "build", !.cutoff = today]
  <2>1. call \in RollType /\ call.at = "build" /\ call.cutoff = today /\ call.left = {}
    BY NotRollingIsFine DEF SkewInv, RollType, NotRolling
  <2>2. roll' = [roll EXCEPT ![Sampler] = call] /\ UNCHANGED <<skew, today, raw, daily, torn>>
    BY <1>2 DEF TickBegins
  <2> HIDE DEF call
  <2> QED BY <1>1, <2>1, <2>2, OneRoll, FilesKept
<1>3. CASE BuildFails
  <2> DEFINE call == [roll[Sampler] EXCEPT !.at = "load"]
  <2>1. call \in RollType /\ call.at = "load" /\ call.left \subseteq 1..call.cutoff - 1
    BY <1>1 DEF RollType, RollOK
  <2>2. roll' = [roll EXCEPT ![Sampler] = call] /\ UNCHANGED <<skew, today, raw, daily, torn>>
    BY <1>3 DEF BuildFails
  <2> HIDE DEF call
  <2> QED BY <1>1, <2>1, <2>2, OneRoll, FilesKept
<1> QED BY <1>2, <1>3

LEMMA AskStep == ASSUME SkewInv, NEW v \in Viewers, DailyAsked(v) PROVE SkewInv'
<1> DEFINE call == [NotRolling EXCEPT !.at = "load", !.cutoff = today]
<1>1. call \in RollType /\ call.at = "load" /\ call.left = {} /\ v \in Rollers
  BY NotRollingIsFine DEF SkewInv, RollType, NotRolling, Rollers
<1>2. roll' = [roll EXCEPT ![v] = call] /\ UNCHANGED <<skew, today, raw, daily, torn>>
  BY DEF DailyAsked
<1> HIDE DEF call
<1> QED BY <1>1, <1>2, OneRoll, FilesKept

LEMMA LoadStep == ASSUME SkewInv, NEW t \in Rollers, LoadDaily(t) PROVE SkewInv'
<1> DEFINE left == OldSessions(roll[t].cutoff)
           days == IF left = {} THEN {} ELSE {row.day : row \in RowsIn(daily)}
           call == [Finished(left, t) EXCEPT !.done = days]
<1>1. /\ roll[t] \in RollType /\ roll[t].at = "load" /\ today \in 1..skew.days /\ skew.days \in Nat
      /\ roll[t].cutoff \in 0..today
  BY BoundsOfSkew DEF SkewInv, SkewTypesInv, LoadDaily, RollType
<1>2. left \subseteq 1..roll[t].cutoff - 1 /\ left \in SUBSET (1..skew.days)
  BY <1>1 DEF OldSessions
<1>3. days \in SUBSET (1..skew.days)
  <2>1. RowsIn(daily) \subseteq TrueRows
    BY RowsOfFile DEF SkewInv
  <2>2. \A row \in TrueRows : row.day \in 1..skew.days
    BY <1>1 DEF TrueRows
  <2> QED BY <2>1, <2>2
<1>4. roll' = [roll EXCEPT ![t] = call] /\ UNCHANGED <<skew, today, raw, daily, torn>>
  BY DEF LoadDaily
<1> HIDE DEF left, days
<1>5. call \in RollType /\ call.left \subseteq 1..call.cutoff - 1 /\ call.at # "build"
      /\ (call.at = "roll" => call.left # {})
  <2>1. CASE left = {}
    BY <1>3, <2>1, NotRollingIsFine DEF Finished, SkewInv, RollType, NotRolling
  <2>2. CASE left # {}
    BY <1>1, <1>2, <1>3, <2>2 DEF Finished, RollType
  <2> QED BY <2>1, <2>2
<1> HIDE DEF call
<1> QED BY <1>4, <1>5, OneRoll, FilesKept

LEMMA RollStep == ASSUME SkewInv, NEW t \in Rollers, RollSession(t) PROVE SkewInv'
<1> DEFINE left == roll[t].left \ {Oldest(t)}
           call == Finished(left, t)
<1>1. NewRows(t) \in Seq(TrueRows)
  BY NewRowsAreTrue DEF RollSession
<1>2. daily' \in FileOf(TrueRows)
  <2>1. daily \in FileOf(TrueRows) /\ daily' = Appended(daily, NewRows(t))
    BY DEF SkewInv, RollSession
  <2> QED BY <1>1, <2>1, AppendedIsFile DEF Fits
<1>3. TrueRows' = TrueRows /\ RollType' = RollType
  BY DEF TrueRows, LastTrusted, RollType, RollSession
<1>4. roll' = [roll EXCEPT ![t] = call] /\ UNCHANGED <<skew, today, raw, torn>>
  <2>1. roll[t] = roll[t]
    OBVIOUS
  <2> QED BY DEF RollSession, SkewInv, SkewTypesInv
<1>5. left \in SUBSET roll[t].left
  OBVIOUS
<1> HIDE DEF left
<1>6. /\ call \in RollType /\ call.at # "build" /\ call.left \subseteq 1..call.cutoff - 1
      /\ call.at = "roll" => call.left # {}
  BY <1>5, FinishedType
<1> HIDE DEF call
<1>7. roll' \in [Rollers -> RollType] /\ \A u \in Rollers : RollOK(u)'
  BY <1>4, <1>6, OneRoll
<1> QED BY <1>2, <1>3, <1>4, <1>7 DEF SkewInv, SkewTypesInv

(* A sample, or what a crash leaves of one, at the end of today's file. *)
LEMMA SampleKept ==
  ASSUME SkewInv, NEW f \in FileOf(Readings), Len(f.lines) <= skew.samples, raw' = [raw EXCEPT ![today] = f],
         UNCHANGED <<skew, today, daily>>, torn' \in 0..skew.crashes,
         roll' \in [Rollers -> RollType], \A u \in Rollers : RollOK(u)'
  PROVE  SkewInv'
<1>1. /\ today \in 1..skew.days /\ today \in Nat /\ raw \in [1..skew.days -> FileOf(Readings)]
      /\ \A d \in 1..skew.days : Len(raw[d].lines) <= skew.samples
  BY BoundsOfSkew DEF SkewInv, SkewTypesInv
<1>2. /\ raw' \in [1..skew.days -> FileOf(Readings)]
      /\ \A d \in 1..skew.days : raw'[d] = IF d = today THEN f ELSE raw[d]
  BY <1>1
<1>3. \A d \in 1..skew.days : Len(raw'[d].lines) <= skew.samples
  BY <1>1, <1>2
<1>4. \A d \in 1..today - 1 : raw'[d] = raw[d]
  <2>1. \A d \in 1..today - 1 : d \in 1..skew.days /\ d # today
    <3>1. skew.days \in Nat
      BY BoundsOfSkew DEF SkewInv, SkewTypesInv
    <3> QED BY <1>1, <3>1
  <2> QED BY <1>2, <2>1
<1>5. TrueRows \subseteq TrueRows'
  BY <1>1, <1>4, RowsStayTrue DEF SkewInv
<1>6. daily' \in FileOf(TrueRows')
  BY <1>5, FileIsWider DEF SkewInv
<1>7. RollType' = RollType
  BY DEF RollType
<1> QED BY <1>2, <1>3, <1>6, <1>7 DEF SkewInv, SkewTypesInv

LEMMA SampleFits ==
  ASSUME SkewInv, roll[Sampler].at = "build", Len(raw[roll[Sampler].cutoff].lines) < skew.samples,
         NEW reading \in Readings
  PROVE  /\ roll[Sampler].cutoff = today /\ raw[today] \in FileOf(Readings) /\ Len(raw[today].lines) + 1 <= skew.samples
         /\ <<reading>> \in Seq(Readings) /\ Len(<<reading>>) = 1
<1>1. Sampler \in Rollers /\ today \in 1..skew.days /\ skew.samples \in Nat
  BY BoundsOfSkew DEF Rollers, SkewInv, SkewTypesInv
<1>2. roll[Sampler].cutoff = today /\ raw[today] \in FileOf(Readings)
  BY <1>1 DEF SkewInv, SkewTypesInv, RollOK
<1>3. Len(raw[today].lines) \in Nat
  BY <1>2 DEF FileOf
<1> QED BY <1>1, <1>2, <1>3

LEMMA AppendStep == ASSUME SkewInv, NEW reading \in Readings, AppendSample(reading) PROVE SkewInv'
<1>1. /\ roll[Sampler].cutoff = today /\ raw[today] \in FileOf(Readings) /\ Len(raw[today].lines) + 1 <= skew.samples
      /\ <<reading>> \in Seq(Readings) /\ Len(<<reading>>) = 1
  BY SampleFits DEF AppendSample
<1> DEFINE f == Appended(raw[today], <<reading>>)
           call == [roll[Sampler] EXCEPT !.at = "load"]
<1>2. raw' = [raw EXCEPT ![today] = f] /\ UNCHANGED <<skew, today, daily, torn>> /\ roll' = [roll EXCEPT ![Sampler] = call]
  BY <1>1 DEF AppendSample, SkewInv, SkewTypesInv
<1>3. Fits(f, raw[today], <<reading>>, Readings)
  BY <1>1, AppendedIsFile
<1>4. Sampler \in Rollers /\ roll[Sampler] \in RollType /\ RollOK(Sampler)
  BY DEF Rollers, SkewInv, SkewTypesInv
<1>5. call \in RollType /\ call.at = "load" /\ call.left \subseteq 1..call.cutoff - 1
  BY <1>4 DEF RollType, RollOK
<1> HIDE DEF f, call
<1>6. roll' \in [Rollers -> RollType] /\ \A u \in Rollers : RollOK(u)'
  BY <1>2, <1>4, <1>5, OneRoll
<1>7. f \in FileOf(Readings) /\ Len(f.lines) <= skew.samples
  <2>1. Len(f.lines) \in Nat /\ Len(raw[today].lines) \in Nat /\ skew.samples \in Nat
    BY <1>1, <1>3, BoundsOfSkew DEF Fits, FileOf, SkewInv, SkewTypesInv
  <2> QED BY <1>1, <1>3, <2>1 DEF Fits
<1>8. torn' \in 0..skew.crashes
  BY <1>2 DEF SkewInv, SkewTypesInv
<1> QED BY <1>2, <1>6, <1>7, <1>8, SampleKept

LEMMA DateStep == ASSUME SkewInv, NewDate PROVE SkewInv'
<1>1. /\ today \in 1..skew.days /\ skew.days \in Nat /\ today' = today + 1 /\ today' \in 1..skew.days
      /\ today \in Nat /\ UNCHANGED <<skew, raw, daily, roll, torn>>
  BY BoundsOfSkew DEF NewDate, SkewInv, SkewTypesInv
<1>2. daily' \in FileOf(TrueRows')
  <2>1. TrueRows \subseteq TrueRows'
    BY <1>1, RowsStayTrue DEF SkewInv
  <2> QED BY <1>1, <2>1, FileIsWider DEF SkewInv
<1>3. roll \in [Rollers -> RollType']
  <2>1. RollType \subseteq RollType'
    <3>1. 0..today \subseteq 0..today'
      BY <1>1
    <3> QED BY <1>1, <3>1 DEF RollType
  <2> QED BY <2>1 DEF SkewInv, SkewTypesInv
<1>4. ASSUME NEW t \in Rollers PROVE RollOK(t)'
  <2>1. RollOK(t) /\ roll[t].at # "build"
    BY DEF SkewInv, NewDate, RollOK
  <2> QED BY <1>1, <2>1 DEF RollOK
<1> QED BY <1>1, <1>2, <1>3, <1>4 DEF SkewInv, SkewTypesInv

LEMMA CrashStep == ASSUME SkewInv, ArchiveCrash PROVE SkewInv'
<1>1. torn' \in 0..skew.crashes /\ UNCHANGED <<skew, today>>
  BY BoundsOfSkew DEF ArchiveCrash, SkewInv, SkewTypesInv
<1>2. roll' \in [Rollers -> RollType] /\ \A u \in Rollers : RollOK(u)'
  <2>1. roll' = [t \in Rollers |-> NotRolling]
    BY DEF ArchiveCrash
  <2> QED BY <2>1, NotRollingIsFine DEF RollOK, SkewInv
<1>3. RollType' = RollType
  BY <1>1 DEF RollType
<1>4. CASE UNCHANGED <<raw, daily>>
  <2>1. TrueRows' = TrueRows
    BY <1>1, <1>4 DEF TrueRows, LastTrusted
  <2> QED BY <1>1, <1>2, <1>3, <1>4, <2>1 DEF SkewInv, SkewTypesInv
<1>5. CASE /\ roll[Sampler].at = "build" /\ Len(raw[roll[Sampler].cutoff].lines) < skew.samples
           /\ \E reading \in Readings : \E f \in CutShort(raw[roll[Sampler].cutoff], <<reading>>) :
                 raw' = [raw EXCEPT ![roll[Sampler].cutoff] = f]
           /\ UNCHANGED daily
  <2>1. PICK reading \in Readings : \E f \in CutShort(raw[roll[Sampler].cutoff], <<reading>>) :
                 raw' = [raw EXCEPT ![roll[Sampler].cutoff] = f]
    BY <1>5
  <2>2. /\ roll[Sampler].cutoff = today /\ raw[today] \in FileOf(Readings) /\ Len(raw[today].lines) + 1 <= skew.samples
        /\ <<reading>> \in Seq(Readings) /\ Len(<<reading>>) = 1
    BY <1>5, SampleFits
  <2>3. PICK f \in CutShort(raw[today], <<reading>>) : raw' = [raw EXCEPT ![today] = f]
    BY <2>1, <2>2
  <2>4. f \in FileOf(Readings) /\ Len(f.lines) <= Len(raw[today].lines) + Len(<<reading>>)
    BY <2>2, CutShortIsFile
  <2>5. Len(f.lines) <= skew.samples
    <3>1. Len(f.lines) \in Nat /\ Len(raw[today].lines) \in Nat /\ skew.samples \in Nat
      BY <2>2, <2>4, BoundsOfSkew DEF FileOf, SkewInv, SkewTypesInv
    <3> QED BY <2>2, <2>4, <3>1
  <2> QED BY <1>1, <1>2, <1>5, <2>3, <2>4, <2>5, SampleKept
<1>6. CASE /\ \E t \in Rollers : roll[t].at = "roll" /\ daily' \in CutShort(daily, NewRows(t))
           /\ UNCHANGED raw
  <2>1. PICK t \in Rollers : roll[t].at = "roll" /\ daily' \in CutShort(daily, NewRows(t))
    BY <1>6
  <2>2. NewRows(t) \in Seq(TrueRows) /\ daily \in FileOf(TrueRows)
    BY <2>1, NewRowsAreTrue DEF SkewInv
  <2>3. daily' \in FileOf(TrueRows)
    BY <2>1, <2>2, CutShortIsFile
  <2>4. TrueRows' = TrueRows
    BY <1>1, <1>6 DEF TrueRows, LastTrusted
  <2> QED BY <1>1, <1>2, <1>3, <1>6, <2>3, <2>4 DEF SkewInv, SkewTypesInv
<1> QED BY <1>4, <1>5, <1>6 DEF ArchiveCrash

LEMMA SkewStarts == ASSUME SkewInit PROVE SkewInv
<1>1. skew \in SkewCases /\ skew.days \in Nat /\ skew.days # 0 /\ skew.samples \in Nat /\ skew.crashes \in Nat /\ today = 1
  BY BoundsOfSkew DEF SkewInit
<1>2. /\ raw \in [1..skew.days -> FileOf(Readings)] /\ daily \in FileOf(TrueRows)
      /\ \A d \in 1..skew.days : Len(raw[d].lines) <= skew.samples
  <2>1. raw = [d \in 1..skew.days |-> NoLines] /\ daily = NoLines
    BY DEF SkewInit
  <2>2. NoLines \in FileOf(Readings) /\ NoLines \in FileOf(TrueRows) /\ Len(NoLines.lines) = 0
    BY NoLinesIsFile
  <2> QED BY <1>1, <2>1, <2>2
<1>3. SkewTypesInv /\ \A t \in Rollers : RollOK(t)
  BY <1>1, <1>2 DEF SkewInit, SkewTypesInv, NotRolling, RollType, RollOK
<1> QED BY <1>2, <1>3 DEF SkewInv

LEMMA SkewStep == ASSUME SkewInv, [SkewNext]_skewVars PROVE SkewInv'
<1>1. Sampler \in Rollers /\ Viewers \subseteq Rollers
  BY DEF Rollers
<1>2. CASE SamplerSteps
  BY <1>1, <1>2, TickStep, AppendStep, LoadStep, RollStep DEF SamplerSteps
<1>3. CASE \E v \in Viewers : DailyAsked(v) \/ LoadDaily(v) \/ RollSession(v)
  BY <1>1, <1>3, AskStep, LoadStep, RollStep
<1>4. CASE UNCHANGED skewVars
  <2>1. TrueRows' = TrueRows /\ RollType' = RollType
    BY <1>4 DEF skewVars, TrueRows, LastTrusted, RollType
  <2> QED BY <1>4, <2>1 DEF skewVars, SkewInv, SkewTypesInv, RollOK
<1> QED BY <1>2, <1>3, <1>4, DateStep, CrashStep DEF SkewNext

LEMMA SkewInvHolds == SkewSpec => []SkewInv
BY SkewStarts, SkewStep, PTL DEF SkewSpec

(* The types of the archive, for every set of viewers, expiries and bounds
   (store.py:52, :63). *)
THEOREM ArchiveTypes == SkewSpec => []SkewTypeOK
<1>1. SkewInv => SkewTypeOK
  <2> SUFFICES ASSUME SkewInv PROVE SkewTypeOK
    OBVIOUS
  <2>1. \A d \in 1..skew.days : RowsIn(raw[d]) \subseteq Readings
    BY RowsOfFile DEF SkewInv, SkewTypesInv
  <2>2. RowsIn(daily) \subseteq TrueRows
    BY RowsOfFile DEF SkewInv
  <2>3. TrueRows \subseteq [day : 1..skew.days, rank : 1..Ranks, sample : 1..skew.samples]
    <3>1. 1..today - 1 \subseteq 1..skew.days
      BY BoundsOfSkew DEF SkewInv, SkewTypesInv
    <3> QED BY <3>1 DEF TrueRows
  <2>4. skew \in SkewCaseType
    BY BoundsOfSkew DEF SkewInv, SkewTypesInv
  <2> QED BY <2>1, <2>2, <2>3, <2>4 DEF SkewTypeOK, SkewInv, SkewTypesInv, RollType
<1> QED BY <1>1, SkewInvHolds, PTL

(* A row of the daily series is the last trustworthy reading of its whole
   session, whichever threads roll up at once and wherever a line is cut short
   (store.py:225, :278). *)
THEOREM RowsAreTrue == SkewSpec => []RowIsLastReading
<1>1. SkewInv => RowIsLastReading
  BY RowsOfFile DEF SkewInv, TrueRows, RowIsLastReading
<1> QED BY <1>1, SkewInvHolds, PTL

-----------------------------------------------------------------------------
(* The history of a session: sorting, locking and merging of reversals. *)
Sorted(seq) == \A i, j \in DOMAIN seq : i < j => seq[i] # seq[j] /\ seq[i].ts <= seq[j].ts
Sorting(seq, S) == seq \in [1..Cardinality(S) -> S] /\ Sorted(seq)

(* A set of reversals can be sorted by time, the earliest first and then the
   rest of the set. *)
LEMMA CanBeSorted ==
  ASSUME NEW S \in SUBSET Reversal, IsFiniteSet(S)
  PROVE  \E seq : Sorting(seq, S)
<1> DEFINE OfSize(n, R) == R \in SUBSET Reversal /\ IsFiniteSet(R) /\ Cardinality(R) = n
           T == {n \in Nat : \A R : OfSize(n, R) => \E seq : Sorting(seq, R)}
<1>1. 0 \in T
  <2> SUFFICES ASSUME NEW R, OfSize(0, R) PROVE \E seq : Sorting(seq, R)
    OBVIOUS
  <2> DEFINE none == [i \in 1..0 |-> i]
  <2>1. none \in [1..0 -> R] /\ DOMAIN none = {}
    OBVIOUS
  <2>2. Sorting(none, R)
    BY <2>1 DEF Sorting, Sorted
  <2> QED BY <2>2
<1>2. ASSUME NEW n \in T PROVE n + 1 \in T
  <2>1. SUFFICES ASSUME NEW R, OfSize(n + 1, R) PROVE \E seq : Sorting(seq, R)
    OBVIOUS
  <2>2. R # {}
    BY <2>1, FS_EmptySet
  <2>3. PICK m \in R : \A r \in R : m.ts <= r.ts
    <3> DEFINE times == {r.ts : r \in R}
    <3>1. times \in SUBSET Nat /\ times # {}
      BY <2>1, <2>2 DEF Reversal
    <3>2. PICK t \in times : \A u \in times : t <= u
      <4> HIDE DEF times
      <4> QED BY <3>1, LeastNatural
    <3> QED BY <3>2
  <2>4. OfSize(n, R \ {m})
    <3>1. IsFiniteSet(R \ {m}) /\ Cardinality(R \ {m}) = Cardinality(R) - 1
      BY <2>1, FS_RemoveElement
    <3>2. n \in Nat /\ Cardinality(R) - 1 = n
      BY <2>1
    <3> QED BY <2>1, <3>1, <3>2
  <2>5. PICK rest : Sorting(rest, R \ {m})
    BY <2>4
  <2>6. rest \in [1..n -> R \ {m}] /\ Sorted(rest)
    BY <2>4, <2>5 DEF Sorting
  <2> DEFINE seq == [i \in 1..n + 1 |-> IF i = 1 THEN m ELSE rest[i - 1]]
  <2>7. seq \in [1..n + 1 -> R]
    <3>1. ASSUME NEW i \in 1..n + 1, i # 1 PROVE rest[i - 1] \in R
      <4>1. i - 1 \in 1..n
        BY <3>1
      <4> QED BY <2>6, <4>1
    <3> QED BY <3>1
  <2>8. ASSUME NEW i \in 1..n + 1, NEW j \in 1..n + 1, i < j PROVE seq[i] # seq[j] /\ seq[i].ts <= seq[j].ts
    <3>1. j - 1 \in 1..n /\ seq[j] = rest[j - 1] /\ rest[j - 1] \in R \ {m}
      BY <2>6, <2>8
    <3>2. CASE i = 1
      BY <2>3, <3>1, <3>2
    <3>3. CASE i # 1
      <4>1. i - 1 \in 1..n /\ seq[i] = rest[i - 1] /\ i - 1 < j - 1
        BY <2>8, <3>3
      <4> QED BY <2>6, <3>1, <4>1 DEF Sorted
    <3> QED BY <3>2, <3>3
  <2> HIDE DEF seq
  <2>9. Sorting(seq, R)
    <3>1. Cardinality(R) = n + 1 /\ DOMAIN seq = 1..n + 1
      BY <2>1, <2>7
    <3> QED BY <2>7, <2>8, <3>1 DEF Sorting, Sorted
  <2> QED BY <2>9
<1>3. T = Nat
  <2>1. T \subseteq Nat
    OBVIOUS
  <2> HIDE DEF T
  <2> QED BY <1>1, <1>2, <2>1, CountingUp
<1>4. Cardinality(S) \in T
  BY <1>3, FS_CardinalityType
<1> QED BY <1>4

LEMMA ChronologicalSorts ==
  ASSUME NEW S \in SUBSET Reversal, IsFiniteSet(S)
  PROVE  /\ Chronological(S) \in Seq(S) /\ Len(Chronological(S)) = Cardinality(S)
         /\ Sorted(Chronological(S))
<1>1. \E seq \in [1..Cardinality(S) -> S] : Sorted(seq)
  BY CanBeSorted DEF Sorting
<1>2. Chronological(S) \in [1..Cardinality(S) -> S] /\ Sorted(Chronological(S))
  BY <1>1 DEF Chronological, Sorted
<1>3. Cardinality(S) \in Nat
  BY FS_CardinalityType
<1> QED BY <1>2, <1>3

-----------------------------------------------------------------------------
(* What the lock keeps of a set is of the set. *)
LEMMA LockKeepsSome ==
  ASSUME NEW S \in SUBSET Reversal, IsFiniteSet(S)
  PROVE  SameSideLock(S) \subseteq S
<1> DEFINE seq == Chronological(S)
           n == Len(seq)
           Locked(kept, r) == kept # << >> /\ Last(kept).side = r.side /\ r.ts - Last(kept).ts < Lock
           accepted[i \in 0..n] ==
              IF i = 0 THEN << >>
              ELSE IF Locked(accepted[i - 1], seq[i]) THEN accepted[i - 1] ELSE Append(accepted[i - 1], seq[i])
           step == [i \in 1..n |-> [kept \in Seq(S) |-> IF Locked(kept, seq[i]) THEN kept ELSE Append(kept, seq[i])]]
<1>1. seq \in Seq(S) /\ n \in Nat
  BY ChronologicalSorts
<1> HIDE DEF seq
<1>2. PICK f : Runs(f, n, Seq(S), << >>, step)
  <2>1. step \in StepFunctions(n, Seq(S))
    <3>1. ASSUME NEW i \in 1..n, NEW kept \in Seq(S)
          PROVE  (IF Locked(kept, seq[i]) THEN kept ELSE Append(kept, seq[i])) \in Seq(S)
      <4>1. seq[i] \in S
        BY <1>1
      <4> QED BY <4>1
    <3> HIDE DEF Locked
    <3> QED BY <3>1 DEF StepFunctions
  <2>2. << >> \in Seq(S)
    OBVIOUS
  <2> HIDE DEF step, n
  <2> QED BY <1>1, <2>1, <2>2, StepByStep
<1>3. f = [i \in 0..n |-> IF i = 0 THEN << >>
                          ELSE IF Locked(f[i - 1], seq[i]) THEN f[i - 1] ELSE Append(f[i - 1], seq[i])]
  <2>1. ASSUME NEW i \in 1..n
        PROVE  f[i] = IF Locked(f[i - 1], seq[i]) THEN f[i - 1] ELSE Append(f[i - 1], seq[i])
    <3>1. i - 1 \in 0..n
      BY <1>1
    <3> HIDE DEF Locked
    <3>2. f[i - 1] \in Seq(S)
      BY <1>2, <3>1 DEF Runs
    <3>3. f[i] = step[i][f[i - 1]]
      BY <1>2 DEF Runs
    <3> QED BY <3>2, <3>3
  <2>2. f \in [0..n -> Seq(S)] /\ f[0] = << >>
    BY <1>2 DEF Runs
  <2>3. \A i \in 0..n : i # 0 => i \in 1..n
    BY <1>1
  <2> HIDE DEF Locked, step, n
  <2> QED BY <2>1, <2>2, <2>3
<1>4. accepted = [i \in 0..n |-> IF i = 0 THEN << >>
                                 ELSE IF Locked(accepted[i - 1], seq[i]) THEN accepted[i - 1]
                                 ELSE Append(accepted[i - 1], seq[i])]
  BY <1>3, Zenon
<1>5. accepted[n] \in Seq(S)
  <2>1. ASSUME NEW i \in 1..n, accepted[i - 1] \in Seq(S) PROVE accepted[i] \in Seq(S)
    <3>1. seq[i] \in S /\ i \in 0..n /\ i # 0
      BY <1>1
    <3>2. accepted[i] = IF Locked(accepted[i - 1], seq[i]) THEN accepted[i - 1] ELSE Append(accepted[i - 1], seq[i])
      <4> HIDE DEF accepted, Locked, n
      <4> QED BY <1>4, <3>1
    <3> HIDE DEF accepted, Locked, n
    <3> QED BY <2>1, <3>1, <3>2
  <2>2. accepted[0] \in Seq(S)
    <3>1. 0 \in 0..n
      BY <1>1
    <3>2. accepted[0] = << >>
      <4> HIDE DEF accepted, Locked, n
      <4> QED BY <1>4, <3>1
    <3>3. << >> \in Seq(S)
      OBVIOUS
    <3> HIDE DEF accepted
    <3> QED BY <3>2, <3>3
  <2>3. n \in 0..n
    BY <1>1
  <2> HIDE DEF accepted, n
  <2> QED BY <1>1, <2>1, <2>2, <2>3, StepsStay
<1>6. SameSideLock(S) = Range(accepted[n])
  BY DEF SameSideLock, seq
<1> HIDE DEF accepted
<1> QED BY <1>5, <1>6 DEF Range
-----------------------------------------------------------------------------
(* What every merge keeps of the frozen reversals. *)
Keeps(old, new, now) ==
    \A r \in old : \E q \in new : q.ts = r.ts /\ q.side = r.side /\ (ConfirmOpen(r, now) \/ q.move = r.move)

LEMMA KeepsIsTransitive ==
  ASSUME NEW A, NEW B, NEW C, NEW now, Keeps(A, B, now), Keeps(B, C, now)
  PROVE  Keeps(A, C, now)
<1> SUFFICES ASSUME NEW r \in A
             PROVE  \E q \in C : q.ts = r.ts /\ q.side = r.side /\ (ConfirmOpen(r, now) \/ q.move = r.move)
  BY DEF Keeps
<1>1. PICK p \in B : p.ts = r.ts /\ p.side = r.side /\ (ConfirmOpen(r, now) \/ p.move = r.move)
  BY DEF Keeps
<1>2. PICK q \in C : q.ts = p.ts /\ q.side = p.side /\ (ConfirmOpen(p, now) \/ q.move = p.move)
  BY DEF Keeps
<1> QED BY <1>1, <1>2 DEF ConfirmOpen

LEMMA MergedKeeps ==
  ASSUME NEW frozen \in SUBSET Reversal, NEW c \in Reversal, NEW now \in Nat
  PROVE  Merged(frozen, c, now) \in SUBSET Reversal /\ Keeps(frozen, Merged(frozen, c, now), now)
<1> DEFINE same == SamePivot(c, frozen)
           r == CHOOSE r \in same : \A q \in same : Distance(r, c) <= Distance(q, c)
           again == [r EXCEPT !.move = IF ConfirmOpen(r, now) THEN c.move ELSE @, !.gex = c.gex]
<1>1. CASE same # {}
  <2>1. r \in same
    <3> DEFINE away == {Distance(q, c) : q \in same}
    <3>1. away \in SUBSET Nat /\ away # {}
      <4>1. ASSUME NEW q \in same PROVE Distance(q, c) \in Nat
        BY DEF SamePivot, Distance, Reversal
      <4> QED BY <1>1, <4>1
    <3>2. PICK d \in away : \A e \in away : d <= e
      <4> HIDE DEF away
      <4> QED BY <3>1, LeastNatural
    <3>3. \E q \in same : \A p \in same : Distance(q, c) <= Distance(p, c)
      BY <3>2
    <3> HIDE DEF same
    <3> QED BY <3>3
  <2>2. r \in frozen /\ r \in Reversal
    BY <2>1 DEF SamePivot
  <2>3. /\ again \in Reversal /\ again.ts = r.ts /\ again.side = r.side
        /\ ConfirmOpen(r, now) \/ again.move = r.move
    <3> HIDE DEF r
    <3> QED BY <2>2 DEF Reversal
  <2>4. Merged(frozen, c, now) = (frozen \ {r}) \cup {again}
    BY <1>1 DEF Merged
  <2> HIDE DEF r, again, same
  <2>5. Keeps(frozen, (frozen \ {r}) \cup {again}, now)
    BY <2>3 DEF Keeps
  <2> QED BY <2>3, <2>4, <2>5
<1>2. CASE same = {}
  <2>1. Merged(frozen, c, now) \in {frozen, frozen \cup {c}}
    BY <1>2 DEF Merged
  <2> QED BY <2>1 DEF Keeps
<1> QED BY <1>1, <1>2

(* The merge of all candidates, one after the other. *)
LEMMA ReconciledKeeps ==
  ASSUME NEW found \in SUBSET Reversal, IsFiniteSet(found), NEW frozen \in SUBSET Reversal, NEW now \in Nat
  PROVE  Reconciled(found, frozen, now) \in SUBSET Reversal /\ Keeps(frozen, Reconciled(found, frozen, now), now)
<1> DEFINE seq == Chronological(found)
           n == Len(seq)
           V == {S \in SUBSET Reversal : Keeps(frozen, S, now)}
           working[i \in 0..n] == IF i = 0 THEN frozen ELSE Merged(working[i - 1], seq[i], now)
           step == [i \in 1..n |-> [S \in V |-> Merged(S, seq[i], now)]]
<1>1. n \in Nat /\ \A i \in 1..n : seq[i] \in Reversal
  BY ChronologicalSorts
<1>2. ASSUME NEW i \in 1..n, NEW S \in V PROVE Merged(S, seq[i], now) \in V
  <2>1. seq[i] \in Reversal
    BY <1>1
  <2>2. Merged(S, seq[i], now) \in SUBSET Reversal /\ Keeps(S, Merged(S, seq[i], now), now)
    BY <2>1, MergedKeeps
  <2> QED BY <2>2, KeepsIsTransitive
<1>3. frozen \in V
  BY DEF Keeps
<1> HIDE DEF seq, V
<1>4. PICK f : Runs(f, n, V, frozen, step)
  <2>1. step \in StepFunctions(n, V)
    BY <1>2 DEF StepFunctions
  <2> HIDE DEF step, n
  <2> QED BY <1>1, <1>3, <2>1, StepByStep
<1>5. f = [i \in 0..n |-> IF i = 0 THEN frozen ELSE Merged(f[i - 1], seq[i], now)]
  <2>1. ASSUME NEW i \in 1..n PROVE f[i] = Merged(f[i - 1], seq[i], now)
    <3>1. i - 1 \in 0..n
      BY <1>1
    <3>2. f[i - 1] \in V /\ f[i] = step[i][f[i - 1]]
      BY <1>4, <3>1 DEF Runs
    <3> QED BY <3>2
  <2>2. f \in [0..n -> V] /\ f[0] = frozen
    BY <1>4 DEF Runs
  <2>3. \A i \in 0..n : i # 0 => i \in 1..n
    BY <1>1
  <2> HIDE DEF step, n
  <2> QED BY <2>1, <2>2, <2>3
<1>6. working = [i \in 0..n |-> IF i = 0 THEN frozen ELSE Merged(working[i - 1], seq[i], now)]
  BY <1>5, Zenon
<1> HIDE DEF working, n
<1>7. ASSUME NEW i \in 1..n, working[i - 1] \in V PROVE working[i] \in V
  <2>1. i \in 0..n /\ i # 0
    BY <1>1
  <2>2. working[i] = Merged(working[i - 1], seq[i], now)
    BY <1>6, <2>1
  <2> QED BY <1>2, <1>7, <2>2
<1>8. working[0] \in V /\ n \in 0..n
  <2>1. 0 \in 0..n /\ n \in 0..n
    BY <1>1
  <2> QED BY <1>3, <1>6, <2>1
<1>9. working[n] \in V
  BY <1>1, <1>7, <1>8, StepsStay
<1>10. Reconciled(found, frozen, now) = working[n]
  BY DEF Reconciled, working, n, seq
<1> QED BY <1>9, <1>10 DEF V
-----------------------------------------------------------------------------
FiniteFinds == {F \in SUBSET Reversal : IsFiniteSet(F)}
SnapshotType == [at : {"idle", "look", "append", "detect", "persist"}, now : 0..minute, found : FiniteFinds]

GammaTypesInv ==
    /\ session \in GammaCases /\ minute \in 0..LastMinute /\ readable \in BOOLEAN /\ spoils \in 0..session.spoils
    /\ points \in Seq(0..minute) /\ Len(points) <= MaxPoints
    /\ reversals \in SUBSET Reversal
    /\ snapshot \in [Snapshots -> SnapshotType]

GammaInv == GammaTypesInv /\ PointsApart

LEMMA NoFinds == {} \in FiniteFinds
BY FS_EmptySet DEF FiniteFinds

LEMMA BoundsOfGamma ==
  ASSUME GammaTypesInv
  PROVE  /\ minute \in Nat /\ spoils \in Nat /\ session.spoils \in Nat /\ LastMinute \in Nat
         /\ Interval \in Nat /\ Interval > 0 /\ MaxPoints \in Nat /\ MaxPoints > 0
         /\ session.swings \subseteq [ts : Nat, side : {"bullish", "bearish"}] /\ IsFiniteSet(session.swings)
         /\ session.live \subseteq Snapshots
<1>1. session \in GammaCases /\ LastMinute \in Nat
  BY GammaAssumption DEF GammaTypesInv
<1>2. session.spoils \in Nat /\ session.live \subseteq Snapshots /\ IsFiniteSet(session.swings)
      /\ session.swings \subseteq [ts : Nat, side : {"bullish", "bearish"}]
  BY <1>1, GammaAssumption
<1>3. {Interval, MaxPoints} \subseteq Nat \ {0}
  BY GammaAssumption
<1> QED BY <1>1, <1>2, <1>3 DEF GammaTypesInv

(* A point that is not too soon is appended, and the last MaxPoints are kept. *)
LEMMA AppendKeepsApart ==
  ASSUME GammaInv, NEW now \in 0..minute, ~TooSoon(now)
  PROVE  LET after == LastOf(Append(points, now))
         IN  /\ after \in Seq(0..minute) /\ Len(after) <= MaxPoints
             /\ \A i \in 2..Len(after) : after[i] - after[i - 1] >= Interval
<1> DEFINE all == Append(points, now)
           from == IF Len(all) > MaxPoints THEN Len(all) - MaxPoints + 1 ELSE 1
           after == SubSeq(all, from, Len(all))
<1>1. /\ minute \in Nat /\ Interval \in Nat /\ MaxPoints \in Nat /\ MaxPoints > 0 /\ points \in Seq(0..minute)
  BY BoundsOfGamma DEF GammaInv, GammaTypesInv
<1>2. /\ all \in Seq(0..minute) /\ Len(all) = Len(points) + 1 /\ Len(points) \in Nat /\ all[Len(points) + 1] = now
      /\ \A i \in 1..Len(points) : all[i] = points[i] /\ points[i] \in 0..minute
  BY <1>1
<1>3. \A i \in 2..Len(all) : all[i] - all[i - 1] >= Interval
  <2> SUFFICES ASSUME NEW i \in 2..Len(all) PROVE all[i] - all[i - 1] >= Interval
    OBVIOUS
  <2>1. CASE i = Len(points) + 1
    <3>1. points # << >> /\ all[i - 1] = points[Len(points)] /\ points[Len(points)] \in Int
      BY <1>2, <2>1
    <3>2. ~(now - points[Len(points)] < Interval)
      BY <3>1 DEF TooSoon, Last
    <3> HIDE DEF all
    <3> QED BY <1>1, <1>2, <2>1, <3>1, <3>2
  <2>2. CASE i \in 2..Len(points)
    <3>1. all[i] = points[i] /\ all[i - 1] = points[i - 1]
      BY <1>2, <2>2
    <3> HIDE DEF all
    <3> QED BY <2>2, <3>1 DEF GammaInv, PointsApart
  <2> HIDE DEF all
  <2> QED BY <1>2, <2>1, <2>2
<1> HIDE DEF all
<1>4. from \in 1..Len(all) /\ Len(all) - from + 1 <= MaxPoints
  BY <1>1, <1>2
<1> HIDE DEF from
<1>5. after \in Seq(0..minute) /\ Len(after) = Len(all) - from + 1 /\ \A i \in 1..Len(after) : after[i] = all[from + i - 1]
  BY <1>2, <1>4
<1> HIDE DEF after
<1>6. ASSUME NEW i \in 2..Len(after) PROVE after[i] - after[i - 1] >= Interval
  <2>1. from + i - 1 \in 2..Len(all) /\ (from + i - 1) - 1 = from + (i - 1) - 1 /\ i \in 1..Len(after) /\ i - 1 \in 1..Len(after)
    BY <1>2, <1>4, <1>5
  <2>2. after[i] = all[from + i - 1] /\ after[i - 1] = all[from + (i - 1) - 1]
    BY <1>5, <2>1
  <2>3. all[from + i - 1] - all[(from + i - 1) - 1] >= Interval
    BY <1>3, <2>1
  <2> QED BY <2>1, <2>2, <2>3
<1>7. LastOf(all) = after
  BY DEF LastOf, after, from
<1> QED BY <1>4, <1>5, <1>6, <1>7 DEF all

(* The swings a detection finds are reversals, and there are finitely many. *)
LEMMA DetectFinds ==
  ASSUME NEW seen, IsFiniteSet(seen), seen \subseteq [ts : Nat, side : {"bullish", "bearish"}],
         NEW move \in [seen -> Moves], NEW gex \in [seen -> BOOLEAN]
  PROVE  LET found == {[ts |-> p.ts, side |-> p.side, move |-> move[p], gex |-> gex[p]] : p \in seen}
         IN  SameSideLock(found) \in FiniteFinds
<1> DEFINE f == [p \in seen |-> [ts |-> p.ts, side |-> p.side, move |-> move[p], gex |-> gex[p]]]
           found == {[ts |-> p.ts, side |-> p.side, move |-> move[p], gex |-> gex[p]] : p \in seen}
<1>1. found \in SUBSET Reversal
  BY DEF Reversal
<1>2. f \in Surjection(seen, found)
  BY DEF Surjection
<1>3. IsFiniteSet(found)
  BY <1>2, FS_Surjection
<1> HIDE DEF found, f
<1>4. SameSideLock(found) \subseteq found
  BY <1>1, <1>3, LockKeepsSome
<1>5. IsFiniteSet(SameSideLock(found))
  BY <1>3, <1>4, FS_Subset
<1>6. SameSideLock(found) \in FiniteFinds
  BY <1>1, <1>4, <1>5 DEF FiniteFinds
<1> QED BY <1>6 DEF found
-----------------------------------------------------------------------------
(* The stages of a snapshot that leave the points and the reversals alone. *)
LEMMA SnapshotSteps ==
  ASSUME GammaInv, NEW s \in Snapshots, PointBegins(s) \/ PointLook(s) \/ Detect(s) \/ DetectFails(s)
  PROVE  snapshot' \in [Snapshots -> SnapshotType] /\ UNCHANGED <<session, minute, points, reversals, readable, spoils>>
<1>1. /\ snapshot \in [Snapshots -> SnapshotType] /\ snapshot[s] \in SnapshotType /\ minute \in 0..minute
      /\ 0 \in 0..minute /\ {} \in FiniteFinds
  BY NoFinds, BoundsOfGamma DEF GammaInv, GammaTypesInv
<1>2. CASE PointBegins(s)
  BY <1>1, <1>2 DEF PointBegins, SnapshotType, NoSnapshot
<1>3. CASE PointLook(s)
  BY <1>1, <1>3 DEF PointLook, AfterPoint, Become, SnapshotType, NoSnapshot
<1>4. CASE Detect(s)
  <2>1. PICK seen \in SUBSET {p \in session.swings : p.ts < minute} : \E move \in [seen -> Moves], gex \in [seen -> BOOLEAN] :
            LET found == {[ts |-> p.ts, side |-> p.side, move |-> move[p], gex |-> gex[p]] : p \in seen}
            IN  snapshot' = [snapshot EXCEPT ![s] = [NoSnapshot EXCEPT !.at = "persist", !.now = minute,
                                                                       !.found = SameSideLock(found)]]
    BY <1>4 DEF Detect
  <2>2. IsFiniteSet(seen) /\ seen \subseteq [ts : Nat, side : {"bullish", "bearish"}]
    BY BoundsOfGamma, FS_Subset DEF GammaInv
  <2>3. PICK F \in FiniteFinds : snapshot' = [snapshot EXCEPT ![s] = [NoSnapshot EXCEPT !.at = "persist", !.now = minute, !.found = F]]
    <3>1. PICK move \in [seen -> Moves], gex \in [seen -> BOOLEAN] :
            LET found == {[ts |-> p.ts, side |-> p.side, move |-> move[p], gex |-> gex[p]] : p \in seen}
            IN  snapshot' = [snapshot EXCEPT ![s] = [NoSnapshot EXCEPT !.at = "persist", !.now = minute,
                                                                       !.found = SameSideLock(found)]]
      BY <2>1
    <3> DEFINE F == SameSideLock({[ts |-> p.ts, side |-> p.side, move |-> move[p], gex |-> gex[p]] : p \in seen})
    <3>2. F \in FiniteFinds
      BY <2>2, DetectFinds
    <3>3. snapshot' = [snapshot EXCEPT ![s] = [NoSnapshot EXCEPT !.at = "persist", !.now = minute, !.found = F]]
      BY <3>1
    <3> HIDE DEF F
    <3> QED BY <3>2, <3>3
  <2> QED BY <1>1, <1>4, <2>3 DEF Detect, SnapshotType, NoSnapshot
<1>5. CASE DetectFails(s)
  BY <1>1, <1>5 DEF DetectFails, SnapshotType, NoSnapshot
<1> QED BY <1>2, <1>3, <1>4, <1>5 DEF PointBegins, PointLook, Detect, DetectFails

LEMMA PointAppendStep ==
  ASSUME GammaInv, NEW s \in Snapshots, PointAppend(s)
  PROVE  /\ snapshot' \in [Snapshots -> SnapshotType] /\ points' \in Seq(0..minute) /\ Len(points') <= MaxPoints
         /\ PointsApart' /\ UNCHANGED <<session, minute, reversals, readable, spoils>>
<1>1. snapshot[s] \in SnapshotType /\ snapshot \in [Snapshots -> SnapshotType] /\ 0 \in 0..minute /\ {} \in FiniteFinds
  BY NoFinds, BoundsOfGamma DEF GammaInv, GammaTypesInv
<1>2. snapshot' \in [Snapshots -> SnapshotType]
  BY <1>1 DEF PointAppend, AfterPoint, SnapshotType, NoSnapshot
<1>3. snapshot[s].now \in 0..minute
  BY <1>1 DEF SnapshotType
<1>4. CASE readable /\ ~TooSoon(snapshot[s].now)
  BY <1>2, <1>3, <1>4, AppendKeepsApart DEF PointAppend, PointsApart
<1>5. CASE ~(readable /\ ~TooSoon(snapshot[s].now))
  BY <1>2, <1>5 DEF PointAppend, PointsApart, GammaInv, GammaTypesInv
<1> QED BY <1>4, <1>5

LEMMA PersistStep ==
  ASSUME GammaInv, NEW s \in Snapshots, Persist(s)
  PROVE  /\ snapshot' \in [Snapshots -> SnapshotType] /\ reversals' \in SUBSET Reversal
         /\ Keeps(reversals, reversals', minute) /\ UNCHANGED <<session, minute, points, readable, spoils>>
<1>1. /\ snapshot[s] \in SnapshotType /\ snapshot \in [Snapshots -> SnapshotType] /\ 0 \in 0..minute /\ {} \in FiniteFinds
      /\ minute \in Nat /\ reversals \in SUBSET Reversal
  BY NoFinds, BoundsOfGamma DEF GammaInv, GammaTypesInv
<1>2. snapshot' \in [Snapshots -> SnapshotType]
  BY <1>1 DEF Persist, SnapshotType, NoSnapshot
<1>3. snapshot[s].found \in SUBSET Reversal /\ IsFiniteSet(snapshot[s].found)
  BY <1>1 DEF SnapshotType, FiniteFinds
<1>4. CASE readable
  <2>1. reversals' = Reconciled(snapshot[s].found, reversals, minute)
    BY <1>4 DEF Persist
  <2> QED BY <1>1, <1>2, <1>3, <2>1, ReconciledKeeps DEF Persist
<1>5. CASE ~readable
  BY <1>1, <1>2, <1>5 DEF Persist, Keeps
<1> QED BY <1>4, <1>5

LEMMA GammaStep ==
  ASSUME GammaInv, [GammaNext]_gammaVars
  PROVE  GammaInv' /\ Keeps(reversals, reversals', minute)
<1> USE DEF GammaInv, GammaTypesInv
<1>1. ASSUME NEW s \in session.live, PointBegins(s) \/ PointLook(s) \/ Detect(s) \/ DetectFails(s)
      PROVE  GammaInv' /\ Keeps(reversals, reversals', minute)
  <2>1. s \in Snapshots
    BY BoundsOfGamma
  <2> QED BY <1>1, <2>1, SnapshotSteps DEF PointsApart, SnapshotType, Keeps
<1>2. ASSUME NEW s \in session.live, PointAppend(s)
      PROVE  GammaInv' /\ Keeps(reversals, reversals', minute)
  <2>1. s \in Snapshots
    BY BoundsOfGamma
  <2> QED BY <1>2, <2>1, PointAppendStep DEF SnapshotType, Keeps
<1>3. ASSUME NEW s \in session.live, Persist(s)
      PROVE  GammaInv' /\ Keeps(reversals, reversals', minute)
  <2>1. s \in Snapshots
    BY BoundsOfGamma
  <2> QED BY <1>3, <2>1, PersistStep DEF SnapshotType, PointsApart
<1>4. CASE MinutePasses
  <2>1. 0..minute \subseteq 0..minute' /\ minute' \in 0..LastMinute
    BY <1>4, BoundsOfGamma DEF MinutePasses
  <2>2. snapshot' \in [Snapshots -> SnapshotType'] /\ points' \in Seq(0..minute')
    BY <1>4, <2>1 DEF MinutePasses, SnapshotType
  <2> QED BY <1>4, <2>1, <2>2 DEF MinutePasses, PointsApart, Keeps
<1>5. CASE Spoil
  <2>1. spoils' \in 0..session.spoils
    BY <1>5, BoundsOfGamma DEF Spoil
  <2> QED BY <1>5, <2>1 DEF Spoil, PointsApart, Keeps, SnapshotType
<1>6. CASE GammaCrash
  <2>1. spoils' \in 0..session.spoils
    BY <1>6, BoundsOfGamma DEF GammaCrash
  <2>2. snapshot' \in [Snapshots -> SnapshotType]
    <3>1. 0 \in 0..minute
      BY BoundsOfGamma
    <3> QED BY <1>6, <3>1, NoFinds DEF GammaCrash, SnapshotType, NoSnapshot
  <2> QED BY <1>6, <2>1, <2>2 DEF GammaCrash, PointsApart, Keeps, SnapshotType
<1>7. CASE UNCHANGED gammaVars
  BY <1>7 DEF gammaVars, PointsApart, Keeps, SnapshotType
<1> QED BY <1>1, <1>2, <1>3, <1>4, <1>5, <1>6, <1>7 DEF GammaNext

LEMMA GammaStarts == GammaInit => GammaInv
<1> SUFFICES ASSUME GammaInit PROVE GammaInv
  OBVIOUS
<1>1. session \in GammaCases /\ session.spoils \in Nat /\ LastMinute \in Nat /\ MaxPoints \in Nat
  BY GammaAssumption DEF GammaInit
<1>2. snapshot \in [Snapshots -> SnapshotType]
  BY NoFinds DEF GammaInit, SnapshotType, NoSnapshot
<1>3. points \in Seq(0..minute) /\ Len(points) = 0
  BY DEF GammaInit
<1> QED BY <1>1, <1>2, <1>3 DEF GammaInit, GammaInv, GammaTypesInv, PointsApart

LEMMA GammaInvHolds == GammaSpec => []GammaInv
BY GammaStarts, GammaStep, PTL DEF GammaSpec

(* The types of the session's history, for every set of snapshots, every day
   of swings and every time frame (gamma_density_history.py:97). *)
THEOREM HistoryTypes == GammaSpec => []GammaTypeOK
<1>1. GammaInv => GammaTypeOK
  <2> SUFFICES ASSUME GammaInv PROVE GammaTypeOK
    OBVIOUS
  <2>1. Range(points) \subseteq 0..minute
    BY DEF Range, GammaInv, GammaTypesInv
  <2> QED BY <2>1 DEF GammaInv, GammaTypesInv, GammaTypeOK, SnapshotType, FiniteFinds
<1> QED BY <1>1, GammaInvHolds, PTL

(* Two points of the trail are never closer than the interval, whichever
   snapshots append at once: the second look is taken under the lock
   (gamma_density_history.py:318). *)
THEOREM TrailIsSpaced == GammaSpec => []PointsApart
<1>1. GammaInv => PointsApart
  BY DEF GammaInv
<1> QED BY <1>1, GammaInvHolds, PTL

(* A reversal stays, and its move is frozen once its window is closed, through
   every merge of any candidates (gamma_density_history.py:988, :157). *)
THEOREM FrozenReversals == GammaSpec => ReversalsStay
<1>1. GammaInv /\ [GammaNext]_gammaVars =>
        [\A r \in reversals : \E q \in reversals' :
            q.ts = r.ts /\ q.side = r.side /\ (ConfirmOpen(r, minute) \/ q.move = r.move)]_gammaVars
  BY GammaStep DEF Keeps
<1> QED BY <1>1, GammaInvHolds, PTL DEF GammaSpec, ReversalsStay
=============================================================================
