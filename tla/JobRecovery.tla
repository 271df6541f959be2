----------------------------- MODULE JobRecovery -----------------------------
(***************************************************************************)
(* What becomes of one recorded job when API processes and workers come    *)
(* and go: reconcile_pending_jobs at the startup of every API process,     *)
(* arq's refusal of an id it knows, the rotation of the id, and the one    *)
(* retry of a failed job.                                                  *)
(*                                                                         *)
(* The job's row keeps its identity while its job_id changes; every id may *)
(* be queued and run by arq.  Rows of different threads share nothing, but   *)
(* a partial unique index allows one active row per thread: a second row of  *)
(* the thread stands for all that the index can turn against this one.  The  *)
(* submission and the cancellation of the job are in DiagnosisJobs.          *)
(***************************************************************************)
EXTENDS Naturals, FiniteSets

CONSTANTS
    Procs,       \* API processes
    MaxStarts,   \* bound: startups of API processes
    MaxTroubles  \* bound: killed processes, failing commands

ASSUME RecoveryAssumption == MaxStarts \in Nat /\ MaxTroubles \in Nat

\* _make_job_id: 1 is the id the job was submitted with; a startup makes at most
\* one more.
Ids == 1..(MaxStarts + 1)

VARIABLES
    row,         \* async_job_metas: job_id, status, _reconcile_auto_retry_used
    other,       \* the other rows of the thread
    registered,  \* the keys that register_job sets and unregister_task deletes
    arq,         \* per id: its job and result keys in Redis
    run,         \* per id: the next step of the worker that runs it
    proc,        \* per API process: its next step
    jobId,       \* per API process: the id it works with, listed or rotated to
    lastId,      \* the last id made
    starts, troubles,
    claims       \* history: successful claim_failed_job_startup_retry calls

arqVars  == <<arq, lastId>>
procVars == <<proc, jobId>>
countVars == <<starts, troubles>>
vars == <<row, other, registered, arqVars, run, procVars, countVars, claims>>

ActiveStatus == {"queued", "running"}
Status == ActiveStatus \cup {"succeeded", "failed"}
Rows == [id : Ids, status : Status, retryUsed : BOOLEAN]

\* The thread's other rows: one is active, or one failed and can still be claimed for its
\* retry, or there is none or only such as are done with.
OtherRow == {"none", "active", "failed"}

\* "kept": arq holds the result of the finished job for an hour.
ArqState == {"unknown", "queued", "inProgress", "kept"}

BeforeOutcome == {"markRunning", "body", "succeed", "fail"}
RunPC == {"none", "unregister", "finish"} \cup BeforeOutcome

\* "earlier..": what the loop will do with this row when it has got through the
\* rows that were updated before it.
Upcoming == [earlierClaim |-> "claim", earlierEnqueue |-> "enqueue"]
Reconciling == {"list", "claim", "enqueue", "rotate", "enqueueNew", "register"}
                 \cup DOMAIN Upcoming
ProcPC == {"up", "down"} \cup Reconciling

TypeOK ==
    /\ row \in Rows /\ other \in OtherRow
    /\ registered \in BOOLEAN
    /\ arq \in [Ids -> ArqState]
    /\ run \in [Ids -> RunPC]
    /\ proc \in [Procs -> ProcPC]
    /\ jobId \in [Procs -> Ids]
    /\ lastId \in Ids
    /\ starts \in 0..MaxStarts
    /\ troubles \in 0..MaxTroubles
    /\ claims \in Nat

\* The job has been submitted, recorded and registered; arq has it.  An earlier job
\* of the thread may have failed.
Submitted == [id |-> 1, status |-> "queued", retryUsed |-> FALSE]

Init ==
    /\ row = Submitted /\ other \in {"none", "failed"}
    /\ registered = TRUE
    /\ arq = [i \in Ids |-> IF i = 1 THEN "queued" ELSE "unknown"]
    /\ run = [i \in Ids |-> "none"]
    /\ proc = [p \in Procs |-> "up"]
    /\ jobId = [p \in Procs |-> 1]
    /\ lastId = 1
    /\ starts = 0 /\ troubles = 0 /\ claims = 0

\* ux_async_job_metas_thread_active: of a thread's rows one may be active.  A
\* statement that would make a second one raises.
RowIsActive == row.status \in ActiveStatus
OtherIsActive == other = "active"

-----------------------------------------------------------------------------
(* Startup of an API process                                                *)

MoveProc(p, from, to) == proc[p] = from /\ proc' = [proc EXCEPT ![p] = to]

\* A step that raises instead, or a process that is killed.
Trouble == troubles < MaxTroubles /\ troubles' = troubles + 1 /\ UNCHANGED starts

Startup(p) ==
    /\ starts < MaxStarts
    /\ MoveProc(p, "up", "list") \/ MoveProc(p, "down", "list")
    /\ starts' = starts + 1
    /\ UNCHANGED <<row, other, registered, arqVars, run, jobId, troubles, claims>>

\* Mutant: only what waits or failed is listed, as if running jobs went on by themselves.
RecoverableUnlessRunning ==
    row.status = "queued" \/ (row.status = "failed" /\ ~row.retryUsed)

\* Mutant: whether the job was retried is not asked.
RecoverableForGood == row.status # "succeeded"

Recoverable == RowIsActive \/ (row.status = "failed" /\ ~row.retryUsed)

\* list_recoverable_jobs, ordered by updated_at, and the loop's first branch: the
\* other row, when it is listed, may come first.
List(p) ==
    /\ \/ /\ Recoverable
          /\ \/ MoveProc(p, "list", IF RowIsActive THEN "enqueue" ELSE "claim")
             \/ /\ other = "failed"
                /\ MoveProc(p, "list", IF RowIsActive THEN "earlierEnqueue" ELSE "earlierClaim")
          /\ jobId' = [jobId EXCEPT ![p] = row.id]
       \/ ~Recoverable /\ MoveProc(p, "list", "up") /\ UNCHANGED jobId
    /\ UNCHANGED <<row, other, registered, arqVars, run, countVars, claims>>

\* Mutant: it sets a status nobody lists.
ClaimAsRetrying(p) ==
    /\ MoveProc(p, "claim", "enqueue")
    /\ row' = [row EXCEPT !.status = "retrying", !.retryUsed = TRUE]
    /\ claims' = claims + 1
    /\ UNCHANGED <<other, registered, arqVars, run, jobId, countVars>>

\* claim_failed_job_startup_retry: one UPDATE that checks what it changes.  The index
\* makes it raise, and nothing in reconcile_pending_jobs or the lifespan catches that:
\* the process does not come up, and the rows after this one are not looked at.
Claimable(p) == row.id = jobId[p] /\ row.status = "failed" /\ ~row.retryUsed
Claim(p) ==
    /\ \/ /\ Claimable(p) /\ ~OtherIsActive
          /\ MoveProc(p, "claim", "enqueue")
          /\ row' = [row EXCEPT !.status = "queued", !.retryUsed = TRUE]
          /\ claims' = claims + 1
       \/ /\ IF Claimable(p) THEN OtherIsActive /\ MoveProc(p, "claim", "down")
                             ELSE MoveProc(p, "claim", "up")
          /\ UNCHANGED <<row, claims>>
    /\ UNCHANGED <<other, registered, arqVars, run, jobId, countVars>>

\* The same for the other row, while this one waits for its turn.
ClaimEarlier(p) ==
    /\ \E pc \in DOMAIN Upcoming :
          \/ /\ other = "failed" /\ ~RowIsActive /\ other' = "active"
             /\ MoveProc(p, pc, Upcoming[pc])
          \/ /\ other = "failed" /\ RowIsActive /\ UNCHANGED other
             /\ MoveProc(p, pc, "down")
          \/ /\ other # "failed" /\ UNCHANGED other
             /\ MoveProc(p, pc, Upcoming[pc])
    /\ UNCHANGED <<row, registered, arqVars, run, jobId, countVars, claims>>

\* Mutant: a refused id is taken for one that is already under way.
EnqueueOrLeave(p) ==
    /\ \/ /\ arq[jobId[p]] = "unknown"
          /\ MoveProc(p, "enqueue", "register")
          /\ arq' = [arq EXCEPT ![jobId[p]] = "queued"]
       \/ arq[jobId[p]] # "unknown" /\ MoveProc(p, "enqueue", "up") /\ UNCHANGED arq
    /\ UNCHANGED <<row, other, registered, lastId, run, jobId, countVars, claims>>

\* enqueue_job with the recorded id: arq refuses an id whose job or result key
\* it still has, be the job queued, in progress or done.
EnqueueRecorded(p) ==
    /\ \/ /\ arq[jobId[p]] = "unknown"
          /\ MoveProc(p, "enqueue", "register")
          /\ arq' = [arq EXCEPT ![jobId[p]] = "queued"]
       \/ /\ arq[jobId[p]] # "unknown"
          /\ MoveProc(p, "enqueue", "rotate")
          /\ UNCHANGED arq
    /\ UNCHANGED <<row, other, registered, lastId, run, jobId, countVars, claims>>

\* Mutant: the new id is not recorded.
RotateUnrecorded(p) ==
    /\ lastId + 1 \in Ids
    /\ MoveProc(p, "rotate", "enqueueNew")
    /\ lastId' = lastId + 1
    /\ jobId' = [jobId EXCEPT ![p] = lastId + 1]
    /\ UNCHANGED <<row, other, registered, arq, run, countVars, claims>>

\* A new id, and rotate_async_job_id_in_meta: UPDATE .. WHERE job_id = the old one.
\* (The startups make at most MaxStarts ids, so one is left.)
Rotate(p) ==
    /\ lastId + 1 \in Ids
    /\ MoveProc(p, "rotate", "enqueueNew")
    /\ lastId' = lastId + 1
    /\ jobId' = [jobId EXCEPT ![p] = lastId + 1]
    /\ row' = IF row.id = jobId[p] THEN [row EXCEPT !.id = lastId + 1] ELSE row
    /\ UNCHANGED <<other, registered, arq, run, countVars, claims>>

\* The new id may be known already: another startup listed it meanwhile.  The
\* RuntimeError is logged by the loop.
EnqueueFresh(p) ==
    /\ \/ /\ arq[jobId[p]] = "unknown"
          /\ MoveProc(p, "enqueueNew", "register")
          /\ arq' = [arq EXCEPT ![jobId[p]] = "queued"]
       \/ arq[jobId[p]] # "unknown" /\ MoveProc(p, "enqueueNew", "up") /\ UNCHANGED arq
    /\ UNCHANGED <<row, other, registered, lastId, run, jobId, countVars, claims>>

Register(p) ==
    /\ MoveProc(p, "register", "up")
    /\ registered' = TRUE
    /\ UNCHANGED <<row, other, arqVars, run, jobId, countVars, claims>>

\* enqueue_job or the rotation raises; the loop logs it and goes on.
FailToEnqueue(p) ==
    /\ Trouble
    /\ \E pc \in {"enqueue", "rotate", "enqueueNew"} : MoveProc(p, pc, "up")
    /\ UNCHANGED <<row, other, registered, arqVars, run, jobId, claims>>

\* The process is killed, or the list or the claim raises out of its lifespan.
CrashProc(p) ==
    /\ Trouble
    /\ \E pc \in Reconciling : MoveProc(p, pc, "down")
    /\ UNCHANGED <<row, other, registered, arqVars, run, jobId, claims>>

-----------------------------------------------------------------------------
(* Workers                                                                  *)

MoveRun(i, from, to) == run[i] = from /\ run' = [run EXCEPT ![i] = to]

Mark(i, status) == row' = IF row.id = i THEN [row EXCEPT !.status = status] ELSE row

Take(i) ==
    /\ arq[i] = "queued"
    /\ MoveRun(i, "none", "markRunning")
    /\ arq' = [arq EXCEPT ![i] = "inProgress"]
    /\ UNCHANGED <<row, other, registered, lastId, procVars, countVars, claims>>

\* A row that is not active any more may meet the index; the except clause follows.
MarkRunning(i) ==
    /\ IF row.id = i /\ ~RowIsActive /\ OtherIsActive
       THEN MoveRun(i, "markRunning", "fail") /\ UNCHANGED row
       ELSE MoveRun(i, "markRunning", "body") /\ Mark(i, "running")
    /\ UNCHANGED <<other, registered, arqVars, procVars, countVars, claims>>

\* The body returns or raises; a worker told to stop raises into it.
Body(i) ==
    /\ MoveRun(i, "body", "succeed") \/ MoveRun(i, "body", "fail")
    /\ UNCHANGED <<row, other, registered, arqVars, procVars, countVars, claims>>

MarkOutcome(i) ==
    /\ \/ MoveRun(i, "succeed", "unregister") /\ Mark(i, "succeeded")
       \/ MoveRun(i, "fail", "unregister") /\ Mark(i, "failed")
    /\ UNCHANGED <<other, registered, arqVars, procVars, countVars, claims>>

Unregister(i) ==
    /\ MoveRun(i, "unregister", "finish")
    /\ registered' = FALSE
    /\ UNCHANGED <<row, other, arqVars, procVars, countVars, claims>>

Finish(i) ==
    /\ MoveRun(i, "finish", "none")
    /\ arq' = [arq EXCEPT ![i] = "kept"]
    /\ UNCHANGED <<row, other, registered, lastId, procVars, countVars, claims>>

\* The worker process dies: no except clause, no finally clause.
KillWorker(i) ==
    /\ Trouble
    /\ run[i] # "none"
    /\ run' = [run EXCEPT ![i] = "none"]
    /\ UNCHANGED <<row, other, registered, arqVars, procVars, claims>>

\* arq finds the job of a dead worker: max_tries = 1, so it fails it unrun.
GiveUp(i) ==
    /\ arq[i] = "inProgress" /\ run[i] = "none"
    /\ arq' = [arq EXCEPT ![i] = "kept"]
    /\ UNCHANGED <<row, other, registered, lastId, run, procVars, countVars, claims>>

ForgetResult(i) ==
    /\ arq[i] = "kept"
    /\ arq' = [arq EXCEPT ![i] = "unknown"]
    /\ UNCHANGED <<row, other, registered, lastId, run, procVars, countVars, claims>>

-----------------------------------------------------------------------------
\* The thread's other rows: a job is recorded, or claimed for its retry by a startup that
\* came to it after this row; a job fails, or is done with.
OtherJob ==
    /\ \/ ~OtherIsActive /\ ~RowIsActive /\ other' = "active"
       \/ OtherIsActive /\ other' \in {"failed", "none"}
    /\ UNCHANGED <<row, registered, arqVars, run, procVars, countVars, claims>>

Reconcile(p) == \/ List(p) \/ ClaimEarlier(p) \/ Claim(p) \/ EnqueueRecorded(p) \/ Rotate(p)
                \/ EnqueueFresh(p) \/ Register(p)
Work(i) == \/ Take(i) \/ MarkRunning(i) \/ Body(i) \/ MarkOutcome(i)
           \/ Unregister(i) \/ Finish(i)

Next ==
    \/ \E p \in Procs : Startup(p) \/ Reconcile(p) \/ FailToEnqueue(p) \/ CrashProc(p)
    \/ \E i \in Ids : Work(i) \/ KillWorker(i) \/ GiveUp(i) \/ ForgetResult(i)
    \/ OtherJob

Spec == Init /\ [][Next]_vars

\* A startup that began and a worker that took a job run on, and workers take
\* what is queued.  Nobody has to restart anything.
FairSpec == /\ Spec
            /\ \A p \in Procs : WF_vars(Reconcile(p))
            /\ \A i \in Ids : WF_vars(Work(i))

-----------------------------------------------------------------------------
(* Properties                                                               *)

\* A failed job is claimed for its retry once in its life, however many processes
\* start together, crash after the claim, or rotate the id.
RetriedOnce == claims = IF row.retryUsed THEN 1 ELSE 0

\* An active row is never orphaned by the rotations and retries of concurrent
\* startups: as long as nothing crashed, arq has a job that will mark this very
\* row, or a startup is about to enqueue one.
JobToCome ==
    \/ arq[row.id] = "queued"
    \/ arq[row.id] = "inProgress" /\ run[row.id] \in BeforeOutcome
    \/ \E p \in Procs : proc[p] \in {"enqueue", "rotate"} /\ jobId[p] = row.id
    \/ /\ arq[row.id] = "unknown"
       /\ \E p \in Procs : proc[p] = "enqueueNew" /\ jobId[p] = row.id
ActiveRowHasAJob == troubles = 0 /\ RowIsActive => JobToCome

\* Why it holds: a worker runs what arq has in progress, and without a crash arq
\* has nothing else in progress; an id is unknown to arq until it is made.
WorkersAndArqAgree ==
    \A i \in Ids :
        /\ run[i] # "none" => arq[i] = "inProgress"
        /\ arq[i] = "inProgress" /\ troubles = 0 => run[i] # "none"
IdsAreFresh ==
    /\ row.id <= lastId
    /\ \A p \in Procs : jobId[p] <= lastId
    /\ \A i \in Ids : i > lastId => arq[i] = "unknown"
RecoveryInv == WorkersAndArqAgree /\ IdsAreFresh /\ ActiveRowHasAJob

\* One startup after the last crash is enough to bring the job to an outcome, unless an
\* earlier job of the thread failed and has its retry left: the index then refuses that
\* claim for as long as this row is active, and every startup fails before its turn.
Settles ==
    \A p \in Procs :
        proc[p] = "list" /\ other # "failed" /\ troubles = MaxTroubles ~> ~RowIsActive

\* What RecordedJob promises one job holds of the rows, ids and keys: no startup takes
\* up a finished job or a second retry, no id is queued while it runs, only a run under
\* way changes what the row says, and none is the last that leaves the row without an
\* outcome, unless something crashed (reconcile_pending_jobs against the worker).
Found == {p \in Procs : proc[p] \in {"claim", "enqueue", "rotate", "enqueueNew"}
                                      \cup DOMAIN Upcoming}
Queued == {i \in Ids : arq[i] = "queued"}
ToReport == {i \in Ids : run[i] \in BeforeOutcome}
Promised == INSTANCE RecordedJob WITH
    Finders <- Procs, Runs <- Ids, status <- row.status, retries <- claims,
    found <- Found, waiting <- Queued, running <- ToReport, crashed <- troubles > 0
RecoversTheJob == Promised!Spec

\* Hence an outcome is final, but only once no startup has the job in hand, no run is
\* queued and none has yet to report; a row may well leave "succeeded" before that.
AtRest ==
    /\ row.status = "succeeded" \/ (row.status = "failed" /\ row.retryUsed)
    /\ Found = {} /\ Queued = {} /\ ToReport = {}
OutcomeIsFinal == [][AtRest => AtRest' /\ row' = row]_vars

\* A job is run by one worker at a time: arq's refusal of an id stands for a
\* leftover key of a finished job, as reenqueue_job says.
OneRunAtATime == Cardinality({i \in Ids : run[i] # "none"}) <= 1
=============================================================================
