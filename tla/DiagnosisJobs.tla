---------------------------- MODULE DiagnosisJobs ----------------------------
(***************************************************************************)
(* The life of the background jobs of a diagnosis thread, across the API   *)
(* processes that submit them, the arq workers that run them and the       *)
(* clients that cancel them.  They share only Redis keys (RunningTaskStore *)
(* of runtime/running_tasks.py), the arq queue and two Postgres tables.    *)
(* One action is one command to one of these stores: every `await` of a    *)
(* handler is a point where another process may step in.                   *)
(*                                                                         *)
(* A job is one arq job id.  A thread has one diagnosis job, the one that  *)
(* its start request enqueues, and the adoption and review jobs that later *)
(* requests enqueue for the same thread.                                   *)
(*                                                                         *)
(* Left out: the set tenant-threads (it feeds a listing and no decision    *)
(* taken here), the texts sent to clients, and the nodes' own work.        *)
(***************************************************************************)
EXTENDS Naturals, FiniteSets

CONSTANTS
    Threads,      \* diagnosis threads; generate_thread_id returns a fresh one
    Tenants,      \* enterprises
    Servers,      \* API processes
    Jobs,         \* arq job ids; _make_job_id returns a fresh one
    CancelCalls,  \* POST /diagnosis/{thread}/cancel requests
    TenantOf,     \* [Threads -> Tenants]
    ServerOf,     \* [Threads -> Servers]: who serves the start request
    JobKind,      \* [Jobs -> Kinds]
    JobThread,    \* [Jobs -> Threads]
    TrackLater,   \* settings.effect_track_delay_days > 0
    Faults,       \* the faults a run allows, a subset of FaultKinds
    NoThread      \* an absent key

Kinds == {"diagnosis", "adoption", "review"}

\* "redis": a command of RunningTaskStore raises, unexecuted, and is swallowed;
\* "lost":  arq accepts the job but enqueue_job raises (the answer is lost);
\* "pg":    a Postgres write that no handler expects to fail raises: create_job,
\*          the mark of an except clause, the UPDATE of a cancel request;
\* "ttl":   a key reaches its TTL while a job or a request still needs it;
\* "stop":  CancelledError falls into an except or a finally clause.
FaultKinds == {"redis", "lost", "pg", "ttl", "stop"}

IsDiagnosis(j) == JobKind[j] = "diagnosis"

ASSUME ConstantsAssumption ==
    /\ TenantOf \in [Threads -> Tenants]
    /\ ServerOf \in [Threads -> Servers]
    /\ JobKind \in [Jobs -> Kinds]
    /\ JobThread \in [Jobs -> Threads]
    /\ TrackLater \in BOOLEAN
    /\ Faults \subseteq FaultKinds
    /\ NoThread \notin Threads

\* A thread id is generated by the one request that starts the thread.
ASSUME OneDiagnosisPerThread ==
    \A i, j \in Jobs :
        IsDiagnosis(i) /\ IsDiagnosis(j) /\ JobThread[i] = JobThread[j] => i = j

VARIABLES
    \* Redis: task:running, task:tenant-active, task:cancel-requested, -lock
    runningKey, tenantActive, cancelRequested, cancelLock,
    \* Postgres: async_job_metas.status, diag_sessions.phase and whether its
    \* state_json names a pending_adopt_plan_id
    row, session, pendingPlan,
    \* API processes: _diagnosis_start_locks, and where each submission stands
    startLock, sub,
    \* arq and its workers: where each job stands, the phases it completed,
    \* and the tenant that unregister_task found
    job, phasesDone, tenantKnown,
    \* cancel requests
    cancelPc, cancelTarget,
    \* history: the jobs whose last look at the session, or last write of it, was
    \* followed by another job's write
    overtaken,
    \* history: whether a cancellation was requested while the job was live,
    \* before ("inTime") or after ("late") its worker's last look at the flag,
    \* and the phases that the job started since it was requested in time
    cancelAsked, phasesAfterCancel

redisVars  == <<runningKey, tenantActive, cancelRequested, cancelLock>>
sessionVars == <<session, overtaken>>
pgVars     == <<row, sessionVars, pendingPlan>>
apiVars    == <<startLock, sub>>
workerVars == <<job, phasesDone, tenantKnown>>
cancelVars == <<cancelPc, cancelTarget>>
histVars   == <<cancelAsked, phasesAfterCancel>>
vars == <<redisVars, pgVars, apiVars, workerVars, cancelVars, histVars>>

Tenant(j) == TenantOf[JobThread[j]]
StartLockOf(j) == <<ServerOf[JobThread[j]], Tenant(j)>>
Diagnoses == {j \in Jobs : IsDiagnosis(j)}

-----------------------------------------------------------------------------
(* Value sets                                                              *)

RowStatus == {"none", "queued", "running", "succeeded", "failed", "cancelled"}
ActiveStatus == {"queued", "running"}

Phases == {"none", "collecting", "diagnosing", "generating",
           "waiting_adoption", "executing", "waiting_track", "tracking",
           "completed", "failed"}
PhaseOf == <<"collecting", "diagnosing", "generating">>

\* A submission: the lines of _create_diagnosis_task, or of the tail of
\* adopt_plan_and_enqueue / start_immediate_review, that come next.
SubPC == {"idle", "check", "claim", "claimRead", "setPending", "enqueue", "record",
          "regRunning", "regActive", "relRead", "relDel",
          "accepted", "rejected", "error"}
SubOver == {"accepted", "rejected", "error"}

\* A job: not yet enqueued, in the arq queue, the body of the job function,
\* its except clauses, its finally clause (unregister_task), over.
BodyPC == {"markRunning", "create", "check", "startPhase", "runPhase",
           "finish", "resume", "enter", "work", "track", "decide",
           "markSucceeded", "markCancelled"}
ExceptPC == {"onCancel", "exceptCancelled", "exceptFailed"}
FinallyPC == {"lookup", "delRunning", "delCancel", "readActive", "delActive"}
JobPC == {"absent", "queued"} \cup BodyPC \cup ExceptPC \cup FinallyPC \cup {"over"}

\* A job whose worker has yet to read the cancel flag for the last time.
BeforeDecision == {"queued", "onCancel"} \cup
    (BodyPC \ {"markSucceeded", "markCancelled"})

Live(j) == job[j] \notin {"absent", "over"}

CancelPC == {"idle", "isRunning", "flag", "rows", "unlockOk", "unlockNo",
             "done", "refused"}

TypeOK ==
    /\ runningKey \in [Threads -> BOOLEAN]
    /\ tenantActive \in [Tenants -> Threads \cup {NoThread}]
    /\ cancelRequested \in [Threads -> BOOLEAN]
    /\ cancelLock \in [Threads -> BOOLEAN]
    /\ row \in [Jobs -> RowStatus]
    /\ session \in [Threads -> Phases]
    /\ pendingPlan \in [Threads -> BOOLEAN]
    /\ startLock \in SUBSET (Servers \X Tenants)
    /\ sub \in [Jobs -> SubPC]
    /\ job \in [Jobs -> JobPC]
    /\ phasesDone \in [Jobs -> 0..3]
    /\ tenantKnown \in [Jobs -> BOOLEAN]
    /\ cancelPc \in [CancelCalls -> CancelPC]
    /\ cancelTarget \in [CancelCalls -> Threads \cup {NoThread}]
    /\ cancelAsked \in [Jobs -> {"no", "late", "inTime"}]
    /\ phasesAfterCancel \in [Jobs -> Nat]
    /\ overtaken \in SUBSET Jobs

Init ==
    /\ runningKey = [t \in Threads |-> FALSE]
    /\ tenantActive = [k \in Tenants |-> NoThread]
    /\ cancelRequested = [t \in Threads |-> FALSE]
    /\ cancelLock = [t \in Threads |-> FALSE]
    /\ row = [j \in Jobs |-> "none"]
    /\ session = [t \in Threads |-> "none"]
    /\ pendingPlan = [t \in Threads |-> FALSE]
    /\ startLock = {}
    /\ sub = [j \in Jobs |-> "idle"]
    /\ job = [j \in Jobs |-> "absent"]
    /\ phasesDone = [j \in Jobs |-> 0]
    /\ tenantKnown = [j \in Jobs |-> FALSE]
    /\ cancelPc = [c \in CancelCalls |-> "idle"]
    /\ cancelTarget = [c \in CancelCalls |-> NoThread]
    /\ cancelAsked = [j \in Jobs |-> "no"]
    /\ phasesAfterCancel = [j \in Jobs |-> 0]
    /\ overtaken = {}

-----------------------------------------------------------------------------
(* Submission: POST /diagnosis/start, plan adoption, immediate review       *)

MoveSub(j, from, to) == sub[j] = from /\ sub' = [sub EXCEPT ![j] = to]

\* The start handler leaves its `async with lock` block when it returns.
EndStart(j, from, to) ==
    /\ MoveSub(j, from, to)
    /\ startLock' = startLock \ {StartLockOf(j)}

\* One start per tenant and process: asyncio.Lock of _get_tenant_diagnosis_start_lock.
AcquireStartLock(j) ==
    /\ IsDiagnosis(j)
    /\ StartLockOf(j) \notin startLock
    /\ MoveSub(j, "idle", "check")
    /\ startLock' = startLock \cup {StartLockOf(j)}
    /\ UNCHANGED <<redisVars, pgVars, workerVars, cancelVars, histVars>>

\* get_active_diagnosis_thread_for_tenant: an active thread ends the request
\* with 409; a Redis error reads as "none active".
CheckActive(j) ==
    /\ \/ /\ tenantActive[Tenant(j)] # NoThread
          /\ EndStart(j, "check", "rejected")
       \/ /\ tenantActive[Tenant(j)] = NoThread \/ "redis" \in Faults
          /\ MoveSub(j, "check", "claim")
          /\ UNCHANGED startLock
    /\ UNCHANGED <<redisVars, pgVars, workerVars, cancelVars, histVars>>

\* Mutant: the claim is SET without NX.
ClaimWithoutNX(j) ==
    /\ MoveSub(j, "claim", "enqueue")
    /\ tenantActive' = [tenantActive EXCEPT ![Tenant(j)] = JobThread[j]]
    /\ UNCHANGED <<runningKey, cancelRequested, cancelLock, pgVars, startLock,
                   workerVars, cancelVars, histVars>>

\* try_claim_tenant: SET NX; an exception lets the start proceed unclaimed.
ClaimTenant(j) ==
    /\ \/ /\ tenantActive[Tenant(j)] = NoThread
          /\ tenantActive' = [tenantActive EXCEPT ![Tenant(j)] = JobThread[j]]
          /\ MoveSub(j, "claim", "enqueue")
       \/ /\ tenantActive[Tenant(j)] # NoThread
          /\ MoveSub(j, "claim", "claimRead")
          /\ UNCHANGED tenantActive
       \/ /\ "redis" \in Faults
          /\ MoveSub(j, "claim", "enqueue")
          /\ UNCHANGED tenantActive
    /\ UNCHANGED <<runningKey, cancelRequested, cancelLock, pgVars, startLock,
                   workerVars, cancelVars, histVars>>

\* ... and the GET of the thread in the way, which the 409 names.
ReadClaimHolder(j) ==
    /\ EndStart(j, "claimRead", "rejected")
    /\ UNCHANGED <<redisVars, pgVars, workerVars, cancelVars, histVars>>

\* adopt_plan_and_enqueue reads the session: it must wait for an adoption and
\* none may be pending.
SubmitAdoption(j) ==
    /\ JobKind[j] = "adoption" /\ session[JobThread[j]] = "waiting_adoption"
    /\ ~pendingPlan[JobThread[j]]
    /\ MoveSub(j, "idle", "setPending")
    /\ UNCHANGED <<redisVars, pgVars, startLock, workerVars, cancelVars, histVars>>

\* ... and writes the pending plan, which stays when a later check (the 403 of
\* the permission service) ends the request.
SetPending(j) ==
    /\ JobKind[j] = "adoption"
    /\ MoveSub(j, "setPending", "enqueue") \/ MoveSub(j, "setPending", "error")
    /\ pendingPlan' = [pendingPlan EXCEPT ![JobThread[j]] = TRUE]
    /\ UNCHANGED <<redisVars, row, sessionVars, startLock, workerVars,
                   cancelVars, histVars>>

\* start_immediate_review reads the session, with no mark of its own.
SubmitReview(j) ==
    /\ JobKind[j] = "review"
    /\ session[JobThread[j]] \in {"waiting_track", "tracking"}
    /\ MoveSub(j, "idle", "enqueue")
    /\ UNCHANGED <<redisVars, pgVars, startLock, workerVars, cancelVars, histVars>>

\* A submission that raises: a start then runs release_tenant_claim.
RaiseSub(j, from) == MoveSub(j, from, IF IsDiagnosis(j) THEN "relRead" ELSE "error")

\* Mutant: the answer of enqueue_job is misread, an accepted job taken for refused.
EnqueueMisread(j) ==
    /\ MoveSub(j, "enqueue", "record") \/ RaiseSub(j, "enqueue")
    /\ job' = [job EXCEPT ![j] = "queued"]
    /\ UNCHANGED <<redisVars, pgVars, startLock, phasesDone, tenantKnown,
                   cancelVars, histVars>>

\* enqueue_job; it may raise before arq has the job, or ("lost") after.
Enqueue(j) ==
    /\ \/ /\ MoveSub(j, "enqueue", "record") \/ ("lost" \in Faults /\ RaiseSub(j, "enqueue"))
          /\ job' = [job EXCEPT ![j] = "queued"]
       \/ RaiseSub(j, "enqueue") /\ UNCHANGED job
    /\ UNCHANGED <<redisVars, pgVars, startLock, phasesDone, tenantKnown,
                   cancelVars, histVars>>

\* ux_async_job_metas_thread_active: no other row of the thread is active.  A statement
\* that would make a second one active raises.
ThreadFree(j) ==
    \A i \in Jobs : i # j /\ JobThread[i] = JobThread[j] => row[i] \notin ActiveStatus

\* create_job: INSERT .. ON CONFLICT (job_id) DO UPDATE SET status = 'queued'.  arq has
\* the job by then: when the INSERT raises, it runs without a row.
RecordJob(j) ==
    /\ \/ /\ ThreadFree(j) /\ MoveSub(j, "record", "regRunning")
          /\ row' = [row EXCEPT ![j] = "queued"]
       \/ /\ ~ThreadFree(j) \/ "pg" \in Faults
          /\ RaiseSub(j, "record") /\ UNCHANGED row
    /\ UNCHANGED <<redisVars, sessionVars, pendingPlan, startLock, workerVars,
                   cancelVars, histVars>>

\* The submission returns; a start also leaves its lock.
Accept(j, from) ==
    IF IsDiagnosis(j) THEN EndStart(j, from, "accepted")
    ELSE MoveSub(j, from, "accepted") /\ UNCHANGED startLock

\* register_job, first command: SET task:running.
RegisterRunning(j) ==
    /\ \/ /\ MoveSub(j, "regRunning", "regActive")
          /\ runningKey' = [runningKey EXCEPT ![JobThread[j]] = TRUE]
          /\ UNCHANGED startLock
       \/ "redis" \in Faults /\ Accept(j, "regRunning") /\ UNCHANGED runningKey
    /\ UNCHANGED <<tenantActive, cancelRequested, cancelLock, pgVars, workerVars,
                   cancelVars, histVars>>

\* register_job, second command: SET task:tenant-active, whatever it holds.
RegisterActive(j) ==
    /\ Accept(j, "regActive")
    /\ \/ tenantActive' = [tenantActive EXCEPT ![Tenant(j)] = JobThread[j]]
       \/ "redis" \in Faults /\ UNCHANGED tenantActive
    /\ UNCHANGED <<runningKey, cancelRequested, cancelLock, pgVars, workerVars,
                   cancelVars, histVars>>

\* release_tenant_claim: GET, then DELETE when the claim is this thread's.
ReadOwnClaim(j) ==
    /\ \/ /\ tenantActive[Tenant(j)] = JobThread[j]
          /\ MoveSub(j, "relRead", "relDel") /\ UNCHANGED startLock
       \/ /\ tenantActive[Tenant(j)] # JobThread[j] \/ "redis" \in Faults
          /\ EndStart(j, "relRead", "error")
    /\ UNCHANGED <<redisVars, pgVars, workerVars, cancelVars, histVars>>

DeleteOwnClaim(j) ==
    /\ EndStart(j, "relDel", "error")
    /\ \/ tenantActive' = [tenantActive EXCEPT ![Tenant(j)] = NoThread]
       \/ "redis" \in Faults /\ UNCHANGED tenantActive
    /\ UNCHANGED <<runningKey, cancelRequested, cancelLock, pgVars, workerVars,
                   cancelVars, histVars>>

-----------------------------------------------------------------------------
(* The arq worker: job_run_diagnosis, job_resume_after_adoption and         *)
(* job_resume_track_effects share one skeleton                              *)

MoveJob(j, from, to) == job[j] = from /\ job' = [job EXCEPT ![j] = to]

\* _mark: UPDATE .. WHERE job_id, which touches nothing before create_job.
Mark(j, status) ==
    row' = IF row[j] = "none" THEN row ELSE [row EXCEPT ![j] = status]

SetSession(j, phase) ==
    /\ session' = [session EXCEPT ![JobThread[j]] = phase]
    /\ overtaken' = (overtaken \cup {i \in Jobs : JobThread[i] = JobThread[j]}) \ {j}
    /\ UNCHANGED <<row, pendingPlan>>

\* Mutant: the worker skips a job that has no row yet.
TakeRecordedJob(j) ==
    /\ row[j] # "none" /\ MoveJob(j, "queued", "markRunning")
    /\ UNCHANGED <<redisVars, pgVars, apiVars, phasesDone, tenantKnown,
                   cancelVars, histVars>>

TakeJob(j) ==
    /\ MoveJob(j, "queued", "markRunning")
    /\ UNCHANGED <<redisVars, pgVars, apiVars, phasesDone, tenantKnown,
                   cancelVars, histVars>>

\* A row that a cancel request has ended may find another of the thread active.
MarkRunning(j) ==
    /\ IF row[j] \in {"none"} \cup ActiveStatus \/ ThreadFree(j)
       THEN /\ MoveJob(j, "markRunning", IF IsDiagnosis(j) THEN "create" ELSE "resume")
            /\ Mark(j, "running")
       ELSE MoveJob(j, "markRunning", "exceptFailed") /\ UNCHANGED row
    /\ UNCHANGED <<redisVars, sessionVars, pendingPlan, apiVars, phasesDone,
                   tenantKnown, cancelVars, histVars>>

\* create_session: an upsert that puts the session back to collecting.
CreateSession(j) ==
    /\ MoveJob(j, "create", "check")
    /\ SetSession(j, "collecting")
    /\ UNCHANGED <<redisVars, apiVars, phasesDone, tenantKnown, cancelVars,
                   histVars>>

\* is_cancel_requested; a Redis error reads as "not requested".
IfCancelRequested(j, from, yes, no) ==
    \/ cancelRequested[JobThread[j]] /\ MoveJob(j, from, yes)
    \/ ~cancelRequested[JobThread[j]] /\ MoveJob(j, from, no)
    \/ "redis" \in Faults /\ MoveJob(j, from, no)

\* Mutant: no look at the flag between two phases.
StartPhaseUnchecked(j) ==
    /\ MoveJob(j, "check", "startPhase")
    /\ UNCHANGED <<redisVars, pgVars, apiVars, phasesDone, tenantKnown,
                   cancelVars, histVars>>

\* Between two phases; a requested cancel raises CancelledError.
CheckCancel(j) ==
    /\ IfCancelRequested(j, "check", "onCancel", "startPhase")
    /\ UNCHANGED <<redisVars, pgVars, apiVars, phasesDone, tenantKnown,
                   cancelVars, histVars>>

StartPhase(j) ==
    /\ MoveJob(j, "startPhase", "runPhase")
    /\ SetSession(j, PhaseOf[phasesDone[j] + 1])
    /\ phasesAfterCancel' = IF cancelAsked[j] = "inTime"
                            THEN [phasesAfterCancel EXCEPT ![j] = @ + 1]
                            ELSE phasesAfterCancel
    /\ UNCHANGED <<redisVars, apiVars, phasesDone, tenantKnown, cancelVars,
                   cancelAsked>>

RunPhase(j) ==
    /\ MoveJob(j, "runPhase", IF phasesDone[j] = 2 THEN "finish" ELSE "check")
    /\ phasesDone' = [phasesDone EXCEPT ![j] = @ + 1]
    /\ UNCHANGED <<redisVars, pgVars, apiVars, tenantKnown, cancelVars, histVars>>

\* Mutant: a phase name that the enum does not know (the repository takes any str).
FinishInUnknownPhase(j) ==
    /\ MoveJob(j, "finish", "decide")
    /\ SetSession(j, "wait_adoption") \/ SetSession(j, "completed")
    /\ UNCHANGED <<redisVars, apiVars, phasesDone, tenantKnown, cancelVars, histVars>>

\* Anomalies with plans wait for an adoption; otherwise all is done.
FinishDiagnosis(j) ==
    /\ MoveJob(j, "finish", "decide")
    /\ SetSession(j, "waiting_adoption") \/ SetSession(j, "completed")
    /\ UNCHANGED <<redisVars, apiVars, phasesDone, tenantKnown, cancelVars, histVars>>

\* resume_after_adoption and resume_track_effects of core/diagnosis_engine.py
\* read the session; in an unexpected phase they log and return.
StartPhases(j) == IF JobKind[j] = "adoption" THEN {"waiting_adoption", "executing"}
                  ELSE {"waiting_track", "tracking"}

\* Mutant: the phase is not looked at.
ResumeInAnyPhase(j) ==
    /\ MoveJob(j, "resume", "enter")
    /\ overtaken' = overtaken \ {j}
    /\ UNCHANGED <<redisVars, row, session, pendingPlan, apiVars, phasesDone, tenantKnown,
                   cancelVars, histVars>>

Resume(j) ==
    /\ MoveJob(j, "resume", IF session[JobThread[j]] \in StartPhases(j)
                            THEN "enter" ELSE "decide")
    /\ overtaken' = overtaken \ {j}
    /\ UNCHANGED <<redisVars, row, session, pendingPlan, apiVars, phasesDone, tenantKnown,
                   cancelVars, histVars>>

\* ... and write the phase they enter, whatever the session has become.
EnterPhase(j) ==
    /\ \/ /\ JobKind[j] = "adoption"
          /\ MoveJob(j, "enter", "work") /\ SetSession(j, "executing")
       \/ /\ JobKind[j] = "review"
          /\ MoveJob(j, "enter", "track") /\ SetSession(j, "tracking")
    /\ UNCHANGED <<redisVars, apiVars, phasesDone, tenantKnown, cancelVars, histVars>>

\* The execution node, then the wait for tracking or tracking at once; the
\* service swallows the node's exception, so the job goes on to `decide`.
Work(j) ==
    /\ \/ TrackLater /\ SetSession(j, "waiting_track") /\ MoveJob(j, "work", "decide")
       \/ ~TrackLater /\ SetSession(j, "tracking") /\ MoveJob(j, "work", "track")
       \/ SetSession(j, "failed") /\ MoveJob(j, "work", "decide")
    /\ UNCHANGED <<redisVars, apiVars, phasesDone, tenantKnown, cancelVars,
                   histVars>>

Track(j) ==
    /\ MoveJob(j, "track", "decide")
    /\ SetSession(j, "completed") \/ SetSession(j, "failed")
    /\ UNCHANGED <<redisVars, apiVars, phasesDone, tenantKnown, cancelVars,
                   histVars>>

\* Mutant: a body that returned has succeeded.
DecideUnchecked(j) ==
    /\ MoveJob(j, "decide", "markSucceeded")
    /\ UNCHANGED <<redisVars, pgVars, apiVars, phasesDone, tenantKnown,
                   cancelVars, histVars>>

\* _mark_job_after_run_or_cancel: the flag is read, then the row is written.
Decide(j) ==
    /\ IfCancelRequested(j, "decide", "markCancelled", "markSucceeded")
    /\ UNCHANGED <<redisVars, pgVars, apiVars, phasesDone, tenantKnown,
                   cancelVars, histVars>>

\* A node or a Postgres write of the body raises: `except Exception` marks the
\* job failed.  The services of an adoption and of a review swallow what their
\* engine raises, so that job goes on.  The session keeps its phase.
Raise(j) ==
    /\ \/ /\ job[j] \in {"markRunning", "create", "startPhase", "runPhase",
                        "finish", "markSucceeded", "markCancelled"}
          /\ job' = [job EXCEPT ![j] = "exceptFailed"]
       \/ /\ job[j] \in {"resume", "enter", "work", "track"}
          /\ job' = [job EXCEPT ![j] = "decide"]
    /\ UNCHANGED <<redisVars, pgVars, apiVars, phasesDone, tenantKnown,
                   cancelVars, histVars>>

\* CancelledError thrown into the body: job_timeout, or the worker stopping.  When it
\* falls into an except clause, the finally clause follows; it ends that clause too.
Interrupt(j) ==
    /\ \/ /\ job[j] \in BodyPC
          /\ job' = [job EXCEPT ![j] = "onCancel"]
          /\ UNCHANGED phasesDone
       \/ /\ "stop" \in Faults /\ job[j] \in ExceptPC
          /\ job' = [job EXCEPT ![j] = "lookup"]
          /\ phasesDone' = [phasesDone EXCEPT ![j] = 0]
       \/ /\ "stop" \in Faults /\ job[j] \in FinallyPC
          /\ job' = [job EXCEPT ![j] = "over"]
          /\ UNCHANGED phasesDone
    /\ UNCHANGED <<redisVars, pgVars, apiVars, tenantKnown, cancelVars, histVars>>

\* _mark_job_on_async_cancel: a user's cancel or an interrupted worker.
DecideOnCancel(j) ==
    /\ IfCancelRequested(j, "onCancel", "exceptCancelled", "exceptFailed")
    /\ UNCHANGED <<redisVars, pgVars, apiVars, phasesDone, tenantKnown,
                   cancelVars, histVars>>

\* The last mark of the job; its body and its locals are left, the finally
\* clause follows.
MarkOutcome(j) ==
    /\ \/ MoveJob(j, "markSucceeded", "lookup") /\ Mark(j, "succeeded")
       \/ MoveJob(j, "markCancelled", "lookup") /\ Mark(j, "cancelled")
       \/ MoveJob(j, "exceptCancelled", "lookup") /\ Mark(j, "cancelled")
       \/ MoveJob(j, "exceptFailed", "lookup") /\ Mark(j, "failed")
       \/ /\ "pg" \in Faults /\ UNCHANGED row
          /\ MoveJob(j, "exceptCancelled", "lookup") \/ MoveJob(j, "exceptFailed", "lookup")
    /\ phasesDone' = [phasesDone EXCEPT ![j] = 0]
    /\ UNCHANGED <<redisVars, sessionVars, pendingPlan, apiVars, tenantKnown,
                   cancelVars, histVars>>

-----------------------------------------------------------------------------
(* unregister_task, in the finally clause; a Redis error ends it            *)

\* The worker never registered the thread itself, so it learns the tenant
\* from the running key, if that is (already, or still) there.
LookupTenant(j) ==
    /\ \/ /\ MoveJob(j, "lookup", "delRunning")
          /\ tenantKnown' = [tenantKnown EXCEPT ![j] = runningKey[JobThread[j]]]
       \/ "redis" \in Faults /\ MoveJob(j, "lookup", "over") /\ UNCHANGED tenantKnown
    /\ UNCHANGED <<redisVars, pgVars, apiVars, phasesDone, cancelVars, histVars>>

DeleteRunning(j) ==
    /\ \/ /\ MoveJob(j, "delRunning", "delCancel")
          /\ runningKey' = [runningKey EXCEPT ![JobThread[j]] = FALSE]
       \/ "redis" \in Faults /\ MoveJob(j, "delRunning", "over") /\ UNCHANGED runningKey
    /\ UNCHANGED <<tenantActive, cancelRequested, cancelLock, pgVars, apiVars,
                   phasesDone, tenantKnown, cancelVars, histVars>>

DeleteCancel(j) ==
    /\ \/ /\ MoveJob(j, "delCancel", IF tenantKnown[j] THEN "readActive" ELSE "over")
          /\ cancelRequested' = [cancelRequested EXCEPT ![JobThread[j]] = FALSE]
       \/ "redis" \in Faults /\ MoveJob(j, "delCancel", "over") /\ UNCHANGED cancelRequested
    /\ UNCHANGED <<runningKey, tenantActive, cancelLock, pgVars, apiVars,
                   phasesDone, tenantKnown, cancelVars, histVars>>

ReadActive(j) ==
    /\ \/ tenantActive[Tenant(j)] = JobThread[j] /\ MoveJob(j, "readActive", "delActive")
       \/ /\ tenantActive[Tenant(j)] # JobThread[j] \/ "redis" \in Faults
          /\ MoveJob(j, "readActive", "over")
    /\ UNCHANGED <<redisVars, pgVars, apiVars, phasesDone, tenantKnown,
                   cancelVars, histVars>>

DeleteActive(j) ==
    /\ MoveJob(j, "delActive", "over")
    /\ \/ tenantActive' = [tenantActive EXCEPT ![Tenant(j)] = NoThread]
       \/ "redis" \in Faults /\ UNCHANGED tenantActive
    /\ UNCHANGED <<runningKey, cancelRequested, cancelLock, pgVars, apiVars,
                   phasesDone, tenantKnown, cancelVars, histVars>>

-----------------------------------------------------------------------------
(* POST /diagnosis/{thread}/cancel                                          *)

MoveCancel(c, from, to) == cancelPc[c] = from /\ cancelPc' = [cancelPc EXCEPT ![c] = to]

\* acquire_cancel_lock: SET NX, 409 when it is taken; a Redis error lets
\* the request proceed without the lock.
AcquireCancelLock(c, t) ==
    /\ cancelTarget' = [cancelTarget EXCEPT ![c] = t]
    /\ \/ /\ ~cancelLock[t]
          /\ MoveCancel(c, "idle", "isRunning")
          /\ cancelLock' = [cancelLock EXCEPT ![t] = TRUE]
       \/ cancelLock[t] /\ MoveCancel(c, "idle", "refused") /\ UNCHANGED cancelLock
       \/ "redis" \in Faults /\ MoveCancel(c, "idle", "isRunning") /\ UNCHANGED cancelLock
    /\ UNCHANGED <<runningKey, tenantActive, cancelRequested, pgVars, apiVars,
                   workerVars, histVars>>

\* Mutant: cancel requests of threads that are not running are taken too.
SkipRunningCheck(c) ==
    /\ MoveCancel(c, "isRunning", "flag")
    /\ UNCHANGED <<redisVars, pgVars, apiVars, workerVars, cancelTarget, histVars>>

\* is_running: 400 without the running key, or on a Redis error.
CheckRunning(c) ==
    /\ \/ MoveCancel(c, "isRunning", "flag") /\ runningKey[cancelTarget[c]]
       \/ /\ MoveCancel(c, "isRunning", "unlockNo")
          /\ ~runningKey[cancelTarget[c]] \/ "redis" \in Faults
    /\ UNCHANGED <<redisVars, pgVars, apiVars, workerVars, cancelTarget, histVars>>

\* request_cancel: the flag workers read is the one in Redis.
RequestCancel(c) ==
    /\ MoveCancel(c, "flag", "rows")
    /\ \/ /\ cancelRequested' = [cancelRequested EXCEPT ![cancelTarget[c]] = TRUE]
          /\ cancelAsked' = [j \in Jobs |->
               IF JobThread[j] # cancelTarget[c] \/ ~Live(j) \/ cancelAsked[j] = "inTime"
               THEN cancelAsked[j]
               ELSE IF job[j] \in BeforeDecision THEN "inTime" ELSE "late"]
       \/ "redis" \in Faults /\ UNCHANGED <<cancelRequested, cancelAsked>>
    /\ UNCHANGED <<runningKey, tenantActive, cancelLock, pgVars, apiVars,
                   workerVars, cancelTarget, phasesAfterCancel>>

\* mark_cancelled_by_thread, in one UPDATE over the thread's active rows.
CancelRows(c) ==
    /\ \/ /\ MoveCancel(c, "rows", "unlockOk")
          /\ row' = [j \in Jobs |->
                       IF JobThread[j] = cancelTarget[c] /\ row[j] \in ActiveStatus
                       THEN "cancelled" ELSE row[j]]
       \/ "pg" \in Faults /\ MoveCancel(c, "rows", "unlockNo") /\ UNCHANGED row
    /\ UNCHANGED <<redisVars, sessionVars, pendingPlan, apiVars, workerVars,
                   cancelTarget, histVars>>

\* release_cancel_lock, in the finally clause: a DELETE, whoever holds the lock.
ReleaseCancelLock(c) ==
    /\ MoveCancel(c, "unlockOk", "done") \/ MoveCancel(c, "unlockNo", "refused")
    /\ \/ cancelLock' = [cancelLock EXCEPT ![cancelTarget[c]] = FALSE]
       \/ "redis" \in Faults /\ UNCHANGED cancelLock
    /\ UNCHANGED <<runningKey, tenantActive, cancelRequested, pgVars, apiVars,
                   workerVars, cancelTarget, histVars>>

-----------------------------------------------------------------------------
(* TTLs.  The keys of a thread live 6 hours from their last SET and arq stops *)
(* a job after 2, so a key outlives the jobs that need it unless "ttl" allows *)
(* otherwise (a job that waited more than 4 hours in the queue).  The cancel  *)
(* lock lives 30 seconds and outlives a handler unless "ttl" allows otherwise.*)

Submitting(j) == sub[j] \in {"enqueue", "record", "regRunning", "regActive",
                             "relRead", "relDel"}
Occupied(j) == Live(j) \/ Submitting(j)

\* Mutant: the claim has no TTL.
NeverExpireActive(k) ==
    /\ tenantActive[k] # NoThread /\ FALSE
    /\ UNCHANGED vars

ExpireActive(k) ==
    /\ tenantActive[k] # NoThread
    /\ "ttl" \in Faults \/ \A j \in Jobs : Tenant(j) = k => ~Occupied(j)
    /\ tenantActive' = [tenantActive EXCEPT ![k] = NoThread]
    /\ UNCHANGED <<runningKey, cancelRequested, cancelLock, pgVars, apiVars,
                   workerVars, cancelVars, histVars>>

ThreadIdle(t) == \A j \in Jobs : JobThread[j] = t => ~Occupied(j)

ExpireRunning(t) ==
    /\ runningKey[t] /\ ("ttl" \in Faults \/ ThreadIdle(t))
    /\ runningKey' = [runningKey EXCEPT ![t] = FALSE]
    /\ UNCHANGED <<tenantActive, cancelRequested, cancelLock, pgVars, apiVars,
                   workerVars, cancelVars, histVars>>

ExpireCancel(t) ==
    /\ cancelRequested[t] /\ ("ttl" \in Faults \/ ThreadIdle(t))
    /\ cancelRequested' = [cancelRequested EXCEPT ![t] = FALSE]
    /\ UNCHANGED <<runningKey, tenantActive, cancelLock, pgVars, apiVars,
                   workerVars, cancelVars, histVars>>

CancelOver == {"idle", "done", "refused"}

ExpireCancelLock(t) ==
    /\ cancelLock[t]
    /\ \/ "ttl" \in Faults
       \/ \A c \in CancelCalls : cancelTarget[c] = t => cancelPc[c] \in CancelOver
    /\ cancelLock' = [cancelLock EXCEPT ![t] = FALSE]
    /\ UNCHANGED <<runningKey, tenantActive, cancelRequested, pgVars, apiVars,
                   workerVars, cancelVars, histVars>>

-----------------------------------------------------------------------------
Submission(j) ==
    \/ CheckActive(j) \/ ClaimTenant(j) \/ ReadClaimHolder(j) \/ SetPending(j)
    \/ Enqueue(j)
    \/ RecordJob(j) \/ RegisterRunning(j) \/ RegisterActive(j)
    \/ ReadOwnClaim(j) \/ DeleteOwnClaim(j)

Worker(j) ==
    \/ TakeJob(j) \/ MarkRunning(j) \/ CreateSession(j) \/ CheckCancel(j)
    \/ StartPhase(j) \/ RunPhase(j) \/ FinishDiagnosis(j) \/ Resume(j)
    \/ EnterPhase(j) \/ Work(j) \/ Track(j) \/ Decide(j) \/ DecideOnCancel(j) \/ MarkOutcome(j)
    \/ LookupTenant(j) \/ DeleteRunning(j) \/ DeleteCancel(j)
    \/ ReadActive(j) \/ DeleteActive(j)

CancelCall(c) ==
    \/ CheckRunning(c) \/ RequestCancel(c) \/ CancelRows(c) \/ ReleaseCancelLock(c)

Expiry ==
    \/ \E k \in Tenants : ExpireActive(k)
    \/ \E t \in Threads : ExpireRunning(t) \/ ExpireCancel(t) \/ ExpireCancelLock(t)

Next ==
    \/ \E j \in Jobs : \/ AcquireStartLock(j) \/ SubmitAdoption(j) \/ SubmitReview(j)
                       \/ Submission(j) \/ Worker(j) \/ Raise(j) \/ Interrupt(j)
    \/ \E c \in CancelCalls, t \in Threads : AcquireCancelLock(c, t)
    \/ \E c \in CancelCalls : CancelCall(c)
    \/ Expiry

Spec == Init /\ [][Next]_vars

\* Handlers and workers that have begun run on (asyncio schedules them and the
\* stores answer), arq delivers what it accepted, keys expire.  Nobody is
\* obliged to start, adopt, review or cancel, and no node is obliged to raise.
Fairness ==
    /\ \A j \in Jobs : WF_vars(Submission(j)) /\ WF_vars(Worker(j))
    /\ \A c \in CancelCalls : WF_vars(CancelCall(c))
    /\ WF_vars(Expiry)

FairSpec == Spec /\ Fairness

-----------------------------------------------------------------------------
(* Properties                                                               *)

\* At most one diagnosis of a tenant is queued or running at a time: what the
\* 409 of start_diagnosis ("this enterprise already has a diagnosis running")
\* tells clients.  The start lock, the claim, the registration and the
\* unregistration of several threads interleave here.
TenantMutex ==
    \A i, j \in Diagnoses :
        Live(i) /\ Live(j) /\ Tenant(i) = Tenant(j) => i = j

\* The slot of a tenant: taken from the claim until the worker is done, or until
\* a start that failed has released it.
Holder(j) == Live(j) \/ sub[j] \in {"enqueue", "relRead", "relDel"}

\* Why the mutex holds.  One diagnosis of a tenant has its slot; the claim key is
\* there, though perhaps with the name of an earlier thread that registered
\* late, for as long as the slot is taken; and a start that gave its slot back
\* has not enqueued a job, so its release of the claim cannot undo another's.
SlotIsExclusive ==
    \A i, j \in Diagnoses :
        Holder(i) /\ Holder(j) /\ Tenant(i) = Tenant(j) => i = j
SlotIsClaimed == \A j \in Diagnoses : Holder(j) => tenantActive[Tenant(j)] # NoThread
JobWasEnqueued ==
    \A j \in Diagnoses :
        job[j] # "absent" => sub[j] \in {"record", "regRunning", "regActive", "accepted"}
SlotInv == SlotIsExclusive /\ SlotIsClaimed /\ JobWasEnqueued

\* Once a cancellation is requested, the worker that has yet to decide the
\* job's outcome starts at most one more phase (the one whose check of the
\* flag is already behind it), however the job and the request interleave.
CancelStopsPhases == \A j \in Diagnoses : phasesAfterCancel[j] <= 1

\* A job is enqueued once, by its submission, and while its worker has yet to
\* start or finish a phase one is left to do: the three phases run once each,
\* wherever a cancel, an error or an interruption ends them.
PhasesRunOnce ==
    \A j \in Jobs :
        /\ sub[j] \in {"idle", "check", "claim", "claimRead", "setPending", "enqueue"}
           => job[j] = "absent"
        /\ job[j] \in {"absent", "queued", "markRunning", "create", "check",
                      "startPhase", "runPhase"} => phasesDone[j] <= 2

\* A diagnosis cancelled before its worker's last look at the flag is never
\* recorded as succeeded: mark_running, mark_cancelled_by_thread and the
\* worker's own last mark write the same row in any order.
CancelIsNotLost ==
    \A j \in Diagnoses :
        cancelAsked[j] = "inTime" /\ job[j] = "over" => row[j] \in {"cancelled", "failed"}

\* A worker takes a diagnosis for cancelled only if a client asked for it while
\* that job was live, not because a flag was left over from another job.  (An
\* adoption and a review of one thread share its flag: there it may be.)
CancelWasMeant ==
    \A j \in Diagnoses :
        job[j] \in {"markCancelled", "exceptCancelled"} => cancelAsked[j] # "no"

\* Why the three hold for a thread that has only its diagnosis.  A cancel request
\* sees the running key, hence comes after the row was recorded; the flag that
\* it sets stays until the worker's finally clause; so the worker reads it
\* before the next phase and before the outcome.
CancelFollowsRecord ==
    \A j \in Diagnoses :
        LET recorded == sub[j] \in {"regRunning", "regActive", "accepted"}
        IN  /\ recorded \/ sub[j] = "record" => job[j] # "absent"
            /\ row[j] # "none" <=> recorded
            /\ runningKey[JobThread[j]] => recorded
            /\ \A c \in CancelCalls :
                 cancelPc[c] = "flag" /\ cancelTarget[c] = JobThread[j] => recorded
            /\ cancelAsked[j] # "no" => recorded
FlagStays ==
    \A j \in Diagnoses :
        /\ /\ cancelAsked[j] = "inTime" /\ Live(j)
           /\ job[j] \notin {"readActive", "delActive"}
           => cancelRequested[JobThread[j]]
        /\ cancelRequested[JobThread[j]] => cancelAsked[j] # "no" \/ job[j] = "over"
PhaseAfterCancel ==
    \A j \in Diagnoses :
        \/ cancelAsked[j] # "inTime"
        \/ job[j] \in {"absent", "queued", "markRunning", "create", "startPhase"}
        => phasesAfterCancel[j] = 0
OutcomeFollowsFlag ==
    \A j \in Diagnoses :
        cancelAsked[j] = "inTime" =>
            /\ job[j] # "markSucceeded"
            /\ job[j] \in FinallyPC \cup {"over"} => row[j] \in {"cancelled", "failed"}
CancelInv == /\ CancelFollowsRecord /\ FlagStays /\ PhaseAfterCancel /\ OutcomeFollowsFlag
             /\ CancelStopsPhases /\ CancelWasMeant

\* Postgres is the record of truth for jobs: when the worker is done with a job
\* and the request that submitted it is answered, the row is not active.
RowIsFinal ==
    \A j \in Jobs : job[j] = "over" /\ sub[j] \in SubOver => row[j] \notin ActiveStatus

PhaseRank ==
    [p \in Phases |->
        CASE p = "none" -> 0 [] p = "collecting" -> 1 [] p = "diagnosing" -> 2
          [] p = "generating" -> 3 [] p = "waiting_adoption" -> 4
          [] p = "executing" -> 5 [] p = "waiting_track" -> 6
          [] p = "tracking" -> 7 [] p \in {"completed", "failed"} -> 8]

\* The jobs of one thread overlap, and each reads the phase and writes it in two steps.
\* A session moves back only by the hand of an adoption or a review that another job of
\* its thread has overtaken: one that wrote between this job's look at the session, or
\* last write of it, and this write.
SessionForward ==
    [][\A t \in Threads : PhaseRank[session'[t]] < PhaseRank[session[t]] =>
          \E j \in overtaken \ Diagnoses : JobThread[j] = t /\ job'[j] # job[j]
      ]_<<sessionVars, job>>

\* An accepted job is eventually over, and a tenant's claim does not stay: it is
\* deleted by the job's end or, if registered too late for that, by its TTL.
JobsEnd == \A j \in Jobs : job[j] = "queued" ~> job[j] = "over"
ClaimIsFreed == \A k \in Tenants : tenantActive[k] # NoThread ~> tenantActive[k] = NoThread
-----------------------------------------------------------------------------
(* Refinement                                                               *)

\* A diagnosis is active from the moment arq has it until its worker is done
\* with the finally clause.
Stage == [j \in Diagnoses |-> CASE job[j] = "absent" -> "new"
                               [] job[j] = "over" -> "ended"
                               [] OTHER -> "active"]

Slots == INSTANCE TenantSlots WITH
            OwnerOf <- [j \in Diagnoses |-> Tenant(j)], stage <- Stage

\* The submissions, claims and registrations of any number of API processes and
\* workers implement one slot per tenant, and every active diagnosis ends.
ImplementsSlots == Slots!FairSpec
=============================================================================
