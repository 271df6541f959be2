# Verification of the diagnosis back end

This directory holds TLA+ models of the back end under `src/src` (an API service
and arq workers that diagnose the operations of an enterprise, let a manager adopt
an improvement plan, execute it and track its effect), the TLC configurations that
check them and the TLAPS proofs of their main theorems.

`tlc -config X.cfg M` checks module `M` under `X.cfg`; `tlapm M_proofs.tla` checks the
proofs about it. `PROJECT.json` says which configuration belongs to which module,
which lines of the source each definition stands for, and which mutation of the code
each property detects.

## 1. The system

### How it hangs together

    client --HTTP/WebSocket--> API process ----enqueue----> arq queue (Redis)
                                |   |                          |
                                |   +--keys, flags (Redis)--+  v
                                |                           worker: pipeline,
                                +--rows (Postgres)----------adoption, review
    schedulers (in every API process) --> pipeline, tracking, reviews

Several API processes and several workers may run side by side; `docker-compose.yml`
starts one of each, which restart independently. They share no memory:
a diagnosis is coordinated through four Redis keys, the arq queue and rows in
Postgres, each command of which may be interleaved with everybody else's.

### Components

| component | state it keeps | operations | what makes it correct |
|---|---|---|---|
| start and cancel routes (`api/routes/diagnosis.py`) | a lock per tenant and process | start, cancel | one diagnosis per enterprise; a refused start leaves nothing behind; an accepted cancellation is honoured |
| `RunningTaskStore` (`runtime/running_tasks.py`) | `task:running:T`, `task:tenant-active:E`, `task:cancel-requested:T`, `task:cancel-lock:T`, set `tenant-threads:E`, each with a TTL | claim, release, register, unregister, cancel lock and flag, listing | the claim is there exactly while a diagnosis is; nothing stays forever |
| arq queue and worker (`worker/arq_queue.py`, `arq_worker.py`) | queued jobs, results | enqueue, run once, time out, re-enqueue | every accepted job ends; its row says how |
| job rows (`repositories/async_job_meta.py`) | `async_job_metas` | create, mark, cancel by thread, list recoverable, claim retry | the row is the truth about the job |
| startup reconciliation (`worker/reconcile.py`, `core/job_meta_rotate.py`) | the rows, rotated job ids | re-enqueue queued, running and once-failed jobs | no job is lost, none runs twice at once, a failed one is retried once |
| pipeline and engine (`runtime/diagnosis_stream_runner.py`, `core/diagnosis_engine.py`) | `diag_sessions.phase`, `state_json` | three phases, resume after adoption, resume tracking | the phase only moves forward; cancelled work stops |
| plan adoption (`services/solution_service.py`, `api/routes/ws.py`) | `pending_adopt_plan_id` | adopt over HTTP or WebSocket, redistribute | one adoption per diagnosis; a pending one is really under way |
| immediate review (`services/review_service.py`) | `pending_reviews` | submit, run | at most one review; a completed session stays so |
| task execution (`agent/nodes/execute.py`, `services/execution_service.py`) | `exec_tasks`, `push_logs` | create, push, redistribute, update | a task is pushed once, or marked failed |
| effect tracking (`services/tracking_*.py`, `scheduler/effect_review_checker.py`, `snapshot_collector.py`) | `effect_trackings.tracking_data`, snapshots, reports | start, snapshot, complete, cancel | a completed or cancelled tracking stays so; the count is that of the snapshots |
| schedulers (`scheduler/`) | none | weekly diagnosis, daily checks | nothing is run twice because there are several processes |
| progress store, sockets (`runtime/progress_store.py`, `diagnosis_ws_manager.py`) | last event and history per thread in memory and Redis, one socket per thread | write, read, clear, connect, send | the last event wins; a reader never goes back |
| scores and weights (`core/calculator.py`) | none | rebalance weights, score, detect anomalies | weights sum to 1, scores stay in 0..100 |
| tenant configuration (`core/tenant_config.py`) | `tenant_registries.config` | merge a patch | no update is lost |
| agent nodes (`agent/nodes`, `core/indicator_push_rules.py`) | the state passed from phase to phase | collect, diagnose, ask for causes, generate plans, build tasks | figures agree with each other; what the rules demand is in the plans |
| read services and pages (`services/diagnosis_service.py`, progress payloads) | none | status, progress, list, report; the clients that poll them | no false failure, no false success, every poll ends |
| business clients (`biz`) | none | derive indicators, push tasks, repeat requests | a repeated request is the only way to a duplicate |
| schema (`alembic`) | a partial unique index: of the job rows of a thread one may be queued or running | | every statement that makes a row active may raise |
| infrastructure, front end | | | not modelled |

### What is hard in it

* A start is a chain of a look at the claim, `SET NX`, an enqueue, an INSERT and two
  `SET`s; a worker may run and finish the whole job between any two of them.
* `register_job` sets the claim without asking, for adoptions and reviews too.
* GET-then-DELETE in `release_tenant_claim` and `unregister_task` is not atomic.
* The cancel flag is polled; a request may fall before, between and after the polls,
  and four writers update the same row.
* The unique index on active rows is asked by an INSERT that comes after the enqueue, and by
  a claim that no handler of the startup surrounds: a refusal leaves a job without a row, or
  an API process that does not come up.
* Every Redis error is swallowed and read as the harmless answer; Postgres errors are not.
* Reconciliation at startup knows nothing about the workers that are still running.
* JSON documents (`state_json`, `tracking_data`, `config`) are read, changed in memory
  and written back.

* An answer to a client is put together from five stores, read one after the other.
* A task is pushed, and its row written in two more transactions; each may fail alone,
  the push also after the other side has carried it out. A 200 may carry an error code.
* Plans come from rules and from a language model, which may write anything.

`PROJECT.json` lists these hazards with their lines and the properties that cover them;
where none does, it says why.

### The modules

| module | extends or implements | about |
|---|---|---|
| `DiagnosisJobs`, `MCDiagnosisJobs` | `TenantSlots` (abstract) | submissions, workers and cancel requests (section 2) |
| `JobRecovery` | `RecordedJob` (abstract) | crashes and restarts (section 3) |
| `EffectTracking`, `MCEffectTracking` | | the tracking of an executed plan (section 4) |
| `TaskDispatch`, `MCTaskDispatch` | `TaskDelivery` (abstract) | the tasks of an adopted plan (section 5) |
| `StatusQueries`, `MCStatusQueries` | `ThreadPromise` (abstract) | what clients are told (section 6) |
| `Indicators`, `Solutions`, `DiagnosisContents`, `MCDiagnosisContents` | each the one before | what is computed (section 7) |
| `*_proofs` | the module they are about, TLAPS | section 9 |
| `FoldLemmas` | | facts about sums, extrema and sorting for `DiagnosisContents_proofs` |

The modules overlap where the code does: a job of `DiagnosisJobs` is one arq job whose body
is a few steps; `TaskDispatch` opens the body of the adoption job, `EffectTracking` that of
the review job, `StatusQueries` the writes of all three that a reader sees, and
`DiagnosisContents` says what the phases compute. `StatusQueries` composes them: one
thread goes through diagnosis, adoption and review while its client polls.

## 2. The core: DiagnosisJobs

`DiagnosisJobs.tla` models the life of all jobs of all threads from the request that
submits them to the end of the worker's `finally` clause, with the clients that cancel
them. One action is one command to Redis, Postgres or arq, because each `await` is a
point where another process may run; code between two awaits is part of the action.

| variable | stands for |
|---|---|
| `runningKey`, `tenantActive`, `cancelRequested`, `cancelLock` | the Redis keys |
| `row`, `session`, `pendingPlan` | `async_job_metas.status`, `diag_sessions.phase`, whether `state_json` has a `pending_adopt_plan_id` |
| `startLock`, `sub` | the `asyncio.Lock` per tenant and process; the next command of each submission |
| `job`, `phasesDone`, `tenantKnown` | the next command of each worker, the phases it completed, the tenant `unregister_task` found |
| `cancelPc`, `cancelTarget` | where each cancel request stands, and its thread |
| `overtaken` | history: the jobs in whose thread another job has written the phase since they last read or wrote it |
| `cancelAsked`, `phasesAfterCancel` | history; no guard reads these three |

The actions follow the code from top to bottom:

* a start: `AcquireStartLock`, `CheckActive`, `ClaimTenant`, `ReadClaimHolder`, `Enqueue`,
  `RecordJob`, `RegisterRunning`, `RegisterActive`, and when something raises
  `ReadOwnClaim`, `DeleteOwnClaim`. Adoptions (`SubmitAdoption`, `SetPending`) and
  reviews (`SubmitReview`) join at `Enqueue`;
* a worker: `TakeJob`, `MarkRunning`, then `CreateSession`, `CheckCancel`, `StartPhase`,
  `RunPhase`, `FinishDiagnosis` for a diagnosis or `Resume`, `EnterPhase`, `Work`, `Track`
  for the other two, then `Decide` and `MarkOutcome`; `Raise` and `Interrupt` (the job's
  timeout, or a worker told to stop) leave the body at any await, a stopping worker also the
  clauses that follow it; `LookupTenant`,
  `DeleteRunning`, `DeleteCancel`, `ReadActive`, `DeleteActive` are the `finally` clause;
* a cancel request: `AcquireCancelLock`, `CheckRunning`, `RequestCancel`, `CancelRows`,
  `ReleaseCancelLock`;
* the TTLs: `ExpireActive`, `ExpireRunning`, `ExpireCancel`, `ExpireCancelLock`.

Faults are a constant: `"redis"` (a command of `RunningTaskStore` raises unexecuted and
is swallowed), `"lost"` (arq has the job but the answer is lost), `"pg"` (a write no
handler expects to fail raises), `"stop"` (a worker that stops interrupts an `except` or
`finally` clause, too), `"ttl"` (a key expires while it is still needed; without
it keys outlive their jobs, as 6 hours against a job timeout of 2 suggest). The unique index
is no fault: while another row of the thread is active (`ThreadFree`), `RecordJob` raises after the
enqueue, and so does a mark that would make an ended row active again (`MarkRunning`). An enqueue
that fails cleanly and nodes that raise are always possible.

Abstracted: payloads, the texts of answers, progress events, the set `tenant-threads` (it
feeds a listing) and what the nodes compute: a diagnosis ends in `waiting_adoption` or
`completed`, an execution or a tracking succeeds or fails. `job_id`s and thread ids are
fresh, which is what `generate_thread_id` and `_make_job_id` are for; the assumption
`OneDiagnosisPerThread` says that a thread is started by one request.

`TenantSlots.tla` is the abstract specification: each enterprise has one slot, a diagnosis
takes it when it begins, gives it back when it ends, and ends. `ImplementsSlots` says
that `DiagnosisJobs` implements it, where a diagnosis is active from the moment arq has
it until its worker's `finally` clause is done.

## 3. After a crash or a restart: JobRecovery

`DiagnosisJobs` has no process that dies. `JobRecovery.tla` starts where a job has been
submitted, recorded and registered, and models one row of `async_job_metas` while API
processes start (`reconcile_pending_jobs` runs in the lifespan of each) and workers come
and go. Rows of different threads share nothing. Those of one thread share the unique
index, and a startup takes its rows one after the other: `other` is the rest of the thread's
rows, of which one may be active, or failed and still to be retried.

| variable | stands for |
|---|---|
| `row` | `job_id` (which a rotation changes), `status`, the flag `_reconcile_auto_retry_used` |
| `other` | another row of the thread: active, failed with its retry left, or neither |
| `registered` | the keys of `register_job` |
| `arq` | per id: `queued`, `inProgress` (job key), `kept` (result key, one hour), `unknown` |
| `run` | per id: the next step of the worker function that runs it |
| `proc`, `jobId` | per API process: its next step, and the id it works with |
| `lastId`, `starts`, `troubles`, `claims` | ids made so far; bounds; how often the retry was claimed |

`List`, `ClaimEarlier`, `Claim`, `EnqueueRecorded`, `Rotate`, `EnqueueFresh` and `Register` are
the commands of one pass of the loop; where the index refuses a claim, nothing catches the
exception and the process does not come up (`down`); `OtherJob` is what happens to the other row
meanwhile; `FailToEnqueue` is what its `except` logs, `CrashProc` what leaves the lifespan or
kills the process. `Take`, `MarkRunning`, `Body`, `MarkOutcome`, `Unregister` and `Finish` are
the worker; `KillWorker` ends it without `except` and `finally`. arq's part is external: it
refuses an id while a job or result key is there, forgets results (`ForgetResult`), and with
`max_tries = 1` fails the job of a dead worker unrun (`GiveUp`). Cancellation is left to
`DiagnosisJobs`, and so are the commands inside `register_job`.

`RecordedJob` is what all this promises one job, without keys and rotating ids: starting
processes *find* a job that has no outcome or failed for the first time, *retry* it once,
*enqueue* a run of it or *leave* it; runs *start*, *begin* and *report*. Nobody else changes the
row, and as long as nothing has crashed no step may be the last that leaves the row without an
outcome and without anything under way. In the mapping a process has found the job from
`claim` to `enqueueNew` (`Found`), a run waits while arq has its id queued (`Queued`), and
runs until it has marked its outcome (`ToReport`); `crashed` is `troubles > 0`, and the
registration, `Rotate` and the end of a worker are stutters. It follows that an outcome is
final, but only `AtRest`: a startup that listed the job while it ran may rotate the id after
the worker marked the old one `succeeded`, and the second run then makes the row `running` again.

## 4. An executed plan is tracked: EffectTracking

One thread after its plan was executed. Everybody who writes its rows is a *call*, and a
mix says which calls take part together.

| variable | stands for |
|---|---|
| `session`, `pending`, `track`, `snaps`, `report`, `learned` | `diag_sessions.phase`, `pending_reviews.status`, the row of `effect_trackings` with `status` and `snapshot_count` of its `tracking_data`, `effect_snapshots`, `review_reports`, `solution_knowledges` |
| `inflight`, `busy` | `_complete_tracking_inflight`, `_snapshot_collect_busy` of a process |
| `day`, `pc` | the date; where each call stands |
| `copy`, `since`, `closes`, `scores` | its local variables: `tracking_data`, `now`, `should_create_closing_snapshot`, the scores it counts |
| `fate`, `cut`, `missing`, `stuck` | history, which no guard reads: what became of the tracking, a completion cut short, inserts that failed after the count was committed, a schedule that could not be cancelled |

A snapshot request is `ReadForSnapshot` .. `InsertForSnapshot`; a completion is `ReadRow` ..
`Learn`, shared by the request (`SubmitComplete`, `FreeInflight`), the review job and the
checker, who reach it through the engine (`ReadPhase`, `EnterTracking`, `EnsureTracking`,
`CreateTracking`, `FinishReview`, `FailReview`); `CutShort` is an exception in it, which its
`try` swallows. The checker adds `ListDueReviews` and `MarkReviewDone`, the collector
`StartRound` .. `EndRound`; the others are a cancel request, a review request, and the
reader of the report, who writes it back. `ListedItems` and `Summary` are what
`GET /tracking` shows.

Abstracted: the figures (section 7 has them), texts and notifications. A tracking that a user
starts for a plan under an id of its own is left out.

## 5. A plan is executed: TaskDispatch

The adoption job, requests to redistribute and users work on the tasks of one thread.

| variable | stands for |
|---|---|
| `row`, `dispatch` | `exec_tasks.status` and `related_resources.dispatch_status`, written in two transactions |
| `delivered`, `hollow` | how often the business system created the task (external); the tasks it answered with a 200 without creating them |
| `session`, `scheduled` | phase, `pending_adopt_plan_id`, `adopted_plan_ids`; the scheduled review |
| `pc`, `todo`, `tries` | where the job and each request stand, the tasks they still push, the HTTP client's attempts |
| `list`, `seen`, `left`, `created` | what a request distributes; local variables of the request and of the job |
| `faults`, `mishaps`, `edits` | what may fail, and bounds |
| `touched`, `settled`, `blurred`, `shared`, `closed` | history |

One push is `Answered`, `AnsweredHollow` (a 200 whose body reports an error: the client unwraps it
only if its code is 200, returns it all the same, and nobody looks into it), `Lost` (repeated
while attempts remain, or raised at once, whether or not the other side did the work) or
`Refused`, then `Patch`, `SetRunning` and, for a request, `LogPush`, or else
`PatchFailed`, `SetFailed`; `Misrecord` and `FailToRecord` are the exceptions in either. Around
them stand the job (`SaveRuleTask` .. `ScheduleReview`, `Stumble` where an await outside a
`try` raises, `FinishJob`, `FailJob`) and a request (`ReadState`, `ListPending`,
`ListFailed`, `CountPending`, `CountFailed`, `SettleAdoption`). `SetByUser` is the complete,
fail and retry routes, which ask for no earlier status. `PlanSummary` and `TaskItem` are what
the execution pages show. `save_exec_tasks` gives all tasks of a plan one `created_at`, so a
listing comes in any order (`Listings`).

`TaskDelivery` is the same seen from the tasks: each is in the hands of those who push it,
who take up only pending and failed ones (`Take`) or save new ones (`Save`), have them accepted
(`Accept`), say how it went (`Record`, "running" only of a task that was accepted) and let go; an
exception may drop any number at once, of which those never accepted must be where the next
redistribution looks (`Release`). Only a user's word (`SetByUser`) changes a task in nobody's hands,
and `Settle` needs every task of the plan accepted or spoken for. Accepted is not created: the code
takes every 200 for a created task, and no stronger promise holds of it (section 10). In the mapping
a task is in the hands of the pushers that have it in `todo`, and accepted when `delivered` is
positive or it is in `hollow`; HTTP attempts that fail,
`dispatch`, the messages, counts and the schedule are stutters.

## 6. What a client is told: StatusQueries

A client starts a diagnosis and polls it to the end, adopts and polls, reviews and polls, as
the two command line clients do; pages (progress, list, report) are opened at any time.

| variable | stands for |
|---|---|
| `report`, `session`, `job`, `reviewed`, `scheduled`, `running`, `cancel` | the rows and keys an answer is made of |
| `cache`, `local`, `writes`, `awaited` | the progress entry in Redis, the API process's copy of it, the worker's writes in the order of its lock, how many of them its job waits for |
| `work`, `leaving` | the next step of the worker's job, and of the job before it while that has still to mark its row or to unregister |
| `submit`, `cancelling` | the next step of the request under way, of a cancel request |
| `query`, `wait`, `told` | the query with what it has read, what the client waits for, the last answer |
| `could`, `faults`, `mishaps` | history of instant answers; what fails |

The worker's actions are the writes of the three job bodies in their order, those of
`ProgressStore` included: `Schedule` is `progress_cache[thread] = entry`, which only schedules,
`Say` is `await aset`, `Flush` the write itself. The three answers are the operators
`StatusNow`, `AdoptAnswer`, `ReviewAnswer`; the actions `ReadReport` .. `ReadItem` take one read
each. A client is told of an outcome before the job that made it has marked its row and
unregistered: `Enqueue` may come in between, and then the next job is refused its row by the
unique index (`RecordJob`; it runs all the same), or registered and loses its running key to the
end of the job before (`LeaveRow`, `LeaveKeys`). Reviews are those of the tracking page
(`review/start`, a job); `POST /tracking/{id}/complete`, which the command line clients post,
completes a tracking in the API process without a job and is a call of `EffectTracking`.
Collecting, diagnosing and generating are one phase, since no reader tells them apart;
percentages and texts are left out.

`ThreadPromise` is what all this amounts to for a client: a report, then a plan, then a
review, each made once and never lost (`Make`), and answers that are given in a single step
(`Answer`), are never ahead of what there is, and raise no alarm unless something has gone
wrong (`GoWrong`, the user's own cancellation included). In the mapping a report is there when its
row or the session's copy of it is, a plan when the session says adopted, a review when its
row is; `troubled` is `mishaps > 0`, and `asked` and `told` are the query under way and the
last answer. Every other read and write is a stutter.

## 7. What is computed: Indicators, Solutions, DiagnosisContents

`Indicators` has `core/calculator.py` as integer arithmetic (values and scores in hundredths,
weights in ten-thousandths, so that the rounding is the code's): tables, the selection of a
request, weights, scores, anomalies, severities, the report and what is shown of it.
`Solutions` has the rule table, what is added to plans so that it is honoured, priorities,
tasks with deadlines and acceptance criteria, and the day of the review.

`DiagnosisContents` takes one case through them: `Collect`, `Diagnose`, `AskCauses` (up to
three rounds, merged), `Report`, `Generate`, `Adopt`, `Execute`, `TakeSnapshot`, `Complete`. The
language model may name any set of anomalies, a vague name, or nothing, and may write any of
the given plans; answers of the business system may be lost, tasks refused. A text is what
decides about it: a step is the set of task names, or of their first four characters, that it
mentions (`Mentions`); a timeline is a number of hours from the execution (`Within`), a date, past or
to come (`On`), or `Unreadable`.

Figures are exact decimals where Python has binary floats; a difference appears only where a
value is a rounding tie or lies exactly at a bound: a rate of 4.42 against an average of 5.2 is
15 % below it here and no anomaly, and -15.000000000000005 % in Python, which is one. Timelines so
long that `timedelta` overflows are left out.

## 8. What the runs check

`CHECK_DEADLOCK FALSE` is in each of them because requests, startups and calls are finitely
many: when all are answered and the keys have expired, the modelled system really stops.

| run | instance | shows |
|---|---|---|
| `starts` | 3 starts of one tenant on 3 API processes, all symmetric | `TypeOK`; `TenantMutex`: one diagnosis per tenant |
| `slots` | 2 starts on one API process, with fairness | `ImplementsSlots`, the refinement of `TenantSlots` with its liveness |
| `cancel` | 1 diagnosis with 2 concurrent cancel requests; or a finished one with an adoption and a review side by side; or 2 reviews of one thread and a cancel request | `CancelStopsPhases`: at most one more phase begins; `CancelIsNotLost`: what was cancelled in time is not recorded as succeeded; `CancelWasMeant`: nothing is taken for cancelled unasked; `SessionForward`: the phase moves back only at a step of an adoption or a review that was overtaken between its look at the phase and its write |
| `faults` | 1 diagnosis, 1 cancel request, all five kinds of faults, with fairness | `JobsEnd`: an accepted job ends; `ClaimIsFreed`: the tenant's claim does not stay |
| `recovery` | 2 API processes, 2 startups, another row of the thread, 2 crashes or failing commands, with fairness | `TypeOK`; `RecoveryInv`: as long as nothing crashed, an active row has a job that will mark it; `RecoversTheJob`, the refinement of `RecordedJob`; `OutcomeIsFinal` once nothing is under way; `Settles`: one startup after the last crash brings the job to an outcome, unless an earlier job of its thread failed and has its retry left |
| `tracking` | 7 mixes of 3 or 4 calls, two days, failures of the language model and of statements, with fairness | `TypeOK`; `ListIsTrue`: a listing counts no snapshot that is not there, but for those whose insert failed, and lists a thread once, but for a schedule that could not be cancelled; `ReviewedBeforeCompleted`; `CompletionIsNotUndone`, but by an overlapping snapshot request; `AutomaticSnapshotsSpaced`; `OneCompletionPerProcess`; `DueReviewsSettle` |
| `dispatch` | an adoption job with 1 + 2 tasks, a redistribution, a user, 7 scenarios, with fairness | `TypeOK`; `CreatedOnce`: twice only for the reasons named; `UndeliveredIsListed`: what was neither created nor answered with a 200 stays within reach of a redistribution; `StatusAgrees`: the two statuses and the plan's summary; `SettledMeansCreated`; `DeliversItsTasks`, the refinement of `TaskDelivery`; `EverythingIsCreated` when nothing fails; `RequestsEnd` |
| `queries` | one client, one worker, pages, 6 sets of faults, with fairness | `TypeOK`; `AlarmWasTrue`: a failure told is one that held at some instant of the query; `KeepsItsPromise`, the refinement of `ThreadPromise` (no answer is ahead of what there is, and no alarm false as long as nothing has gone wrong); `StatusWaitEnds`; `FollowUpWaitsEnd`, with its exceptions |
| `contents` | 6 businesses, 3 modes, 5 requests, 4 losses, 3 drafts | `TypeOK`; `FiguresAgree`: scores, levels, anomalies, ranks and criteria; `CausesKept`; `NothingIsForgotten`: demanded tasks, by name or its first four characters, and coupons; `ReviewDay`: on the day of the last deadline, and before the execution only by dates that the plan itself gave; `TrendIsReal` |

The refinements imply three invariants that are proved on the way and checked by no run of
their own: `RetriedOnce` (`RecordedJob` retries when `retries = 0`), `CompletedIsKept` (in
`TaskDelivery` nobody takes up a completed task) and `NoFalseAlarm`.

Three more runs show where the code does not do what it says. Each ends in a counterexample:

| run | what happens |
|---|---|
| `adoption_mutex` | An adoption of thread 1 registers itself over the claim of thread 2's running diagnosis and deletes that claim when it ends; a third start is accepted and two diagnoses of the enterprise run. |
| `row_is_final` | The worker finishes before `create_job` runs; its marks matched no row, and the upsert leaves `queued` forever. The next startup would run the job again. |
| `two_runs` | The API restarts while a worker runs a job: the recorded id is refused because the job is in progress, `reenqueue_job` takes that for a leftover, rotates the id and enqueues it; a second worker runs the job beside the first, whose marks now match no row. |

None of them needs a fault or a crash of a worker: they are interleavings of ordinary
requests and restarts.

### The exceptions that the properties name

A property that holds only with an exception says which, and the exception is real behaviour:

* `CreatedOnce`: a lost answer, a failed write after the push, a user's "failed", or two
  pushers holding the task. Each of them alone makes a task twice.
* `CompletionIsNotUndone`: a snapshot request that read `tracking_data` before the completion
  writes its old copy back and the tracking is active again.
* `ReviewedBeforeCompleted`: an exception in the completion is swallowed and the session
  completed all the same (`cut`).
* `ListIsTrue` says "not more than": updates of the count are lost, and the collector never
  counts. An INSERT that fails after the committed UPDATE leaves the count one ahead (`missing`),
  and a schedule whose cancellation failed keeps its thread listed twice (`stuck`).
* `SessionForward`: a job that another one of its thread overtook between its look at the phase and its
  write (`overtaken`). A second review that looked while the first was under way writes `tracking`
  over its `completed`, until it completes the session itself.
* `UndeliveredIsListed`, `SettledMeansCreated` and `DeliversItsTasks` take a 200 for an acceptance, as
  the code does.
* `Settles`: an earlier row of the thread that failed and has its retry left (section 10).
* `CancelWasMeant` is checked and proved where a thread has one diagnosis and nothing else. A flag that
  `request_cancel` sets after `unregister_task` deleted it does cancel the next job of the thread.
* `FollowUpWaitsEnd`: the client polls for ever if the worker was stopped or killed or a cache
  write was lost, because only the progress entry tells the outcome (`Unlucky`), and if the
  API's first entry lands after the worker's error (`OutcomeOvertaken`).
* `AlarmWasTrue` excepts a query that missed the report while the diagnosis was saving it
  (`CutShort`).
* `StatusAgrees` speaks of the single tasks only where no statement failed.
* `HealthIsAnAverage` holds to the fourth decimal of the weights only.

### The bounds, and why they are enough

`DiagnosisJobs`: a violation of mutual exclusion needs two diagnoses that run and, because a
claim can only be lost through somebody else's release or registration, a third party: three
starts (or two and an adoption) per tenant. Tenants share no key, so one tenant is enough;
whether starts share an API process matters only to the `asyncio.Lock`, and `starts` uses the
case in which it does not help. A cancellation concerns one thread; two requests contend for its
lock, flag and row. Phases are only contended for by jobs of one thread: an adoption that tracks
at once beside a review, and two reviews side by side, are the pairs that the code admits and
the least that can overlap; the theorem holds for any number. Fault runs are limited to one job
because every step then doubles. No counter is bounded: `phasesDone` ends at 3 by the code.

`JobRecovery`: the index knows one active row of a thread, so all other rows of the thread are one
`other`. `MaxStarts` bounds the startups and `MaxTroubles` the crashes. Two startups are
the least that can race for a claim or a rotation, two troubles the least that can strike a
startup and a worker. A startup makes at most one id, so `Ids` never runs out.

`EffectTracking`: `MaxDay` = 1 gives the day on which things are due and the next, on which what
failed is found; `MaxSnaps` = 2 only stops the collector, which would go on daily. A
read-modify-write cycle is overtaken by one other writer, so each mix pairs the writers of a
document, with a third call that creates what they meet over.

`TaskDispatch`: two tasks of the plan are the least for which one can fail alone, one rule
task tells the two lists apart. `MaxRetries` = 2 is the last attempt and one before (the code
has 3), `MaxMishaps` = 2 a fault and one in its handling, `MaxEdits` = 1. The invariants and
their inductive forms were also explored with two redistributions; the theorems hold for all.

`StatusQueries`: `MaxFaults` = 2. The sets in `MCFaultSets` put together what can meet in one
behaviour. One job at a time is under way, and the job before it takes its last two steps before the
next does its work (`Alone`): those steps change the row and the keys alone, which the next job reads
only at its own end.

`DiagnosisContents`: the businesses lie at the average, around and exactly at each bound of the
severities, at nothing, at twice the excellent, and at what the modes leave out.
`MaxPlans` = 2 and `MaxSnapshots` = 2 are the least that have an order. The constraint `Bounds`
of `MCDiagnosisContents` cuts what would only be multiplied: which causes were found matters to
no plan, and the mode to no task.

### Fairness

`DiagnosisJobs`: a submission, a worker and a cancel request that have begun run on: they are
coroutines on an event loop, the awaited stores answer or raise, and arq delivers what it
accepted. Keys expire, because Redis does that. Nobody is obliged to start, adopt, review or
cancel, and no step is obliged to fail. Weak fairness is enough: once enabled, a handler's
next step stays enabled until it is taken. In `JobRecovery` the same holds for startups that
began and workers; nobody has to restart anything, and `Settles` speaks only of startups
after the last crash.

`EffectTracking` is fair to the daily checker alone, which apscheduler starts each day in every
API process. `TaskDispatch` is fair to the job and to each redistribution that began, not to
users. `StatusQueries` is fair to requests, worker, writes and queries that began, to the
expiry of a key no job will delete, and strongly fair to the client's poll, which is disabled
whenever somebody opens a page. It also makes the client go on to its next request, a
client like `compat_cli.py`. These conditions are about steps that change the state
(`WF_core`), not about the history `could`.

## 9. What is proved

All theorems are proved from the named assumptions about the constants alone
(`ConstantsAssumption` and `OneDiagnosisPerThread`, `RecoveryAssumption`, `TrackingAssumption`,
`DispatchAssumption`, `QueriesAssumption`, `ContentsAssumption`) and the hypotheses named below;
no number of threads, processes, calls, tasks, retries or faults is bounded in a proof.

`DiagnosisJobs_proofs.tla`:

* `TypeCorrect`: `Spec => [](TypeOK /\ PhasesRunOnce)`, with every fault and every kind of
  job. `TypeOK` alone is not inductive, since `phasesDone` could leave `0..3`;
  `PhasesRunOnce` supplies that a worker about to run a phase has completed at most two,
  and that a job not yet enqueued is absent.
* `OneDiagnosisPerTenant`: `Spec => []TenantMutex`. The inductive invariant is `SlotInv`.
  Mutual exclusion is not about running jobs alone: the slot is taken from the successful
  `SET NX` on (`Holder`); while it is taken the claim key is present (`SlotIsClaimed`),
  *though not always with the holder's name*, since a start whose job is already over
  may register late and rename it; and a start that releases its claim has enqueued
  nothing (`JobWasEnqueued`), so GET-then-DELETE hits only its own.
* `JobsImplementSlots`: `Spec => Slots!Spec`, the safety half of the refinement.
* `CancellationStops` (`CancelStopsPhases`), `CancellationWorks` (`CancelIsNotLost`) and
  `CancellationWasAsked` (`CancelWasMeant`). The
  invariant `CancelInv` says that a cancel request which sees the running key comes after
  the row was recorded, that the flag stays until the worker's `finally` clause, that a
  phase begun after the request is the only one, and that the outcome follows the flag.
* `SessionsMoveForward`: `Spec => SessionForward`, with every fault and any jobs of a thread
  side by side. A worker writes phases in the order of its job; `PhaseInv` says in which phases
  the session can be while a diagnosis is at each of its steps (`DiagnosisPhase`: nobody
  overtakes it, since the others look for a phase that only its end brings), and that a
  follow-up that was not overtaken is not behind the session (`FollowUpPhase`). Whoever moves it
  back was therefore overtaken.

All of them but `TypeCorrect` and `SessionsMoveForward` assume `Diagnoses = Jobs` and
`Faults = {}`. Both are needed: `adoption_mutex`
is a counterexample with an adoption, and a lost answer of arq or a failing `create_job`
releases the claim of a job that runs.

`JobRecovery_proofs.tla`:

* `TypeCorrect`: `Spec => []TypeOK`.
* `OneRetry`: `Spec => [](TypeOK /\ RetriedOnce)`. The claim is one UPDATE that checks the
  flag it sets, so the number of successful claims is a function of the flag.
* `NoRowIsOrphaned`: `Spec => []RecoveryInv`. That an active row has an arq job is not
  inductive alone. A startup that rotated the id may find the new id already enqueued by
  another startup; it may give up because that job is still before its outcome or the
  row is no longer active, unless a third startup has claimed the row again, and then
  that one is about to enqueue. `JobToCome` therefore counts a startup at `enqueueNew`
  only while the id is unknown to arq. `WorkersAndArqAgree` and `IdsAreFresh` supply that
  a running worker's id is in progress and that a new id is unknown.
* `ThePromiseIsKept`: `Spec => RecoversTheJob`, the refinement of `RecordedJob`. Each action is
  mapped to a step or a stutter (`StartupMaps`, `WorkerMaps`, `CrashMaps`) by what it does to
  `Found`, `Queued` and `ToReport`: an enqueue needs `WorkersAndArqAgree`, for the id must be
  neither queued nor in a worker's hands, and the claim needs `RetriedOnce`. That no step is the
  last hope of an active row is `RecoveryInv` once more, in the next state
  (`SomethingUnderWay`).
* `OutcomesStand`: `Spec => OutcomeIsFinal`. `AtRest` disables whoever could write the row, and in
  `RecordedJob` nothing gets under way again without somebody to find the job.

`EffectTracking_proofs.tla`:

* `TypeCorrect`: `Spec => []TypeOK`.
* `ReportBeforeCompletion`: `Spec => []ReviewedBeforeCompleted`. `ReviewInv` follows the callers
  of a completion: whoever is past it has a report or was cut short, and a completion that
  found no row cannot have come through the engine, which created it.
* `CompletionLasts`: `Spec => []CompletionIsNotUndone`. `UndoInv` says that after a completion
  without overlap nobody holds a copy with status active, and that no copy is taken of such
  a row again.
* `OneInflight`: `Spec => []OneCompletionPerProcess`. `InflightInv` ties the flag of a process
  to the one call that is between its submission and its `finally` clause.
* `OneProcessSpacesSnapshots`: `OneProcessOnly => (Spec => []AutomaticSnapshotsSpaced)`.
  `SpacedInv` says that a round that may save keeps the distance from the day it began,
  because the busy flag lets no other round save in between. Every process has a flag of
  its own: with two of them both rounds find the same last snapshot, and the theorem
  needs its hypothesis.
* `ListedIsTrue`: `IsFiniteSet(Calls) => (Spec => []ListIsTrue)`, with every fault, in three
  invariants. `CountInv` compares every copy of the count, in the row and in the hands of a
  call, with the snapshots there are, those whose counting request has yet to insert them and
  those whose insert failed; updates may get lost, but none is ahead. `ScheduledInv` names who
  will settle the scheduled review of a tracked thread: the request that created the row, or the
  daily check, since a user's review has settled it before it began. `MadeInv`: whoever
  finished, failed or completed a review found or made the row.

`TaskDispatch_proofs.tla`:

* `TypeCorrect`: `Spec => []TypeOK`, with `Where`: which states the job and a request can be in,
  and that a pusher in the middle of a push has a task in hand.
* `NothingIsHidden`: `Spec => []UndeliveredIsListed`. `Recorded` adds that a task whose push is
  being recorded was accepted.
* `CompletedStays`: `Spec => []CompletedIsKept`, by `SettledIsFree`: such a task is in nobody's
  hands. The job takes up no such task because of `Stages`: it lists tasks that it has yet to save.
* `AdoptionSettledMeansCreated`: `Spec => []SettledMeansCreated`. The two counts of `all_success`
  see different states; `Counts` says what survives in between: a task that was not pending
  at the first count was accepted, touched or failed, and can only become accepted or failed;
  `Stages` supplies that the tasks of the plan are saved together.
* `TasksAreCreatedOnce`: `Spec => []CreatedOnce`. `Once` holds of each task that is neither
  blurred nor shared: one pusher has it, once in its list (`HeldOnce`), and it was
  created at most once, by that push; `Exclusive` says that what two pushers hold is
  shared. The case between a request's two listings is the delicate one: the tasks listed as
  pending must not be found failed by the second, which is true because nobody else may push
  them unshared.
* `ShownIsTrue`: `Len(RuleTasks) < 200 /\ Len(PlanTasks) < 200 => (Spec => []StatusAgrees)`. Half
  of it is counting: the four counts of a plan partition its tasks. The other half is
  arithmetic and needs the bound: `round(completed / total * 100)` (`execution_service.py:80`)
  is 100 for 199 of 200 tasks, a plan that is "running" or "pending" at 100 %.
* `TasksAreDelivered`: `Spec => DeliversItsTasks`, the refinement of `TaskDelivery`. The earlier
  invariants each answer for one guard of the abstract actions: `Recorded` that a task recorded
  as running was accepted, `UndeliveredIsListed` that an exception drops none out of reach,
  `Stages` and `JobEnds` that the job saves the plan's tasks once and with empty hands, `Counts`
  that whoever settles may. `HandsTake` and `HandsFree` say how `todo` maps to hands,
  `PushMaps`, `JobMaps`, `RequestMaps` and `UserMaps` which abstract step each action is.

`StatusQueries_proofs.tla`:

* `TypeCorrect`: `Spec => []TypeOK`, by parts (`CoreType`), with the shape of what a query has
  read and `KindInv`, which queries come to which read.
* `CompletedMeansDone`: `Spec => []CompletedIsDone`, with every fault; the run checks it as part of
  `KeepsItsPromise`. An answer mixes
  states, so the proof asks what backs each piece of one. `OrderInv`: the session is made
  anew only while there is nothing in it to lose, and from the end of the pipeline to the
  job that adopts nobody else moves it, so that a job that finds an unexpected phase, and
  would tell "completed" without adopting, does not occur. Hence `Keep`: what the tables
  have is not lost. `RedisEvidence`, `WorkEvidence` and `QueryEvidence`: an entry that says
  "completed", in Redis, in a process's copy, among the writes that are still scheduled or
  in a query's hands, was written after the table that backs it. A lost or an overtaking
  cache write can only repeat such an entry, never invent one.

* `NoAlarmWithoutFault`: `Spec => []NoFalseAlarm`. `CalmWork`, `CalmRedis` and `CalmQuery` hold
  while nothing has gone wrong, even if something may yet (`mishaps = 0`, `MishapsCount`): no
  job fails, no row is refused, no entry in Redis, in a copy or in a query's hands is an error.
  The hard case is "failed" without any of these, told of a session that stands still with no
  report: a query reaches that read only if it saw no running key, and while a client waits for
  its diagnosis the key is there until the report is.
* `AlarmsAreTrue`: `Spec => []AlarmWasTrue`, with every fault. `could` collects what an instant
  query would have told since the query began, so the proof has to say, for each place of
  the query, why "failed" is in it when the reads so far lead there (`AlarmQuery`). It needs
  what the jobs and the other requests leave alone while a client waits (`Follows`): a key that
  is gone stays gone, a report stays, a refused row of a reported diagnosis stays refused, an
  error appears in the cache only from a job that has nothing else left to do
  (`AlarmRedis`). The exception `CutShort` is reached by a query that looked for the report before
  it was saved.
* `ThePromiseIsKept`: `Spec => KeepsItsPromise`, the refinement of `ThreadPromise`, with every
  fault. Beyond the invariants before it, it needs that every step makes at most one thing, in
  order and for good (`MakesOne`): a job that starts a session anew finds nothing in it, the one
  that adopts finds a report, the review is stored only of an adopted plan (`PromiseInv`).
  `Tells` says that an answer of any read is one that `Answer` allows, which is where
  `CompletedMeansDone` and `NoAlarmWithoutFault` enter; it adds the pages' "found" to them. The
  rest maps each action to a `Make`, `Ask`, `Answer`, `GoWrong` or a stutter.

`DiagnosisContents_proofs.tla` proves the properties for every business, request, mode, loss and
answer of the language model, not for the six businesses of the run:

* `ContentsAreConsistent`: `Spec => []ContentsInv`, the inductive invariant. Each part says that
  what is stored is the function of the earlier phases' results that the code computed:
  `FiguresInv` (values, scores, anomalies), `CausesInv`, `ReportInv`, `PlansInv` (sorted plans that
  honour the rules), `TasksInv`, `TrackInv` (a measured snapshot has the score of its
  figures; the closing one repeats the score before it).
* `TypeCorrect` (`TypeOK`), `FiguresAreConsistent` (`FiguresAgree`), `RulesAreKept`
  (`NothingIsForgotten`), `ReviewIsOnTime` (`ReviewDay`) and `TrendsAreReal` (`TrendIsReal`) follow from
  it by lemmas about the operators (`ContentsAssumption` bounds no date and no number of hours of a
  plan): a score is monotone in its indicator, a sum of scores in
  each score, and rounding and clipping keep the order (hence `TrendsAreReal`); a
  weighted average lies between the least and the largest score up to the weights' fourth
  decimal; what is added to plans for the rules survives coupons and sorting.
* `CausesAreKept`: `Spec => CausesKept`. `CausesInv` says that only anomalies have causes, and that
  nothing was asked before.

`FoldLemmas.tla` has the facts about the community modules' operators that these need: `Max` and
`Min` of a finite set, sums over a set (`SumFunctionOnSet`: adding an element, comparing two
sums), `FlattenSeq`, and that a finite set has one sequence sorted by a strict total order. They
are defined by recursive functions and `CHOOSE`, and the induction theorems of the library, which
take an operator, cannot be used. `InductionOnNumbers` states induction for a *set* of
numbers instead; each lemma puts "the sizes for which it fails" into such a set. That is why
the models use `SumFunction`, `Select` and a `CHOOSE` in `ByPriority` rather than `MapThenSumSet`,
`SelectSeq` and `SortSeq`, which take operators. The provers do not know that a string literal is
in `STRING`, so the types are stated for `Words`, which are `STRING` and the words of the rules;
`StepType` and `PlanType` take the words as a parameter.

Some leaves name their prover and its time (`SMTT(30)`, `ZenonT(60)`): each leaf needs well
under half of the time it is given, so that the proofs are found on slower machines, too.

An `elif` chain is written as nested `IF` wherever its conditions overlap: a `CASE` with two
true guards may take either branch, and the theorems would then speak of both.

Only model-checked: liveness (`JobsEnd`, `ClaimIsFreed`, `Settles`, `DueReviewsSettle`,
`EverythingIsCreated`, `RequestsEnd`, `StatusWaitEnds`, `FollowUpWaitsEnd`, the fairness of
`TenantSlots` in `ImplementsSlots`), which the proof system cannot do. Every invariant and every
safety action property of the passing runs is a theorem, and so are three of the four
refinements and the safety half of the fourth.

## 10. Observations

What the models made visible beside the three findings, each a place to look at when the
code is changed. None of them contradicts a statement of the repository clearly enough to be
a finding.

* A failed execution or review is recorded as a succeeded job, because the services swallow the
  exception; the startup retry never sees it.
* `pending_adopt_plan_id` is written before the permission check: after a 403 every later
  adoption is told that one is submitted.
* `FailJob` stores the state the job loaded at its start, so a plan that a redistribution has
  settled meanwhile is pending again.
* `exec_push_rule_tasks` creates each rule's task and, through the plan, its copy.
* With two plans, the mandatory steps may be in the one not adopted. They go to `plans[0]`
  before the sort, while `generate.py:165` speaks of the plan of highest priority.
* Only the collector copies `selected_dimensions` into `tracking_data`
  (`snapshot_collector.py:139`), so one series mixes scores of different scopes. A snapshot whose
  answers were all lost counts 60, where a diagnosis raises.
* `docs/计算公式汇总.md:106` defines the achievement as the share of improved indicators;
  `tracking_lifecycle.py:467` computes 50 plus two per point, never below 50, so that
  every completed tracking is saved as effective.
* The weights of crm, marketing and retention sum to 0.9999 (`calculator.py:219` says 1):
  three dimensions at exactly 80 are shown as 80.0 with the level below.
* A plan of 200 tasks or more shows 100 % before its last task is completed, because the share
  is rounded to the nearest percent.
* A denominator of 0 makes an indicator 0, hence an anomaly of severity high; unknown selected
  indicators activate every dimension with none, hence 60.
* The review's day begins at midnight, so with deadlines of hours it may be due before the moment of the
  execution, on its day. A plan whose dates all lie in the past, as the language model may write
  them, is due for its review on a day before the execution and is reviewed at once.
* A push that the business system answers with 200 and an error code in the body shows a task as
  dispatched and running that was never created: `_unwrap_standard_envelope`
  (`http_client.py:24`) returns such a body, `execute.py:64` does not look into it, and no
  redistribution finds the task. `execute.py:54` says 成功写 dispatched，失败写 failed.
* An API process cannot start while an active job of a thread has beside it a failed one that has its
  retry left: the claim violates the unique index, outside the `try` of
  `reconcile_pending_jobs`, and the jobs updated after the failed one are recovered by nobody. Since the
  active row waits for a worker, the process comes up once the worker has finished it, and never if
  its job was lost.
* A follow-up request that comes between the last message of a job and its mark is refused its row by
  the index after the enqueue: the client gets a 500, and the job runs without a row.
* Two reviews of a thread side by side take the session from `completed` back to `tracking`, and then
  complete it again.
* The closing snapshot's report knows no "declining", and `_build_metric_effects`
  (`tracking_report.py:149`) treats lower-is-better indicators like the others.
* While an immediate review waits in the queue its thread is listed nowhere: the schedule is
  cancelled and the row not there yet.

## 11. Plan

| module | about | state |
|---|---|---|
| `DiagnosisJobs`, `TenantSlots`, `JobRecovery` | jobs, claims, cancellations, restarts | done; open: cancelled rows in the recovery, the claims of several rows of a tenant |
| `EffectTracking` | read-modify-write cycles, daily tasks | done; open: trackings under an id of their own |
| `TaskDispatch` | pushes, retries, redistribution | done; open: what several plans of a thread do to each other |
| `StatusQueries` | answers, progress entries | done; open: the history list, sockets and their replacement |
| `Indicators`, `Solutions`, `DiagnosisContents` | the figures | done |
| `PlanAdoption` | the checks of the HTTP and the WebSocket adoption against the merged `state_json`; "one plan per diagnosis" as abstraction | open |
| `SessionState`, `Schedulers` | the merge of stale state over newer keys; the weekly pipeline beside a worker | open |

Further theorems: an abstract specification of `EffectTracking` (a tracking is opened, measured and
closed, with the lost updates of `tracking_data` in it), and what `OneDiagnosisPerTenant` becomes when
`TaskDispatch`'s adoption jobs register beside diagnoses.

## 12. Not modelled

The components marked `not_modelled` in `PROJECT.json`, and of those marked `partly` what their
notes name: tables of percentages and labels; tenant configuration, whose one hazard is the
later of two administrators' forms; settings, pools, logging, tracing, migrations other than the
unique index on active rows, front end and scripts, which have no core logic. The language
model, the business system, arq, Redis and Postgres are external and modelled by how the code
uses them: they answer, fail to answer, or answer too late. Wire formats, field names and the
wording of prompts, reports and messages are abstracted.
