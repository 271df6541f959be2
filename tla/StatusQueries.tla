------------------------------ MODULE StatusQueries ------------------------------
(***************************************************************************)
(* What a client is told of one thread.  It starts a diagnosis and polls its *)
(* status until that is final, adopts a plan and polls the adoption (as the  *)
(* command line clients do), starts the scheduled review and polls that (as  *)
(* the tracking page does; a review by POST /tracking/{id}/complete has no   *)
(* job, row or key and is EffectTracking's); pages look at the thread        *)
(* meanwhile.  An answer is put together from the   *)
(* report, the session, the job's row, the running key and the progress      *)
(* cache, which it reads one after the other while a worker and the API      *)
(* write them one after the other.                                          *)
(*                                                                         *)
(* collecting, diagnosing and generating are one phase here: no reader tells *)
(* them apart.  Percentages and texts are left out, and with them the        *)
(* difference of pending and running.                                       *)
(***************************************************************************)
EXTENDS Naturals, Sequences

CONSTANTS
    FaultSets,      \* the sets of faults a behaviour may have
    MaxFaults       \* bound on the faults of a behaviour

\* "phase": a phase raises; "save": save_report fails; "redis": a cache write is
\* lost; "cancel": a user cancels; "stop": the worker's task is cancelled; "kill":
\* the worker dies; "ttl": a Redis key expires.
AllFaults == {"phase", "save", "redis", "cancel", "stop", "kill", "ttl"}

ASSUME QueriesAssumption == FaultSets \subseteq SUBSET AllFaults /\ MaxFaults \in Nat

VARIABLES
    report,     \* diag_reports has the thread's report
    session,    \* diag_sessions
    job,        \* the thread's newest row of async_job_metas
    running,    \* task:running
    cancel,     \* task:cancel-requested
    reviewed,   \* effect_reviews has the thread's report
    scheduled,  \* pending_reviews has the thread's review
    cache,      \* the progress entry in Redis
    local,      \* the API process's copy of it
    writes,     \* the worker's cache writes, in the order of its lock
    awaited,    \* how many of them its job waits for
    work,       \* the job in the worker's hands: kind and where it stands
    leaving,    \* the job before it, if that has still to mark its row or to unregister
    submit,     \* the API's request under way: kind and where it stands
    cancelling, \* a cancel request has set the flag and not yet marked the rows
    query,      \* the query under way: kind, where it stands, what it has read
    wait,       \* what the client waits for
    told,       \* history: the last answer, until the next query
    could,      \* history: what an instant query would have said meanwhile
    faults, mishaps

stored  == <<report, session, job, reviewed, scheduled>>
keys    == <<running, cancel, leaving>>
redis   == <<cache, writes, awaited>>
client  == <<query, wait, told, local>>
env     == <<faults, mishaps>>
core    == <<stored, keys, redis, local, work, submit, cancelling, query, wait, told, env>>
vars    == <<core, could>>

Kinds == {"diagnosis", "adoption", "review"}
JobStatus == {"none", "queued", "running", "succeeded", "failed", "cancelled"}
Phase == {"none", "pipeline", "waiting_adoption", "executing", "waiting_track",
          "tracking", "completed", "failed"}
Entry == [type : {"plain", "progress", "error", "completed"},
          stage : {"none", "execution", "effect_track"}]
NoEntry == [type |-> "absent", stage |-> "none"]
An(type, stage) == [type |-> type, stage |-> stage]

WorkPC == {"idle", "queued", "clear", "create", "collect", "collecting", "diagnose",
           "diagnosing", "keep", "generate", "generating", "finish", "begin", "resume",
           "execute", "tell", "tellError", "track", "complete", "learn", "ending", "close",
           "mark", "stopped", "failed", "end", "dead"}
QueryPC == {"none", "row", "fallback", "report", "wait", "alive", "cache", "running",
            "job", "early", "early2", "decide", "state", "values", "progress", "key",
            "reviewed", "scheduled", "rows", "threads", "item"}
Polls == {"status", "adopt", "review"}
Pages == {"progress", "list", "report"}
Answers == {"completed", "failed", "running", "not_found", "idle", "pending_adoption",
            "scheduled", "ready", "absent", "found"}
Wait == Polls \cup {"start", "adopting", "reviewing", "over"}

NoView == [session |-> [phase |-> "none", hasReport |-> FALSE, pending |-> FALSE,
                        adopted |-> FALSE],
           job |-> "none", running |-> FALSE, cache |-> NoEntry, reviewed |-> FALSE]
NoJob == [kind |-> "diagnosis", pc |-> "none"]
NoQuery == [kind |-> "none", pc |-> "none", saw |-> NoView]
NoAnswer == [kind |-> "none", answer |-> "none", true |-> TRUE]

\* Every store, key, entry and query under way keeps its shape (the tables and keys
\* of diagnosis_session.py, async_job_meta.py, running_task_store.py).
TypeOK ==
    /\ report \in BOOLEAN /\ reviewed \in BOOLEAN /\ scheduled \in BOOLEAN
    /\ session \in [phase : Phase, hasReport : BOOLEAN, pending : BOOLEAN, adopted : BOOLEAN]
    /\ job \in [kind : Kinds, status : JobStatus]
    /\ running \in BOOLEAN /\ cancel \in BOOLEAN /\ cancelling \in BOOLEAN
    /\ cache \in Entry \cup {NoEntry} /\ local \in Entry \cup {NoEntry}
    /\ writes \in Seq(Entry) /\ awaited \in Nat
    /\ work \in [kind : Kinds, pc : WorkPC]
    /\ leaving \in [kind : Kinds, pc : {"none", "mark", "stopped", "end"}]
    /\ submit \in [kind : Kinds, pc : {"none", "mark", "enqueue", "record", "register", "seed"}]
    /\ query.kind \in Polls \cup Pages \cup {"none"} /\ query.pc \in QueryPC
    /\ wait \in Wait
    /\ told.kind \in Polls \cup Pages \cup {"none"} /\ told.answer \in Answers \cup {"none"}
    /\ told.true \in BOOLEAN /\ could \in SUBSET Answers
    /\ faults \in FaultSets /\ mishaps \in 0..MaxFaults

Init ==
    /\ report = FALSE /\ reviewed = FALSE /\ scheduled = FALSE
    /\ session = NoView.session
    /\ job = [kind |-> "diagnosis", status |-> "none"]
    /\ running = FALSE /\ cancel = FALSE /\ cancelling = FALSE
    /\ cache = NoEntry /\ local = NoEntry /\ writes = <<>> /\ awaited = 0
    /\ work = [kind |-> "diagnosis", pc |-> "idle"] /\ leaving = NoJob
    /\ submit = [kind |-> "diagnosis", pc |-> "none"]
    /\ query = NoQuery /\ wait = "start" /\ told = NoAnswer
    /\ could = {} /\ faults \in FaultSets /\ mishaps = 0

Fault(kind) == /\ kind \in faults /\ mishaps < MaxFaults
               /\ mishaps' = mishaps + 1 /\ UNCHANGED faults

-----------------------------------------------------------------------------
(* The API's requests                                                       *)

At(pc) == work.pc = pc /\ awaited = 0
To(pc) == work' = [work EXCEPT !.pc = pc]

\* POST /diagnosis/start; its claims and refusals are DiagnosisJobs'.
Start ==
    /\ wait = "start" /\ submit.pc = "none"
    /\ submit' = [kind |-> "diagnosis", pc |-> "enqueue"]
    /\ UNCHANGED <<stored, keys, redis, work, cancelling, client, env>>

\* adopt_plan_and_enqueue, which refuses unless the session waits for an adoption ...
Adopt ==
    /\ wait = "adopting" /\ submit.pc = "none"
    /\ IF session.phase = "waiting_adoption" /\ ~session.pending /\ ~session.adopted
       THEN submit' = [kind |-> "adoption", pc |-> "mark"] /\ UNCHANGED wait
       ELSE wait' = "over" /\ UNCHANGED submit
    /\ UNCHANGED <<stored, keys, redis, work, cancelling, query, told, local, env>>

\* ... and start_immediate_review, unless it waits for a review.
Review ==
    /\ wait = "reviewing" /\ submit.pc = "none"
    /\ IF session.phase \in {"waiting_track", "tracking"}
       THEN submit' = [kind |-> "review", pc |-> "mark"] /\ UNCHANGED wait
       ELSE wait' = "over" /\ UNCHANGED submit
    /\ UNCHANGED <<stored, keys, redis, work, cancelling, query, told, local, env>>

\* The plan is marked pending; the scheduled review is cancelled.
MarkSession ==
    /\ submit.pc = "mark" /\ submit' = [submit EXCEPT !.pc = "enqueue"]
    /\ IF submit.kind = "adoption"
       THEN session' = [session EXCEPT !.pending = TRUE] /\ UNCHANGED scheduled
       ELSE scheduled' = FALSE /\ UNCHANGED session
    /\ UNCHANGED <<report, job, reviewed, keys, redis, work, cancelling, client, env>>

\* Mutant: the thread is the job's id, which arq refuses while it keeps the result of the
\* diagnosis; the refusal goes unnoticed.
EnqueueByThread ==
    /\ submit.pc = "enqueue" /\ submit' = [submit EXCEPT !.pc = "record"]
    /\ work.pc = "idle"
    /\ work' = IF submit.kind = "diagnosis" THEN [kind |-> "diagnosis", pc |-> "queued"] ELSE work
    /\ UNCHANGED <<stored, running, cancel, leaving, redis, cancelling, client, env>>

\* The client is told of an outcome before the job that made it has marked its row
\* and unregistered: the next job may be enqueued, and taken, before that.
AtEnd == At("mark") \/ At("stopped") \/ At("end")
Enqueue ==
    /\ submit.pc = "enqueue" /\ submit' = [submit EXCEPT !.pc = "record"]
    /\ \/ work.pc = "idle" /\ UNCHANGED leaving
       \/ AtEnd /\ leaving.pc = "none" /\ leaving' = work
    /\ work' = [kind |-> submit.kind, pc |-> "queued"]
    /\ UNCHANGED <<stored, running, cancel, redis, cancelling, client, env>>

\* The table's index admits one active row of a thread: the request fails, and the
\* job runs without a row and a key.
RecordJob ==
    /\ submit.pc = "record"
    /\ IF job.status \in {"queued", "running"}
       THEN submit' = [submit EXCEPT !.pc = "none"] /\ wait' = "over" /\ UNCHANGED job
       ELSE /\ submit' = [submit EXCEPT !.pc = "register"] /\ UNCHANGED wait
            /\ job' = [kind |-> submit.kind, status |-> "queued"]
    /\ UNCHANGED <<report, session, reviewed, scheduled, keys, redis, work, cancelling,
                   query, told, local, env>>

\* The request is answered and the client polls.
AnsweredWait == CASE submit.kind = "diagnosis" -> "status"
                  [] submit.kind = "adoption" -> "adopt"
                  [] submit.kind = "review" -> "review"

RegisterRunning ==
    /\ submit.pc = "register"
    /\ running' = TRUE
    /\ IF submit.kind = "adoption"
       THEN submit' = [submit EXCEPT !.pc = "seed"] /\ UNCHANGED wait
       ELSE submit' = [submit EXCEPT !.pc = "none"] /\ wait' = AnsweredWait
    /\ UNCHANGED <<stored, cancel, leaving, redis, work, cancelling, query, told, local, env>>

\* _seed_adoption_progress_after_submit, through the API process's own lock.
Seed ==
    /\ submit.pc = "seed" /\ submit' = [submit EXCEPT !.pc = "none"]
    /\ cache' = An("progress", "execution") /\ local' = cache'
    /\ wait' = AnsweredWait
    /\ UNCHANGED <<stored, keys, writes, awaited, work, cancelling, query, told, env>>

Submit == MarkSession \/ Enqueue \/ RecordJob \/ RegisterRunning \/ Seed

\* cancel_diagnosis: the flag of a running thread, then its active rows.
RequestCancel ==
    /\ running /\ ~cancelling /\ Fault("cancel")
    /\ cancel' = TRUE /\ cancelling' = TRUE
    /\ UNCHANGED <<stored, running, leaving, redis, work, submit, client>>

CancelRows ==
    /\ cancelling /\ cancelling' = FALSE
    /\ job' = IF job.status \in {"queued", "running"}
              THEN [job EXCEPT !.status = "cancelled"] ELSE job
    /\ UNCHANGED <<report, session, reviewed, scheduled, keys, redis, work, submit,
                   client, env>>

-----------------------------------------------------------------------------
(* ProgressStore in the worker's process                                    *)

\* progress_cache[thread] = entry only schedules aset ...
Schedule(entries) == writes' = writes \o entries /\ UNCHANGED <<cache, awaited>>

\* ... while await aset waits for its turn at the lock and for Redis; what is
\* scheduled and has not run yet comes after it.
Say(entry, scheduledYet) == /\ writes' = writes \o <<entry>> \o scheduledYet
                            /\ awaited' = Len(writes) + 1 /\ UNCHANGED cache

\* Mutant: every write counts as awaited.
FlushUncounted ==
    /\ writes # <<>> /\ cache' = Head(writes) /\ writes' = Tail(writes)
    /\ awaited' = awaited - 1
    /\ UNCHANGED <<stored, keys, work, submit, cancelling, client, env>>

\* aset, holding the thread's lock; a failure of Redis is swallowed.
Flush ==
    /\ writes # <<>>
    /\ \/ cache' = Head(writes) /\ UNCHANGED env
       \/ Fault("redis") /\ UNCHANGED cache
    /\ writes' = Tail(writes)
    /\ awaited' = IF awaited > 0 THEN awaited - 1 ELSE 0
    /\ UNCHANGED <<stored, keys, work, submit, cancelling, client>>

-----------------------------------------------------------------------------
(* The worker                                                               *)

\* An UPDATE of the job's row, which may not be there yet.
MarkJob(status) ==
    job' = IF job.kind = work.kind /\ job.status # "none"
           THEN [job EXCEPT !.status = status] ELSE job
Marked(status) == MarkJob(status) /\ UNCHANGED <<report, session, reviewed, scheduled>>
SetSession(changed) == session' = changed /\ UNCHANGED <<report, job, reviewed, scheduled>>
Goes(from, to) == At(from) /\ To(to) /\ UNCHANGED <<submit, cancelling, client, env>>

\* mark_running, then the body of the job's kind.
TakeJob ==
    /\ Goes("queued", CASE work.kind = "diagnosis" -> "clear"
                        [] work.kind = "adoption" -> "begin"
                        [] work.kind = "review" -> "track")
    /\ Marked("running") /\ UNCHANGED <<keys, redis>>

\* run_diagnosis_with_stream: aclear_run, the first entry, create_session.
ClearRun ==
    /\ Goes("clear", "create")
    /\ cache' = NoEntry /\ writes' = Append(writes, An("progress", "none"))
    /\ UNCHANGED <<stored, keys, awaited>>

CreateSession ==
    /\ Goes("create", "collect")
    /\ SetSession([NoView.session EXCEPT !.phase = "pipeline"])
    /\ UNCHANGED <<keys, redis>>

\* The flag is looked at before each phase.
CheckCancel ==
    /\ \E p \in {<<"collect", "collecting">>, <<"diagnose", "diagnosing">>,
                 <<"generate", "generating">>} :
          Goes(p[1], IF cancel THEN "stopped" ELSE p[2])
    /\ UNCHANGED <<stored, keys, redis>>

Collect ==
    /\ Goes("collecting", "diagnose") /\ Schedule(<<An("plain", "none")>>)
    /\ UNCHANGED <<stored, keys>>

\* diagnose_node saves the report itself and swallows the failure ...
SaveReport ==
    /\ At("diagnosing") /\ To("keep")
    /\ \/ report' = TRUE /\ UNCHANGED env
       \/ Fault("save") /\ UNCHANGED report
    /\ Schedule(<<An("plain", "none")>>)
    /\ UNCHANGED <<session, job, reviewed, scheduled, keys, submit, cancelling, client>>

\* ... and returns it, for update_session_state.
KeepReport ==
    /\ Goes("keep", "generate")
    /\ SetSession([session EXCEPT !.hasReport = TRUE])
    /\ UNCHANGED <<keys, redis>>

Generate ==
    /\ Goes("generating", "finish") /\ Schedule(<<An("plain", "none"), An("progress", "none")>>)
    /\ UNCHANGED <<stored, keys>>

\* With anomalies and plans the session waits for an adoption.
FinishPipeline ==
    /\ Goes("finish", "mark")
    /\ \E phase \in {"waiting_adoption", "completed"} :
          SetSession([session EXCEPT !.phase = phase])
    /\ UNCHANGED <<keys, redis>>

\* An exception: the error is written to the cache, then to the row.  Collection
\* emits a last message before it raises and lets nothing run in between.
FailPhase ==
    /\ work.pc \in {"collecting", "diagnosing", "keep", "generating"} /\ awaited = 0
    /\ Fault("phase") /\ To("failed")
    /\ Say(An("error", "none"),
           IF work.pc = "collecting" THEN <<An("plain", "none")>> ELSE <<>>)
    /\ UNCHANGED <<stored, keys, submit, cancelling, client>>

\* Bound: the job before takes its last two steps before this one does its work.
Alone == leaving.pc = "none"

\* resume_after_adoption of the service: a message, the engine, a message.
BeginAdoption ==
    /\ Alone /\ Goes("begin", "resume")
    /\ Say(An("progress", "execution"), <<>>)
    /\ UNCHANGED <<stored, keys>>

ResumeAdoption ==
    /\ IF session.phase \in {"waiting_adoption", "executing"}
       THEN Goes("resume", "execute") /\ SetSession([session EXCEPT !.phase = "executing"])
       ELSE Goes("resume", "tell") /\ UNCHANGED stored
    /\ UNCHANGED <<keys, redis>>

Execute ==
    /\ At("execute")
    /\ \/ /\ session' = [session EXCEPT !.phase = "waiting_track", !.pending = FALSE,
                                        !.adopted = TRUE]
          /\ scheduled' = TRUE /\ To("tell") /\ UNCHANGED env
       \/ /\ session' = [session EXCEPT !.phase = "failed"]
          /\ Fault("phase") /\ To("tellError") /\ UNCHANGED scheduled
    /\ Schedule(<<An("plain", "none")>>)
    /\ UNCHANGED <<report, job, reviewed, keys, submit, cancelling, client>>

\* The failure is told and swallowed: the job succeeds.
TellOutcome ==
    /\ \/ Goes("tell", "mark") /\ Say(An("completed", "execution"), <<>>)
       \/ Goes("tellError", "mark") /\ Say(An("error", "execution"), <<>>)
    /\ UNCHANGED <<stored, keys>>

\* resume_track_effects and _complete_tracking_background.
EnterTracking ==
    /\ Alone
    /\ IF session.phase \in {"waiting_track", "tracking"}
       THEN Goes("track", "complete") /\ SetSession([session EXCEPT !.phase = "tracking"])
       ELSE Goes("track", "mark") /\ UNCHANGED stored
    /\ UNCHANGED <<keys, redis>>

CompleteTracking ==
    /\ At("complete")
    /\ \/ To("learn") /\ Say(An("progress", "effect_track"), <<>>) /\ UNCHANGED <<session, env>>
       \/ /\ Fault("phase") /\ session' = [session EXCEPT !.phase = "failed"]
          /\ To("mark") /\ Say(An("error", "effect_track"), <<>>)
    /\ UNCHANGED <<report, job, reviewed, scheduled, keys, submit, cancelling, client>>

\* The report is inserted, a message follows; a failure is told and swallowed.
StoreReview ==
    /\ At("learn")
    /\ \/ /\ reviewed' = TRUE /\ To("ending") /\ UNCHANGED env
          /\ Say(An("progress", "effect_track"), <<>>)
       \/ /\ Fault("phase") /\ To("close") /\ UNCHANGED reviewed
          /\ Say(An("error", "effect_track"), <<>>)
    /\ UNCHANGED <<report, session, job, scheduled, keys, submit, cancelling, client>>

TellReviewed ==
    /\ Goes("ending", "close") /\ Say(An("completed", "effect_track"), <<>>)
    /\ UNCHANGED <<stored, keys>>

\* Mutant: the session is closed with what it was created with.
CloseSessionAfresh ==
    /\ Goes("close", "mark")
    /\ SetSession([NoView.session EXCEPT !.phase = "completed"])
    /\ UNCHANGED <<keys, redis>>

CloseSession ==
    /\ Goes("close", "mark")
    /\ SetSession([session EXCEPT !.phase = "completed"])
    /\ UNCHANGED <<keys, redis>>

\* The except and finally clauses of the job.
MarkDone ==
    /\ Goes("mark", "end")
    /\ Marked(IF cancel THEN "cancelled" ELSE "succeeded") /\ UNCHANGED <<keys, redis>>

MarkStopped ==
    /\ Goes("stopped", "end")
    /\ Marked(IF cancel THEN "cancelled" ELSE "failed") /\ UNCHANGED <<keys, redis>>

MarkFailed ==
    /\ Goes("failed", "end") /\ Marked("failed") /\ UNCHANGED <<keys, redis>>

Unregister ==
    /\ Goes("end", "idle") /\ running' = FALSE /\ cancel' = FALSE
    /\ UNCHANGED <<stored, leaving, redis>>

\* The same of the job before, beside the next one's: the keys are the thread's.
LeaveRow ==
    /\ leaving.pc \in {"mark", "stopped"} /\ leaving' = [leaving EXCEPT !.pc = "end"]
    /\ job' = IF job.kind # leaving.kind \/ job.status = "none" THEN job
              ELSE [job EXCEPT !.status = IF cancel THEN "cancelled"
                                          ELSE IF leaving.pc = "mark" THEN "succeeded" ELSE "failed"]
    /\ UNCHANGED <<report, session, reviewed, scheduled, running, cancel, redis, work, submit,
                   cancelling, client, env>>

LeaveKeys ==
    /\ leaving.pc = "end" /\ leaving' = NoJob
    /\ running' = FALSE /\ cancel' = FALSE
    /\ UNCHANGED <<stored, redis, work, submit, cancelling, client, env>>

Leave == LeaveRow \/ LeaveKeys

Worker ==
    \/ TakeJob \/ ClearRun \/ CreateSession \/ CheckCancel \/ Collect \/ SaveReport
    \/ KeepReport \/ Generate \/ FinishPipeline \/ FailPhase
    \/ BeginAdoption \/ ResumeAdoption \/ Execute \/ TellOutcome
    \/ EnterTracking \/ CompleteTracking \/ StoreReview \/ TellReviewed
    \/ CloseSession
    \/ MarkDone \/ MarkStopped \/ MarkFailed \/ Unregister

InBody == work.pc \notin {"idle", "queued", "mark", "stopped", "failed", "end", "dead"}

\* job_timeout, or a worker that shuts down.
Interrupt ==
    /\ InBody /\ Fault("stop") /\ To("stopped") /\ awaited' = 0
    /\ UNCHANGED <<stored, keys, cache, writes, submit, cancelling, client>>

\* A worker dies, with the job before: what is queued stays in the queue.
Kill ==
    /\ Fault("kill") /\ leaving' = NoJob
    /\ \/ work.pc \notin {"idle", "queued", "dead"} /\ To("dead")
       \/ work.pc = "queued" /\ leaving.pc # "none" /\ UNCHANGED work
    /\ writes' = <<>> /\ awaited' = 0
    /\ UNCHANGED <<stored, running, cancel, cache, submit, cancelling, client>>

\* The running key that no job will delete expires, and one whose job waits too
\* long in the queue; the entry lives an hour.
ExpireRunning ==
    /\ running /\ running' = FALSE
    /\ \/ work.pc \in {"idle", "dead"} /\ submit.pc = "none" /\ UNCHANGED env
       \/ work.pc = "queued" /\ Fault("ttl")
    /\ UNCHANGED <<stored, cancel, leaving, redis, work, submit, cancelling, client>>

ExpireEntry ==
    /\ cache # NoEntry /\ Fault("ttl") /\ cache' = NoEntry
    /\ UNCHANGED <<stored, keys, writes, awaited, work, submit, cancelling, client>>

-----------------------------------------------------------------------------
(* Queries: what they answer                                                *)

NextNodes(phase) == phase \notin {"none", "completed", "failed"}

\* progress_cache.aget: Redis, or else the copy that this process keeps for good.
Seen == IF cache # NoEntry THEN cache ELSE local

\* get_diagnosis_status of a running thread, by the entry alone.
ByEntry(entry) == IF entry.type = "error" THEN "failed" ELSE "running"

\* get_adopt_execution_progress_payload
AdoptAnswer(s, entry, alive) ==
    LET waiting == s.phase = "waiting_adoption"
        executed == entry.stage = "execution"
    IN  IF executed /\ entry.type = "error" THEN "failed"
        ELSE IF executed /\ entry.type = "completed" THEN "completed"
        ELSE IF s.adopted /\ ~s.pending /\ ~waiting THEN "completed"
        ELSE IF waiting /\ ~s.pending THEN "pending_adoption"
        ELSE IF (alive /\ (s.pending \/ executed)) \/ (s.pending /\ waiting) THEN "running"
        ELSE "idle"

\* build_review_progress
ReviewAnswer(s, entry, alive, done, due) ==
    LET tracked == entry.stage = "effect_track"
    IN  IF tracked /\ entry.type = "progress" THEN "running"
        ELSE IF done THEN "completed"
        ELSE IF tracked /\ entry.type = "error" THEN "failed"
        ELSE IF tracked /\ entry.type = "completed" THEN "completed"
        ELSE IF s.phase \in {"waiting_track", "tracking"}
        THEN IF alive THEN "running" ELSE IF due THEN "scheduled" ELSE "ready"
        ELSE IF tracked THEN "running" ELSE "idle"

\* ... and of one that does not run and has no report: a job that succeeded is given
\* thirty seconds for it.
Unreported(status, late) ==
    IF NextNodes(session.phase) THEN "failed"
    ELSE IF status # "succeeded" THEN "not_found"
    ELSE IF late THEN "failed" ELSE "running"

\* What it says of a thread that stands still.
StatusNow ==
    LET refused == job.status \in {"failed", "cancelled"}
        reported == report \/ (session.hasReport /\ ~running /\ ~refused)
        waiting == session.phase = "waiting_adoption"
    IN  CASE waiting /\ (reported \/ running) -> "completed"
          [] reported /\ ~waiting -> IF running THEN ByEntry(Seen) ELSE "completed"
          [] OTHER -> IF refused THEN "failed"
                      ELSE IF running
                      THEN IF job.status = "queued" THEN "running" ELSE ByEntry(Seen)
                      ELSE Unreported(job.status, FALSE)

Now(kind) ==
    CASE kind = "status" -> StatusNow
      [] kind = "adopt" -> AdoptAnswer(session, Seen, running)
      [] kind = "review" -> ReviewAnswer(session, Seen, running, reviewed, scheduled)
      [] OTHER -> "none"

-----------------------------------------------------------------------------
(* Queries: one step per read                                               *)

Asks(k) == CASE k = "status" -> "report" [] k = "report" -> "row" [] k = "list" -> "rows"
             [] OTHER -> "values"

Ask(k) ==
    /\ query.pc = "none"
    /\ query' = [kind |-> k, pc |-> Asks(k), saw |-> NoView] /\ told' = NoAnswer
    /\ UNCHANGED <<stored, keys, redis, work, submit, cancelling, wait, local, env>>

\* The client polls what it waits for; pages are opened at any time.
Poll == wait \in Polls /\ Ask(wait)
OpenPage == \E k \in Pages : Ask(k)

Final == {"completed", "failed", "not_found"}

\* wait_status_done, wait_adopt_done, wait_review_progress_done, and what follows,
\* whichever way the wait ended: the next request is refused if it cannot be.
After(answer) ==
    IF query.kind = wait /\ answer \in Final
    THEN CASE wait = "status" -> "adopting"
           [] wait = "adopt" -> "reviewing"
           [] wait = "review" -> "over"
    ELSE wait

\* The query missed the report, which was saved under it, of a diagnosis that has
\* failed or was cancelled after that, or that ended early.
CutShort(answer) ==
    /\ query.kind = "status" /\ answer = "failed" /\ report
    /\ session.phase = "pipeline" \/ job.status \in {"failed", "cancelled"}

Answer(answer) ==
    /\ query' = NoQuery
    /\ told' = [kind |-> query.kind, answer |-> answer,
                true |-> query.kind \in Polls /\ answer \in {"failed", "not_found"}
                             => answer \in could \/ CutShort(answer)]
    /\ wait' = After(answer)

Reads(pc) == query.pc = pc /\ UNCHANGED <<stored, keys, redis, work, submit, cancelling, env>>
Then(pc) == query' = [query EXCEPT !.pc = pc] /\ UNCHANGED <<wait, told>>
Keeps(pc, field, value) ==
    query' = [query EXCEPT !.pc = pc, !.saw[field] = value] /\ UNCHANGED <<wait, told>>
Waiting == session.phase = "waiting_adoption"

\* get_diagnosis_report_data; without a report the page says why, with a status
\* query like the client's.
ReadReportRow ==
    /\ Reads("row") /\ UNCHANGED local
    /\ IF report THEN Answer("found") ELSE Then("fallback")

ReadReportFallback ==
    /\ Reads("fallback") /\ UNCHANGED local
    /\ Answer(IF session.hasReport THEN "found" ELSE "absent")

\* get_diagnosis_status, with a report ...
ReadReport ==
    /\ Reads("report") /\ UNCHANGED local
    /\ Then(IF report THEN "wait" ELSE "running")

ReadWaitAdoption ==
    /\ Reads("wait") /\ UNCHANGED local
    /\ IF Waiting THEN Answer("completed") ELSE Then("alive")

\* Mutant: the entry decides, whether the thread runs or not.
ReadAliveNever == Reads("alive") /\ UNCHANGED local /\ Then("cache")

ReadAlive ==
    /\ Reads("alive") /\ UNCHANGED local
    /\ IF running THEN Then("cache") ELSE Answer("completed")

ReadCache ==
    /\ Reads("cache") /\ local' = Seen /\ Answer(ByEntry(Seen))

\* ... and without one.
ReadRunning ==
    /\ Reads("running") /\ UNCHANGED local
    /\ Keeps("job", "running", running)

ReadJob ==
    /\ Reads("job") /\ UNCHANGED local
    /\ IF query.saw.running THEN Keeps("early", "job", job.status)
       ELSE IF job.status \in {"failed", "cancelled"} THEN Answer("failed")
       ELSE Keeps("state", "job", job.status)

ReadEarly ==
    /\ Reads("early") /\ UNCHANGED local
    /\ Then(IF Waiting THEN "early2" ELSE "decide")

ReadEarlyAgain ==
    /\ Reads("early2") /\ UNCHANGED local
    /\ IF Waiting THEN Answer("completed") ELSE Then("decide")

DecideByJob ==
    /\ Reads("decide")
    /\ CASE query.saw.job = "queued" -> Answer("running") /\ UNCHANGED local
         [] query.saw.job \in {"failed", "cancelled"} -> Answer("failed") /\ UNCHANGED local
         [] OTHER -> Answer(ByEntry(Seen)) /\ local' = Seen

\* Mutant: the report that was saved since is not looked for.
ReadStateOnly ==
    /\ Reads("state") /\ UNCHANGED local
    /\ Answer(IF NextNodes(session.phase) THEN "failed" ELSE "not_found")

\* The session's own copy of the report stands in for the row.
ReadState ==
    /\ Reads("state") /\ UNCHANGED local
    /\ IF session.hasReport THEN Then("wait")
       ELSE \E late \in BOOLEAN : Answer(Unreported(query.saw.job, late))

\* The progress of an adoption or a review, and the progress page.
ReadValues ==
    /\ Reads("values") /\ UNCHANGED local
    /\ IF query.kind = "progress" /\ (NextNodes(session.phase) \/ session.hasReport)
       THEN Answer(IF Waiting \/ ~NextNodes(session.phase) THEN "completed" ELSE "running")
       ELSE Keeps(IF query.kind = "progress" THEN "key" ELSE "progress", "session", session)

ReadProgress ==
    /\ Reads("progress") /\ local' = Seen /\ Keeps("key", "cache", Seen)

ReadKey ==
    /\ Reads("key") /\ UNCHANGED local
    /\ CASE query.kind = "progress" -> Answer(IF running THEN "running" ELSE "idle")
         [] query.kind = "adopt" -> Answer(AdoptAnswer(query.saw.session, query.saw.cache, running))
         [] query.kind = "review" -> Keeps("reviewed", "running", running)

ReadReviewed ==
    /\ Reads("reviewed") /\ UNCHANGED local
    /\ Keeps("scheduled", "reviewed", reviewed)

ReadScheduled ==
    /\ Reads("scheduled") /\ UNCHANGED local
    /\ Answer(ReviewAnswer(query.saw.session, query.saw.cache, query.saw.running,
                         query.saw.reviewed, scheduled))

\* The list: the rows of reports, running threads without one, then each item.
ReadRows ==
    /\ Reads("rows") /\ UNCHANGED local /\ Then(IF report THEN "item" ELSE "threads")

ReadThreads ==
    /\ Reads("threads") /\ UNCHANGED local /\ Answer(IF running THEN "running" ELSE "absent")

ReadItem ==
    /\ Reads("item") /\ UNCHANGED local /\ Answer(IF running THEN "running" ELSE "completed")

Query ==
    \/ ReadReportRow \/ ReadReportFallback \/ ReadReport \/ ReadWaitAdoption \/ ReadAlive
    \/ ReadCache \/ ReadRunning \/ ReadJob \/ ReadEarly \/ ReadEarlyAgain \/ DecideByJob
    \/ ReadState \/ ReadValues \/ ReadProgress \/ ReadKey \/ ReadReviewed \/ ReadScheduled
    \/ ReadRows \/ ReadThreads \/ ReadItem

-----------------------------------------------------------------------------
Step ==
    \/ Start \/ Adopt \/ Review \/ Submit \/ RequestCancel \/ CancelRows
    \/ Flush \/ Worker \/ Leave \/ Interrupt \/ Kill \/ ExpireRunning \/ ExpireEntry
    \/ Poll \/ OpenPage \/ Query

\* What an instant query would have said at any time since this one began.
Next ==
    /\ Step
    /\ could' = IF query'.kind \in Polls THEN could \cup {Now(query.kind)'} ELSE {}

Spec == Init /\ [][Next]_vars

\* Requests, jobs, writes and queries that began go on; a dead job's key expires
\* if keys expire at all; the client goes on polling whatever pages are open.
FairSpec == /\ Spec
            /\ WF_core(Start) /\ WF_core(Adopt) /\ WF_core(Review) /\ WF_core(Submit)
            /\ WF_core(CancelRows) /\ WF_core(Flush) /\ WF_core(Worker) /\ WF_core(Leave)
            /\ WF_core(ExpireRunning) /\ WF_core(Query) /\ SF_core(Poll)

-----------------------------------------------------------------------------
(* Properties                                                               *)

\* As long as nothing goes wrong, no interleaving of a query's reads with the worker's
\* and the API's writes tells a client that its request has failed or that there
\* is none (get_diagnosis_status, get_adopt_execution_progress, build_review_progress).
NoFalseAlarm ==
    mishaps = 0 /\ told.kind \in Polls => told.answer \notin {"failed", "not_found"}

\* A failure that a client acts on is one that an instant query would have told at
\* some time while the query ran, and no mixture of older and newer state, unless
\* the query missed a report (get_diagnosis_status).
AlarmWasTrue == told.true

\* Who is told "completed" finds what was asked for: the report, the adopted plan,
\* the review's report (the answers above, against the writes of the worker).
CompletedIsDone ==
    told.answer = "completed" =>
        CASE told.kind = "adopt" -> session.adopted
          [] told.kind = "review" -> reviewed
          [] OTHER -> report \/ session.hasReport

\* The client that polls a diagnosis gets a final answer in the end, whatever fails:
\* the row, the running key and its expiry decide when the progress entry does not
\* (wait_status_done against get_diagnosis_status).
StatusWaitEnds == wait = "status" ~> wait # "status"

\* So does the client that polls an adoption or a review, whose answers lean on the
\* progress entry, unless the worker was stopped or a cache write was lost, or the
\* API's first entry came after the worker's error (solution_service.py:82).
Unlucky == mishaps > 0 /\ faults \cap {"stop", "kill", "redis"} # {}
OutcomeOvertaken ==
    session.phase = "failed" /\ session.pending /\ cache = An("progress", "execution")
FollowUpWaitsEnd ==
    /\ wait = "adopt" ~> wait # "adopt" \/ OutcomeOvertaken \/ Unlucky
    /\ wait = "review" ~> wait # "review" \/ Unlucky

\* What ThreadPromise promises the client of a thread, in one step per answer, holds
\* of the tables, keys and entries that an answer reads one after the other (all
\* that a query reads, against all that writes it).
Have == {x \in {"report", "plan", "review"} :
            \/ x = "report" /\ (report \/ session.hasReport)
            \/ x = "plan" /\ session.adopted
            \/ x = "review" /\ reviewed}
Promise == INSTANCE ThreadPromise WITH
    have <- Have, troubled <- mishaps > 0, asked <- query.kind,
    told <- [kind |-> told.kind, answer |-> told.answer]
KeepsItsPromise == Promise!Spec
=============================================================================
