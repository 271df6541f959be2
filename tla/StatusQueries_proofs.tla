-------------------------- MODULE StatusQueries_proofs --------------------------
(* Proofs about StatusQueries, for every choice of faults and their number.    *)
EXTENDS StatusQueries, TLAPS

SessionType == [phase : Phase, hasReport : BOOLEAN, pending : BOOLEAN, adopted : BOOLEAN]
ViewType == [session : SessionType, job : JobStatus, running : BOOLEAN,
             cache : Entry \cup {NoEntry}, reviewed : BOOLEAN]
QueryType == [kind : Polls \cup Pages \cup {"none"}, pc : QueryPC, saw : ViewType]

\* Which kinds of query come to which read.
KindInv ==
    /\ query.pc \in {"report", "wait", "alive", "cache", "running", "job", "early", "early2",
                     "decide", "state"} => query.kind = "status"
    /\ query.pc \in {"values", "key"} => query.kind \in {"adopt", "review", "progress"}
    /\ query.pc = "progress" => query.kind \in {"adopt", "review"}
    /\ query.pc \in {"reviewed", "scheduled"} => query.kind = "review"
    /\ query.pc \in {"rows", "threads", "item"} => query.kind = "list"
    /\ query.pc \in {"row", "fallback"} => query.kind = "report"

\* TypeOK by parts, without the history of what an instant query would have said,
\* and with the shape of what a query has read so far.
StoredOK == /\ report \in BOOLEAN /\ reviewed \in BOOLEAN /\ scheduled \in BOOLEAN
            /\ session \in SessionType /\ job \in [kind : Kinds, status : JobStatus]
KeysOK == /\ running \in BOOLEAN /\ cancel \in BOOLEAN /\ cancelling \in BOOLEAN
          /\ leaving \in [kind : Kinds, pc : {"none", "mark", "stopped", "end"}]
RedisOK == cache \in Entry \cup {NoEntry} /\ writes \in Seq(Entry) /\ awaited \in Nat
WorkOK == work \in [kind : Kinds, pc : WorkPC]
SubmitOK ==
    submit \in [kind : Kinds, pc : {"none", "mark", "enqueue", "record", "register", "seed"}]
QueryOK == /\ query \in QueryType /\ KindInv /\ wait \in Wait
           /\ told.kind \in Polls \cup Pages \cup {"none"} /\ told.answer \in Answers \cup {"none"}
           /\ told.true \in BOOLEAN /\ local \in Entry \cup {NoEntry}
EnvOK == faults \in FaultSets /\ mishaps \in 0..MaxFaults

CoreType == StoredOK /\ KeysOK /\ RedisOK /\ WorkOK /\ SubmitOK /\ QueryOK /\ EnvOK

\* A part that a step leaves alone.
LEMMA Frame ==
    /\ StoredOK /\ UNCHANGED stored => StoredOK'
    /\ KeysOK /\ UNCHANGED <<keys, cancelling>> => KeysOK'
    /\ RedisOK /\ UNCHANGED redis => RedisOK'
    /\ WorkOK /\ UNCHANGED work => WorkOK'
    /\ SubmitOK /\ UNCHANGED submit => SubmitOK'
    /\ QueryOK /\ UNCHANGED client => QueryOK'
    /\ EnvOK /\ UNCHANGED env => EnvOK'
  <1>1. StoredOK /\ UNCHANGED stored => StoredOK'
    BY DEF StoredOK, stored
  <1>2. KeysOK /\ UNCHANGED <<keys, cancelling>> => KeysOK'
    BY DEF KeysOK, keys
  <1>3. RedisOK /\ UNCHANGED redis => RedisOK'
    BY DEF RedisOK, redis
  <1>4. QueryOK /\ UNCHANGED client => QueryOK'
    BY DEF QueryOK, KindInv, client
  <1>5. EnvOK /\ UNCHANGED env => EnvOK'
    BY DEF EnvOK, env
  <1> QED BY <1>1, <1>2, <1>3, <1>4, <1>5 DEF WorkOK, SubmitOK

\* What is said of a thread that neither runs nor has a report.
LEMMA UnreportedIs ==
    \A status, late :
        /\ Unreported(status, late) \in {"failed", "not_found", "running"}
        /\ NextNodes(session.phase) => Unreported(status, late) = "failed"
        /\ ~NextNodes(session.phase) /\ status # "succeeded" => Unreported(status, late) = "not_found"
  BY DEF Unreported

\* What the queries answer is an answer, and what they look at is an entry.
LEMMA AnswersAre ==
    /\ \A e : ByEntry(e) \in Answers
    /\ \A s, e, alive : AdoptAnswer(s, e, alive) \in Answers
    /\ \A s, e, alive, done, due : ReviewAnswer(s, e, alive, done, due) \in Answers
    /\ StatusNow \in Answers
  <1>1. \A e : ByEntry(e) \in Answers
    BY DEF ByEntry, Answers
  <1>2. \A s, e, alive : AdoptAnswer(s, e, alive) \in Answers
    BY DEF AdoptAnswer, Answers
  <1>3. \A s, e, alive, done, due : ReviewAnswer(s, e, alive, done, due) \in Answers
    BY DEF ReviewAnswer, Answers
  <1>4. StatusNow \in Answers
    <2>1. Unreported(job.status, FALSE) \in Answers
      BY DEF Unreported, Answers
    <2>2. ByEntry(Seen) \in Answers
      BY <1>1
    <2>3. "completed" \in Answers /\ "failed" \in Answers /\ "running" \in Answers
      BY DEF Answers
    <2> QED BY <2>1, <2>2, <2>3 DEF StatusNow
  <1> QED BY <1>1, <1>2, <1>3, <1>4

LEMMA NowAnswers == \A k \in Polls : Now(k) \in Answers
  BY AnswersAre DEF Now, Polls

LEMMA SeenType == ASSUME CoreType PROVE Seen \in Entry \cup {NoEntry}
  BY DEF CoreType, StoredOK, RedisOK, WorkOK, SubmitOK, QueryOK, EnvOK, Seen

LEMMA EntriesAre ==
    /\ \A t \in {"plain", "progress", "error", "completed"}, s \in {"none", "execution", "effect_track"} :
          An(t, s) \in Entry
    /\ NoView.session \in SessionType /\ NoView \in ViewType /\ NoQuery \in QueryType
  BY DEF An, Entry, NoView, SessionType, Phase, ViewType, JobStatus, NoQuery, QueryType, QueryPC

\* A fault is counted within its bound.
LEMMA FaultType ==
    ASSUME CoreType, QueriesAssumption, NEW kind, Fault(kind)
    PROVE  faults' \in FaultSets /\ mishaps' \in 0..MaxFaults
  BY DEF CoreType, StoredOK, RedisOK, WorkOK, SubmitOK, QueryOK, EnvOK, QueriesAssumption, Fault

\* The entries that are written together.
LEMMA EntrySeqs ==
    ASSUME NEW t \in {"plain", "progress", "error", "completed"},
           NEW s \in {"none", "execution", "effect_track"}
    PROVE  /\ <<>> \in Seq(Entry) /\ <<An(t, s)>> \in Seq(Entry)
           /\ <<An("plain", "none"), An("progress", "none")>> \in Seq(Entry)
  BY EntriesAre

\* The worker's writes stay a sequence of entries.
LEMMA SayType ==
    ASSUME CoreType, NEW e \in Entry, NEW s \in Seq(Entry), Say(e, s)
    PROVE  RedisOK'
  BY DEF CoreType, RedisOK, Say

LEMMA ScheduleType ==
    ASSUME CoreType, NEW s \in Seq(Entry), Schedule(s)
    PROVE  RedisOK'
  BY DEF CoreType, RedisOK, Schedule

\* The cases that a request, a poll and a read distinguish.
LEMMA AnsweredWaitIs ==
    ASSUME CoreType
    PROVE  /\ AnsweredWait \in Polls
           /\ submit.kind = "diagnosis" => AnsweredWait = "status"
  <1>1. submit.kind \in Kinds
    BY DEF CoreType, StoredOK, RedisOK, WorkOK, SubmitOK, QueryOK, EnvOK
  <1> QED BY <1>1 DEF AnsweredWait, Kinds, Polls

LEMMA AfterIs ==
    ASSUME CoreType, NEW a
    PROVE  /\ After(a) \in Wait
           /\ After(a) = wait \/ (wait \in Polls /\ After(a) \in {"adopting", "reviewing", "over"})
  <1>1. query.kind \in Polls \cup Pages \cup {"none"} /\ wait \in Wait
    BY DEF CoreType, StoredOK, RedisOK, WorkOK, SubmitOK, QueryOK, EnvOK, QueryType
  <1>2. query.kind = wait => wait \in {"status", "adopt", "review"}
    BY <1>1 DEF Wait, Polls, Pages
  <1>3. CASE query.kind = wait /\ a \in Final
    <2>1. After(a) = CASE wait = "status" -> "adopting"
                       [] wait = "adopt" -> "reviewing"
                       [] wait = "review" -> "over"
      BY <1>3 DEF After
    <2>2. After(a) \in {"adopting", "reviewing", "over"}
      BY <2>1, <1>2, <1>3, Zenon
    <2> QED BY <2>2, <1>2, <1>3 DEF Wait, Polls
  <1>4. CASE ~(query.kind = wait /\ a \in Final)
    BY <1>1, <1>4 DEF After
  <1> QED BY <1>3, <1>4

LEMMA AsksIs ==
    /\ Asks("status") = "report" /\ Asks("report") = "row" /\ Asks("list") = "rows"
    /\ \A k \in {"adopt", "review", "progress"} : Asks(k) = "values"
  <1>1. Asks("status") = "report" /\ Asks("report") = "row" /\ Asks("list") = "rows"
    BY DEF Asks
  <1>2. \A k \in {"adopt", "review", "progress"} : Asks(k) = "values"
    BY DEF Asks
  <1> QED BY <1>1, <1>2

LEMMA TakeJobIs ==
    ASSUME CoreType, TakeJob
    PROVE  /\ At("queued") /\ Marked("running") /\ UNCHANGED <<keys, redis, submit, cancelling, client, env>>
           /\ \/ work.kind = "diagnosis" /\ To("clear")
              \/ work.kind = "adoption" /\ To("begin")
              \/ work.kind = "review" /\ To("track")
  <1> DEFINE next == CASE work.kind = "diagnosis" -> "clear"
                       [] work.kind = "adoption" -> "begin"
                       [] work.kind = "review" -> "track"
  <1>1. /\ At("queued") /\ To(next) /\ Marked("running")
        /\ UNCHANGED <<keys, redis, submit, cancelling, client, env>>
    BY DEF TakeJob, Goes
  <1>2. work.kind \in {"diagnosis", "adoption", "review"}
    BY DEF CoreType, StoredOK, RedisOK, WorkOK, SubmitOK, QueryOK, EnvOK, Kinds
  <1>3. \/ work.kind = "diagnosis" /\ next = "clear"
        \/ work.kind = "adoption" /\ next = "begin"
        \/ work.kind = "review" /\ next = "track"
    BY <1>2, Zenon
  <1> HIDE DEF next
  <1> QED BY <1>1, <1>3

LEMMA DecideByJobIs ==
    ASSUME DecideByJob
    PROVE  \/ Answer("running") /\ UNCHANGED local
           \/ Answer("failed") /\ UNCHANGED local
           \/ Answer(ByEntry(Seen)) /\ local' = Seen
  BY Zenon DEF DecideByJob

LEMMA ReadKeyIs ==
    ASSUME ReadKey, query.kind \in {"adopt", "review", "progress"}
    PROVE  \/ query.kind = "progress" /\ Answer(IF running THEN "running" ELSE "idle")
           \/ query.kind = "adopt" /\ Answer(AdoptAnswer(query.saw.session, query.saw.cache, running))
           \/ query.kind = "review" /\ Keeps("reviewed", "running", running)
  <1>1. CASE query.kind = "progress"
    BY <1>1, Zenon DEF ReadKey
  <1>2. CASE query.kind = "adopt"
    BY <1>2, Zenon DEF ReadKey
  <1>3. CASE query.kind = "review"
    BY <1>3, Zenon DEF ReadKey
  <1> QED BY <1>1, <1>2, <1>3

\* How a query goes on: to another read, with what it has read, or to its answer.
LEMMA ThenType ==
    ASSUME CoreType, NEW pc \in QueryPC, Then(pc)
    PROVE  /\ query' \in QueryType /\ query'.pc = pc /\ query'.kind = query.kind
           /\ query'.saw = query.saw /\ UNCHANGED <<wait, told>>
  BY DEF CoreType, StoredOK, RedisOK, WorkOK, SubmitOK, QueryOK, EnvOK, QueryType, Then

LEMMA KeepsType ==
    ASSUME CoreType, NEW pc \in QueryPC, NEW field, NEW value, Keeps(pc, field, value),
           \/ field = "session" /\ value \in SessionType
           \/ field = "job" /\ value \in JobStatus
           \/ field \in {"running", "reviewed"} /\ value \in BOOLEAN
           \/ field = "cache" /\ value \in Entry \cup {NoEntry}
    PROVE  /\ query' \in QueryType /\ query'.pc = pc /\ query'.kind = query.kind
           /\ query'.saw = [query.saw EXCEPT ![field] = value] /\ UNCHANGED <<wait, told>>
  <1>1. [query.saw EXCEPT ![field] = value] \in ViewType
    BY DEF CoreType, StoredOK, RedisOK, WorkOK, SubmitOK, QueryOK, EnvOK, QueryType, ViewType
  <1>2. query' = [query EXCEPT !.pc = pc, !.saw = [query.saw EXCEPT ![field] = value]]
    BY DEF Keeps, CoreType, QueryType
  <1> QED BY <1>1, <1>2 DEF CoreType, StoredOK, RedisOK, WorkOK, SubmitOK, QueryOK, EnvOK, QueryType, Keeps

LEMMA AnswerType ==
    ASSUME CoreType, NEW a \in Answers, Answer(a)
    PROVE  /\ query' = NoQuery /\ query' \in QueryType /\ query'.pc = "none"
           /\ wait' \in Wait
           /\ told'.kind = query.kind /\ told'.kind \in Polls \cup Pages \cup {"none"}
           /\ told'.answer = a /\ told'.true \in BOOLEAN
  <1>1. query' = NoQuery /\ wait' = After(a)
    BY DEF Answer
  <1>2. /\ told'.kind = query.kind /\ told'.answer = a
        /\ told'.true = (query.kind \in Polls /\ a \in {"failed", "not_found"}
                            => a \in could \/ CutShort(a))
    BY DEF Answer
  <1>3. told'.true \in BOOLEAN
    BY <1>2
  <1>4. query.kind \in Polls \cup Pages \cup {"none"}
    BY DEF CoreType, StoredOK, RedisOK, WorkOK, SubmitOK, QueryOK, EnvOK, QueryType
  <1> QED BY <1>1, <1>2, <1>3, <1>4, AfterIs, EntriesAre DEF NoQuery

\* The row of the job in the worker's hands.
LEMMA MarkJobType ==
    ASSUME CoreType, NEW status \in JobStatus, MarkJob(status)
    PROVE  job' \in [kind : Kinds, status : JobStatus]
  BY DEF CoreType, StoredOK, RedisOK, WorkOK, SubmitOK, QueryOK, EnvOK, MarkJob

LEMMA ToType ==
    ASSUME CoreType, NEW pc \in WorkPC, To(pc)
    PROVE  work' \in [kind : Kinds, pc : WorkPC] /\ work'.pc = pc /\ work'.kind = work.kind
  BY DEF CoreType, StoredOK, RedisOK, WorkOK, SubmitOK, QueryOK, EnvOK, To

LEMMA AskType ==
    ASSUME CoreType, NEW k \in Polls \cup Pages, Ask(k)
    PROVE  /\ query' \in QueryType /\ query'.kind = k /\ query'.pc = Asks(k) /\ query'.saw = NoView
           /\ told' = NoAnswer /\ UNCHANGED wait
  <1>1. Asks(k) \in QueryPC
    BY AsksIs DEF Polls, Pages, QueryPC
  <1>2. query' = [kind |-> k, pc |-> Asks(k), saw |-> NoView]
    BY DEF Ask
  <1>3. query' \in QueryType
    BY <1>1, <1>2, EntriesAre DEF QueryType
  <1> QED BY <1>2, <1>3 DEF Ask

\* The next job is enqueued after the last one, or beside its last two steps.
LEMMA EnqueueIs ==
    ASSUME Enqueue
    PROVE  /\ submit.pc = "enqueue" /\ submit' = [submit EXCEPT !.pc = "record"]
           /\ work' = [kind |-> submit.kind, pc |-> "queued"]
           /\ \/ work.pc = "idle" /\ UNCHANGED leaving
              \/ work.pc \in {"mark", "stopped", "end"} /\ leaving.pc = "none" /\ leaving' = work
           /\ UNCHANGED <<report, session, job, reviewed, scheduled, running, cancel, redis,
                         cancelling, client, env>>
  BY DEF Enqueue, AtEnd, At, stored

LEMMA RecordJobIs ==
    ASSUME RecordJob
    PROVE  /\ submit.pc = "record"
           /\ \/ /\ job.status \in {"queued", "running"} /\ UNCHANGED job
                 /\ submit' = [submit EXCEPT !.pc = "none"] /\ wait' = "over"
              \/ /\ job.status \notin {"queued", "running"} /\ UNCHANGED wait
                 /\ submit' = [submit EXCEPT !.pc = "register"]
                 /\ job' = [kind |-> submit.kind, status |-> "queued"]
           /\ UNCHANGED <<report, session, reviewed, scheduled, running, cancel, leaving, redis,
                         work, cancelling, query, told, local, env>>
  BY DEF RecordJob, keys

\* What the job before still does: it marks its row, then deletes the thread's keys.
LEMMA LeaveIs ==
    ASSUME CoreType, Leave
    PROVE  /\ \/ /\ leaving.pc \in {"mark", "stopped"} /\ UNCHANGED <<running, cancel>>
                 /\ leaving' = [leaving EXCEPT !.pc = "end"]
                 /\ \/ UNCHANGED job
                    \/ /\ job.kind = leaving.kind /\ job.status # "none"
                       /\ job' = [job EXCEPT !.status = "cancelled"] /\ cancel
                    \/ /\ job.kind = leaving.kind /\ job.status # "none" /\ ~cancel
                       /\ job' = [job EXCEPT !.status = "succeeded"] /\ leaving.pc = "mark"
                    \/ /\ job.kind = leaving.kind /\ job.status # "none" /\ ~cancel
                       /\ job' = [job EXCEPT !.status = "failed"] /\ leaving.pc = "stopped"
              \/ /\ leaving.pc = "end" /\ leaving' = NoJob /\ running' = FALSE /\ cancel' = FALSE
                 /\ UNCHANGED job
           /\ UNCHANGED <<report, session, reviewed, scheduled, redis, work, submit, cancelling,
                         client, env>>
  <1>1. CASE LeaveRow
    BY <1>1 DEF LeaveRow
  <1>2. CASE LeaveKeys
    BY <1>2 DEF LeaveKeys, stored
  <1> QED BY <1>1, <1>2 DEF Leave

LEMMA CoreStep ==
    ASSUME QueriesAssumption, CoreType, Step
    PROVE  CoreType'
  <1> USE QueriesAssumption
  <1>1. CASE Start
    BY <1>1, Frame DEF Start, stored, keys, redis, client, env, CoreType, SubmitOK,
       Kinds, JobStatus
  <1>2. CASE Adopt
    BY <1>2, Frame DEF Adopt, stored, keys, redis, env, CoreType, SubmitOK,
       QueryOK, KindInv, Kinds, Wait, Polls, Kinds, JobStatus
  <1>3. CASE Review
    BY <1>3, Frame DEF Review, stored, keys, redis, env, CoreType, SubmitOK,
       QueryOK, KindInv, Kinds, Wait, Polls, Kinds, JobStatus
  <1>4. CASE Submit
    <2>1. CASE MarkSession
      BY <2>1, Frame DEF MarkSession, keys, redis, client, env, CoreType, StoredOK,
         SubmitOK, Kinds, JobStatus, SessionType, Phase
    <2>2. CASE Enqueue
      <3>1. submit' \in [kind : Kinds, pc : {"none", "mark", "enqueue", "record", "register", "seed"}]
        BY <2>2, EnqueueIs DEF CoreType, SubmitOK
      <3>2. work' = [kind |-> submit.kind, pc |-> "queued"] /\ submit.kind \in Kinds
        BY <2>2, EnqueueIs DEF CoreType, SubmitOK
      <3>3. WorkOK'
        BY <3>2 DEF WorkOK, WorkPC
      <3>4. KeysOK'
        BY <2>2, EnqueueIs DEF CoreType, KeysOK, WorkOK
      <3>5. StoredOK'
        BY <2>2, EnqueueIs, Frame DEF CoreType, stored
      <3> QED BY <2>2, <3>1, <3>3, <3>4, <3>5, EnqueueIs, Frame DEF CoreType, SubmitOK
    <2>3. CASE RecordJob
      <3>1. SubmitOK' /\ StoredOK'
        BY <2>3, RecordJobIs DEF CoreType, SubmitOK, StoredOK, JobStatus
      <3>2. QueryOK'
        BY <2>3, RecordJobIs DEF CoreType, QueryOK, KindInv, Wait
      <3> QED BY <2>3, <3>1, <3>2, RecordJobIs, Frame DEF CoreType, keys
    <2>4. CASE RegisterRunning
      <3>1. /\ running' = TRUE
            /\ UNCHANGED <<stored, cancel, leaving, redis, work, cancelling, query, told, local, env>>
            /\ wait' = wait \/ wait' = AnsweredWait
        BY <2>4 DEF RegisterRunning
      <3>2. SubmitOK'
        BY <2>4 DEF RegisterRunning, CoreType, SubmitOK
      <3>3. QueryOK'
        BY <3>1, AnsweredWaitIs DEF CoreType, QueryOK, KindInv, Wait
      <3> QED BY <3>1, <3>2, <3>3, Frame DEF CoreType, KeysOK
    <2>5. CASE Seed
      <3>1. /\ cache' = An("progress", "execution") /\ local' = cache' /\ wait' = AnsweredWait
            /\ UNCHANGED <<stored, keys, writes, awaited, work, cancelling, query, told, env>>
        BY <2>5 DEF Seed
      <3>2. SubmitOK'
        BY <2>5 DEF Seed, CoreType, SubmitOK
      <3>3. QueryOK' /\ RedisOK'
        BY <3>1, AnsweredWaitIs, EntriesAre DEF CoreType, QueryOK, RedisOK, KindInv, Wait
      <3> QED BY <3>1, <3>2, <3>3, Frame DEF CoreType
    <2> QED BY <1>4, <2>1, <2>2, <2>3, <2>4, <2>5 DEF Submit
  <1>5. CASE RequestCancel
    BY <1>5, Frame, FaultType DEF RequestCancel, stored, redis, client, CoreType,
       KeysOK, EnvOK, JobStatus
  <1>6. CASE CancelRows
    BY <1>6, Frame DEF CancelRows, keys, redis, client, env, CoreType, StoredOK,
       KeysOK, JobStatus
  <1>7. CASE Flush
    BY <1>7, Frame, FaultType DEF Flush, stored, keys, client, env, CoreType,
       RedisOK, EnvOK, JobStatus
  <1>8. CASE Worker
    <2>1. CASE TakeJob
      <3>1. \E pc \in WorkPC : To(pc)
        BY <2>1, TakeJobIs DEF WorkPC
      <3>2. WorkOK'
        BY <3>1, ToType DEF WorkOK
      <3>3. MarkJob("running") /\ UNCHANGED <<report, session, reviewed, scheduled, keys, redis, submit, cancelling, client, env>>
        BY <2>1, TakeJobIs DEF Marked
      <3>4. StoredOK'
        BY <3>3, MarkJobType DEF StoredOK, CoreType, JobStatus
      <3> QED BY <3>2, <3>3, <3>4, Frame DEF CoreType
    <2>2. CASE ClearRun
      BY <2>2, Frame, EntriesAre, ToType DEF ClearRun, stored, keys, Goes, client,
         env, At, CoreType, RedisOK, WorkOK, WorkPC, JobStatus
    <2>3. CASE CreateSession
      BY <2>3, Frame, ToType, EntriesAre DEF CreateSession, keys, redis,
         SetSession, Goes, client, env, At, CoreType, StoredOK, WorkOK, WorkPC,
         JobStatus, SessionType, Phase
    <2>4. CASE CheckCancel
      BY <2>4, Frame, ToType DEF CheckCancel, stored, keys, redis, Goes, client,
         env, At, CoreType, WorkOK, WorkPC, JobStatus
    <2>5. CASE Collect
      BY <2>5, Frame, ScheduleType, EntrySeqs, EntriesAre, ToType DEF Collect,
         stored, keys, Goes, client, env, At, CoreType, RedisOK, WorkOK, WorkPC,
         JobStatus
    <2>6. CASE SaveReport
      BY <2>6, Frame, FaultType, ToType, ScheduleType, EntrySeqs,
         EntriesAre DEF SaveReport, keys, client, env, At, CoreType, StoredOK,
         RedisOK, WorkOK, EnvOK, WorkPC, JobStatus
    <2>7. CASE KeepReport
      BY <2>7, Frame, ToType DEF KeepReport, keys, redis, SetSession, Goes, client,
         env, At, CoreType, StoredOK, WorkOK, WorkPC, JobStatus, SessionType,
         Phase
    <2>8. CASE Generate
      BY <2>8, Frame, ScheduleType, EntrySeqs, EntriesAre, ToType DEF Generate,
         stored, keys, Goes, client, env, At, CoreType, RedisOK, WorkOK, WorkPC,
         JobStatus
    <2>9. CASE FinishPipeline
      BY <2>9, Frame, ToType DEF FinishPipeline, keys, redis, SetSession, Goes,
         client, env, At, CoreType, StoredOK, WorkOK, WorkPC, JobStatus,
         SessionType, Phase
    <2>10. CASE FailPhase
      BY <2>10, Frame, FaultType, ToType, SayType, EntrySeqs,
         EntriesAre DEF FailPhase, stored, keys, client, CoreType, RedisOK, WorkOK,
         EnvOK, WorkPC, JobStatus
    <2>11. CASE BeginAdoption
      BY <2>11, Frame, SayType, EntrySeqs, EntriesAre, ToType DEF BeginAdoption,
         stored, keys, Goes, client, env, At, CoreType, RedisOK, WorkOK, WorkPC,
         JobStatus
    <2>12. CASE ResumeAdoption
      BY <2>12, Frame, ToType DEF ResumeAdoption, stored, keys, redis, SetSession,
         Goes, client, env, At, CoreType, StoredOK, WorkOK, WorkPC, JobStatus,
         SessionType, Phase
    <2>13. CASE Execute
      BY ZenonT(60), <2>13, Frame, FaultType, ToType, ScheduleType, EntrySeqs,
         EntriesAre DEF Execute, keys, client, env, At, CoreType, StoredOK,
         RedisOK, WorkOK, EnvOK, WorkPC, JobStatus, SessionType, Phase
    <2>14. CASE TellOutcome
      BY <2>14, Frame, SayType, EntrySeqs, EntriesAre, ToType DEF TellOutcome,
         stored, keys, Goes, client, env, At, CoreType, RedisOK, WorkOK, WorkPC,
         JobStatus
    <2>15. CASE EnterTracking
      BY <2>15, Frame, ToType DEF EnterTracking, stored, keys, redis, SetSession,
         Goes, client, env, At, CoreType, StoredOK, WorkOK, WorkPC, JobStatus,
         SessionType, Phase
    <2>16. CASE CompleteTracking
      BY ZenonT(60), <2>16, Frame, FaultType, ToType, SayType, EntrySeqs,
         EntriesAre DEF CompleteTracking, keys, client, env, At, CoreType,
         StoredOK, RedisOK, WorkOK, EnvOK, WorkPC, JobStatus, SessionType, Phase
    <2>17. CASE StoreReview
      BY ZenonT(60), <2>17, Frame, FaultType, ToType, SayType, EntrySeqs,
         EntriesAre DEF StoreReview, keys, client, env, At, CoreType, StoredOK,
         RedisOK, WorkOK, EnvOK, WorkPC, JobStatus
    <2>18. CASE TellReviewed
      BY <2>18, Frame, SayType, EntrySeqs, EntriesAre, ToType DEF TellReviewed,
         stored, keys, Goes, client, env, At, CoreType, RedisOK, WorkOK, WorkPC,
         JobStatus
    <2>19. CASE CloseSession
      BY <2>19, Frame, ToType DEF CloseSession, keys, redis, SetSession, Goes,
         client, env, At, CoreType, StoredOK, WorkOK, WorkPC, JobStatus,
         SessionType, Phase
    <2>20. CASE MarkDone
      BY <2>20, Frame, ToType, MarkJobType DEF MarkDone, keys, redis, Marked, Goes,
         client, env, At, CoreType, StoredOK, WorkOK, WorkPC, JobStatus
    <2>21. CASE MarkStopped
      BY <2>21, Frame, ToType, MarkJobType DEF MarkStopped, keys, redis, Marked,
         Goes, client, env, At, CoreType, StoredOK, WorkOK, WorkPC, JobStatus
    <2>22. CASE MarkFailed
      BY <2>22, Frame, ToType, MarkJobType DEF MarkFailed, keys, redis, Marked,
         Goes, client, env, At, CoreType, StoredOK, WorkOK, WorkPC, JobStatus
    <2>23. CASE Unregister
      BY <2>23, Frame, ToType DEF Unregister, stored, redis, Goes, client, env, At,
         CoreType, KeysOK, WorkOK, WorkPC, JobStatus
    <2> QED BY <1>8, <2>1, <2>2, <2>3, <2>4, <2>5, <2>6, <2>7, <2>8, <2>9, <2>10,
           <2>11, <2>12, <2>13, <2>14, <2>15, <2>16, <2>17, <2>18, <2>19, <2>20,
           <2>21, <2>22, <2>23 DEF Worker
  <1>9. CASE Interrupt
    BY <1>9, Frame, FaultType, ToType DEF Interrupt, stored, keys, client, InBody,
       CoreType, RedisOK, WorkOK, EnvOK, WorkPC, JobStatus
  <1>10. CASE Kill
    <2>1. KeysOK' /\ RedisOK'
      BY <1>10 DEF Kill, NoJob, Kinds, CoreType, KeysOK, RedisOK
    <2>2. WorkOK'
      BY <1>10, ToType DEF Kill, CoreType, WorkOK, WorkPC
    <2>3. EnvOK'
      BY <1>10, FaultType DEF Kill, EnvOK
    <2> QED BY <1>10, <2>1, <2>2, <2>3, Frame DEF Kill, CoreType
  <1>11. CASE ExpireRunning
    BY <1>11, Frame, FaultType DEF ExpireRunning, stored, redis, client, env,
       CoreType, KeysOK, EnvOK, JobStatus
  <1>12. CASE ExpireEntry
    BY <1>12, Frame, FaultType, EntriesAre DEF ExpireEntry, stored, keys, client,
       CoreType, RedisOK, EnvOK, JobStatus
  <1>13. CASE Poll
      <3>1. PICK k \in Polls \cup Pages : Ask(k)
        BY <1>13 DEF Poll, Polls, Wait
      <3>2. query' \in QueryType /\ KindInv' /\ told' = NoAnswer /\ UNCHANGED <<wait, local>>
        BY <3>1, AskType, AsksIs DEF KindInv, Polls, Pages, Ask
      <3>3. QueryOK'
        BY <3>2 DEF QueryOK, CoreType, NoAnswer
      <3> QED BY <3>1, <3>3, Frame DEF Ask, CoreType, stored, keys, redis, env
  <1>14. CASE OpenPage
      <3>1. PICK k \in Polls \cup Pages : Ask(k)
        BY <1>14 DEF OpenPage
      <3>2. query' \in QueryType /\ KindInv' /\ told' = NoAnswer /\ UNCHANGED <<wait, local>>
        BY <3>1, AskType, AsksIs DEF KindInv, Polls, Pages, Ask
      <3>3. QueryOK'
        BY <3>2 DEF QueryOK, CoreType, NoAnswer
      <3> QED BY <3>1, <3>3, Frame DEF Ask, CoreType, stored, keys, redis, env
  <1>15. CASE Query
    <2>1. CASE ReadReportRow
      BY <2>1, Frame, AnswerType, ThenType DEF ReadReportRow, Reads, stored, keys,
         redis, env, CoreType, QueryOK, KindInv, QueryPC, Answers, JobStatus
    <2>2. CASE ReadReportFallback
      BY <2>2, Frame, AnswerType DEF ReadReportFallback, Reads, stored, keys,
         redis, env, CoreType, QueryOK, KindInv, Answers, JobStatus
    <2>3. CASE ReadReport
      BY <2>3, Frame, ThenType DEF ReadReport, Reads, stored, keys, redis, env,
         CoreType, QueryOK, KindInv, QueryPC, JobStatus
    <2>4. CASE ReadWaitAdoption
      BY <2>4, Frame, AnswerType, ThenType DEF ReadWaitAdoption, Reads, stored,
         keys, redis, env, CoreType, QueryOK, KindInv, QueryPC, Answers, JobStatus
    <2>5. CASE ReadAlive
      BY <2>5, Frame, AnswerType, ThenType DEF ReadAlive, Reads, stored, keys,
         redis, env, CoreType, QueryOK, KindInv, QueryPC, Answers, JobStatus
    <2>6. CASE ReadCache
      BY <2>6, Frame, SeenType, AnswersAre, AnswerType, EntriesAre DEF ReadCache,
         Reads, stored, keys, redis, env, CoreType, QueryOK, KindInv, Answers,
         JobStatus
    <2>7. CASE ReadRunning
      <3>1. /\ Keeps("job", "running", running) /\ query.pc = "running"
            /\ UNCHANGED <<stored, keys, redis, work, submit, cancelling, local, env>>
        BY <2>7 DEF ReadRunning, Reads
      <3>2. "job" \in QueryPC /\ running \in BOOLEAN
        BY DEF QueryPC, CoreType, StoredOK, KeysOK
      <3>3. QueryOK'
        BY <3>1, <3>2, KeepsType DEF QueryOK, KindInv, CoreType
      <3> QED BY <3>1, <3>3, Frame DEF CoreType
    <2>8. CASE ReadJob
      <3>1. query.pc = "job" /\ UNCHANGED <<stored, keys, redis, work, submit, cancelling, local, env>>
        BY <2>8 DEF ReadJob, Reads
      <3>2. \/ Keeps("early", "job", job.status) \/ Answer("failed")
            \/ Keeps("state", "job", job.status)
        BY <2>8 DEF ReadJob
      <3>3. job.status \in JobStatus
        BY DEF CoreType, StoredOK
      <3>4. QueryOK'
        <4>1. CASE Keeps("early", "job", job.status)
          BY <3>1, <3>3, <4>1, KeepsType DEF QueryOK, KindInv, QueryPC, CoreType
        <4>2. CASE Answer("failed")
          BY <3>1, <4>2, AnswerType DEF QueryOK, KindInv, Answers, CoreType
        <4>3. CASE Keeps("state", "job", job.status)
          BY <3>1, <3>3, <4>3, KeepsType DEF QueryOK, KindInv, QueryPC, CoreType
        <4> QED BY <3>2, <4>1, <4>2, <4>3
      <3> QED BY <3>1, <3>4, Frame DEF CoreType
    <2>9. CASE ReadEarly
      BY <2>9, Frame, ThenType DEF ReadEarly, Reads, stored, keys, redis, env,
         CoreType, QueryOK, KindInv, QueryPC, JobStatus
    <2>10. CASE ReadEarlyAgain
      BY <2>10, Frame, AnswerType, ThenType DEF ReadEarlyAgain, Reads, stored,
         keys, redis, env, CoreType, QueryOK, KindInv, QueryPC, Answers, JobStatus
    <2>11. CASE DecideByJob
      BY <2>11, Frame, SeenType, AnswersAre, AnswerType,
         EntriesAre DEF DecideByJob, Reads, stored, keys, redis, env, CoreType,
         QueryOK, KindInv, Answers, JobStatus
    <2>12. CASE ReadState
      <3>1. \/ Then("wait") \/ Answer("failed") \/ Answer("not_found") \/ Answer("running")
        BY <2>12, UnreportedIs DEF ReadState
      <3>2. /\ query.pc = "state" /\ UNCHANGED local
            /\ UNCHANGED <<stored, keys, redis, work, submit, cancelling, env>>
        BY <2>12 DEF ReadState, Reads
      <3>3. QueryOK'
        <4>1. CASE Then("wait")
          BY <3>2, <4>1, ThenType DEF QueryOK, KindInv, QueryPC, CoreType
        <4>2. CASE Answer("failed") \/ Answer("not_found") \/ Answer("running")
          BY <3>2, <4>2, AnswerType DEF QueryOK, KindInv, Answers, CoreType
        <4> QED BY <3>1, <4>1, <4>2
      <3> QED BY <3>2, <3>3, Frame DEF CoreType
    <2>13. CASE ReadValues
      <3>1. query.pc = "values" /\ UNCHANGED <<stored, keys, redis, work, submit, cancelling, local, env>>
        BY <2>13 DEF ReadValues, Reads
      <3>2. \/ Answer("completed") \/ Answer("running")
            \/ query.kind = "progress" /\ Keeps("key", "session", session)
            \/ query.kind # "progress" /\ Keeps("progress", "session", session)
        BY <2>13 DEF ReadValues
      <3>3. session \in SessionType /\ query.kind \in {"adopt", "review", "progress"}
        BY <3>1 DEF CoreType, StoredOK, QueryOK, KindInv
      <3>4. QueryOK'
        <4>1. CASE Answer("completed") \/ Answer("running")
          BY <3>1, <4>1, AnswerType DEF QueryOK, KindInv, Answers, CoreType
        <4>2. CASE query.kind = "progress" /\ Keeps("key", "session", session)
          BY <3>1, <3>3, <4>2, KeepsType DEF QueryOK, KindInv, QueryPC, CoreType
        <4>3. CASE query.kind # "progress" /\ Keeps("progress", "session", session)
          BY <3>1, <3>3, <4>3, KeepsType DEF QueryOK, KindInv, QueryPC, CoreType
        <4> QED BY <3>2, <4>1, <4>2, <4>3
      <3> QED BY <3>1, <3>4, Frame DEF CoreType
    <2>14. CASE ReadProgress
      BY <2>14, Frame, SeenType, KeepsType, EntriesAre DEF ReadProgress, Reads,
         stored, keys, redis, env, CoreType, QueryOK, KindInv, QueryPC, JobStatus
    <2>15. CASE ReadKey
      <3>1. query.pc = "key" /\ UNCHANGED <<stored, keys, redis, work, submit, cancelling, local, env>>
        BY <2>15 DEF ReadKey, Reads
      <3>2. query.kind \in {"adopt", "review", "progress"} /\ running \in BOOLEAN
        BY <3>1 DEF CoreType, KeysOK, QueryOK, KindInv
      <3>3. QueryOK'
        <4>1. CASE query.kind = "progress" /\ Answer(IF running THEN "running" ELSE "idle")
          BY <3>1, <4>1, AnswerType DEF QueryOK, KindInv, Answers, CoreType
        <4>2. CASE query.kind = "adopt"
                   /\ Answer(AdoptAnswer(query.saw.session, query.saw.cache, running))
          BY <3>1, <4>2, AnswersAre, AnswerType DEF QueryOK, KindInv, CoreType
        <4>3. CASE query.kind = "review" /\ Keeps("reviewed", "running", running)
          BY <3>1, <3>2, <4>3, KeepsType DEF QueryOK, KindInv, QueryPC, CoreType
        <4> QED BY <2>15, <3>2, <4>1, <4>2, <4>3, ReadKeyIs
      <3> QED BY <3>1, <3>3, Frame DEF CoreType
    <2>16. CASE ReadReviewed
      <3>1. /\ Keeps("scheduled", "reviewed", reviewed) /\ query.pc = "reviewed"
            /\ UNCHANGED <<stored, keys, redis, work, submit, cancelling, local, env>>
        BY <2>16 DEF ReadReviewed, Reads
      <3>2. "scheduled" \in QueryPC /\ reviewed \in BOOLEAN
        BY DEF QueryPC, CoreType, StoredOK, KeysOK
      <3>3. QueryOK'
        BY <3>1, <3>2, KeepsType DEF QueryOK, KindInv, CoreType
      <3> QED BY <3>1, <3>3, Frame DEF CoreType
    <2>17. CASE ReadScheduled
      BY <2>17, Frame, AnswersAre, AnswerType DEF ReadScheduled, Reads, stored,
         keys, redis, env, CoreType, QueryOK, KindInv, Answers, JobStatus
    <2>18. CASE ReadRows
      BY <2>18, Frame, ThenType DEF ReadRows, Reads, stored, keys, redis, env,
         CoreType, QueryOK, KindInv, QueryPC, JobStatus
    <2>19. CASE ReadThreads
      BY <2>19, Frame, AnswerType DEF ReadThreads, Reads, stored, keys, redis, env,
         CoreType, QueryOK, KindInv, Answers, JobStatus
    <2>20. CASE ReadItem
      BY <2>20, Frame, AnswerType DEF ReadItem, Reads, stored, keys, redis, env,
         CoreType, QueryOK, KindInv, Answers, JobStatus
    <2> QED BY <1>15, <2>1, <2>2, <2>3, <2>4, <2>5, <2>6, <2>7, <2>8, <2>9, <2>10,
           <2>11, <2>12, <2>13, <2>14, <2>15, <2>16, <2>17, <2>18, <2>19, <2>20 DEF Query
  <1>16. CASE Leave
    <2>1. job' \in [kind : Kinds, status : JobStatus]
      BY <1>16, LeaveIs DEF CoreType, StoredOK, JobStatus
    <2>4. leaving' \in [kind : Kinds, pc : {"none", "mark", "stopped", "end"}]
      <3>1. leaving' = [leaving EXCEPT !.pc = "end"] \/ leaving' = NoJob
        BY <1>16, LeaveIs
      <3> QED BY <3>1 DEF CoreType, KeysOK, Kinds, NoJob
    <2>5. \/ UNCHANGED <<running, cancel, cancelling>>
          \/ running' = FALSE /\ cancel' = FALSE /\ UNCHANGED cancelling
      BY <1>16, LeaveIs
    <2>2. KeysOK'
      BY <2>4, <2>5 DEF CoreType, KeysOK
    <2>0. UNCHANGED <<report, session, reviewed, scheduled>>
      BY <1>16, LeaveIs
    <2>3. StoredOK'
      BY <2>0, <2>1 DEF CoreType, StoredOK
    <2> QED BY <1>16, <2>2, <2>3, LeaveIs, Frame DEF CoreType
  <1> QED BY <1>1, <1>2, <1>3, <1>4, <1>5, <1>6, <1>7, <1>8, <1>9, <1>10, <1>11, <1>12,
         <1>13, <1>14, <1>15, <1>16 DEF Step

TypeInv == CoreType /\ could \in SUBSET Answers

LEMMA TypeInit == Init => TypeInv
  <1> SUFFICES ASSUME Init PROVE TypeInv
    OBVIOUS
  <1>1. StoredOK /\ KeysOK
    BY EntriesAre DEF Init, StoredOK, KeysOK, Kinds, JobStatus, NoJob
  <1>2. RedisOK /\ WorkOK /\ SubmitOK
    BY DEF Init, RedisOK, WorkOK, SubmitOK, Kinds, WorkPC
  <1>3. QueryOK
    BY EntriesAre DEF Init, QueryOK, KindInv, Wait, NoQuery, NoAnswer
  <1>4. EnvOK
    BY QueriesAssumption DEF Init, EnvOK, QueriesAssumption
  <1> QED BY <1>1, <1>2, <1>3, <1>4 DEF TypeInv, CoreType, Init

LEMMA NowAnswersNext == (\A k \in Polls : Now(k) \in Answers)'
  BY NowAnswers, PTL

LEMMA TypeStep == TypeInv /\ [Next]_vars => TypeInv'
  <1> SUFFICES ASSUME TypeInv, [Next]_vars PROVE TypeInv'
    OBVIOUS
  <1>1. CASE Next
    <2>1. CoreType'
      BY <1>1, CoreStep, QueriesAssumption DEF Next, TypeInv
    <2>2. query'.kind \in Polls => Now(query.kind)' \in Answers
      BY NowAnswersNext
    <2>3. could' = IF query'.kind \in Polls THEN could \cup {Now(query.kind)'} ELSE {}
      BY <1>1 DEF Next
    <2>4. could' \in SUBSET Answers
      BY <2>2, <2>3 DEF TypeInv
    <2> QED BY <2>1, <2>4 DEF TypeInv
  <1>2. CASE UNCHANGED vars
    <2>1. UNCHANGED <<stored, keys, cancelling, redis, work, submit, client, env, could>>
      BY <1>2 DEF vars, core, client
    <2> QED BY <2>1, Frame DEF TypeInv, CoreType
  <1> QED BY <1>1, <1>2

\* Every store, key, entry, job, request and query keeps its type, whatever faults
\* occur and however many.
THEOREM TypeCorrect == Spec => []TypeOK
  <1>1. TypeInv => TypeOK
    BY DEF TypeInv, TypeOK, CoreType, StoredOK, KeysOK, RedisOK, WorkOK, SubmitOK,
           QueryOK, EnvOK, QueryType, SessionType
  <1> QED BY TypeInit, TypeStep, <1>1, PTL DEF Spec

-----------------------------------------------------------------------------
(* The order of requests, jobs and phases.  A thread is diagnosed once: its     *)
(* session is made anew only while there is nothing in it to lose, and waits    *)
(* for an adoption from the end of its pipeline to the job that adopts.         *)

Untouched == session.phase = "none" /\ ~session.hasReport /\ ~session.adopted
PipePC == {"collect", "collecting", "diagnose", "diagnosing", "keep", "generate",
           "generating", "finish"}
Early == work.pc \in {"clear", "create"} \/ (work.pc = "queued" /\ work.kind = "diagnosis")
Adopting == work.pc \in {"begin", "resume"} \/ (work.pc = "queued" /\ work.kind = "adoption")
Submitting(kind) == submit.kind = kind /\ submit.pc \in {"mark", "enqueue"}
AtRest == work.pc \in {"idle", "dead", "mark", "end"}

OrderInv ==
    /\ wait = "start" /\ submit.pc = "none" => Untouched /\ work.pc = "idle"
    /\ Submitting("diagnosis") => Untouched /\ work.pc = "idle" /\ submit.pc # "mark"
    /\ submit.pc # "none" => (submit.kind = "diagnosis" <=> wait = "start")
    /\ Early => Untouched
    /\ work.pc \in PipePC => session.phase = "pipeline"
    /\ Submitting("adoption") => /\ session.phase = "waiting_adoption" /\ AtRest
                                 /\ submit.pc = "enqueue" => session.pending
    /\ Adopting => session.phase = "waiting_adoption" /\ session.pending
    /\ session.phase = "waiting_adoption" =>
          AtRest \/ (session.pending /\ (Adopting \/ work.pc = "stopped"))
    /\ Submitting("review") => session.phase \notin {"none", "pipeline", "waiting_adoption"}

LEMMA OrderInit == Init => OrderInv
  BY DEF Init, OrderInv, Untouched, PipePC, Early, Adopting, Submitting, AtRest, NoView

\* A query moves nothing but what the client waits for.
LEMMA OrderOfQueries ==
    ASSUME CoreType, OrderInv, UNCHANGED <<session, work, submit>>,
           wait' = wait \/ (wait \in Polls /\ wait' \in {"adopting", "reviewing", "over"})
    PROVE  OrderInv'
  BY DEF OrderInv, Untouched, PipePC, Early, Adopting, Submitting, AtRest, Polls

LEMMA KeyReads == (ReadKey => Reads("key")) /\ (DecideByJob => Reads("decide"))
  <1>1. ReadKey => Reads("key")
    BY Zenon DEF ReadKey
  <1>2. DecideByJob => Reads("decide")
    BY Zenon DEF DecideByJob
  <1> QED BY <1>1, <1>2

LEMMA QueriesKeepOrder ==
    ASSUME CoreType, Query
    PROVE  /\ UNCHANGED <<stored, keys, redis, work, submit, cancelling, env>>
           /\ wait' = wait \/ (wait \in Polls /\ wait' \in {"adopting", "reviewing", "over"})
  <1> USE AfterIs
  <1>1. CASE ReadReportRow
    BY <1>1 DEF ReadReportRow, Answer, Reads, Then
  <1>2. CASE ReadReportFallback
    BY <1>2 DEF ReadReportFallback, Answer, Reads
  <1>3. CASE ReadReport
    BY <1>3 DEF ReadReport, Reads, Then
  <1>4. CASE ReadWaitAdoption
    BY <1>4 DEF ReadWaitAdoption, Answer, Reads, Then
  <1>5. CASE ReadAlive
    BY <1>5 DEF ReadAlive, Answer, Reads, Then
  <1>6. CASE ReadCache
    BY <1>6 DEF ReadCache, Answer, Reads
  <1>7. CASE ReadRunning
    BY <1>7 DEF ReadRunning, Reads, Keeps
  <1>8. CASE ReadJob
    BY <1>8 DEF ReadJob, Answer, Reads, Then, Keeps
  <1>9. CASE ReadEarly
    BY <1>9 DEF ReadEarly, Reads, Then
  <1>10. CASE ReadEarlyAgain
    BY <1>10 DEF ReadEarlyAgain, Answer, Reads, Then
  <1>11. CASE DecideByJob
    BY <1>11, DecideByJobIs, KeyReads DEF Reads, Answer
  <1>12. CASE ReadState
    BY <1>12 DEF ReadState, Answer, Reads, Then
  <1>13. CASE ReadValues
    BY <1>13 DEF ReadValues, Answer, Reads, Keeps
  <1>14. CASE ReadProgress
    BY <1>14 DEF ReadProgress, Reads, Keeps
  <1>15. CASE ReadKey
    <2>1. query.kind \in {"adopt", "review", "progress"}
      BY <1>15 DEF ReadKey, Reads, CoreType, QueryOK, KindInv
    <2> QED BY <1>15, <2>1, ReadKeyIs, KeyReads DEF Reads, Answer, Keeps
  <1>16. CASE ReadReviewed
    BY <1>16 DEF ReadReviewed, Reads, Keeps
  <1>17. CASE ReadScheduled
    BY <1>17 DEF ReadScheduled, Answer, Reads
  <1>18. CASE ReadRows
    BY <1>18 DEF ReadRows, Reads, Then
  <1>19. CASE ReadThreads
    BY <1>19 DEF ReadThreads, Answer, Reads
  <1>20. CASE ReadItem
    BY <1>20 DEF ReadItem, Answer, Reads
  <1> QED BY <1>1, <1>2, <1>3, <1>4, <1>5, <1>6, <1>7, <1>8, <1>9, <1>10, <1>11, <1>12,
         <1>13, <1>14, <1>15, <1>16, <1>17, <1>18, <1>19, <1>20 DEF Query

LEMMA OrderStep ==
    ASSUME CoreType, CoreType', OrderInv, Step
    PROVE  OrderInv'
  <1>t. /\ session \in SessionType /\ work \in [kind : Kinds, pc : WorkPC]
        /\ submit \in [kind : Kinds, pc : {"none", "mark", "enqueue", "record", "register", "seed"}]
    BY DEF CoreType, StoredOK, WorkOK, SubmitOK
  <1> USE <1>t DEF SessionType, Kinds
  <1>1. CASE Start
    BY <1>1 DEF Start, stored, keys, redis, client, env, OrderInv, Untouched,
       PipePC, Early, Adopting, Submitting, AtRest
  <1>2. CASE Adopt
    BY <1>2 DEF Adopt, stored, keys, redis, env, OrderInv, Untouched, PipePC,
       Early, Adopting, Submitting, AtRest
  <1>3. CASE Review
    BY <1>3 DEF Review, stored, keys, redis, env, OrderInv, Untouched, PipePC,
       Early, Adopting, Submitting, AtRest
  <1>4. CASE Submit
    <2>1. CASE MarkSession
      BY <2>1 DEF MarkSession, keys, redis, client, env, OrderInv, Untouched,
         PipePC, Early, Adopting, Submitting, AtRest
    <2>2. CASE Enqueue
      BY <2>2, EnqueueIs DEF client, OrderInv, Untouched,
         PipePC, Early, Adopting, Submitting, AtRest
    <2>3. CASE RecordJob
      BY <2>3, RecordJobIs DEF OrderInv, Untouched,
         PipePC, Early, Adopting, Submitting, AtRest
    <2>4. CASE RegisterRunning
      <3>1. /\ submit.pc = "register" /\ UNCHANGED <<session, work>>
            /\ \/ submit' = [submit EXCEPT !.pc = "seed"] /\ UNCHANGED wait
               \/ submit' = [submit EXCEPT !.pc = "none"] /\ wait' = AnsweredWait
        BY <2>4 DEF RegisterRunning, stored
      <3> QED BY <3>1, AnsweredWaitIs DEF OrderInv, Untouched, PipePC, Early, Adopting, Submitting, AtRest, Polls
    <2>5. CASE Seed
      <3>1. /\ submit.pc = "seed" /\ UNCHANGED <<session, work>>
            /\ submit' = [submit EXCEPT !.pc = "none"] /\ wait' = AnsweredWait
        BY <2>5 DEF Seed, stored
      <3> QED BY <3>1, AnsweredWaitIs DEF OrderInv, Untouched, PipePC, Early, Adopting, Submitting, AtRest, Polls
    <2> QED BY <1>4, <2>1, <2>2, <2>3, <2>4, <2>5 DEF Submit
  <1>5. CASE RequestCancel
    BY <1>5 DEF RequestCancel, stored, redis, client, OrderInv, Untouched,
       PipePC, Early, Adopting, Submitting, AtRest
  <1>6. CASE CancelRows
    BY <1>6 DEF CancelRows, keys, redis, client, env, OrderInv, Untouched,
       PipePC, Early, Adopting, Submitting, AtRest
  <1>7. CASE Flush
    BY <1>7 DEF Flush, stored, keys, client, env, OrderInv, Untouched, PipePC,
       Early, Adopting, Submitting, AtRest
  <1>8. CASE Worker
    <2>1. CASE TakeJob
      <3>1. /\ work.pc = "queued" /\ UNCHANGED <<session, submit, wait>>
            /\ \/ work' = [work EXCEPT !.pc = "clear"] /\ work.kind = "diagnosis"
               \/ work' = [work EXCEPT !.pc = "begin"] /\ work.kind = "adoption"
               \/ work' = [work EXCEPT !.pc = "track"] /\ work.kind = "review"
        BY <2>1, TakeJobIs DEF At, To, Marked, client
      <3> QED BY <3>1 DEF OrderInv, Untouched, PipePC, Early, Adopting, Submitting, AtRest
    <2>2. CASE ClearRun
      BY <2>2 DEF ClearRun, stored, keys, Goes, client, env, At, To, OrderInv,
         Untouched, PipePC, Early, Adopting, Submitting, AtRest
    <2>3. CASE CreateSession
      BY <2>3 DEF CreateSession, keys, redis, SetSession, Goes, client, env, At,
         To, NoView, OrderInv, Untouched, PipePC, Early, Adopting, Submitting,
         AtRest
    <2>4. CASE CheckCancel
      BY <2>4 DEF CheckCancel, stored, keys, redis, Goes, client, env, At, To,
         OrderInv, Untouched, PipePC, Early, Adopting, Submitting, AtRest
    <2>5. CASE Collect
      BY <2>5 DEF Collect, stored, keys, Goes, client, env, At, To, OrderInv,
         Untouched, PipePC, Early, Adopting, Submitting, AtRest
    <2>6. CASE SaveReport
      BY <2>6 DEF SaveReport, keys, client, env, At, To, OrderInv, Untouched,
         PipePC, Early, Adopting, Submitting, AtRest
    <2>7. CASE KeepReport
      BY <2>7 DEF KeepReport, keys, redis, SetSession, Goes, client, env, At, To,
         OrderInv, Untouched, PipePC, Early, Adopting, Submitting, AtRest
    <2>8. CASE Generate
      BY <2>8 DEF Generate, stored, keys, Goes, client, env, At, To, OrderInv,
         Untouched, PipePC, Early, Adopting, Submitting, AtRest
    <2>9. CASE FinishPipeline
      BY <2>9 DEF FinishPipeline, keys, redis, SetSession, Goes, client, env, At,
         To, OrderInv, Untouched, PipePC, Early, Adopting, Submitting, AtRest
    <2>10. CASE FailPhase
      BY <2>10 DEF FailPhase, stored, keys, client, To, OrderInv, Untouched,
         PipePC, Early, Adopting, Submitting, AtRest
    <2>11. CASE BeginAdoption
      BY <2>11 DEF BeginAdoption, stored, keys, Goes, client, env, At, To,
         OrderInv, Untouched, PipePC, Early, Adopting, Submitting, AtRest
    <2>12. CASE ResumeAdoption
      BY <2>12 DEF ResumeAdoption, stored, keys, redis, SetSession, Goes, client,
         env, At, To, OrderInv, Untouched, PipePC, Early, Adopting, Submitting,
         AtRest
    <2>13. CASE Execute
      BY <2>13 DEF Execute, keys, client, env, At, To, OrderInv, Untouched,
         PipePC, Early, Adopting, Submitting, AtRest
    <2>14. CASE TellOutcome
      BY <2>14 DEF TellOutcome, stored, keys, Goes, client, env, At, To,
         OrderInv, Untouched, PipePC, Early, Adopting, Submitting, AtRest
    <2>15. CASE EnterTracking
      BY <2>15 DEF EnterTracking, stored, keys, redis, SetSession, Goes, client,
         env, At, To, OrderInv, Untouched, PipePC, Early, Adopting, Submitting,
         AtRest
    <2>16. CASE CompleteTracking
      BY <2>16 DEF CompleteTracking, keys, client, env, At, To, OrderInv,
         Untouched, PipePC, Early, Adopting, Submitting, AtRest
    <2>17. CASE StoreReview
      BY <2>17 DEF StoreReview, keys, client, env, At, To, OrderInv, Untouched,
         PipePC, Early, Adopting, Submitting, AtRest
    <2>18. CASE TellReviewed
      BY <2>18 DEF TellReviewed, stored, keys, Goes, client, env, At, To,
         OrderInv, Untouched, PipePC, Early, Adopting, Submitting, AtRest
    <2>19. CASE CloseSession
      BY <2>19 DEF CloseSession, keys, redis, SetSession, Goes, client, env, At,
         To, OrderInv, Untouched, PipePC, Early, Adopting, Submitting, AtRest
    <2>20. CASE MarkDone
      BY <2>20 DEF MarkDone, keys, redis, Marked, Goes, client, env, At, To,
         OrderInv, Untouched, PipePC, Early, Adopting, Submitting, AtRest
    <2>21. CASE MarkStopped
      BY <2>21 DEF MarkStopped, keys, redis, Marked, Goes, client, env, At, To,
         OrderInv, Untouched, PipePC, Early, Adopting, Submitting, AtRest
    <2>22. CASE MarkFailed
      BY <2>22 DEF MarkFailed, keys, redis, Marked, Goes, client, env, At, To,
         OrderInv, Untouched, PipePC, Early, Adopting, Submitting, AtRest
    <2>23. CASE Unregister
      BY <2>23 DEF Unregister, stored, redis, Goes, client, env, At, To,
         OrderInv, Untouched, PipePC, Early, Adopting, Submitting, AtRest
    <2> QED BY <1>8, <2>1, <2>2, <2>3, <2>4, <2>5, <2>6, <2>7, <2>8, <2>9, <2>10,
           <2>11, <2>12, <2>13, <2>14, <2>15, <2>16, <2>17, <2>18, <2>19, <2>20,
           <2>21, <2>22, <2>23 DEF Worker
  <1>9. CASE Interrupt
    BY <1>9 DEF Interrupt, stored, keys, client, To, InBody, OrderInv, Untouched,
       PipePC, Early, Adopting, Submitting, AtRest
  <1>10. CASE Kill
    BY <1>10 DEF Kill, stored, keys, client, To, OrderInv, Untouched, PipePC,
       Early, Adopting, Submitting, AtRest
  <1>11. CASE ExpireRunning
    BY <1>11 DEF ExpireRunning, stored, redis, client, env, OrderInv, Untouched,
       PipePC, Early, Adopting, Submitting, AtRest
  <1>12. CASE ExpireEntry
    BY <1>12 DEF ExpireEntry, stored, keys, client, OrderInv, Untouched, PipePC,
       Early, Adopting, Submitting, AtRest
  <1>13. CASE Poll
    BY <1>13, OrderOfQueries DEF Poll, Ask, stored
  <1>14. CASE OpenPage
    BY <1>14, OrderOfQueries DEF OpenPage, Ask, stored
  <1>15. CASE Query
    BY <1>15, QueriesKeepOrder, OrderOfQueries DEF stored
  <1>16. CASE Leave
    BY <1>16, LeaveIs DEF client, OrderInv, Untouched, PipePC, Early, Adopting,
       Submitting, AtRest
  <1> QED BY <1>1, <1>2, <1>3, <1>4, <1>5, <1>6, <1>7, <1>8, <1>9, <1>10, <1>11, <1>12,
         <1>13, <1>14, <1>15, <1>16 DEF Step

-----------------------------------------------------------------------------
(* What stands behind "completed".  Whatever a query has seen, and whatever an   *)
(* entry of the progress cache says, in Redis, in a process or still on its way, *)
(* is backed by a table; and what a table once had it keeps.                     *)

Found == report \/ session.hasReport
Backs(entry) ==
    entry.type = "completed" => /\ entry.stage = "execution" => session.adopted
                                /\ entry.stage = "effect_track" => reviewed

BacksNext(entry) ==
    entry.type = "completed" => /\ entry.stage = "execution" => session'.adopted
                                /\ entry.stage = "effect_track" => reviewed'

WritesBacked == \A i \in DOMAIN writes : Backs(writes[i])
RedisEvidence == Backs(cache) /\ WritesBacked
ReportedPC == {"generate", "generating", "finish", "mark", "begin", "resume", "execute", "tell",
               "tellError", "track", "complete", "learn", "ending", "close"}
WorkEvidence ==
    /\ work.pc = "tell" => session.adopted
    /\ work.pc = "ending" => reviewed
    /\ session.phase \notin {"none", "pipeline"} \/ work.pc \in ReportedPC => session.hasReport
    /\ work.kind # "diagnosis" \/ submit.kind # "diagnosis" => session.hasReport
    /\ leaving.pc = "mark" \/ job.status = "succeeded" => session.hasReport
QueryEvidence ==
    /\ Backs(local) /\ Backs(query.saw.cache)
    /\ query.pc \in {"wait", "alive", "item"} => Found
    /\ query.saw.session.adopted => session.adopted
    /\ query.saw.reviewed => reviewed
    /\ query.pc = "state" /\ query.saw.job = "succeeded" => session.hasReport

Done == told.answer = "completed" =>
            /\ told.kind = "adopt" => session.adopted
            /\ told.kind = "review" => reviewed
            /\ told.kind \notin {"adopt", "review"} => Found

LEMMA DoneIs == Done => CompletedIsDone
  <1> SUFFICES ASSUME Done, told.answer = "completed"
               PROVE  CASE told.kind = "adopt" -> session.adopted
                        [] told.kind = "review" -> reviewed
                        [] OTHER -> report \/ session.hasReport
    BY Zenon DEF CompletedIsDone
  <1>1. CASE told.kind = "adopt"
    BY <1>1, Zenon DEF Done
  <1>2. CASE told.kind = "review"
    BY <1>2, Zenon DEF Done
  <1>3. CASE told.kind \notin {"adopt", "review"}
    BY <1>3, Zenon DEF Done, Found
  <1> QED BY <1>1, <1>2, <1>3

LEMMA EvidenceInit == Init => RedisEvidence /\ WorkEvidence /\ QueryEvidence /\ Done
  BY DEF Init, RedisEvidence, WritesBacked, WorkEvidence, ReportedPC, QueryEvidence, Done, Backs,
         NoEntry, NoQuery, NoView, NoAnswer, NoJob

\* What the tables have is not lost.
Keep == /\ session.adopted => session'.adopted
        /\ reviewed => reviewed'
        /\ session.hasReport => session'.hasReport
        /\ Found => Found'

\* An answer "completed" has a reason.
LEMMA AnswerReasons ==
    /\ \A e : ByEntry(e) # "completed"
    /\ \A s, e, alive : AdoptAnswer(s, e, alive) = "completed" =>
          (e.stage = "execution" /\ e.type = "completed") \/ s.adopted
    /\ \A s, e, alive, done, due : ReviewAnswer(s, e, alive, done, due) = "completed" =>
          done \/ (e.stage = "effect_track" /\ e.type = "completed")
  <1>1. \A e : ByEntry(e) # "completed"
    BY DEF ByEntry
  <1>2. \A s, e, alive : AdoptAnswer(s, e, alive) = "completed" =>
           (e.stage = "execution" /\ e.type = "completed") \/ s.adopted
    BY ZenonT(60) DEF AdoptAnswer
  <1>3. \A s, e, alive, done, due : ReviewAnswer(s, e, alive, done, due) = "completed" =>
           done \/ (e.stage = "effect_track" /\ e.type = "completed")
    BY ZenonT(60) DEF ReviewAnswer
  <1> QED BY <1>1, <1>2, <1>3

LEMMA KeepStep ==
    ASSUME CoreType, OrderInv, Step
    PROVE  Keep
  <1>t. session \in SessionType /\ work \in [kind : Kinds, pc : WorkPC]
    BY DEF CoreType, StoredOK, WorkOK
  <1> USE <1>t DEF SessionType
  <1>1. CASE Start
    BY <1>1 DEF Start, stored, Keep, Found
  <1>2. CASE Adopt
    BY <1>2 DEF Adopt, stored, Keep, Found
  <1>3. CASE Review
    BY <1>3 DEF Review, stored, Keep, Found
  <1>4. CASE Submit
    <2>1. CASE MarkSession
      BY <2>1 DEF MarkSession, Keep, Found
    <2>2. CASE Enqueue
      BY <2>2, EnqueueIs DEF stored, Keep, Found
    <2>3. CASE RecordJob
      BY <2>3, RecordJobIs DEF Keep, Found
    <2>4. CASE RegisterRunning
      BY <2>4 DEF RegisterRunning, stored, Keep, Found
    <2>5. CASE Seed
      BY <2>5 DEF Seed, stored, Keep, Found
    <2> QED BY <1>4, <2>1, <2>2, <2>3, <2>4, <2>5 DEF Submit
  <1>5. CASE RequestCancel
    BY <1>5 DEF RequestCancel, stored, Keep, Found
  <1>6. CASE CancelRows
    BY <1>6 DEF CancelRows, Keep, Found
  <1>7. CASE Flush
    BY <1>7 DEF Flush, stored, Keep, Found
  <1>8. CASE Worker
    <2>1. CASE TakeJob
      BY <2>1, TakeJobIs DEF Marked, Keep, Found
    <2>2. CASE ClearRun
      BY <2>2 DEF ClearRun, stored, Goes, Keep, Found
    <2>3. CASE CreateSession
      <3>1. /\ work.pc = "create" /\ UNCHANGED <<report, reviewed>>
        BY <2>3 DEF CreateSession, Goes, At, SetSession
      <3> QED BY <3>1 DEF Keep, Found, OrderInv, Early, Untouched
    <2>4. CASE CheckCancel
      BY <2>4 DEF CheckCancel, stored, Goes, Keep, Found
    <2>5. CASE Collect
      BY <2>5 DEF Collect, stored, Goes, Keep, Found
    <2>6. CASE SaveReport
      BY <2>6 DEF SaveReport, Keep, Found
    <2>7. CASE KeepReport
      BY <2>7 DEF KeepReport, SetSession, Goes, Keep, Found
    <2>8. CASE Generate
      BY <2>8 DEF Generate, stored, Goes, Keep, Found
    <2>9. CASE FinishPipeline
      BY <2>9 DEF FinishPipeline, SetSession, Goes, Keep, Found
    <2>10. CASE FailPhase
      BY <2>10 DEF FailPhase, stored, Keep, Found
    <2>11. CASE BeginAdoption
      BY <2>11 DEF BeginAdoption, stored, Goes, Keep, Found
    <2>12. CASE ResumeAdoption
      BY <2>12 DEF ResumeAdoption, stored, SetSession, Goes, Keep, Found
    <2>13. CASE Execute
      BY <2>13 DEF Execute, Keep, Found
    <2>14. CASE TellOutcome
      BY <2>14 DEF TellOutcome, stored, Goes, Keep, Found
    <2>15. CASE EnterTracking
      BY <2>15 DEF EnterTracking, stored, SetSession, Goes, Keep, Found
    <2>16. CASE CompleteTracking
      BY <2>16 DEF CompleteTracking, Keep, Found
    <2>17. CASE StoreReview
      BY <2>17 DEF StoreReview, Keep, Found
    <2>18. CASE TellReviewed
      BY <2>18 DEF TellReviewed, stored, Goes, Keep, Found
    <2>19. CASE CloseSession
      BY <2>19 DEF CloseSession, SetSession, Goes, Keep, Found
    <2>20. CASE MarkDone
      BY <2>20 DEF MarkDone, Marked, Goes, Keep, Found
    <2>21. CASE MarkStopped
      BY <2>21 DEF MarkStopped, Marked, Goes, Keep, Found
    <2>22. CASE MarkFailed
      BY <2>22 DEF MarkFailed, Marked, Goes, Keep, Found
    <2>23. CASE Unregister
      BY <2>23 DEF Unregister, stored, Goes, Keep, Found
    <2> QED BY <1>8, <2>1, <2>2, <2>3, <2>4, <2>5, <2>6, <2>7, <2>8, <2>9, <2>10,
           <2>11, <2>12, <2>13, <2>14, <2>15, <2>16, <2>17, <2>18, <2>19, <2>20,
           <2>21, <2>22, <2>23 DEF Worker
  <1>9. CASE Interrupt
    BY <1>9 DEF Interrupt, stored, InBody, Keep, Found
  <1>10. CASE Kill
    BY <1>10 DEF Kill, stored, Keep, Found
  <1>11. CASE ExpireRunning
    BY <1>11 DEF ExpireRunning, stored, Keep, Found
  <1>12. CASE ExpireEntry
    BY <1>12 DEF ExpireEntry, stored, Keep, Found
  <1>13. CASE Poll
    BY <1>13 DEF Poll, Ask, stored, Keep, Found
  <1>14. CASE OpenPage
    BY <1>14 DEF OpenPage, Ask, stored, Keep, Found
  <1>15. CASE Query
    BY <1>15, QueriesKeepOrder DEF stored, Keep, Found
  <1>16. CASE Leave
    BY <1>16, LeaveIs DEF Keep, Found
  <1> QED BY <1>1, <1>2, <1>3, <1>4, <1>5, <1>6, <1>7, <1>8, <1>9, <1>10, <1>11, <1>12,
         <1>13, <1>14, <1>15, <1>16 DEF Step

LEMMA WorkEvidenceStep ==
    ASSUME CoreType, OrderInv, WorkEvidence, Step
    PROVE  WorkEvidence'
  <1>t. /\ session \in SessionType /\ work \in [kind : Kinds, pc : WorkPC]
        /\ job \in [kind : Kinds, status : JobStatus]
        /\ leaving \in [kind : Kinds, pc : {"none", "mark", "stopped", "end"}]
        /\ submit \in [kind : Kinds, pc : {"none", "mark", "enqueue", "record", "register", "seed"}]
    BY DEF CoreType, StoredOK, KeysOK, WorkOK, SubmitOK
  <1> USE <1>t DEF SessionType, ReportedPC, keys, stored
  <1>1. CASE Start
    BY <1>1 DEF Start, OrderInv, Untouched, WorkEvidence
  <1>2. CASE Adopt
    BY <1>2 DEF Adopt, stored, WorkEvidence
  <1>3. CASE Review
    BY <1>3 DEF Review, stored, WorkEvidence
  <1>4. CASE Submit
    <2>1. CASE MarkSession
      BY <2>1 DEF MarkSession, WorkEvidence
    <2>2. CASE Enqueue
      BY <2>2, EnqueueIs DEF stored, WorkEvidence
    <2>3. CASE RecordJob
      BY <2>3, RecordJobIs DEF WorkEvidence
    <2>4. CASE RegisterRunning
      BY <2>4 DEF RegisterRunning, stored, WorkEvidence
    <2>5. CASE Seed
      BY <2>5 DEF Seed, stored, WorkEvidence
    <2> QED BY <1>4, <2>1, <2>2, <2>3, <2>4, <2>5 DEF Submit
  <1>5. CASE RequestCancel
    BY <1>5 DEF RequestCancel, stored, WorkEvidence
  <1>6. CASE CancelRows
    BY <1>6 DEF CancelRows, WorkEvidence
  <1>7. CASE Flush
    BY <1>7 DEF Flush, stored, WorkEvidence
  <1>8. CASE Worker
    <2>1. CASE TakeJob
      <3>1. /\ UNCHANGED <<session, reviewed, submit, leaving>>
            /\ \/ work' = [work EXCEPT !.pc = "clear"]
               \/ work' = [work EXCEPT !.pc = "begin"] /\ work.kind = "adoption"
               \/ work' = [work EXCEPT !.pc = "track"] /\ work.kind = "review"
            /\ UNCHANGED job \/ job' = [job EXCEPT !.status = "running"]
        BY <2>1, TakeJobIs DEF To, Marked, MarkJob
      <3> QED BY <3>1 DEF WorkEvidence
    <2>2. CASE ClearRun
      BY <2>2 DEF ClearRun, stored, Goes, At, To, WorkEvidence
    <2>3. CASE CreateSession
      BY <2>3 DEF CreateSession, OrderInv, Early, Untouched, SetSession, Goes, At, To, NoView, WorkEvidence
    <2>4. CASE CheckCancel
      BY <2>4 DEF CheckCancel, stored, Goes, At, To, WorkEvidence
    <2>5. CASE Collect
      BY <2>5 DEF Collect, stored, Goes, At, To, WorkEvidence
    <2>6. CASE SaveReport
      BY <2>6 DEF SaveReport, At, To, WorkEvidence
    <2>7. CASE KeepReport
      BY <2>7 DEF KeepReport, SetSession, Goes, At, To, WorkEvidence
    <2>8. CASE Generate
      BY <2>8 DEF Generate, stored, Goes, At, To, WorkEvidence
    <2>9. CASE FinishPipeline
      BY <2>9 DEF FinishPipeline, OrderInv, PipePC, SetSession, Goes, At, To, WorkEvidence
    <2>10. CASE FailPhase
      BY <2>10 DEF FailPhase, stored, To, WorkEvidence
    <2>11. CASE BeginAdoption
      BY <2>11 DEF BeginAdoption, stored, Goes, At, To, WorkEvidence
    <2>12. CASE ResumeAdoption
      <3>1. /\ work.pc = "resume" /\ session.phase = "waiting_adoption"
            /\ UNCHANGED reviewed
        BY <2>12 DEF ResumeAdoption, Goes, At, OrderInv, Adopting, SetSession, stored
      <3>2. work'.pc = "execute" /\ session' = [session EXCEPT !.phase = "executing"]
        BY <2>12, <3>1 DEF ResumeAdoption, Goes, To, SetSession
      <3> QED BY <3>1, <3>2 DEF WorkEvidence
    <2>13. CASE Execute
      BY <2>13 DEF Execute, At, To, WorkEvidence
    <2>14. CASE TellOutcome
      BY <2>14 DEF TellOutcome, stored, Goes, At, To, WorkEvidence
    <2>15. CASE EnterTracking
      BY <2>15 DEF EnterTracking, stored, SetSession, Goes, At, To, WorkEvidence
    <2>16. CASE CompleteTracking
      BY <2>16 DEF CompleteTracking, At, To, WorkEvidence
    <2>17. CASE StoreReview
      BY <2>17 DEF StoreReview, At, To, WorkEvidence
    <2>18. CASE TellReviewed
      BY <2>18 DEF TellReviewed, stored, Goes, At, To, WorkEvidence
    <2>19. CASE CloseSession
      BY <2>19 DEF CloseSession, SetSession, Goes, At, To, WorkEvidence
    <2>20. CASE MarkDone
      BY <2>20 DEF MarkDone, Marked, MarkJob, Goes, At, To, WorkEvidence
    <2>21. CASE MarkStopped
      BY <2>21 DEF MarkStopped, Marked, MarkJob, Goes, At, To, WorkEvidence
    <2>22. CASE MarkFailed
      BY <2>22 DEF MarkFailed, Marked, MarkJob, Goes, At, To, WorkEvidence
    <2>23. CASE Unregister
      BY <2>23 DEF Unregister, stored, Goes, At, To, WorkEvidence
    <2> QED BY <1>8, <2>1, <2>2, <2>3, <2>4, <2>5, <2>6, <2>7, <2>8, <2>9, <2>10,
           <2>11, <2>12, <2>13, <2>14, <2>15, <2>16, <2>17, <2>18, <2>19, <2>20,
           <2>21, <2>22, <2>23 DEF Worker
  <1>9. CASE Interrupt
    BY <1>9 DEF Interrupt, stored, To, InBody, WorkEvidence
  <1>10. CASE Kill
    BY <1>10 DEF Kill, NoJob, To, WorkEvidence
  <1>11. CASE ExpireRunning
    BY <1>11 DEF ExpireRunning, stored, WorkEvidence
  <1>12. CASE ExpireEntry
    BY <1>12 DEF ExpireEntry, stored, WorkEvidence
  <1>13. CASE Poll
    BY <1>13 DEF Poll, Ask, stored, WorkEvidence
  <1>14. CASE OpenPage
    BY <1>14 DEF OpenPage, Ask, stored, WorkEvidence
  <1>15. CASE Query
    BY <1>15, QueriesKeepOrder DEF stored, WorkEvidence
  <1>16. CASE Leave
    <2>1. /\ UNCHANGED <<session, reviewed, work, submit>>
          /\ leaving' = [leaving EXCEPT !.pc = "end"] \/ leaving' = NoJob
      BY <1>16, LeaveIs
    <2>2. leaving'.pc # "mark"
      BY <2>1 DEF NoJob
    <2>3. job'.status = "succeeded" => job.status = "succeeded" \/ leaving.pc = "mark"
      BY <1>16, LeaveIs
    <2> QED BY <2>1, <2>2, <2>3 DEF WorkEvidence
  <1> QED BY <1>1, <1>2, <1>3, <1>4, <1>5, <1>6, <1>7, <1>8, <1>9, <1>10, <1>11, <1>12,
         <1>13, <1>14, <1>15, <1>16 DEF Step

\* The entries of the progress cache, one way or another.
LEMMA PlainEntries ==
    /\ \A i \in DOMAIN <<>> : <<>>[i].type # "completed"
    /\ \A i \in DOMAIN <<An("plain", "none")>> : <<An("plain", "none")>>[i].type # "completed"
    /\ \A i \in DOMAIN <<An("plain", "none"), An("progress", "none")>> :
          <<An("plain", "none"), An("progress", "none")>>[i].type # "completed"
  BY DEF An

LEMMA RedisKept ==
    ASSUME Keep, RedisEvidence, UNCHANGED <<cache, writes>>
    PROVE  RedisEvidence'
  BY DEF Keep, RedisEvidence, WritesBacked, Backs

LEMMA MoreWrites ==
    ASSUME CoreType, Keep, WritesBacked, NEW s \in Seq(Entry), writes' = writes \o s,
           \A i \in DOMAIN s : Backs(s[i])'
    PROVE  WritesBacked'
  <1>1. writes \in Seq(Entry)
    BY DEF CoreType, RedisOK
  <1>2. ASSUME NEW i \in DOMAIN writes'
        PROVE  \/ i \in DOMAIN writes /\ writes'[i] = writes[i]
               \/ \E k \in DOMAIN s : writes'[i] = s[k]
    <2>1. /\ DOMAIN writes = 1..Len(writes) /\ DOMAIN s = 1..Len(s)
          /\ Len(writes) \in Nat /\ Len(s) \in Nat
          /\ DOMAIN writes' = 1..(Len(writes) + Len(s))
      BY <1>1
    <2>2. CASE i <= Len(writes)
      BY <1>1, <1>2, <2>1, <2>2
    <2>3. CASE i > Len(writes)
      <3>1. i - Len(writes) \in DOMAIN s /\ writes'[i] = s[i - Len(writes)]
        BY <1>1, <1>2, <2>1, <2>3
      <3> QED BY <3>1
    <2> QED BY <1>2, <2>1, <2>2, <2>3
  <1>3. \A i \in DOMAIN writes : Backs(writes[i]) /\ (Backs(writes[i]) =>
            (writes[i].type = "completed" =>
                /\ writes[i].stage = "execution" => session'.adopted
                /\ writes[i].stage = "effect_track" => reviewed'))
    BY DEF WritesBacked, Keep, Backs
  <1> QED BY <1>2, <1>3 DEF WritesBacked, Backs

LEMMA ScheduledBacked ==
    ASSUME CoreType, Keep, RedisEvidence, NEW s \in Seq(Entry), Schedule(s),
           \A i \in DOMAIN s : s[i].type # "completed"
    PROVE  RedisEvidence'
  <1>1. writes' = writes \o s /\ UNCHANGED cache
    BY DEF Schedule
  <1>2. \A i \in DOMAIN s : Backs(s[i])'
    BY DEF Backs
  <1>3. WritesBacked'
    BY <1>1, <1>2, MoreWrites DEF RedisEvidence
  <1> QED BY <1>1, <1>3 DEF RedisEvidence, Keep, Backs

LEMMA SaidBacked ==
    ASSUME CoreType, Keep, RedisEvidence, NEW e \in Entry, NEW s \in Seq(Entry), Say(e, s),
           \A i \in DOMAIN s : s[i].type # "completed",
           e.type = "completed" => /\ e.stage = "execution" => session'.adopted
                                   /\ e.stage = "effect_track" => reviewed'
    PROVE  RedisEvidence'
  <1>1. writes' = writes \o (<<e>> \o s) /\ UNCHANGED cache
    BY DEF Say, CoreType, RedisOK
  <1>2. <<e>> \o s \in Seq(Entry)
    OBVIOUS
  <1>3. ASSUME NEW i \in DOMAIN (<<e>> \o s)
        PROVE  Backs((<<e>> \o s)[i])'
    <2>1. (<<e>> \o s)[i] = e \/ \E k \in DOMAIN s : (<<e>> \o s)[i] = s[k]
      <3>1. DOMAIN s = 1..Len(s) /\ Len(s) \in Nat /\ DOMAIN (<<e>> \o s) = 1..(1 + Len(s))
        OBVIOUS
      <3>2. CASE i = 1
        BY <3>2
      <3>3. CASE i # 1
        <4>1. i - 1 \in DOMAIN s /\ (<<e>> \o s)[i] = s[i - 1]
          BY <1>3, <3>1, <3>3
        <4> QED BY <4>1
      <3> QED BY <3>2, <3>3
    <2> QED BY <2>1 DEF Backs
  <1>4. WritesBacked'
    BY <1>1, <1>2, <1>3, MoreWrites DEF RedisEvidence
  <1> QED BY <1>1, <1>4 DEF RedisEvidence, Keep, Backs

LEMMA RedisEvidenceStep ==
    ASSUME CoreType, CoreType', Keep, WorkEvidence, RedisEvidence, Step
    PROVE  RedisEvidence'
  <1> USE RedisKept DEF redis
  <1>1. CASE Start
    BY <1>1 DEF Start, redis
  <1>2. CASE Adopt
    BY <1>2 DEF Adopt, redis
  <1>3. CASE Review
    BY <1>3 DEF Review, redis
  <1>4. CASE Submit
    <2>1. CASE MarkSession
      BY <2>1 DEF MarkSession, redis
    <2>2. CASE Enqueue
      BY <2>2, EnqueueIs DEF redis
    <2>3. CASE RecordJob
      BY <2>3, RecordJobIs DEF redis
    <2>4. CASE RegisterRunning
      BY <2>4 DEF RegisterRunning, redis
    <2>5. CASE Seed
      <3>1. cache' = An("progress", "execution") /\ UNCHANGED writes
        BY <2>5 DEF Seed
      <3> QED BY <3>1 DEF RedisEvidence, WritesBacked, Backs, An, Keep
    <2> QED BY <1>4, <2>1, <2>2, <2>3, <2>4, <2>5 DEF Submit
  <1>5. CASE RequestCancel
    BY <1>5 DEF RequestCancel, redis
  <1>6. CASE CancelRows
    BY <1>6 DEF CancelRows, redis
  <1>7. CASE Flush
    <2>1. /\ writes # <<>> /\ writes \in Seq(Entry) /\ writes' = Tail(writes)
          /\ cache' = Head(writes) \/ UNCHANGED cache
          /\ UNCHANGED stored
      BY <1>7 DEF Flush, CoreType, RedisOK
    <2>2. \A i \in DOMAIN writes' : i + 1 \in DOMAIN writes /\ writes'[i] = writes[i + 1]
      BY <2>1
    <2>3. 1 \in DOMAIN writes /\ Head(writes) = writes[1]
      BY <2>1
    <2>4. WritesBacked'
      BY <2>1, <2>2 DEF RedisEvidence, WritesBacked, Backs, stored
    <2>5. Backs(cache)'
      BY <2>1, <2>3 DEF RedisEvidence, WritesBacked, Backs, stored
    <2> QED BY <2>4, <2>5 DEF RedisEvidence
  <1>8. CASE Worker
    <2>1. CASE TakeJob
      BY <2>1, TakeJobIs
    <2>2. CASE ClearRun
      <3>1. cache' = NoEntry /\ writes' = writes \o <<An("progress", "none")>>
        BY <2>2 DEF ClearRun, CoreType, RedisOK
      <3>2. <<An("progress", "none")>> \in Seq(Entry)
            /\ \A i \in DOMAIN <<An("progress", "none")>> : Backs(<<An("progress", "none")>>[i])'
        BY EntriesAre DEF Backs, An
      <3>3. WritesBacked'
        BY <3>1, <3>2, MoreWrites DEF RedisEvidence
      <3> QED BY <3>1, <3>3 DEF RedisEvidence, Backs, NoEntry
    <2>3. CASE CreateSession
      BY <2>3 DEF CreateSession, redis, NoView
    <2>4. CASE CheckCancel
      BY <2>4 DEF CheckCancel, redis
    <2>5. CASE Collect
      <3>1. Schedule(<<An("plain", "none")>>)
        BY <2>5 DEF Collect
      <3> QED BY <3>1, ScheduledBacked, EntrySeqs, PlainEntries
    <2>6. CASE SaveReport
      <3>1. Schedule(<<An("plain", "none")>>)
        BY <2>6 DEF SaveReport
      <3> QED BY <3>1, ScheduledBacked, EntrySeqs, PlainEntries
    <2>7. CASE KeepReport
      BY <2>7 DEF KeepReport, redis
    <2>8. CASE Generate
      <3>1. Schedule(<<An("plain", "none"), An("progress", "none")>>)
        BY <2>8 DEF Generate
      <3> QED BY <3>1, ScheduledBacked, EntrySeqs, PlainEntries
    <2>9. CASE FinishPipeline
      BY <2>9 DEF FinishPipeline, redis
    <2>10. CASE FailPhase
      <3>1. \/ Say(An("error", "none"), <<An("plain", "none")>>)
            \/ Say(An("error", "none"), <<>>)
        BY <2>10 DEF FailPhase
      <3>2. An("error", "none") \in Entry /\ An("error", "none").type # "completed"
        BY EntriesAre DEF An
      <3> QED BY <3>1, <3>2, SaidBacked, EntrySeqs, PlainEntries
    <2>11. CASE BeginAdoption
      <3>1. Say(An("progress", "execution"), <<>>)
        BY <2>11 DEF BeginAdoption
      <3>2. An("progress", "execution") \in Entry /\ An("progress", "execution").type # "completed"
        BY EntriesAre DEF An
      <3> QED BY <3>1, <3>2, SaidBacked, EntrySeqs, PlainEntries
    <2>12. CASE ResumeAdoption
      BY <2>12 DEF ResumeAdoption, redis
    <2>13. CASE Execute
      <3>1. Schedule(<<An("plain", "none")>>)
        BY <2>13 DEF Execute
      <3> QED BY <3>1, ScheduledBacked, EntrySeqs, PlainEntries
    <2>14. CASE TellOutcome
      <3>1. /\ UNCHANGED session
            /\ \/ work.pc = "tell" /\ Say(An("completed", "execution"), <<>>)
               \/ Say(An("error", "execution"), <<>>)
        BY <2>14 DEF TellOutcome, Goes, At, stored
      <3>2. An("error", "execution") \in Entry /\ An("error", "execution").type # "completed"
        BY EntriesAre DEF An
      <3>3. An("completed", "execution") \in Entry /\ An("completed", "execution").stage = "execution"
        BY EntriesAre DEF An
      <3> QED BY <3>1, <3>2, <3>3, SaidBacked, EntrySeqs, PlainEntries DEF WorkEvidence
    <2>15. CASE EnterTracking
      BY <2>15 DEF EnterTracking, redis
    <2>16. CASE CompleteTracking
      <3>1. Say(An("progress", "effect_track"), <<>>) \/ Say(An("error", "effect_track"), <<>>)
        BY <2>16 DEF CompleteTracking
      <3>2. \A t \in {"progress", "error"} :
                An(t, "effect_track") \in Entry /\ An(t, "effect_track").type # "completed"
        BY EntriesAre DEF An
      <3> QED BY <3>1, <3>2, SaidBacked, EntrySeqs, PlainEntries
    <2>17. CASE StoreReview
      <3>1. Say(An("progress", "effect_track"), <<>>) \/ Say(An("error", "effect_track"), <<>>)
        BY <2>17 DEF StoreReview
      <3>2. \A t \in {"progress", "error"} :
                An(t, "effect_track") \in Entry /\ An(t, "effect_track").type # "completed"
        BY EntriesAre DEF An
      <3> QED BY <3>1, <3>2, SaidBacked, EntrySeqs, PlainEntries
    <2>18. CASE TellReviewed
      <3>1. work.pc = "ending" /\ UNCHANGED reviewed /\ Say(An("completed", "effect_track"), <<>>)
        BY <2>18 DEF TellReviewed, Goes, At, stored
      <3>2. An("completed", "effect_track") \in Entry /\ An("completed", "effect_track").stage = "effect_track"
        BY EntriesAre DEF An
      <3> QED BY <3>1, <3>2, SaidBacked, EntrySeqs, PlainEntries DEF WorkEvidence
    <2>19. CASE CloseSession
      BY <2>19 DEF CloseSession, redis
    <2>20. CASE MarkDone
      BY <2>20 DEF MarkDone, redis
    <2>21. CASE MarkStopped
      BY <2>21 DEF MarkStopped, redis
    <2>22. CASE MarkFailed
      BY <2>22 DEF MarkFailed, redis
    <2>23. CASE Unregister
      BY <2>23 DEF Unregister, redis
    <2> QED BY <1>8, <2>1, <2>2, <2>3, <2>4, <2>5, <2>6, <2>7, <2>8, <2>9, <2>10,
           <2>11, <2>12, <2>13, <2>14, <2>15, <2>16, <2>17, <2>18, <2>19, <2>20,
           <2>21, <2>22, <2>23 DEF Worker
  <1>9. CASE Interrupt
    BY <1>9 DEF Interrupt
  <1>10. CASE Kill
    <2>1. writes' = <<>> /\ UNCHANGED cache
      BY <1>10 DEF Kill
    <2> QED BY <2>1 DEF RedisEvidence, WritesBacked, Backs, Keep
  <1>11. CASE ExpireRunning
    BY <1>11 DEF ExpireRunning, redis
  <1>12. CASE ExpireEntry
    <2>1. cache' = NoEntry /\ UNCHANGED writes
      BY <1>12 DEF ExpireEntry
    <2> QED BY <2>1 DEF RedisEvidence, WritesBacked, Backs, Keep, NoEntry
  <1>13. CASE Poll
    BY <1>13 DEF Poll, Ask
  <1>14. CASE OpenPage
    BY <1>14 DEF OpenPage, Ask
  <1>15. CASE Query
    BY <1>15, QueriesKeepOrder
  <1>16. CASE Leave
    BY <1>16, LeaveIs
  <1> QED BY <1>1, <1>2, <1>3, <1>4, <1>5, <1>6, <1>7, <1>8, <1>9, <1>10, <1>11, <1>12,
         <1>13, <1>14, <1>15, <1>16 DEF Step

\* Between the steps of a query what it has seen stays backed.
LEMMA QueryKept ==
    ASSUME Keep, QueryEvidence, Done, UNCHANGED <<query, told>>,
           UNCHANGED local \/ Backs(local)'
    PROVE  QueryEvidence' /\ Done'
  <1>1. QueryEvidence'
    BY DEF Keep, QueryEvidence, Backs, Found
  <1>2. Done'
    BY DEF Keep, Done, Found
  <1> QED BY <1>1, <1>2

\* Another read; an answer; the beginning of a query.
LEMMA ThenKept ==
    ASSUME CoreType, Keep, QueryEvidence, Done, NEW pc \in QueryPC \ {"state"}, Then(pc),
           pc \in {"wait", "alive", "item"} => Found', UNCHANGED local \/ Backs(local)'
    PROVE  QueryEvidence' /\ Done'
  <1>1. query'.pc = pc /\ query'.saw = query.saw /\ UNCHANGED told
    BY ThenType
  <1>2. QueryEvidence'
    BY <1>1 DEF Keep, QueryEvidence, Backs
  <1>3. Done'
    BY <1>1 DEF Keep, Done, Found
  <1> QED BY <1>2, <1>3

LEMMA AnswerKept ==
    ASSUME CoreType, Keep, NEW a \in Answers, Answer(a), QueryEvidence,
           UNCHANGED local \/ Backs(local)',
           a = "completed" => /\ query.kind = "adopt" => session'.adopted
                              /\ query.kind = "review" => reviewed'
                              /\ query.kind \notin {"adopt", "review"} => Found'
    PROVE  QueryEvidence' /\ Done'
  <1>1. query' = NoQuery /\ told'.kind = query.kind /\ told'.answer = a
    BY AnswerType
  <1>2. Done'
    BY <1>1 DEF Done
  <1>3. QueryEvidence'
    BY <1>1 DEF QueryEvidence, Backs, Keep, NoQuery, NoView, NoEntry
  <1> QED BY <1>2, <1>3

LEMMA KeepsKept ==
    ASSUME CoreType, Keep, QueryEvidence, Done, NEW pc \in QueryPC \ {"wait", "alive", "item"},
           NEW field, NEW value, Keeps(pc, field, value),
           pc = "state" => field = "job" /\ (value = "succeeded" => session'.hasReport),
           \/ field = "session" /\ value = session'
           \/ field = "job" /\ value \in JobStatus
           \/ field = "running" /\ value \in BOOLEAN
           \/ field = "reviewed" /\ value = reviewed'
           \/ field = "cache" /\ value \in Entry \cup {NoEntry} /\ BacksNext(value),
           session' \in SessionType, reviewed' \in BOOLEAN,
           UNCHANGED local \/ Backs(local)'
    PROVE  QueryEvidence' /\ Done'
  <1>1. /\ query'.pc = pc /\ query'.saw = [query.saw EXCEPT ![field] = value] /\ UNCHANGED told
        /\ query.saw \in ViewType
    BY KeepsType DEF CoreType, QueryOK, QueryType
  <1>2. Done'
    BY <1>1 DEF Keep, Done, Found
  <1>3. /\ field # "cache" => query'.saw.cache = query.saw.cache
        /\ field # "session" => query'.saw.session = query.saw.session
        /\ field # "reviewed" => query'.saw.reviewed = query.saw.reviewed
        /\ field = "cache" => query'.saw.cache = value
        /\ field = "session" => query'.saw.session = value
        /\ field = "reviewed" => query'.saw.reviewed = value
    BY <1>1 DEF ViewType
  <1>4. Backs(query.saw.cache)'
    BY <1>3 DEF QueryEvidence, Keep, Backs, BacksNext
  <1>5. query'.saw.session.adopted => session'.adopted
    BY <1>3 DEF QueryEvidence, Keep
  <1>6. query'.saw.reviewed => reviewed'
    <2>1. CASE field = "reviewed"
      <3>1. value = reviewed' /\ query'.saw.reviewed = value
        BY <1>3, <2>1
      <3>2. query'.saw.reviewed = reviewed'
        BY <3>1, Zenon
      <3>3. CASE reviewed' = TRUE
        BY <3>3
      <3>4. CASE reviewed' = FALSE
        <4>1. query'.saw.reviewed = FALSE
          BY <3>2, <3>4, Zenon
        <4> QED BY <4>1
      <3> QED BY <3>3, <3>4
    <2>2. CASE field # "reviewed"
      BY <1>3, <2>2 DEF QueryEvidence, Keep
    <2> QED BY <2>1, <2>2
  <1>7. Backs(local)'
    BY DEF QueryEvidence, Keep, Backs
  <1>8. query'.pc = "state" /\ query'.saw.job = "succeeded" => session'.hasReport
    BY <1>1 DEF ViewType
  <1> QED BY <1>1, <1>2, <1>4, <1>5, <1>6, <1>7, <1>8 DEF QueryEvidence

LEMMA AskKept ==
    ASSUME CoreType, Keep, QueryEvidence, NEW k \in Polls \cup Pages, Ask(k)
    PROVE  QueryEvidence' /\ Done'
  <1>1. query'.pc = Asks(k) /\ query'.saw = NoView /\ told' = NoAnswer /\ UNCHANGED local
    BY AskType DEF Ask
  <1>2. Asks(k) \notin {"wait", "alive", "item", "state"}
    BY AsksIs DEF Polls, Pages
  <1> QED BY <1>1, <1>2 DEF QueryEvidence, Done, NoAnswer, NoView, NoEntry, Backs, Keep

LEMMA QueryEvidenceStep ==
    ASSUME CoreType, CoreType', Keep, OrderInv, WorkEvidence, RedisEvidence, QueryEvidence,
           Done, Step
    PROVE  QueryEvidence' /\ Done'
  <1>s. Seen \in Entry \cup {NoEntry} /\ Backs(Seen)
    BY SeenType DEF Seen, RedisEvidence, QueryEvidence
  <1>k. query.kind \in Polls \cup Pages \cup {"none"} /\ KindInv
    BY DEF CoreType, QueryOK, QueryType
  <1>1. CASE Start
    BY <1>1, QueryKept DEF Start, client
  <1>2. CASE Adopt
    BY <1>2, QueryKept DEF Adopt
  <1>3. CASE Review
    BY <1>3, QueryKept DEF Review
  <1>4. CASE Submit
    <2>1. CASE MarkSession
      BY <2>1, QueryKept DEF MarkSession, client
    <2>2. CASE Enqueue
      BY <2>2, EnqueueIs, QueryKept DEF client
    <2>3. CASE RecordJob
      BY <2>3, RecordJobIs, QueryKept
    <2>4. CASE RegisterRunning
      BY <2>4, QueryKept DEF RegisterRunning
    <2>5. CASE Seed
      <3>1. local' = An("progress", "execution") /\ UNCHANGED <<query, told>>
        BY <2>5 DEF Seed
      <3>2. Backs(local)'
        BY <3>1 DEF Backs, An
      <3> QED BY <3>1, <3>2, QueryKept
    <2> QED BY <1>4, <2>1, <2>2, <2>3, <2>4, <2>5 DEF Submit
  <1>5. CASE RequestCancel
    BY <1>5, QueryKept DEF RequestCancel, client
  <1>6. CASE CancelRows
    BY <1>6, QueryKept DEF CancelRows, client
  <1>7. CASE Flush
    BY <1>7, QueryKept DEF Flush, client
  <1>8. CASE Worker
    <2>1. CASE TakeJob
      BY <2>1, TakeJobIs, QueryKept DEF client
    <2>2. CASE ClearRun
      BY <2>2, QueryKept DEF ClearRun, Goes, client
    <2>3. CASE CreateSession
      BY <2>3, QueryKept DEF CreateSession, Goes, client, NoView
    <2>4. CASE CheckCancel
      BY <2>4, QueryKept DEF CheckCancel, Goes, client
    <2>5. CASE Collect
      BY <2>5, QueryKept DEF Collect, Goes, client
    <2>6. CASE SaveReport
      BY <2>6, QueryKept DEF SaveReport, client
    <2>7. CASE KeepReport
      BY <2>7, QueryKept DEF KeepReport, Goes, client
    <2>8. CASE Generate
      BY <2>8, QueryKept DEF Generate, Goes, client
    <2>9. CASE FinishPipeline
      BY <2>9, QueryKept DEF FinishPipeline, Goes, client
    <2>10. CASE FailPhase
      BY <2>10, QueryKept DEF FailPhase, client
    <2>11. CASE BeginAdoption
      BY <2>11, QueryKept DEF BeginAdoption, Goes, client
    <2>12. CASE ResumeAdoption
      BY <2>12, QueryKept DEF ResumeAdoption, Goes, client
    <2>13. CASE Execute
      BY <2>13, QueryKept DEF Execute, client
    <2>14. CASE TellOutcome
      BY <2>14, QueryKept DEF TellOutcome, Goes, client
    <2>15. CASE EnterTracking
      BY <2>15, QueryKept DEF EnterTracking, Goes, client
    <2>16. CASE CompleteTracking
      BY <2>16, QueryKept DEF CompleteTracking, client
    <2>17. CASE StoreReview
      BY <2>17, QueryKept DEF StoreReview, client
    <2>18. CASE TellReviewed
      BY <2>18, QueryKept DEF TellReviewed, Goes, client
    <2>19. CASE CloseSession
      BY <2>19, QueryKept DEF CloseSession, Goes, client
    <2>20. CASE MarkDone
      BY <2>20, QueryKept DEF MarkDone, Goes, client
    <2>21. CASE MarkStopped
      BY <2>21, QueryKept DEF MarkStopped, Goes, client
    <2>22. CASE MarkFailed
      BY <2>22, QueryKept DEF MarkFailed, Goes, client
    <2>23. CASE Unregister
      BY <2>23, QueryKept DEF Unregister, Goes, client
    <2> QED BY <1>8, <2>1, <2>2, <2>3, <2>4, <2>5, <2>6, <2>7, <2>8, <2>9, <2>10,
           <2>11, <2>12, <2>13, <2>14, <2>15, <2>16, <2>17, <2>18, <2>19, <2>20,
           <2>21, <2>22, <2>23 DEF Worker
  <1>9. CASE Interrupt
    BY <1>9, QueryKept DEF Interrupt, client
  <1>10. CASE Kill
    BY <1>10, QueryKept DEF Kill, client
  <1>11. CASE ExpireRunning
    BY <1>11, QueryKept DEF ExpireRunning, client
  <1>12. CASE ExpireEntry
    BY <1>12, QueryKept DEF ExpireEntry, client
  <1>13. CASE Poll
    <2>1. PICK k \in Polls : Ask(k)
      BY <1>13 DEF Poll
    <2> QED BY <2>1, AskKept
  <1>14. CASE OpenPage
    <2>1. PICK k \in Pages : Ask(k)
      BY <1>14 DEF OpenPage
    <2> QED BY <2>1, AskKept
  <1>15. CASE Query
    <2>1. CASE ReadReportRow
      <3>1. UNCHANGED local /\ (Answer("found") \/ Then("fallback"))
        BY <2>1 DEF ReadReportRow
      <3> QED BY <3>1, AnswerKept, ThenKept DEF Answers, QueryPC
    <2>2. CASE ReadReportFallback
      <3>1. UNCHANGED local /\ (Answer("found") \/ Answer("absent"))
        BY <2>2 DEF ReadReportFallback
      <3> QED BY <3>1, AnswerKept DEF Answers, QueryPC
    <2>3. CASE ReadReport
      <3>1. /\ UNCHANGED <<local, stored>>
            /\ (report /\ Then("wait")) \/ Then("running")
        BY <2>3 DEF ReadReport, Reads
      <3> QED BY <3>1, ThenKept DEF QueryPC, Found, stored
    <2>4. CASE ReadWaitAdoption
      <3>1. /\ query.pc = "wait" /\ UNCHANGED <<local, stored>>
            /\ Answer("completed") \/ Then("alive")
        BY <2>4 DEF ReadWaitAdoption, Reads
      <3>2. query.kind = "status" /\ Found'
        BY <3>1, <1>k DEF KindInv, QueryEvidence, Keep
      <3> QED BY <3>1, <3>2, AnswerKept, ThenKept DEF Answers, QueryPC
    <2>5. CASE ReadAlive
      <3>1. /\ query.pc = "alive" /\ UNCHANGED <<local, stored>>
            /\ Answer("completed") \/ Then("cache")
        BY <2>5 DEF ReadAlive, Reads
      <3>2. query.kind = "status" /\ Found'
        BY <3>1, <1>k DEF KindInv, QueryEvidence, Keep
      <3> QED BY <3>1, <3>2, AnswerKept, ThenKept DEF Answers, QueryPC
    <2>6. CASE ReadCache
      <3>1. Answer(ByEntry(Seen)) /\ local' = Seen /\ UNCHANGED stored
        BY <2>6 DEF ReadCache, Reads
      <3>2. Backs(local)' /\ ByEntry(Seen) \in Answers /\ ByEntry(Seen) # "completed"
        BY <3>1, <1>s, AnswersAre, AnswerReasons DEF Backs, stored
      <3> QED BY <3>1, <3>2, AnswerKept
    <2>7. CASE ReadRunning
      <3>1. Keeps("job", "running", running) /\ UNCHANGED <<local, stored, keys>>
        BY <2>7 DEF ReadRunning, Reads
      <3>2. /\ "job" \in QueryPC \ {"wait", "alive", "item"} /\ running = running' /\ running \in BOOLEAN
            /\ session' \in SessionType /\ reviewed' \in BOOLEAN
        BY <3>1 DEF QueryPC, stored, keys, CoreType, StoredOK, KeysOK
      <3> QED BY <3>1, <3>2, KeepsKept
    <2>8. CASE ReadJob
      <3>1. UNCHANGED <<local, stored>>
        BY <2>8 DEF ReadJob, Reads
      <3>2. \/ Keeps("early", "job", job.status) \/ Answer("failed")
            \/ Keeps("state", "job", job.status)
        BY <2>8 DEF ReadJob
      <3>3. job.status \in JobStatus /\ session' \in SessionType /\ reviewed' \in BOOLEAN
        BY DEF CoreType, StoredOK
      <3>4. CASE Keeps("early", "job", job.status)
        BY <3>1, <3>3, <3>4, KeepsKept DEF QueryPC
      <3>5. CASE Answer("failed")
        BY <3>1, <3>5, AnswerKept DEF Answers
      <3>6. CASE Keeps("state", "job", job.status)
        <4>1. job.status = "succeeded" => session'.hasReport
          BY DEF WorkEvidence, Keep
        <4> QED BY <3>1, <3>3, <3>6, <4>1, KeepsKept DEF QueryPC
      <3> QED BY <3>2, <3>4, <3>5, <3>6
    <2>9. CASE ReadEarly
      <3>1. UNCHANGED local /\ (Then("early2") \/ Then("decide"))
        BY <2>9 DEF ReadEarly
      <3> QED BY <3>1, ThenKept DEF QueryPC
    <2>10. CASE ReadEarlyAgain
      <3>1. /\ query.pc = "early2" /\ UNCHANGED <<local, stored>>
            /\ (session.phase = "waiting_adoption" /\ Answer("completed")) \/ Then("decide")
        BY <2>10 DEF ReadEarlyAgain, Reads, Waiting
      <3>2. query.kind = "status" /\ (session.phase = "waiting_adoption" => Found')
        BY <3>1, <1>k DEF KindInv, WorkEvidence, Found, Keep
      <3> QED BY <3>1, <3>2, AnswerKept, ThenKept DEF Answers, QueryPC
    <2>11. CASE DecideByJob
      <3>1. UNCHANGED stored
        BY <2>11, KeyReads DEF Reads
      <3>2. \/ Answer("running") /\ UNCHANGED local
            \/ Answer("failed") /\ UNCHANGED local
            \/ Answer(ByEntry(Seen)) /\ local' = Seen
        BY <2>11, DecideByJobIs
      <3>3. CASE Answer(ByEntry(Seen)) /\ local' = Seen
        <4>1. Backs(local)' /\ ByEntry(Seen) \in Answers /\ ByEntry(Seen) # "completed"
          BY <3>1, <3>3, <1>s, AnswersAre, AnswerReasons DEF Backs, stored
        <4> QED BY <3>3, <4>1, AnswerKept
      <3>4. CASE (Answer("running") \/ Answer("failed")) /\ UNCHANGED local
        BY <3>4, AnswerKept DEF Answers
      <3> QED BY <3>2, <3>3, <3>4
    <2>12. CASE ReadState
      <3>1. /\ UNCHANGED <<local, stored>>
            /\ \/ session.hasReport /\ Then("wait")
               \/ Answer("failed") \/ Answer("not_found") \/ Answer("running")
        BY <2>12, UnreportedIs DEF ReadState, Reads
      <3> QED BY <3>1, AnswerKept, ThenKept DEF Answers, QueryPC, Found, stored
    <2>13. CASE ReadValues
      <3>1. /\ query.pc = "values" /\ UNCHANGED <<local, stored>>
            /\ \/ /\ query.kind = "progress" /\ (session.hasReport \/ session.phase = "waiting_adoption")
                  /\ Answer("completed")
               \/ Answer("running")
               \/ Keeps("key", "session", session) \/ Keeps("progress", "session", session)
        BY <2>13 DEF ReadValues, Reads, Waiting
      <3>2. session.hasReport \/ session.phase = "waiting_adoption" => Found'
        BY DEF WorkEvidence, Found, Keep
      <3>3. CASE Answer("running") \/ (query.kind = "progress" /\ Answer("completed") /\ Found')
        BY <3>1, <3>3, AnswerKept DEF Answers
      <3>4. CASE Keeps("key", "session", session) \/ Keeps("progress", "session", session)
        <4>1. session = session' /\ session' \in SessionType /\ reviewed' \in BOOLEAN
          BY <3>1 DEF stored, CoreType, StoredOK
        <4> QED BY <3>1, <3>4, <4>1, KeepsKept DEF QueryPC
      <3>5. CASE /\ query.kind = "progress" /\ (session.hasReport \/ session.phase = "waiting_adoption")
                 /\ Answer("completed")
        BY <3>2, <3>3, <3>5
      <3> QED BY <3>1, <3>3, <3>4, <3>5
    <2>14. CASE ReadProgress
      <3>1. Keeps("key", "cache", Seen) /\ local' = Seen /\ UNCHANGED stored
        BY <2>14 DEF ReadProgress, Reads
      <3>2. BacksNext(Seen)
        BY <3>1, <1>s DEF stored, Backs, BacksNext
      <3>3. Backs(local)' /\ session' \in SessionType /\ reviewed' \in BOOLEAN
        BY <3>1, <3>2 DEF CoreType, StoredOK, Backs, BacksNext
      <3> QED BY <3>1, <3>2, <3>3, <1>s, KeepsKept DEF QueryPC
    <2>15. CASE ReadKey
      <3>1. query.pc = "key" /\ UNCHANGED <<local, stored, keys>>
        BY <2>15, KeyReads, Zenon DEF Reads, ReadKey
      <3>2. query.kind \in {"adopt", "review", "progress"}
        BY <3>1, <1>k DEF KindInv
      <3>3. CASE query.kind = "progress" /\ Answer(IF running THEN "running" ELSE "idle")
        BY <3>1, <3>3, AnswerKept DEF Answers
      <3>4. CASE query.kind = "adopt"
                 /\ Answer(AdoptAnswer(query.saw.session, query.saw.cache, running))
        <4> DEFINE a == AdoptAnswer(query.saw.session, query.saw.cache, running)
        <4>1. a \in Answers /\ (a = "completed" =>
                  (query.saw.cache.stage = "execution" /\ query.saw.cache.type = "completed")
                  \/ query.saw.session.adopted)
          BY AnswersAre, AnswerReasons
        <4>2. a = "completed" => session'.adopted
          BY <4>1 DEF QueryEvidence, Backs, Keep
        <4> HIDE DEF a
        <4> QED BY <3>1, <3>4, <4>1, <4>2, AnswerKept DEF a
      <3>5. CASE query.kind = "review" /\ Keeps("reviewed", "running", running)
        <4>1. running \in BOOLEAN /\ session' \in SessionType /\ reviewed' \in BOOLEAN
          BY DEF CoreType, StoredOK, KeysOK
        <4> QED BY <3>1, <3>5, <4>1, KeepsKept DEF QueryPC
      <3> QED BY <2>15, <3>2, <3>3, <3>4, <3>5, ReadKeyIs
    <2>16. CASE ReadReviewed
      <3>1. Keeps("scheduled", "reviewed", reviewed) /\ UNCHANGED <<local, stored, keys>>
        BY <2>16 DEF ReadReviewed, Reads
      <3>2. /\ "scheduled" \in QueryPC \ {"wait", "alive", "item"} /\ reviewed = reviewed' /\ reviewed \in BOOLEAN
            /\ session' \in SessionType /\ reviewed' \in BOOLEAN
        BY <3>1 DEF QueryPC, stored, keys, CoreType, StoredOK, KeysOK
      <3> QED BY <3>1, <3>2, KeepsKept
    <2>17. CASE ReadScheduled
      <3> DEFINE a == ReviewAnswer(query.saw.session, query.saw.cache, query.saw.running,
                                   query.saw.reviewed, scheduled)
      <3>1. Answer(a) /\ query.pc = "scheduled" /\ UNCHANGED local
        BY <2>17 DEF ReadScheduled, Reads
      <3>2. a \in Answers /\ (a = "completed" => query.saw.reviewed
                \/ (query.saw.cache.stage = "effect_track" /\ query.saw.cache.type = "completed"))
        BY AnswersAre, AnswerReasons
      <3>3. query.kind = "review" /\ (a = "completed" => reviewed')
        BY <3>1, <3>2, <1>k DEF KindInv, QueryEvidence, Backs, Keep
      <3> HIDE DEF a
      <3> QED BY <3>1, <3>2, <3>3, AnswerKept
    <2>18. CASE ReadRows
      <3>1. UNCHANGED <<local, stored>> /\ ((report /\ Then("item")) \/ Then("threads"))
        BY <2>18 DEF ReadRows, Reads
      <3> QED BY <3>1, ThenKept DEF QueryPC, Found, stored
    <2>19. CASE ReadThreads
      <3>1. UNCHANGED local /\ (Answer("running") \/ Answer("absent"))
        BY <2>19 DEF ReadThreads
      <3> QED BY <3>1, AnswerKept DEF Answers
    <2>20. CASE ReadItem
      <3>1. /\ query.pc = "item" /\ UNCHANGED local
            /\ Answer("running") \/ Answer("completed")
        BY <2>20 DEF ReadItem, Reads
      <3>2. query.kind = "list" /\ Found'
        BY <3>1, <1>k DEF KindInv, QueryEvidence, Keep
      <3> QED BY <3>1, <3>2, AnswerKept DEF Answers
    <2> QED BY <1>15, <2>1, <2>2, <2>3, <2>4, <2>5, <2>6, <2>7, <2>8, <2>9, <2>10,
           <2>11, <2>12, <2>13, <2>14, <2>15, <2>16, <2>17, <2>18, <2>19, <2>20 DEF Query
  <1>16. CASE Leave
    BY <1>16, LeaveIs, QueryKept DEF client
  <1> QED BY <1>1, <1>2, <1>3, <1>4, <1>5, <1>6, <1>7, <1>8, <1>9, <1>10, <1>11, <1>12,
         <1>13, <1>14, <1>15, <1>16 DEF Step

DoneInv == TypeInv /\ OrderInv /\ RedisEvidence /\ WorkEvidence /\ QueryEvidence /\ Done

LEMMA DoneStep == DoneInv /\ [Next]_vars => DoneInv'
  <1> SUFFICES ASSUME DoneInv, [Next]_vars PROVE DoneInv'
    OBVIOUS
  <1>1. TypeInv' /\ CoreType /\ CoreType'
    BY TypeStep DEF DoneInv, TypeInv
  <1>2. CASE Next
    <2>1. Step
      BY <1>2 DEF Next
    <2>2. OrderInv' /\ Keep
      BY <1>1, <2>1, OrderStep, KeepStep DEF DoneInv
    <2>3. WorkEvidence' /\ RedisEvidence'
      BY <1>1, <2>1, <2>2, WorkEvidenceStep, RedisEvidenceStep DEF DoneInv
    <2>4. QueryEvidence' /\ Done'
      BY <1>1, <2>1, <2>2, QueryEvidenceStep DEF DoneInv
    <2> QED BY <1>1, <2>2, <2>3, <2>4 DEF DoneInv
  <1>3. CASE UNCHANGED vars
    <2>1. /\ UNCHANGED <<report, session, job, reviewed, cache, writes, work, leaving, submit>>
          /\ UNCHANGED <<query, wait, told, local>>
      BY <1>3 DEF vars, core, stored, keys, redis
    <2>2. Keep
      BY <2>1 DEF Keep, Found
    <2>3. OrderInv'
      BY <1>1, <2>1, OrderOfQueries DEF DoneInv
    <2>4. WorkEvidence' /\ RedisEvidence' /\ QueryEvidence' /\ Done'
      BY <2>1, <2>2, RedisKept, QueryKept DEF DoneInv, WorkEvidence
    <2> QED BY <1>1, <2>3, <2>4 DEF DoneInv
  <1> QED BY <1>2, <1>3

\* Who is told "completed" finds what was asked for, whichever stores the query
\* read in whatever states, whichever process's copy of the progress entry it
\* looked at, and whatever faults occurred.
THEOREM CompletedMeansDone == Spec => []CompletedIsDone
  <1>1. Init => DoneInv
    BY TypeInit, OrderInit, EvidenceInit DEF DoneInv
  <1>2. DoneInv => CompletedIsDone
    BY DoneIs DEF DoneInv
  <1> QED BY <1>1, <1>2, DoneStep, PTL DEF Spec

-----------------------------------------------------------------------------
(* Nobody is alarmed for nothing.  While nothing goes wrong no job fails, no row  *)
(* is refused, no entry is an error, and whoever waits for a diagnosis finds it   *)
(* running until its report is kept.                                              *)

Quiet(entry) == entry.type # "error"
Refused == {"failed", "cancelled"}
DiagnosisPC == {"idle", "queued", "clear", "create", "collect", "collecting", "diagnose",
                "diagnosing", "keep", "generate", "generating", "finish", "mark", "end"}

CalmWork ==
    /\ ~cancel /\ ~cancelling /\ job.status \notin Refused
    /\ work.pc \notin {"tellError", "failed", "stopped", "dead"}
    /\ wait = "status" => /\ submit.pc = "none" /\ work.kind = "diagnosis"
                          /\ work.pc = "idle" => session.hasReport
                          /\ work.pc # "idle" => running
    /\ submit.kind = "diagnosis" /\ submit.pc \in {"record", "register"} =>
          work.kind = "diagnosis" /\ (work.pc = "idle" => session.hasReport)
    /\ work.kind = "diagnosis" => work.pc \in DiagnosisPC
    /\ work.kind = "diagnosis" /\ work.pc \in {"mark", "end"} => session.hasReport
    /\ submit.pc # "none" => wait \in {"start", "adopting", "reviewing"}
    /\ submit.pc = "seed" => submit.kind = "adoption"
    /\ leaving.pc # "stopped" /\ (leaving.pc # "none" => wait \notin {"start", "status"})

CalmRedis == Quiet(cache) /\ \A i \in DOMAIN writes : Quiet(writes[i])

CalmQuery ==
    /\ Quiet(local) /\ Quiet(query.saw.cache) /\ query.saw.job \notin Refused
    /\ query.kind = "status" => wait = "status"
    /\ query.kind = "status" /\ (query.pc = "state" \/ (query.pc = "job" /\ ~query.saw.running))
          => work.pc = "idle"
    /\ told.kind \in Polls => told.answer \notin {"failed", "not_found"}

\* Only a query ends the wait for a diagnosis.
Awaits == wait = "status" => wait' = "status" /\ (work.pc = "idle" => work'.pc = "idle")

LEMMA CalmInit == Init => CalmWork /\ CalmRedis /\ CalmQuery
  BY DEF Init, CalmWork, CalmRedis, CalmQuery, Quiet, Refused, DiagnosisPC, NoEntry, NoQuery,
         NoView, NoAnswer, NoJob, Polls

LEMMA NoFault == ASSUME CoreType, mishaps' = 0 PROVE \A k : ~Fault(k)
  BY QueriesAssumption DEF Fault, CoreType, EnvOK

LEMMA AnsweredStatus ==
    ASSUME CoreType PROVE AnsweredWait = "status" => submit.kind = "diagnosis"
  <1>1. submit.kind \in {"diagnosis", "adoption", "review"}
    BY DEF CoreType, SubmitOK, Kinds
  <1>2. CASE submit.kind = "adoption"
    BY <1>2, Zenon DEF AnsweredWait
  <1>3. CASE submit.kind = "review"
    BY <1>3, Zenon DEF AnsweredWait
  <1> QED BY <1>1, <1>2, <1>3

LEMMA CalmWorkStep ==
    ASSUME CoreType, OrderInv, WorkEvidence, mishaps' = 0, CalmWork, Step
    PROVE  CalmWork' /\ (Query \/ Awaits)
  <1>t. /\ session \in SessionType /\ work \in [kind : Kinds, pc : WorkPC]
        /\ submit \in [kind : Kinds, pc : {"none", "mark", "enqueue", "record", "register", "seed"}]
        /\ job \in [kind : Kinds, status : JobStatus]
        /\ leaving \in [kind : Kinds, pc : {"none", "mark", "stopped", "end"}]
    BY DEF CoreType, StoredOK, KeysOK, WorkOK, SubmitOK
  <1>f. \A k : ~Fault(k)
    BY NoFault
  <1> USE <1>t DEF SessionType, Kinds, Refused, DiagnosisPC, Awaits
  <1>1. CASE Start
    BY <1>1 DEF Start, stored, keys, redis, client, env, CalmWork, OrderInv,
       Submitting, Early, Untouched
  <1>2. CASE Adopt
    BY <1>2 DEF Adopt, stored, keys, redis, env, CalmWork
  <1>3. CASE Review
    BY <1>3 DEF Review, stored, keys, redis, env, CalmWork
  <1>4. CASE Submit
    <2>1. CASE MarkSession
      BY <2>1 DEF MarkSession, keys, redis, client, env, CalmWork, OrderInv,
         Submitting, Early, Untouched
    <2>2. CASE Enqueue
      BY <2>2, EnqueueIs DEF client, CalmWork, OrderInv,
         Submitting, Early, Untouched
    <2>3. CASE RecordJob
      BY <2>3, RecordJobIs DEF CalmWork, OrderInv,
         Submitting, Early, Untouched
    <2>4. CASE RegisterRunning
      <3>1. /\ submit.pc = "register" /\ running' = TRUE
            /\ UNCHANGED <<session, job, work, cancel, leaving, cancelling>>
            /\ \/ /\ submit.kind = "adoption" /\ UNCHANGED wait
                  /\ submit' = [submit EXCEPT !.pc = "seed"]
               \/ submit' = [submit EXCEPT !.pc = "none"] /\ wait' = AnsweredWait
        BY <2>4 DEF RegisterRunning, stored
      <3>2. submit.pc # "none" /\ (AnsweredWait = "status" => submit.kind = "diagnosis")
        BY <3>1, AnsweredStatus
      <3> QED BY <3>1, <3>2, AnsweredWaitIs DEF CalmWork, OrderInv, Polls
    <2>5. CASE Seed
      <3>1. /\ submit.pc = "seed" /\ UNCHANGED <<session, job, work, running, cancel, leaving, cancelling>>
            /\ submit' = [submit EXCEPT !.pc = "none"] /\ wait' = AnsweredWait
        BY <2>5 DEF Seed, stored, keys
      <3>2. submit.kind = "adoption" /\ AnsweredWait # "status"
        BY <3>1, AnsweredStatus DEF CalmWork
      <3>3. AnsweredWait \in {"adopt", "review"}
        BY <3>2, AnsweredWaitIs DEF Polls
      <3> QED BY <3>1, <3>2, <3>3 DEF CalmWork
    <2> QED BY <1>4, <2>1, <2>2, <2>3, <2>4, <2>5 DEF Submit
  <1>5. CASE RequestCancel
    BY <1>5, <1>f DEF RequestCancel, stored, redis, client, CalmWork
  <1>6. CASE CancelRows
    BY <1>6 DEF CancelRows, keys, redis, client, env, CalmWork
  <1>7. CASE Flush
    BY <1>7, <1>f DEF Flush, stored, keys, client, env, CalmWork
  <1>8. CASE Worker
    <2>1. CASE TakeJob
      <3>1. /\ work.pc = "queued" /\ UNCHANGED <<session, submit, wait, running, cancel, leaving, cancelling>>
            /\ MarkJob("running")
            /\ \/ work' = [work EXCEPT !.pc = "clear"] /\ work.kind = "diagnosis"
               \/ work' = [work EXCEPT !.pc = "begin"] /\ work.kind = "adoption"
               \/ work' = [work EXCEPT !.pc = "track"] /\ work.kind = "review"
        BY <2>1, TakeJobIs DEF At, To, Marked, client, keys
      <3> QED BY <3>1 DEF CalmWork, MarkJob
    <2>2. CASE ClearRun
      BY <2>2 DEF ClearRun, stored, keys, Goes, client, env, At, To, CalmWork
    <2>3. CASE CreateSession
      BY <2>3 DEF CreateSession, keys, redis, SetSession, Goes, client, env, At, To,
         NoView, CalmWork, OrderInv, Submitting, Early, Untouched
    <2>4. CASE CheckCancel
      BY <2>4 DEF CheckCancel, stored, keys, redis, Goes, client, env, At, To,
         CalmWork
    <2>5. CASE Collect
      BY <2>5 DEF Collect, stored, keys, Goes, client, env, At, To, CalmWork
    <2>6. CASE SaveReport
      BY <2>6, <1>f DEF SaveReport, keys, client, env, At, To, CalmWork, CalmWork
    <2>7. CASE KeepReport
      BY <2>7 DEF KeepReport, keys, redis, SetSession, Goes, client, env, At, To,
         CalmWork, WorkEvidence, ReportedPC
    <2>8. CASE Generate
      BY <2>8 DEF Generate, stored, keys, Goes, client, env, At, To, CalmWork
    <2>9. CASE FinishPipeline
      BY <2>9 DEF FinishPipeline, keys, redis, SetSession, Goes, client, env, At,
         To, CalmWork, WorkEvidence, ReportedPC
    <2>10. CASE FailPhase
      BY <2>10, <1>f DEF FailPhase, stored, keys, client, To, CalmWork
    <2>11. CASE BeginAdoption
      BY <2>11 DEF BeginAdoption, stored, keys, Goes, client, env, At, To, CalmWork
    <2>12. CASE ResumeAdoption
      BY <2>12 DEF ResumeAdoption, stored, keys, redis, SetSession, Goes, client,
         env, At, To, CalmWork
    <2>13. CASE Execute
      BY <2>13, <1>f DEF Execute, keys, client, env, At, To, CalmWork, CalmWork
    <2>14. CASE TellOutcome
      BY <2>14 DEF TellOutcome, stored, keys, Goes, client, env, At, To, CalmWork
    <2>15. CASE EnterTracking
      BY <2>15 DEF EnterTracking, stored, keys, redis, SetSession, Goes, client,
         env, At, To, CalmWork
    <2>16. CASE CompleteTracking
      BY <2>16, <1>f DEF CompleteTracking, keys, client, env, At, To, CalmWork,
         CalmWork
    <2>17. CASE StoreReview
      BY <2>17, <1>f DEF StoreReview, keys, client, env, At, To, CalmWork, CalmWork
    <2>18. CASE TellReviewed
      BY <2>18 DEF TellReviewed, stored, keys, Goes, client, env, At, To, CalmWork
    <2>19. CASE CloseSession
      BY <2>19 DEF CloseSession, keys, redis, SetSession, Goes, client, env, At, To,
         CalmWork
    <2>20. CASE MarkDone
      BY <2>20 DEF MarkDone, keys, redis, Marked, Goes, client, env, At, To,
         CalmWork, WorkEvidence, MarkJob
    <2>21. CASE MarkStopped
      BY <2>21 DEF MarkStopped, keys, redis, Marked, Goes, client, env, At, To,
         CalmWork, MarkJob
    <2>22. CASE MarkFailed
      BY <2>22 DEF MarkFailed, keys, redis, Marked, Goes, client, env, At, To,
         CalmWork, MarkJob
    <2>23. CASE Unregister
      BY <2>23 DEF Unregister, stored, redis, Goes, client, env, At, To, CalmWork
    <2> QED BY <1>8, <2>1, <2>2, <2>3, <2>4, <2>5, <2>6, <2>7, <2>8, <2>9, <2>10,
           <2>11, <2>12, <2>13, <2>14, <2>15, <2>16, <2>17, <2>18, <2>19, <2>20,
           <2>21, <2>22, <2>23 DEF Worker
  <1>9. CASE Interrupt
    BY <1>9, <1>f DEF Interrupt, stored, keys, client, To, InBody, CalmWork
  <1>10. CASE Kill
    BY <1>10, <1>f DEF Kill, stored, keys, client, To, CalmWork
  <1>11. CASE ExpireRunning
    BY <1>11, <1>f DEF ExpireRunning, stored, redis, client, env, CalmWork
  <1>12. CASE ExpireEntry
    BY <1>12, <1>f DEF ExpireEntry, stored, keys, client, CalmWork
  <1>13. CASE Poll
    BY <1>13 DEF Poll, Ask, stored, keys, CalmWork
  <1>14. CASE OpenPage
    BY <1>14 DEF OpenPage, Ask, stored, keys, CalmWork
  <1>15. CASE Query
    BY <1>15, QueriesKeepOrder DEF stored, keys, CalmWork, Polls
  <1>16. CASE Leave
    <2>1. /\ UNCHANGED <<report, session, work, submit, cancelling, wait>>
          /\ leaving.pc # "none"
          /\ \/ leaving' = [leaving EXCEPT !.pc = "end"] /\ UNCHANGED <<running, cancel>>
             \/ leaving' = NoJob /\ running' = FALSE /\ cancel' = FALSE
      BY <1>16, LeaveIs DEF client
    <2>3. leaving'.pc \in {"none", "end"}
      BY <2>1 DEF NoJob
    <2>2. /\ job'.kind = job.kind /\ (job.status # "none" => job'.status # "none")
          /\ job'.status \in Refused => job.status \in Refused \/ cancel \/ leaving.pc = "stopped"
      BY <1>16, LeaveIs
    <2> QED BY <2>1, <2>2, <2>3 DEF CalmWork
  <1> QED BY <1>1, <1>2, <1>3, <1>4, <1>5, <1>6, <1>7, <1>8, <1>9, <1>10, <1>11, <1>12,
         <1>13, <1>14, <1>15, <1>16 DEF Step

\* The entries that a worker writes while nothing goes wrong.
QuietSeq(s) == s \in Seq(Entry) /\ \A i \in DOMAIN s : Quiet(s[i])

LEMMA QuietEntries ==
    /\ QuietSeq(<<>>) /\ QuietSeq(<<An("plain", "none")>>) /\ QuietSeq(<<An("progress", "none")>>)
    /\ QuietSeq(<<An("plain", "none"), An("progress", "none")>>)
    /\ \A t \in {"progress", "completed"}, s \in {"execution", "effect_track"} :
          An(t, s) \in Entry /\ Quiet(An(t, s))
  <1>1. /\ QuietSeq(<<>>) /\ QuietSeq(<<An("plain", "none")>>)
        /\ QuietSeq(<<An("progress", "none")>>)
    BY EntriesAre DEF QuietSeq, Quiet, An
  <1>2. QuietSeq(<<An("plain", "none"), An("progress", "none")>>)
    BY EntriesAre DEF QuietSeq, Quiet, An
  <1>3. \A t \in {"progress", "completed"}, s \in {"execution", "effect_track"} :
           An(t, s) \in Entry /\ Quiet(An(t, s))
    BY EntriesAre DEF Quiet, An
  <1> QED BY <1>1, <1>2, <1>3

LEMMA CalmRedisKept == ASSUME CalmRedis, UNCHANGED <<cache, writes>> PROVE CalmRedis'
  BY DEF CalmRedis, Quiet

LEMMA QuietWrites ==
    ASSUME CoreType, CalmRedis, NEW s, QuietSeq(s), writes' = writes \o s, Quiet(cache')
    PROVE  CalmRedis'
  <1>1. writes \in Seq(Entry) /\ s \in Seq(Entry)
    BY DEF CoreType, RedisOK, QuietSeq
  <1>2. ASSUME NEW i \in DOMAIN writes' PROVE Quiet(writes'[i])
    <2>1. /\ DOMAIN writes = 1..Len(writes) /\ DOMAIN s = 1..Len(s)
          /\ Len(writes) \in Nat /\ Len(s) \in Nat
          /\ DOMAIN writes' = 1..(Len(writes) + Len(s))
      BY <1>1
    <2>2. CASE i <= Len(writes)
      <3>1. i \in DOMAIN writes /\ writes'[i] = writes[i]
        BY <1>1, <1>2, <2>1, <2>2
      <3> QED BY <3>1 DEF CalmRedis
    <2>3. CASE i > Len(writes)
      <3>1. i - Len(writes) \in DOMAIN s /\ writes'[i] = s[i - Len(writes)]
        BY <1>1, <1>2, <2>1, <2>3
      <3> QED BY <3>1 DEF QuietSeq
    <2> QED BY <1>2, <2>1, <2>2, <2>3
  <1> QED BY <1>2 DEF CalmRedis, Quiet

LEMMA QuietScheduled ==
    ASSUME CoreType, CalmRedis, NEW s, QuietSeq(s), Schedule(s) PROVE CalmRedis'
  BY QuietWrites DEF Schedule, CalmRedis, Quiet

LEMMA QuietSaid ==
    ASSUME CoreType, CalmRedis, NEW t \in {"progress", "completed"},
           NEW st \in {"execution", "effect_track"}, Say(An(t, st), <<>>)
    PROVE  CalmRedis'
  <1> DEFINE e == An(t, st)
  <1>1. e \in Entry /\ Quiet(e)
    BY QuietEntries
  <1> HIDE DEF e
  <1>2. writes' = writes \o <<e>> /\ UNCHANGED cache
    BY <1>1 DEF Say, CoreType, RedisOK, e
  <1>3. QuietSeq(<<e>>) /\ Quiet(cache')
    BY <1>1, <1>2 DEF QuietSeq, Quiet, CalmRedis
  <1> QED BY <1>2, <1>3, QuietWrites

LEMMA CalmRedisStep ==
    ASSUME CoreType, mishaps' = 0, CalmWork, CalmRedis, Step
    PROVE  CalmRedis'
  <1>f. \A k : ~Fault(k)
    BY NoFault
  <1> USE CalmRedisKept DEF redis
  <1>1. CASE Start
    BY <1>1 DEF Start, redis
  <1>2. CASE Adopt
    BY <1>2 DEF Adopt, redis
  <1>3. CASE Review
    BY <1>3 DEF Review, redis
  <1>4. CASE Submit
    <2>1. CASE MarkSession
      BY <2>1 DEF MarkSession, redis
    <2>2. CASE Enqueue
      BY <2>2, EnqueueIs DEF redis
    <2>3. CASE RecordJob
      BY <2>3, RecordJobIs DEF redis
    <2>4. CASE RegisterRunning
      BY <2>4 DEF RegisterRunning, redis
    <2>5. CASE Seed
      <3>1. cache' = An("progress", "execution") /\ UNCHANGED writes
        BY <2>5 DEF Seed
      <3> QED BY <3>1 DEF CalmRedis, Quiet, An
    <2> QED BY <1>4, <2>1, <2>2, <2>3, <2>4, <2>5 DEF Submit
  <1>5. CASE RequestCancel
    BY <1>5 DEF RequestCancel, redis
  <1>6. CASE CancelRows
    BY <1>6 DEF CancelRows, redis
  <1>7. CASE Flush
    <2>1. /\ writes # <<>> /\ writes \in Seq(Entry) /\ writes' = Tail(writes)
          /\ cache' = Head(writes) \/ UNCHANGED cache
      BY <1>7 DEF Flush, CoreType, RedisOK
    <2>2. \A i \in DOMAIN writes' : i + 1 \in DOMAIN writes /\ writes'[i] = writes[i + 1]
      BY <2>1
    <2>3. 1 \in DOMAIN writes /\ Head(writes) = writes[1]
      BY <2>1
    <2> QED BY <2>1, <2>2, <2>3 DEF CalmRedis
  <1>8. CASE Worker
    <2>1. CASE TakeJob
      BY <2>1, TakeJobIs
    <2>2. CASE ClearRun
      <3>1. cache' = NoEntry /\ writes' = writes \o <<An("progress", "none")>>
        BY <2>2 DEF ClearRun, CoreType, RedisOK
      <3> QED BY <3>1, QuietWrites, QuietEntries DEF Quiet, NoEntry, CalmRedis
    <2>3. CASE CreateSession
      BY <2>3 DEF CreateSession, redis
    <2>4. CASE CheckCancel
      BY <2>4 DEF CheckCancel, redis
    <2>5. CASE Collect
      <3>1. Schedule(<<An("plain", "none")>>)
        BY <2>5 DEF Collect
      <3> QED BY <3>1, QuietScheduled, QuietEntries
    <2>6. CASE SaveReport
      <3>1. Schedule(<<An("plain", "none")>>)
        BY <2>6 DEF SaveReport
      <3> QED BY <3>1, QuietScheduled, QuietEntries
    <2>7. CASE KeepReport
      BY <2>7 DEF KeepReport, redis
    <2>8. CASE Generate
      <3>1. Schedule(<<An("plain", "none"), An("progress", "none")>>)
        BY <2>8 DEF Generate
      <3> QED BY <3>1, QuietScheduled, QuietEntries
    <2>9. CASE FinishPipeline
      BY <2>9 DEF FinishPipeline, redis
    <2>10. CASE FailPhase
      BY <2>10, <1>f DEF FailPhase
    <2>11. CASE BeginAdoption
      <3>1. Say(An("progress", "execution"), <<>>)
        BY <2>11, <1>f DEF BeginAdoption
      <3> QED BY <3>1, QuietSaid
    <2>12. CASE ResumeAdoption
      BY <2>12 DEF ResumeAdoption, redis
    <2>13. CASE Execute
      <3>1. Schedule(<<An("plain", "none")>>)
        BY <2>13 DEF Execute
      <3> QED BY <3>1, QuietScheduled, QuietEntries
    <2>14. CASE TellOutcome
      <3>1. Say(An("completed", "execution"), <<>>)
        BY <2>14 DEF TellOutcome, Goes, At, CalmWork
      <3> QED BY <3>1, QuietSaid
    <2>15. CASE EnterTracking
      BY <2>15 DEF EnterTracking, redis
    <2>16. CASE CompleteTracking
      <3>1. Say(An("progress", "effect_track"), <<>>)
        BY <2>16, <1>f DEF CompleteTracking
      <3> QED BY <3>1, QuietSaid
    <2>17. CASE StoreReview
      <3>1. Say(An("progress", "effect_track"), <<>>)
        BY <2>17, <1>f DEF StoreReview
      <3> QED BY <3>1, QuietSaid
    <2>18. CASE TellReviewed
      <3>1. Say(An("completed", "effect_track"), <<>>)
        BY <2>18, <1>f DEF TellReviewed
      <3> QED BY <3>1, QuietSaid
    <2>19. CASE CloseSession
      BY <2>19 DEF CloseSession, redis
    <2>20. CASE MarkDone
      BY <2>20 DEF MarkDone, redis
    <2>21. CASE MarkStopped
      BY <2>21 DEF MarkStopped, redis
    <2>22. CASE MarkFailed
      BY <2>22 DEF MarkFailed, redis
    <2>23. CASE Unregister
      BY <2>23 DEF Unregister, redis
    <2> QED BY <1>8, <2>1, <2>2, <2>3, <2>4, <2>5, <2>6, <2>7, <2>8, <2>9, <2>10,
           <2>11, <2>12, <2>13, <2>14, <2>15, <2>16, <2>17, <2>18, <2>19, <2>20,
           <2>21, <2>22, <2>23 DEF Worker
  <1>9. CASE Interrupt
    BY <1>9, <1>f DEF Interrupt
  <1>10. CASE Kill
    BY <1>10, <1>f DEF Kill
  <1>11. CASE ExpireRunning
    BY <1>11 DEF ExpireRunning, redis
  <1>12. CASE ExpireEntry
    BY <1>12, <1>f DEF ExpireEntry
  <1>13. CASE Poll
    BY <1>13 DEF Poll, Ask
  <1>14. CASE OpenPage
    BY <1>14 DEF OpenPage, Ask
  <1>15. CASE Query
    BY <1>15, QueriesKeepOrder
  <1>16. CASE Leave
    BY <1>16, LeaveIs
  <1> QED BY <1>1, <1>2, <1>3, <1>4, <1>5, <1>6, <1>7, <1>8, <1>9, <1>10, <1>11, <1>12,
         <1>13, <1>14, <1>15, <1>16 DEF Step

\* A query is asked and goes on by its own steps only; the API's first entry of an
\* adoption is all that another step puts into the process's copy.
LEMMA QueryFrame ==
    ASSUME CoreType, Step
    PROVE  \/ Poll \/ OpenPage \/ Query
           \/ /\ UNCHANGED <<query, told>>
              /\ UNCHANGED local \/ local' = An("progress", "execution")
  <1>1. CASE Start
    BY <1>1 DEF Start, client
  <1>2. CASE Adopt
    BY <1>2 DEF Adopt
  <1>3. CASE Review
    BY <1>3 DEF Review
  <1>4. CASE Submit
    <2>1. CASE MarkSession
      BY <2>1 DEF MarkSession, client
    <2>2. CASE Enqueue
      BY <2>2, EnqueueIs DEF client
    <2>3. CASE RecordJob
      BY <2>3, RecordJobIs
    <2>4. CASE RegisterRunning
      BY <2>4 DEF RegisterRunning
    <2>5. CASE Seed
      BY <2>5 DEF Seed
    <2> QED BY <1>4, <2>1, <2>2, <2>3, <2>4, <2>5 DEF Submit
  <1>5. CASE RequestCancel
    BY <1>5 DEF RequestCancel, client
  <1>6. CASE CancelRows
    BY <1>6 DEF CancelRows, client
  <1>7. CASE Flush
    BY <1>7 DEF Flush, client
  <1>8. CASE Worker
    <2>1. CASE TakeJob
      BY <2>1, TakeJobIs DEF client
    <2>2. CASE ClearRun
      BY <2>2 DEF ClearRun, Goes, client
    <2>3. CASE CreateSession
      BY <2>3 DEF CreateSession, Goes, client
    <2>4. CASE CheckCancel
      BY <2>4 DEF CheckCancel, Goes, client
    <2>5. CASE Collect
      BY <2>5 DEF Collect, Goes, client
    <2>6. CASE SaveReport
      BY <2>6 DEF SaveReport, client
    <2>7. CASE KeepReport
      BY <2>7 DEF KeepReport, Goes, client
    <2>8. CASE Generate
      BY <2>8 DEF Generate, Goes, client
    <2>9. CASE FinishPipeline
      BY <2>9 DEF FinishPipeline, Goes, client
    <2>10. CASE FailPhase
      BY <2>10 DEF FailPhase, client
    <2>11. CASE BeginAdoption
      BY <2>11 DEF BeginAdoption, Goes, client
    <2>12. CASE ResumeAdoption
      BY <2>12 DEF ResumeAdoption, Goes, client
    <2>13. CASE Execute
      BY <2>13 DEF Execute, client
    <2>14. CASE TellOutcome
      BY <2>14 DEF TellOutcome, Goes, client
    <2>15. CASE EnterTracking
      BY <2>15 DEF EnterTracking, Goes, client
    <2>16. CASE CompleteTracking
      BY <2>16 DEF CompleteTracking, client
    <2>17. CASE StoreReview
      BY <2>17 DEF StoreReview, client
    <2>18. CASE TellReviewed
      BY <2>18 DEF TellReviewed, Goes, client
    <2>19. CASE CloseSession
      BY <2>19 DEF CloseSession, Goes, client
    <2>20. CASE MarkDone
      BY <2>20 DEF MarkDone, Goes, client
    <2>21. CASE MarkStopped
      BY <2>21 DEF MarkStopped, Goes, client
    <2>22. CASE MarkFailed
      BY <2>22 DEF MarkFailed, Goes, client
    <2>23. CASE Unregister
      BY <2>23 DEF Unregister, Goes, client
    <2> QED BY <1>8, <2>1, <2>2, <2>3, <2>4, <2>5, <2>6, <2>7, <2>8, <2>9, <2>10,
           <2>11, <2>12, <2>13, <2>14, <2>15, <2>16, <2>17, <2>18, <2>19, <2>20,
           <2>21, <2>22, <2>23 DEF Worker
  <1>9. CASE Interrupt
    BY <1>9 DEF Interrupt, client
  <1>10. CASE Kill
    BY <1>10 DEF Kill, client
  <1>11. CASE ExpireRunning
    BY <1>11 DEF ExpireRunning, client
  <1>12. CASE ExpireEntry
    BY <1>12 DEF ExpireEntry, client
  <1>16. CASE Leave
    BY <1>16, LeaveIs DEF client
  <1> QED BY <1>1, <1>2, <1>3, <1>4, <1>5, <1>6, <1>7, <1>8, <1>9, <1>10, <1>11, <1>12,
         <1>16 DEF Step

\* What is answered while no entry is an error.
LEMMA QuietAnswers ==
    /\ \A e : Quiet(e) => ByEntry(e) = "running"
    /\ \A s, e, alive : Quiet(e) => AdoptAnswer(s, e, alive) \notin {"failed", "not_found"}
    /\ \A s, e, alive, done, due :
          Quiet(e) => ReviewAnswer(s, e, alive, done, due) \notin {"failed", "not_found"}
  <1>1. \A e : Quiet(e) => ByEntry(e) = "running"
    BY DEF Quiet, ByEntry
  <1>2. ASSUME NEW s, NEW e, NEW alive, Quiet(e)
        PROVE  AdoptAnswer(s, e, alive) \notin {"failed", "not_found"}
    BY <1>2, ZenonT(60) DEF Quiet, AdoptAnswer
  <1>3. ASSUME NEW s, NEW e, NEW alive, NEW done, NEW due, Quiet(e)
        PROVE  ReviewAnswer(s, e, alive, done, due) \notin {"failed", "not_found"}
    BY <1>3, ZenonT(60) DEF Quiet, ReviewAnswer
  <1> QED BY <1>1, <1>2, <1>3

LEMMA DecideUnrefused ==
    ASSUME DecideByJob, query.saw.job \notin Refused
    PROVE  \/ Answer("running") /\ UNCHANGED local
           \/ Answer(ByEntry(Seen)) /\ local' = Seen
  <1>1. query.saw.job \notin {"failed", "cancelled"}
    BY DEF Refused
  <1> QED BY <1>1, Zenon DEF DecideByJob

LEMMA CalmQueryKept ==
    ASSUME CalmQuery, Awaits, UNCHANGED <<query, told>>, UNCHANGED local \/ Quiet(local')
    PROVE  CalmQuery'
  BY DEF CalmQuery, Awaits, Quiet, Refused

LEMMA CalmAsk ==
    ASSUME CoreType, CalmQuery, Poll \/ OpenPage PROVE CalmQuery'
  <1>1. PICK k \in Polls \cup Pages : Ask(k) /\ (k = "status" => wait = "status")
    BY DEF Poll, OpenPage, Polls, Pages
  <1>2. /\ query'.kind = k /\ query'.pc = Asks(k) /\ query'.saw = NoView
        /\ told' = NoAnswer /\ UNCHANGED <<wait, local, work>>
    BY <1>1, AskType DEF Ask
  <1>3. Asks(k) \notin {"state", "job"}
    BY AsksIs DEF Polls, Pages
  <1> QED BY <1>1, <1>2, <1>3 DEF CalmQuery, Quiet, Refused, NoView, NoEntry, NoAnswer, Polls

LEMMA CalmThen ==
    ASSUME CoreType, CalmQuery, NEW pc \in QueryPC, Then(pc), UNCHANGED <<work, local>>,
           pc # "job", pc = "state" => work.pc = "idle"
    PROVE  CalmQuery'
  <1>1. /\ query'.pc = pc /\ query'.kind = query.kind /\ query'.saw = query.saw
        /\ UNCHANGED <<wait, told>>
    BY ThenType
  <1> QED BY <1>1 DEF CalmQuery, Quiet, Refused

LEMMA CalmAnswer ==
    ASSUME CoreType, NEW a \in Answers, Answer(a), Quiet(local'),
           query.kind \in Polls => a \notin {"failed", "not_found"}
    PROVE  CalmQuery'
  <1>1. query' = NoQuery /\ told'.kind = query.kind /\ told'.answer = a
    BY AnswerType
  <1> QED BY <1>1 DEF CalmQuery, Quiet, Refused, NoQuery, NoView, NoEntry

LEMMA CalmKeeps ==
    ASSUME CoreType, CalmQuery, NEW pc \in QueryPC, NEW field, NEW value,
           Keeps(pc, field, value), UNCHANGED work, Quiet(local'), pc = "state" => work.pc = "idle",
           \/ field = "session" /\ value \in SessionType /\ pc # "job"
           \/ field = "job" /\ value \in JobStatus \ Refused /\ pc # "job"
           \/ field = "running" /\ value \in BOOLEAN /\ (pc = "job" /\ ~value => work.pc = "idle")
           \/ field = "reviewed" /\ value \in BOOLEAN /\ pc # "job"
           \/ field = "cache" /\ value \in Entry \cup {NoEntry} /\ Quiet(value) /\ pc # "job"
    PROVE  CalmQuery'
  <1>1. /\ query'.pc = pc /\ query'.kind = query.kind /\ UNCHANGED <<wait, told>>
        /\ query'.saw = [query.saw EXCEPT ![field] = value] /\ query.saw \in ViewType
    BY KeepsType DEF CoreType, QueryOK, QueryType
  <1>2. /\ query'.saw.cache = IF field = "cache" THEN value ELSE query.saw.cache
        /\ query'.saw.job = IF field = "job" THEN value ELSE query.saw.job
        /\ field = "running" => query'.saw.running = value
    BY <1>1 DEF ViewType
  <1> QED BY <1>1, <1>2 DEF CalmQuery, Quiet, Refused

\* The steps of a query.
LEMMA CalmQueryStep ==
    ASSUME CoreType, CalmWork, CalmRedis, CalmQuery, Query
    PROVE  CalmQuery'
  <1>s. Seen \in Entry \cup {NoEntry} /\ Quiet(Seen) /\ Quiet(local)
    BY SeenType DEF Seen, CalmRedis, CalmQuery
  <1>k. query.kind \in Polls \cup Pages \cup {"none"} /\ KindInv
    BY DEF CoreType, QueryOK, QueryType
  <1>w. UNCHANGED work
    BY QueriesKeepOrder
  <1> USE <1>w
  <1>1. CASE ReadReportRow
    <2>1. UNCHANGED local /\ (Answer("found") \/ Then("fallback"))
      BY <1>1 DEF ReadReportRow
    <2> QED BY <2>1, <1>s, CalmAnswer, CalmThen DEF Answers, QueryPC
  <1>2. CASE ReadReportFallback
    <2>1. UNCHANGED local /\ (Answer("found") \/ Answer("absent"))
      BY <1>2 DEF ReadReportFallback
    <2> QED BY <2>1, <1>s, CalmAnswer DEF Answers
  <1>3. CASE ReadReport
    <2>1. UNCHANGED local /\ (Then("wait") \/ Then("running"))
      BY <1>3 DEF ReadReport
    <2> QED BY <2>1, CalmThen DEF QueryPC
  <1>4. CASE ReadWaitAdoption
    <2>1. UNCHANGED local /\ (Answer("completed") \/ Then("alive"))
      BY <1>4 DEF ReadWaitAdoption
    <2> QED BY <2>1, <1>s, CalmAnswer, CalmThen DEF Answers, QueryPC
  <1>5. CASE ReadAlive
    <2>1. UNCHANGED local /\ (Answer("completed") \/ Then("cache"))
      BY <1>5 DEF ReadAlive
    <2> QED BY <2>1, <1>s, CalmAnswer, CalmThen DEF Answers, QueryPC
  <1>6. CASE ReadCache
    <2>1. Answer("running") /\ local' = Seen
      BY <1>6, <1>s, QuietAnswers DEF ReadCache
    <2> QED BY <2>1, <1>s, CalmAnswer DEF Answers
  <1>7. CASE ReadRunning
    <2>1. query.pc = "running" /\ Keeps("job", "running", running) /\ UNCHANGED local
      BY <1>7 DEF ReadRunning, Reads
    <2>2. running \in BOOLEAN /\ (~running => work.pc = "idle")
      BY <2>1, <1>k DEF KindInv, CalmQuery, CalmWork, CoreType, KeysOK
    <2> QED BY <2>1, <2>2, <1>s, CalmKeeps DEF QueryPC
  <1>8. CASE ReadJob
    <2>1. query.pc = "job" /\ UNCHANGED local /\ job.status \in JobStatus \ Refused
      BY <1>8 DEF ReadJob, Reads, CalmWork, CoreType, StoredOK
    <2>2. \/ Keeps("early", "job", job.status)
          \/ ~query.saw.running /\ Keeps("state", "job", job.status)
      BY <1>8, <2>1 DEF ReadJob, Refused
    <2>3. CASE Keeps("early", "job", job.status)
      BY <2>1, <2>3, <1>s, CalmKeeps DEF QueryPC
    <2>4. CASE ~query.saw.running /\ Keeps("state", "job", job.status)
      <3>1. work.pc = "idle"
        BY <2>1, <2>4, <1>k DEF KindInv, CalmQuery
      <3> QED BY <2>1, <2>4, <3>1, <1>s, CalmKeeps DEF QueryPC
    <2> QED BY <2>2, <2>3, <2>4
  <1>9. CASE ReadEarly
    <2>1. UNCHANGED local /\ (Then("early2") \/ Then("decide"))
      BY <1>9 DEF ReadEarly
    <2> QED BY <2>1, CalmThen DEF QueryPC
  <1>10. CASE ReadEarlyAgain
    <2>1. UNCHANGED local /\ (Answer("completed") \/ Then("decide"))
      BY <1>10 DEF ReadEarlyAgain
    <2> QED BY <2>1, <1>s, CalmAnswer, CalmThen DEF Answers, QueryPC
  <1>11. CASE DecideByJob
    <2>1. \/ Answer("running") /\ UNCHANGED local
          \/ Answer(ByEntry(Seen)) /\ local' = Seen
      BY <1>11, DecideUnrefused DEF CalmQuery
    <2>2. ByEntry(Seen) = "running"
      BY <1>s, QuietAnswers
    <2> QED BY <2>1, <2>2, <1>s, CalmAnswer DEF Answers
  <1>12. CASE ReadState
    <2>1. query.pc = "state" /\ UNCHANGED local /\ query.kind = "status"
      BY <1>12, <1>k DEF ReadState, Reads, KindInv
    <2>2. session.hasReport
      BY <2>1 DEF CalmQuery, CalmWork
    <2>3. Then("wait")
      BY <1>12, <2>2 DEF ReadState
    <2> QED BY <2>1, <2>3, CalmThen DEF QueryPC
  <1>13. CASE ReadValues
    <2>1. /\ UNCHANGED local
          /\ \/ Answer("completed") \/ Answer("running")
             \/ Keeps("key", "session", session) \/ Keeps("progress", "session", session)
      BY <1>13 DEF ReadValues
    <2>2. session \in SessionType
      BY DEF CoreType, StoredOK
    <2> QED BY <2>1, <2>2, <1>s, CalmAnswer, CalmKeeps DEF Answers, QueryPC
  <1>14. CASE ReadProgress
    <2>1. Keeps("key", "cache", Seen) /\ local' = Seen
      BY <1>14 DEF ReadProgress
    <2> QED BY <2>1, <1>s, CalmKeeps DEF QueryPC
  <1>15. CASE ReadKey
    <2>1. query.pc = "key" /\ UNCHANGED local /\ running \in BOOLEAN
      BY <1>15, KeyReads, Zenon DEF Reads, ReadKey, CoreType, KeysOK
    <2>2. query.kind \in {"adopt", "review", "progress"}
      BY <2>1, <1>k DEF KindInv
    <2>3. CASE query.kind = "progress" /\ Answer(IF running THEN "running" ELSE "idle")
      BY <2>1, <2>3, <1>s, CalmAnswer DEF Answers
    <2>4. CASE query.kind = "adopt"
               /\ Answer(AdoptAnswer(query.saw.session, query.saw.cache, running))
      <3> DEFINE a == AdoptAnswer(query.saw.session, query.saw.cache, running)
      <3>1. a \in Answers /\ a \notin {"failed", "not_found"}
        BY AnswersAre, QuietAnswers DEF CalmQuery
      <3> HIDE DEF a
      <3> QED BY <2>1, <2>4, <3>1, <1>s, CalmAnswer DEF a
    <2>5. CASE query.kind = "review" /\ Keeps("reviewed", "running", running)
      BY <2>1, <2>5, <1>s, CalmKeeps DEF QueryPC
    <2> QED BY <1>15, <2>2, <2>3, <2>4, <2>5, ReadKeyIs
  <1>16. CASE ReadReviewed
    <2>1. Keeps("scheduled", "reviewed", reviewed) /\ UNCHANGED local /\ reviewed \in BOOLEAN
      BY <1>16 DEF ReadReviewed, CoreType, StoredOK
    <2> QED BY <2>1, <1>s, CalmKeeps DEF QueryPC
  <1>17. CASE ReadScheduled
    <2> DEFINE a == ReviewAnswer(query.saw.session, query.saw.cache, query.saw.running,
                                 query.saw.reviewed, scheduled)
    <2>1. Answer(a) /\ UNCHANGED local
      BY <1>17 DEF ReadScheduled
    <2>2. a \in Answers /\ a \notin {"failed", "not_found"}
      BY AnswersAre, QuietAnswers DEF CalmQuery
    <2> HIDE DEF a
    <2> QED BY <2>1, <2>2, <1>s, CalmAnswer
  <1>18. CASE ReadRows
    <2>1. UNCHANGED local /\ (Then("item") \/ Then("threads"))
      BY <1>18 DEF ReadRows
    <2> QED BY <2>1, CalmThen DEF QueryPC
  <1>19. CASE ReadThreads
    <2>1. UNCHANGED local /\ (Answer("running") \/ Answer("absent"))
      BY <1>19 DEF ReadThreads
    <2> QED BY <2>1, <1>s, CalmAnswer DEF Answers
  <1>20. CASE ReadItem
    <2>1. UNCHANGED local /\ (Answer("running") \/ Answer("completed"))
      BY <1>20 DEF ReadItem
    <2> QED BY <2>1, <1>s, CalmAnswer DEF Answers
  <1> QED BY <1>1, <1>2, <1>3, <1>4, <1>5, <1>6, <1>7, <1>8, <1>9, <1>10, <1>11, <1>12,
         <1>13, <1>14, <1>15, <1>16, <1>17, <1>18, <1>19, <1>20 DEF Query

CalmInv == DoneInv /\ (mishaps = 0 => CalmWork /\ CalmRedis /\ CalmQuery)

\* What has gone wrong stays so.
LEMMA MishapsCount == ASSUME CoreType, Step PROVE mishaps' = mishaps \/ mishaps' = mishaps + 1
  <1>1. CASE Start
    BY <1>1 DEF Start, env, Fault
  <1>2. CASE Adopt
    BY <1>2 DEF Adopt, env, Fault
  <1>3. CASE Review
    BY <1>3 DEF Review, env, Fault
  <1>4. CASE Submit
    <2>1. CASE MarkSession
      BY <2>1 DEF MarkSession, env, Fault
    <2>2. CASE Enqueue
      BY <2>2, EnqueueIs DEF env, Fault
    <2>3. CASE RecordJob
      BY <2>3, RecordJobIs DEF env, Fault
    <2>4. CASE RegisterRunning
      BY <2>4 DEF RegisterRunning, env, Fault
    <2>5. CASE Seed
      BY <2>5 DEF Seed, env, Fault
    <2> QED BY <1>4, <2>1, <2>2, <2>3, <2>4, <2>5 DEF Submit
  <1>5. CASE RequestCancel
    BY <1>5 DEF RequestCancel, env, Fault
  <1>6. CASE CancelRows
    BY <1>6 DEF CancelRows, env, Fault
  <1>7. CASE Flush
    BY <1>7 DEF Flush, env, Fault
  <1>8. CASE Worker
    <2>1. CASE TakeJob
      BY <2>1, TakeJobIs DEF env
    <2>2. CASE ClearRun
      BY <2>2 DEF ClearRun, Goes, env, Fault
    <2>3. CASE CreateSession
      BY <2>3 DEF CreateSession, Goes, env, Fault
    <2>4. CASE CheckCancel
      BY <2>4 DEF CheckCancel, Goes, env, Fault
    <2>5. CASE Collect
      BY <2>5 DEF Collect, Goes, env, Fault
    <2>6. CASE SaveReport
      BY <2>6 DEF SaveReport, env, Fault
    <2>7. CASE KeepReport
      BY <2>7 DEF KeepReport, Goes, env, Fault
    <2>8. CASE Generate
      BY <2>8 DEF Generate, Goes, env, Fault
    <2>9. CASE FinishPipeline
      BY <2>9 DEF FinishPipeline, Goes, env, Fault
    <2>10. CASE FailPhase
      BY <2>10 DEF FailPhase, env, Fault
    <2>11. CASE BeginAdoption
      BY <2>11 DEF BeginAdoption, Goes, env, Fault
    <2>12. CASE ResumeAdoption
      BY <2>12 DEF ResumeAdoption, Goes, env, Fault
    <2>13. CASE Execute
      BY <2>13 DEF Execute, env, Fault
    <2>14. CASE TellOutcome
      BY <2>14 DEF TellOutcome, Goes, env, Fault
    <2>15. CASE EnterTracking
      BY <2>15 DEF EnterTracking, Goes, env, Fault
    <2>16. CASE CompleteTracking
      BY <2>16 DEF CompleteTracking, env, Fault
    <2>17. CASE StoreReview
      BY <2>17 DEF StoreReview, env, Fault
    <2>18. CASE TellReviewed
      BY <2>18 DEF TellReviewed, Goes, env, Fault
    <2>19. CASE CloseSession
      BY <2>19 DEF CloseSession, Goes, env, Fault
    <2>20. CASE MarkDone
      BY <2>20 DEF MarkDone, Goes, env, Fault
    <2>21. CASE MarkStopped
      BY <2>21 DEF MarkStopped, Goes, env, Fault
    <2>22. CASE MarkFailed
      BY <2>22 DEF MarkFailed, Goes, env, Fault
    <2>23. CASE Unregister
      BY <2>23 DEF Unregister, Goes, env, Fault
    <2> QED BY <1>8, <2>1, <2>2, <2>3, <2>4, <2>5, <2>6, <2>7, <2>8, <2>9, <2>10,
           <2>11, <2>12, <2>13, <2>14, <2>15, <2>16, <2>17, <2>18, <2>19, <2>20,
           <2>21, <2>22, <2>23 DEF Worker
  <1>9. CASE Interrupt
    BY <1>9 DEF Interrupt, env, Fault
  <1>10. CASE Kill
    BY <1>10 DEF Kill, env, Fault
  <1>11. CASE ExpireRunning
    BY <1>11 DEF ExpireRunning, env, Fault
  <1>12. CASE ExpireEntry
    BY <1>12 DEF ExpireEntry, env, Fault
  <1>13. CASE Poll
    BY <1>13 DEF Poll, Ask, env
  <1>14. CASE OpenPage
    BY <1>14 DEF OpenPage, Ask, env
  <1>15. CASE Query
    BY <1>15, QueriesKeepOrder DEF env
  <1>16. CASE Leave
    BY <1>16, LeaveIs DEF env
  <1> QED BY <1>1, <1>2, <1>3, <1>4, <1>5, <1>6, <1>7, <1>8, <1>9, <1>10, <1>11, <1>12,
         <1>13, <1>14, <1>15, <1>16 DEF Step

LEMMA CalmStep == CalmInv /\ [Next]_vars => CalmInv'
  <1> SUFFICES ASSUME CalmInv, [Next]_vars PROVE CalmInv'
    OBVIOUS
  <1>1. DoneInv'
    BY DoneStep DEF CalmInv
  <1>2. CoreType /\ OrderInv /\ WorkEvidence
    BY DEF CalmInv, DoneInv, TypeInv
  <1>3. CASE Next
    <2>1. Step
      BY <1>3 DEF Next
    <2>2. ASSUME mishaps' = 0 PROVE CalmWork' /\ CalmRedis' /\ CalmQuery'
      <3>0. mishaps = 0
        BY <1>2, <2>1, <2>2, MishapsCount, QueriesAssumption DEF CoreType, EnvOK
      <3>1. CalmWork /\ CalmRedis /\ CalmQuery
        BY <3>0 DEF CalmInv
      <3>2. CalmWork' /\ (Query \/ Awaits) /\ CalmRedis'
        BY <1>2, <2>1, <2>2, <3>1, CalmWorkStep, CalmRedisStep
      <3>3. CASE Query
        BY <1>2, <3>1, <3>2, <3>3, CalmQueryStep
      <3>4. CASE Poll \/ OpenPage
        BY <1>2, <3>1, <3>2, <3>4, CalmAsk
      <3>5. CASE /\ Awaits /\ UNCHANGED <<query, told>>
                 /\ UNCHANGED local \/ local' = An("progress", "execution")
        <4>1. UNCHANGED local \/ Quiet(local')
          BY <3>5 DEF Quiet, An
        <4> QED BY <3>1, <3>2, <3>5, <4>1, CalmQueryKept
      <3> QED BY <1>2, <2>1, <3>2, <3>3, <3>4, <3>5, QueryFrame
    <2> QED BY <1>1, <2>1, <2>2 DEF CalmInv
  <1>4. CASE UNCHANGED vars
    <2>1. /\ UNCHANGED <<session, job, running, cancel, cancelling, leaving, work, submit>>
          /\ UNCHANGED <<cache, writes, query, told, wait, local, mishaps>>
      BY <1>4 DEF vars, core, stored, keys, redis, env
    <2> QED BY <1>1, <2>1 DEF CalmInv, CalmWork, CalmRedis, CalmQuery, Quiet, Refused
  <1> QED BY <1>3, <1>4

\* As long as nothing goes wrong, nobody who waits for a diagnosis, an adoption or a
\* review is told that it failed or that there is none, however the reads of the
\* query, the requests, the job and its cache writes interleave.
THEOREM NoAlarmWithoutFault == Spec => []NoFalseAlarm
  <1>1. Init => CalmInv
    BY TypeInit, OrderInit, EvidenceInit, CalmInit DEF DoneInv, CalmInv
  <1>2. CalmInv => NoFalseAlarm
    BY DEF CalmInv, CalmQuery, NoFalseAlarm
  <1> QED BY <1>1, <1>2, CalmStep, PTL DEF Spec

-----------------------------------------------------------------------------
(* Whoever is told of a failure is told what was so.  For a diagnosis the states *)
(* of the job, of its row and of its phase leave few ways to fail: an error      *)
(* entry, a refused row, a lost running key each stand for something an instant  *)
(* query would have answered with a failure, or for a report that was missed.    *)

Beginning == wait \in {"start", "status"}
CreatedPC == PipePC \cup {"failed"}

AlarmWork ==
    /\ Beginning => work.kind = "diagnosis" /\ job.kind = "diagnosis" /\ leaving.pc = "none"
    /\ wait = "start" => ~cancel /\ ~cancelling /\ ~running
    /\ wait = "status" => submit.pc = "none" /\ job.status # "none"
    /\ submit.pc # "none" => wait \in {"start", "adopting", "reviewing"}
    /\ submit.pc = "seed" => submit.kind = "adoption"
    /\ wait = "start" /\ submit.pc = "register" => job.status # "none"
    /\ work.kind = "diagnosis" => work.pc \in DiagnosisPC \cup {"failed", "stopped", "dead"}
    /\ session.phase = "none" => ~report /\ ~session.hasReport
    /\ work.kind = "diagnosis" /\ ~session.hasReport => session.phase \in {"none", "pipeline"}
    /\ wait = "status" /\ cancelling => cancel \/ work.pc = "idle"
    /\ Beginning /\ job.status \in Refused /\ work.pc \in PipePC \cup {"clear", "create", "mark"} => cancel

AlarmRedis ==
    work.kind = "diagnosis" =>
        /\ ~Quiet(cache) => session.phase = "pipeline" /\ work.pc \in {"failed", "end", "idle", "dead"}
        /\ \A i \in DOMAIN writes : ~Quiet(writes[i]) =>
              session.phase = "pipeline" /\ work.pc = "failed" /\ i <= awaited

Alarmed == "failed" \in could
Looking == query.pc \in {"early", "early2", "decide"}

AlarmQuery ==
    /\ Beginning => Quiet(local)
    /\ query.kind \in Polls => Now(query.kind) \in could
    /\ query.kind \in Polls => wait = query.kind
    /\ query.kind = "status" =>
          /\ query.pc = "state" \/ (query.pc = "job" /\ ~query.saw.running) => ~running
          /\ query.pc \in {"wait", "alive"} => report \/ ~running
          /\ query.pc = "cache" => report
          /\ query.pc = "state" /\ session.phase = "none" => "not_found" \in could
          /\ /\ Looking \/ (query.pc = "job" /\ query.saw.running)
             /\ ~running /\ work.pc \in CreatedPC
             => Alarmed
          /\ query.pc = "job" /\ query.saw.running /\ ~Quiet(cache) =>
                Alarmed \/ report \/ job.status = "queued"
          /\ Looking /\ ~Quiet(cache) => Alarmed \/ report \/ query.saw.job = "queued"
          /\ Looking /\ job.status = "queued" => query.saw.job = "queued"
          /\ Looking /\ query.saw.job \in Refused =>
                \/ Alarmed \/ (report /\ job.status \in Refused)
                \/ Waiting /\ query.pc \in {"early", "early2"}
    /\ query.kind = "adopt" /\ query.pc = "key" /\ ~Quiet(query.saw.cache)
          /\ query.saw.cache.stage = "execution" => Alarmed
    /\ query.kind = "review" /\ ~Quiet(query.saw.cache) /\ query.saw.cache.stage = "effect_track" =>
          /\ query.pc \in {"key", "reviewed"} => Alarmed \/ reviewed
          /\ query.pc = "scheduled" => Alarmed \/ query.saw.reviewed
    /\ told.true

\* What the other steps leave to a query that is under way.
Follows ==
    /\ reviewed => reviewed'
    /\ wait \in Polls => wait' = wait
    /\ Beginning' => Beginning /\ UNCHANGED local
    /\ wait = "status" =>
          /\ ~running => ~running'
          /\ report => report'
          /\ Waiting => session'.phase = "waiting_adoption"
          /\ session'.phase = "none" => session.phase = "none"
          /\ report /\ job.status \in Refused => job'.status \in Refused
          /\ job'.status = "queued" => job.status = "queued"
          /\ job.status = "queued" /\ ~Quiet(cache) => job'.status \in Refused \cup {"queued"}
          /\ ~Quiet(cache') => \/ ~Quiet(cache)
                               \/ /\ work.pc = "failed" /\ session.phase = "pipeline"
                                  /\ UNCHANGED <<report, session, job, running, work>>
          /\ ~running' /\ work'.pc \in CreatedPC =>
                \/ ~running /\ work.pc \in CreatedPC
                \/ ~report' /\ session'.phase = "pipeline" /\ ~session'.hasReport

LEMMA AlarmWorkStep ==
    ASSUME CoreType, OrderInv, WorkEvidence, AlarmWork, Step
    PROVE  AlarmWork'
  <1>t. /\ session \in SessionType /\ work \in [kind : Kinds, pc : WorkPC]
        /\ submit \in [kind : Kinds, pc : {"none", "mark", "enqueue", "record", "register", "seed"}]
        /\ job \in [kind : Kinds, status : JobStatus]
        /\ leaving \in [kind : Kinds, pc : {"none", "mark", "stopped", "end"}]
    BY DEF CoreType, StoredOK, KeysOK, WorkOK, SubmitOK
  <1> USE <1>t DEF SessionType, Kinds, Refused, DiagnosisPC, Beginning, PipePC
  <1>1. CASE Start
    BY <1>1 DEF Start, stored, keys, redis, client, env, AlarmWork, OrderInv,
       Submitting, Early, Untouched, Adopting, AtRest
  <1>2. CASE Adopt
    BY <1>2 DEF Adopt, stored, keys, redis, env, AlarmWork
  <1>3. CASE Review
    BY <1>3 DEF Review, stored, keys, redis, env, AlarmWork
  <1>4. CASE Submit
    <2>1. CASE MarkSession
      BY <2>1 DEF MarkSession, keys, redis, client, env, AlarmWork, OrderInv,
         Submitting, Early, Untouched, Adopting, AtRest
    <2>2. CASE Enqueue
      BY <2>2, EnqueueIs DEF client, AlarmWork, OrderInv,
         Submitting, Early, Untouched, Adopting, AtRest
    <2>3. CASE RecordJob
      BY <2>3, RecordJobIs DEF AlarmWork, OrderInv,
         Submitting, Early, Untouched, Adopting, AtRest
    <2>4. CASE RegisterRunning
      <3>1. /\ submit.pc = "register" /\ running' = TRUE
            /\ UNCHANGED <<report, session, job, work, cancel, leaving, cancelling>>
            /\ \/ /\ submit.kind = "adoption" /\ UNCHANGED wait
                  /\ submit' = [submit EXCEPT !.pc = "seed"]
               \/ /\ submit.kind # "adoption"
                  /\ submit' = [submit EXCEPT !.pc = "none"] /\ wait' = AnsweredWait
        BY <2>4 DEF RegisterRunning, stored
      <3>2. /\ submit.pc # "none" /\ (AnsweredWait = "status" => submit.kind = "diagnosis")
            /\ AnsweredWait \in {"status", "adopt", "review"}
        BY <3>1, AnsweredStatus, AnsweredWaitIs DEF Polls
      <3>3. /\ submit.kind = "diagnosis" <=> wait = "start"
            /\ submit.kind = "diagnosis" => AnsweredWait = "status"
        BY <3>2, AnsweredWaitIs DEF OrderInv
      <3> QED BY <3>1, <3>2, <3>3 DEF AlarmWork
    <2>5. CASE Seed
      <3>1. /\ submit.pc = "seed" /\ UNCHANGED <<report, session, job, work, running, cancel, leaving,
                          cancelling>>
            /\ submit' = [submit EXCEPT !.pc = "none"] /\ wait' = AnsweredWait
        BY <2>5 DEF Seed, stored, keys
      <3>2. submit.kind = "adoption" /\ AnsweredWait \in {"adopt", "review"}
        BY <3>1, AnsweredStatus, AnsweredWaitIs DEF AlarmWork, Polls
      <3> QED BY <3>1, <3>2 DEF AlarmWork
    <2> QED BY <1>4, <2>1, <2>2, <2>3, <2>4, <2>5 DEF Submit
  <1>5. CASE RequestCancel
    BY <1>5 DEF RequestCancel, stored, redis, client, AlarmWork
  <1>6. CASE CancelRows
    BY <1>6 DEF CancelRows, keys, redis, client, env, AlarmWork
  <1>7. CASE Flush
    BY <1>7 DEF Flush, stored, keys, client, env, AlarmWork
  <1>8. CASE Worker
    <2>1. CASE TakeJob
      <3>1. /\ work.pc = "queued" /\ UNCHANGED <<report, session, submit, wait, running, cancel, leaving,
                          cancelling>>
            /\ MarkJob("running")
            /\ \/ work' = [work EXCEPT !.pc = "clear"] /\ work.kind = "diagnosis"
               \/ work' = [work EXCEPT !.pc = "begin"] /\ work.kind = "adoption"
               \/ work' = [work EXCEPT !.pc = "track"] /\ work.kind = "review"
        BY <2>1, TakeJobIs DEF At, To, Marked, client, keys
      <3> QED BY <3>1 DEF AlarmWork, MarkJob
    <2>2. CASE ClearRun
      BY <2>2 DEF ClearRun, stored, keys, Goes, client, env, At, To, AlarmWork
    <2>3. CASE CreateSession
      BY <2>3 DEF CreateSession, keys, redis, SetSession, Goes, client, env, At, To,
         NoView, AlarmWork, OrderInv, Submitting, Early, Untouched, Adopting, AtRest
    <2>4. CASE CheckCancel
      BY <2>4 DEF CheckCancel, stored, keys, redis, Goes, client, env, At, To,
         AlarmWork
    <2>5. CASE Collect
      BY <2>5 DEF Collect, stored, keys, Goes, client, env, At, To, AlarmWork
    <2>6. CASE SaveReport
      BY <2>6 DEF SaveReport, keys, client, env, At, To, AlarmWork, OrderInv,
         Submitting, Early, Untouched, Adopting, AtRest, WorkEvidence
    <2>7. CASE KeepReport
      BY <2>7 DEF KeepReport, keys, redis, SetSession, Goes, client, env, At, To,
         AlarmWork, OrderInv, Submitting, Early, Untouched, Adopting, AtRest,
         WorkEvidence
    <2>8. CASE Generate
      BY <2>8 DEF Generate, stored, keys, Goes, client, env, At, To, AlarmWork
    <2>9. CASE FinishPipeline
      BY <2>9 DEF FinishPipeline, keys, redis, SetSession, Goes, client, env, At,
         To, AlarmWork, OrderInv, Submitting, Early, Untouched, Adopting, AtRest,
         WorkEvidence, ReportedPC
    <2>10. CASE FailPhase
      BY <2>10 DEF FailPhase, stored, keys, client, To, AlarmWork
    <2>11. CASE BeginAdoption
      BY <2>11 DEF BeginAdoption, stored, keys, Goes, client, env, At, To, AlarmWork
    <2>12. CASE ResumeAdoption
      BY <2>12 DEF ResumeAdoption, stored, keys, redis, SetSession, Goes, client,
         env, At, To, AlarmWork, OrderInv, Submitting, Early, Untouched, Adopting,
         AtRest
    <2>13. CASE Execute
      BY <2>13 DEF Execute, keys, client, env, At, To, AlarmWork, OrderInv,
         Submitting, Early, Untouched, Adopting, AtRest
    <2>14. CASE TellOutcome
      BY <2>14 DEF TellOutcome, stored, keys, Goes, client, env, At, To, AlarmWork
    <2>15. CASE EnterTracking
      BY <2>15 DEF EnterTracking, stored, keys, redis, SetSession, Goes, client,
         env, At, To, AlarmWork
    <2>16. CASE CompleteTracking
      BY <2>16 DEF CompleteTracking, keys, client, env, At, To, AlarmWork
    <2>17. CASE StoreReview
      BY <2>17 DEF StoreReview, keys, client, env, At, To, AlarmWork
    <2>18. CASE TellReviewed
      BY <2>18 DEF TellReviewed, stored, keys, Goes, client, env, At, To, AlarmWork
    <2>19. CASE CloseSession
      BY <2>19 DEF CloseSession, keys, redis, SetSession, Goes, client, env, At, To,
         AlarmWork
    <2>20. CASE MarkDone
      BY <2>20 DEF MarkDone, keys, redis, Marked, Goes, client, env, At, To,
         AlarmWork, MarkJob
    <2>21. CASE MarkStopped
      BY <2>21 DEF MarkStopped, keys, redis, Marked, Goes, client, env, At, To,
         AlarmWork, MarkJob
    <2>22. CASE MarkFailed
      BY <2>22 DEF MarkFailed, keys, redis, Marked, Goes, client, env, At, To,
         AlarmWork, MarkJob
    <2>23. CASE Unregister
      BY <2>23 DEF Unregister, stored, redis, Goes, client, env, At, To, AlarmWork
    <2> QED BY <1>8, <2>1, <2>2, <2>3, <2>4, <2>5, <2>6, <2>7, <2>8, <2>9, <2>10,
           <2>11, <2>12, <2>13, <2>14, <2>15, <2>16, <2>17, <2>18, <2>19, <2>20,
           <2>21, <2>22, <2>23 DEF Worker
  <1>9. CASE Interrupt
    BY <1>9 DEF Interrupt, stored, keys, client, To, InBody, AlarmWork
  <1>10. CASE Kill
    BY <1>10 DEF Kill, NoJob, stored, keys, client, To, AlarmWork
  <1>11. CASE ExpireRunning
    BY <1>11 DEF ExpireRunning, stored, redis, client, env, AlarmWork
  <1>12. CASE ExpireEntry
    BY <1>12 DEF ExpireEntry, stored, keys, client, AlarmWork
  <1>13. CASE Poll
    BY <1>13 DEF Poll, Ask, stored, keys, AlarmWork
  <1>14. CASE OpenPage
    BY <1>14 DEF OpenPage, Ask, stored, keys, AlarmWork
  <1>15. CASE Query
    BY <1>15, QueriesKeepOrder DEF stored, keys, AlarmWork, Polls
  <1>16. CASE Leave
    <2>1. /\ UNCHANGED <<report, session, work, submit, cancelling, wait>>
          /\ leaving.pc # "none"
          /\ \/ leaving' = [leaving EXCEPT !.pc = "end"] /\ UNCHANGED <<running, cancel>>
             \/ leaving' = NoJob /\ running' = FALSE /\ cancel' = FALSE
      BY <1>16, LeaveIs DEF client
    <2>3. leaving'.pc \in {"none", "end"}
      BY <2>1 DEF NoJob
    <2>2. /\ job'.kind = job.kind /\ (job.status # "none" => job'.status # "none")
          /\ job'.status \in Refused => job.status \in Refused \/ cancel \/ leaving.pc = "stopped"
      BY <1>16, LeaveIs
    <2> QED BY <2>1, <2>2, <2>3 DEF AlarmWork
  <1> QED BY <1>1, <1>2, <1>3, <1>4, <1>5, <1>6, <1>7, <1>8, <1>9, <1>10, <1>11, <1>12,
         <1>13, <1>14, <1>15, <1>16 DEF Step

\* Until its job has failed no entry of a diagnosis is an error.
LEMMA InBodyCalm ==
    ASSUME AlarmRedis, work.kind = "diagnosis", work.pc \notin {"failed", "end", "idle", "dead"}
    PROVE  CalmRedis
  BY DEF AlarmRedis, CalmRedis

LEMMA CalmIsEnough == CalmRedis' => AlarmRedis'
  BY DEF AlarmRedis, CalmRedis

LEMMA AlarmRedisKept ==
    ASSUME AlarmRedis, UNCHANGED <<session, cache, writes, awaited, work>>
    PROVE  AlarmRedis'
  BY DEF AlarmRedis, Quiet

LEMMA FailureSaid ==
    ASSUME CoreType, OrderInv, AlarmRedis,
           work.pc \in {"collecting", "diagnosing", "keep", "generating"},
           work' = [work EXCEPT !.pc = "failed"], UNCHANGED <<session, cache>>,
           NEW s \in {<<>>, <<An("plain", "none")>>}, Say(An("error", "none"), s)
    PROVE  AlarmRedis'
  <1>1. session.phase = "pipeline"
    BY DEF OrderInv, PipePC
  <1>2. work'.kind = work.kind /\ work'.pc = "failed"
    BY DEF CoreType, WorkOK
  <1> SUFFICES ASSUME work.kind = "diagnosis" PROVE AlarmRedis'
    BY <1>2 DEF AlarmRedis
  <1>3. CalmRedis
    BY InBodyCalm
  <1>4. /\ writes \in Seq(Entry) /\ s \in Seq(Entry) /\ awaited' = Len(writes) + 1
        /\ writes' = (writes \o <<An("error", "none")>>) \o s /\ An("error", "none") \in Entry
    BY QuietEntries, EntriesAre DEF CoreType, RedisOK, Say, QuietSeq
  <1>5. ASSUME NEW i \in DOMAIN writes', ~Quiet(writes'[i]) PROVE i <= awaited'
    <2>1. CASE i > Len(writes) + 1
      <3>1. i - (Len(writes) + 1) \in DOMAIN s /\ writes'[i] = s[i - (Len(writes) + 1)]
        BY <1>4, <1>5, <2>1
      <3>2. QuietSeq(s)
        BY QuietEntries
      <3> QED BY <1>5, <3>1, <3>2 DEF QuietSeq
    <2> QED BY <1>4, <1>5, <2>1
  <1> QED BY <1>1, <1>2, <1>3, <1>5 DEF AlarmRedis, CalmRedis, Quiet

LEMMA AlarmRedisStep ==
    ASSUME CoreType, OrderInv, AlarmWork, AlarmRedis, Step
    PROVE  AlarmRedis'
  <1>t. /\ session \in SessionType /\ work \in [kind : Kinds, pc : WorkPC]
        /\ submit \in [kind : Kinds, pc : {"none", "mark", "enqueue", "record", "register", "seed"}]
        /\ job \in [kind : Kinds, status : JobStatus]
    BY DEF CoreType, StoredOK, WorkOK, SubmitOK
  <1> USE <1>t, AlarmRedisKept DEF SessionType, Kinds
  <1>1. CASE Start
    BY <1>1 DEF Start, stored, keys, redis, client, env, redis, stored
  <1>2. CASE Adopt
    BY <1>2 DEF Adopt, stored, keys, redis, env, redis, stored
  <1>3. CASE Review
    BY <1>3 DEF Review, stored, keys, redis, env, redis, stored
  <1>4. CASE Submit
    <2>1. CASE MarkSession
      BY <2>1 DEF MarkSession, redis, AlarmRedis, Quiet
    <2>2. CASE Enqueue
      <3>1. work'.kind = submit.kind /\ submit.pc = "enqueue" /\ UNCHANGED <<cache, writes>>
        BY <2>2, EnqueueIs DEF redis
      <3>2. submit.kind = "diagnosis" => work.kind = "diagnosis" /\ session.phase = "none"
        BY <3>1 DEF OrderInv, Submitting, Untouched, AlarmWork, Beginning
      <3>3. submit.kind = "diagnosis" => CalmRedis
        BY <3>1, <3>2 DEF AlarmRedis, CalmRedis
      <3> QED BY <3>1, <3>3, CalmRedisKept, CalmIsEnough DEF AlarmRedis
    <2>3. CASE RecordJob
      BY <2>3, RecordJobIs DEF redis, stored
    <2>4. CASE RegisterRunning
      BY <2>4 DEF RegisterRunning, stored, redis
    <2>5. CASE Seed
      <3>1. cache' = An("progress", "execution") /\ UNCHANGED <<session, work, writes, awaited>>
        BY <2>5 DEF Seed, stored
      <3> QED BY <3>1 DEF AlarmRedis, Quiet, An
    <2> QED BY <1>4, <2>1, <2>2, <2>3, <2>4, <2>5 DEF Submit
  <1>5. CASE RequestCancel
    BY <1>5 DEF RequestCancel, stored, redis, client, redis, stored
  <1>6. CASE CancelRows
    BY <1>6 DEF CancelRows, keys, redis, client, env, redis, stored
  <1>7. CASE Flush
    <2>1. /\ writes # <<>> /\ writes \in Seq(Entry) /\ writes' = Tail(writes) /\ awaited \in Nat
          /\ cache' = Head(writes) \/ UNCHANGED cache
          /\ awaited' = IF awaited > 0 THEN awaited - 1 ELSE 0
          /\ UNCHANGED <<session, work>>
      BY <1>7 DEF Flush, CoreType, RedisOK, stored
    <2>2. \A i \in DOMAIN writes' : i + 1 \in DOMAIN writes /\ writes'[i] = writes[i + 1]
      BY <2>1
    <2>3. 1 \in DOMAIN writes /\ Head(writes) = writes[1]
      BY <2>1
    <2>4. \A i \in DOMAIN writes' : i \in Nat /\ (i + 1 <= awaited => i <= awaited')
      BY <2>1
    <2> QED BY <2>1, <2>2, <2>3, <2>4 DEF AlarmRedis, Quiet
  <1>8. CASE Worker
    <2>1. CASE TakeJob
      <3>1. /\ work.pc = "queued" /\ work'.kind = work.kind /\ UNCHANGED <<cache, writes>>
        BY <2>1, TakeJobIs DEF At, To, redis
      <3> QED BY <3>1, InBodyCalm, CalmRedisKept, CalmIsEnough DEF AlarmRedis, DiagnosisPC
    <2>2. CASE ClearRun
      <3>1. /\ work.pc \notin {"failed", "end", "idle", "dead"} /\ work'.kind = work.kind
            /\ cache' = NoEntry /\ writes' = writes \o <<An("progress", "none")>>
        BY <2>2 DEF ClearRun, Goes, At, To, CoreType, RedisOK
      <3>2. Quiet(cache')
        BY <3>1 DEF Quiet, NoEntry
      <3> QED BY <3>1, <3>2, InBodyCalm, QuietWrites, QuietEntries, CalmIsEnough DEF AlarmRedis
    <2>3. CASE CreateSession
      <3>1. /\ work.pc \notin {"failed", "end", "idle", "dead"} /\ UNCHANGED <<cache, writes>>
            /\ work'.kind = work.kind
        BY <2>3 DEF CreateSession, Goes, At, To, redis
      <3> QED BY <3>1, InBodyCalm, CalmRedisKept, CalmIsEnough DEF AlarmRedis
    <2>4. CASE CheckCancel
      <3>1. /\ work.pc \notin {"failed", "end", "idle", "dead"} /\ UNCHANGED <<cache, writes>>
            /\ work'.kind = work.kind
        BY <2>4 DEF CheckCancel, Goes, At, To, redis
      <3> QED BY <3>1, InBodyCalm, CalmRedisKept, CalmIsEnough DEF AlarmRedis
    <2>5. CASE Collect
      <3>1. /\ work.pc \notin {"failed", "end", "idle", "dead"} /\ work'.kind = work.kind
            /\ Schedule(<<An("plain", "none")>>)
        BY <2>5 DEF Collect, Goes, At, To
      <3> QED BY <3>1, InBodyCalm, QuietScheduled, QuietEntries, CalmIsEnough DEF AlarmRedis
    <2>6. CASE SaveReport
      <3>1. /\ work.pc \notin {"failed", "end", "idle", "dead"} /\ work'.kind = work.kind
            /\ Schedule(<<An("plain", "none")>>)
        BY <2>6 DEF SaveReport, Goes, At, To
      <3> QED BY <3>1, InBodyCalm, QuietScheduled, QuietEntries, CalmIsEnough DEF AlarmRedis
    <2>7. CASE KeepReport
      <3>1. /\ work.pc \notin {"failed", "end", "idle", "dead"} /\ UNCHANGED <<cache, writes>>
            /\ work'.kind = work.kind
        BY <2>7 DEF KeepReport, Goes, At, To, redis
      <3> QED BY <3>1, InBodyCalm, CalmRedisKept, CalmIsEnough DEF AlarmRedis
    <2>8. CASE Generate
      <3>1. /\ work.pc \notin {"failed", "end", "idle", "dead"} /\ work'.kind = work.kind
            /\ Schedule(<<An("plain", "none"), An("progress", "none")>>)
        BY <2>8 DEF Generate, Goes, At, To
      <3> QED BY <3>1, InBodyCalm, QuietScheduled, QuietEntries, CalmIsEnough DEF AlarmRedis
    <2>9. CASE FinishPipeline
      <3>1. /\ work.pc \notin {"failed", "end", "idle", "dead"} /\ UNCHANGED <<cache, writes>>
            /\ work'.kind = work.kind
        BY <2>9 DEF FinishPipeline, Goes, At, To, redis
      <3> QED BY <3>1, InBodyCalm, CalmRedisKept, CalmIsEnough DEF AlarmRedis
    <2>10. CASE FailPhase
      <3>1. /\ work.pc \in {"collecting", "diagnosing", "keep", "generating"}
            /\ work' = [work EXCEPT !.pc = "failed"] /\ UNCHANGED <<session, cache>>
            /\ \E s \in {<<>>, <<An("plain", "none")>>} : Say(An("error", "none"), s)
        BY <2>10 DEF FailPhase, To, stored, Say
      <3> QED BY <3>1, FailureSaid
    <2>11. CASE BeginAdoption
      BY <2>11 DEF BeginAdoption, Goes, At, To, AlarmRedis, AlarmWork, DiagnosisPC
    <2>12. CASE ResumeAdoption
      BY <2>12 DEF ResumeAdoption, Goes, At, To, AlarmRedis, AlarmWork, DiagnosisPC
    <2>13. CASE Execute
      BY <2>13 DEF Execute, Goes, At, To, AlarmRedis, AlarmWork, DiagnosisPC
    <2>14. CASE TellOutcome
      BY <2>14 DEF TellOutcome, Goes, At, To, AlarmRedis, AlarmWork, DiagnosisPC
    <2>15. CASE EnterTracking
      BY <2>15 DEF EnterTracking, Goes, At, To, AlarmRedis, AlarmWork, DiagnosisPC
    <2>16. CASE CompleteTracking
      BY <2>16 DEF CompleteTracking, Goes, At, To, AlarmRedis, AlarmWork,
         DiagnosisPC
    <2>17. CASE StoreReview
      BY <2>17 DEF StoreReview, Goes, At, To, AlarmRedis, AlarmWork, DiagnosisPC
    <2>18. CASE TellReviewed
      BY <2>18 DEF TellReviewed, Goes, At, To, AlarmRedis, AlarmWork, DiagnosisPC
    <2>19. CASE CloseSession
      BY <2>19 DEF CloseSession, Goes, At, To, AlarmRedis, AlarmWork, DiagnosisPC
    <2>20. CASE MarkDone
      <3>1. /\ work.pc \notin {"failed", "end", "idle", "dead"} /\ UNCHANGED <<cache, writes>>
            /\ work'.kind = work.kind
        BY <2>20 DEF MarkDone, Goes, At, To, redis
      <3> QED BY <3>1, InBodyCalm, CalmRedisKept, CalmIsEnough DEF AlarmRedis
    <2>21. CASE MarkStopped
      <3>1. /\ work.pc \notin {"failed", "end", "idle", "dead"} /\ UNCHANGED <<cache, writes>>
            /\ work'.kind = work.kind
        BY <2>21 DEF MarkStopped, Goes, At, To, redis
      <3> QED BY <3>1, InBodyCalm, CalmRedisKept, CalmIsEnough DEF AlarmRedis
    <2>22. CASE MarkFailed
      <3>1. /\ work.pc = "failed" /\ awaited = 0 /\ work' = [work EXCEPT !.pc = "end"]
            /\ UNCHANGED <<session, cache, writes>>
        BY <2>22 DEF MarkFailed, Goes, At, To, Marked, redis
      <3>2. ASSUME work.kind = "diagnosis" PROVE \A i \in DOMAIN writes : Quiet(writes[i])
        BY <3>1, <3>2 DEF AlarmRedis, CoreType, RedisOK
      <3> QED BY <3>1, <3>2 DEF AlarmRedis, Quiet
    <2>23. CASE Unregister
      BY <2>23 DEF Unregister, stored, redis, Goes, At, To, AlarmRedis, Quiet
    <2> QED BY <1>8, <2>1, <2>2, <2>3, <2>4, <2>5, <2>6, <2>7, <2>8, <2>9, <2>10,
           <2>11, <2>12, <2>13, <2>14, <2>15, <2>16, <2>17, <2>18, <2>19, <2>20,
           <2>21, <2>22, <2>23 DEF Worker
  <1>9. CASE Interrupt
    <2>1. /\ work.pc \notin {"failed", "end", "idle", "dead"} /\ UNCHANGED <<cache, writes>>
          /\ work'.kind = work.kind
      BY <1>9 DEF Interrupt, InBody, To
    <2> QED BY <2>1, InBodyCalm, CalmRedisKept, CalmIsEnough DEF AlarmRedis
  <1>10. CASE Kill
    <2>1. /\ writes' = <<>> /\ UNCHANGED <<session, cache>>
          /\ work' = [work EXCEPT !.pc = "dead"] \/ UNCHANGED work
      BY <1>10 DEF Kill, To, stored
    <2> QED BY <2>1 DEF AlarmRedis, Quiet
  <1>11. CASE ExpireRunning
    BY <1>11 DEF ExpireRunning, stored, redis, client, env, redis, stored
  <1>12. CASE ExpireEntry
    BY <1>12 DEF ExpireEntry, stored, AlarmRedis, Quiet, NoEntry
  <1>13. CASE Poll
    BY <1>13 DEF Poll, Ask, stored, redis
  <1>14. CASE OpenPage
    BY <1>14 DEF OpenPage, Ask, stored, redis
  <1>15. CASE Query
    BY <1>15, QueriesKeepOrder DEF stored, redis
  <1>16. CASE Leave
    BY <1>16, LeaveIs DEF redis
  <1> QED BY <1>1, <1>2, <1>3, <1>4, <1>5, <1>6, <1>7, <1>8, <1>9, <1>10, <1>11, <1>12,
         <1>13, <1>14, <1>15, <1>16 DEF Step

LEMMA FollowsStep ==
    ASSUME CoreType, OrderInv, AlarmWork, AlarmRedis, Step
    PROVE  Follows \/ Query
  <1>t. /\ session \in SessionType /\ work \in [kind : Kinds, pc : WorkPC]
        /\ submit \in [kind : Kinds, pc : {"none", "mark", "enqueue", "record", "register", "seed"}]
        /\ job \in [kind : Kinds, status : JobStatus]
    BY DEF CoreType, StoredOK, WorkOK, SubmitOK
  <1> USE <1>t DEF SessionType, Kinds, Refused, DiagnosisPC, Beginning, PipePC, CreatedPC, Follows, Waiting, Polls
  <1>1. CASE Start
    BY <1>1 DEF Start, stored, keys, redis, client, env, AlarmWork, OrderInv,
       Submitting, Early, Untouched, Adopting, AtRest
  <1>2. CASE Adopt
    BY <1>2 DEF Adopt, stored, keys, redis, env, AlarmWork
  <1>3. CASE Review
    BY <1>3 DEF Review, stored, keys, redis, env, AlarmWork
  <1>4. CASE Submit
    <2>1. CASE MarkSession
      BY <2>1 DEF MarkSession, keys, redis, client, env, AlarmWork, OrderInv,
         Submitting, Early, Untouched, Adopting, AtRest
    <2>2. CASE Enqueue
      BY <2>2, EnqueueIs DEF client, AlarmWork, OrderInv,
         Submitting, Early, Untouched, Adopting, AtRest
    <2>3. CASE RecordJob
      BY <2>3, RecordJobIs DEF AlarmWork, OrderInv,
         Submitting, Early, Untouched, Adopting, AtRest
    <2>4. CASE RegisterRunning
      <3>1. /\ submit.pc = "register" /\ UNCHANGED <<reviewed, local>>
            /\ wait' = wait \/ (submit.kind # "adoption" /\ wait' = AnsweredWait)
        BY <2>4 DEF RegisterRunning, stored
      <3>2. /\ AnsweredWait = "status" => submit.kind = "diagnosis"
            /\ AnsweredWait \in {"status", "adopt", "review"}
        BY AnsweredStatus, AnsweredWaitIs DEF Polls
      <3> QED BY <3>1, <3>2 DEF AlarmWork, OrderInv
    <2>5. CASE Seed
      <3>1. submit.pc = "seed" /\ wait' = AnsweredWait /\ UNCHANGED reviewed
        BY <2>5 DEF Seed, stored
      <3>2. submit.kind = "adoption" /\ AnsweredWait \in {"adopt", "review"}
        BY <3>1, AnsweredStatus, AnsweredWaitIs DEF AlarmWork, Polls
      <3> QED BY <3>1, <3>2 DEF AlarmWork
    <2> QED BY <1>4, <2>1, <2>2, <2>3, <2>4, <2>5 DEF Submit
  <1>5. CASE RequestCancel
    BY <1>5 DEF RequestCancel, stored, redis, client, AlarmWork
  <1>6. CASE CancelRows
    BY <1>6 DEF CancelRows, keys, redis, client, env, AlarmWork
  <1>7. CASE Flush
    <2>1. /\ cache' = Head(writes) \/ UNCHANGED cache
          /\ UNCHANGED <<report, session, job, reviewed, running, work, submit, wait, local>>
      BY <1>7 DEF Flush, stored, keys, client
    <2>2. 1 \in DOMAIN writes /\ Head(writes) = writes[1]
      BY <1>7 DEF Flush, CoreType, RedisOK
    <2>3. wait = "status" /\ ~Quiet(cache') =>
             ~Quiet(cache) \/ (work.pc = "failed" /\ session.phase = "pipeline")
      BY <2>1, <2>2 DEF AlarmRedis, AlarmWork
    <2> QED BY <2>1, <2>3
  <1>8. CASE Worker
    <2>1. CASE TakeJob
      <3>1. /\ work.pc = "queued" /\ MarkJob("running")
            /\ UNCHANGED <<report, session, reviewed, submit, wait, local, running, cache>>
            /\ \/ work' = [work EXCEPT !.pc = "clear"] /\ work.kind = "diagnosis"
               \/ work' = [work EXCEPT !.pc = "begin"] /\ work.kind = "adoption"
               \/ work' = [work EXCEPT !.pc = "track"] /\ work.kind = "review"
        BY <2>1, TakeJobIs DEF At, To, Marked, client, keys, redis
      <3> QED BY <3>1 DEF AlarmWork, AlarmRedis, MarkJob, OrderInv, Early, Untouched
    <2>2. CASE ClearRun
      BY <2>2 DEF ClearRun, stored, keys, Goes, client, env, At, To, AlarmWork,
         Quiet, NoEntry
    <2>3. CASE CreateSession
      BY <2>3 DEF CreateSession, keys, redis, SetSession, Goes, client, env, At, To,
         NoView, AlarmWork, OrderInv, Submitting, Early, Untouched, Adopting, AtRest
    <2>4. CASE CheckCancel
      BY <2>4 DEF CheckCancel, stored, keys, redis, Goes, client, env, At, To,
         AlarmWork
    <2>5. CASE Collect
      BY <2>5 DEF Collect, stored, keys, Goes, client, env, At, To, AlarmWork,
         Schedule
    <2>6. CASE SaveReport
      BY <2>6 DEF SaveReport, keys, client, env, At, To, AlarmWork, OrderInv,
         Submitting, Early, Untouched, Adopting, AtRest, Schedule
    <2>7. CASE KeepReport
      BY <2>7 DEF KeepReport, keys, redis, SetSession, Goes, client, env, At, To,
         AlarmWork, OrderInv, Submitting, Early, Untouched, Adopting, AtRest
    <2>8. CASE Generate
      BY <2>8 DEF Generate, stored, keys, Goes, client, env, At, To, AlarmWork,
         Schedule
    <2>9. CASE FinishPipeline
      BY <2>9 DEF FinishPipeline, keys, redis, SetSession, Goes, client, env, At,
         To, AlarmWork, OrderInv, Submitting, Early, Untouched, Adopting, AtRest
    <2>10. CASE FailPhase
      BY <2>10 DEF FailPhase, stored, keys, client, To, AlarmWork, Say
    <2>11. CASE BeginAdoption
      BY <2>11 DEF BeginAdoption, stored, keys, Goes, client, env, At, To,
         AlarmWork, Say
    <2>12. CASE ResumeAdoption
      BY <2>12 DEF ResumeAdoption, stored, keys, redis, SetSession, Goes, client,
         env, At, To, AlarmWork, OrderInv, Submitting, Early, Untouched, Adopting,
         AtRest
    <2>13. CASE Execute
      BY <2>13 DEF Execute, keys, client, env, At, To, AlarmWork, OrderInv,
         Submitting, Early, Untouched, Adopting, AtRest, Schedule
    <2>14. CASE TellOutcome
      BY <2>14 DEF TellOutcome, stored, keys, Goes, client, env, At, To, AlarmWork,
         Say
    <2>15. CASE EnterTracking
      BY <2>15 DEF EnterTracking, stored, keys, redis, SetSession, Goes, client,
         env, At, To, AlarmWork
    <2>16. CASE CompleteTracking
      BY <2>16 DEF CompleteTracking, keys, client, env, At, To, AlarmWork, Say
    <2>17. CASE StoreReview
      BY <2>17 DEF StoreReview, keys, client, env, At, To, AlarmWork, Say
    <2>18. CASE TellReviewed
      BY <2>18 DEF TellReviewed, stored, keys, Goes, client, env, At, To, AlarmWork,
         Say
    <2>19. CASE CloseSession
      BY <2>19 DEF CloseSession, keys, redis, SetSession, Goes, client, env, At, To,
         AlarmWork
    <2>20. CASE MarkDone
      BY <2>20 DEF MarkDone, keys, redis, Marked, Goes, client, env, At, To,
         AlarmWork, MarkJob, AlarmRedis
    <2>21. CASE MarkStopped
      BY <2>21 DEF MarkStopped, keys, redis, Marked, Goes, client, env, At, To,
         AlarmWork, MarkJob, AlarmRedis
    <2>22. CASE MarkFailed
      BY <2>22 DEF MarkFailed, keys, redis, Marked, Goes, client, env, At, To,
         AlarmWork, MarkJob, AlarmRedis
    <2>23. CASE Unregister
      BY <2>23 DEF Unregister, stored, redis, Goes, client, env, At, To, AlarmWork
    <2> QED BY <1>8, <2>1, <2>2, <2>3, <2>4, <2>5, <2>6, <2>7, <2>8, <2>9, <2>10,
           <2>11, <2>12, <2>13, <2>14, <2>15, <2>16, <2>17, <2>18, <2>19, <2>20,
           <2>21, <2>22, <2>23 DEF Worker
  <1>9. CASE Interrupt
    BY <1>9 DEF Interrupt, stored, keys, client, To, InBody, AlarmWork
  <1>10. CASE Kill
    BY <1>10 DEF Kill, stored, keys, client, To, AlarmWork
  <1>11. CASE ExpireRunning
    BY <1>11 DEF ExpireRunning, stored, redis, client, env, AlarmWork
  <1>12. CASE ExpireEntry
    BY <1>12 DEF ExpireEntry, stored, keys, client, AlarmWork, Quiet, NoEntry
  <1>13. CASE Poll
    BY <1>13 DEF Poll, Ask, stored, keys, redis
  <1>14. CASE OpenPage
    BY <1>14 DEF OpenPage, Ask, stored, keys, redis
  <1>15. CASE Query
    BY <1>15
  <1>16. CASE Leave
    BY <1>16, LeaveIs DEF client, redis, AlarmWork
  <1> QED BY <1>1, <1>2, <1>3, <1>4, <1>5, <1>6, <1>7, <1>8, <1>9, <1>10, <1>11, <1>12,
         <1>13, <1>14, <1>15, <1>16 DEF Step

\* When an instant query would say that a request has failed or that there is none.
AlarmNow ==
    /\ ~report /\ job.status \in Refused /\ ~(Waiting /\ running) => Now("status") = "failed"
    /\ ~report /\ ~session.hasReport /\ ~running /\ session.phase = "pipeline" =>
          Now("status") = "failed"
    /\ ~report /\ session.phase = "pipeline" /\ running /\ job.status # "queued" /\ ~Quiet(cache) =>
          Now("status") = "failed"
    /\ ~report /\ ~session.hasReport /\ ~running /\ job.status \notin Refused
          /\ job.status # "succeeded" /\ session.phase = "none" => Now("status") = "not_found"
    /\ ~Quiet(Seen) /\ Seen.stage = "execution" => Now("adopt") = "failed"
    /\ ~Quiet(Seen) /\ Seen.stage = "effect_track" /\ ~reviewed => Now("review") = "failed"

LEMMA NowIs ==
    /\ Now("status") = StatusNow
    /\ Now("adopt") = AdoptAnswer(session, Seen, running)
    /\ Now("review") = ReviewAnswer(session, Seen, running, reviewed, scheduled)
  <1>1. Now("status") = StatusNow
    BY Zenon DEF Now
  <1>2. Now("adopt") = AdoptAnswer(session, Seen, running)
    BY Zenon DEF Now
  <1>3. Now("review") = ReviewAnswer(session, Seen, running, reviewed, scheduled)
    BY Zenon DEF Now
  <1> QED BY <1>1, <1>2, <1>3

LEMMA AlarmIsNow == AlarmNow
  <1>1. ~report /\ job.status \in Refused /\ ~(Waiting /\ running) => StatusNow = "failed"
    BY DEF StatusNow, Waiting, Refused
  <1>2. ~report /\ ~session.hasReport /\ ~running /\ session.phase = "pipeline" =>
           StatusNow = "failed"
    BY DEF StatusNow, Unreported, NextNodes
  <1>3. ~report /\ session.phase = "pipeline" /\ running /\ job.status # "queued" /\ ~Quiet(cache) =>
           StatusNow = "failed"
    <2>1. ~Quiet(cache) => Seen = cache /\ ByEntry(Seen) = "failed"
      BY DEF Quiet, Seen, ByEntry, NoEntry
    <2> QED BY <2>1 DEF StatusNow
  <1>4. ~report /\ ~session.hasReport /\ ~running /\ job.status \notin Refused
           /\ job.status # "succeeded" /\ session.phase = "none" => StatusNow = "not_found"
    BY DEF StatusNow, Unreported, NextNodes, Refused
  <1>5. ~Quiet(Seen) /\ Seen.stage = "execution" => AdoptAnswer(session, Seen, running) = "failed"
    BY DEF AdoptAnswer, Quiet
  <1>6. ~Quiet(Seen) /\ Seen.stage = "effect_track" /\ ~reviewed =>
           ReviewAnswer(session, Seen, running, reviewed, scheduled) = "failed"
    BY DEF ReviewAnswer, Quiet
  <1> QED BY <1>1, <1>2, <1>3, <1>4, <1>5, <1>6, NowIs DEF AlarmNow

LEMMA AlarmIsNowNext == AlarmNow'
  BY AlarmIsNow, PTL

\* What could have been said so far.
Recorded == could' = IF query'.kind \in Polls THEN could \cup {Now(query.kind)'} ELSE {}

LEMMA RecordedIs ==
    ASSUME Recorded, query'.kind = query.kind
    PROVE  /\ query.kind \in Polls => could \subseteq could' /\ Now(query.kind)' \in could'
           /\ \A k \in Polls : query.kind = k => Now(k)' \in could'
  BY DEF Recorded

\* The other steps leave a query what it relies on.
LEMMA OthersKeepAlarm ==
    ASSUME CoreType, CoreType', AlarmWork, AlarmWork', AlarmRedis, AlarmRedis', AlarmQuery,
           Follows, Recorded, UNCHANGED <<query, told>>
    PROVE  AlarmQuery'
  <1>1. (Beginning => Quiet(local))'
    BY DEF Follows, AlarmQuery
  <1>2. query'.kind \in Polls => Now(query.kind)' \in could' /\ wait' = query'.kind /\ could \subseteq could'
    BY RecordedIs DEF AlarmQuery, Follows
  <1>3. ASSUME query.kind = "status"
        PROVE  /\ query.pc = "state" \/ (query.pc = "job" /\ ~query.saw.running) => ~running'
               /\ query.pc \in {"wait", "alive"} => report' \/ ~running'
               /\ query.pc = "cache" => report'
               /\ query.pc = "state" /\ session'.phase = "none" => "not_found" \in could'
               /\ /\ Looking \/ (query.pc = "job" /\ query.saw.running)
                  /\ ~running' /\ work'.pc \in CreatedPC
                  => Alarmed'
               /\ query.pc = "job" /\ query.saw.running /\ ~Quiet(cache') =>
                     Alarmed' \/ report' \/ job'.status = "queued"
               /\ Looking /\ ~Quiet(cache') => Alarmed' \/ report' \/ query.saw.job = "queued"
               /\ Looking /\ job'.status = "queued" => query.saw.job = "queued"
               /\ Looking /\ query.saw.job \in Refused =>
                     \/ Alarmed' \/ (report' /\ job'.status \in Refused)
                     \/ session'.phase = "waiting_adoption" /\ query.pc \in {"early", "early2"}
    <2>1. /\ wait = "status" /\ wait' = "status" /\ could \subseteq could' /\ Now("status")' \in could'
          /\ Alarmed => Alarmed'
      BY <1>2, <1>3, RecordedIs DEF AlarmQuery, Polls, Follows, Alarmed
    <2>2. Now("status")' = "failed" => Alarmed'
      BY <2>1 DEF Alarmed
    <2>3. /\ query.pc = "state" \/ (query.pc = "job" /\ ~query.saw.running) => ~running'
          /\ query.pc \in {"wait", "alive"} => report' \/ ~running'
          /\ query.pc = "cache" => report'
          /\ query.pc = "state" /\ session'.phase = "none" => "not_found" \in could'
          /\ Looking /\ job'.status = "queued" => query.saw.job = "queued"
      BY <1>3, <2>1 DEF AlarmQuery, Follows
    <2>4. ASSUME Looking \/ (query.pc = "job" /\ query.saw.running), ~running', work'.pc \in CreatedPC
          PROVE  Alarmed'
      BY <1>3, <2>1, <2>2, <2>4, AlarmIsNowNext DEF AlarmQuery, Follows, AlarmNow
    <2>5. ASSUME Looking \/ (query.pc = "job" /\ query.saw.running), ~Quiet(cache'), ~report',
                 ~Alarmed'
          PROVE  job'.status = "queued" \/ (Looking /\ query.saw.job = "queued")
      <3>1. session'.phase = "pipeline" /\ ~report
        BY <2>1, <2>5 DEF AlarmRedis, AlarmWork, Beginning, Follows
      <3>2. CASE ~Quiet(cache)
        <4>1. job.status = "queued" \/ (Looking /\ query.saw.job = "queued")
          BY <1>3, <2>1, <2>5, <3>1, <3>2 DEF AlarmQuery
        <4>2. CASE Looking /\ query.saw.job = "queued"
          BY <4>2
        <4>3. CASE job.status = "queued" /\ ~Looking
          <5>1. job'.status \in Refused \cup {"queued"}
            BY <2>1, <3>2, <4>3 DEF Follows
          <5>2. CASE job'.status \in Refused
            BY <2>2, <2>5, <3>1, <5>2, AlarmIsNowNext DEF AlarmNow, Waiting, Refused
          <5> QED BY <5>1, <5>2
        <4> QED BY <1>3, <4>1, <4>2, <4>3 DEF AlarmQuery
      <3>3. CASE Quiet(cache)
        <4>1. work.pc = "failed" /\ UNCHANGED <<report, session, job, running, work>>
          BY <2>1, <2>5, <3>3 DEF Follows
        <4>2. running'
          BY <2>4, <2>5, <4>1 DEF CreatedPC
        <4> QED BY <2>2, <2>5, <3>1, <4>2, AlarmIsNowNext DEF AlarmNow
      <3> QED BY <3>2, <3>3
    <2>6. ASSUME Looking, query.saw.job \in Refused
          PROVE  \/ Alarmed' \/ (report' /\ job'.status \in Refused)
                 \/ session'.phase = "waiting_adoption" /\ query.pc \in {"early", "early2"}
      BY <1>3, <2>1, <2>6 DEF AlarmQuery, Follows
    <2> QED BY <1>3, <2>3, <2>4, <2>5, <2>6 DEF AlarmQuery, Looking
  <1>4. (query.kind = "adopt" /\ query.pc = "key" /\ ~Quiet(query.saw.cache)
            /\ query.saw.cache.stage = "execution" => Alarmed)'
    BY <1>2 DEF AlarmQuery, Alarmed, Polls
  <1>5. (query.kind = "review" /\ ~Quiet(query.saw.cache) /\ query.saw.cache.stage = "effect_track" =>
            /\ query.pc \in {"key", "reviewed"} => Alarmed \/ reviewed
            /\ query.pc = "scheduled" => Alarmed \/ query.saw.reviewed)'
    BY <1>2 DEF AlarmQuery, Alarmed, Polls, Follows
  <1>6. told'.true
    BY DEF AlarmQuery
  <1> QED BY <1>1, <1>2, <1>3, <1>4, <1>5, <1>6 DEF AlarmQuery, Looking, Waiting

\* An alarm is justified while the query that gives it still runs.
Justified(a) ==
    query.kind \in Polls /\ a \in {"failed", "not_found"} => a \in could \/ CutShort(a)

LEMMA AlarmAnswer ==
    ASSUME CoreType, NEW a \in Answers, Answer(a), Justified(a), Beginning' => Quiet(local')
    PROVE  AlarmQuery'
  <1>1. query' = NoQuery
    BY AnswerType
  <1>2. query'.kind \notin Polls \cup {"status", "adopt", "review"}
    BY <1>1 DEF NoQuery, Polls
  <1>3. told'.true
    BY DEF Answer, Justified
  <1> QED BY <1>2, <1>3 DEF AlarmQuery

\* Only the client that waits for a diagnosis polls it, and stops when it has failed.
LEMMA AlarmLocal ==
    ASSUME CoreType, AlarmQuery, NEW a \in Answers, Answer(a)
    PROVE  /\ Beginning' => Beginning
           /\ query.kind \in Polls /\ a = "failed" => ~Beginning'
           /\ query.kind \in {"adopt", "review"} => ~Beginning'
  <1>1. wait' = After(a) /\ After(a) \in Wait
    BY AfterIs DEF Answer
  <1>2. After(a) = wait \/ (wait \in Polls /\ After(a) \in {"adopting", "reviewing", "over"})
    BY AfterIs
  <1>3. ASSUME query.kind \in Polls, a = "failed" PROVE After(a) \in {"adopting", "reviewing", "over"}
    <2>1. After(a) = CASE wait = "status" -> "adopting"
                       [] wait = "adopt" -> "reviewing"
                       [] wait = "review" -> "over"
      BY <1>3 DEF After, Final, AlarmQuery
    <2>2. wait \in {"status", "adopt", "review"}
      BY <1>3 DEF AlarmQuery, Polls
    <2> QED BY <2>1, <2>2, Zenon
  <1>4. query.kind \in {"adopt", "review"} => wait \in {"adopt", "review"}
    BY DEF AlarmQuery, Polls
  <1> QED BY <1>1, <1>2, <1>3, <1>4 DEF Beginning

LEMMA AlarmAsk ==
    ASSUME CoreType, AlarmQuery, Poll \/ OpenPage, Recorded PROVE AlarmQuery'
  <1>1. PICK k \in Polls \cup Pages : Ask(k) /\ (k \in Polls => wait = k)
    BY DEF Poll, OpenPage, Polls, Pages
  <1>2. /\ query'.kind = k /\ query'.pc = Asks(k) /\ query'.saw = NoView
        /\ told' = NoAnswer /\ UNCHANGED <<wait, local>>
    BY <1>1, AskType DEF Ask
  <1>3. Asks(k) \in {"report", "row", "rows", "values"}
    BY AsksIs DEF Polls, Pages
  <1>4. query'.kind \in Polls => Now(query.kind)' \in could'
    BY DEF Recorded
  <1> QED BY <1>1, <1>2, <1>3, <1>4 DEF AlarmQuery, Beginning, Looking, NoAnswer, NoView, NoEntry, Quiet

\* The next read of a status query or of a page.
LEMMA AlarmThen ==
    ASSUME CoreType, AlarmQuery, NEW pc \in QueryPC, Then(pc), Recorded,
           UNCHANGED <<report, session, job, running, cache, reviewed, work, local>>,
           pc \notin {"job", "key", "reviewed", "scheduled", "early"},
           query.kind = "status" =>
              /\ pc = "state" => ~running /\ (session.phase = "none" => "not_found" \in could)
              /\ pc \in {"wait", "alive"} => report \/ ~running
              /\ pc = "cache" => report
              /\ pc \in {"early2", "decide"} =>
                    query.pc \in {"early", "early2"} /\ (pc = "decide" => ~Waiting)
    PROVE  AlarmQuery'
  <1>1. /\ query'.pc = pc /\ query'.kind = query.kind /\ query'.saw = query.saw
        /\ UNCHANGED <<wait, told>>
    BY ThenType
  <1>2. query.kind \in Polls =>
           could \subseteq could' /\ Now(query.kind)' \in could' /\ wait = query.kind
    BY <1>1, RecordedIs DEF AlarmQuery
  <1>3. ASSUME query.kind = "status", pc \in {"early2", "decide"}
        PROVE  /\ ~running /\ work.pc \in CreatedPC => Alarmed'
               /\ ~Quiet(cache) => Alarmed' \/ report \/ query.saw.job = "queued"
               /\ job.status = "queued" => query.saw.job = "queued"
               /\ query.saw.job \in Refused =>
                     \/ Alarmed' \/ (report /\ job.status \in Refused)
                     \/ Waiting /\ pc \in {"early", "early2"}
    BY <1>2, <1>3 DEF AlarmQuery, Looking, Alarmed, Polls
  <1>4. ASSUME query.kind = "status", pc = "state"
        PROVE  ~running /\ (session.phase = "none" => "not_found" \in could')
    BY <1>2, <1>4 DEF Polls
  <1> QED BY <1>1, <1>2, <1>3, <1>4 DEF AlarmQuery, Looking, Beginning, Quiet, Waiting, Alarmed

\* A query of another kind keeps what it reads.
LEMMA AlarmKeeps ==
    ASSUME CoreType, AlarmQuery, NEW pc \in QueryPC, NEW field, NEW value,
           Keeps(pc, field, value), Recorded, query.kind # "status", UNCHANGED reviewed,
           \/ field = "session" /\ value \in SessionType
           \/ field = "running" /\ value \in BOOLEAN
           \/ field = "reviewed" /\ value \in BOOLEAN
           \/ field = "cache" /\ value \in Entry \cup {NoEntry},
           Beginning => Quiet(local'),
           LET entry == IF field = "cache" THEN value ELSE query.saw.cache IN
              /\ query.kind = "adopt" /\ pc = "key" /\ ~Quiet(entry) /\ entry.stage = "execution"
                    => "failed" \in could'
              /\ query.kind = "review" /\ ~Quiet(entry) /\ entry.stage = "effect_track" =>
                    /\ pc \in {"key", "reviewed"} => "failed" \in could' \/ reviewed
                    /\ pc = "scheduled" => \/ "failed" \in could'
                                           \/ IF field = "reviewed" THEN value ELSE query.saw.reviewed
    PROVE  AlarmQuery'
  <1>1. /\ query'.pc = pc /\ query'.kind = query.kind /\ UNCHANGED <<wait, told>>
        /\ query'.saw = [query.saw EXCEPT ![field] = value] /\ query.saw \in ViewType
    BY KeepsType DEF CoreType, QueryOK, QueryType
  <1>2. /\ query'.saw.cache = IF field = "cache" THEN value ELSE query.saw.cache
        /\ query'.saw.reviewed = IF field = "reviewed" THEN value ELSE query.saw.reviewed
    BY <1>1 DEF ViewType
  <1>3. query.kind \in Polls =>
           could \subseteq could' /\ Now(query.kind)' \in could' /\ wait = query.kind
    BY <1>1, RecordedIs DEF AlarmQuery
  <1> QED BY <1>1, <1>2, <1>3 DEF AlarmQuery, Beginning, Alarmed, Quiet

LEMMA DecideIs ==
    ASSUME DecideByJob
    PROVE  \/ Answer("running") /\ UNCHANGED local
           \/ query.saw.job \in Refused /\ Answer("failed") /\ UNCHANGED local
           \/ query.saw.job \notin Refused \cup {"queued"} /\ Answer(ByEntry(Seen)) /\ local' = Seen
  <1>1. CASE query.saw.job = "queued"
    BY <1>1, Zenon DEF DecideByJob
  <1>2. CASE query.saw.job # "queued" /\ query.saw.job \in {"failed", "cancelled"}
    BY <1>2, Zenon DEF DecideByJob, Refused
  <1>3. CASE query.saw.job # "queued" /\ query.saw.job \notin {"failed", "cancelled"}
    <2>1. Answer(ByEntry(Seen)) /\ local' = Seen
      BY <1>3, Zenon DEF DecideByJob
    <2> QED BY <1>3, <2>1 DEF Refused
  <1> QED BY <1>1, <1>2, <1>3

\* An answer "failed" has a reason.
LEMMA AlarmReasons ==
    /\ \A s, e, alive : /\ AdoptAnswer(s, e, alive) # "not_found"
                        /\ AdoptAnswer(s, e, alive) = "failed" => e.stage = "execution" /\ ~Quiet(e)
    /\ \A s, e, alive, done, due :
          /\ ReviewAnswer(s, e, alive, done, due) # "not_found"
          /\ ReviewAnswer(s, e, alive, done, due) = "failed" =>
                e.stage = "effect_track" /\ ~Quiet(e) /\ ~done
  <1>1. \A s, e, alive : /\ AdoptAnswer(s, e, alive) # "not_found"
                         /\ AdoptAnswer(s, e, alive) = "failed" => e.stage = "execution" /\ ~Quiet(e)
    BY DEF AdoptAnswer, Quiet
  <1>2. \A s, e, alive, done, due :
           /\ ReviewAnswer(s, e, alive, done, due) # "not_found"
           /\ ReviewAnswer(s, e, alive, done, due) = "failed" =>
                 e.stage = "effect_track" /\ ~Quiet(e) /\ ~done
    BY DEF ReviewAnswer, Quiet
  <1> QED BY <1>1, <1>2

\* The steps of a query.
LEMMA AlarmQueryStep ==
    ASSUME CoreType, WorkEvidence, QueryEvidence, AlarmWork, AlarmRedis, AlarmQuery, Query,
           Recorded
    PROVE  AlarmQuery'
  <1>k. query.kind \in Polls \cup Pages \cup {"none"} /\ KindInv /\ query.saw \in ViewType
    BY DEF CoreType, QueryOK, QueryType
  <1>t. /\ Seen \in Entry \cup {NoEntry} /\ session \in SessionType
        /\ job.status \in JobStatus /\ running \in BOOLEAN /\ reviewed \in BOOLEAN
    BY SeenType DEF CoreType, StoredOK, KeysOK
  <1>u. UNCHANGED <<report, session, job, running, cache, reviewed, work>>
    BY QueriesKeepOrder DEF stored, keys, redis
  <1>l. Beginning => Quiet(local)
    BY DEF AlarmQuery
  <1>n. query.kind \in Polls => Now(query.kind) \in could /\ wait = query.kind
    BY DEF AlarmQuery
  \* An answer that is no alarm, from the stores or from the entry.
  <1>a. ASSUME NEW a \in Answers \ {"failed", "not_found"}, Answer(a), UNCHANGED local
        PROVE  AlarmQuery'
    BY <1>a, <1>l, AlarmAnswer, AlarmLocal DEF Justified
  <1>f. ASSUME NEW a \in Answers, Answer(a), UNCHANGED local, Justified(a)
        PROVE  AlarmQuery'
    BY <1>f, <1>l, AlarmAnswer, AlarmLocal
  <1>e. ASSUME query.kind = "status", Answer(ByEntry(Seen)), local' = Seen,
               ~Quiet(Seen) => Justified("failed")
        PROVE  AlarmQuery'
    <2>1. CASE Quiet(Seen)
      <3>1. ByEntry(Seen) = "running"
        BY <2>1, QuietAnswers
      <3> QED BY <1>e, <2>1, <3>1, AlarmAnswer DEF Justified, Answers
    <2>2. CASE ~Quiet(Seen)
      <3>1. ByEntry(Seen) = "failed"
        BY <2>2 DEF Quiet, ByEntry
      <3>2. ~Beginning'
        BY <1>e, <3>1, AlarmLocal DEF Answers, Polls
      <3> QED BY <1>e, <2>2, <3>1, <3>2, AlarmAnswer DEF Answers
    <2> QED BY <2>1, <2>2
  <1>1. CASE ReadReportRow
    <2>1. query.kind = "report" /\ UNCHANGED local /\ (Answer("found") \/ Then("fallback"))
      BY <1>1, <1>k DEF ReadReportRow, Reads, KindInv
    <2> QED BY <2>1, <1>a, <1>u, AlarmThen DEF Answers, QueryPC
  <1>2. CASE ReadReportFallback
    <2>1. UNCHANGED local /\ (Answer("found") \/ Answer("absent"))
      BY <1>2 DEF ReadReportFallback
    <2> QED BY <2>1, <1>a DEF Answers
  <1>3. CASE ReadReport
    <2>1. UNCHANGED local /\ ((report /\ Then("wait")) \/ Then("running"))
      BY <1>3 DEF ReadReport
    <2> QED BY <2>1, <1>u, AlarmThen DEF QueryPC
  <1>4. CASE ReadWaitAdoption
    <2>1. query.pc = "wait" /\ UNCHANGED local /\ (Answer("completed") \/ Then("alive"))
      BY <1>4 DEF ReadWaitAdoption, Reads
    <2>2. query.kind = "status" => report \/ ~running
      BY <2>1 DEF AlarmQuery
    <2> QED BY <2>1, <2>2, <1>a, <1>u, AlarmThen DEF Answers, QueryPC
  <1>5. CASE ReadAlive
    <2>1. query.pc = "alive" /\ UNCHANGED local /\ (Answer("completed") \/ (running /\ Then("cache")))
      BY <1>5 DEF ReadAlive, Reads
    <2>2. query.kind = "status" /\ running => report
      BY <2>1 DEF AlarmQuery
    <2> QED BY <2>1, <2>2, <1>a, <1>u, AlarmThen DEF Answers, QueryPC
  <1>6. CASE ReadCache
    <2>1. query.pc = "cache" /\ query.kind = "status" /\ Answer(ByEntry(Seen)) /\ local' = Seen
      BY <1>6, <1>k DEF ReadCache, Reads, KindInv
    <2>2. report /\ (~Quiet(Seen) => session.phase = "pipeline")
      BY <2>1, <1>n, <1>l DEF AlarmQuery, AlarmRedis, AlarmWork, Beginning, Seen, Polls
    <2> QED BY <2>1, <2>2, <1>e DEF Justified, CutShort
  <1>7. CASE ReadRunning
    <2>1. query.pc = "running" /\ Keeps("job", "running", running) /\ UNCHANGED local
      BY <1>7 DEF ReadRunning, Reads
    <2>2. query.kind = "status"
      BY <2>1, <1>k DEF KindInv
    <2>3. /\ query'.pc = "job" /\ query'.kind = "status" /\ UNCHANGED <<wait, told>>
          /\ query'.saw.running = running
      <3>1. /\ query'.pc = "job" /\ query'.kind = "status" /\ UNCHANGED <<wait, told>>
            /\ query'.saw = [query.saw EXCEPT !["running"] = running]
        BY <2>1, <2>2, <1>t, KeepsType DEF QueryPC
      <3> QED BY <3>1, <1>k DEF ViewType
    <2>4. /\ could \subseteq could' /\ Now("status")' \in could' /\ Now("status") \in could
          /\ wait = "status"
      BY <2>2, <2>3, <1>n, RecordedIs DEF Polls
    <2>5. running /\ ~Quiet(cache) => "failed" \in could \/ report \/ job.status = "queued"
      <3>1. ~Quiet(cache) => session.phase = "pipeline"
        BY <2>4 DEF AlarmRedis, AlarmWork, Beginning
      <3> QED BY <2>4, <3>1, AlarmIsNow DEF AlarmNow
    <2> QED BY <2>1, <2>2, <2>3, <2>4, <2>5, <1>u, <1>l DEF AlarmQuery, Looking, Beginning, Alarmed, Quiet, Polls
  <1>8. CASE ReadJob
    <2>1. query.pc = "job" /\ UNCHANGED local /\ query.kind = "status" /\ wait = "status"
      BY <1>8, <1>k, <1>n DEF ReadJob, Reads, KindInv, Polls
    <2>2. \/ query.saw.running /\ Keeps("early", "job", job.status)
          \/ ~query.saw.running /\ job.status \in Refused /\ Answer("failed")
          \/ /\ ~query.saw.running /\ job.status \notin Refused
             /\ Keeps("state", "job", job.status)
      BY <1>8 DEF ReadJob, Refused
    <2>3. CASE query.saw.running /\ Keeps("early", "job", job.status)
      <3>1. /\ query'.pc = "early" /\ query'.kind = "status" /\ UNCHANGED <<wait, told>>
            /\ query'.saw.job = job.status /\ query'.saw.running = query.saw.running
        <4>1. /\ query'.pc = "early" /\ query'.kind = "status" /\ UNCHANGED <<wait, told>>
              /\ query'.saw = [query.saw EXCEPT !["job"] = job.status]
          BY <2>1, <2>3, <1>t, KeepsType DEF QueryPC
        <4> QED BY <4>1, <1>k DEF ViewType
      <3>2. /\ could \subseteq could' /\ Now("status")' \in could' /\ Now("status") \in could
            /\ wait = "status"
        BY <2>1, <3>1, <1>n, RecordedIs DEF Polls
      <3>3. job.status \in Refused => "failed" \in could \/ report \/ Waiting
        BY <3>2, AlarmIsNow DEF AlarmNow
      <3>4. ~running /\ work.pc \in CreatedPC => "failed" \in could
        BY <2>1, <2>3 DEF AlarmQuery, Alarmed
      <3>5. ~Quiet(cache) => "failed" \in could \/ report \/ job.status = "queued"
        BY <2>1, <2>3 DEF AlarmQuery, Alarmed
      <3> QED BY <2>1, <3>1, <3>2, <3>3, <3>4, <3>5, <1>u, <1>l
              DEF AlarmQuery, Looking, Beginning, Alarmed, Quiet, Polls, Waiting
    <2>4. CASE ~query.saw.running /\ job.status \in Refused /\ Answer("failed")
      <3>1. ~running /\ Now("status") \in could
        BY <2>1, <2>4, <1>n DEF AlarmQuery, Polls
      <3>2. Justified("failed")
        BY <2>1, <2>4, <3>1, AlarmIsNow DEF AlarmNow, Justified, CutShort, Refused
      <3> QED BY <2>1, <2>4, <3>2, <1>f DEF Answers
    <2>5. CASE /\ ~query.saw.running /\ job.status \notin Refused
               /\ Keeps("state", "job", job.status)
      <3>1. ~running /\ Now("status") \in could
        BY <2>1, <2>5, <1>n DEF AlarmQuery, Polls
      <3>2. session.phase = "none" => "not_found" \in could
        <4>1. session.phase = "none" => job.status # "succeeded"
          BY DEF WorkEvidence, AlarmWork
        <4> QED BY <2>5, <3>1, <4>1, AlarmIsNow DEF AlarmNow, AlarmWork
      <3>3. query'.pc = "state" /\ query'.kind = "status" /\ UNCHANGED <<wait, told>>
        BY <2>1, <2>5, <1>t, KeepsType DEF QueryPC
      <3>4. could \subseteq could' /\ Now("status")' \in could'
        BY <2>1, <3>3, RecordedIs DEF Polls
      <3> QED BY <2>1, <3>1, <3>2, <3>3, <3>4, <1>u, <1>l
              DEF AlarmQuery, Looking, Beginning, Quiet, Polls
    <2> QED BY <2>2, <2>3, <2>4, <2>5
  <1>9. CASE ReadEarly
    <2>1. /\ query.pc = "early" /\ UNCHANGED local
          /\ Then("early2") \/ (~Waiting /\ Then("decide"))
      BY <1>9 DEF ReadEarly, Reads
    <2> QED BY <2>1, <1>u, AlarmThen DEF QueryPC
  <1>10. CASE ReadEarlyAgain
    <2>1. /\ query.pc = "early2" /\ UNCHANGED local
          /\ Answer("completed") \/ (~Waiting /\ Then("decide"))
      BY <1>10 DEF ReadEarlyAgain, Reads
    <2> QED BY <2>1, <1>a, <1>u, AlarmThen DEF Answers, QueryPC
  <1>11. CASE DecideByJob
    <2>1. query.pc = "decide" /\ query.kind = "status" /\ Looking /\ wait = "status"
      BY <1>11, <1>k, <1>n, KeyReads DEF Reads, KindInv, Looking, Polls
    <2>2. \/ Answer("running") /\ UNCHANGED local
          \/ query.saw.job \in Refused /\ Answer("failed") /\ UNCHANGED local
          \/ query.saw.job \notin Refused \cup {"queued"} /\ Answer(ByEntry(Seen)) /\ local' = Seen
      BY <1>11, DecideIs
    <2>3. CASE query.saw.job \in Refused /\ Answer("failed") /\ UNCHANGED local
      <3>1. "failed" \in could \/ (report /\ job.status \in Refused)
        BY <2>1, <2>3 DEF AlarmQuery, Alarmed
      <3> QED BY <2>1, <2>3, <3>1, <1>f DEF Justified, CutShort, Refused, Answers
    <2>4. CASE query.saw.job \notin Refused \cup {"queued"} /\ Answer(ByEntry(Seen)) /\ local' = Seen
      <3>1. ~Quiet(Seen) => ~Quiet(cache)
        BY <2>1, <1>l DEF Beginning, Seen
      <3>2. ~Quiet(cache) => session.phase = "pipeline" /\ ("failed" \in could \/ report)
        BY <2>1, <2>4 DEF AlarmQuery, Alarmed, AlarmRedis, AlarmWork, Beginning
      <3> QED BY <2>1, <2>4, <3>1, <3>2, <1>e DEF Justified, CutShort
    <2> QED BY <2>2, <2>3, <2>4, <1>a DEF Answers
  <1>12. CASE ReadState
    <2>1. query.pc = "state" /\ UNCHANGED local /\ query.kind = "status" /\ wait = "status"
      BY <1>12, <1>k, <1>n DEF ReadState, Reads, KindInv, Polls
    <2>2. ~running /\ Now("status") \in could /\ (session.phase = "none" => "not_found" \in could)
      BY <2>1, <1>n DEF AlarmQuery, Polls
    <2>3. CASE session.hasReport
      <3>1. Then("wait")
        BY <1>12, <2>3 DEF ReadState
      <3> QED BY <2>1, <2>2, <3>1, <1>u, AlarmThen DEF QueryPC
    <2>4. CASE ~session.hasReport
      <3>1. session.phase \in {"none", "pipeline"}
        BY <2>1, <2>4 DEF AlarmWork, Beginning
      <3>2. \/ session.phase = "pipeline" /\ Answer("failed")
            \/ session.phase = "none" /\ Answer("not_found")
        <4>1. query.saw.job # "succeeded"
          BY <2>1, <2>4 DEF QueryEvidence
        <4>2. PICK late \in BOOLEAN : Answer(Unreported(query.saw.job, late))
          BY <1>12, <2>4 DEF ReadState
        <4> QED BY <3>1, <4>1, <4>2 DEF Unreported, NextNodes
      <3>3. session.phase = "pipeline" => report \/ "failed" \in could
        BY <2>2, <2>4, AlarmIsNow DEF AlarmNow
      <3> QED BY <2>1, <2>2, <3>2, <3>3, <1>f DEF Justified, CutShort, Answers
    <2> QED BY <2>3, <2>4
  <1>13. CASE ReadValues
    <2>1. /\ query.pc = "values" /\ UNCHANGED local
          /\ \/ Answer("completed") \/ Answer("running")
             \/ query.kind = "progress" /\ Keeps("key", "session", session)
             \/ Keeps("progress", "session", session)
      BY <1>13 DEF ReadValues, Reads
    <2>2. query.kind \in {"adopt", "review", "progress"}
      BY <2>1, <1>k DEF KindInv
    <2> QED BY <2>1, <2>2, <1>a, <1>l, <1>t, <1>u, AlarmKeeps DEF Answers, QueryPC
  <1>14. CASE ReadProgress
    <2>1. /\ query.pc = "progress" /\ Keeps("key", "cache", Seen) /\ local' = Seen
          /\ query.kind \in {"adopt", "review"}
      BY <1>14, <1>k DEF ReadProgress, Reads, KindInv
    <2>2. ~Beginning /\ Now(query.kind) \in could /\ could \subseteq could'
      <3>1. query'.kind = query.kind
        BY <2>1, <1>t, KeepsType DEF QueryPC
      <3> QED BY <2>1, <3>1, <1>n, RecordedIs DEF Polls, Beginning
    <2>3. /\ query.kind = "adopt" /\ ~Quiet(Seen) /\ Seen.stage = "execution" => "failed" \in could'
          /\ query.kind = "review" /\ ~Quiet(Seen) /\ Seen.stage = "effect_track" =>
                "failed" \in could' \/ reviewed
      BY <2>2, AlarmIsNow DEF AlarmNow
    <2> QED BY <2>1, <2>2, <2>3, <1>t, <1>u, AlarmKeeps DEF QueryPC
  <1>15. CASE ReadKey
    <2>1. query.pc = "key" /\ UNCHANGED local
      BY <1>15, KeyReads, Zenon DEF Reads, ReadKey
    <2>2. query.kind \in {"adopt", "review", "progress"}
      BY <2>1, <1>k DEF KindInv
    <2>3. CASE query.kind = "progress" /\ Answer(IF running THEN "running" ELSE "idle")
      BY <2>1, <2>3, <1>a DEF Answers
    <2>4. CASE query.kind = "adopt"
               /\ Answer(AdoptAnswer(query.saw.session, query.saw.cache, running))
      <3> DEFINE a == AdoptAnswer(query.saw.session, query.saw.cache, running)
      <3>1. /\ a \in Answers /\ a # "not_found"
            /\ a = "failed" => query.saw.cache.stage = "execution" /\ ~Quiet(query.saw.cache)
        BY AnswersAre, AlarmReasons
      <3>2. Justified(a)
        BY <2>1, <2>4, <3>1 DEF AlarmQuery, Alarmed, Justified
      <3> HIDE DEF a
      <3> QED BY <2>1, <2>4, <3>1, <3>2, <1>f DEF a
    <2>5. CASE query.kind = "review" /\ Keeps("reviewed", "running", running)
      <3>1. query'.kind = query.kind
        BY <2>5, <1>t, KeepsType DEF QueryPC
      <3>2. could \subseteq could'
        BY <2>5, <3>1, RecordedIs DEF Polls
      <3>3. ~Quiet(query.saw.cache) /\ query.saw.cache.stage = "effect_track" =>
               "failed" \in could' \/ reviewed
        BY <2>1, <2>5, <3>2 DEF AlarmQuery, Alarmed
      <3> QED BY <2>1, <2>5, <3>3, <1>l, <1>t, <1>u, AlarmKeeps DEF QueryPC
    <2> QED BY <1>15, <2>2, <2>3, <2>4, <2>5, ReadKeyIs
  <1>16. CASE ReadReviewed
    <2>1. /\ query.pc = "reviewed" /\ Keeps("scheduled", "reviewed", reviewed) /\ UNCHANGED local
          /\ query.kind = "review"
      BY <1>16, <1>k DEF ReadReviewed, Reads, KindInv
    <2>2. query'.kind = query.kind
      BY <2>1, <1>t, KeepsType DEF QueryPC
    <2>3. could \subseteq could'
      BY <2>1, <2>2, RecordedIs DEF Polls
    <2>4. ~Quiet(query.saw.cache) /\ query.saw.cache.stage = "effect_track" =>
             "failed" \in could' \/ reviewed
      BY <2>1, <2>3 DEF AlarmQuery, Alarmed
    <2> QED BY <2>1, <2>4, <1>l, <1>t, <1>u, AlarmKeeps DEF QueryPC
  <1>17. CASE ReadScheduled
    <2> DEFINE a == ReviewAnswer(query.saw.session, query.saw.cache, query.saw.running,
                                 query.saw.reviewed, scheduled)
    <2>1. Answer(a) /\ UNCHANGED local /\ query.pc = "scheduled" /\ query.kind = "review"
      BY <1>17, <1>k DEF ReadScheduled, Reads, KindInv
    <2>2. /\ a \in Answers /\ a # "not_found"
          /\ a = "failed" => /\ query.saw.cache.stage = "effect_track" /\ ~Quiet(query.saw.cache)
                             /\ ~query.saw.reviewed
      BY AnswersAre, AlarmReasons
    <2>3. Justified(a)
      BY <2>1, <2>2 DEF AlarmQuery, Alarmed, Justified
    <2> HIDE DEF a
    <2> QED BY <2>1, <2>2, <2>3, <1>f
  <1>18. CASE ReadRows
    <2>1. query.kind = "list" /\ UNCHANGED local /\ (Then("item") \/ Then("threads"))
      BY <1>18, <1>k DEF ReadRows, Reads, KindInv
    <2> QED BY <2>1, <1>u, AlarmThen DEF QueryPC
  <1>19. CASE ReadThreads
    <2>1. UNCHANGED local /\ (Answer("running") \/ Answer("absent"))
      BY <1>19 DEF ReadThreads
    <2> QED BY <2>1, <1>a DEF Answers
  <1>20. CASE ReadItem
    <2>1. UNCHANGED local /\ (Answer("running") \/ Answer("completed"))
      BY <1>20 DEF ReadItem
    <2> QED BY <2>1, <1>a DEF Answers
  <1> QED BY <1>1, <1>2, <1>3, <1>4, <1>5, <1>6, <1>7, <1>8, <1>9, <1>10, <1>11, <1>12,
         <1>13, <1>14, <1>15, <1>16, <1>17, <1>18, <1>19, <1>20 DEF Query

AlarmInv == DoneInv /\ AlarmWork /\ AlarmRedis /\ AlarmQuery

LEMMA AlarmInit == Init => AlarmWork /\ AlarmRedis /\ AlarmQuery
  BY DEF Init, AlarmWork, AlarmRedis, AlarmQuery, Quiet, Refused, DiagnosisPC, PipePC, Beginning,
         Looking, NoEntry, NoQuery, NoView, NoAnswer, NoJob, Polls

LEMMA AlarmStep == AlarmInv /\ [Next]_vars => AlarmInv'
  <1> SUFFICES ASSUME AlarmInv, [Next]_vars PROVE AlarmInv'
    OBVIOUS
  <1>1. DoneInv'
    BY DoneStep DEF AlarmInv
  <1>2. CoreType /\ CoreType' /\ OrderInv /\ WorkEvidence /\ QueryEvidence
    BY <1>1 DEF AlarmInv, DoneInv, TypeInv
  <1>3. CASE Next
    <2>1. Step /\ Recorded
      BY <1>3 DEF Next, Recorded
    <2>2. AlarmWork' /\ AlarmRedis'
      BY <1>2, <2>1, AlarmWorkStep, AlarmRedisStep DEF AlarmInv
    <2>3. AlarmQuery'
      <3>1. CASE Query
        BY <1>2, <2>1, <3>1, AlarmQueryStep DEF AlarmInv
      <3>2. CASE Poll \/ OpenPage
        BY <1>2, <2>1, <3>2, AlarmAsk DEF AlarmInv
      <3>3. CASE ~Query /\ UNCHANGED <<query, told>>
        <4>1. Follows
          BY <1>2, <2>1, <3>3, FollowsStep DEF AlarmInv
        <4> QED BY <1>2, <2>1, <2>2, <3>3, <4>1, OthersKeepAlarm DEF AlarmInv
      <3> QED BY <1>2, <2>1, <3>1, <3>2, <3>3, QueryFrame
    <2> QED BY <1>1, <2>2, <2>3 DEF AlarmInv
  <1>4. CASE UNCHANGED vars
    <2>1. /\ UNCHANGED <<report, session, job, running, cancel, cancelling, leaving, work, submit>>
          /\ UNCHANGED <<cache, writes, awaited, query, told, wait, local, reviewed, could>>
          /\ UNCHANGED scheduled
      BY <1>4 DEF vars, core, stored, keys, redis
    <2>2. AlarmWork' /\ AlarmRedis'
      BY <2>1 DEF AlarmInv, AlarmWork, AlarmRedis, Quiet, Refused, Beginning
    <2>3. Now(query.kind)' = Now(query.kind)
      BY <2>1 DEF Now, StatusNow, Unreported, Seen
    <2>4. AlarmQuery'
      BY <2>1, <2>3 DEF AlarmInv, AlarmQuery, Quiet, Refused, Beginning, Looking, Alarmed, Waiting
    <2> QED BY <1>1, <2>2, <2>4 DEF AlarmInv
  <1> QED BY <1>3, <1>4

\* Whoever is told that a diagnosis, an adoption or a review failed, or that there is
\* none, is told what an instant query would have said while this one ran, or the
\* query missed the report of a diagnosis that was cut short.  No mixture of older
\* and newer reads makes up a failure, whatever faults occur and however many.
THEOREM AlarmsAreTrue == Spec => []AlarmWasTrue
  <1>1. Init => AlarmInv
    BY TypeInit, OrderInit, EvidenceInit, AlarmInit DEF DoneInv, AlarmInv
  <1>2. AlarmInv => AlarmWasTrue
    BY DEF AlarmInv, AlarmQuery, AlarmWasTrue
  <1> QED BY <1>1, <1>2, AlarmStep, PTL DEF Spec

-----------------------------------------------------------------------------
(* The promise to a client.  Whatever the tables and the answers are made of, a *)
(* step of the back end or of a query is one of the promise, or none.           *)

\* A plan is executed only where there is a report, a review made only where there
\* is an executed plan.
PromiseInv ==
    /\ work.pc = "execute" => Found
    /\ session.phase \in {"waiting_track", "tracking"} => session.adopted
    /\ work.pc \in {"complete", "learn"} => session.adopted

\* A step makes one of the three at most, and then nothing goes wrong in it.
SameHave == (Found' <=> Found) /\ (session'.adopted <=> session.adopted) /\ (reviewed' <=> reviewed)
MakesOne ==
    \/ SameHave
    \/ /\ mishaps' = mishaps
       /\ \/ Found' /\ (session'.adopted <=> session.adopted) /\ (reviewed' <=> reviewed)
          \/ Found /\ Found' /\ session'.adopted /\ (reviewed' <=> reviewed)
          \/ (Found' <=> Found) /\ session.adopted /\ session'.adopted /\ reviewed'

LEMMA PromiseStep ==
    ASSUME CoreType, OrderInv, WorkEvidence, PromiseInv, Step
    PROVE  PromiseInv' /\ MakesOne
  <1>t. session \in SessionType /\ work \in [kind : Kinds, pc : WorkPC]
    BY DEF CoreType, StoredOK, WorkOK
  <1> USE <1>t DEF SessionType
  <1>1. CASE Start
    BY <1>1 DEF Start, stored, PromiseInv, MakesOne, SameHave, Found, env
  <1>2. CASE Adopt
    BY <1>2 DEF Adopt, stored, PromiseInv, MakesOne, SameHave, Found, env
  <1>3. CASE Review
    BY <1>3 DEF Review, stored, PromiseInv, MakesOne, SameHave, Found, env
  <1>4. CASE Submit
    <2>1. CASE MarkSession
      BY <2>1 DEF MarkSession, PromiseInv, MakesOne, SameHave, Found, env
    <2>2. CASE Enqueue
      BY <2>2, EnqueueIs DEF stored, PromiseInv, MakesOne, SameHave, Found, env
    <2>3. CASE RecordJob
      BY <2>3, RecordJobIs DEF PromiseInv, MakesOne, SameHave, Found, env
    <2>4. CASE RegisterRunning
      BY <2>4 DEF RegisterRunning, stored, PromiseInv, MakesOne, SameHave, Found, env
    <2>5. CASE Seed
      BY <2>5 DEF Seed, stored, PromiseInv, MakesOne, SameHave, Found, env
    <2> QED BY <1>4, <2>1, <2>2, <2>3, <2>4, <2>5 DEF Submit
  <1>5. CASE RequestCancel
    BY <1>5 DEF RequestCancel, stored, PromiseInv, MakesOne, SameHave, Found, env
  <1>6. CASE CancelRows
    BY <1>6 DEF CancelRows, PromiseInv, MakesOne, SameHave, Found, env
  <1>7. CASE Flush
    BY <1>7 DEF Flush, stored, PromiseInv, MakesOne, SameHave, Found, env
  <1>8. CASE Worker
    <2>1. CASE TakeJob
      <3>1. work'.pc \in {"clear", "begin", "track"} /\ UNCHANGED <<report, session, reviewed>>
        BY <2>1, TakeJobIs DEF To, Marked
      <3> QED BY <3>1 DEF PromiseInv, MakesOne, SameHave, Found, env
    <2>2. CASE ClearRun
      BY <2>2 DEF ClearRun, stored, Goes, At, To, PromiseInv, MakesOne, SameHave, Found, env
    <2>3. CASE CreateSession
      BY <2>3 DEF CreateSession, SetSession, Goes, At, To, NoView, OrderInv, Early, Untouched, PromiseInv, MakesOne, SameHave, Found, env
    <2>4. CASE CheckCancel
      BY <2>4 DEF CheckCancel, stored, Goes, At, To, PromiseInv, MakesOne, SameHave, Found, env
    <2>5. CASE Collect
      BY <2>5 DEF Collect, stored, Goes, At, To, PromiseInv, MakesOne, SameHave, Found, env
    <2>6. CASE SaveReport
      BY <2>6 DEF SaveReport, At, To, PromiseInv, MakesOne, SameHave, Found, env
    <2>7. CASE KeepReport
      BY <2>7 DEF KeepReport, SetSession, Goes, At, To, PromiseInv, MakesOne, SameHave, Found, env
    <2>8. CASE Generate
      BY <2>8 DEF Generate, stored, Goes, At, To, PromiseInv, MakesOne, SameHave, Found, env
    <2>9. CASE FinishPipeline
      BY <2>9 DEF FinishPipeline, SetSession, Goes, At, To, PromiseInv, MakesOne, SameHave, Found, env
    <2>10. CASE FailPhase
      BY <2>10 DEF FailPhase, stored, To, PromiseInv, MakesOne, SameHave, Found, env
    <2>11. CASE BeginAdoption
      BY <2>11 DEF BeginAdoption, stored, Goes, At, To, PromiseInv, MakesOne, SameHave, Found, env
    <2>12. CASE ResumeAdoption
      <3>1. /\ work.pc = "resume" /\ session.phase = "waiting_adoption"
            /\ UNCHANGED reviewed
        BY <2>12 DEF ResumeAdoption, Goes, At, OrderInv, Adopting, SetSession, stored
      <3>3. session.hasReport /\ report' = report
        BY <2>12, <3>1 DEF WorkEvidence, ResumeAdoption, SetSession, stored
      <3>2. work'.pc = "execute" /\ session' = [session EXCEPT !.phase = "executing"]
        BY <2>12, <3>1 DEF ResumeAdoption, Goes, To, SetSession
      <3> QED BY <3>1, <3>2, <3>3 DEF PromiseInv, MakesOne, SameHave, Found, env
    <2>13. CASE Execute
      BY <2>13 DEF Execute, At, To, PromiseInv, MakesOne, SameHave, Found, env
    <2>14. CASE TellOutcome
      BY <2>14 DEF TellOutcome, stored, Goes, At, To, PromiseInv, MakesOne, SameHave, Found, env
    <2>15. CASE EnterTracking
      BY <2>15 DEF EnterTracking, stored, SetSession, Goes, At, To, PromiseInv, MakesOne, SameHave, Found, env
    <2>16. CASE CompleteTracking
      BY <2>16 DEF CompleteTracking, At, To, PromiseInv, MakesOne, SameHave, Found, env
    <2>17. CASE StoreReview
      BY <2>17 DEF StoreReview, At, To, PromiseInv, MakesOne, SameHave, Found, env
    <2>18. CASE TellReviewed
      BY <2>18 DEF TellReviewed, stored, Goes, At, To, PromiseInv, MakesOne, SameHave, Found, env
    <2>19. CASE CloseSession
      BY <2>19 DEF CloseSession, SetSession, Goes, At, To, PromiseInv, MakesOne, SameHave, Found, env
    <2>20. CASE MarkDone
      BY <2>20 DEF MarkDone, Marked, Goes, At, To, PromiseInv, MakesOne, SameHave, Found, env
    <2>21. CASE MarkStopped
      BY <2>21 DEF MarkStopped, Marked, Goes, At, To, PromiseInv, MakesOne, SameHave, Found, env
    <2>22. CASE MarkFailed
      BY <2>22 DEF MarkFailed, Marked, Goes, At, To, PromiseInv, MakesOne, SameHave, Found, env
    <2>23. CASE Unregister
      BY <2>23 DEF Unregister, stored, Goes, At, To, PromiseInv, MakesOne, SameHave, Found, env
    <2> QED BY <1>8, <2>1, <2>2, <2>3, <2>4, <2>5, <2>6, <2>7, <2>8, <2>9, <2>10,
           <2>11, <2>12, <2>13, <2>14, <2>15, <2>16, <2>17, <2>18, <2>19, <2>20,
           <2>21, <2>22, <2>23 DEF Worker
  <1>9. CASE Interrupt
    BY <1>9 DEF Interrupt, stored, To, InBody, PromiseInv, MakesOne, SameHave, Found, env
  <1>10. CASE Kill
    BY <1>10 DEF Kill, stored, To, PromiseInv, MakesOne, SameHave, Found, env
  <1>11. CASE ExpireRunning
    BY <1>11 DEF ExpireRunning, stored, PromiseInv, MakesOne, SameHave, Found, env
  <1>12. CASE ExpireEntry
    BY <1>12 DEF ExpireEntry, stored, PromiseInv, MakesOne, SameHave, Found, env
  <1>13. CASE Poll
    BY <1>13 DEF Poll, Ask, stored, PromiseInv, MakesOne, SameHave, Found, env
  <1>14. CASE OpenPage
    BY <1>14 DEF OpenPage, Ask, stored, PromiseInv, MakesOne, SameHave, Found, env
  <1>15. CASE Query
    BY <1>15, QueriesKeepOrder DEF stored, PromiseInv, MakesOne, SameHave, Found, env
  <1>16. CASE Leave
    BY <1>16, LeaveIs DEF PromiseInv, MakesOne, SameHave, Found, env
  <1> QED BY <1>1, <1>2, <1>3, <1>4, <1>5, <1>6, <1>7, <1>8, <1>9, <1>10, <1>11, <1>12,
         <1>13, <1>14, <1>15, <1>16 DEF Step


\* What a step of a query tells: nothing yet, or one answer.
Tells ==
    \/ UNCHANGED told /\ query'.kind = query.kind /\ query'.pc # "none"
    \/ \E a \in Answers : /\ query.kind # "none" /\ Answer(a)
                          /\ a = "found" => query.kind = "report" /\ Found

LEMMA Says ==
    ASSUME NEW a \in Answers, query.kind # "none", Answer(a),
           a = "found" => query.kind = "report" /\ Found
    PROVE  Tells
  BY DEF Tells

LEMMA GoesOn ==
    ASSUME CoreType PROVE /\ \A pc : Then(pc) /\ pc # "none" => Tells
                          /\ \A pc, field, value :
                                Keeps(pc, field, value) /\ pc # "none" => Tells
  <1>1. ASSUME NEW pc, Then(pc), pc # "none" PROVE Tells
    BY <1>1 DEF CoreType, QueryOK, QueryType, Then, Tells
  <1>2. ASSUME NEW pc, NEW field, NEW value, Keeps(pc, field, value), pc # "none"
        PROVE  Tells
    BY <1>2 DEF CoreType, QueryOK, QueryType, Keeps, Tells
  <1> QED BY <1>1, <1>2

LEMMA QueryTells == ASSUME CoreType, Query PROVE Tells
  <1>k. KindInv
    BY DEF CoreType, QueryOK
  <1>1. CASE ReadReportRow
    <2>1. query.pc = "row" /\ ((report /\ Answer("found")) \/ Then("fallback"))
      BY <1>1 DEF ReadReportRow, Reads
    <2> QED BY <2>1, <1>k, Says, GoesOn DEF KindInv, Found, Answers
  <1>2. CASE ReadReportFallback
    <2>1. query.pc = "fallback" /\ ((session.hasReport /\ Answer("found")) \/ Answer("absent"))
      BY <1>2 DEF ReadReportFallback, Reads
    <2> QED BY <2>1, <1>k, Says, GoesOn DEF KindInv, Found, Answers
  <1>3. CASE ReadReport
    <2>1. query.pc = "report" /\ (Then("wait") \/ Then("running"))
      BY <1>3 DEF ReadReport, Reads
    <2> QED BY <2>1, <1>k, Says, GoesOn DEF KindInv, Found, Answers
  <1>4. CASE ReadWaitAdoption
    <2>1. query.pc = "wait" /\ (Answer("completed") \/ Then("alive"))
      BY <1>4 DEF ReadWaitAdoption, Reads
    <2> QED BY <2>1, <1>k, Says, GoesOn DEF KindInv, Found, Answers
  <1>5. CASE ReadAlive
    <2>1. query.pc = "alive" /\ (Answer("completed") \/ Then("cache"))
      BY <1>5 DEF ReadAlive, Reads
    <2> QED BY <2>1, <1>k, Says, GoesOn DEF KindInv, Found, Answers
  <1>6. CASE ReadCache
    <2>1. query.pc = "cache" /\ (Answer("failed") \/ Answer("running"))
      BY <1>6 DEF ReadCache, Reads, ByEntry
    <2> QED BY <2>1, <1>k, Says, GoesOn DEF KindInv, Found, Answers
  <1>7. CASE ReadRunning
    <2>1. query.pc = "running" /\ (Keeps("job", "running", running))
      BY <1>7 DEF ReadRunning, Reads
    <2> QED BY <2>1, <1>k, Says, GoesOn DEF KindInv, Found, Answers
  <1>8. CASE ReadJob
    <2>1. /\ query.pc = "job"
          /\ \/ Keeps("early", "job", job.status) \/ Answer("failed")
             \/ Keeps("state", "job", job.status)
      BY <1>8 DEF ReadJob, Reads
    <2> QED BY <2>1, <1>k, Says, GoesOn DEF KindInv, Found, Answers
  <1>9. CASE ReadEarly
    <2>1. query.pc = "early" /\ (Then("early2") \/ Then("decide"))
      BY <1>9 DEF ReadEarly, Reads
    <2> QED BY <2>1, <1>k, Says, GoesOn DEF KindInv, Found, Answers
  <1>10. CASE ReadEarlyAgain
    <2>1. query.pc = "early2" /\ (Answer("completed") \/ Then("decide"))
      BY <1>10 DEF ReadEarlyAgain, Reads
    <2> QED BY <2>1, <1>k, Says, GoesOn DEF KindInv, Found, Answers
  <1>11. CASE DecideByJob
    <2>1. query.pc = "decide" /\ (Answer("running") \/ Answer("failed") \/ Answer(ByEntry(Seen)))
      BY <1>11, KeyReads, DecideByJobIs DEF Reads
    <2>2. ByEntry(Seen) \in {"failed", "running"}
      BY DEF ByEntry
    <2> QED BY <2>1, <2>2, <1>k, Says DEF KindInv, Answers
  <1>12. CASE ReadState
    <2>1. /\ query.pc = "state"
          /\ Answer("failed") \/ Answer("not_found") \/ Answer("running") \/ Then("wait")
      BY <1>12, UnreportedIs DEF ReadState, Reads
    <2> QED BY <2>1, <1>k, Says, GoesOn DEF KindInv, Found, Answers
  <1>13. CASE ReadValues
    <2>1. query.pc = "values" /\ (\/ Answer("completed") \/ Answer("running")
                             \/ Keeps("key", "session", session) \/ Keeps("progress", "session", session))
      BY <1>13 DEF ReadValues, Reads
    <2> QED BY <2>1, <1>k, Says, GoesOn DEF KindInv, Found, Answers
  <1>14. CASE ReadProgress
    <2>1. query.pc = "progress" /\ (Keeps("key", "cache", Seen))
      BY <1>14 DEF ReadProgress, Reads
    <2> QED BY <2>1, <1>k, Says, GoesOn DEF KindInv, Found, Answers
  <1>15. CASE ReadKey
    <2>1. query.pc = "key" /\ query.kind \in {"adopt", "review", "progress"}
      BY <1>15, <1>k, KeyReads DEF Reads, KindInv
    <2>2. \/ Answer(IF running THEN "running" ELSE "idle")
          \/ Answer(AdoptAnswer(query.saw.session, query.saw.cache, running))
          \/ Keeps("reviewed", "running", running)
      BY <1>15, <2>1, ReadKeyIs
    <2>3. \A s, e, alive : AdoptAnswer(s, e, alive) \in Answers \ {"found"}
      BY DEF AdoptAnswer, Answers
    <2>4. (IF running THEN "running" ELSE "idle") \in Answers \ {"found"}
      BY DEF Answers
    <2> QED BY <2>1, <2>2, <2>3, <2>4, Says, GoesOn
  <1>16. CASE ReadReviewed
    <2>1. query.pc = "reviewed" /\ (Keeps("scheduled", "reviewed", reviewed))
      BY <1>16 DEF ReadReviewed, Reads
    <2> QED BY <2>1, <1>k, Says, GoesOn DEF KindInv, Found, Answers
  <1>17. CASE ReadScheduled
    <2>1. /\ query.pc = "scheduled"
          /\ Answer(ReviewAnswer(query.saw.session, query.saw.cache, query.saw.running,
                                 query.saw.reviewed, scheduled))
      BY <1>17 DEF ReadScheduled, Reads
    <2>2. \A s, e, alive, done, due : ReviewAnswer(s, e, alive, done, due) \in Answers \ {"found"}
      BY DEF ReviewAnswer, Answers
    <2> QED BY <2>1, <2>2, <1>k, Says DEF KindInv
  <1>18. CASE ReadRows
    <2>1. query.pc = "rows" /\ (Then("item") \/ Then("threads"))
      BY <1>18 DEF ReadRows, Reads
    <2> QED BY <2>1, <1>k, Says, GoesOn DEF KindInv, Found, Answers
  <1>19. CASE ReadThreads
    <2>1. query.pc = "threads" /\ (Answer("running") \/ Answer("absent"))
      BY <1>19 DEF ReadThreads, Reads
    <2> QED BY <2>1, <1>k, Says, GoesOn DEF KindInv, Found, Answers
  <1>20. CASE ReadItem
    <2>1. query.pc = "item" /\ (Answer("running") \/ Answer("completed"))
      BY <1>20 DEF ReadItem, Reads
    <2> QED BY <2>1, <1>k, Says, GoesOn DEF KindInv, Found, Answers
  <1> QED BY <1>1, <1>2, <1>3, <1>4, <1>5, <1>6, <1>7, <1>8, <1>9, <1>10, <1>11, <1>12, <1>13,
         <1>14, <1>15, <1>16, <1>17, <1>18, <1>19, <1>20 DEF Query

\* Between queries no kind is asked.
IdleInv == query.pc = "none" => query.kind = "none"

LEMMA IdleStep == ASSUME CoreType, IdleInv, Step PROVE IdleInv'
  <1>1. CASE Query
    BY <1>1, QueryTells DEF Tells, Answer, NoQuery, IdleInv
  <1>2. CASE Poll \/ OpenPage
    <2>1. PICK k : Ask(k)
      BY <1>2 DEF Poll, OpenPage
    <2>2. query'.pc = Asks(k) /\ Asks(k) # "none"
      BY <2>1 DEF Ask, Asks
    <2> QED BY <2>2 DEF IdleInv
  <1>3. CASE UNCHANGED query
    BY <1>3 DEF IdleInv
  <1> QED BY <1>1, <1>2, <1>3, QueryFrame

LEMMA HaveIs ==
    /\ Have \subseteq {"report", "plan", "review"}
    /\ "report" \in Have <=> Found
    /\ "plan" \in Have <=> session.adopted
    /\ "review" \in Have <=> reviewed
  BY DEF Have, Found

LEMMA HaveIsNext ==
    /\ Have' \subseteq {"report", "plan", "review"}
    /\ "report" \in Have' <=> Found'
    /\ "plan" \in Have' <=> session'.adopted
    /\ "review" \in Have' <=> reviewed'
  BY DEF Have, Found

\* The back end makes one of the three in their order, or something goes wrong, or
\* neither.
LEMMA MakesMaps ==
    ASSUME CoreType, MakesOne, Keep, UNCHANGED <<query, told>>,
           mishaps' = mishaps \/ mishaps' = mishaps + 1
    PROVE  Promise!Next \/ UNCHANGED Promise!promise
  <1> USE DEF Promise!promise
  <1>1. mishaps \in Nat
    BY QueriesAssumption DEF CoreType, EnvOK
  <1>2. ASSUME NEW x \in {"report", "plan", "review"}, x \notin Have, Have' = Have \cup {x},
               x = "plan" => "report" \in Have, x = "review" => "plan" \in Have, mishaps' = mishaps
        PROVE  Promise!Next
    <2>1. Promise!Make(x)
      BY <1>2 DEF Promise!Make, Promise!Basis
    <2> QED BY <2>1 DEF Promise!Next, Promise!Basis
  <1>3. ASSUME Have' = Have PROVE Promise!Next \/ UNCHANGED Promise!promise
    <2>1. CASE mishaps' = mishaps
      BY <1>3, <2>1
    <2>2. CASE mishaps' = mishaps + 1
      <3>1. (mishaps > 0)' = TRUE
        BY <1>1, <2>2
      <3> QED BY <1>3, <3>1 DEF Promise!Next, Promise!GoWrong
    <2> QED BY <2>1, <2>2
  <1>4. CASE SameHave
    <2>1. \A x \in {"report", "plan", "review"} : x \in Have' <=> x \in Have
      BY <1>4, HaveIs, HaveIsNext DEF SameHave
    <2>2. Have' = Have
      <3>1. Have' \subseteq Have /\ Have \subseteq Have'
        BY <2>1, HaveIs, HaveIsNext
      <3> QED BY <3>1
    <2> QED BY <1>3, <2>2
  <1>5. CASE mishaps' = mishaps /\ Found' /\ (session'.adopted <=> session.adopted)
             /\ (reviewed' <=> reviewed) /\ ~SameHave
    <2>1. "report" \notin Have /\ Have' = Have \cup {"report"}
      BY <1>5, HaveIs, HaveIsNext DEF SameHave
    <2> QED BY <1>2, <1>5, <2>1
  <1>6. CASE mishaps' = mishaps /\ Found /\ Found' /\ session'.adopted
             /\ (reviewed' <=> reviewed) /\ ~SameHave
    <2>1. "plan" \notin Have /\ Have' = Have \cup {"plan"} /\ "report" \in Have
      BY <1>6, HaveIs, HaveIsNext DEF SameHave
    <2> QED BY <1>2, <1>6, <2>1
  <1>7. CASE mishaps' = mishaps /\ (Found' <=> Found) /\ session.adopted /\ session'.adopted
             /\ reviewed' /\ ~SameHave
    <2>1. "review" \notin Have /\ Have' = Have \cup {"review"} /\ "plan" \in Have
      BY <1>7, HaveIs, HaveIsNext DEF SameHave
    <2> QED BY <1>2, <1>7, <2>1
  <1> QED BY <1>4, <1>5, <1>6, <1>7 DEF MakesOne

\* A query asks, reads on, or gives an answer that it may.
LEMMA TellsMaps ==
    ASSUME CoreType, CalmInv', UNCHANGED <<stored, mishaps>>, Tells
    PROVE  Promise!Next \/ UNCHANGED Promise!promise
  <1>1. Have' = Have /\ (Found' <=> Found)
    BY DEF stored, Have, Found
  <1>2. CASE UNCHANGED told /\ query'.kind = query.kind
    BY <1>1, <1>2 DEF Promise!promise
  <1>3. ASSUME NEW a \in Answers, query.kind # "none", Answer(a),
               a = "found" => query.kind = "report" /\ Found
        PROVE  Promise!Next
    <2>1. /\ told'.kind = query.kind /\ told'.answer = a /\ query'.kind = "none"
      BY <1>3 DEF Answer, NoQuery
    <2>2. a = "completed" => Promise!Subject(query.kind) \in Have
      <3>1. Done'
        BY DEF CalmInv, DoneInv
      <3> QED BY <1>1, <2>1, <3>1, HaveIs DEF Done, Promise!Subject, stored
    <2>3. a = "found" => Promise!Subject(query.kind) \in Have
      BY <1>3, HaveIs DEF Promise!Subject
    <2>4. a \in {"failed", "not_found"} /\ query.kind \in Polls => mishaps > 0
      <3>1. (mishaps' = 0 => CalmQuery') /\ mishaps \in Nat
        BY QueriesAssumption DEF CalmInv, CoreType, EnvOK
      <3> QED BY <2>1, <3>1 DEF CalmQuery
    <2>5. Promise!Answer(a)
      BY <1>1, <1>3, <2>1, <2>2, <2>3, <2>4 DEF Promise!Answer
    <2> QED BY <2>5 DEF Promise!Next
  <1> QED BY <1>2, <1>3 DEF Tells

LEMMA AsksMaps ==
    ASSUME CoreType, IdleInv, Poll \/ OpenPage PROVE Promise!Next
  <1>1. PICK k \in Polls \cup Pages : Ask(k)
    BY DEF Poll, OpenPage
  <1>2. /\ query.kind = "none" /\ query'.kind = k /\ told' = NoAnswer
        /\ UNCHANGED <<stored, mishaps>>
    BY <1>1 DEF Ask, IdleInv, env
  <1>3. Have' = Have
    BY <1>2 DEF stored, Have
  <1>4. Promise!Ask(k)
    BY <1>2, <1>3 DEF Promise!Ask, Promise!Nothing, NoAnswer
  <1> QED BY <1>4 DEF Promise!Next

KeepInv == CalmInv /\ PromiseInv /\ IdleInv

LEMMA KeepInvStep == KeepInv /\ [Next]_vars => KeepInv' /\ [Promise!Next]_(Promise!promise)
  <1> SUFFICES ASSUME KeepInv, [Next]_vars PROVE KeepInv' /\ [Promise!Next]_(Promise!promise)
    OBVIOUS
  <1>1. CalmInv'
    BY CalmStep DEF KeepInv
  <1>2. CoreType /\ OrderInv /\ WorkEvidence /\ PromiseInv /\ IdleInv
    BY DEF KeepInv, CalmInv, DoneInv, TypeInv
  <1>3. CASE Next
    <2>1. Step
      BY <1>3 DEF Next
    <2>2. PromiseInv' /\ MakesOne /\ IdleInv' /\ Keep
      BY <1>2, <2>1, PromiseStep, IdleStep, KeepStep
    <2>3. Promise!Next \/ UNCHANGED Promise!promise
      <3>1. CASE Query
        <4>1. UNCHANGED <<stored, mishaps>>
          BY <1>2, <3>1, QueriesKeepOrder DEF env
        <4> QED BY <1>1, <1>2, <3>1, <4>1, QueryTells, TellsMaps
      <3>2. CASE Poll \/ OpenPage
        BY <1>2, <3>2, AsksMaps
      <3>3. CASE UNCHANGED <<query, told>>
        BY <1>2, <2>1, <2>2, <3>3, MishapsCount, MakesMaps
      <3> QED BY <1>2, <2>1, <3>1, <3>2, <3>3, QueryFrame
    <2> QED BY <1>1, <2>2, <2>3 DEF KeepInv
  <1>4. CASE UNCHANGED vars
    <2>1. UNCHANGED <<report, session, reviewed, work, query, told, mishaps>>
      BY <1>4 DEF vars, core, stored, env
    <2>2. PromiseInv' /\ IdleInv'
      BY <1>2, <2>1 DEF PromiseInv, IdleInv, Found
    <2>3. UNCHANGED Promise!promise
      BY <2>1 DEF Promise!promise, Have
    <2> QED BY <1>1, <2>2, <2>3 DEF KeepInv
  <1> QED BY <1>3, <1>4

\* The client of a thread is told what an atomic service would tell it: reports,
\* executed plans and reviews are made in this order, once, and never lost, no
\* answer is ahead of them, and none is an alarm before something went wrong.
THEOREM ThePromiseIsKept == Spec => KeepsItsPromise
  <1>1. Init => KeepInv
    <2>1. Init => CalmInv
      BY TypeInit, OrderInit, EvidenceInit, CalmInit DEF DoneInv, CalmInv
    <2>2. Init => PromiseInv /\ IdleInv
      BY DEF Init, PromiseInv, IdleInv, NoView, NoQuery
    <2> QED BY <2>1, <2>2 DEF KeepInv
  <1>2. Init => Promise!Init
    BY DEF Init, Promise!Init, Promise!Nothing, Have, NoView, NoQuery, NoAnswer
  <1> QED BY <1>1, <1>2, KeepInvStep, PTL DEF Spec, KeepsItsPromise, Promise!Spec
=================================================================================
