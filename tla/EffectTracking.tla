---------------------------- MODULE EffectTracking ----------------------------
(***************************************************************************)
(* The effect tracking of one diagnosis thread after its plan was executed: *)
(* the row of effect_trackings, its snapshots, the scheduled review and the *)
(* review report.  Everybody who writes them is a call: requests of users,  *)
(* the worker's review job, and the daily checker and collector that each   *)
(* API process schedules.  tracking_data is one JSON document: a handler     *)
(* reads it, changes its copy over several awaits and writes it back whole.  *)
(*                                                                         *)
(* Left out: what is measured, the texts, the notifications, and trackings   *)
(* that a user starts for the plan under an id of their own.                 *)
(***************************************************************************)
EXTENDS Naturals, Sequences, FiniteSets

CONSTANTS
    Calls,      \* requests, review jobs and scheduled tasks
    Mixes,      \* the sets of calls that take part together
    KindOf,     \* [Calls -> Kinds]
    ProcOf,     \* [Calls -> Procs]: the process a call runs in
    Procs,      \* API processes
    Interval,   \* settings.effect_snapshot_interval_days
    MaxDay,     \* bound on the days that pass
    MaxSnaps,   \* bound: no collection begins when there are that many snapshots
    Faults      \* subset of {"llm", "pg", "biz"}

\* "llm": the strict review by the language model fails; "pg": a write of the
\* completion or the last ones of a snapshot request raise; "biz": the indicators
\* cannot be collected.
Kinds == {"snapshot", "complete", "cancel", "review", "checker", "collector", "report"}

ASSUME TrackingAssumption ==
    /\ KindOf \in [Calls -> Kinds] /\ Mixes \subseteq SUBSET Calls
    /\ ProcOf \in [Calls -> Procs]
    /\ Interval \in Nat /\ MaxDay \in Nat /\ MaxSnaps \in Nat
    /\ Faults \subseteq {"llm", "pg", "biz"}

VARIABLES
    session,    \* diag_sessions.phase
    pending,    \* pending_reviews.status
    track,      \* the row of effect_trackings
    snaps,      \* effect_snapshots, in the order of their INSERTs
    report,     \* review_reports: the snapshots it sums up, 0 = no report
    learned,    \* solution_knowledges: plans saved as effective
    inflight,   \* _complete_tracking_inflight, per process
    busy,       \* _snapshot_collect_busy, per process
    day,        \* the date
    pc,         \* where each call stands
    copy,       \* the tracking_data it read and changes
    since,      \* the day on which it took `now`
    closes,     \* should_create_closing_snapshot
    scores,     \* how many snapshots its report counts
    fate,       \* history: "open", "completed", or "overlapped" when a snapshot
                \* request held an older copy at the first completion
    cut,        \* history: some completion was cut short by an exception
    missing,    \* history: snapshots that were counted and whose INSERT failed
    stuck       \* history: a snapshot request could not cancel the scheduled review

rows   == <<session, pending, track, snaps, report, learned>>
flags  == <<inflight, busy>>
locals == <<copy, since, closes, scores>>
history == <<fate, cut, missing, stuck>>
vars   == <<rows, flags, day, pc, locals, history>>

Days == 0..MaxDay
Status == {"active", "completed", "cancelled"}
Doc == [status : Status, count : Nat]
NoDoc == [status |-> "active", count |-> 0]
SnapTypes == {"baseline", "periodic", "closing", "auto"}

CompletionPC == {"cRow", "cLatest", "cAll", "cClose", "cUpdate", "cReport", "cLearn"}
EnginePC == {"eRead", "eEnter", "eEnsure", "eCreate", "eDone", "eFail", "eMark"}
PC == {"idle", "over", "sBoot", "sCreate", "sUnschedule", "sCollect",
       "sUpdate", "sInsert", "xWrite", "xPending", "vCancel", "vQueued",
       "kTargets", "kLast", "kCollect", "kFree", "cFree", "pWrite"}
      \cup CompletionPC \cup EnginePC

TypeOK ==
    /\ session \in {"waiting_track", "tracking", "completed", "failed"}
    /\ pending \in {"none", "pending", "completed", "cancelled"}
    /\ track \in [exists : BOOLEAN, data : Doc]
    /\ snaps \in Seq([at : Days, type : SnapTypes])
    /\ report \in Nat /\ learned \in Nat
    /\ inflight \in SUBSET Procs /\ busy \in SUBSET Procs
    /\ day \in Days
    /\ pc \in [Calls -> PC]
    /\ copy \in [Calls -> Doc]
    /\ since \in [Calls -> Days]
    /\ closes \in [Calls -> BOOLEAN]
    /\ scores \in [Calls -> Nat]
    /\ fate \in {"open", "completed", "overlapped"} /\ cut \in BOOLEAN
    /\ missing \in Nat /\ stuck \in BOOLEAN

\* The plan was executed: the session waits, and execute_plans_node has scheduled
\* the review (or has only logged that it could not).
Init ==
    /\ session = "waiting_track" /\ pending \in {"pending", "none"}
    /\ track = [exists |-> FALSE, data |-> NoDoc]
    /\ snaps = <<>> /\ report = 0 /\ learned = 0
    /\ inflight = {} /\ busy = {} /\ day = 0
    /\ \E mix \in Mixes : pc = [c \in Calls |-> IF c \in mix THEN "idle" ELSE "over"]
    /\ copy = [c \in Calls |-> NoDoc]
    /\ since = [c \in Calls |-> 0]
    /\ closes = [c \in Calls |-> FALSE]
    /\ scores = [c \in Calls |-> 0]
    /\ fate = "open" /\ cut = FALSE /\ missing = 0 /\ stuck = FALSE

Move(c, from, to) == pc[c] = from /\ pc' = [pc EXCEPT ![c] = to]
Goto(c, to) == pc' = [pc EXCEPT ![c] = to]

\* The handler returns: its local variables are gone.
Forget(c) == /\ copy' = [copy EXCEPT ![c] = NoDoc]
             /\ since' = [since EXCEPT ![c] = 0]
             /\ closes' = [closes EXCEPT ![c] = FALSE]
             /\ scores' = [scores EXCEPT ![c] = 0]

\* ORDER BY snapshot_at DESC LIMIT 1.  Days are the resolution of this model, so
\* any snapshot of the last day may be the one.
Latest == {i \in DOMAIN snaps : \A k \in DOMAIN snaps : snaps[k].at <= snaps[i].at}

Insert(at, type) == snaps' = Append(snaps, [at |-> at, type |-> type])

Tick == /\ day < MaxDay /\ day' = day + 1
        /\ UNCHANGED <<rows, flags, pc, locals, history>>

-----------------------------------------------------------------------------
(* POST /tracking/{id}/snapshot: take_tracking_snapshot                     *)

HoldsActiveCopy(c) ==
    pc[c] \in {"sUnschedule", "sCollect", "sUpdate"} /\ copy[c].status = "active"

\* The request takes `now` and reads the row.
ReadForSnapshot(c) ==
    /\ KindOf[c] = "snapshot" /\ pc[c] = "idle"
    /\ since' = [since EXCEPT ![c] = day]
    /\ IF track.exists
       THEN Goto(c, "sCollect") /\ copy' = [copy EXCEPT ![c] = track.data]
       ELSE Goto(c, "sBoot") /\ UNCHANGED copy
    /\ UNCHANGED <<rows, flags, day, closes, scores, history>>

\* _ensure_effect_tracking_row looks again, then creates the first row ...
LookAgain(c) ==
    /\ pc[c] = "sBoot"
    /\ IF track.exists
       THEN Goto(c, "sCollect") /\ copy' = [copy EXCEPT ![c] = track.data]
       ELSE Goto(c, "sCreate") /\ UNCHANGED copy
    /\ UNCHANGED <<rows, flags, day, since, closes, scores, history>>

\* ... whose primary key makes a second INSERT raise: the request answers 500.
CreateForSnapshot(c) ==
    /\ pc[c] = "sCreate"
    /\ IF track.exists
       THEN Goto(c, "over") /\ UNCHANGED <<track, copy>>
       ELSE /\ Goto(c, "sUnschedule")
            /\ track' = [exists |-> TRUE, data |-> NoDoc]
            /\ copy' = [copy EXCEPT ![c] = NoDoc]
    /\ UNCHANGED <<session, pending, snaps, report, learned, flags, day,
                   since, closes, scores, history>>

\* cancel_pending_review: UPDATE .. WHERE status = 'pending'.  A snapshot request
\* only logs that it failed.
Unschedule == pending' = IF pending = "pending" THEN "cancelled" ELSE pending

UnscheduleForSnapshot(c) ==
    /\ Move(c, "sUnschedule", "sCollect")
    /\ \/ Unschedule /\ UNCHANGED stuck
       \/ "pg" \in Faults /\ stuck' = TRUE /\ UNCHANGED pending
    /\ UNCHANGED <<session, track, snaps, report, learned, flags, day, locals, fate, cut, missing>>

\* The indicators are collected and scored, or the request answers 502.
CollectForSnapshot(c) ==
    /\ Move(c, "sCollect", "sUpdate") \/ ("biz" \in Faults /\ Move(c, "sCollect", "over"))
    /\ UNCHANGED <<rows, flags, day, locals, history>>

\* Mutant: the count is raised twice.
UpdateTwice(c) ==
    /\ Move(c, "sUpdate", "sInsert")
    /\ track' = [track EXCEPT !.data = [copy[c] EXCEPT !.count = @ + 2]]
    /\ UNCHANGED <<session, pending, snaps, report, learned, flags, day, locals, history>>

UpdateForSnapshot(c) ==
    /\ Move(c, "sUpdate", "sInsert")
    /\ track' = [track EXCEPT !.data = [copy[c] EXCEPT !.count = @ + 1]]
    /\ UNCHANGED <<session, pending, snaps, report, learned, flags, day, locals, history>>

\* insert_snapshot, with the `now` of the request as snapshot_at; if it fails the
\* request answers 500, and the count stays raised.
InsertForSnapshot(c) ==
    /\ Move(c, "sInsert", "over")
    /\ \/ /\ Insert(since[c], IF copy[c].count = 0 THEN "baseline" ELSE "periodic")
          /\ UNCHANGED missing
       \/ "pg" \in Faults /\ missing' = missing + 1 /\ UNCHANGED snaps
    /\ Forget(c)
    /\ UNCHANGED <<session, pending, track, report, learned, flags, day, fate, cut, stuck>>

-----------------------------------------------------------------------------
(* _complete_tracking_background: shared by the request, the review job and *)
(* the daily checker                                                        *)

\* Its own try swallows everything: its callers go on as if it had succeeded.
AfterCompletion(c) == IF KindOf[c] = "complete" THEN "cFree" ELSE "eDone"

ReadRow(c) ==
    /\ pc[c] = "cRow"
    /\ IF track.exists
       THEN Goto(c, "cLatest") /\ copy' = [copy EXCEPT ![c] = [track.data EXCEPT !.status = "completed"]]
       ELSE Goto(c, AfterCompletion(c)) /\ UNCHANGED copy
    /\ since' = [since EXCEPT ![c] = day]
    /\ UNCHANGED <<rows, flags, day, closes, scores, history>>

\* get_latest_snapshot: a closing one is not followed by another.
ReadLatest(c) ==
    /\ Move(c, "cLatest", "cAll")
    /\ \/ snaps = <<>> /\ closes' = [closes EXCEPT ![c] = TRUE]
       \/ \E i \in Latest : closes' = [closes EXCEPT ![c] = snaps[i].type # "closing"]
    /\ UNCHANGED <<rows, flags, day, copy, since, scores, history>>

ReadSnapshots(c) ==
    /\ Move(c, "cAll", "cClose")
    /\ scores' = [scores EXCEPT ![c] = Len(snaps) + IF closes[c] THEN 1 ELSE 0]
    /\ UNCHANGED <<rows, flags, day, copy, since, closes, history>>

\* After _llm_review_report, which a strict configuration lets raise.
InsertClosing(c) ==
    /\ Move(c, "cClose", "cUpdate")
    /\ IF closes[c] THEN Insert(since[c], "closing") ELSE UNCHANGED snaps
    /\ UNCHANGED <<session, pending, track, report, learned, flags, day, locals, history>>

\* Mutant: only the count is written, over a status read by somebody else.
CompleteInPlace(c) ==
    /\ Move(c, "cUpdate", "cReport")
    /\ track' = [track EXCEPT !.data.count = copy[c].count + IF closes[c] THEN 1 ELSE 0]
    /\ fate' = IF fate # "open" THEN fate
               ELSE IF \E k \in Calls : HoldsActiveCopy(k) THEN "overlapped" ELSE "completed"
    /\ UNCHANGED <<session, pending, snaps, report, learned, flags, day, locals,
                   cut, missing, stuck>>

CompleteRow(c) ==
    /\ Move(c, "cUpdate", "cReport")
    /\ track' = [track EXCEPT !.data =
                    [copy[c] EXCEPT !.count = @ + IF closes[c] THEN 1 ELSE 0]]
    /\ fate' = IF fate # "open" THEN fate
               ELSE IF \E k \in Calls : HoldsActiveCopy(k) THEN "overlapped" ELSE "completed"
    /\ UNCHANGED <<session, pending, snaps, report, learned, flags, day, locals,
                   cut, missing, stuck>>

StoreReport(c) ==
    /\ Move(c, "cReport", "cLearn")
    /\ report' = scores[c]
    /\ UNCHANGED <<session, pending, track, snaps, learned, flags, day, locals, history>>

\* The notifications, and save_effective_plan, whose failure is only logged.
Learn(c) ==
    /\ pc[c] = "cLearn" /\ Goto(c, AfterCompletion(c))
    /\ learned' = learned + 1 \/ ("pg" \in Faults /\ UNCHANGED learned)
    /\ UNCHANGED <<session, pending, track, snaps, report, flags, day, locals, history>>

\* An exception anywhere in it.
CutShort(c) ==
    /\ \/ pc[c] = "cClose" /\ "llm" \in Faults
       \/ pc[c] \in CompletionPC /\ "pg" \in Faults
    /\ Goto(c, AfterCompletion(c)) /\ cut' = TRUE
    /\ UNCHANGED <<rows, flags, day, locals, fate, missing, stuck>>

Completion(c) ==
    \/ ReadRow(c) \/ ReadLatest(c) \/ ReadSnapshots(c) \/ InsertClosing(c)
    \/ CompleteRow(c) \/ StoreReport(c) \/ Learn(c) \/ CutShort(c)

-----------------------------------------------------------------------------
(* POST /tracking/{id}/complete and /cancel                                  *)

\* Mutant: the set of completions under way is not looked at.
SubmitAnyway(c) ==
    /\ KindOf[c] = "complete" /\ pc[c] = "idle"
    /\ IF track.exists
       THEN Goto(c, "cRow") /\ inflight' = inflight \cup {ProcOf[c]}
       ELSE Goto(c, "over") /\ UNCHANGED inflight
    /\ UNCHANGED <<rows, busy, day, locals, history>>

\* submit_complete_tracking: 404, "already under way", or a background task.
SubmitComplete(c) ==
    /\ KindOf[c] = "complete" /\ pc[c] = "idle"
    /\ IF track.exists /\ ProcOf[c] \notin inflight
       THEN Goto(c, "cRow") /\ inflight' = inflight \cup {ProcOf[c]}
       ELSE Goto(c, "over") /\ UNCHANGED inflight
    /\ UNCHANGED <<rows, busy, day, locals, history>>

FreeInflight(c) ==
    /\ Move(c, "cFree", "over")
    /\ inflight' = inflight \ {ProcOf[c]}
    /\ Forget(c) /\ UNCHANGED <<rows, busy, day, history>>

\* cancel_tracking_request: the row's status, else the scheduled review, else 404.
ReadForCancel(c) ==
    /\ KindOf[c] = "cancel" /\ pc[c] = "idle"
    /\ IF track.exists
       THEN Goto(c, "xWrite") /\ copy' = [copy EXCEPT ![c] = [track.data EXCEPT !.status = "cancelled"]]
       ELSE Goto(c, IF pending = "pending" THEN "xPending" ELSE "over") /\ UNCHANGED copy
    /\ UNCHANGED <<rows, flags, day, since, closes, scores, history>>

\* Mutant: the other spelling.
CancelSpelled(c) ==
    /\ Move(c, "xWrite", "over")
    /\ track' = [track EXCEPT !.data.status = "canceled"]
    /\ Forget(c) /\ UNCHANGED <<session, pending, snaps, report, learned, flags, day, history>>

CancelTracking(c) ==
    /\ Move(c, "xWrite", "over")
    /\ track' = [track EXCEPT !.data = copy[c]]
    /\ Forget(c) /\ UNCHANGED <<session, pending, snaps, report, learned, flags, day, history>>

CancelSchedule(c) ==
    /\ Move(c, "xPending", "over")
    /\ Unschedule
    /\ UNCHANGED <<session, track, snaps, report, learned, flags, day, locals, history>>

-----------------------------------------------------------------------------
(* Reviews: the user's (start_immediate_review and its job), the checker's   *)

StartReview(c) ==
    /\ KindOf[c] = "review" /\ pc[c] = "idle"
    /\ Goto(c, IF session \in {"waiting_track", "tracking"} THEN "vCancel" ELSE "over")
    /\ UNCHANGED <<rows, flags, day, locals, history>>

UnscheduleForReview(c) ==
    /\ Move(c, "vCancel", "vQueued")
    /\ Unschedule
    /\ UNCHANGED <<session, track, snaps, report, learned, flags, day, locals, history>>

RunReviewJob(c) ==
    /\ Move(c, "vQueued", "eRead")
    /\ UNCHANGED <<rows, flags, day, locals, history>>

\* check_pending_reviews: the due ones, that is since the first day.
ListDueReviews(c) ==
    /\ KindOf[c] = "checker" /\ pc[c] = "idle"
    /\ pending = "pending" /\ Goto(c, "eRead")
    /\ UNCHANGED <<rows, flags, day, locals, history>>

\* resume_track_effects of the engine: an unexpected phase ends it quietly.
AfterEngine(c) == IF KindOf[c] = "checker" THEN "eMark" ELSE "over"

ReadPhase(c) ==
    /\ pc[c] = "eRead"
    /\ Goto(c, IF session \in {"waiting_track", "tracking"} THEN "eEnter" ELSE AfterEngine(c))
    /\ UNCHANGED <<rows, flags, day, locals, history>>

\* Mutant: the phase is set before the completion runs.
EnterCompleted(c) ==
    /\ Move(c, "eEnter", "eEnsure")
    /\ session' = "completed"
    /\ UNCHANGED <<pending, track, snaps, report, learned, flags, day, locals, history>>

EnterTracking(c) ==
    /\ Move(c, "eEnter", "eEnsure")
    /\ session' = "tracking"
    /\ UNCHANGED <<pending, track, snaps, report, learned, flags, day, locals, history>>

\* _ensure_tracking_for_diagnosis: a look, and an INSERT that may come too late.
EnsureTracking(c) ==
    /\ pc[c] = "eEnsure" /\ Goto(c, IF track.exists THEN "cRow" ELSE "eCreate")
    /\ UNCHANGED <<rows, flags, day, locals, history>>

CreateTracking(c) ==
    /\ pc[c] = "eCreate"
    /\ IF track.exists
       THEN Goto(c, "eFail") /\ UNCHANGED track
       ELSE Goto(c, "cRow") /\ track' = [exists |-> TRUE, data |-> NoDoc]
    /\ UNCHANGED <<session, pending, snaps, report, learned, flags, day, locals, history>>

FinishReview(c) ==
    /\ pc[c] = "eDone" /\ Goto(c, AfterEngine(c))
    /\ session' = "completed"
    /\ Forget(c) /\ UNCHANGED <<pending, track, snaps, report, learned, flags, day, history>>

\* The engine marks the failure and raises: no mark_review_done.
FailReview(c) ==
    /\ pc[c] = "eFail"
    /\ Goto(c, IF KindOf[c] = "checker" THEN "idle" ELSE "over")
    /\ session' = "failed"
    /\ Forget(c) /\ UNCHANGED <<pending, track, snaps, report, learned, flags, day, history>>

\* Mutant: the review counts as done only when the session completed.
MarkOnlyCompleted(c) ==
    /\ Move(c, "eMark", "idle")
    /\ pending' = IF session = "completed" THEN "completed" ELSE pending
    /\ UNCHANGED <<session, track, snaps, report, learned, flags, day, locals, history>>

MarkReviewDone(c) ==
    /\ Move(c, "eMark", "idle")
    /\ pending' = "completed"
    /\ UNCHANGED <<session, track, snaps, report, learned, flags, day, locals, history>>

-----------------------------------------------------------------------------
(* The daily collector, and the reader of the report                        *)

\* Mutant: a round begins although one is under way.
StartRoundAnyway(c) ==
    /\ KindOf[c] = "collector" /\ pc[c] = "idle"
    /\ Len(snaps) < MaxSnaps
    /\ Goto(c, "kTargets") /\ busy' = busy \cup {ProcOf[c]}
    /\ UNCHANGED <<rows, inflight, day, locals, history>>

\* collect_effect_snapshots: one round at a time in a process.
StartRound(c) ==
    /\ KindOf[c] = "collector" /\ pc[c] = "idle"
    /\ Len(snaps) < MaxSnaps /\ ProcOf[c] \notin busy
    /\ Goto(c, "kTargets") /\ busy' = busy \cup {ProcOf[c]}
    /\ UNCHANGED <<rows, inflight, day, locals, history>>

\* _get_snapshot_target_threads: a scheduled review or an active tracking.
ListTargets(c) ==
    /\ pc[c] = "kTargets"
    /\ Goto(c, IF pending = "pending" \/ (track.exists /\ track.data.status = "active")
               THEN "kLast" ELSE "kFree")
    /\ since' = [since EXCEPT ![c] = day]
    /\ UNCHANGED <<rows, flags, day, copy, closes, scores, history>>

\* The last snapshot, of whatever kind, must be Interval days old.
Throttle(c) ==
    /\ pc[c] = "kLast"
    /\ Goto(c, IF \E i \in DOMAIN snaps : since[c] < snaps[i].at + Interval
               THEN "kFree" ELSE "kCollect")
    /\ UNCHANGED <<rows, flags, day, locals, history>>

\* The row is stamped by the database, on the day of the INSERT, and the count in
\* tracking_data is left alone.  ("auto" tells it from the snapshots of requests:
\* the code writes "periodic".)
SaveSnapshot(c) ==
    /\ Move(c, "kCollect", "kFree")
    /\ Insert(day, "auto") \/ ("biz" \in Faults /\ UNCHANGED snaps)
    /\ UNCHANGED <<session, pending, track, report, learned, flags, day, locals, history>>

EndRound(c) ==
    /\ Move(c, "kFree", "idle")
    /\ busy' = busy \ {ProcOf[c]}
    /\ Forget(c) /\ UNCHANGED <<rows, inflight, day, history>>

\* GET /tracking/{id}/report normalises what it read and writes it back.
ReadReport(c) ==
    /\ KindOf[c] = "report" /\ pc[c] = "idle"
    /\ IF report # 0 /\ track.exists /\ track.data.status = "completed"
       THEN Goto(c, "pWrite") /\ scores' = [scores EXCEPT ![c] = report]
       ELSE Goto(c, "over") /\ UNCHANGED scores
    /\ UNCHANGED <<rows, flags, day, copy, since, closes, history>>

WriteReportBack(c) ==
    /\ Move(c, "pWrite", "over")
    /\ report' = scores[c]
    /\ Forget(c) /\ UNCHANGED <<session, pending, track, snaps, learned, flags, day, history>>

-----------------------------------------------------------------------------
(* GET /tracking and /tracking/{id}: what a reader is shown of the thread   *)

\* list_tracking_items: the scheduled review first, then the row.
ListedItems ==
    (IF pending = "pending" THEN <<[status |-> "scheduled", count |-> 0]>> ELSE <<>>)
    \o (IF track.exists THEN <<track.data>> ELSE <<>>)

\* get_tracking_summary_payload: the row, else the scheduled review, else 404.
Summary == IF track.exists THEN track.data.status
           ELSE IF pending = "pending" THEN "scheduled" ELSE "unknown"

-----------------------------------------------------------------------------
Snapshot(c) ==
    \/ ReadForSnapshot(c) \/ LookAgain(c) \/ CreateForSnapshot(c)
    \/ UnscheduleForSnapshot(c) \/ CollectForSnapshot(c) \/ UpdateForSnapshot(c)
    \/ InsertForSnapshot(c)
Engine(c) ==
    \/ ReadPhase(c) \/ EnterTracking(c) \/ EnsureTracking(c) \/ CreateTracking(c)
    \/ FinishReview(c) \/ FailReview(c)
Checker(c) == ListDueReviews(c) \/ MarkReviewDone(c)
Collector(c) ==
    \/ StartRound(c) \/ ListTargets(c) \/ Throttle(c) \/ SaveSnapshot(c) \/ EndRound(c)
Requests(c) ==
    \/ SubmitComplete(c) \/ FreeInflight(c)
    \/ ReadForCancel(c) \/ CancelTracking(c) \/ CancelSchedule(c)
    \/ StartReview(c) \/ UnscheduleForReview(c) \/ RunReviewJob(c)
    \/ ReadReport(c) \/ WriteReportBack(c)

Next ==
    \/ Tick
    \/ \E c \in Calls : \/ Snapshot(c) \/ Completion(c) \/ Engine(c) \/ Checker(c)
                        \/ Collector(c) \/ Requests(c)

Spec == Init /\ [][Next]_vars

\* A check that is due is begun some day and runs to its end; users and the
\* passing of days are free.
FairSpec == Spec /\ \A c \in Calls :
    WF_vars(KindOf[c] = "checker" /\ (Checker(c) \/ Engine(c) \/ Completion(c)))

-----------------------------------------------------------------------------
(* Properties                                                               *)

\* What is listed is true, however the read-modify-write cycles overlap.
\* snapshot_count never counts a snapshot that is neither there nor about to be
\* inserted by the request that counted it, but for those whose INSERT failed.  (It
\* may count too few: updates are lost, and the collector never counts.)  When no
\* call is under way the thread is not listed twice, as scheduled and as its
\* tracking, unless the schedule could not be cancelled; and a review that was done
\* left a tracking to look at, or a failed session.
Inserting == {c \in Calls : pc[c] = "sInsert"}
CountIsBacked == \A item \in {ListedItems[i] : i \in DOMAIN ListedItems} :
    item.count <= Len(snaps) + Cardinality(Inserting) + missing
ListedOnce ==
    (\A c \in Calls : pc[c] \in {"idle", "over"}) =>
        /\ Len(ListedItems) <= 1 \/ stuck
        /\ pending = "completed" /\ session # "failed" => Summary # "unknown"
ListIsTrue == CountIsBacked /\ ListedOnce

\* Unless a review was cut short, a session that says "completed" has its report;
\* and a plan is never saved as effective without one.
ReviewedBeforeCompleted ==
    (session = "completed" /\ ~cut) \/ learned > 0 => report # 0

\* A completion is undone only by a snapshot request that had read the row before:
\* without such an overlap a tracking that was completed is never active again.
CompletionIsNotUndone == fate = "completed" => track.data.status # "active"

\* Snapshots that one process collects by itself keep their distance, although a
\* collection takes time and days pass meanwhile.
AutomaticSnapshotsSpaced ==
    \A i, k \in DOMAIN snaps :
        i < k /\ snaps[i].type = "auto" /\ snaps[k].type = "auto"
            => snaps[i].at + Interval <= snaps[k].at

\* At most one of the completions that requests started in a process is under way.
OneCompletionPerProcess ==
    \A c, d \in Calls :
        /\ KindOf[c] = "complete" /\ KindOf[d] = "complete" /\ ProcOf[c] = ProcOf[d]
        /\ pc[c] \in CompletionPC \cup {"cFree"} /\ pc[d] \in CompletionPC \cup {"cFree"}
        => c = d

\* Where a checker runs, a scheduled review does not stay scheduled for ever,
\* whatever fails: a review that failed is found in an unexpected phase the next day.
CheckerRuns == \E c \in Calls : KindOf[c] = "checker" /\ pc[c] # "over"
DueReviewsSettle == (pending = "pending" /\ CheckerRuns) ~> pending # "pending"
=============================================================================
