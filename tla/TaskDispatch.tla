------------------------------ MODULE TaskDispatch ------------------------------
(***************************************************************************)
(* The execution of an adopted plan: the adoption job saves the tasks of     *)
(* the rules and of the plan in exec_tasks and pushes them one by one to     *)
(* the business system; POST .../redistribute pushes what is pending or      *)
(* failed again; users complete, fail and retry tasks.  A push is an HTTP    *)
(* POST that the client repeats after timeouts and server errors.            *)
(*                                                                         *)
(* Left out: the contents of tasks and messages, the push log beyond the     *)
(* fact that writing it can fail.                                           *)
(***************************************************************************)
EXTENDS Naturals, Sequences, FiniteSets

CONSTANTS
    RuleTasks,      \* the tasks of the indicators' rules, in their order
    PlanTasks,      \* the tasks of the plan's steps, in their order
    Job,            \* the adoption job
    Redistributions,\* requests to distribute again
    MaxRetries,     \* of the HTTP client
    Scenarios,      \* [faults, http, list]: what fails, how the plan was adopted, what
                    \* each request distributes
    MaxEdits,       \* bound on what users do
    MaxMishaps      \* bound on the faults of a behaviour

\* "lost": no answer comes, before or after the server did the work; "refused": a
\* 4xx answer; "hollow": a 200 whose body has an error code; "pg": a statement on our
\* database fails; "biz": a notification, a message or an automatic action fails.
AllFaults == {"lost", "refused", "hollow", "pg", "biz"}

Elements(s) == {s[i] : i \in DOMAIN s}
Tasks == Elements(RuleTasks) \cup Elements(PlanTasks)
Pushers == {Job} \cup Redistributions

ASSUME DispatchAssumption ==
    /\ RuleTasks \in Seq(Tasks) /\ PlanTasks \in Seq(Tasks) /\ PlanTasks # <<>>
    /\ Elements(RuleTasks) \cap Elements(PlanTasks) = {}
    /\ \A s \in {RuleTasks, PlanTasks} : \A i, k \in DOMAIN s : s[i] = s[k] => i = k
    /\ Job \notin Redistributions
    /\ MaxRetries \in Nat \ {0}
    /\ Scenarios \subseteq [faults : SUBSET AllFaults, http : BOOLEAN,
                            list : [Redistributions -> {"plan", "rule"}]]
    /\ MaxEdits \in Nat /\ MaxMishaps \in Nat

VARIABLES
    row,        \* exec_tasks.status, "none" before the INSERT
    dispatch,   \* related_resources.dispatch_status
    delivered,  \* how often the business system created the task
    hollow,     \* tasks that it answered with a 200 without creating them
    session,    \* diag_sessions: phase, pending_adopt_plan_id, adopted_plan_ids
    scheduled,  \* a review is scheduled (pending_reviews)
    pc,         \* where each pusher stands
    todo,       \* the tasks it still has to push; the first is in its hands
    tries,      \* attempts of the HTTP client at the task in hand
    list,       \* what a redistribution distributes: "plan" or "rule"
    seen,       \* pending_adopt_plan_id as the pusher read it at its start
    left,       \* it counted some task as pending at the end
    created,    \* the job created at least one task of the current list
    faults,     \* the kinds of faults of this behaviour
    mishaps,    \* how many happened, for the bound
    touched,    \* history: tasks whose status a user set
    settled,    \* history: completed by a user while in nobody's hands
    blurred,    \* history: tasks whose creation is not what our row says: an answer
                \* was lost, a write failed, or a user called it failed
    shared,     \* history: tasks that were in the hands of two pushers at once
    closed,     \* history: a redistribution set adopted_plan_ids
    edits       \* what users did so far, for the bound

db      == <<row, dispatch, session, scheduled>>
own     == <<pc, todo, tries, list, seen, left, created>>
history == <<touched, settled, blurred, shared, closed, edits>>
env     == <<faults, mishaps>>
vars    == <<db, delivered, hollow, own, env, history>>

Status == {"none", "pending", "running", "failed", "completed"}
\* "INSERT", push and record; what the job does around; the redistribution's reads.
PushPC == {"push", "patch", "status", "fpatch", "fstatus", "log"}
PC == PushPC \cup {"idle", "rSave", "rNotify", "messages", "pSave", "pNotify", "auto",
                   "schedule", "finish", "abort", "pendings", "faileds",
                   "leftPending", "leftFailed", "adopt", "over"}

TypeOK ==
    /\ row \in [Tasks -> Status]
    /\ dispatch \in [Tasks -> {"pending", "dispatched", "failed"}]
    /\ delivered \in [Tasks -> Nat] /\ hollow \in SUBSET Tasks
    /\ session \in [phase : {"executing", "waiting_track", "failed"},
                    pending : BOOLEAN, adopted : BOOLEAN]
    /\ scheduled \in BOOLEAN
    /\ pc \in [Pushers -> PC] /\ todo \in [Pushers -> Seq(Tasks)]
    /\ tries \in [Pushers -> 0..MaxRetries]
    /\ list \in [Redistributions -> {"plan", "rule"}]
    /\ seen \in [Pushers -> BOOLEAN] /\ left \in [Redistributions -> BOOLEAN]
    /\ created \in BOOLEAN /\ faults \subseteq AllFaults /\ mishaps \in 0..MaxMishaps
    /\ touched \in SUBSET Tasks /\ settled \in SUBSET Tasks
    /\ blurred \in SUBSET Tasks /\ shared \in SUBSET Tasks /\ closed \in BOOLEAN
    /\ edits \in 0..MaxEdits

\* An adoption over HTTP marks the plan as pending, one over the WebSocket as
\* adopted; the job has set the phase.
Init ==
    /\ row = [t \in Tasks |-> "none"] /\ dispatch = [t \in Tasks |-> "pending"]
    /\ delivered = [t \in Tasks |-> 0] /\ hollow = {}
    /\ \E x \in Scenarios :
          /\ session = [phase |-> "executing", pending |-> x.http, adopted |-> ~x.http]
          /\ list = x.list /\ faults = x.faults
    /\ scheduled = FALSE
    /\ pc = [w \in Pushers |-> IF w = Job THEN "rSave" ELSE "idle"]
    /\ todo = [w \in Pushers |-> IF w = Job THEN RuleTasks ELSE <<>>]
    /\ tries = [w \in Pushers |-> 0]
    /\ seen = [w \in Pushers |-> w = Job /\ session.pending]
    /\ left = [w \in Redistributions |-> FALSE]
    /\ created = FALSE /\ mishaps = 0
    /\ touched = {} /\ settled = {} /\ blurred = {} /\ shared = {}
    /\ closed = FALSE /\ edits = 0

Move(w, from, to) == pc[w] = from /\ pc' = [pc EXCEPT ![w] = to]
Goto(w, to) == pc' = [pc EXCEPT ![w] = to]

Mishap(kind) == /\ kind \in faults /\ mishaps < MaxMishaps
                /\ mishaps' = mishaps + 1 /\ UNCHANGED faults

\* A task is in w's hands from its listing, or its INSERT, to the end of its push.
Held(w) == Elements(todo[w])
HeldByOther(w) == UNION {Held(o) : o \in Pushers \ {w}}

\* The exception leaves execute_plans_node, or the request.
Raised(w) == /\ Goto(w, IF w = Job THEN "abort" ELSE "over")
             /\ todo' = [todo EXCEPT ![w] = <<>>]

-----------------------------------------------------------------------------
(* One task: the loop bodies of _batch_push_tasks, redistribute_plan_tasks   *)

Task(w) == Head(todo[w])

\* HTTPClient.request, one attempt, answered in time ...
Answered(w) ==
    /\ Move(w, "push", "patch")
    /\ delivered' = [delivered EXCEPT ![Task(w)] = @ + 1]
    /\ created' = (created \/ w = Job)
    /\ tries' = [tries EXCEPT ![w] = 0]
    /\ UNCHANGED <<db, hollow, todo, list, seen, left, env, history>>

\* ... with a 200 whose body reports an error, or is no JSON: it is unwrapped only if
\* its code is 200, is returned all the same, and nobody looks into it ...
AnsweredHollow(w) ==
    /\ Mishap("hollow") /\ Move(w, "push", "patch")
    /\ hollow' = hollow \cup {Task(w)}
    /\ created' = (created \/ w = Job)
    /\ tries' = [tries EXCEPT ![w] = 0]
    /\ UNCHANGED <<db, delivered, todo, list, seen, left, history>>

\* ... or without an answer, or with a server error, whether or not the server did
\* the work: after a timeout or a 5xx it is tried again while attempts remain; any
\* other exception, of the connection or of reading the answer, is raised at once ...
Lost(w) ==
    /\ Mishap("lost") /\ pc[w] = "push"
    /\ \/ delivered' = [delivered EXCEPT ![Task(w)] = @ + 1]
          /\ blurred' = blurred \cup {Task(w)}
       \/ UNCHANGED <<delivered, blurred>>
    /\ \/ /\ tries[w] + 1 < MaxRetries
          /\ tries' = [tries EXCEPT ![w] = @ + 1] /\ UNCHANGED pc
       \/ tries' = [tries EXCEPT ![w] = 0] /\ Goto(w, "fpatch")
    /\ UNCHANGED <<db, hollow, todo, list, seen, left, created, touched, settled, shared,
                   closed, edits>>

\* ... or refused (4xx) for good.
Refused(w) ==
    /\ Mishap("refused") /\ Move(w, "push", "fpatch")
    /\ tries' = [tries EXCEPT ![w] = 0]
    /\ UNCHANGED <<db, delivered, hollow, todo, list, seen, left, created, history>>

\* Mutant: another word for it.
PatchSent(w) ==
    /\ Move(w, "patch", "status")
    /\ dispatch' = [dispatch EXCEPT ![Task(w)] = "sent"]
    /\ UNCHANGED <<row, session, scheduled, delivered, hollow, todo, tries, list, seen,
                   left, created, env, history>>

\* patch_related_resources, then update_task_status: two transactions.
Patch(w) ==
    /\ Move(w, "patch", "status")
    /\ dispatch' = [dispatch EXCEPT ![Task(w)] = "dispatched"]
    /\ UNCHANGED <<row, session, scheduled, delivered, hollow, todo, tries, list, seen,
                   left, created, env, history>>

\* Mutant: one task created is enough.
StopAfterTask(w) ==
    /\ todo' = [todo EXCEPT ![w] = <<>>]
    /\ Goto(w, IF w # Job THEN "leftPending"
               ELSE IF Task(w) \in Elements(RuleTasks) THEN "rNotify" ELSE "pNotify")

\* The push of the task in hand is over.
NextTask(w) ==
    /\ todo' = [todo EXCEPT ![w] = Tail(@)]
    /\ Goto(w, IF w # Job
               THEN IF Tail(todo[w]) = <<>> THEN "leftPending" ELSE "push"
               ELSE IF Task(w) \in Elements(RuleTasks)
               THEN IF Tail(todo[w]) = <<>> THEN "rNotify" ELSE "rSave"
               ELSE IF Tail(todo[w]) = <<>> THEN "pNotify" ELSE "push")

SetRunning(w) ==
    /\ pc[w] = "status"
    /\ row' = [row EXCEPT ![Task(w)] = "running"]
    /\ IF w = Job THEN NextTask(w) ELSE Goto(w, "log") /\ UNCHANGED todo
    /\ UNCHANGED <<dispatch, session, scheduled, delivered, hollow, tries, list, seen,
                   left, created, env, history>>

\* save_push_log for one task redistributed, inside the same try.
LogPush(w) ==
    /\ pc[w] = "log" /\ NextTask(w)
    /\ UNCHANGED <<db, delivered, hollow, tries, list, seen, left, created, env, history>>

\* An exception after the push: the task is taken for one whose push failed.
Misrecord(w) ==
    /\ Mishap("pg") /\ pc[w] \in {"patch", "status", "log"} /\ Goto(w, "fpatch")
    /\ blurred' = blurred \cup {Task(w)}
    /\ UNCHANGED <<db, delivered, hollow, todo, tries, list, seen, left, created,
                   touched, settled, shared, closed, edits>>

\* Mutant: only the error is written.
PatchError(w) ==
    /\ Move(w, "fpatch", "fstatus")
    /\ UNCHANGED <<db, delivered, hollow, todo, tries, list, seen, left, created, env,
                   history>>

PatchFailed(w) ==
    /\ Move(w, "fpatch", "fstatus")
    /\ dispatch' = [dispatch EXCEPT ![Task(w)] = "failed"]
    /\ UNCHANGED <<row, session, scheduled, delivered, hollow, todo, tries, list, seen,
                   left, created, env, history>>

\* Mutant: a failed push leaves the task running.
LeaveRunning(w) ==
    /\ pc[w] = "fstatus" /\ NextTask(w)
    /\ row' = [row EXCEPT ![Task(w)] = "running"]
    /\ UNCHANGED <<dispatch, session, scheduled, delivered, hollow, tries, list, seen,
                   left, created, env, history>>

SetFailed(w) ==
    /\ pc[w] = "fstatus" /\ NextTask(w)
    /\ row' = [row EXCEPT ![Task(w)] = "failed"]
    /\ UNCHANGED <<dispatch, session, scheduled, delivered, hollow, tries, list, seen,
                   left, created, env, history>>

\* An exception in the except clause is not caught.
FailToRecord(w) ==
    /\ Mishap("pg") /\ pc[w] \in {"fpatch", "fstatus"} /\ Raised(w)
    /\ UNCHANGED <<db, delivered, hollow, tries, list, seen, left, created, history>>

Push(w) ==
    \/ Answered(w) \/ AnsweredHollow(w) \/ Lost(w) \/ Refused(w)
    \/ Patch(w) \/ SetRunning(w) \/ LogPush(w) \/ Misrecord(w)
    \/ PatchFailed(w) \/ SetFailed(w) \/ FailToRecord(w)

-----------------------------------------------------------------------------
(* The adoption job: execute_plans_node                                      *)

\* save_exec_tasks: new rows, in one transaction.
SaveRows(S) == row' = [t \in Tasks |-> IF t \in S /\ row[t] = "none" THEN "pending" ELSE row[t]]

\* Rule tasks are saved and pushed one at a time.
SaveRuleTask ==
    /\ pc[Job] = "rSave"
    /\ IF todo[Job] = <<>>
       THEN Goto(Job, "messages") /\ UNCHANGED row
       ELSE Goto(Job, "push") /\ SaveRows({Task(Job)})
    /\ UNCHANGED <<dispatch, session, scheduled, delivered, hollow, todo, tries, list,
                   seen, left, created, env, history>>

\* _send_task_notifications and save_push_log, if any task was created; then the
\* messages to customers.
NotifyRules ==
    /\ Move(Job, "rNotify", "messages")
    /\ UNCHANGED <<db, delivered, hollow, todo, tries, list, seen, left, created, env,
                   history>>

SendMessages ==
    /\ Move(Job, "messages", "pSave")
    /\ created' = FALSE
    /\ UNCHANGED <<db, delivered, hollow, todo, tries, list, seen, left, env, history>>

SavePlanTasks ==
    /\ Move(Job, "pSave", "push")
    /\ SaveRows(Elements(PlanTasks))
    /\ todo' = [todo EXCEPT ![Job] = PlanTasks]
    /\ UNCHANGED <<dispatch, session, scheduled, delivered, hollow, tries, list, seen,
                   left, created, env, history>>

\* Without a task created the plan's automatic actions are skipped.
NotifyPlan ==
    /\ Move(Job, "pNotify", IF created THEN "auto" ELSE "schedule")
    /\ UNCHANGED <<db, delivered, hollow, todo, tries, list, seen, left, created, env,
                   history>>

RunAutoActions ==
    /\ Move(Job, "auto", "schedule")
    /\ UNCHANGED <<db, delivered, hollow, todo, tries, list, seen, left, created, env,
                   history>>

\* save_pending_review, whose failure is logged and forgotten.
ScheduleReview ==
    /\ Move(Job, "schedule", "finish")
    /\ \/ scheduled' = TRUE /\ UNCHANGED env
       \/ Mishap("pg") /\ UNCHANGED scheduled
    /\ UNCHANGED <<row, dispatch, session, delivered, hollow, todo, tries, list, seen,
                   left, created, history>>

\* Any of the awaits around the pushes that is not in a try of its own.
Stumble ==
    /\ \/ Mishap("biz") /\ pc[Job] \in {"messages", "auto"}
       \/ Mishap("biz") /\ pc[Job] \in {"rNotify", "pNotify"} /\ created
       \/ Mishap("pg") /\ pc[Job] \in {"rSave", "messages", "pSave"}
       \/ Mishap("pg") /\ pc[Job] \in {"rNotify", "pNotify"} /\ created
    /\ Raised(Job)
    /\ UNCHANGED <<db, delivered, hollow, tries, list, seen, left, created, history>>

\* resume_after_adoption of the engine stores the state it loaded at its start,
\* brought up to date only by a successful node.
FinishJob ==
    /\ Move(Job, "finish", "over")
    /\ session' = [phase |-> "waiting_track", pending |-> FALSE, adopted |-> TRUE]
    /\ UNCHANGED <<row, dispatch, scheduled, delivered, hollow, todo, tries, list, seen,
                   left, created, env, history>>

\* ... so that a plan which a redistribution has settled is pending again.
FailJob ==
    /\ Move(Job, "abort", "over")
    /\ session' = [session EXCEPT !.phase = "failed", !.pending = seen[Job]]
    /\ UNCHANGED <<row, dispatch, scheduled, delivered, hollow, todo, tries, list, seen,
                   left, created, env, history>>

JobStep ==
    \/ SaveRuleTask \/ NotifyRules \/ SendMessages \/ SavePlanTasks \/ NotifyPlan
    \/ RunAutoActions \/ ScheduleReview \/ Stumble \/ FinishJob \/ FailJob

-----------------------------------------------------------------------------
(* POST /solutions/{thread}/plans/{plan}/redistribute                        *)

ListOf(w) == IF list[w] = "plan" THEN PlanTasks ELSE RuleTasks
WithStatus(w, S) == {t \in Elements(ListOf(w)) : row[t] \in S}

\* The answer of a query.  It is ordered by created_at, the time of the transaction
\* that saved all tasks of a plan: they come in any order.
Listings(T) == {f \in [1..Cardinality(T) -> T] : \A i, k \in DOMAIN f : f[i] = f[k] => i = k}

\* A thread without a state (404), or whose state names no tenant or no store (400), is
\* refused.
ReadState(w) ==
    /\ pc[w] = "idle"
    /\ \/ Goto(w, "pendings") /\ seen' = [seen EXCEPT ![w] = session.pending]
       \/ Goto(w, "over") /\ UNCHANGED seen
    /\ UNCHANGED <<db, delivered, hollow, todo, tries, list, left, created, env, history>>

\* What a query found is in the request's hands.
Capture(w, found) ==
    /\ \E answer \in Listings(found) : todo' = [todo EXCEPT ![w] = @ \o answer]
    /\ shared' = shared \cup (found \cap HeldByOther(w))

\* Mutant: whatever is not running is distributed again.
ListAll(w) ==
    /\ Move(w, "pendings", "faileds")
    /\ Capture(w, WithStatus(w, Status \ {"none", "running", "failed"}))
    /\ UNCHANGED <<db, delivered, hollow, tries, list, seen, left, created, env,
                   touched, settled, blurred, closed, edits>>

ListPending(w) ==
    /\ Move(w, "pendings", "faileds")
    /\ Capture(w, WithStatus(w, {"pending"}))
    /\ UNCHANGED <<db, delivered, hollow, tries, list, seen, left, created, env,
                   touched, settled, blurred, closed, edits>>

\* Mutant: a task that was left running counts as failed, too.
ListUnfinished(w) ==
    /\ pc[w] = "faileds"
    /\ Capture(w, WithStatus(w, {"failed", "running"}))
    /\ Goto(w, IF todo'[w] = <<>> THEN "over" ELSE "push")
    /\ UNCHANGED <<db, delivered, hollow, tries, list, seen, left, created, env,
                   touched, settled, blurred, closed, edits>>

\* Mutant: the request waits for something to distribute.
ListFailedOrWait(w) ==
    /\ Move(w, "faileds", "push")
    /\ Capture(w, WithStatus(w, {"failed"})) /\ todo'[w] # <<>>
    /\ UNCHANGED <<db, delivered, hollow, tries, list, seen, left, created, env,
                   touched, settled, blurred, closed, edits>>

\* With nothing to distribute the request answers 400.
ListFailed(w) ==
    /\ pc[w] = "faileds"
    /\ Capture(w, WithStatus(w, {"failed"}))
    /\ Goto(w, IF todo'[w] = <<>> THEN "over" ELSE "push")
    /\ UNCHANGED <<db, delivered, hollow, tries, list, seen, left, created, env,
                   touched, settled, blurred, closed, edits>>

CountPending(w) ==
    /\ Move(w, "leftPending", "leftFailed")
    /\ left' = [left EXCEPT ![w] = WithStatus(w, {"pending"}) # {}]
    /\ UNCHANGED <<db, delivered, hollow, todo, tries, list, seen, created, env, history>>

\* Mutant: what failed once more is not counted.
CountOnlyPending(w) ==
    /\ pc[w] = "leftFailed"
    /\ Goto(w, IF ~left[w] /\ list[w] = "plan" /\ seen[w] THEN "adopt" ELSE "over")
    /\ left' = [left EXCEPT ![w] = FALSE]
    /\ UNCHANGED <<db, delivered, hollow, todo, tries, list, seen, created, env, history>>

\* all_success, judged by the pending plan as it was at the start of the request.
CountFailed(w) ==
    /\ pc[w] = "leftFailed"
    /\ Goto(w, IF ~left[w] /\ WithStatus(w, {"failed"}) = {}
                  /\ list[w] = "plan" /\ seen[w]
               THEN "adopt" ELSE "over")
    /\ left' = [left EXCEPT ![w] = FALSE]
    /\ UNCHANGED <<db, delivered, hollow, todo, tries, list, seen, created, env, history>>

SettleAdoption(w) ==
    /\ Move(w, "adopt", "over")
    /\ session' = [session EXCEPT !.pending = FALSE, !.adopted = TRUE]
    /\ closed' = TRUE
    /\ UNCHANGED <<row, dispatch, scheduled, delivered, hollow, todo, tries, list, seen,
                   left, created, env, touched, settled, blurred, shared, edits>>

FailRequest(w) ==
    /\ Mishap("pg")
    /\ pc[w] \in {"pendings", "faileds", "leftPending", "leftFailed", "adopt"}
    /\ Raised(w)
    /\ UNCHANGED <<db, delivered, hollow, tries, list, seen, left, created, history>>

Redistribute(w) ==
    \/ ListPending(w) \/ ListFailed(w) \/ CountPending(w) \/ CountFailed(w)
    \/ SettleAdoption(w) \/ FailRequest(w)

-----------------------------------------------------------------------------
(* POST /execution/tasks/{id}/complete, /fail, /retry: any task, any time    *)

SetByUser(t, new) ==
    /\ row[t] # "none" /\ edits < MaxEdits /\ edits' = edits + 1
    /\ row' = [row EXCEPT ![t] = new]
    /\ touched' = touched \cup {t}
    /\ settled' = IF new = "completed" /\ \A w \in Pushers : t \notin Held(w)
                  THEN settled \cup {t} ELSE settled \ {t}
    /\ blurred' = IF new = "failed" THEN blurred \cup {t} ELSE blurred
    /\ UNCHANGED <<dispatch, session, scheduled, delivered, hollow, own, env, shared,
                   closed>>

UserStep == \E t \in Tasks : \E new \in {"completed", "failed", "running"} : SetByUser(t, new)

-----------------------------------------------------------------------------
(* GET /execution/plans, /plans/{id} and the tasks: what a reader sees         *)

\* A plan is its saved tasks, the rules' tasks a plan of their own; one GROUP BY
\* statement counts them.
SavedTasks(l) == {t \in Elements(IF l = "plan" THEN PlanTasks ELSE RuleTasks) : row[t] # "none"}
PlanGroup(l) ==
    LET among(S) == Cardinality({t \in SavedTasks(l) : row[t] \in S})
    IN [total |-> among(Status), completed |-> among({"completed"}),
        running |-> among({"running"}), failed |-> among({"failed"}),
        pending |-> among({"pending"})]

PlanStatus(n) ==
    CASE n.completed = n.total -> "completed"
      [] n.completed # n.total /\ n.running > 0 -> "running"
      [] n.completed # n.total /\ n.running = 0 /\ n.failed > 0 /\ n.pending = 0 -> "failed"
      [] OTHER -> "pending"

\* To the nearest percent.  (Python rounds a tie to the even number.)
PlanProgress(n) ==
    IF n.total > 0 THEN (200 * n.completed + n.total) \div (2 * n.total) ELSE 0

PlanSummary(l) ==
    LET n == PlanGroup(l)
    IN [status |-> PlanStatus(n), progress |-> PlanProgress(n), task_stats |-> n]

TaskItem(t) == [status |-> row[t],
                progress |-> IF row[t] = "completed" THEN 100 ELSE 0,
                dispatch_status |-> dispatch[t]]

-----------------------------------------------------------------------------
Next ==
    \/ JobStep \/ UserStep
    \/ \E w \in Pushers : Push(w)
    \/ \E w \in Redistributions : ReadState(w) \/ Redistribute(w)

Spec == Init /\ [][Next]_vars

\* A job and a request that began go on; users are free.
FairSpec == /\ Spec /\ WF_vars(JobStep \/ Push(Job))
            /\ \A w \in Redistributions : WF_vars(Push(w) \/ Redistribute(w))

-----------------------------------------------------------------------------
(* Properties                                                               *)

\* The business system gets a task twice only if an answer was lost, its outcome
\* could not be written, a user called it failed, or two pushers had it at once.
CreatedOnce == \A t \in Tasks : delivered[t] > 1 => t \in blurred \cup shared

\* Accepted is what the business system created, or answered with a 200.  Nothing else
\* is hidden from a redistribution, unless a user said that it runs or is done:
\* whatever is lost, refused or fails in between, it is pending or failed, and no task
\* counts as dispatched.  (A task that is hidden without having been created was
\* answered with a 200 that nobody looked into.)
Accepted == {t \in Tasks : delivered[t] > 0 \/ t \in hollow}
UndeliveredIsListed ==
    \A t \in Tasks \ Accepted :
        /\ t \in touched \/ row[t] \in {"none", "pending", "failed"}
        /\ dispatch[t] # "dispatched"

\* status and dispatch_status, which are written one after the other, agree on a
\* task in nobody's hands that two pushers never shared; and what is shown of a
\* plan is true to its tasks: once the execution is over it is not shown as
\* pending, a plan shown as failed has nothing to wait for, only tasks to
\* redistribute, and 100 percent means completed.
ItemsAgree ==
    \A t \in Tasks \ (touched \cup shared) :
        (\A w \in Pushers : t \notin Held(w)) =>
            LET item == TaskItem(t)
            IN /\ item.dispatch_status = "dispatched" <=> item.status = "running"
               /\ item.dispatch_status = "failed" <=> item.status = "failed"
PlansAgree ==
    \A l \in {"plan", "rule"} :
        LET plan == PlanSummary(l)
        IN SavedTasks(l) # {} =>
             /\ session.phase = "waiting_track" => plan.status # "pending"
             /\ plan.status = "failed" =>
                  \A t \in SavedTasks(l) : TaskItem(t).progress = 100 \/ row[t] = "failed"
             /\ plan.progress = 100 <=> plan.status = "completed"
StatusAgrees == ("pg" \notin faults => ItemsAgree) /\ PlansAgree

\* A task completed while nobody pushed it stays completed until a user says
\* otherwise: no job and no redistribution takes it up.
CompletedIsKept == \A t \in settled : row[t] = "completed"

\* A redistribution that settles the adoption, by two counts one after the other
\* and an old copy of the state, settles a plan whose tasks the business system all
\* created or answered with a 200.
SettledMeansCreated ==
    closed => Elements(PlanTasks) \subseteq Accepted \cup touched

\* What TaskDelivery promises about tasks, one writer at a time and in one step, holds
\* of the rows that job, redistributions and users write in turn: a task is taken up
\* only when pending or failed, runs only when accepted, changes in nobody's hands only
\* at a user's word, and is left where a redistribution finds it (execute_plans_node,
\* redistribute_plan_tasks).
Hands == [t \in Tasks |-> {w \in Pushers : t \in Held(w)}]
Delivery == INSTANCE TaskDelivery WITH
    PlanTasks <- Elements(PlanTasks), word <- row, accepted <- Accepted,
    hands <- Hands, said <- touched, settled <- closed
DeliversItsTasks == Delivery!Spec

\* When nothing fails, every task of the rules and of the plan is created.
EverythingIsCreated == faults = {} => <>(\A t \in Tasks : delivered[t] > 0)

\* A redistribution ends, however many answers are lost.
RequestsEnd == \A w \in Redistributions : pc[w] = "pendings" ~> pc[w] = "over"
=============================================================================
