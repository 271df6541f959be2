------------------------- MODULE TaskDispatch_proofs -------------------------
(***************************************************************************)
(* Proofs about TaskDispatch, for any tasks, any number of redistributions, *)
(* any faults and any number of attempts: the types, the invariants          *)
(* UndeliveredIsListed, CompletedIsKept, SettledMeansCreated, CreatedOnce    *)
(* and StatusAgrees, and that TaskDelivery is implemented.                    *)
(***************************************************************************)
EXTENDS TaskDispatch, FiniteSetTheorems, TLAPS

-----------------------------------------------------------------------------
(* Where the pushers stand, and what they hold                              *)

AfterPush == {"patch", "status", "log"}    \* the task in hand was accepted
JobPC == {"push", "patch", "status", "fpatch", "fstatus", "rSave", "rNotify", "messages",
          "pSave", "pNotify", "auto", "schedule", "finish", "abort", "over"}
RequestPC == PushPC \cup {"idle", "pendings", "faileds", "leftPending", "leftFailed",
                          "adopt", "over"}

Where ==
    /\ pc[Job] \in JobPC
    /\ \A w \in Redistributions : pc[w] \in RequestPC
    /\ \A w \in Pushers : pc[w] \in PushPC => todo[w] # <<>>
    /\ \A w \in Redistributions : pc[w] \in {"idle", "pendings"} => todo[w] = <<>>

\* The tasks of the plan are saved together, after those of the rules; a request
\* holds saved tasks of its list.
Unsaved(T) == \A t \in T : row[t] = "none"
Saved(T) == \A t \in T : row[t] # "none"
RuleStage == Held(Job) \subseteq Elements(RuleTasks) /\ Unsaved(Elements(PlanTasks))
PlanStage == Held(Job) \subseteq Elements(PlanTasks) /\ Saved(Elements(PlanTasks))
Stages ==
    /\ pc[Job] \in {"rSave", "rNotify", "messages", "pSave"} => RuleStage
    /\ pc[Job] \in PushPC => RuleStage \/ PlanStage
    /\ Unsaved(Elements(PlanTasks)) \/ Saved(Elements(PlanTasks))
    /\ \A w \in Redistributions : Held(w) \subseteq Elements(ListOf(w)) /\ Saved(Held(w))

-----------------------------------------------------------------------------
(* The inductive invariants                                                 *)

\* What is pushed and not yet recorded was accepted.
Recorded ==
    /\ UndeliveredIsListed
    /\ \A w \in Pushers : pc[w] \in AfterPush => Task(w) \in Accepted

\* A task that a user completed is in nobody's hands.
SettledIsFree == \A t \in settled : row[t] = "completed" /\ \A w \in Pushers : t \notin Held(w)

\* What a request knows of the tasks of the plan between its two counts.
AcceptedOrTouched(t) == t \in Accepted \/ t \in touched
Counts(w) ==
    /\ list[w] = "plan" /\ pc[w] \in PushPC \cup {"leftPending", "leftFailed"} =>
         Saved(Elements(PlanTasks))
    /\ list[w] = "plan" /\ pc[w] = "leftFailed" /\ ~left[w] =>
         \A t \in Elements(PlanTasks) : AcceptedOrTouched(t) \/ row[t] = "failed"
    /\ pc[w] = "adopt" => \A t \in Elements(PlanTasks) : AcceptedOrTouched(t)
Counted == SettledMeansCreated /\ \A w \in Redistributions : Counts(w)

\* A task that is neither blurred nor shared is created by the one push of the one
\* pusher that holds it once, or has not been created.
Unique(s, t) == \A i, k \in DOMAIN s : s[i] = t /\ s[k] = t => i = k
Redo == {"none", "pending", "failed"}
Exclusive == \A w, o \in Pushers : w # o => Held(w) \cap Held(o) \subseteq shared
HeldOnce(w, t) ==
    /\ Unique(todo[w], t)
    /\ (pc[w] \in AfterPush /\ t = Task(w)) \/ delivered[t] = 0
    /\ pc[w] = "log" /\ t = Task(w) => row[t] \notin Redo
    /\ pc[w] = "faileds" => row[t] # "failed"
OnceFor(t) ==
    /\ delivered[t] <= 1
    /\ row[t] \in Redo /\ (\A w \in Pushers : t \notin Held(w)) => delivered[t] = 0
    /\ \A w \in Pushers : t \in Held(w) => HeldOnce(w, t)
Once == \A t \in Tasks \ (blurred \cup shared) : OnceFor(t)

-----------------------------------------------------------------------------
(* Sequences of tasks                                                       *)

LEMMA EmptyElements == Elements(<<>>) = {}
  BY DEF Elements

\* What is left when the task in hand is done.
LEMMA HeadTail ==
    ASSUME NEW S, NEW s \in Seq(S), s # <<>>
    PROVE  /\ Head(s) \in S /\ Head(s) \in Elements(s) /\ Tail(s) \in Seq(S)
           /\ Elements(s) = {Head(s)} \cup Elements(Tail(s))
  <1>1. Len(s) \in Nat \ {0} /\ Head(s) = s[1] /\ 1 \in DOMAIN s /\ Tail(s) \in Seq(S)
    OBVIOUS
  <1>2. DOMAIN Tail(s) = 1..(Len(s) - 1) /\ \A i \in 1..(Len(s) - 1) : Tail(s)[i] = s[i + 1]
    OBVIOUS
  <1>3. Elements(Tail(s)) = {s[i + 1] : i \in 1..(Len(s) - 1)}
    BY <1>2 DEF Elements
  <1>4. Elements(s) = {s[i] : i \in 1..Len(s)}
    BY DEF Elements
  <1>5. ASSUME NEW x \in Elements(s), x # Head(s)
        PROVE  x \in Elements(Tail(s))
    <2>1. PICK i \in 1..Len(s) : x = s[i]
      BY <1>4
    <2>2. i # 1 /\ i - 1 \in 1..(Len(s) - 1) /\ x = s[(i - 1) + 1]
      BY <1>1, <1>5, <2>1
    <2> QED BY <1>3, <2>2
  <1>6. \A x \in Elements(Tail(s)) : x \in Elements(s)
    BY <1>1, <1>3, <1>4
  <1> QED BY <1>1, <1>4, <1>5, <1>6

LEMMA UniqueTail ==
    ASSUME NEW S, NEW s \in Seq(S), s # <<>>, NEW t, Unique(s, t)
    PROVE  /\ Unique(Tail(s), t)
           /\ t = Head(s) => t \notin Elements(Tail(s))
  <1>1. Len(s) \in Nat \ {0} /\ Head(s) = s[1] /\ 1 \in DOMAIN s
    OBVIOUS
  <1>2. DOMAIN Tail(s) = 1..(Len(s) - 1) /\ \A i \in 1..(Len(s) - 1) : Tail(s)[i] = s[i + 1]
    OBVIOUS
  <1>3. \A i \in DOMAIN Tail(s) : i \in Nat /\ i + 1 \in DOMAIN s /\ i + 1 # 1
    BY <1>1, <1>2
  <1> QED BY <1>1, <1>2, <1>3 DEF Unique, Elements

LEMMA Concat ==
    ASSUME NEW S, NEW a \in Seq(S), NEW b \in Seq(S)
    PROVE  /\ a \o b \in Seq(S) /\ Elements(a \o b) = Elements(a) \cup Elements(b)
           /\ \A t : t \notin Elements(a) /\ Unique(b, t) => Unique(a \o b, t)
           /\ \A t : t \notin Elements(b) /\ Unique(a, t) => Unique(a \o b, t)
  <1>1. /\ a \o b \in Seq(S) /\ DOMAIN (a \o b) = 1..(Len(a) + Len(b))
        /\ DOMAIN a = 1..Len(a) /\ DOMAIN b = 1..Len(b) /\ Len(a) \in Nat /\ Len(b) \in Nat
        /\ \A i \in DOMAIN (a \o b) : (a \o b)[i] = IF i <= Len(a) THEN a[i] ELSE b[i - Len(a)]
    OBVIOUS
  <1>2. \A i \in DOMAIN (a \o b) :
           \/ i \in DOMAIN a /\ (a \o b)[i] = a[i]
           \/ i - Len(a) \in DOMAIN b /\ (a \o b)[i] = b[i - Len(a)]
    BY <1>1
  <1>3. \A i \in DOMAIN a : i \in DOMAIN (a \o b) /\ (a \o b)[i] = a[i]
    BY <1>1
  <1>4. \A i \in DOMAIN b : i + Len(a) \in DOMAIN (a \o b) /\ (a \o b)[i + Len(a)] = b[i]
    BY <1>1
  <1>5. Elements(a \o b) = Elements(a) \cup Elements(b)
    <2>1. \A x \in Elements(a \o b) : x \in Elements(a) \cup Elements(b)
      BY <1>2 DEF Elements
    <2>2. \A x \in Elements(a) : x \in Elements(a \o b)
      BY <1>3 DEF Elements
    <2>3. \A x \in Elements(b) : x \in Elements(a \o b)
      BY <1>4 DEF Elements
    <2> QED BY <2>1, <2>2, <2>3
  <1>6. \A i, k \in DOMAIN (a \o b) : i - Len(a) = k - Len(a) => i = k
    BY <1>1
  <1>7. ASSUME NEW t, t \notin Elements(a), Unique(b, t)
        PROVE  Unique(a \o b, t)
    BY <1>2, <1>6, <1>7 DEF Unique, Elements
  <1>8. ASSUME NEW t, t \notin Elements(b), Unique(a, t)
        PROVE  Unique(a \o b, t)
    BY <1>2, <1>8 DEF Unique, Elements
  <1> QED BY <1>1, <1>5, <1>7, <1>8

\* The answer of a query has every task it found, once.
LEMMA ListingsAnswer ==
    ASSUME NEW S, NEW T \in SUBSET S, NEW answer \in Listings(T), IsFiniteSet(T)
    PROVE  /\ answer \in Seq(S) /\ Elements(answer) \subseteq T
           /\ \A t : Unique(answer, t)
           /\ answer = <<>> => T = {}
  <1>1. Cardinality(T) \in Nat /\ answer \in [1..Cardinality(T) -> T]
    BY FS_CardinalityType DEF Listings
  <1>2. answer \in Seq(T)
    BY <1>1
  <1>3. answer \in Seq(S) /\ Elements(answer) \subseteq T
    BY <1>1, <1>2 DEF Elements
  <1>4. \A t : Unique(answer, t)
    BY DEF Listings, Unique
  <1>5. answer = <<>> => T = {}
    <2>1. answer = <<>> => Cardinality(T) = 0
      BY <1>1
    <2> QED BY <2>1, FS_EmptySet
  <1> QED BY <1>3, <1>4, <1>5

LEMMA ElementsAreFinite ==
    ASSUME NEW S, NEW s \in Seq(S)
    PROVE  IsFiniteSet(Elements(s)) /\ Elements(s) \subseteq S
  <1>1. Len(s) \in Nat /\ DOMAIN s = 1..Len(s)
    OBVIOUS
  <1>2. IsFiniteSet(DOMAIN s)
    BY <1>1, FS_Interval
  <1>3. s \in Surjection(DOMAIN s, Elements(s))
    <2>1. s \in [DOMAIN s -> Elements(s)] /\ \A x \in Elements(s) : \E i \in DOMAIN s : s[i] = x
      BY <1>1 DEF Elements
    <2> QED BY <2>1 DEF Surjection
  <1>4. Elements(s) \subseteq S
    BY <1>1 DEF Elements
  <1> QED BY <1>2, <1>3, <1>4, FS_Surjection

-----------------------------------------------------------------------------
(* Types                                                                    *)

LEMMA TaskLists ==
    /\ RuleTasks \in Seq(Tasks) /\ PlanTasks \in Seq(Tasks) /\ PlanTasks # <<>>
    /\ Elements(RuleTasks) \subseteq Tasks /\ Elements(PlanTasks) \subseteq Tasks
    /\ Elements(RuleTasks) \cap Elements(PlanTasks) = {}
    /\ IsFiniteSet(Elements(RuleTasks)) /\ IsFiniteSet(Elements(PlanTasks))
    /\ \A t : Unique(RuleTasks, t) /\ Unique(PlanTasks, t)
    /\ Job \in Pushers /\ Redistributions \subseteq Pushers
    /\ \A w \in Pushers : w # Job <=> w \in Redistributions
  <1>1. /\ RuleTasks \in Seq(Tasks) /\ PlanTasks \in Seq(Tasks) /\ PlanTasks # <<>>
        /\ Elements(RuleTasks) \cap Elements(PlanTasks) = {} /\ Job \notin Redistributions
    BY DispatchAssumption
  <1>2. \A t : Unique(RuleTasks, t) /\ Unique(PlanTasks, t)
    BY DispatchAssumption DEF Unique
  <1> QED BY <1>1, <1>2, ElementsAreFinite DEF Pushers

LEMMA ListOfType ==
    ASSUME NEW w
    PROVE  /\ ListOf(w) \in Seq(Tasks) /\ Elements(ListOf(w)) \subseteq Tasks
           /\ IsFiniteSet(Elements(ListOf(w))) /\ ListOf(w) \in {PlanTasks, RuleTasks}
           /\ list[w] = "plan" => ListOf(w) = PlanTasks
  BY TaskLists DEF ListOf

\* The task in hand ...
LEMMA InHand ==
    ASSUME TypeOK, NEW w \in Pushers, todo[w] # <<>>
    PROVE  /\ Task(w) \in Tasks /\ Task(w) \in Held(w) /\ Tail(todo[w]) \in Seq(Tasks)
           /\ Held(w) = {Task(w)} \cup Elements(Tail(todo[w]))
  <1>1. todo[w] \in Seq(Tasks)
    BY DEF TypeOK
  <1> QED BY <1>1, HeadTail DEF Task, Held

\* ... is let go, and the next one taken.
LEMMA NextTaskStep ==
    ASSUME TypeOK, NEW w \in Pushers, todo[w] # <<>>, NextTask(w)
    PROVE  /\ pc' \in [Pushers -> PC] /\ todo' \in [Pushers -> Seq(Tasks)]
           /\ \A o \in Pushers \ {w} : pc'[o] = pc[o] /\ todo'[o] = todo[o] /\ Held(o)' = Held(o)
           /\ todo'[w] = Tail(todo[w]) /\ Held(w) = {Task(w)} \cup Held(w)'
           /\ pc'[w] = "push" => todo'[w] # <<>>
           /\ pc'[w] \notin PushPC \ {"push"}
           /\ w # Job => pc'[w] \in {"push", "leftPending"}
           /\ w = Job /\ Task(w) \in Elements(RuleTasks) => pc'[w] \in {"rSave", "rNotify"}
           /\ w = Job /\ Task(w) \notin Elements(RuleTasks) => pc'[w] \in {"push", "pNotify"}
  <1>1. Tail(todo[w]) \in Seq(Tasks) /\ Held(w) = {Task(w)} \cup Elements(Tail(todo[w]))
    BY InHand
  <1>2. /\ todo' = [todo EXCEPT ![w] = Tail(todo[w])]
        /\ \E to \in {"push", "leftPending", "rSave", "rNotify", "pNotify"} :
              /\ pc' = [pc EXCEPT ![w] = to]
              /\ to = "push" => Tail(todo[w]) # <<>>
              /\ w # Job => to \in {"push", "leftPending"}
              /\ w = Job /\ Task(w) \in Elements(RuleTasks) => to \in {"rSave", "rNotify"}
              /\ w = Job /\ Task(w) \notin Elements(RuleTasks) => to \in {"push", "pNotify"}
    BY DEF NextTask, Goto
  <1>3. pc \in [Pushers -> PC] /\ todo \in [Pushers -> Seq(Tasks)]
    BY DEF TypeOK
  <1> QED BY <1>1, <1>2, <1>3 DEF PC, PushPC, Held

\* An exception drops what is left.
LEMMA RaisedStep ==
    ASSUME TypeOK, NEW w \in Pushers, Raised(w)
    PROVE  /\ pc' \in [Pushers -> PC] /\ todo' \in [Pushers -> Seq(Tasks)]
           /\ \A o \in Pushers \ {w} : pc'[o] = pc[o] /\ todo'[o] = todo[o] /\ Held(o)' = Held(o)
           /\ todo'[w] = <<>> /\ Held(w)' = {}
           /\ w = Job => pc'[w] = "abort"
           /\ w # Job => pc'[w] = "over"
  <1>1. pc \in [Pushers -> PC] /\ todo \in [Pushers -> Seq(Tasks)]
    BY DEF TypeOK
  <1> QED BY <1>1, EmptyElements DEF Raised, Goto, PC, PushPC, Held

\* A pusher that only goes on.
LEMMA GotoStep ==
    ASSUME TypeOK, NEW w \in Pushers, NEW to \in PC, Goto(w, to)
    PROVE  /\ pc' \in [Pushers -> PC] /\ pc'[w] = to
           /\ \A o \in Pushers \ {w} : pc'[o] = pc[o]
  BY DEF TypeOK, Goto

LEMMA MoveStep ==
    ASSUME TypeOK, NEW w \in Pushers, NEW from, NEW to \in PC, Move(w, from, to)
    PROVE  /\ pc' \in [Pushers -> PC] /\ pc'[w] = to /\ pc[w] = from
           /\ \A o \in Pushers \ {w} : pc'[o] = pc[o]
  BY DEF TypeOK, Move

LEMMA Limits == MaxRetries \in Nat \ {0} /\ 0 \in 0..MaxRetries /\ MaxMishaps \in Nat
  <1>1. MaxRetries \in Nat \ {0} /\ MaxMishaps \in Nat
    BY DispatchAssumption
  <1> QED BY <1>1

LEMMA MishapType ==
    ASSUME TypeOK, NEW kind, Mishap(kind)
    PROVE  mishaps' \in 0..MaxMishaps /\ faults' \subseteq AllFaults
  BY Limits DEF Mishap, TypeOK

LEMMA PushType ==
    ASSUME TypeOK, Where, NEW w \in Pushers, Push(w)
    PROVE  TypeOK'
  <1> USE DEF PushPC
  <1>0. pc[w] \in PushPC /\ todo[w] # <<>>
    BY DEF Push, Answered, AnsweredHollow, Lost, Refused, Patch, SetRunning, LogPush,
           Misrecord, PatchFailed,
           SetFailed, FailToRecord, Move, Where
  <1>1. Task(w) \in Tasks
    BY <1>0, InHand
  <1>2. CASE Answered(w)
    <2>1. pc' \in [Pushers -> PC]
      BY <1>2, MoveStep DEF Answered, PC
    <2>2. delivered' \in [Tasks -> Nat]
      BY <1>1, <1>2 DEF Answered, TypeOK
    <2>3. tries' \in [Pushers -> 0..MaxRetries]
      BY <1>2, Limits DEF Answered, TypeOK
    <2>4. created' \in BOOLEAN
      BY <1>2 DEF Answered
    <2> QED BY <1>2, <2>1, <2>2, <2>3, <2>4 DEF Answered, TypeOK, db, env, history
  <1>12. CASE AnsweredHollow(w)
    <2>1. pc' \in [Pushers -> PC]
      BY <1>12, MoveStep DEF AnsweredHollow, PC
    <2>2. hollow' \in SUBSET Tasks
      BY <1>1, <1>12 DEF AnsweredHollow, TypeOK
    <2>3. tries' \in [Pushers -> 0..MaxRetries]
      BY <1>12, Limits DEF AnsweredHollow, TypeOK
    <2>4. created' \in BOOLEAN
      BY <1>12 DEF AnsweredHollow
    <2>5. mishaps' \in 0..MaxMishaps /\ faults' \subseteq AllFaults
      BY <1>12, MishapType DEF AnsweredHollow
    <2> QED BY <1>12, <2>1, <2>2, <2>3, <2>4, <2>5 DEF AnsweredHollow, TypeOK, db, history
  <1>3. CASE Lost(w)
    <2>1. \/ tries[w] + 1 < MaxRetries /\ tries' = [tries EXCEPT ![w] = @ + 1] /\ pc' = pc
          \/ tries' = [tries EXCEPT ![w] = 0] /\ Goto(w, "fpatch")
      BY <1>3, Zenon DEF Lost
    <2>2. tries' \in [Pushers -> 0..MaxRetries] /\ pc' \in [Pushers -> PC]
      <3>1. tries \in [Pushers -> 0..MaxRetries] /\ pc \in [Pushers -> PC]
        BY DEF TypeOK
      <3>2. tries[w] + 1 < MaxRetries => tries[w] + 1 \in 0..MaxRetries
        BY <3>1, Limits
      <3>3. Goto(w, "fpatch") => pc' \in [Pushers -> PC]
        BY GotoStep DEF PC
      <3> QED BY <2>1, <3>1, <3>2, <3>3, Limits
    <2>3. delivered' \in [Tasks -> Nat] /\ blurred' \in SUBSET Tasks
      <3>1. delivered \in [Tasks -> Nat] /\ blurred \in SUBSET Tasks
        BY DEF TypeOK
      <3> QED BY <1>1, <1>3, <3>1 DEF Lost
    <2>4. mishaps' \in 0..MaxMishaps /\ faults' \subseteq AllFaults
      BY <1>3, MishapType DEF Lost
    <2> QED BY <1>3, <2>2, <2>3, <2>4 DEF Lost, TypeOK, db
  <1>4. CASE Refused(w)
    <2>1. pc' \in [Pushers -> PC]
      BY <1>4, MoveStep DEF Refused, PC
    <2>2. mishaps' \in 0..MaxMishaps /\ faults' \subseteq AllFaults
      BY <1>4, MishapType DEF Refused
    <2> QED BY <1>4, <2>1, <2>2, Limits DEF Refused, TypeOK, db, history
  <1>5. CASE Patch(w)
    <2>1. pc' \in [Pushers -> PC]
      BY <1>5, MoveStep DEF Patch, PC
    <2> QED BY <1>5, <2>1 DEF Patch, TypeOK, env, history
  <1>6. CASE SetRunning(w)
    <2>1. pc' \in [Pushers -> PC] /\ todo' \in [Pushers -> Seq(Tasks)]
      <3>1. CASE w = Job
        BY <1>0, <1>6, <3>1, NextTaskStep DEF SetRunning
      <3>2. CASE w # Job
        BY <1>6, <3>2, GotoStep DEF SetRunning, PC, TypeOK
      <3> QED BY <3>1, <3>2
    <2> QED BY <1>6, <2>1 DEF SetRunning, TypeOK, Status, env, history
  <1>7. CASE LogPush(w)
    <2>1. pc' \in [Pushers -> PC] /\ todo' \in [Pushers -> Seq(Tasks)]
      BY <1>0, <1>7, NextTaskStep DEF LogPush
    <2> QED BY <1>7, <2>1 DEF LogPush, TypeOK, db, env, history
  <1>8. CASE Misrecord(w)
    <2>1. pc' \in [Pushers -> PC]
      BY <1>8, GotoStep DEF Misrecord, PC
    <2>2. mishaps' \in 0..MaxMishaps /\ faults' \subseteq AllFaults
      BY <1>8, MishapType DEF Misrecord
    <2> QED BY <1>1, <1>8, <2>1, <2>2 DEF Misrecord, TypeOK, db
  <1>9. CASE PatchFailed(w)
    <2>1. pc' \in [Pushers -> PC]
      BY <1>9, MoveStep DEF PatchFailed, PC
    <2> QED BY <1>9, <2>1 DEF PatchFailed, TypeOK, env, history
  <1>10. CASE SetFailed(w)
    <2>1. pc' \in [Pushers -> PC] /\ todo' \in [Pushers -> Seq(Tasks)]
      BY <1>0, <1>10, NextTaskStep DEF SetFailed
    <2> QED BY <1>10, <2>1 DEF SetFailed, TypeOK, Status, env, history
  <1>11. CASE FailToRecord(w)
    <2>1. pc' \in [Pushers -> PC] /\ todo' \in [Pushers -> Seq(Tasks)]
      BY <1>11, RaisedStep DEF FailToRecord
    <2>2. mishaps' \in 0..MaxMishaps /\ faults' \subseteq AllFaults
      BY <1>11, MishapType DEF FailToRecord
    <2> QED BY <1>11, <2>1, <2>2 DEF FailToRecord, TypeOK, db, history
  <1> QED BY <1>2, <1>3, <1>4, <1>5, <1>6, <1>7, <1>8, <1>9, <1>10, <1>11, <1>12 DEF Push

LEMMA JobStepType ==
    ASSUME TypeOK, Where, JobStep
    PROVE  TypeOK'
  <1>0. Job \in Pushers
    BY TaskLists
  <1> USE DEF PC, PushPC
  <1>1. CASE SaveRuleTask
    <2>1. pc' \in [Pushers -> PC] /\ row' \in [Tasks -> Status]
      BY ZenonT(60), <1>0, <1>1 DEF SaveRuleTask, SaveRows, Goto, TypeOK, Status
    <2> QED BY <1>1, <2>1 DEF SaveRuleTask, TypeOK, env, history
  <1>2. CASE NotifyRules
    BY <1>0, <1>2, MoveStep DEF NotifyRules, TypeOK, db, env, history
  <1>3. CASE SendMessages
    BY <1>0, <1>3, MoveStep DEF SendMessages, TypeOK, db, env, history
  <1>4. CASE SavePlanTasks
    <2>1. pc' \in [Pushers -> PC] /\ row' \in [Tasks -> Status]
      BY <1>0, <1>4 DEF SavePlanTasks, SaveRows, Move, TypeOK, Status
    <2>2. todo' \in [Pushers -> Seq(Tasks)]
      BY <1>4, TaskLists DEF SavePlanTasks, TypeOK
    <2> QED BY <1>4, <2>1, <2>2 DEF SavePlanTasks, TypeOK, env, history
  <1>5. CASE NotifyPlan
    BY <1>0, <1>5, MoveStep DEF NotifyPlan, TypeOK, db, env, history
  <1>6. CASE RunAutoActions
    BY <1>0, <1>6, MoveStep DEF RunAutoActions, TypeOK, db, env, history
  <1>7. CASE ScheduleReview
    <2>1. pc' \in [Pushers -> PC]
      BY <1>0, <1>7, MoveStep DEF ScheduleReview
    <2>2. mishaps' \in 0..MaxMishaps /\ faults' \subseteq AllFaults
      BY <1>7, MishapType DEF ScheduleReview, TypeOK, env
    <2> QED BY <1>7, <2>1, <2>2 DEF ScheduleReview, TypeOK, history
  <1>8. CASE Stumble
    <2>1. pc' \in [Pushers -> PC] /\ todo' \in [Pushers -> Seq(Tasks)]
      BY <1>0, <1>8, RaisedStep DEF Stumble
    <2>2. mishaps' \in 0..MaxMishaps /\ faults' \subseteq AllFaults
      BY <1>8, MishapType DEF Stumble
    <2> QED BY <1>8, <2>1, <2>2 DEF Stumble, TypeOK, db, history
  <1>9. CASE FinishJob
    BY <1>0, <1>9, MoveStep DEF FinishJob, TypeOK, env, history
  <1>10. CASE FailJob
    <2>1. pc' \in [Pushers -> PC] /\ seen[Job] \in BOOLEAN
      BY <1>0, <1>10, MoveStep DEF FailJob, TypeOK
    <2> QED BY <1>10, <2>1 DEF FailJob, TypeOK, env, history
  <1> QED BY <1>1, <1>2, <1>3, <1>4, <1>5, <1>6, <1>7, <1>8, <1>9, <1>10 DEF JobStep

\* What a query found comes after what the request has.
LEMMA CaptureStep ==
    ASSUME TypeOK, NEW w \in Redistributions, NEW S, Capture(w, WithStatus(w, S))
    PROVE  /\ todo' \in [Pushers -> Seq(Tasks)]
           /\ \A o \in Pushers \ {w} : todo'[o] = todo[o] /\ Held(o)' = Held(o)
           /\ \E answer \in Seq(Tasks) :
                 /\ Elements(answer) \subseteq WithStatus(w, S) /\ \A t : Unique(answer, t)
                 /\ todo'[w] = todo[w] \o answer
                 /\ Held(w)' = Held(w) \cup Elements(answer)
           /\ shared' = shared \cup (WithStatus(w, S) \cap HeldByOther(w))
           /\ WithStatus(w, S) \subseteq Tasks
  <1> DEFINE found == WithStatus(w, S)
  <1>1. found \subseteq Elements(ListOf(w)) /\ found \subseteq Tasks /\ IsFiniteSet(found)
    BY ListOfType, FS_Subset DEF WithStatus
  <1>2. PICK answer \in Listings(found) : todo' = [todo EXCEPT ![w] = todo[w] \o answer]
    BY DEF Capture
  <1> HIDE DEF found
  <1>3. /\ answer \in Seq(Tasks) /\ Elements(answer) \subseteq found
        /\ \A t : Unique(answer, t)
    BY <1>1, <1>2, ListingsAnswer
  <1>4. w \in Pushers /\ todo[w] \in Seq(Tasks)
    BY TaskLists DEF TypeOK
  <1>5. /\ todo[w] \o answer \in Seq(Tasks)
        /\ Elements(todo[w] \o answer) = Elements(todo[w]) \cup Elements(answer)
    BY <1>3, <1>4, Concat
  <1>6. /\ todo' \in [Pushers -> Seq(Tasks)] /\ todo'[w] = todo[w] \o answer
        /\ \A o \in Pushers \ {w} : todo'[o] = todo[o]
    BY <1>2, <1>4, <1>5 DEF TypeOK
  <1>7. shared' = shared \cup (found \cap HeldByOther(w))
    BY DEF Capture, found
  <1> QED BY <1>1, <1>3, <1>5, <1>6, <1>7 DEF Held, found

LEMMA RequestType ==
    ASSUME TypeOK, Where, NEW w \in Redistributions, ReadState(w) \/ Redistribute(w)
    PROVE  TypeOK'
  <1>0. w \in Pushers
    BY TaskLists
  <1> USE DEF PC, PushPC
  <1>1. CASE ReadState(w)
    <2>1. session.pending \in BOOLEAN
      BY DEF TypeOK
    <2> QED BY <1>0, <1>1, <2>1, GotoStep DEF ReadState, TypeOK, db, env, history
  <1>2. CASE ListPending(w)
    <2>1. pc' \in [Pushers -> PC]
      BY <1>0, <1>2, MoveStep DEF ListPending
    <2>2. todo' \in [Pushers -> Seq(Tasks)] /\ shared' \in SUBSET Tasks
      BY <1>2, CaptureStep DEF ListPending, TypeOK
    <2> QED BY <1>2, <2>1, <2>2 DEF ListPending, TypeOK, db, env
  <1>3. CASE ListFailed(w)
    <2>1. pc' \in [Pushers -> PC]
      BY <1>0, <1>3, GotoStep DEF ListFailed
    <2>2. todo' \in [Pushers -> Seq(Tasks)] /\ shared' \in SUBSET Tasks
      BY <1>3, CaptureStep DEF ListFailed, TypeOK
    <2> QED BY <1>3, <2>1, <2>2 DEF ListFailed, TypeOK, db, env
  <1>4. CASE CountPending(w)
    BY <1>0, <1>4, MoveStep DEF CountPending, TypeOK, db, env, history
  <1>5. CASE CountFailed(w)
    BY <1>0, <1>5, GotoStep DEF CountFailed, TypeOK, db, env, history
  <1>6. CASE SettleAdoption(w)
    BY <1>0, <1>6, MoveStep DEF SettleAdoption, TypeOK, env
  <1>7. CASE FailRequest(w)
    <2>1. pc' \in [Pushers -> PC] /\ todo' \in [Pushers -> Seq(Tasks)]
      BY <1>0, <1>7, RaisedStep DEF FailRequest
    <2>2. mishaps' \in 0..MaxMishaps /\ faults' \subseteq AllFaults
      BY <1>7, MishapType DEF FailRequest
    <2> QED BY <1>7, <2>1, <2>2 DEF FailRequest, TypeOK, db, history
  <1> QED BY <1>1, <1>2, <1>3, <1>4, <1>5, <1>6, <1>7 DEF Redistribute

LEMMA UserType ==
    ASSUME TypeOK, UserStep
    PROVE  TypeOK'
  <1>1. PICK t \in Tasks, new \in {"completed", "failed", "running"} : SetByUser(t, new)
    BY DEF UserStep
  <1>2. row' \in [Tasks -> Status]
    BY <1>1 DEF SetByUser, TypeOK, Status
  <1>3. touched' \in SUBSET Tasks /\ settled' \in SUBSET Tasks /\ blurred' \in SUBSET Tasks
    BY <1>1 DEF SetByUser, TypeOK
  <1>4. MaxEdits \in Nat
    BY DispatchAssumption
  <1>5. edits' \in 0..MaxEdits
    BY <1>1, <1>4 DEF SetByUser, TypeOK
  <1> QED BY <1>1, <1>2, <1>3, <1>5 DEF SetByUser, TypeOK, own, env

-----------------------------------------------------------------------------
(* Where the pushers stand                                                  *)

\* Only one pusher moves.
Alone(w) == \A o \in Pushers \ {w} : pc'[o] = pc[o] /\ todo'[o] = todo[o] /\ Held(o)' = Held(o)

LEMMA WhereStep ==
    ASSUME Where, NEW w \in Pushers, Alone(w),
           w = Job => pc'[w] \in JobPC,
           w # Job => pc'[w] \in RequestPC \ {"idle"},
           w # Job /\ pc'[w] = "pendings" => todo'[w] = <<>>,
           pc'[w] \in PushPC => todo'[w] # <<>>
    PROVE  Where'
  <1>1. \A o \in Redistributions : o \in Pushers /\ o # Job
    BY TaskLists
  <1>2. pc'[Job] \in JobPC
    BY TaskLists DEF Where, Alone
  <1>3. \A o \in Redistributions : pc'[o] \in RequestPC
    BY <1>1 DEF Where, Alone
  <1>4. \A o \in Pushers : pc'[o] \in PushPC => todo'[o] # <<>>
    BY DEF Where, Alone
  <1>5. \A o \in Redistributions : pc'[o] \in {"idle", "pendings"} => todo'[o] = <<>>
    BY <1>1 DEF Where, Alone
  <1> QED BY <1>2, <1>3, <1>4, <1>5 DEF Where

\* A push ends by handing on, by going to the next task, or by an exception.
LEMMA PushMoves ==
    ASSUME TypeOK, Where, NEW w \in Pushers, Push(w)
    PROVE  /\ pc[w] \in PushPC /\ todo[w] # <<>> /\ Alone(w)
           /\ UNCHANGED <<list, session, left, closed>>
           /\ \/ /\ todo'[w] = todo[w] /\ Held(w)' = Held(w)
                 /\ pc'[w] \in PushPC /\ (w = Job => pc'[w] # "log")
              \/ NextTask(w) /\ pc[w] \in {"status", "log", "fstatus"}
              \/ Raised(w) /\ pc[w] \in {"fpatch", "fstatus"}
  <1> USE DEF PushPC, PC
  <1>1. pc[w] \in PushPC /\ todo[w] # <<>>
    BY DEF Push, Answered, AnsweredHollow, Lost, Refused, Patch, SetRunning, LogPush,
           Misrecord, PatchFailed,
           SetFailed, FailToRecord, Move, Where
  <1>2. \A to \in PC : UNCHANGED todo /\ Goto(w, to) =>
           Alone(w) /\ todo'[w] = todo[w] /\ Held(w)' = Held(w) /\ pc'[w] = to
    BY GotoStep DEF Alone, Held
  <1>3. \A from, to \in PC : Move(w, from, to) => Goto(w, to)
    BY DEF Move, Goto
  <1>4. NextTask(w) \/ Raised(w) => Alone(w)
    BY <1>1, NextTaskStep, RaisedStep DEF Alone
  <1>5. CASE Answered(w)
    BY <1>1, <1>2, <1>3, <1>5 DEF Answered, db, history
  <1>15. CASE AnsweredHollow(w)
    BY <1>1, <1>2, <1>3, <1>15 DEF AnsweredHollow, db, history
  <1>6. CASE Lost(w)
    <2>1. UNCHANGED <<todo, list, session, left, closed>> /\ (UNCHANGED pc \/ Goto(w,
                      "fpatch"))
      BY <1>6 DEF Lost, db
    <2>2. UNCHANGED <<pc, todo>> =>
             Alone(w) /\ todo'[w] = todo[w] /\ Held(w)' = Held(w) /\ pc'[w] = pc[w]
      BY DEF Alone, Held
    <2>3. pc[w] = "push"
      BY <1>6 DEF Lost
    <2> QED BY <1>1, <1>2, <2>1, <2>2, <2>3
  <1>7. CASE Refused(w)
    BY <1>1, <1>2, <1>3, <1>7 DEF Refused, db, history
  <1>8. CASE Patch(w)
    BY <1>1, <1>2, <1>3, <1>8 DEF Patch, history
  <1>9. CASE SetRunning(w)
    BY <1>1, <1>2, <1>4, <1>9 DEF SetRunning, history
  <1>10. CASE LogPush(w)
    BY <1>1, <1>4, <1>10 DEF LogPush, db, history
  <1>11. CASE Misrecord(w)
    BY <1>1, <1>2, <1>11 DEF Misrecord, db
  <1>12. CASE PatchFailed(w)
    BY <1>1, <1>2, <1>3, <1>12 DEF PatchFailed, history
  <1>13. CASE SetFailed(w)
    BY <1>1, <1>4, <1>13 DEF SetFailed, history
  <1>14. CASE FailToRecord(w)
    BY <1>1, <1>4, <1>14 DEF FailToRecord, db, history
  <1> QED BY <1>5, <1>6, <1>7, <1>8, <1>9, <1>10, <1>11, <1>12, <1>13, <1>14,
            <1>15 DEF Push

LEMMA PushWhere ==
    ASSUME TypeOK, Where, NEW w \in Pushers, Push(w)
    PROVE  Where'
  <1>1. pc[w] \in PushPC /\ todo[w] # <<>> /\ Alone(w)
    BY PushMoves
  <1> USE DEF PushPC, JobPC, RequestPC
  <1>2. CASE todo'[w] = todo[w] /\ pc'[w] \in PushPC /\ (w = Job => pc'[w] # "log")
    BY <1>1, <1>2, WhereStep
  <1>3. CASE NextTask(w)
    BY <1>1, <1>3, NextTaskStep, WhereStep
  <1>4. CASE Raised(w)
    BY <1>4, <1>1, RaisedStep, WhereStep
  <1> QED BY <1>2, <1>3, <1>4, PushMoves

\* Another step of the job takes up the tasks of the plan, keeps what the job holds,
\* or ends in an exception.
JobStages == {"rSave", "rNotify", "messages", "pSave", "pNotify", "auto", "schedule", "finish",
              "abort", "over"}
LEMMA JobMoves ==
    ASSUME TypeOK, Where, JobStep
    PROVE  /\ Alone(Job) /\ pc[Job] \in JobStages
           /\ UNCHANGED <<dispatch, delivered, hollow, list, left, history>>
           /\ \/ /\ pc[Job] = "rSave" /\ todo[Job] # <<>> /\ SaveRows({Task(Job)})
                 /\ pc'[Job] = "push" /\ todo'[Job] = todo[Job] /\ Held(Job)' = Held(Job)
              \/ /\ pc[Job] = "pSave" /\ SaveRows(Elements(PlanTasks))
                 /\ pc'[Job] = "push" /\ todo'[Job] = PlanTasks /\ Held(Job)' = Elements(PlanTasks)
              \/ /\ UNCHANGED row /\ pc'[Job] \in JobStages \ {"rSave", "rNotify"}
                 /\ pc'[Job] = "messages" => pc[Job] = "rNotify" \/ pc[Job] = "rSave"
                 /\ pc'[Job] = "pSave" => pc[Job] = "messages"
                 /\ todo'[Job] = todo[Job] /\ Held(Job)' = Held(Job)
              \/ UNCHANGED row /\ Raised(Job)
  <1>0. Job \in Pushers
    BY TaskLists
  <1> USE DEF PushPC, PC, JobStages
  <1>1. \A to \in PC : UNCHANGED todo /\ Goto(Job, to) =>
           /\ Alone(Job) /\ todo'[Job] = todo[Job] /\ Held(Job)' = Held(Job) /\ pc'[Job] = to
    BY <1>0, GotoStep DEF Alone, Held
  <1>2. \A from, to \in PC : Move(Job, from, to) => Goto(Job, to) /\ pc[Job] = from
    BY DEF Move, Goto
  <1>3. CASE SaveRuleTask
    <2>1. todo[Job] = <<>> => Goto(Job, "messages") /\ UNCHANGED row
      BY <1>3 DEF SaveRuleTask
    <2>2. todo[Job] # <<>> => Goto(Job, "push") /\ SaveRows({Task(Job)})
      BY <1>3 DEF SaveRuleTask
    <2>3. UNCHANGED <<todo, dispatch, delivered, hollow, list, left,
                      history>> /\ pc[Job] = "rSave"
      BY <1>3 DEF SaveRuleTask
    <2> QED BY <1>1, <2>1, <2>2, <2>3
  <1>4. CASE NotifyRules
    BY <1>1, <1>2, <1>4 DEF NotifyRules, db
  <1>5. CASE SendMessages
    BY <1>1, <1>2, <1>5 DEF SendMessages, db
  <1>6. CASE SavePlanTasks
    <2>1. /\ pc[Job] = "pSave" /\ Goto(Job, "push") /\ SaveRows(Elements(PlanTasks))
          /\ todo' = [todo EXCEPT ![Job] = PlanTasks]
          /\ UNCHANGED <<dispatch, delivered, hollow, list, left, history>>
      BY <1>2, <1>6 DEF SavePlanTasks
    <2>2. /\ todo'[Job] = PlanTasks /\ \A o \in Pushers \ {Job} : todo'[o] = todo[o]
          /\ pc'[Job] = "push" /\ \A o \in Pushers \ {Job} : pc'[o] = pc[o]
      BY <1>0, <2>1, GotoStep DEF TypeOK
    <2> QED BY <2>1, <2>2 DEF Alone, Held
  <1>7. CASE NotifyPlan
    BY <1>1, <1>2, <1>7 DEF NotifyPlan, db
  <1>8. CASE RunAutoActions
    BY <1>1, <1>2, <1>8 DEF RunAutoActions, db
  <1>9. CASE ScheduleReview
    BY <1>1, <1>2, <1>9 DEF ScheduleReview
  <1>10. CASE Stumble
    <2>1. pc[Job] \in {"messages", "auto", "rNotify", "pNotify", "rSave", "pSave"} /\ Raised(Job)
      BY <1>10 DEF Stumble
    <2>2. Alone(Job)
      BY <1>0, <2>1, RaisedStep DEF Alone
    <2> QED BY <1>10, <2>1, <2>2 DEF Stumble, db
  <1>11. CASE FinishJob
    BY <1>1, <1>2, <1>11 DEF FinishJob
  <1>12. CASE FailJob
    BY <1>1, <1>2, <1>12 DEF FailJob
  <1> QED BY <1>3, <1>4, <1>5, <1>6, <1>7, <1>8, <1>9, <1>10, <1>11, <1>12 DEF JobStep

LEMMA JobWhere ==
    ASSUME TypeOK, Where, JobStep
    PROVE  Where'
  <1>1. Alone(Job) /\ Job \in Pushers
    BY JobMoves, TaskLists
  <1>2. pc'[Job] \in JobPC /\ (pc'[Job] \in PushPC => todo'[Job] # <<>>)
    <2>1. CASE Raised(Job)
      BY <1>1, <2>1, RaisedStep DEF JobPC, PushPC
    <2>2. CASE (pc'[Job] = "push" /\ todo'[Job] # <<>>) \/ pc'[Job] \in JobStages
      BY <2>2 DEF JobPC, PushPC, JobStages
    <2> QED BY <2>1, <2>2, JobMoves, TaskLists
  <1> QED BY <1>1, <1>2, WhereStep

\* A step of a request that is no push.
LEMMA RequestMoves ==
    ASSUME TypeOK, Where, NEW w \in Redistributions, ReadState(w) \/ Redistribute(w)
    PROVE  /\ Alone(w)
           /\ pc[w] \in {"idle", "pendings", "faileds", "leftPending", "leftFailed", "adopt"}
           /\ UNCHANGED <<row, dispatch, delivered, hollow, list, touched, settled, blurred>>
           /\ \A o \in Redistributions \ {w} : left'[o] = left[o]
           /\ \/ \E S \in {{"pending"}, {"failed"}} : Capture(w, WithStatus(w, S))
              \/ todo'[w] = todo[w] /\ Held(w)' = Held(w) /\ UNCHANGED shared
              \/ todo'[w] = <<>> /\ Held(w)' = {} /\ UNCHANGED shared
  <1>0. w \in Pushers
    BY TaskLists
  <1> USE DEF PushPC, PC
  <1>1. \A to \in PC : UNCHANGED todo /\ Goto(w, to) =>
           Alone(w) /\ todo'[w] = todo[w] /\ Held(w)' = Held(w)
    BY <1>0, GotoStep DEF Alone, Held
  <1>2. \A from, to \in PC : Move(w, from, to) => Goto(w, to) /\ pc[w] = from
    BY DEF Move, Goto
  <1>3. \A to \in PC : \A S : Goto(w, to) /\ Capture(w, WithStatus(w, S)) => Alone(w)
    BY <1>0, GotoStep, CaptureStep DEF Alone
  <1>4. CASE ReadState(w)
    BY <1>1, <1>2, <1>4 DEF ReadState, db, history
  <1>5. CASE ListPending(w)
    BY <1>2, <1>3, <1>5 DEF ListPending, db
  <1>6. CASE ListFailed(w)
    BY <1>3, <1>6 DEF ListFailed, db
  <1>7. CASE CountPending(w)
    BY <1>1, <1>2, <1>7 DEF CountPending, db, history, TypeOK
  <1>8. CASE CountFailed(w)
    BY <1>1, <1>2, <1>8 DEF CountFailed, db, history, TypeOK
  <1>9. CASE SettleAdoption(w)
    BY <1>1, <1>2, <1>9 DEF SettleAdoption
  <1>10. CASE FailRequest(w)
    BY <1>0, <1>10, RaisedStep DEF FailRequest, db, history, Alone
  <1> QED BY <1>4, <1>5, <1>6, <1>7, <1>8, <1>9, <1>10 DEF Redistribute

\* Where such a step ends.
LEMMA RequestLands ==
    ASSUME TypeOK, NEW w \in Redistributions, ReadState(w) \/ Redistribute(w)
    PROVE  \/ pc[w] = "idle" /\ pc'[w] \in {"pendings", "over"} /\ todo' = todo
           \/ pc[w] = "pendings" /\ pc'[w] \in {"faileds", "over"}
           \/ pc[w] = "faileds" /\ pc'[w] \in {"push", "over"} /\ (todo'[w] = <<>> => pc'[w] = "over")
           \/ pc[w] = "leftPending" /\ pc'[w] \in {"leftFailed", "over"}
           \/ pc[w] = "leftFailed" /\ pc'[w] \in {"adopt", "over"}
           \/ pc[w] = "adopt" /\ pc'[w] = "over"
  <1>0. w \in Pushers /\ w # Job
    BY TaskLists
  <1> USE DEF PushPC, PC
  <1>1. CASE ReadState(w)
    BY <1>0, <1>1, GotoStep DEF ReadState
  <1>2. CASE ListPending(w)
    BY <1>0, <1>2, MoveStep DEF ListPending
  <1>3. CASE ListFailed(w)
    BY <1>0, <1>3 DEF ListFailed, Goto, TypeOK
  <1>4. CASE CountPending(w)
    BY <1>0, <1>4, MoveStep DEF CountPending
  <1>5. CASE CountFailed(w)
    BY <1>0, <1>5, GotoStep DEF CountFailed
  <1>6. CASE SettleAdoption(w)
    BY <1>0, <1>6, MoveStep DEF SettleAdoption
  <1>7. CASE FailRequest(w)
    BY <1>0, <1>7, RaisedStep DEF FailRequest
  <1> QED BY <1>1, <1>2, <1>3, <1>4, <1>5, <1>6, <1>7 DEF Redistribute

LEMMA RequestWhere ==
    ASSUME TypeOK, Where, NEW w \in Redistributions, ReadState(w) \/ Redistribute(w)
    PROVE  Where'
  <1>1. w \in Pushers /\ w # Job /\ Alone(w)
    BY TaskLists, RequestMoves
  <1>2. /\ pc'[w] \in RequestPC \ {"idle"} /\ (pc'[w] \in PushPC => todo'[w] # <<>>)
        /\ pc'[w] = "pendings" => todo'[w] = <<>>
    BY RequestLands DEF RequestPC, PushPC, Where
  <1> QED BY <1>1, <1>2, WhereStep

Typing == TypeOK /\ Where

LEMMA InitTyping == Init => Typing
  <1> SUFFICES ASSUME Init PROVE Typing
    OBVIOUS
  <1> USE DEF PC, PushPC
  <1>1. PICK x \in Scenarios :
           /\ session = [phase |-> "executing", pending |-> x.http, adopted |-> ~x.http]
           /\ list = x.list /\ faults = x.faults
    BY DEF Init
  <1>2. x.http \in BOOLEAN /\ x.list \in [Redistributions -> {"plan", "rule"}]
        /\ x.faults \subseteq AllFaults
    BY <1>1, DispatchAssumption
  <1>3. MaxMishaps \in Nat /\ MaxEdits \in Nat
    BY DispatchAssumption
  <1>4. /\ pc \in [Pushers -> PC] /\ todo \in [Pushers -> Seq(Tasks)]
        /\ tries \in [Pushers -> 0..MaxRetries] /\ left \in [Redistributions -> BOOLEAN]
    BY TaskLists, Limits DEF Init
  <1>5. seen \in [Pushers -> BOOLEAN]
    BY <1>1, <1>2 DEF Init
  <1>6. row \in [Tasks -> Status] /\ delivered \in [Tasks -> Nat] /\ hollow \in SUBSET Tasks
        /\ dispatch \in [Tasks -> {"pending", "dispatched", "failed"}]
    BY DEF Init, Status
  <1>7. TypeOK
    <2>1. session \in [phase : {"executing", "waiting_track", "failed"},
                       pending : BOOLEAN, adopted : BOOLEAN]
      BY <1>1, <1>2
    <2>2. /\ mishaps \in 0..MaxMishaps /\ edits \in 0..MaxEdits
          /\ scheduled \in BOOLEAN /\ created \in BOOLEAN /\ closed \in BOOLEAN
          /\ touched \in SUBSET Tasks /\ settled \in SUBSET Tasks
          /\ blurred \in SUBSET Tasks /\ shared \in SUBSET Tasks
      <3>1. /\ mishaps = 0 /\ edits = 0 /\ ~scheduled /\ ~created /\ ~closed
            /\ scheduled \in BOOLEAN /\ created \in BOOLEAN /\ closed \in BOOLEAN
            /\ touched = {} /\ settled = {} /\ blurred = {} /\ shared = {}
        BY DEF Init
      <3> QED BY <1>3, <3>1
    <2>3. list \in [Redistributions -> {"plan", "rule"}] /\ faults \subseteq AllFaults
      BY <1>1, <1>2
    <2> QED BY <1>4, <1>5, <1>6, <2>1, <2>2, <2>3 DEF TypeOK
  <1>8. Where
    BY TaskLists DEF Init, Where, JobPC, RequestPC
  <1> QED BY <1>7, <1>8 DEF Typing

LEMMA StutterTyping == Typing /\ UNCHANGED vars => Typing'
  BY DEF Typing, TypeOK, Where, vars, db, own, env, history

LEMMA UserMoves ==
    ASSUME UserStep
    PROVE  UNCHANGED own /\ UNCHANGED <<dispatch, delivered, hollow, session, shared, closed>>
           /\ \A w : Held(w)' = Held(w)
  <1>1. PICK t \in Tasks, new \in {"completed", "failed", "running"} : SetByUser(t, new)
    BY DEF UserStep
  <1>2. UNCHANGED own /\ UNCHANGED <<dispatch, delivered, hollow, session, shared, closed>>
    BY <1>1 DEF SetByUser
  <1> QED BY <1>2 DEF own, Held

LEMMA StepTyping == Typing /\ [Next]_vars => Typing'
  <1> SUFFICES ASSUME TypeOK, Where, [Next]_vars PROVE Typing'
    BY DEF Typing
  <1>1. CASE JobStep
    BY <1>1, JobStepType, JobWhere DEF Typing
  <1>2. CASE UserStep
    BY <1>2, UserType, UserMoves DEF Typing, Where, own
  <1>3. CASE \E w \in Pushers : Push(w)
    BY <1>3, PushType, PushWhere DEF Typing
  <1>4. CASE \E w \in Redistributions : ReadState(w) \/ Redistribute(w)
    BY <1>4, RequestType, RequestWhere DEF Typing
  <1>5. CASE UNCHANGED vars
    BY <1>5, StutterTyping DEF Typing
  <1> QED BY <1>1, <1>2, <1>3, <1>4, <1>5 DEF Next

LEMMA TypingHolds == Spec => []Typing
  BY InitTyping, StepTyping, PTL DEF Spec

\* Every variable keeps its type, however pushes, requests and users interleave.
THEOREM TypeCorrect == Spec => []TypeOK
  BY TypingHolds, PTL DEF Typing

-----------------------------------------------------------------------------
(* Nothing that was never accepted is hidden                                *)

\* What the loop of a push changes in our rows, and in the business system.
LEMMA PushWrites ==
    ASSUME TypeOK, Where, NEW w \in Pushers, Push(w)
    PROVE  LET t == Task(w)
               IN  /\ t \in Tasks /\ t \in Held(w) /\ todo[w] # <<>>
                   /\ UNCHANGED <<touched, settled, shared>>
                   /\ \A u \in Tasks \ {t} : /\ row'[u] = row[u] /\ dispatch'[u] = dispatch[u]
                                             /\ delivered'[u] = delivered[u]
                                             /\ (u \in Accepted' <=> u \in Accepted)
                   /\ blurred' = blurred \/ blurred' = blurred \cup {t}
                   /\ \/ /\ pc[w] = "push" /\ pc'[w] = "patch" /\ todo'[w] = todo[w]
                         /\ UNCHANGED <<row, dispatch>> /\ t \in Accepted'
                         /\ delivered'[t] \in {delivered[t], delivered[t] + 1}
                      \/ /\ pc[w] = "push" /\ pc'[w] \in {"push", "fpatch"} /\ todo'[w] = todo[w]
                         /\ UNCHANGED <<row, dispatch>>
                         /\ \/ UNCHANGED <<delivered, hollow>>
                            \/ delivered'[t] = delivered[t] + 1 /\ t \in blurred' /\ t \in Accepted'
                      \/ /\ pc[w] = "patch" /\ pc'[w] = "status" /\ todo'[w] = todo[w]
                         /\ dispatch'[t] = "dispatched" /\ UNCHANGED <<row, delivered,
                                                                       hollow>>
                      \/ /\ pc[w] = "status" /\ row'[t] = "running"
                         /\ UNCHANGED <<dispatch, delivered, hollow>>
                         /\ \/ w = Job /\ NextTask(w)
                            \/ w # Job /\ pc'[w] = "log" /\ todo'[w] = todo[w]
                      \/ pc[w] = "log" /\ NextTask(w) /\ UNCHANGED <<row, dispatch,
                                                                     delivered, hollow>>
                      \/ /\ pc[w] \in AfterPush /\ pc'[w] = "fpatch" /\ todo'[w] = todo[w]
                         /\ t \in blurred' /\ UNCHANGED <<row, dispatch, delivered, hollow>>
                      \/ /\ pc[w] = "fpatch" /\ pc'[w] = "fstatus" /\ todo'[w] = todo[w]
                         /\ dispatch'[t] = "failed" /\ UNCHANGED <<row, delivered, hollow>>
                      \/ /\ pc[w] = "fstatus" /\ row'[t] = "failed" /\ NextTask(w)
                         /\ UNCHANGED <<dispatch, delivered, hollow>>
                      \/ /\ pc[w] \in {"fpatch", "fstatus"} /\ Raised(w)
                         /\ UNCHANGED <<row, dispatch, delivered, hollow>>
  <1>0. todo[w] # <<>> /\ Task(w) \in Tasks /\ Task(w) \in Held(w)
    BY PushMoves, InHand
  <1> USE DEF PC, PushPC, AfterPush, Accepted
  <1>1. CASE Answered(w)
    BY <1>0, <1>1, MoveStep DEF Answered, TypeOK, db, history
  <1>11. CASE AnsweredHollow(w)
    BY <1>0, <1>11, MoveStep DEF AnsweredHollow, TypeOK, db, history
  <1>2. CASE Lost(w)
    <2>1. pc'[w] \in {"push", "fpatch"}
      <3>1. UNCHANGED pc \/ Goto(w, "fpatch")
        BY <1>2 DEF Lost
      <3> QED BY <1>2, <3>1, GotoStep DEF Lost
    <2>2. /\ pc[w] = "push" /\ UNCHANGED <<row, dispatch, todo, touched, settled, shared>>
          /\ \/ /\ delivered' = [delivered EXCEPT ![Task(w)] = @ + 1]
                /\ blurred' = blurred \cup {Task(w)}
             \/ UNCHANGED <<delivered, blurred>>
          /\ UNCHANGED hollow
      BY <1>2 DEF Lost, db
    <2> QED BY <1>0, <2>1, <2>2 DEF TypeOK
  <1>3. CASE Refused(w)
    BY <1>0, <1>3, MoveStep DEF Refused, TypeOK, db, history
  <1>4. CASE Patch(w)
    BY <1>0, <1>4, MoveStep DEF Patch, TypeOK, history
  <1>5. CASE SetRunning(w)
    BY <1>0, <1>5, GotoStep DEF SetRunning, TypeOK, history
  <1>6. CASE LogPush(w)
    BY <1>0, <1>6 DEF LogPush, db, history
  <1>7. CASE Misrecord(w)
    BY <1>0, <1>7, GotoStep DEF Misrecord, db
  <1>8. CASE PatchFailed(w)
    BY <1>0, <1>8, MoveStep DEF PatchFailed, TypeOK, history
  <1>9. CASE SetFailed(w)
    BY <1>0, <1>9 DEF SetFailed, TypeOK, history
  <1>10. CASE FailToRecord(w)
    BY <1>0, <1>10 DEF FailToRecord, db, history
  <1> QED BY <1>1, <1>2, <1>3, <1>4, <1>5, <1>6, <1>7, <1>8, <1>9, <1>10, <1>11 DEF Push

LEMMA SaveRowsStep ==
    ASSUME TypeOK, NEW S, SaveRows(S)
    PROVE  \A t \in Tasks : \/ row'[t] = row[t] /\ (t \in S => row[t] # "none")
                            \/ row[t] = "none" /\ row'[t] = "pending" /\ t \in S
  BY DEF SaveRows, TypeOK

LEMMA RecordedStep ==
    ASSUME TypeOK, Recorded, NEW w \in Pushers, Alone(w), pc'[w] \notin AfterPush,
           UNCHANGED <<dispatch, delivered, hollow, touched>>,
           \A t \in Tasks : row'[t] = row[t] \/ row'[t] \in {"none", "pending", "failed"}
    PROVE  Recorded'
  <1>1. \A o \in Pushers \ {w} : Task(o)' = Task(o)
    BY DEF Alone, Task
  <1>2. UndeliveredIsListed'
    BY DEF Recorded, UndeliveredIsListed, Accepted
  <1>3. \A o \in Pushers : pc'[o] \in AfterPush => Task(o)' \in Accepted'
    BY <1>1 DEF Recorded, Alone, Accepted
  <1> QED BY <1>2, <1>3 DEF Recorded

LEMMA PushRecorded ==
    ASSUME TypeOK, Where, Recorded, NEW w \in Pushers, Push(w)
    PROVE  Recorded'
  <1> DEFINE t == Task(w)
  <1>0. t \in Tasks /\ todo[w] # <<>> /\ Alone(w) /\ UNCHANGED touched
    BY PushMoves, PushWrites
  <1>1. \A u \in Tasks : delivered[u] \in Nat /\ delivered'[u] \in Nat
    BY PushType DEF TypeOK
  <1>2. \A u \in Tasks : u \in Accepted => u \in Accepted'
    BY <1>1, PushWrites DEF Accepted
  <1>3. \A u \in Tasks \ {t} : /\ row'[u] = row[u] /\ dispatch'[u] = dispatch[u]
                               /\ (u \in Accepted' <=> u \in Accepted)
    BY PushWrites
  <1>4. pc[w] \in AfterPush => t \in Accepted
    BY DEF Recorded
  <1>5. t \notin Accepted => t \in touched \/ row[t] \in {"none", "pending", "failed"}
    BY <1>0 DEF Recorded, UndeliveredIsListed
  <1>6. t \notin Accepted => dispatch[t] # "dispatched"
    BY <1>0 DEF Recorded, UndeliveredIsListed
  <1>7. /\ t \notin Accepted' => t \in touched \/ row'[t] \in {"none", "pending", "failed"}
        /\ t \notin Accepted' => dispatch'[t] # "dispatched"
    BY <1>0, <1>1, <1>2, <1>4, <1>5, <1>6, PushWrites DEF AfterPush
  <1>8. UndeliveredIsListed'
    BY <1>0, <1>3, <1>7 DEF Recorded, UndeliveredIsListed
  <1>9. pc'[w] \in AfterPush => todo'[w] = todo[w] /\ t \in Accepted'
    <2>1. NextTask(w) \/ Raised(w) => pc'[w] \notin AfterPush
      BY <1>0, NextTaskStep, RaisedStep DEF AfterPush, PushPC
    <2> QED BY <1>0, <1>1, <1>2, <1>4, <2>1, PushWrites DEF AfterPush
  <1>10. \A o \in Pushers : pc'[o] \in AfterPush =>
            Task(o)' = Task(o) /\ Task(o)' \in Accepted'
    <2>1. ASSUME NEW o \in Pushers \ {w}, pc'[o] \in AfterPush
          PROVE  Task(o)' = Task(o) /\ Task(o)' \in Accepted'
      <3>1. pc[o] \in AfterPush /\ todo'[o] = todo[o]
        BY <1>0, <2>1 DEF Alone
      <3>2. Task(o) \in Tasks /\ Task(o) \in Accepted
        BY <3>1, InHand DEF Where, PushPC, AfterPush, Recorded
      <3> QED BY <1>2, <3>1, <3>2 DEF Task
    <2> QED BY <1>9, <2>1 DEF Task
  <1> QED BY <1>8, <1>10 DEF Recorded

LEMMA StepRecorded ==
    ASSUME Typing, Recorded, [Next]_vars
    PROVE  Recorded'
  <1> USE DEF Typing
  <1>1. CASE JobStep
    <2>1. Alone(Job) /\ UNCHANGED <<dispatch, delivered, hollow, touched>> /\ Job \in Pushers
      BY <1>1, JobMoves, TaskLists DEF history
    <2>2. pc'[Job] \notin AfterPush
      BY <1>1, JobMoves, RaisedStep, TaskLists DEF AfterPush, JobStages
    <2>3. \A t \in Tasks : row'[t] = row[t] \/ row'[t] \in {"none", "pending", "failed"}
      BY <1>1, JobMoves, SaveRowsStep
    <2> QED BY <2>1, <2>2, <2>3, RecordedStep
  <1>2. CASE UserStep
    <2>1. UNCHANGED own /\ UNCHANGED <<dispatch, delivered, hollow>>
      BY <1>2, UserMoves
    <2>2. PICK t \in Tasks, new \in {"completed", "failed", "running"} : SetByUser(t, new)
      BY <1>2 DEF UserStep
    <2>3. touched' = touched \cup {t} /\ \A u \in Tasks \ {t} : row'[u] = row[u]
      BY <2>2 DEF SetByUser, TypeOK
    <2> QED BY <2>1, <2>3 DEF Recorded, UndeliveredIsListed, Accepted, own, Task
  <1>3. CASE \E w \in Pushers : Push(w)
    BY <1>3, PushRecorded
  <1>4. CASE \E w \in Redistributions : ReadState(w) \/ Redistribute(w)
    <2>1. PICK w \in Redistributions : ReadState(w) \/ Redistribute(w)
      BY <1>4
    <2>2. w \in Pushers /\ Alone(w) /\ UNCHANGED <<row, dispatch, delivered, hollow, touched>>
      BY <2>1, TaskLists, RequestMoves
    <2>3. pc'[w] \notin AfterPush
      BY <2>1, RequestLands DEF AfterPush
    <2> QED BY <2>2, <2>3, RecordedStep
  <1>5. CASE UNCHANGED vars
    BY <1>5 DEF Recorded, UndeliveredIsListed, Accepted, vars, db, own, history, Task
  <1> QED BY <1>1, <1>2, <1>3, <1>4, <1>5 DEF Next

LEMMA InitRecorded == Init => Recorded
  BY TaskLists DEF Init, Recorded, UndeliveredIsListed, Accepted, AfterPush

LEMMA RecordedHolds == Spec => []Recorded
  BY TypingHolds, InitRecorded, StepRecorded, PTL DEF Spec

\* Nothing that the business system neither created nor answered with a 200 is hidden
\* from a redistribution, whatever is lost, refused or not written.
THEOREM NothingIsHidden == Spec => []UndeliveredIsListed
  BY RecordedHolds, PTL DEF Recorded

-----------------------------------------------------------------------------
(* What is saved and held                                                   *)

\* Once saved, a task stays saved.
LEMMA SavedStays ==
    ASSUME TypeOK, Where, [Next]_vars
    PROVE  \A t \in Tasks : row[t] # "none" => row'[t] # "none"
  <1>1. CASE JobStep
    BY <1>1, JobMoves, SaveRowsStep
  <1>2. CASE UserStep
    BY <1>2 DEF UserStep, SetByUser, TypeOK
  <1>3. CASE \E w \in Pushers : Push(w)
    BY <1>3, PushWrites
  <1>4. CASE \E w \in Redistributions : ReadState(w) \/ Redistribute(w)
    BY <1>4, RequestMoves
  <1>5. CASE UNCHANGED vars
    BY <1>5 DEF vars, db
  <1> QED BY <1>1, <1>2, <1>3, <1>4, <1>5 DEF Next

LEMMA HeldTasks ==
    ASSUME TypeOK, NEW w \in Pushers
    PROVE  Held(w) \subseteq Tasks
  BY ElementsAreFinite DEF TypeOK, Held

\* A request holds saved tasks of its list ...
LEMMA RequestHolds ==
    ASSUME TypeOK, Where, Stages, [Next]_vars, NEW w \in Redistributions
    PROVE  Held(w)' \subseteq Elements(ListOf(w)') /\ Saved(Held(w))'
  <1>0. /\ w \in Pushers /\ w # Job /\ Held(w) \subseteq Tasks
        /\ Held(w) \subseteq Elements(ListOf(w)) /\ \A t \in Held(w) : row[t] # "none"
    BY TaskLists, HeldTasks DEF Stages, Saved
  <1>1. UNCHANGED list /\ Held(w)' \subseteq Held(w)
        => Held(w)' \subseteq Elements(ListOf(w)') /\ Saved(Held(w))'
    BY <1>0, SavedStays DEF Saved, ListOf
  <1>2. CASE JobStep
    BY <1>0, <1>1, <1>2, JobMoves DEF Alone
  <1>3. CASE UserStep
    BY <1>1, <1>3, UserMoves DEF own
  <1>4. ASSUME NEW o \in Pushers, Push(o)
        PROVE  Held(w)' \subseteq Elements(ListOf(w)') /\ Saved(Held(w))'
    <2>1. UNCHANGED list /\ Alone(o)
      BY <1>4, PushMoves
    <2>2. Held(o)' \subseteq Held(o)
      BY <1>4, PushMoves, NextTaskStep, RaisedStep
    <2> QED BY <1>0, <1>1, <2>1, <2>2 DEF Alone
  <1>5. ASSUME NEW o \in Redistributions, ReadState(o) \/ Redistribute(o)
        PROVE  Held(w)' \subseteq Elements(ListOf(w)') /\ Saved(Held(w))'
    <2>1. UNCHANGED <<list, row>> /\ Alone(o)
      BY <1>5, RequestMoves
    <2>2. CASE o # w \/ Held(w)' \subseteq Held(w)
      BY <1>0, <1>1, <2>1, <2>2 DEF Alone
    <2>3. CASE \E S \in {{"pending"}, {"failed"}} : Capture(w, WithStatus(w, S))
      <3>1. PICK S \in {{"pending"}, {"failed"}} : Capture(w, WithStatus(w, S))
        BY <2>3
      <3>2. Held(w)' \subseteq Held(w) \cup WithStatus(w, S)
        BY <3>1, CaptureStep
      <3> QED BY <1>0, <2>1, <3>1, <3>2 DEF WithStatus, Saved, ListOf
    <2> QED BY <1>5, <2>2, <2>3, RequestMoves
  <1>6. CASE UNCHANGED vars
    BY <1>1, <1>6 DEF vars, own, Held
  <1> QED BY <1>2, <1>3, <1>4, <1>5, <1>6 DEF Next

\* ... and the job tasks of the rules while those of the plan are not saved, then
\* tasks of the plan, which are saved together.
JobHolds ==
    /\ pc[Job] \in {"rSave", "rNotify", "messages", "pSave"} => RuleStage
    /\ pc[Job] \in PushPC => RuleStage \/ PlanStage
    /\ Unsaved(Elements(PlanTasks)) \/ Saved(Elements(PlanTasks))

\* The rows of the plan's tasks are saved by SavePlanTasks only.
LEMMA PlanRows ==
    ASSUME TypeOK, Where, Stages, [Next]_vars
    PROVE  /\ Saved(Elements(PlanTasks)) => Saved(Elements(PlanTasks))'
           /\ Unsaved(Elements(PlanTasks)) =>
                \/ Unsaved(Elements(PlanTasks))'
                \/ /\ pc[Job] = "pSave" /\ JobStep /\ Held(Job)' = Elements(PlanTasks)
                   /\ Saved(Elements(PlanTasks))'
  <1> DEFINE P == Elements(PlanTasks)
  <1>0. P \subseteq Tasks /\ P \cap Elements(RuleTasks) = {} /\ Job \in Pushers
    BY TaskLists
  <1> HIDE DEF P
  <1>1. Saved(P) => Saved(P)'
    BY <1>0, SavedStays DEF Saved
  <1>2. ASSUME Unsaved(P)
        PROVE  Unsaved(P)' \/ (pc[Job] = "pSave" /\ JobStep /\ Held(Job)' = P /\ Saved(P)')
    <2>1. CASE JobStep
      <3>1. CASE SaveRows({Task(Job)}) /\ pc[Job] = "rSave" /\ todo[Job] # <<>>
        <4>1. Task(Job) \in Elements(RuleTasks)
          BY <1>0, <3>1, InHand DEF Stages, RuleStage
        <4> QED BY <1>0, <1>2, <3>1, <4>1, SaveRowsStep DEF Unsaved
      <3>2. CASE SaveRows(P) /\ pc[Job] = "pSave" /\ Held(Job)' = P
        BY <1>0, <2>1, <3>2, SaveRowsStep DEF Saved
      <3>3. CASE UNCHANGED row
        BY <1>2, <3>3 DEF Unsaved
      <3> QED BY <2>1, <3>1, <3>2, <3>3, JobMoves DEF P
    <2>2. CASE UserStep
      BY <1>0, <1>2, <2>2 DEF UserStep, SetByUser, TypeOK, Unsaved
    <2>3. ASSUME NEW w \in Pushers, Push(w)
          PROVE  Unsaved(P)'
      <3>1. pc[w] \in PushPC /\ Task(w) \in Held(w)
        BY <2>3, PushMoves, PushWrites
      <3>2. Task(w) \notin P
        <4>1. CASE w = Job
          BY <1>0, <1>2, <3>1, <4>1 DEF Stages, RuleStage, PlanStage, Saved, Unsaved, P
        <4>2. CASE w # Job
          <5>1. row[Task(w)] # "none"
            BY <3>1, <4>2, TaskLists DEF Stages, Saved
          <5> QED BY <1>2, <5>1 DEF Unsaved
        <4> QED BY <4>1, <4>2
      <3> QED BY <1>0, <1>2, <2>3, <3>2, PushWrites DEF Unsaved
    <2>4. ASSUME NEW w \in Redistributions, ReadState(w) \/ Redistribute(w)
          PROVE  Unsaved(P)'
      BY <1>2, <2>4, RequestMoves DEF Unsaved
    <2>5. CASE UNCHANGED vars
      BY <1>2, <2>5 DEF Unsaved, vars, db
    <2> QED BY <2>1, <2>2, <2>3, <2>4, <2>5 DEF Next
  <1> QED BY <1>1, <1>2 DEF P

LEMMA JobHoldsNext ==
    ASSUME TypeOK, Where, Stages, [Next]_vars
    PROVE  JobHolds'
  <1> DEFINE P == Elements(PlanTasks)
             stay == /\ Unsaved(P) => Unsaved(P)'
                     /\ Saved(P) => Saved(P)'
  <1>0. P \subseteq Tasks /\ P \cap Elements(RuleTasks) = {} /\ Job \in Pushers
    BY TaskLists
  <1>1. Unsaved(P)' \/ Saved(P)'
    BY PlanRows DEF Stages
  <1>2. pc[Job] # "pSave" \/ ~JobStep => stay
    BY PlanRows
  <1>3. CASE JobStep
    <2>1. CASE pc[Job] = "pSave"
      <3>1. pc'[Job] \notin {"rSave", "rNotify", "messages", "pSave"}
        BY <1>0, <1>3, <2>1, JobMoves, RaisedStep
      <3>2. pc'[Job] \in PushPC => Held(Job)' = P /\ Saved(P)'
        <4>1. pc'[Job] \in PushPC => SaveRows(P) /\ Held(Job)' = P
          BY <1>0, <1>3, <2>1, JobMoves, RaisedStep DEF PushPC, JobStages
        <4> QED BY <1>0, <4>1, SaveRowsStep DEF Saved
      <3> QED BY <1>1, <3>1, <3>2 DEF JobHolds, PlanStage
    <2>2. CASE pc[Job] # "pSave"
      <3>1. stay
        BY <1>2, <2>2
      <3>2. pc'[Job] \in {"rSave", "rNotify", "messages", "pSave"} \cup PushPC =>
               /\ pc[Job] \in {"rSave", "rNotify", "messages", "pSave"}
               /\ Held(Job)' = Held(Job)
        BY <1>0, <1>3, <2>2, JobMoves, RaisedStep DEF JobStages, PushPC
      <3>3. pc'[Job] \in {"rSave", "rNotify", "messages", "pSave"} \cup PushPC => RuleStage'
        BY <3>1, <3>2 DEF Stages, RuleStage
      <3> QED BY <1>1, <3>3 DEF JobHolds
    <2> QED BY <2>1, <2>2
  <1>4. CASE pc'[Job] = pc[Job] /\ Held(Job)' = Held(Job) /\ stay
    BY <1>1, <1>4 DEF Stages, JobHolds, RuleStage, PlanStage
  <1>5. CASE UserStep
    <2>1. stay
      BY <1>0, <1>5 DEF UserStep, SetByUser, TypeOK, Unsaved, Saved
    <2> QED BY <1>4, <1>5, <2>1, UserMoves DEF own
  <1>6. ASSUME NEW w \in Pushers, Push(w)
        PROVE  JobHolds'
    <2>1. stay
      <3>1. CASE w = Job
        <4>1. pc[Job] # "pSave"
          BY <1>6, <3>1, PushMoves DEF PushPC
        <4> QED BY <1>2, <4>1
      <3>2. CASE w # Job
        <4>1. row[Task(w)] # "none" /\ Task(w) \in Tasks
          BY <1>6, <3>2, TaskLists, PushWrites DEF Stages, Saved
        <4> QED BY <1>0, <1>6, <4>1, PushWrites, SavedStays DEF Unsaved, Saved
      <3> QED BY <3>1, <3>2
    <2>2. CASE w # Job
      BY <1>0, <1>4, <1>6, <2>1, <2>2, PushMoves DEF Alone
    <2>3. CASE w = Job
      <3>1. pc[Job] \in PushPC /\ todo[Job] # <<>> /\ (RuleStage \/ PlanStage)
        BY <1>6, <2>3, PushMoves DEF Stages
      <3>2. CASE pc'[Job] \in PushPC /\ Held(Job)' = Held(Job)
        BY <1>1, <2>1, <3>1, <3>2 DEF JobHolds, RuleStage, PlanStage, PushPC
      <3>3. CASE NextTask(Job)
        <4>1. /\ Held(Job)' \subseteq Held(Job) /\ Task(Job) \in Held(Job)
              /\ Task(Job) \in Elements(RuleTasks) => pc'[Job] \in {"rSave", "rNotify"}
              /\ Task(Job) \notin Elements(RuleTasks) => pc'[Job] \in {"push", "pNotify"}
          BY <1>0, <3>1, <3>3, NextTaskStep, InHand
        <4>2. CASE RuleStage
          BY <1>1, <2>1, <4>1, <4>2 DEF JobHolds, RuleStage, PushPC
        <4>3. CASE PlanStage
          BY <1>0, <1>1, <2>1, <4>1, <4>3 DEF JobHolds, PlanStage
        <4> QED BY <3>1, <4>2, <4>3
      <3>4. CASE Raised(Job)
        BY <1>0, <1>1, <3>4, RaisedStep DEF JobHolds, PushPC
      <3> QED BY <1>6, <2>3, <3>2, <3>3, <3>4, PushMoves
    <2> QED BY <2>2, <2>3
  <1>7. ASSUME NEW w \in Redistributions, ReadState(w) \/ Redistribute(w)
        PROVE  JobHolds'
    <2>1. stay
      BY <1>7, RequestMoves DEF Unsaved, Saved
    <2> QED BY <1>0, <1>4, <1>7, <2>1, RequestMoves, TaskLists DEF Alone
  <1>8. CASE UNCHANGED vars
    <2>1. stay
      BY <1>8 DEF vars, db, Unsaved, Saved
    <2> QED BY <1>4, <1>8, <2>1 DEF vars, own, Held
  <1> QED BY <1>3, <1>5, <1>6, <1>7, <1>8 DEF Next

LEMMA StepStages ==
    ASSUME Typing, Stages, [Next]_vars
    PROVE  Stages'
  BY JobHoldsNext, RequestHolds DEF Typing, Stages, JobHolds

LEMMA InitStages == Init => Stages
  BY TaskLists, EmptyElements
     DEF Init, Stages, RuleStage, Held, Unsaved, Saved, PushPC, ListOf

LEMMA StagesHold == Spec => []Stages
  BY TypingHolds, InitStages, StepStages, PTL DEF Spec

-----------------------------------------------------------------------------
(* What a user completed                                                    *)

LEMMA SettledStep ==
    ASSUME TypeOK, SettledIsFree, NEW w \in Pushers, Alone(w), UNCHANGED settled,
           \A t \in settled : row'[t] = row[t] /\ t \notin Held(w)'
    PROVE  SettledIsFree'
  BY DEF SettledIsFree, Alone

LEMMA StepSettled ==
    ASSUME Typing, Stages, SettledIsFree, [Next]_vars
    PROVE  SettledIsFree'
  <1> USE DEF Typing
  <1>0. settled \subseteq Tasks /\ Job \in Pushers /\ Elements(PlanTasks) \subseteq Tasks
    BY TaskLists DEF TypeOK
  <1>1. \A t \in settled : row[t] = "completed" /\ \A w \in Pushers : t \notin Held(w)
    BY DEF SettledIsFree
  <1>2. CASE JobStep
    <2>1. \A t \in settled : row'[t] = row[t]
      BY <1>0, <1>1, <1>2, JobMoves, SaveRowsStep
    <2>2. \A t \in settled : t \notin Held(Job)'
      <3>1. CASE Held(Job)' = Held(Job) \/ Held(Job)' = {}
        BY <1>0, <1>1, <3>1
      <3>2. CASE pc[Job] = "pSave" /\ Held(Job)' = Elements(PlanTasks)
        <4>1. \A t \in Elements(PlanTasks) : row[t] = "none"
          BY <3>2 DEF Stages, RuleStage, Unsaved
        <4> QED BY <1>1, <3>2, <4>1
      <3> QED BY <1>0, <1>2, <3>1, <3>2, JobMoves, RaisedStep
    <2> QED BY <1>0, <1>2, <2>1, <2>2, JobMoves, SettledStep DEF history
  <1>3. CASE UserStep
    <2>1. PICK t \in Tasks, new \in {"completed", "failed", "running"} : SetByUser(t, new)
      BY <1>3 DEF UserStep
    <2>2. /\ row'[t] = new /\ \A u \in Tasks \ {t} : row'[u] = row[u]
          /\ settled' = IF new = "completed" /\ \A w \in Pushers : t \notin Held(w)
                        THEN settled \cup {t} ELSE settled \ {t}
      BY <2>1 DEF SetByUser, TypeOK
    <2>3. \A w : Held(w)' = Held(w)
      BY <1>3, UserMoves
    <2> QED BY <1>0, <1>1, <2>2, <2>3 DEF SettledIsFree
  <1>4. ASSUME NEW w \in Pushers, Push(w)
        PROVE  SettledIsFree'
    <2>1. Held(w)' \subseteq Held(w)
      BY <1>4, PushMoves, NextTaskStep, RaisedStep
    <2>2. \A t \in settled : row'[t] = row[t] /\ t \notin Held(w)'
      BY <1>0, <1>1, <1>4, <2>1, PushWrites
    <2> QED BY <1>4, <2>2, PushMoves, PushWrites, SettledStep
  <1>5. ASSUME NEW w \in Redistributions, ReadState(w) \/ Redistribute(w)
        PROVE  SettledIsFree'
    <2>1. w \in Pushers /\ UNCHANGED <<row, settled>> /\ Alone(w)
      BY <1>5, RequestMoves, TaskLists
    <2>2. \A t \in settled : t \notin Held(w)'
      <3>1. CASE \E S \in {{"pending"}, {"failed"}} : Capture(w, WithStatus(w, S))
        <4>1. PICK S \in {{"pending"}, {"failed"}} : Capture(w, WithStatus(w, S))
          BY <3>1
        <4>2. Held(w)' \subseteq Held(w) \cup WithStatus(w, S)
          BY <4>1, CaptureStep
        <4> QED BY <1>1, <2>1, <4>1, <4>2 DEF WithStatus
      <3>2. CASE Held(w)' \subseteq Held(w)
        BY <1>1, <2>1, <3>2
      <3> QED BY <1>5, <3>1, <3>2, RequestMoves
    <2> QED BY <2>1, <2>2, SettledStep
  <1>6. CASE UNCHANGED vars
    BY <1>1, <1>6 DEF SettledIsFree, vars, db, own, history, Held
  <1> QED BY <1>2, <1>3, <1>4, <1>5, <1>6 DEF Next

LEMMA SettledHolds == Spec => []SettledIsFree
  <1>1. Init => SettledIsFree
    BY DEF Init, SettledIsFree
  <1> QED BY <1>1, TypingHolds, StagesHold, StepSettled, PTL DEF Spec

\* What a user completed while nobody pushed it stays completed, until a user says
\* otherwise: no adoption job and no redistribution takes it up.
THEOREM CompletedStays == Spec => []CompletedIsKept
  <1>1. SettledIsFree => CompletedIsKept
    BY DEF SettledIsFree, CompletedIsKept
  <1> QED BY <1>1, SettledHolds, PTL

-----------------------------------------------------------------------------
(* What the two counts of a request add up to                               *)

\* What was accepted or said by a user stays so, and what had failed can only have
\* become so; the task lists of the requests never change.
LEMMA CountsKeep ==
    ASSUME Typing, Stages, Recorded, [Next]_vars
    PROVE  /\ UNCHANGED list
           /\ \A t \in Tasks : AcceptedOrTouched(t) => AcceptedOrTouched(t)'
           /\ Saved(Elements(PlanTasks)) =>
                /\ Saved(Elements(PlanTasks))'
                /\ \A t \in Elements(PlanTasks) :
                      row[t] = "failed" => AcceptedOrTouched(t)' \/ row'[t] = "failed"
  <1> USE DEF Typing
  <1>0. Elements(PlanTasks) \subseteq Tasks
    BY TaskLists
  <1>1. Recorded' /\ TypeOK' /\ TypeOK
    BY StepRecorded, StepTyping
  <1>2. \A t \in Tasks : delivered[t] \in Nat /\ delivered'[t] \in Nat
    BY <1>1 DEF TypeOK
  <1> DEFINE keep == /\ UNCHANGED list
                     /\ \A t \in Tasks : t \in Accepted => t \in Accepted'
                     /\ touched \subseteq touched'
                     /\ \A t \in Tasks : row[t] = "failed" => row'[t] \notin {"none", "pending"}
  <1>3. keep
    <2>1. CASE JobStep
      BY <2>1, JobMoves, SaveRowsStep DEF history, Accepted
    <2>2. CASE UserStep
      <3>1. UNCHANGED <<list, delivered, hollow>>
        BY <2>2, UserMoves DEF own
      <3> QED BY <2>2, <3>1 DEF UserStep, SetByUser, TypeOK, Accepted
    <2>3. ASSUME NEW w \in Pushers, Push(w)
          PROVE  keep
      BY <1>2, <2>3, PushMoves, PushWrites DEF Accepted
    <2>4. ASSUME NEW w \in Redistributions, ReadState(w) \/ Redistribute(w)
          PROVE  keep
      BY <2>4, RequestMoves DEF Accepted
    <2>5. CASE UNCHANGED vars
      BY <2>5 DEF vars, db, own, history, Accepted
    <2> QED BY <2>1, <2>2, <2>3, <2>4, <2>5 DEF Next
  <1>4. \A t \in Tasks : AcceptedOrTouched(t) => AcceptedOrTouched(t)'
    BY <1>3 DEF AcceptedOrTouched
  <1>5. \A t \in Tasks : row[t] = "failed" => AcceptedOrTouched(t)' \/ row'[t] = "failed"
    BY <1>1, <1>2, <1>3 DEF Recorded, UndeliveredIsListed, AcceptedOrTouched
  <1> QED BY <1>0, <1>3, <1>4, <1>5, PlanRows

\* For a request that stands where it stood nothing changes ...
LEMMA CountsStay ==
    ASSUME Typing, Stages, Recorded, [Next]_vars, NEW w \in Redistributions, Counts(w),
           pc'[w] = pc[w], left'[w] = left[w]
    PROVE  Counts(w)'
  <1> DEFINE P == Elements(PlanTasks)
  <1>0. P \subseteq Tasks
    BY TaskLists
  <1>1. UNCHANGED list
    BY CountsKeep
  <1>2. list'[w] = "plan" /\ pc'[w] \in PushPC \cup {"leftPending", "leftFailed"} => Saved(P)'
    BY <1>1, CountsKeep DEF Counts
  <1>3. list'[w] = "plan" /\ pc'[w] = "leftFailed" /\ ~left'[w] =>
           \A t \in P : AcceptedOrTouched(t)' \/ row'[t] = "failed"
    BY <1>0, <1>1, CountsKeep DEF Counts
  <1>4. pc'[w] = "adopt" => \A t \in P : AcceptedOrTouched(t)'
    BY <1>0, CountsKeep DEF Counts
  <1> QED BY <1>2, <1>3, <1>4 DEF Counts

\* ... nor for one that pushes ...
LEMMA CountsOfPush ==
    ASSUME Typing, Stages, Recorded, [Next]_vars, NEW w \in Redistributions, Counts(w),
           Push(w)
    PROVE  Counts(w)'
  <1>0. w \in Pushers /\ w # Job
    BY TaskLists
  <1>1. pc[w] \in PushPC /\ todo[w] # <<>> /\ UNCHANGED list
    BY <1>0, PushMoves DEF Typing
  <1>2. pc'[w] \in PushPC \cup {"leftPending", "over"}
    BY <1>0, <1>1, PushMoves, NextTaskStep, RaisedStep DEF Typing, PushPC
  <1> QED BY <1>1, <1>2, CountsKeep DEF Counts, PushPC

\* ... and the steps of a request itself.
LEMMA CountsOfRequest ==
    ASSUME Typing, Stages, Recorded, [Next]_vars, NEW w \in Redistributions, Counts(w),
           ReadState(w) \/ Redistribute(w)
    PROVE  Counts(w)'
  <1> DEFINE P == Elements(PlanTasks)
  <1> USE DEF Typing
  <1>0. w \in Pushers /\ w # Job /\ P \subseteq Tasks /\ UNCHANGED <<row, delivered,
                                                                     hollow, touched, list>>
    BY TaskLists, RequestMoves
  <1>1. CASE pc'[w] \notin PushPC \cup {"leftPending", "leftFailed", "adopt"}
    BY <1>1 DEF Counts
  <1>2. CASE pc[w] = "faileds" /\ pc'[w] = "push"
    <2>1. list[w] = "plan" => Saved(P)'
      <3>1. todo'[w] # <<>> /\ TypeOK' /\ Stages'
        BY <1>2, RequestLands, StepTyping, StepStages
      <3>2. Task(w)' \in Held(w)'
        <4>1. todo'[w] \in Seq(Tasks)
          BY <1>0, <3>1 DEF TypeOK
        <4> QED BY <3>1, <4>1, HeadTail DEF Task, Held
      <3>3. list[w] = "plan" => Task(w)' \in P /\ row'[Task(w)'] # "none"
        BY <1>0, <3>1, <3>2 DEF Stages, ListOf, Saved
      <3> QED BY <3>1, <3>3 DEF Stages, Unsaved
    <2> QED BY <1>0, <1>2, <2>1 DEF Counts, PushPC
  <1>3. CASE pc[w] = "leftPending" /\ pc'[w] = "leftFailed"
    <2>1. left' = [left EXCEPT ![w] = WithStatus(w, {"pending"}) # {}]
      BY <1>0, <1>3 DEF ReadState, Redistribute, ListPending, ListFailed, CountPending,
                        CountFailed,
                  SettleAdoption, FailRequest, Move, Raised, Goto, TypeOK
    <2>2. ~left'[w] => WithStatus(w, {"pending"}) = {}
      BY <2>1 DEF TypeOK
    <2>3. list[w] = "plan" => Saved(P)
      BY <1>3 DEF Counts
    <2>4. \A t \in Tasks : row[t] \in Status /\ delivered[t] \in Nat
      BY DEF TypeOK
    <2>5. list[w] = "plan" /\ ~left'[w] =>
             \A t \in P : AcceptedOrTouched(t) \/ row[t] = "failed"
      BY <1>0, <2>2, <2>3, <2>4 DEF Recorded, UndeliveredIsListed, AcceptedOrTouched, Saved,
                                    WithStatus, ListOf
    <2> QED BY <1>0, <1>3, <2>3, <2>5 DEF Counts, AcceptedOrTouched, Accepted, Saved
  <1>4. CASE pc[w] = "leftFailed" /\ pc'[w] = "adopt"
    <2>1. ~left[w] /\ WithStatus(w, {"failed"}) = {} /\ list[w] = "plan"
      BY <1>0, <1>4 DEF ReadState, Redistribute, ListPending, ListFailed, CountPending,
                        CountFailed,
                  SettleAdoption, FailRequest, Move, Raised, Goto, TypeOK
    <2>2. \A t \in P : AcceptedOrTouched(t)
      BY <1>4, <2>1 DEF Counts, WithStatus, ListOf
    <2> QED BY <1>0, <1>4, <2>2 DEF Counts, AcceptedOrTouched, Accepted, PushPC
  <1> QED BY <1>1, <1>2, <1>3, <1>4, RequestLands DEF PushPC

LEMMA StepCounted ==
    ASSUME Typing, Stages, Recorded, Counted, [Next]_vars
    PROVE  Counted'
  <1> USE DEF Typing
  <1>1. \A t \in Elements(PlanTasks) : AcceptedOrTouched(t) => AcceptedOrTouched(t)'
    BY TaskLists, CountsKeep
  <1>2. ASSUME closed' = closed
        PROVE  SettledMeansCreated'
    BY <1>1, <1>2 DEF Counted, SettledMeansCreated, AcceptedOrTouched
  <1>3. ASSUME NEW o \in Redistributions, UNCHANGED <<pc, left>>
        PROVE  Counts(o)'
    BY <1>3, CountsStay DEF Counted
  <1>4. CASE JobStep
    <2>1. Job \in Pushers /\ Alone(Job) /\ UNCHANGED <<left, closed>>
      BY <1>4, JobMoves, TaskLists DEF history
    <2>2. \A o \in Redistributions : pc'[o] = pc[o]
      BY <2>1, TaskLists DEF Alone
    <2> QED BY <1>2, <2>1, <2>2, CountsStay DEF Counted
  <1>5. CASE UserStep
    BY <1>2, <1>3, <1>5, UserMoves DEF Counted, own
  <1>6. ASSUME NEW w \in Pushers, Push(w)
        PROVE  Counted'
    <2>1. Alone(w) /\ UNCHANGED <<left, closed>>
      BY <1>6, PushMoves
    <2>2. \A o \in Redistributions : o # w => pc'[o] = pc[o]
      BY <2>1, TaskLists DEF Alone
    <2>3. ASSUME NEW o \in Redistributions
          PROVE  Counts(o)'
      BY <1>6, <2>1, <2>2, CountsStay, CountsOfPush DEF Counted
    <2> QED BY <1>2, <2>1, <2>3 DEF Counted
  <1>7. ASSUME NEW w \in Redistributions, ReadState(w) \/ Redistribute(w)
        PROVE  Counted'
    <2>1. Alone(w) /\ \A o \in Redistributions \ {w} : left'[o] = left[o]
      BY <1>7, RequestMoves
    <2>2. \A o \in Redistributions : o # w => pc'[o] = pc[o]
      BY <2>1, TaskLists DEF Alone
    <2>3. ASSUME NEW o \in Redistributions
          PROVE  Counts(o)'
      BY <1>7, <2>1, <2>2, CountsStay, CountsOfRequest DEF Counted
    <2>4. SettledMeansCreated'
      <3>1. CASE UNCHANGED closed
        BY <1>2, <3>1
      <3>2. CASE pc[w] = "adopt"
        <4>1. \A t \in Elements(PlanTasks) : AcceptedOrTouched(t)'
          BY <1>1, <3>2 DEF Counted, Counts
        <4> QED BY <4>1 DEF SettledMeansCreated, AcceptedOrTouched
      <3> QED BY <1>7, <3>1, <3>2 DEF ReadState, Redistribute, ListPending, ListFailed,
                                      CountPending,
                  CountFailed, SettleAdoption, FailRequest, Move, history
    <2> QED BY <2>3, <2>4 DEF Counted
  <1>8. CASE UNCHANGED vars
    BY <1>2, <1>3, <1>8 DEF Counted, vars, own, history
  <1> QED BY <1>4, <1>5, <1>6, <1>7, <1>8 DEF Next

LEMMA CountedHolds == Spec => []Counted
  <1>1. Init => Counted
    BY TaskLists DEF Init, Counted, Counts, SettledMeansCreated, PushPC
  <1> QED BY <1>1, TypingHolds, StagesHold, RecordedHolds, StepCounted, PTL DEF Spec

\* A redistribution settles an adoption only when each task of the plan was accepted
\* or a user said what became of it, although it counts twice while others push.
THEOREM AdoptionSettledMeansCreated == Spec => []SettledMeansCreated
  BY CountedHolds, PTL DEF Counted

-----------------------------------------------------------------------------
(* A task is created once                                                   *)

LEMMA StepExclusive ==
    ASSUME Typing, Stages, Exclusive, [Next]_vars
    PROVE  Exclusive' /\ shared \subseteq shared' /\ blurred \subseteq blurred'
  <1> USE DEF Typing
  <1> DEFINE grow == shared \subseteq shared' /\ blurred \subseteq blurred'
  <1>1. CASE JobStep
    <2>1. Job \in Pushers /\ Alone(Job) /\ grow
      BY <1>1, JobMoves, TaskLists DEF history
    <2>2. CASE Held(Job)' \subseteq Held(Job)
      BY <2>1, <2>2 DEF Exclusive, Alone
    <2>3. CASE pc[Job] = "pSave" /\ Held(Job)' = Elements(PlanTasks)
      <3>1. \A t \in Elements(PlanTasks) : row[t] = "none"
        BY <2>3 DEF Stages, RuleStage, Unsaved
      <3>2. \A o \in Pushers \ {Job} : Held(o) \cap Elements(PlanTasks) = {} /\ Held(o)' = Held(o)
        BY <2>1, <3>1, TaskLists DEF Stages, Saved, Alone
      <3> QED BY <2>1, <2>3, <3>2 DEF Exclusive
    <2> QED BY <1>1, <2>1, <2>2, <2>3, JobMoves, RaisedStep
  <1>2. CASE UserStep
    <2>1. grow
      BY <1>2 DEF UserStep, SetByUser
    <2> QED BY <1>2, <2>1, UserMoves DEF Exclusive
  <1>3. ASSUME NEW w \in Pushers, Push(w)
        PROVE  Exclusive' /\ grow
    <2>1. Held(w)' \subseteq Held(w) /\ Alone(w)
      BY <1>3, PushMoves, NextTaskStep, RaisedStep
    <2>2. grow /\ UNCHANGED shared
      BY <1>3, PushWrites
    <2> QED BY <2>1, <2>2 DEF Exclusive, Alone
  <1>4. ASSUME NEW w \in Redistributions, ReadState(w) \/ Redistribute(w)
        PROVE  Exclusive' /\ grow
    <2>1. w \in Pushers /\ Alone(w) /\ UNCHANGED blurred
      BY <1>4, RequestMoves, TaskLists
    <2>2. CASE UNCHANGED shared /\ Held(w)' \subseteq Held(w)
      BY <2>1, <2>2 DEF Exclusive, Alone
    <2>3. CASE \E S \in {{"pending"}, {"failed"}} : Capture(w, WithStatus(w, S))
      <3>1. PICK S \in {{"pending"}, {"failed"}} : Capture(w, WithStatus(w, S))
        BY <2>3
      <3>2. Held(w)' \subseteq Held(w) \cup WithStatus(w, S)
            /\ shared' = shared \cup (WithStatus(w, S) \cap HeldByOther(w))
        BY <3>1, CaptureStep
      <3>3. \A o \in Pushers \ {w} : Held(o)' = Held(o) /\ Held(o) \subseteq HeldByOther(w)
        BY <2>1 DEF Alone, HeldByOther
      <3> QED BY <2>1, <3>2, <3>3 DEF Exclusive
    <2> QED BY <1>4, <2>2, <2>3, RequestMoves
  <1>5. CASE UNCHANGED vars
    BY <1>5 DEF Exclusive, vars, own, history, Held
  <1> QED BY <1>1, <1>2, <1>3, <1>4, <1>5 DEF Next

\* A step of another pusher leaves what is said of one that holds a task.
LEMMA HeldOnceStays ==
    ASSUME NEW t, NEW o, HeldOnce(o, t), pc'[o] = pc[o], todo'[o] = todo[o],
           delivered'[t] = delivered[t],
           \/ row'[t] = row[t]
           \/ row[t] # "failed" /\ row'[t] # "failed" /\ (row'[t] \in Redo => row[t] \in Redo)
    PROVE  HeldOnce(o, t)'
  BY DEF HeldOnce, Task

LEMMA PushOnce ==
    ASSUME TypeOK, Where, Once, Exclusive, NEW w \in Pushers, Push(w),
           NEW t \in Tasks, t \notin blurred', t \notin shared',
           t \notin blurred, t \notin shared
    PROVE  OnceFor(t)'
  <1>0. /\ Alone(w) /\ pc[w] \in PushPC /\ todo[w] \in Seq(Tasks) /\ todo[w] # <<>>
        /\ OnceFor(t) /\ delivered[t] \in Nat
    BY PushMoves DEF TypeOK, Once
  <1>1. pc'[w] \notin {"faileds"} /\ Held(w)' \subseteq Held(w)
    BY <1>0, PushMoves, NextTaskStep, RaisedStep DEF PushPC
  <1>2. CASE t # Task(w)
    <2>1. row'[t] = row[t] /\ delivered'[t] = delivered[t]
      BY <1>2, PushWrites
    <2>2. \A o \in Pushers \ {w} : t \in Held(o)' => HeldOnce(o, t)'
      BY <1>0, <2>1, HeldOnceStays DEF OnceFor, Alone
    <2>3. t \in Held(w) => delivered[t] = 0 /\ Unique(todo[w], t)
      BY <1>0, <1>2 DEF OnceFor, HeldOnce
    <2>4. t \in Held(w)' => HeldOnce(w, t)'
      <3>1. CASE todo'[w] = todo[w]
        BY <1>1, <1>2, <2>1, <2>3, <3>1 DEF HeldOnce, Task
      <3>2. CASE NextTask(w)
        <4>1. todo'[w] = Tail(todo[w]) /\ pc'[w] \notin {"log"}
          BY <1>0, <3>2, NextTaskStep DEF PushPC
        <4> QED BY <1>0, <1>1, <2>1, <2>3, <4>1, UniqueTail DEF HeldOnce
      <3>3. CASE Raised(w)
        BY <3>3, RaisedStep
      <3> QED BY <3>1, <3>2, <3>3, PushMoves
    <2>5. row'[t] \in Redo /\ (\A o \in Pushers : t \notin Held(o)') => delivered'[t] = 0
      BY <1>0, <2>1, <2>3 DEF OnceFor, Alone
    <2> QED BY <1>0, <2>1, <2>2, <2>4, <2>5 DEF OnceFor
  <1>3. CASE t = Task(w)
    <2>1. t \in Held(w) /\ HeldOnce(w, t) /\ Unique(todo[w], t)
      BY <1>0, <1>3, InHand DEF OnceFor, HeldOnce
    <2>2. \A o \in Pushers \ {w} : t \notin Held(o)'
      BY <1>0, <2>1 DEF Exclusive, Alone
    <2>3. pc[w] \notin AfterPush => delivered[t] = 0
      BY <2>1 DEF HeldOnce
    <2>4. NextTask(w) => t \notin Held(w)'
      <3>1. NextTask(w) => todo'[w] = Tail(todo[w])
        BY <1>0, NextTaskStep
      <3> QED BY <1>0, <1>3, <2>1, <3>1, UniqueTail DEF Task, Held
    <2>5. Raised(w) => t \notin Held(w)'
      BY RaisedStep
    <2>6. delivered'[t] \in {0, 1} /\ (delivered'[t] = delivered[t] \/ pc'[w] = "patch")
      BY <1>0, <1>3, <2>3, PushWrites DEF OnceFor, AfterPush
    <2>7. CASE todo'[w] = todo[w]
      <3>1. pc'[w] \notin AfterPush => delivered'[t] = 0
        <4>1. ~NextTask(w) /\ ~Raised(w)
          BY <2>1, <2>4, <2>5, <2>7 DEF Held
        <4> QED BY <1>0, <1>3, <2>3, <2>6, <2>7, <4>1, PushWrites DEF AfterPush
      <3>2. pc'[w] = "log" => row'[t] \notin Redo
        <4>1. NextTask(w) \/ Raised(w) => pc'[w] # "log"
          BY <1>0, NextTaskStep, RaisedStep DEF PushPC
        <4> QED BY <1>3, <4>1, PushWrites DEF Redo, AfterPush
      <3>3. HeldOnce(w, t)' /\ t \in Held(w)'
        BY <1>1, <1>3, <2>1, <2>7, <3>1, <3>2 DEF HeldOnce, Task, Held
      <3> QED BY <2>2, <2>6, <3>3 DEF OnceFor
    <2>8. CASE NextTask(w) \/ Raised(w)
      <3>1. \A o \in Pushers : t \notin Held(o)'
        BY <2>2, <2>4, <2>5, <2>8
      <3>2. row'[t] \in Redo => delivered'[t] = 0
        <4>1. pc'[w] \notin {"patch", "status", "log", "fpatch", "fstatus"}
          BY <1>0, <2>8, NextTaskStep, RaisedStep DEF PushPC
        <4>5. todo'[w] # todo[w]
          BY <2>1, <3>1 DEF Held
        <4>2. pc[w] \in {"status", "log", "fstatus", "fpatch"}
          BY <1>0, <1>3, <2>8, <4>1, <4>5, PushMoves, PushWrites DEF PushPC, AfterPush
        <4>3. pc[w] = "status" => row'[t] = "running"
          BY <1>3, <4>1, PushWrites DEF AfterPush
        <4>4. pc[w] = "log" => row'[t] = row[t] /\ row[t] \notin Redo
          BY <1>3, <2>1, <4>1, PushWrites DEF AfterPush, HeldOnce
        <4> QED BY <2>3, <2>6, <4>1, <4>2, <4>3, <4>4 DEF AfterPush, Redo
      <3> QED BY <2>6, <3>1, <3>2 DEF OnceFor
    <2> QED BY <2>7, <2>8, PushMoves
  <1> QED BY <1>2, <1>3

\* A step of the job that is no push.
LEMMA JobOnce ==
    ASSUME TypeOK, Where, Stages, Once, Exclusive, JobStep,
           NEW t \in Tasks, t \notin blurred, t \notin shared
    PROVE  OnceFor(t)'
  <1>0. /\ Alone(Job) /\ pc[Job] \in JobStages /\ OnceFor(t) /\ Job \in Pushers
        /\ UNCHANGED delivered
    BY JobMoves, TaskLists DEF Once
  <1>1. row'[t] = row[t] \/ (row[t] = "none" /\ row'[t] = "pending")
    BY JobMoves, SaveRowsStep
  <1>2. t \in Held(Job) => delivered[t] = 0 /\ Unique(todo[Job], t)
    BY <1>0 DEF OnceFor, HeldOnce, AfterPush, JobStages
  <1>3. \A o \in Pushers \ {Job} : t \in Held(o)' => HeldOnce(o, t)'
    BY <1>0, <1>1, HeldOnceStays DEF OnceFor, Alone, Redo
  <1>4. row'[t] \in Redo => row[t] \in Redo
    BY <1>1 DEF Redo
  <1>5. pc'[Job] \notin {"log", "faileds"}
    BY <1>0, JobMoves, RaisedStep DEF JobStages
  <1>6. CASE Held(Job)' = Held(Job) /\ todo'[Job] = todo[Job]
    <2>1. t \in Held(Job)' => HeldOnce(Job, t)'
      BY <1>0, <1>2, <1>5, <1>6 DEF HeldOnce
    <2>2. \A o \in Pushers : Held(o)' = Held(o)
      BY <1>0, <1>6 DEF Alone
    <2> QED BY <1>0, <1>3, <1>4, <2>1, <2>2 DEF OnceFor
  <1>7. CASE Held(Job)' = {}
    BY <1>0, <1>2, <1>3, <1>4, <1>7 DEF OnceFor, Alone
  <1>8. CASE pc[Job] = "pSave" /\ todo'[Job] = PlanTasks /\ Held(Job)' = Elements(PlanTasks)
    <2>1. t \in Elements(PlanTasks) => row[t] = "none" /\ \A o \in Pushers : t \notin Held(o)
      <3>1. t \in Elements(PlanTasks) => row[t] = "none" /\ t \notin Held(Job)
        BY <1>8, TaskLists DEF Stages, RuleStage, Unsaved
      <3> QED BY <3>1, TaskLists DEF Stages, Saved
    <2>2. t \in Elements(PlanTasks) => delivered[t] = 0
      BY <1>0, <2>1 DEF OnceFor, Redo
    <2>3. t \in Held(Job)' => HeldOnce(Job, t)'
      BY <1>0, <1>5, <1>8, <2>2, TaskLists DEF HeldOnce
    <2> QED BY <1>0, <1>2, <1>3, <1>4, <1>8, <2>2, <2>3 DEF OnceFor, Alone
  <1> QED BY <1>0, <1>6, <1>7, <1>8, JobMoves, RaisedStep

\* Which query a request runs where.
LEMMA RequestLists ==
    ASSUME TypeOK, NEW w \in Redistributions, ReadState(w) \/ Redistribute(w)
    PROVE  \/ /\ pc[w] = "pendings" /\ pc'[w] = "faileds"
              /\ Capture(w, WithStatus(w, {"pending"}))
           \/ /\ pc[w] = "faileds" /\ pc'[w] \in {"push", "over"}
              /\ Capture(w, WithStatus(w, {"failed"}))
           \/ pc'[w] \notin {"faileds", "log"} /\ UNCHANGED <<todo, shared>>
           \/ pc'[w] \notin {"faileds", "log"} /\ UNCHANGED shared /\ Raised(w)
  <1>0. w \in Pushers /\ w # Job
    BY TaskLists
  <1> USE DEF PC, PushPC
  <1>1. CASE ReadState(w)
    BY <1>0, <1>1, GotoStep DEF ReadState, history
  <1>2. CASE ListPending(w)
    BY <1>0, <1>2, MoveStep DEF ListPending
  <1>3. CASE ListFailed(w)
    BY <1>0, <1>3, GotoStep DEF ListFailed
  <1>4. CASE CountPending(w)
    BY <1>0, <1>4, MoveStep DEF CountPending, history
  <1>5. CASE CountFailed(w)
    BY <1>0, <1>5, GotoStep DEF CountFailed, history
  <1>6. CASE SettleAdoption(w)
    BY <1>0, <1>6, MoveStep DEF SettleAdoption
  <1>7. CASE FailRequest(w)
    BY <1>0, <1>7, RaisedStep DEF FailRequest, history
  <1> QED BY <1>1, <1>2, <1>3, <1>4, <1>5, <1>6, <1>7 DEF Redistribute

LEMMA RequestOnce ==
    ASSUME TypeOK, Where, Once, Exclusive, NEW w \in Redistributions,
           ReadState(w) \/ Redistribute(w),
           NEW t \in Tasks, t \notin blurred, t \notin shared, t \notin shared'
    PROVE  OnceFor(t)'
  <1>0. /\ w \in Pushers /\ Alone(w) /\ pc[w] \notin AfterPush /\ OnceFor(t)
        /\ UNCHANGED <<row, delivered, hollow>> /\ todo[w] \in Seq(Tasks)
    BY RequestMoves, TaskLists DEF Once, TypeOK, AfterPush
  <1>1. t \in Held(w) => delivered[t] = 0 /\ Unique(todo[w], t)
    BY <1>0 DEF OnceFor, HeldOnce
  <1>2. \A o \in Pushers \ {w} : Held(o)' = Held(o) /\ (t \in Held(o)' => HeldOnce(o, t)')
    BY <1>0, HeldOnceStays DEF OnceFor, Alone
  <1>3. SUFFICES /\ t \in Held(w)' => HeldOnce(w, t)'
                 /\ t \in Held(w) => delivered[t] = 0
    BY <1>0, <1>2 DEF OnceFor
  <1>4. ASSUME NEW s \in {"pending", "failed"}, Capture(w, WithStatus(w, {s})),
               pc'[w] # "log", t \in Held(w)',
               t \in WithStatus(w, {s}) => t \notin Held(w) /\ (pc'[w] = "faileds" => s # "failed"),
               t \in Held(w) => pc'[w] # "faileds"
        PROVE  HeldOnce(w, t)'
    <2> DEFINE found == WithStatus(w, {s})
    <2>1. PICK answer \in Seq(Tasks) :
             /\ Elements(answer) \subseteq found /\ \A u : Unique(answer, u)
             /\ todo'[w] = todo[w] \o answer
             /\ Held(w)' = Held(w) \cup Elements(answer)
      BY <1>4, CaptureStep
    <2>2. CASE t \in found
      <3>1. row[t] = s /\ t \notin Held(w)
        BY <1>4, <2>2 DEF WithStatus
      <3>2. \A o \in Pushers : t \notin Held(o)
        <4>1. shared' = shared \cup (found \cap HeldByOther(w))
          BY <1>4, CaptureStep
        <4>2. t \notin HeldByOther(w)
          BY <2>2, <4>1
        <4> QED BY <3>1, <4>2 DEF HeldByOther
      <3>3. delivered'[t] = 0
        BY <1>0, <3>1, <3>2 DEF OnceFor, Redo
      <3>4. Unique(todo'[w], t)
        BY <1>0, <2>1, <3>1, Concat DEF Held
      <3>5. pc'[w] = "faileds" => row'[t] # "failed"
        BY <1>0, <1>4, <2>2, <3>1
      <3> QED BY <1>4, <3>3, <3>4, <3>5 DEF HeldOnce
    <2>3. CASE t \notin found
      <3>1. t \in Held(w) /\ t \notin Elements(answer)
        BY <1>4, <2>1, <2>3
      <3>2. Unique(todo'[w], t)
        BY <1>0, <1>1, <2>1, <3>1, Concat
      <3> QED BY <1>0, <1>1, <1>4, <3>1, <3>2 DEF HeldOnce
    <2> QED BY <2>2, <2>3
  <1>5. CASE /\ pc[w] = "pendings" /\ pc'[w] = "faileds"
             /\ Capture(w, WithStatus(w, {"pending"}))
    <2>1. t \notin Held(w)
      BY <1>5, EmptyElements DEF Where, Held
    <2> QED BY <1>4, <1>5, <2>1
  <1>6. CASE /\ pc[w] = "faileds" /\ pc'[w] \in {"push", "over"}
             /\ Capture(w, WithStatus(w, {"failed"}))
    <2>1. t \in WithStatus(w, {"failed"}) => t \notin Held(w)
      BY <1>0, <1>6 DEF OnceFor, HeldOnce, WithStatus
    <2> QED BY <1>1, <1>4, <1>6, <2>1
  <1>7. CASE pc'[w] \notin {"faileds", "log"} /\ UNCHANGED <<todo, shared>>
    BY <1>0, <1>1, <1>7 DEF HeldOnce, Held
  <1>8. CASE pc'[w] \notin {"faileds", "log"} /\ UNCHANGED shared /\ Raised(w)
    BY <1>0, <1>1, <1>8, RaisedStep
  <1> QED BY <1>5, <1>6, <1>7, <1>8, RequestLists

LEMMA UserOnce ==
    ASSUME TypeOK, Once, UserStep, NEW t \in Tasks, t \notin blurred, t \notin shared,
           t \notin blurred'
    PROVE  OnceFor(t)'
  <1>1. PICK u \in Tasks, new \in {"completed", "failed", "running"} : SetByUser(u, new)
    BY DEF UserStep
  <1>2. row'[t] = row[t] \/ row'[t] \in {"completed", "running"}
    BY <1>1 DEF SetByUser, TypeOK
  <1>3. UNCHANGED own /\ UNCHANGED delivered /\ \A w : Held(w)' = Held(w)
    BY UserMoves
  <1>4. OnceFor(t)
    BY DEF Once
  <1> QED BY <1>2, <1>3, <1>4 DEF OnceFor, HeldOnce, Task, own, Redo

LEMMA StepOnce ==
    ASSUME Typing, Stages, Exclusive, Once, [Next]_vars
    PROVE  Once'
  <1> USE DEF Typing
  <1>1. SUFFICES ASSUME NEW t \in Tasks, t \notin blurred', t \notin shared'
                 PROVE  OnceFor(t)'
    BY DEF Once
  <1>2. t \notin blurred /\ t \notin shared
    BY <1>1, StepExclusive
  <1>3. CASE JobStep
    BY <1>2, <1>3, JobOnce
  <1>4. CASE UserStep
    BY <1>1, <1>2, <1>4, UserOnce
  <1>5. CASE \E w \in Pushers : Push(w)
    BY <1>1, <1>2, <1>5, PushOnce
  <1>6. CASE \E w \in Redistributions : ReadState(w) \/ Redistribute(w)
    BY <1>1, <1>2, <1>6, RequestOnce
  <1>7. CASE UNCHANGED vars
    <2>1. OnceFor(t)
      BY <1>2 DEF Once
    <2> QED BY <1>7, <2>1 DEF OnceFor, HeldOnce, Task, Held, vars, db, own
  <1> QED BY <1>3, <1>4, <1>5, <1>6, <1>7 DEF Next

LEMMA InitOnce == Init => Once /\ Exclusive
  <1> SUFFICES ASSUME Init PROVE Once /\ Exclusive
    OBVIOUS
  <1>1. \A w \in Pushers : /\ pc[w] = IF w = Job THEN "rSave" ELSE "idle"
                           /\ todo[w] = IF w = Job THEN RuleTasks ELSE <<>>
    BY DEF Init
  <1>2. \A t \in Tasks : delivered[t] = 0
    BY DEF Init
  <1>3. \A w \in Pushers : w # Job => Held(w) = {}
    BY <1>1, EmptyElements DEF Held
  <1>4. Exclusive
    BY <1>3 DEF Exclusive
  <1>5. \A t \in Tasks : \A w \in Pushers : t \in Held(w) => HeldOnce(w, t)
    BY <1>1, <1>2, <1>3, TaskLists DEF HeldOnce
  <1> QED BY <1>2, <1>4, <1>5 DEF Once, OnceFor

LEMMA OnceHolds == Spec => []Once
  <1>1. Typing /\ Stages /\ Exclusive /\ [Next]_vars => Exclusive'
    BY StepExclusive
  <1> QED BY <1>1, TypingHolds, StagesHold, InitOnce, StepOnce, PTL DEF Spec

\* The business system gets a task a second time only for one of the reasons that
\* CreatedOnce names, however many pushers there are and however they interleave.
THEOREM TasksAreCreatedOnce == Spec => []CreatedOnce
  <1>1. Typing /\ Once => CreatedOnce
    <2> SUFFICES ASSUME Typing, Once, NEW t \in Tasks, delivered[t] > 1, t \notin blurred \cup shared
                 PROVE  FALSE
      BY DEF CreatedOnce
    <2>1. delivered[t] \in Nat /\ delivered[t] <= 1
      BY DEF Typing, TypeOK, Once, OnceFor
    <2> QED BY <2>1
  <1> QED BY <1>1, OnceHolds, TypingHolds, PTL

-----------------------------------------------------------------------------
(* What is shown of tasks and plans                                         *)

\* Between its two transactions a push has written one half; otherwise the two halves
\* agree.
HalfWritten == {"status", "fstatus"}
Agree(t) ==
    /\ dispatch[t] = "dispatched" <=> row[t] = "running"
    /\ dispatch[t] = "failed" <=> row[t] = "failed"
HalfOf(w) ==
    /\ pc[w] = "status" => dispatch[Task(w)] = "dispatched"
    /\ pc[w] = "fstatus" => dispatch[Task(w)] = "failed"
InHalf(t) == \E w \in Pushers : pc[w] \in HalfWritten /\ t = Task(w)
Halves ==
    "pg" \notin faults =>
        /\ \A t \in Tasks \ (touched \cup shared) : Agree(t) \/ InHalf(t)
        /\ \A w \in Pushers : pc[w] \in HalfWritten /\ Task(w) \notin touched \cup shared => HalfOf(w)

\* A pending task is one that the job still holds, unless the job ended in an exception;
\* the session leaves "executing" when the job is over.
JobEnds ==
    /\ pc[Job] \notin PushPC \cup {"rSave"} => todo[Job] = <<>>
    /\ \A t \in Tasks : row[t] = "pending" =>
          t \in Held(Job) \/ pc[Job] = "abort" \/ session.phase = "failed"
    /\ session.phase # "executing" => pc[Job] = "over"

\* What fails in a behaviour is settled at its start.
LEMMA FaultsStay == [Next]_vars => UNCHANGED faults
  <1> USE DEF env
  <1>1. CASE JobStep
    BY <1>1 DEF JobStep, SaveRuleTask, NotifyRules, SendMessages, SavePlanTasks, NotifyPlan,
        RunAutoActions, ScheduleReview, Stumble, FinishJob, FailJob, Mishap
  <1>2. CASE UserStep
    BY <1>2 DEF UserStep, SetByUser
  <1>3. CASE \E w \in Pushers : Push(w)
    BY <1>3 DEF Push, Answered, AnsweredHollow, Lost, Refused, Patch, SetRunning, LogPush,
                Misrecord,
        PatchFailed, SetFailed, FailToRecord, Mishap
  <1>4. CASE \E w \in Redistributions : ReadState(w) \/ Redistribute(w)
    BY <1>4 DEF ReadState, Redistribute, ListPending, ListFailed, CountPending, CountFailed,
        SettleAdoption, FailRequest, Mishap
  <1>5. CASE UNCHANGED vars
    BY <1>5 DEF vars
  <1> QED BY <1>1, <1>2, <1>3, <1>4, <1>5 DEF Next

\* While no statement fails, a push is recorded as what it was.
LEMMA PushUnhurt ==
    ASSUME TypeOK, Where, NEW w \in Pushers, Push(w), "pg" \notin faults
    PROVE  /\ pc[w] \in AfterPush => pc'[w] # "fpatch"
           /\ pc'[w] \notin {"abort", "over"}
  <1>0. todo[w] # <<>>
    BY PushMoves
  <1> USE DEF PC, PushPC, AfterPush
  <1>1. NextTask(w) => pc'[w] \in {"push", "leftPending", "rSave", "rNotify", "pNotify"}
    BY <1>0, NextTaskStep
  <1>2. CASE Answered(w) \/ AnsweredHollow(w) \/ Refused(w) \/ Patch(w) \/ PatchFailed(w)
    <2>1. \/ Move(w, "push", "patch") \/ Move(w, "push", "fpatch")
          \/ Move(w, "patch", "status") \/ Move(w, "fpatch", "fstatus")
      BY <1>2 DEF Answered, AnsweredHollow, Refused, Patch, PatchFailed
    <2> QED BY <2>1, MoveStep
  <1>3. CASE Lost(w)
    <2>1. UNCHANGED pc \/ Goto(w, "fpatch")
      BY <1>3 DEF Lost
    <2> QED BY <1>3, <2>1, GotoStep DEF Lost
  <1>4. CASE SetRunning(w)
    <2>1. pc[w] = "status" /\ (NextTask(w) \/ Goto(w, "log"))
      BY <1>4 DEF SetRunning
    <2> QED BY <1>1, <2>1, GotoStep
  <1>5. CASE LogPush(w) \/ SetFailed(w)
    BY <1>1, <1>5 DEF LogPush, SetFailed
  <1>6. ~Misrecord(w) /\ ~FailToRecord(w)
    BY DEF Misrecord, FailToRecord, Mishap
  <1> QED BY <1>2, <1>3, <1>4, <1>5, <1>6 DEF Push

\* A task is in one pusher's hands, or shared.
LEMMA OneHasIt ==
    ASSUME TypeOK, Where, Exclusive, NEW w \in Pushers, NEW o \in Pushers,
           pc[w] \in PushPC, pc[o] \in PushPC, Task(w) = Task(o), Task(w) \notin shared
    PROVE  w = o
  <1>1. Task(w) \in Held(w) /\ Task(o) \in Held(o)
    BY InHand DEF Where
  <1> QED BY <1>1 DEF Exclusive

LEMMA PushHalves ==
    ASSUME TypeOK, Where, Exclusive, Halves, "pg" \notin faults, NEW w \in Pushers, Push(w)
    PROVE  /\ \A t \in Tasks \ (touched \cup shared) : Agree(t)' \/ InHalf(t)'
           /\ \A o \in Pushers : pc'[o] \in HalfWritten /\ Task(o)' \notin touched \cup shared
                => HalfOf(o)'
  <1> USE DEF PushPC, AfterPush, HalfWritten
  <1>0. /\ pc[w] \in PushPC /\ Alone(w) /\ todo[w] # <<>> /\ Task(w) \in Tasks
        /\ \A o \in Pushers \ {w} : Task(o)' = Task(o)
    BY PushMoves, PushWrites DEF Alone, Task
  <1>d. dispatch \in [Tasks -> {"pending", "dispatched", "failed"}]
    BY DEF TypeOK
  <1>n. NextTask(w) => pc'[w] \notin PushPC \ {"push"}
    BY <1>0, NextTaskStep
  <1>1. \A u \in Tasks \ {Task(w)} : row'[u] = row[u] /\ dispatch'[u] = dispatch[u]
    BY PushWrites
  <1>2. pc'[w] \in HalfWritten => todo'[w] = todo[w] /\ Task(w)' = Task(w) /\ HalfOf(w)'
    <2> SUFFICES ASSUME pc'[w] \in HalfWritten
                 PROVE  todo'[w] = todo[w] /\ Task(w)' = Task(w) /\ HalfOf(w)'
      OBVIOUS
    <2>1. ~NextTask(w) /\ ~Raised(w)
      BY <1>n, PushUnhurt, RaisedStep
    <2>2. /\ todo'[w] = todo[w]
          /\ pc'[w] = "status" => dispatch'[Task(w)] = "dispatched"
          /\ pc'[w] = "fstatus" => dispatch'[Task(w)] = "failed"
      BY <2>1, PushWrites, PushUnhurt
    <2> QED BY <2>2 DEF Task, HalfOf
  <1>3. ASSUME NEW t \in Tasks \ (touched \cup shared)
        PROVE  Agree(t)' \/ InHalf(t)'
    <2>1. CASE t # Task(w)
      <3>1. InHalf(t) => InHalf(t)'
        BY <1>0, <2>1 DEF InHalf, Alone
      <3> QED BY <1>1, <1>3, <2>1, <3>1 DEF Halves, Agree
    <2>2. CASE t = Task(w)
      <3>1. InHalf(t) => pc[w] \in HalfWritten
        BY <1>0, <1>3, <2>2, OneHasIt DEF InHalf
      <3>2. pc[w] \in HalfWritten \/ Agree(t)
        BY <1>3, <3>1 DEF Halves
      <3>3. pc[w] \in HalfWritten => HalfOf(w)
        BY <1>3, <2>2 DEF Halves
      <3>4. CASE pc'[w] \in HalfWritten
        BY <1>2, <2>2, <3>4 DEF InHalf
      <3>5. CASE pc'[w] \notin HalfWritten /\ pc[w] \in HalfWritten
        <4>1. pc[w] = "status" => row'[t] = "running" /\ dispatch'[t] = "dispatched"
          BY <1>0, <2>2, <3>3, <3>5, PushWrites, PushUnhurt DEF HalfOf
        <4>2. pc[w] = "fstatus" => row'[t] = "failed" /\ dispatch'[t] = "failed"
          <5>1. ~Raised(w)
            BY PushUnhurt, RaisedStep
          <5> QED BY <1>0, <2>2, <3>3, <3>5, <5>1, PushWrites, PushUnhurt DEF HalfOf
        <4> QED BY <3>5, <4>1, <4>2 DEF Agree
      <3>6. CASE pc'[w] \notin HalfWritten /\ pc[w] \notin HalfWritten
        <4>1. ~Raised(w)
          BY PushUnhurt, RaisedStep
        <4>2. UNCHANGED <<row, dispatch>>
          BY <3>6, <4>1, PushWrites
        <4> QED BY <3>2, <3>6, <4>2 DEF Agree
      <3> QED BY <3>4, <3>5, <3>6
    <2> QED BY <2>1, <2>2
  <1>4. ASSUME NEW o \in Pushers, pc'[o] \in HalfWritten, Task(o)' \notin touched \cup shared
        PROVE  HalfOf(o)'
    <2>1. CASE o = w
      BY <1>2, <1>4, <2>1
    <2>2. CASE o # w
      <3>1. pc'[o] = pc[o] /\ Task(o)' = Task(o) /\ HalfOf(o)
        BY <1>0, <1>4, <2>2 DEF Alone, Halves
      <3>2. Task(o) \in Tasks
        BY <1>4, <3>1, InHand DEF Where
      <3>3. Task(o) # Task(w)
        BY <1>0, <1>4, <2>2, <3>1, OneHasIt
      <3> QED BY <1>1, <3>1, <3>2, <3>3 DEF HalfOf
    <2> QED BY <2>1, <2>2
  <1> QED BY <1>3, <1>4

\* A step that leaves dispatch_status and is no push.
LEMMA HalvesStay ==
    ASSUME TypeOK, Where, Halves, NEW w \in Pushers, Alone(w), UNCHANGED <<dispatch, faults>>,
           pc[w] \notin HalfWritten, pc'[w] \notin HalfWritten,
           touched' = touched, shared \subseteq shared',
           \A t \in Tasks : row'[t] = row[t] \/ (row[t] = "none" /\ row'[t] = "pending")
    PROVE  Halves'
  <1>0. \A o \in Pushers \ {w} : Task(o)' = Task(o) /\ pc'[o] = pc[o]
    BY DEF Alone, Task
  <1>1. \A t : InHalf(t) => InHalf(t)'
    BY <1>0 DEF InHalf
  <1>2. \A t \in Tasks : Agree(t) => Agree(t)'
    BY DEF Agree
  <1> QED BY <1>0, <1>1, <1>2 DEF Halves, HalfOf

LEMMA StepHalves ==
    ASSUME Typing, Exclusive, Halves, [Next]_vars
    PROVE  Halves'
  <1> USE DEF Typing
  <1>1. CASE JobStep
    <2>1. Job \in Pushers /\ Alone(Job) /\ UNCHANGED <<dispatch, touched, shared>>
      BY <1>1, JobMoves, TaskLists DEF history
    <2>2. pc[Job] \notin HalfWritten /\ pc'[Job] \notin HalfWritten
      <3>1. Raised(Job) => pc'[Job] = "abort"
        BY <2>1, RaisedStep
      <3> QED BY <1>1, <3>1, JobMoves DEF JobStages, HalfWritten
    <2>3. \A t \in Tasks : row'[t] = row[t] \/ (row[t] = "none" /\ row'[t] = "pending")
      <3>1. row' = row \/ \E S : SaveRows(S)
        BY <1>1, JobMoves
      <3> QED BY <3>1, SaveRowsStep
    <2>4. UNCHANGED faults
      BY FaultsStay
    <2>5. TypeOK /\ Where /\ shared \subseteq shared' /\ touched' = touched /\ UNCHANGED <<dispatch, faults>>
      BY <2>1, <2>4
    <2> QED BY <2>1, <2>2, <2>3, <2>5, HalvesStay
  <1>2. CASE UserStep
    <2>1. PICK u \in Tasks, new \in {"completed", "failed", "running"} : SetByUser(u, new)
      BY <1>2 DEF UserStep
    <2>2. /\ touched' = touched \cup {u} /\ \A t \in Tasks \ {u} : row'[t] = row[t]
          /\ UNCHANGED <<dispatch, faults, pc, todo, shared>>
      BY <2>1 DEF SetByUser, TypeOK, own, env
    <2>3. \A w : Task(w)' = Task(w)
      BY <2>2 DEF Task
    <2>4. \A t : InHalf(t) => InHalf(t)'
      BY <2>2, <2>3 DEF InHalf
    <2> QED BY <2>2, <2>3, <2>4 DEF Halves, HalfOf, Agree
  <1>3. ASSUME NEW w \in Pushers, Push(w)
        PROVE  Halves'
    BY <1>3, PushHalves, PushWrites, FaultsStay DEF Halves
  <1>4. ASSUME NEW w \in Redistributions, ReadState(w) \/ Redistribute(w)
        PROVE  Halves'
    <2>1. /\ w \in Pushers /\ Alone(w) /\ UNCHANGED <<dispatch, touched, row>>
          /\ pc[w] \notin HalfWritten
      BY <1>4, RequestMoves, TaskLists DEF HalfWritten
    <2>2. pc'[w] \notin HalfWritten
      BY <1>4, RequestLands DEF HalfWritten
    <2>3. shared \subseteq shared' /\ UNCHANGED faults
      BY <1>4, RequestMoves, FaultsStay DEF Capture
    <2>4. UNCHANGED <<dispatch, faults>> /\ \A t \in Tasks : row'[t] = row[t]
      BY <2>1, <2>3
    <2> QED BY <2>1, <2>2, <2>3, <2>4, HalvesStay
  <1>5. CASE UNCHANGED vars
    <2>1. UNCHANGED <<row, dispatch, pc, todo, faults, touched, shared>>
      BY <1>5 DEF vars, db, own, env, history
    <2> QED BY <2>1 DEF Halves, HalfOf, Agree, InHalf, Task
  <1> QED BY <1>1, <1>2, <1>3, <1>4, <1>5 DEF Next

LEMMA InitHalves == Init => Halves
  <1> SUFFICES ASSUME Init PROVE Halves
    OBVIOUS
  <1>1. \A t \in Tasks : row[t] = "none" /\ dispatch[t] = "pending"
    BY DEF Init
  <1>2. \A w \in Pushers : pc[w] \notin HalfWritten
    BY DEF Init, HalfWritten
  <1> QED BY <1>1, <1>2 DEF Halves, Agree

LEMMA HalvesHold == Spec => []Halves
  <1>1. Typing /\ Stages /\ Exclusive /\ [Next]_vars => Exclusive'
    BY StepExclusive
  <1> QED BY <1>1, TypingHolds, StagesHold, InitOnce, InitHalves, StepHalves, PTL DEF Spec

\* The two halves of a task agree when nobody pushes it, ...
LEMMA ItemsShown ==
    ASSUME Typing, Halves, "pg" \notin faults
    PROVE  ItemsAgree
  <1> SUFFICES ASSUME NEW t \in Tasks \ (touched \cup shared), \A w \in Pushers : t \notin Held(w)
               PROVE  Agree(t)
    BY DEF ItemsAgree, TaskItem, Agree
  <1>1. ~InHalf(t)
    BY InHand DEF InHalf, HalfWritten, Typing, Where, PushPC
  <1> QED BY <1>1 DEF Halves

\* The job's way to its end.
LEMMA JobSession ==
    ASSUME TypeOK, JobStep
    PROVE  /\ pc[Job] # "over"
           /\ pc[Job] = "rSave" /\ todo[Job] # <<>> => pc'[Job] \in {"push", "abort"}
           /\ pc[Job] = "abort" => session'.phase = "failed"
           /\ pc'[Job] = "abort" => Raised(Job)
           /\ \/ UNCHANGED session
              \/ /\ pc[Job] = "finish" /\ pc'[Job] = "over" /\ session'.phase = "waiting_track"
                 /\ UNCHANGED <<row, todo>>
              \/ /\ pc[Job] = "abort" /\ pc'[Job] = "over" /\ session'.phase = "failed"
                 /\ UNCHANGED <<row, todo>>
  <1>0. Job \in Pushers
    BY TaskLists
  <1> USE DEF PC, PushPC
  <1>1. CASE FinishJob
    BY <1>0, <1>1, MoveStep DEF FinishJob
  <1>2. CASE FailJob
    <2>1. session' = [session EXCEPT !.phase = "failed", !.pending = seen[Job]]
      BY <1>2 DEF FailJob
    <2>2. session'.phase = "failed"
      BY <2>1 DEF TypeOK
    <2> QED BY <1>0, <1>2, <2>2, MoveStep DEF FailJob
  <1>3. CASE SaveRuleTask
    <2>1. UNCHANGED session /\ pc[Job] = "rSave"
      BY <1>3 DEF SaveRuleTask
    <2>2. IF todo[Job] = <<>> THEN Goto(Job, "messages") ELSE Goto(Job, "push")
      BY <1>3 DEF SaveRuleTask
    <2> QED BY <1>0, <2>1, <2>2, GotoStep
  <1>4. CASE Stumble
    <2>1. UNCHANGED session /\ Raised(Job)
      BY <1>4 DEF Stumble, db
    <2>2. pc[Job] \in {"rNotify", "pNotify", "messages", "auto", "rSave", "pSave"}
      BY <1>4 DEF Stumble
    <2> QED BY <1>0, <2>1, <2>2, RaisedStep
  <1>5. CASE NotifyRules \/ SendMessages \/ SavePlanTasks \/ NotifyPlan \/ RunAutoActions
             \/ ScheduleReview
    <2>1. UNCHANGED session
      BY <1>5 DEF NotifyRules, SendMessages, SavePlanTasks, NotifyPlan, RunAutoActions,
                  ScheduleReview, db
    <2>2. pc[Job] \in {"rNotify", "messages", "pSave", "pNotify", "auto", "schedule"}
      BY <1>5 DEF NotifyRules, SendMessages, SavePlanTasks, NotifyPlan, RunAutoActions,
                  ScheduleReview, Move
    <2>3. pc'[Job] # "abort"
      BY <1>0, <1>5, MoveStep DEF NotifyRules, SendMessages, SavePlanTasks, NotifyPlan,
                  RunAutoActions, ScheduleReview
    <2> QED BY <2>1, <2>2, <2>3
  <1> QED BY <1>1, <1>2, <1>3, <1>4, <1>5 DEF JobStep

LEMMA LastTask ==
    ASSUME TypeOK, NextTask(Job), pc'[Job] \notin {"push", "rSave"}
    PROVE  todo'[Job] = <<>>
  <1>0. Job \in Pushers
    BY TaskLists
  <1>1. /\ todo' = [todo EXCEPT ![Job] = Tail(todo[Job])]
        /\ \E to \in {"rNotify", "rSave", "pNotify", "push"} :
              /\ pc' = [pc EXCEPT ![Job] = to]
              /\ to \in {"rNotify", "pNotify"} => Tail(todo[Job]) = <<>>
    BY DEF NextTask, Goto
  <1> QED BY <1>0, <1>1 DEF TypeOK

LEMMA StepJobEnds ==
    ASSUME Typing, Stages, JobEnds, [Next]_vars
    PROVE  JobEnds'
  <1> USE DEF Typing
  <1>0. /\ Job \in Pushers /\ pc[Job] \in JobPC /\ Held(Job) = Elements(todo[Job])
        /\ Elements(RuleTasks) \cap Elements(PlanTasks) = {}
    BY TaskLists, EmptyElements DEF Where, Held
  <1>1. CASE JobStep
    <2>0. /\ session.phase = "executing" /\ pc[Job] \notin PushPC
          /\ pc[Job] # "rSave" => Held(Job) = {}
          /\ \A t \in Tasks : row[t] = "pending" => t \in Held(Job) \/ pc[Job] = "abort"
      <3>1. pc[Job] \in JobStages \ {"over"} /\ session.phase \in {"executing", "waiting_track", "failed"}
        BY <1>1, JobMoves, JobSession DEF TypeOK
      <3> QED BY <1>0, <3>1, EmptyElements DEF JobEnds, JobStages, PushPC
    <2>1. CASE pc'[Job] = "push"
      <3>1. UNCHANGED session
        BY <1>1, <2>1, JobSession
      <3>2. \A t \in Tasks : row'[t] = "pending" => t \in Held(Job)'
        <4>1. CASE SaveRows({Task(Job)}) /\ todo[Job] # <<>> /\ Held(Job)' = Held(Job) /\ pc[Job] = "rSave"
          <5>1. Task(Job) \in Held(Job)
            BY <1>0, <4>1, InHand
          <5> QED BY <2>0, <4>1, <5>1, SaveRowsStep
        <4>2. CASE SaveRows(Elements(PlanTasks)) /\ Held(Job)' = Elements(PlanTasks) /\ pc[Job] = "pSave"
          BY <2>0, <4>2, SaveRowsStep
        <4> QED BY <1>0, <1>1, <2>1, <4>1, <4>2, JobMoves, RaisedStep DEF JobStages
      <3> QED BY <2>0, <2>1, <3>1, <3>2 DEF JobEnds, PushPC
    <2>2. CASE Raised(Job) /\ UNCHANGED row
      <3>1. pc'[Job] = "abort" /\ todo'[Job] = <<>>
        BY <1>0, <2>2, RaisedStep
      <3>2. UNCHANGED session
        BY <1>1, <3>1, JobSession
      <3> QED BY <2>0, <3>1, <3>2 DEF JobEnds
    <2>3. CASE UNCHANGED row /\ pc'[Job] \in JobStages \ {"rSave", "rNotify"} /\ todo'[Job] = todo[Job]
               /\ Held(Job)' = Held(Job) /\ pc'[Job] # "abort"
      <3>1. todo'[Job] = <<>> /\ Held(Job)' = {}
        <4>1. todo[Job] = <<>>
          BY <1>1, <2>0, <2>3, JobSession DEF JobEnds, JobStages
        <4> QED BY <1>0, <2>3, <4>1, EmptyElements
      <3>2. \A t \in Tasks : row'[t] = "pending" => session'.phase = "failed"
        BY <1>1, <2>0, <2>3, <3>1, JobSession
      <3>3. session'.phase # "executing" => pc'[Job] = "over"
        BY <1>1, <2>0, JobSession
      <3> QED BY <3>1, <3>2, <3>3 DEF JobEnds
    <2> QED BY <1>1, <2>1, <2>2, <2>3, JobMoves, JobSession
  <1>2. CASE UserStep
    <2>1. \A t \in Tasks : row'[t] = "pending" => row[t] = "pending"
      BY <1>2 DEF UserStep, SetByUser, TypeOK
    <2>2. UNCHANGED <<pc, todo, session>> /\ Held(Job)' = Held(Job)
      BY <1>2, UserMoves DEF own
    <2> QED BY <2>1, <2>2 DEF JobEnds
  <1>3. ASSUME NEW w \in Pushers, Push(w)
        PROVE  JobEnds'
    <2>0. UNCHANGED session /\ Alone(w) /\ pc[w] \in PushPC /\ todo[w] # <<>> /\ Task(w) \in Tasks
      BY <1>3, PushMoves, PushWrites
    <2>1. \A t \in Tasks : row'[t] = "pending" => row[t] = "pending"
      BY <1>3, PushWrites
    <2>2. CASE w # Job
      BY <1>0, <2>0, <2>1, <2>2 DEF JobEnds, Alone
    <2>3. CASE w = Job
      <3>1. session.phase = "executing" /\ \A t \in Tasks : row[t] = "pending" => t \in Held(Job)
        <4>1. session.phase \in {"executing", "waiting_track", "failed"}
          BY DEF TypeOK
        <4> QED BY <2>0, <2>3, <4>1 DEF JobEnds, PushPC
      <3>2. CASE pc'[Job] \in PushPC /\ Held(Job)' = Held(Job)
        BY <2>0, <2>1, <3>1, <3>2 DEF JobEnds, PushPC
      <3>3. CASE NextTask(Job) /\ pc[Job] \in {"status", "log", "fstatus"}
        <4>0. pc'[Job] \in {"push", "rSave", "rNotify", "pNotify"} /\ pc[Job] # "log"
          BY <1>0, <2>0, <2>3, <3>3, NextTaskStep DEF JobPC
        <4>1. row'[Task(Job)] # "pending"
          BY <1>0, <1>3, <2>3, <3>3, <4>0, PushWrites, RaisedStep
        <4>2. Held(Job) = {Task(Job)} \cup Held(Job)' /\ pc'[Job] \notin PushPC \ {"push"}
          BY <1>0, <2>0, <2>3, <3>3, NextTaskStep
        <4> QED BY <2>0, <2>1, <3>1, <3>3, <4>1, <4>2, LastTask DEF JobEnds, PushPC
      <3>4. CASE Raised(Job)
        BY <1>0, <2>0, <3>1, <3>4, RaisedStep DEF JobEnds
      <3> QED BY <1>3, <2>3, <3>2, <3>3, <3>4, PushMoves
    <2> QED BY <2>2, <2>3
  <1>4. ASSUME NEW w \in Redistributions, ReadState(w) \/ Redistribute(w)
        PROVE  JobEnds'
    <2>1. Alone(w) /\ UNCHANGED row /\ w # Job
      BY <1>4, RequestMoves, TaskLists
    <2>2. session'.phase = session.phase
      BY <1>4 DEF ReadState, Redistribute, ListPending, ListFailed, CountPending, CountFailed,
          SettleAdoption, FailRequest, db, TypeOK
    <2> QED BY <1>0, <2>1, <2>2 DEF JobEnds, Alone
  <1>5. CASE UNCHANGED vars
    BY <1>5 DEF JobEnds, vars, db, own, Held
  <1> QED BY <1>1, <1>2, <1>3, <1>4, <1>5 DEF Next

LEMMA InitJobEnds == Init => JobEnds
  <1> SUFFICES ASSUME Init PROVE JobEnds
    OBVIOUS
  <1>1. pc[Job] = "rSave" /\ session.phase = "executing" /\ \A t \in Tasks : row[t] = "none"
    BY TaskLists DEF Init
  <1> QED BY <1>1 DEF JobEnds

LEMMA JobEndsHolds == Spec => []JobEnds
  BY TypingHolds, StagesHold, InitJobEnds, StepJobEnds, PTL DEF Spec

\* Percentages are rounded to the nearest: of fewer than 200 tasks, only all of them
\* are 100 percent.
LEMMA FullMeansAll ==
    ASSUME NEW c \in Nat, NEW n \in Nat, c <= n, 0 < n, n < 200
    PROVE  (200 * c + n) \div (2 * n) = 100 <=> c = n
  <1> DEFINE q == (200 * c + n) \div (2 * n)
  <1>1. q \in Int /\ (2 * n) * q <= 200 * c + n /\ 200 * c + n < (2 * n) * q + 2 * n
    OBVIOUS
  <1>2. ASSUME c = n PROVE q = 100
    <2>1. 200 * c + n = (2 * n) * 100 + n
      BY <1>2
    <2>2. ASSUME q >= 101 PROVE FALSE
      <3>1. (2 * n) * q >= (2 * n) * 101
        BY <1>1, <2>2
      <3> QED BY <1>1, <2>1, <3>1
    <2>3. ASSUME q <= 99 PROVE FALSE
      <3>1. (2 * n) * q <= (2 * n) * 99
        BY <1>1, <2>3
      <3> QED BY <1>1, <2>1, <3>1
    <2> QED BY <1>1, <2>2, <2>3
  <1>3. ASSUME c # n PROVE q # 100
    BY <1>1, <1>3
  <1> QED BY <1>2, <1>3

\* Of the saved tasks of a list, those in some statuses.
Among(l, S) == {t \in SavedTasks(l) : row[t] \in S}

LEMMA SavedAreFinite ==
    ASSUME Len(RuleTasks) < 200, Len(PlanTasks) < 200, NEW l, NEW S
    PROVE  /\ IsFiniteSet(Among(l, S)) /\ Cardinality(Among(l, S)) \in Nat
           /\ Cardinality(Among(l, S)) < 200
           /\ Cardinality(Among(l, S)) = 0 <=> Among(l, S) = {}
           /\ SavedTasks(l) \subseteq Tasks
  <1> DEFINE list_ == IF l = "plan" THEN PlanTasks ELSE RuleTasks
  <1>1. list_ \in Seq(Tasks) /\ Len(list_) < 200 /\ Elements(list_) \subseteq Tasks
    BY TaskLists
  <1> HIDE DEF list_
  <1>2. Len(list_) \in Nat /\ DOMAIN list_ = 1..Len(list_)
    BY <1>1
  <1>3. IsFiniteSet(1..Len(list_)) /\ Cardinality(1..Len(list_)) = Len(list_)
    <2>1. Len(list_) \in Int /\ 1 \in Int
      BY <1>2
    <2>2. /\ IsFiniteSet(1..Len(list_))
          /\ Cardinality(1..Len(list_)) = IF 1 > Len(list_) THEN 0 ELSE Len(list_) - 1 + 1
      BY <2>1, FS_Interval, Zenon
    <2> QED BY <1>2, <2>2
  <1>4. list_ \in Surjection(DOMAIN list_, Elements(list_))
    <2>1. /\ list_ \in [DOMAIN list_ -> Elements(list_)]
          /\ \A x \in Elements(list_) : \E i \in DOMAIN list_ : list_[i] = x
      BY <1>1, <1>2 DEF Elements
    <2> QED BY <2>1 DEF Surjection
  <1>5. IsFiniteSet(Elements(list_)) /\ Cardinality(Elements(list_)) <= Len(list_)
    BY <1>2, <1>3, <1>4, FS_Surjection
  <1>6. Among(l, S) \subseteq Elements(list_) /\ SavedTasks(l) \subseteq Elements(list_)
    BY DEF Among, SavedTasks, list_
  <1>7. /\ IsFiniteSet(Among(l, S)) /\ Cardinality(Among(l, S)) \in Nat
        /\ Cardinality(Among(l, S)) <= Cardinality(Elements(list_))
        /\ Cardinality(Elements(list_)) \in Nat
    BY <1>5, <1>6, FS_Subset, FS_CardinalityType
  <1>8. Cardinality(Among(l, S)) = 0 <=> Among(l, S) = {}
    BY <1>7, FS_EmptySet
  <1> QED BY <1>1, <1>2, <1>5, <1>6, <1>7, <1>8

\* ... and what is shown of a plan is true to its tasks.
LEMMA PlansShown ==
    ASSUME Len(RuleTasks) < 200, Len(PlanTasks) < 200, Typing, JobEnds
    PROVE  PlansAgree
  <1> SUFFICES ASSUME NEW l \in {"plan", "rule"}, SavedTasks(l) # {}
               PROVE  LET plan == PlanSummary(l)
                      IN /\ session.phase = "waiting_track" => plan.status # "pending"
                         /\ plan.status = "failed" =>
                              \A t \in SavedTasks(l) : TaskItem(t).progress = 100 \/ row[t] = "failed"
                         /\ plan.progress = 100 <=> plan.status = "completed"
    BY DEF PlansAgree
  <1> DEFINE n == PlanGroup(l)
             card(S) == Cardinality(Among(l, S))
  <1>0. SavedTasks(l) \subseteq Tasks
    BY SavedAreFinite
  <1>1. /\ n.total = card(Status) /\ n.completed = card({"completed"})
        /\ n.running = card({"running"}) /\ n.failed = card({"failed"})
        /\ n.pending = card({"pending"})
    BY DEF PlanGroup, Among
  <1>2. /\ n.total \in Nat /\ n.total < 200 /\ n.completed \in Nat
        /\ n.total = 0 <=> Among(l, Status) = {}
        /\ n.running \in Nat /\ (n.running = 0 <=> Among(l, {"running"}) = {})
        /\ n.failed \in Nat /\ (n.failed = 0 <=> Among(l, {"failed"}) = {})
        /\ n.pending \in Nat /\ (n.pending = 0 <=> Among(l, {"pending"}) = {})
    <2> DEFINE P(S) == /\ card(S) \in Nat /\ card(S) < 200
                       /\ card(S) = 0 <=> Among(l, S) = {}
    <2>1. P(Status)
      BY SavedAreFinite
    <2>2. P({"completed"})
      BY SavedAreFinite
    <2>3. P({"running"})
      BY SavedAreFinite
    <2>4. P({"failed"})
      BY SavedAreFinite
    <2>5. P({"pending"})
      BY SavedAreFinite
    <2> HIDE DEF n, card
    <2> QED BY <1>1, <2>1, <2>2, <2>3, <2>4, <2>5
  <1>3. Among(l, Status) = SavedTasks(l)
    BY <1>0 DEF Typing, TypeOK, Among
  <1>4. /\ Among(l, {"completed"}) \subseteq Among(l, Status)
        /\ card({"completed"}) <= card(Status)
        /\ card({"completed"}) = card(Status) => Among(l, {"completed"}) = Among(l, Status)
    <2>1. Among(l, {"completed"}) \subseteq Among(l, Status)
      BY DEF Among, Status
    <2>2. IsFiniteSet(Among(l, Status))
      BY SavedAreFinite
    <2> QED BY <2>1, <2>2, FS_Subset
  <1>5. n.total > 0 /\ n.total < 200 /\ n.total \in Nat /\ n.completed \in Nat
        /\ n.completed <= n.total
    BY <1>1, <1>2, <1>3, <1>4
  <1> HIDE DEF n, card
  <1>6. PlanSummary(l).status = PlanStatus(n) /\ PlanSummary(l).progress = PlanProgress(n)
    BY DEF PlanSummary, n
  <1>7. PlanProgress(n) = 100 <=> n.completed = n.total
    BY <1>5, FullMeansAll DEF PlanProgress
  <1>8. PlanStatus(n) = "completed" <=> n.completed = n.total
    BY DEF PlanStatus
  <1>9. ASSUME PlanStatus(n) = "failed"
        PROVE  \A t \in SavedTasks(l) : TaskItem(t).progress = 100 \/ row[t] = "failed"
    <2>2. ~(n.running > 0) /\ n.pending = 0
      BY <1>9 DEF PlanStatus
    <2>3. Among(l, {"running"}) = {} /\ Among(l, {"pending"}) = {}
      BY <1>1, <1>2, <2>2
    <2>4. ASSUME NEW t \in SavedTasks(l) PROVE row[t] \in {"completed", "failed"}
      <3>1. row[t] \in Status /\ row[t] # "none" /\ row[t] # "running" /\ row[t] # "pending"
        BY <1>0, <2>3 DEF Typing, TypeOK, Among, SavedTasks
      <3> QED BY <3>1 DEF Status
    <2> QED BY <2>4 DEF TaskItem
  <1>10. ASSUME session.phase = "waiting_track" PROVE PlanStatus(n) # "pending"
    <2>1. \A t \in Tasks : row[t] # "pending"
      <3>1. pc[Job] = "over" /\ todo[Job] = <<>>
        BY <1>10 DEF JobEnds, PushPC
      <3>2. Held(Job) = {}
        BY <3>1, EmptyElements DEF Held
      <3> QED BY <1>10, <3>1, <3>2 DEF JobEnds
    <2>2. Among(l, {"pending"}) = {}
      BY <1>0, <2>1 DEF Among
    <2>3. n.pending = 0
      BY <1>1, <1>2, <2>2
    <2>4. ASSUME n.running = 0, n.failed = 0 PROVE n.completed = n.total
      <3>1. Among(l, {"running"}) = {} /\ Among(l, {"failed"}) = {}
        BY <1>1, <1>2, <2>4
      <3>2. ASSUME NEW t \in SavedTasks(l) PROVE row[t] = "completed"
        <4>1. row[t] \in Status /\ row[t] # "none" /\ row[t] # "running" /\ row[t] # "pending"
              /\ row[t] # "failed"
          BY <1>0, <2>1, <3>1 DEF Typing, TypeOK, Among, SavedTasks
        <4> QED BY <4>1 DEF Status
      <3>3. Among(l, {"completed"}) = Among(l, Status)
        BY <1>3, <3>2 DEF Among
      <3> QED BY <1>1, <3>3 DEF card
    <2>5. n.running \in Nat /\ n.failed \in Nat
      BY <1>1, <1>2
    <2> QED BY <2>3, <2>4, <2>5 DEF PlanStatus
  <1> QED BY <1>6, <1>7, <1>8, <1>9, <1>10

\* What is shown of tasks and plans is true to what was done, however pushers and users
\* interleave.  With 200 tasks and more one that is left over is lost in the rounding:
\* 199 of 200 completed are shown as 100 percent (99.5, rounded), though not as completed.
THEOREM ShownIsTrue ==
    ASSUME Len(RuleTasks) < 200, Len(PlanTasks) < 200
    PROVE  Spec => []StatusAgrees
  <1>1. Typing /\ Halves /\ JobEnds => StatusAgrees
    BY ItemsShown, PlansShown DEF StatusAgrees
  <1> QED BY <1>1, TypingHolds, HalvesHold, JobEndsHolds, PTL

-----------------------------------------------------------------------------
(* TaskDelivery is implemented                                              *)

Proved == Typing /\ Recorded /\ Stages /\ Counted /\ JobEnds

LEMMA ProvedHolds == Spec => []Proved
  BY TypingHolds, RecordedHolds, StagesHold, CountedHolds, JobEndsHolds, PTL DEF Proved

\* What is mapped, as a pusher takes tasks and lets them go.
LEMMA HandsStay ==
    ASSUME \A o \in Pushers : Held(o)' = Held(o)
    PROVE  Hands' = Hands
  BY DEF Hands

LEMMA HandsTake ==
    ASSUME NEW w \in Pushers, NEW S, \A o \in Pushers \ {w} : Held(o)' = Held(o),
           Held(w)' = Held(w) \cup S
    PROVE  Delivery!Taken(w, S)
  <1>1. \A t \in Tasks : Hands'[t] = IF t \in S THEN Hands[t] \cup {w} ELSE Hands[t]
    BY DEF Hands
  <1> QED BY <1>1 DEF Delivery!Taken, Hands

LEMMA HandsFree ==
    ASSUME NEW w \in Pushers, NEW S, \A o \in Pushers \ {w} : Held(o)' = Held(o),
           Held(w)' = Held(w) \ S
    PROVE  Delivery!Freed(w, S)
  <1>1. \A t \in Tasks : Hands'[t] = IF t \in S THEN Hands[t] \ {w} ELSE Hands[t]
    BY DEF Hands
  <1> QED BY <1>1 DEF Delivery!Freed, Hands

\* Whoever lets go of tasks, it is those that were never accepted that a redistribution finds.
LEMMA LettingGo ==
    ASSUME Proved, NEW w \in Pushers, NEW S \in SUBSET Tasks,
           \A o \in Pushers \ {w} : Held(o)' = Held(o), Held(w)' = Held(w) \ S,
           UNCHANGED <<row, delivered, hollow, touched, closed>>
    PROVE  Delivery!Release(w, S) /\ Delivery!Next
  <1>1. \A t \in S : t \in Accepted \cup touched \/ row[t] \in {"none", "pending", "failed"}
    BY DEF Proved, Typing, TypeOK, Recorded, UndeliveredIsListed, Accepted
  <1>2. Delivery!Freed(w, S) /\ Accepted' = Accepted
    BY HandsFree DEF Accepted
  <1>3. Delivery!Release(w, S)
    BY <1>1, <1>2 DEF Delivery!Release
  <1> QED BY <1>3 DEF Delivery!Next

\* The loop of a push has tasks accepted, records them, and lets them go.
LEMMA PushMaps ==
    ASSUME Proved, TypeOK', NEW w \in Pushers, Push(w)
    PROVE  [Delivery!Next]_(Delivery!delivery)
  <1> DEFINE t == Task(w)
  <1> USE DEF Proved, Typing
  <1>0. /\ t \in Tasks /\ t \in Held(w) /\ w \in Hands[t] /\ todo[w] # <<>>
        /\ UNCHANGED <<touched, closed>> /\ Alone(w)
        /\ \A o \in Pushers \ {w} : Held(o)' = Held(o)
    BY PushMoves, PushWrites DEF Hands, Alone
  <1>1. NextTask(w) => Held(w)' = Held(w) \/ Held(w)' = Held(w) \ {t}
    <2> SUFFICES ASSUME NextTask(w)
                 PROVE  Held(w)' = Held(w) \/ Held(w)' = Held(w) \ {t}
      OBVIOUS
    <2>1. Held(w) = {t} \cup Held(w)'
      BY <1>0, NextTaskStep
    <2> QED BY <2>1
  <1> HIDE DEF t
  <1>2. CASE UNCHANGED row /\ Held(w)' = Held(w)
             /\ (UNCHANGED <<delivered, hollow>> \/ t \in Accepted')
    <2>1. Hands' = Hands
      BY <1>0, <1>2, HandsStay
    <2>2. CASE UNCHANGED <<delivered, hollow>>
      BY <1>0, <1>2, <2>1, <2>2 DEF Accepted, Delivery!delivery
    <2>3. CASE t \in Accepted'
      <3>1. \A u \in Tasks \ {t} : (u \in Accepted' <=> u \in Accepted)
        BY PushWrites DEF t
      <3>2. Accepted' = Accepted \cup {t}
        BY <1>0, <2>3, <3>1 DEF Accepted
      <3>3. Delivery!Accept(w, t)
        BY <1>0, <1>2, <2>1, <3>2 DEF Delivery!Accept
      <3> QED BY <1>0, <3>3 DEF Delivery!Next
    <2> QED BY <1>2, <2>2, <2>3
  <1>3. ASSUME NEW new \in {"running", "failed"}, row'[t] = new, UNCHANGED <<delivered,
                                                                             hollow>>,
               new = "running" => t \in Accepted,
               Held(w)' = Held(w) \/ NextTask(w)
        PROVE  Delivery!Next
    <2>1. row' = [row EXCEPT ![t] = new]
      <3>1. \A u \in Tasks \ {t} : row'[u] = row[u]
        BY PushWrites DEF t
      <3> QED BY <1>0, <1>3, <3>1 DEF TypeOK
    <2>2. UNCHANGED Hands \/ Delivery!Freed(w, {t})
      <3>1. Held(w)' = Held(w) \/ Held(w)' = Held(w) \ {t}
        BY <1>3, <1>1
      <3> QED BY <1>0, <3>1, HandsStay, HandsFree
    <2>3. (new = "running" => t \in Accepted) /\ Accepted' = Accepted
      BY <1>0, <1>3 DEF Accepted
    <2>4. Delivery!Record(w, t, new)
      BY <1>0, <2>1, <2>2, <2>3 DEF Delivery!Record
    <2> QED BY <1>0, <2>4 DEF Delivery!Next
  <1>4. CASE pc[w] = "log" /\ NextTask(w) /\ UNCHANGED <<row, delivered, hollow>>
    <2>1. Held(w)' = Held(w) \/ Held(w)' = Held(w) \ {t}
      BY <1>4, <1>1
    <2>2. CASE Held(w)' = Held(w)
      BY <1>0, <1>2, <1>4, <2>2
    <2>3. CASE Held(w)' = Held(w) \ {t}
      BY <1>0, <1>4, <2>3, LettingGo
    <2> QED BY <2>1, <2>2, <2>3
  <1>5. CASE Raised(w) /\ UNCHANGED <<row, delivered, hollow>>
    <2>1. Held(w)' = Held(w) \ Held(w) /\ Held(w) \in SUBSET Tasks
      BY <1>5, RaisedStep, HeldTasks
    <2> QED BY <1>0, <1>5, <2>1, LettingGo
  <1>6. todo'[w] = todo[w] => Held(w)' = Held(w)
    BY DEF Held
  <1>7. pc[w] = "status" => t \in Accepted
    BY DEF Recorded, AfterPush, t
  <1> QED BY <1>2, <1>3, <1>4, <1>5, <1>6, <1>7, PushWrites DEF t

\* The job saves tasks, which it then has in hand.
LEMMA JobMaps ==
    ASSUME Proved, JobStep, TypeOK'
    PROVE  [Delivery!Next]_(Delivery!delivery)
  <1> USE DEF Proved, Typing
  <1>0. /\ Job \in Pushers /\ UNCHANGED <<delivered, hollow, touched,
                                          closed>> /\ Accepted' = Accepted
        /\ \A o \in Pushers \ {Job} : Held(o)' = Held(o)
    BY JobMoves, TaskLists DEF Alone, history, Accepted
  <1>1. ASSUME NEW S \in SUBSET Tasks, SaveRows(S), Held(Job)' = Held(Job) \cup S,
               \A t \in S : row[t] = "none" \/ t \in Held(Job)
        PROVE  Delivery!Next
    <2>1. Delivery!Taken(Job, S)
      BY <1>0, <1>1, HandsTake
    <2>2. \A t \in S : row[t] = "none" \/ Job \in Hands[t]
      BY <1>0, <1>1 DEF Hands
    <2>3. Delivery!Save(Job, S)
      BY <1>0, <1>1, <2>1, <2>2 DEF Delivery!Save, SaveRows
    <2> QED BY <1>0, <2>3 DEF Delivery!Next
  <1>2. CASE /\ pc[Job] = "rSave" /\ todo[Job] # <<>> /\ SaveRows({Task(Job)})
             /\ Held(Job)' = Held(Job)
    <2>1. Task(Job) \in Tasks /\ Task(Job) \in Held(Job)
      BY <1>0, <1>2, InHand
    <2> QED BY <1>1, <1>2, <2>1
  <1>3. CASE /\ pc[Job] = "pSave" /\ SaveRows(Elements(PlanTasks))
             /\ Held(Job)' = Elements(PlanTasks)
    <2>1. Held(Job) = {} /\ \A t \in Elements(PlanTasks) : row[t] = "none"
      BY <1>3, EmptyElements DEF JobEnds, PushPC, Held, Stages, RuleStage, Unsaved
    <2> QED BY <1>1, <1>3, <2>1, TaskLists
  <1>4. CASE UNCHANGED row /\ Held(Job)' = Held(Job)
    <2>1. Hands' = Hands
      BY <1>0, <1>4, HandsStay
    <2> QED BY <1>0, <1>4, <2>1 DEF Delivery!delivery
  <1>5. CASE UNCHANGED row /\ Raised(Job)
    <2>1. Held(Job)' = Held(Job) \ Held(Job) /\ Held(Job) \in SUBSET Tasks
      BY <1>0, <1>5, RaisedStep, HeldTasks
    <2> QED BY <1>0, <1>5, <2>1, LettingGo
  <1> QED BY <1>2, <1>3, <1>4, <1>5, JobMoves

\* A request takes what it lists, settles, or lets go.
LEMMA RequestMaps ==
    ASSUME Proved, NEW w \in Redistributions, ReadState(w) \/ Redistribute(w)
    PROVE  [Delivery!Next]_(Delivery!delivery)
  <1> USE DEF Proved, Typing
  <1>0. /\ w \in Pushers /\ UNCHANGED <<row, delivered, hollow,
                                        touched>> /\ Accepted' = Accepted
        /\ \A o \in Pushers \ {w} : Held(o)' = Held(o)
    BY RequestMoves, TaskLists DEF Alone, Accepted
  <1>1. CASE ReadState(w) \/ CountPending(w) \/ CountFailed(w)
    <2>1. UNCHANGED <<todo, closed>>
      BY <1>1 DEF ReadState, CountPending, CountFailed, history
    <2>2. Hands' = Hands
      BY <2>1, HandsStay DEF Held
    <2> QED BY <1>0, <2>1, <2>2 DEF Delivery!delivery
  <1>2. CASE ListPending(w) \/ ListFailed(w)
    <2>1. PICK S \in {{"pending"}, {"failed"}} : Capture(w, WithStatus(w, S)) /\ UNCHANGED closed
      BY <1>2 DEF ListPending, ListFailed
    <2>2. PICK answer \in Seq(Tasks) : /\ Elements(answer) \subseteq WithStatus(w, S)
                                       /\ Held(w)' = Held(w) \cup Elements(answer)
      BY <2>1, CaptureStep
    <2>3. /\ Elements(answer) \in SUBSET Tasks
          /\ \A t \in Elements(answer) : row[t] \in {"pending", "failed"}
      BY <2>1, <2>2, ListOfType DEF WithStatus
    <2>4. Delivery!Taken(w, Elements(answer))
      BY <1>0, <2>2, HandsTake
    <2>5. Delivery!Take(w, Elements(answer))
      BY <1>0, <2>1, <2>3, <2>4 DEF Delivery!Take
    <2> QED BY <1>0, <2>3, <2>5 DEF Delivery!Next
  <1>3. CASE SettleAdoption(w)
    <2>1. pc[w] = "adopt" /\ UNCHANGED todo /\ closed' = TRUE
      BY <1>3 DEF SettleAdoption, Move
    <2>2. Hands' = Hands
      BY <2>1, HandsStay DEF Held
    <2>3. Elements(PlanTasks) \subseteq Accepted \cup touched
      BY <2>1, TaskLists DEF Counted, Counts, AcceptedOrTouched, Accepted
    <2>4. Delivery!Settle
      BY <1>0, <2>1, <2>2, <2>3 DEF Delivery!Settle
    <2> QED BY <2>4 DEF Delivery!Next
  <1>4. CASE FailRequest(w)
    <2>1. Raised(w) /\ UNCHANGED closed
      BY <1>4 DEF FailRequest, history
    <2>2. Held(w)' = Held(w) \ Held(w) /\ Held(w) \in SUBSET Tasks
      BY <1>0, <2>1, RaisedStep, HeldTasks
    <2> QED BY <1>0, <2>1, <2>2, LettingGo
  <1> QED BY <1>1, <1>2, <1>3, <1>4 DEF Redistribute

LEMMA UserMaps ==
    ASSUME Proved, UserStep
    PROVE  Delivery!Next
  <1>1. PICK t \in Tasks, new \in {"completed", "failed", "running"} : SetByUser(t, new)
    BY DEF UserStep
  <1>2. Hands' = Hands /\ Accepted' = Accepted /\ UNCHANGED closed
    BY UserMoves, HandsStay DEF Accepted
  <1>3. Delivery!SetByUser(t, new)
    BY <1>1, <1>2 DEF SetByUser, Delivery!SetByUser
  <1> QED BY <1>3 DEF Delivery!Next, Delivery!Words

LEMMA DeliveryMaps ==
    ASSUME Proved, Proved', [Next]_vars
    PROVE  [Delivery!Next]_(Delivery!delivery)
  <1>1. CASE UNCHANGED vars
    <2>1. UNCHANGED <<row, delivered, hollow, todo, touched, closed>>
      BY <1>1 DEF vars, db, own, history
    <2>2. Hands' = Hands /\ Accepted' = Accepted
      BY <2>1, HandsStay DEF Held, Accepted
    <2> QED BY <2>1, <2>2 DEF Delivery!delivery
  <1> QED BY <1>1, PushMaps, JobMaps, RequestMaps, UserMaps DEF Next, Proved, Typing

\* The execution of a plan implements TaskDelivery, for any tasks, any number of
\* redistributions and any faults: a row changes at the hands of who pushes the task
\* or at a user's word, runs only once it was accepted, and whatever is dropped is left
\* where the next redistribution finds it.
THEOREM TasksAreDelivered == Spec => DeliversItsTasks
  <1>1. Init => Delivery!Init
    <2> SUFFICES ASSUME Init PROVE Delivery!Init
      OBVIOUS
    <2>1. Accepted = {}
      BY DEF Init, Accepted
    <2>2. Hands \in [Tasks -> SUBSET Pushers]
      BY DEF Hands
    <2> QED BY <2>1, <2>2 DEF Init, Delivery!Init
  <1>2. Proved /\ Proved' /\ [Next]_vars => [Delivery!Next]_(Delivery!delivery)
    BY DeliveryMaps
  <1> QED BY <1>1, <1>2, ProvedHolds, PTL DEF Spec, DeliversItsTasks, Delivery!Spec
=============================================================================
