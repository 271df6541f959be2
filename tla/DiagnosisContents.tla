------------------------- MODULE DiagnosisContents --------------------------
(* The contents of one diagnosis on their way through its phases: figures,  *)
(* scores and anomalies, the causes a language model is asked for, the      *)
(* plans, the tasks of the adopted plan with the day of their review, and   *)
(* the scores of the tracking that ends in that review.                     *)
(*                                                                          *)
(* What fails on the way and in which order things are written is the       *)
(* subject of the other modules; here the question is what is computed from *)
(* what.                                                                    *)
EXTENDS Solutions

CONSTANTS
    Requests,      \* [dims, inds]: the dimensions and indicators of a start request
    Businesses,    \* raw figures of the business: [Codes -> [part, total]]
    Outcomes,      \* raw figures a snapshot may find
    Modes,         \* business modes: "hybrid", "service", "mall"
    Losses,        \* sets of questions answered by something that is no object
    Drafts,        \* plans that the language model may write
    Hours,         \* hours of a day at which a plan may be executed
    MaxPlans,      \* bound: plans in one answer of the language model
    MaxSnapshots,  \* bound: snapshots before the review
    ReviewDelay,   \* effect_track_delay_days, in hours
    PushSettings   \* the values of settings.exec_push_rule_tasks

Questions == Dimensions \cup {"profile"}
NoReview == [trend |-> "none", change |-> 0, achievement |-> 0, saved |-> FALSE]
NoScore == [scores |-> <<>>, weights |-> <<>>, health |-> 0]
Never == -1   \* no score, and no midnight

ASSUME ContentsAssumption ==
    /\ \A r \in Requests : r.dims \subseteq Dimensions /\ r.inds \subseteq Codes
    /\ Businesses \cup Outcomes \subseteq [Codes -> [part : Nat, total : Nat]]
    /\ Modes \subseteq {"hybrid", "service", "mall"}
    /\ Losses \subseteq SUBSET Questions
    /\ Drafts \subseteq PlanType(STRING)
    /\ Hours \subseteq 0..23
    /\ MaxPlans \in Nat /\ MaxSnapshots \in Nat
    /\ ReviewDelay \in Nat \ {0}
    /\ PushSettings \subseteq BOOLEAN

VARIABLES
    pc,         \* the phase of the session, diagnose_node in its three parts
    request,    \* what the client asked for
    business, mode,      \* what the business system knows
    profile, answered,   \* the answers that were objects
    values,     \* the indicators collected
    scored,     \* dimension scores, weights and health score
    anomalies,  \* the anomalies, in the order they were found
    causes,     \* merged: the round that explained an anomaly
    round,      \* how often the language model was asked
    report,     \* the diagnosis report
    plans, adopted,      \* the plans, and the index of the adopted one
    tasks, due, \* the tasks that were pushed, and review_due_date
    snapshots,  \* the snapshots of the tracking
    current,    \* tracking_data.current_score, Never for None
    review      \* the review report, and what became of the case

collectVars == <<business, mode, profile, answered, values>>
diagnoseVars == <<scored, anomalies, causes, round, report>>
planVars == <<plans, adopted, tasks, due>>
trackVars == <<snapshots, current, review>>
vars == <<pc, request, collectVars, diagnoseVars, planVars, trackVars>>

Active == resolve_active_indicators(request.dims, request.inds)
Everything == resolve_active_indicators({}, {})

Init ==
    /\ request \in Requests
    /\ business \in Businesses /\ mode \in Modes
    /\ pc = "collecting"
    /\ profile = FALSE /\ answered = {} /\ values = <<>>
    /\ scored = NoScore /\ anomalies = <<>> /\ causes = <<>> /\ round = 0
    /\ report = <<>>
    /\ plans = <<>> /\ adopted = 0 /\ tasks = <<>> /\ due = Never
    /\ snapshots = <<>> /\ current = Never /\ review = NoReview

-----------------------------------------------------------------------------
(* Collecting and diagnosing *)

\* The profile and the active dimensions are asked for at once; one exception
\* ends the phase, an answer that is no object counts as none.
Collect ==
    /\ pc = "collecting"
    /\ \/ /\ pc' = "failed"
          /\ UNCHANGED <<profile, answered, values>>
       \/ \E lost \in Losses :
            /\ profile' = ("profile" \notin lost)
            /\ answered' = Active.dims \ lost
            /\ values' = Collected(business, answered', IF profile' THEN mode ELSE "hybrid")
            /\ pc' = "diagnosing"
    /\ UNCHANGED <<request, business, mode, diagnoseVars, planVars, trackVars>>

Diagnose ==
    /\ pc = "diagnosing"
    /\ IF profile /\ answered # {}
       THEN /\ scored' = Score(values, Active)
            /\ anomalies' = FindAnomalies(values, Active.inds)
            /\ pc' = IF anomalies' = <<>> THEN "reporting" ELSE "asking"
       ELSE pc' = "failed" /\ UNCHANGED <<scored, anomalies>>
    /\ UNCHANGED <<request, collectVars, causes, round, report, planVars, trackVars>>

\* The anomalies that a round asks the language model about.
\* Mutant: missing is not narrowed.
AskedAboutAll == Range(anomalies)
AskedAbout == Range(anomalies) \ DOMAIN causes

\* normalize_llm_root_causes: an answer names indicators; a vague name such as
\* "rate" is taken for the first anomaly whose name contains it.
normalize_llm_root_causes(named, asked) ==
    LET rates == {i \in DOMAIN anomalies : "vague" \in named /\ anomalies[i] \in asked \cap Rates}
    IN (named \cap asked)
       \cup {anomalies[i] : i \in {k \in rates : \A l \in rates : k <= l}}

\* What the language model may name; nothing if it is off, fails or writes no JSON.
LlmRootCauses == SUBSET (Range(anomalies) \cup {"vague"})

\* One answer.  merged.update.
AskCauses ==
    /\ pc = "asking"
    /\ \E named \in LlmRootCauses :
         LET found == normalize_llm_root_causes(named, AskedAbout)
         IN causes' = [c \in DOMAIN causes \cup found |->
                          IF c \in found THEN round + 1 ELSE causes[c]]
    /\ round' = round + 1
    /\ pc' = IF round' = 3 \/ Range(anomalies) \subseteq DOMAIN causes'
             THEN "reporting" ELSE "asking"
    /\ UNCHANGED <<request, collectVars, scored, anomalies, report, planVars, trackVars>>

Report ==
    /\ pc = "reporting"
    /\ report' = build_diagnosis_report(scored, anomalies, values, Active, causes)
    /\ pc' = "generating"
    /\ UNCHANGED <<request, collectVars, scored, anomalies, causes, round, planVars, trackVars>>

-----------------------------------------------------------------------------
(* Plans and tasks *)

\* What _llm_generate_solutions returns: the rules alone, the text of an answer
\* that is no JSON, or the plans of the answer under ids of their own.
Answers ==
    {build_plans_when_llm_disabled(anomalies), DefaultPlan(anomalies)} \cup
    {[i \in DOMAIN ds |-> [ds[i] EXCEPT !.id = i]] : ds \in SeqOf(Drafts, MaxPlans)}

Generate ==
    /\ pc = "generating"
    /\ \/ /\ plans' = IF anomalies = <<>> THEN <<>> ELSE plans
          /\ pc' = IF anomalies = <<>> THEN "completed" ELSE "failed"  \* a plan is no object
       \/ /\ anomalies # <<>>
          /\ \E answer \in Answers : plans' = generate_solutions(answer, anomalies)
          /\ pc' = IF plans' = <<>> THEN "completed" ELSE "waiting_adoption"
    /\ UNCHANGED <<request, collectVars, diagnoseVars, adopted, tasks, due, trackVars>>

Adopt(i) ==
    /\ pc = "waiting_adoption"
    /\ i \in DOMAIN plans
    /\ adopted' = i
    /\ pc' = "executing"
    /\ UNCHANGED <<request, collectVars, diagnoseVars, plans, tasks, due, trackVars>>

\* The tasks of a list, each pushed or refused.
Pushed(list, refused) ==
    [i \in DOMAIN list |-> [task |-> list[i], created |-> i \notin refused]]
CreatedDeadlines(list) == {t.task.deadline : t \in {s \in Range(list) : s.created}}

\* The deadline a review waits for.
\* Mutant: < for > between deadlines.
ReviewDueEarliest(list, now) ==
    IF CreatedDeadlines(list) = {} THEN now + ReviewDelay
    ELSE 24 * (Min(CreatedDeadlines(list)) \div 24)
ReviewDue(list, now) == resolve_review_due_at(CreatedDeadlines(list), now, ReviewDelay)

\* The tasks of the rules themselves, when the setting asks for them.
Ruled(now, pushRules) ==
    IF pushRules THEN build_tasks_from_rule_specs(anomalies, values, now) ELSE <<>>

\* With the setting on, the tasks and messages of the rules come first; a message
\* that cannot be sent ends the phase, and so does an automatic action.
Execute(now, pushRules) ==
    /\ pc = "executing"
    /\ LET ruled == Ruled(now, pushRules)
           planned == build_execution_tasks(plans[adopted], anomalies, values, now)
           messages == pushRules /\ Range(anomalies) \cap RuleMessages # {}
       IN \/ /\ messages
             /\ \E refused \in SUBSET DOMAIN ruled : tasks' = Pushed(ruled, refused)
             /\ pc' = "failed"
             /\ UNCHANGED due
          \/ /\ \E refused \in SUBSET DOMAIN (ruled \o planned) :
                  tasks' = Pushed(ruled \o planned, refused)
             /\ \/ pc' = "waiting_track" /\ due' = ReviewDue(tasks', now)
                \/ /\ \E i \in DOMAIN tasks' : i > Len(ruled) /\ tasks'[i].created
                   /\ pc' = "failed" /\ UNCHANGED due
    /\ UNCHANGED <<request, collectVars, diagnoseVars, plans, adopted, trackVars>>

-----------------------------------------------------------------------------
(* Tracking *)

\* _build_effect_tracking_snapshot: what is lost counts 60.
SnapshotScore(b, lost, scope) ==
    LET m == IF "profile" \in lost THEN "hybrid" ELSE mode
    IN Tenths(Score(Collected(b, scope.dims \ lost, m), scope).health)

Snapshot(kind, by, score, b, lost) ==
    [kind |-> kind, by |-> by, score |-> score, figures |-> b, lost |-> lost]

\* The collector measures what the diagnosis selected, a request measures
\* everything: only the collector copies the selection into the tracking data.
Scope(by) == IF by = "collector" THEN Active ELSE Everything

TakeSnapshot(by) ==
    /\ pc = "waiting_track"
    /\ Len(snapshots) < MaxSnapshots
    /\ \E b \in Outcomes, lost \in Losses :
         LET score == SnapshotScore(b, lost, Scope(by))
         IN /\ snapshots' = Append(snapshots, Snapshot("measured", by, score, b, lost))
            /\ current' = IF by = "request" THEN score ELSE current
    /\ UNCHANGED <<pc, request, collectVars, diagnoseVars, planVars, review>>

\* The health score of the closing snapshot: that of the latest one, else the
\* current score; None counts 0.
\* Mutant: the row's score alone.
ClosingScoreStale ==
    IF current # Never THEN current ELSE 0
ClosingScore == IF snapshots # <<>> THEN Last(snapshots).score ELSE ClosingScoreStale

Scores(list) == [i \in DOMAIN list |-> list[i].score]
Change(list) == IF Len(list) >= 2 THEN Last(list).score - list[1].score ELSE 0

\* The base report knows no decline.
BaseTrend(list) == IF Change(list) > 0 THEN "improving" ELSE "stable"

\* The knowledge base takes every plan whose achievement is 50 percent: 50 and
\* two for each point gained, never less than 50; 60 for a single score.
Achievement(list) ==
    IF Len(list) >= 2 THEN Min({1000, Max({500, 500 + 2 * Change(list)})}) ELSE 600

\* The review copies the latest snapshot and reports on the whole list, or its
\* report fails.
Complete ==
    /\ pc = "waiting_track"
    /\ \/ LET closing == Snapshot("closing", "review", ClosingScore, <<>>, {})
              list == Append(snapshots, closing)
          IN /\ snapshots' = list
             /\ current' = IF snapshots # <<>> THEN closing.score ELSE current
             /\ review' = [trend |-> BaseTrend(list), change |-> Change(list),
                           achievement |-> Achievement(list),
                           saved |-> Achievement(list) >= 500]
       \/ UNCHANGED trackVars
    /\ pc' = "completed"
    /\ UNCHANGED <<request, collectVars, diagnoseVars, planVars>>

\* analyze_tracking_payload.
Trend(list) ==
    IF list = <<>> THEN "no_data"
    ELSE IF Len(list) = 1 THEN "insufficient_data"
    ELSE IF Change(list) > 0 THEN "improving"
    ELSE IF Change(list) < 0 THEN "declining" ELSE "stable"

-----------------------------------------------------------------------------
Next ==
    \/ Collect \/ Diagnose \/ AskCauses \/ Report \/ Generate
    \/ \E i \in DOMAIN plans : Adopt(i)
    \/ \E now \in Hours, pushRules \in PushSettings : Execute(now, pushRules)
    \/ \E by \in {"collector", "request"} : TakeSnapshot(by)
    \/ Complete

Spec == Init /\ [][Next]_vars

-----------------------------------------------------------------------------
(* Properties *)

Phases == {"collecting", "diagnosing", "asking", "reporting", "generating",
           "waiting_adoption", "executing", "waiting_track", "completed", "failed"}

\* Every indicator, score, deadline and percentage stays in its range.
TypeOK ==
    /\ pc \in Phases
    /\ request \in Requests /\ business \in Businesses /\ mode \in Modes
    /\ profile \in BOOLEAN /\ answered \subseteq Dimensions
    /\ DOMAIN values \subseteq Codes /\ \A c \in DOMAIN values : values[c] \in Nat
    /\ \A d \in DOMAIN scored.scores : scored.scores[d] \in 0..10000
    /\ Range(anomalies) \subseteq Codes
    /\ round \in 0..3
    /\ DOMAIN causes \subseteq Codes /\ \A c \in DOMAIN causes : causes[c] \in 1..round
    /\ adopted \in 0..Len(plans)
    /\ \A t \in Range(tasks) : t.task.deadline \in Int /\ t.created \in BOOLEAN
    /\ due \in Int
    /\ \A x \in Range(snapshots) : x.score \in 0..1000
    /\ current \in 0..1000 \cup {Never}
    /\ review.achievement \in 0..1000

\* The figures agree, whatever was selected, lost or does not apply: the health
\* score lies between the scores of its dimensions (to the fourth decimal of the
\* weights) and its level between theirs (but for a score shown as that of a level's
\* bound); an indicator is an anomaly if and only if it takes part and scores less
\* than 54, where the rounded score itself may read 54; a reader sees exactly the
\* anomalies, the larger gaps first, and the recommended plan at the head of the
\* list; and what a task has to reach is never worse than what was measured.
HealthIsAnAverage ==
    LET scores == {scored.scores[d] : d \in Active.dims}
    IN 9999 * Min(scores) <= scored.health /\ scored.health <= 10001 * Max(scores)
AnomaliesScoreLow ==
    \A c \in DOMAIN values \cap Active.inds :
        IF c \in Range(anomalies) THEN IndicatorScore(c, values[c]) <= 5400
                                  ELSE IndicatorScore(c, values[c]) >= 5400
AnomaliesTakePart ==
    /\ Range(anomalies) \subseteq Active.inds \ NOT_APPLICABLE(mode)
    /\ \A c \in Range(anomalies) : INDICATOR_META[c].dimension \in answered
ReportIsOrdered ==
    LET shown == transform_report_to_frontend_format(report, values).anomalies
    IN /\ {x.metric_name : x \in Range(shown)} = Range(anomalies)
       /\ \A i, k \in DOMAIN shown, bound \in {2000, 3000} :
            i < k /\ shown[k].gap_percentage > bound => shown[i].gap_percentage >= bound
LevelRank(level) == CASE level = "excellent" -> 3 [] level = "good" -> 2
                      [] level = "warning" -> 1 [] OTHER -> 0
LevelIsAnAverage ==
    LET shown == transform_report_to_frontend_format(report, values)
        ranks == {LevelRank(shown.levels[d]) : d \in DOMAIN shown.levels}
    IN /\ LevelRank(shown.status) <= Max(ranks)
       /\ LevelRank(shown.status) >= Min(ranks)
          \/ \E level \in {40, 60, 80} : shown.total_score = 10 * level
PlansAreRanked ==
    LET list == build_compat_solution_list(plans, anomalies, adopted)
    IN /\ \A i, k \in DOMAIN list : i < k => list[i].score >= list[k].score
       /\ list[1].id = plans[Recommended(plans)].id
CriteriaImprove ==
    \A x \in Range(tasks) : \A c \in DOMAIN x.task.criteria :
        /\ INDICATOR_META[c].better = "higher"
        /\ x.task.criteria[c] \in values[c]..INDICATOR_META[c].avg
FiguresAgree ==
    /\ scored # NoScore => HealthIsAnAverage /\ AnomaliesScoreLow /\ AnomaliesTakePart
    /\ report # <<>> => ReportIsOrdered /\ LevelIsAnAverage
    /\ plans # <<>> => PlansAreRanked
    /\ CriteriaImprove

\* A later round of questions never replaces a cause that an earlier one found,
\* and a cause is only ever recorded for an anomaly: a vague or repeated answer
\* of the language model goes to what is still unexplained.
CausesAreOfAnomalies == DOMAIN causes \subseteq Range(anomalies)
CausesKept ==
    [][/\ \A c \in DOMAIN causes : c \in DOMAIN causes' /\ causes'[c] = causes[c]
       /\ CausesAreOfAnomalies']_causes

\* Whatever the language model writes, the rules are kept: for every task that the
\* rules demand for the anomalies, a step of some plan is its department's and says
\* its name or the first four characters of it; some plan has the coupons of every
\* rule; and there are plans unless no rule demands a task.  If there is one plan
\* and all of its tasks were created, one of them says so for every rule's task.
RulesAreInPlans ==
    /\ \A t \in Range(collect_mandatory_task_specs(anomalies)) : mandatory_task_is_covered(plans, t)
    /\ plans # <<>> =>
         \A c \in Range(anomalies) : \E p \in Range(plans) : RuleCoupon(c) \subseteq p.coupons
RulesAreInTasks ==
    \A t \in Range(collect_mandatory_task_specs(anomalies)) :
        \E x \in Range(tasks) : Mentions(x.task.says, t.name)
NothingIsForgotten ==
    /\ pc \in {"waiting_adoption", "executing", "waiting_track", "completed"} => RulesAreInPlans
    /\ pc = "waiting_track" /\ Len(plans) = 1 /\ (\A x \in Range(tasks) : x.created)
       => RulesAreInTasks

\* The review waits for the tasks: no created task is due on a later day than the
\* review, and some created task on no earlier day; without one the whole delay
\* passes.  The review is due before the day of the execution only if the plan
\* itself gave every created task a date in the past: neither a number of hours nor
\* a rule nor a text that cannot be read makes a review due that early.
Created == {x \in Range(tasks) : x.created}
ReviewDay ==
    due # Never =>
        /\ \A x \in Created : x.task.deadline < due + 24
        /\ IF Created = {} THEN due >= ReviewDelay
                            ELSE \E x \in Created : due <= x.task.deadline
        /\ due < 0 => \A x \in Created : \E s \in Range(plans[adopted].steps) :
              s.timeline.kind = "on" /\ s.timeline.hours < 0 /\ s.says = x.task.says

\* A score is comparable where it was measured alike: if no answer was lost and no
\* indicator in its scope got worse between two measurements by the same hand
\* (the report counts with the collector), the later score is not lower; and the
\* closing snapshot changes neither the trend nor the change that the review
\* reports over two or more snapshots.
NoWorse(before, after, scope) ==
    \A c \in scope.inds :
        Gap(c, Measured(c, after[c])) >= Gap(c, Measured(c, before[c]))
Measurements ==
    LET first == [Snapshot("measured", "collector", Tenths(scored.health), business, {})
                     EXCEPT !.lost = Active.dims \ answered]
    IN <<first>> \o snapshots
ImprovementShows ==
    \A i, k \in DOMAIN Measurements :
        LET x == Measurements[i]
            y == Measurements[k]
        IN /\ i < k /\ x.kind = y.kind /\ x.by = y.by /\ x.lost = {} /\ y.lost = {}
           /\ NoWorse(x.figures, y.figures, Scope(x.by))
           => y.score >= x.score
ReviewAgrees ==
    Len(snapshots) >= 3 /\ review # NoReview =>
        LET measured == Front(snapshots)
        IN /\ review.trend = "improving" <=> Trend(measured) = "improving"
           /\ review.change = Change(measured)
TrendIsReal == pc \in {"waiting_track", "completed"} /\ due # Never
                  => ImprovementShows /\ ReviewAgrees
=============================================================================
