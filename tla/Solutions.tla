----------------------------- MODULE Solutions ------------------------------
(* How the anomalies of a diagnosis become plans, and an adopted plan       *)
(* becomes tasks with deadlines and a day for its review                    *)
(* (core/indicator_push_rules.py, agent/nodes/generate.py,                  *)
(* agent/nodes/rule_task_builder.py and the list of plans).                 *)
(*                                                                          *)
(* Texts are reduced to what decides: a step says a set of words (the name   *)
(* of a task, or the first four characters of one), its department contains *)
(* a set of keywords.  A time is in hours, 0 the midnight before the        *)
(* execution.                                                               *)
EXTENDS Indicators

-----------------------------------------------------------------------------
(* Timelines: a number of hours or days, a date (of any year), or a text in *)
(* which neither is found.                                                  *)

Within(hours) == [kind |-> "within", hours |-> hours]
On(hours) == [kind |-> "on", hours |-> hours]
Unreadable == [kind |-> "unreadable", hours |-> 0]
TimelineType == [kind : {"within"}, hours : Nat] \cup [kind : {"on"}, hours : Int]
                \cup {Unreadable}

\* A deadline that cannot be read is a week away.
Deadline(now, timeline) ==
    CASE timeline.kind = "within" -> now + timeline.hours
      [] timeline.kind = "on" -> timeline.hours
      [] OTHER -> now + 168

-----------------------------------------------------------------------------
(* The rule table *)

Task(name, dept, hours) == [name |-> name, dept |-> dept, hours |-> hours]

RuleTasks(c) ==
    CASE c = "lead_conversion_rate" -> <<Task("follow leads", "sales", 24)>>
      [] c = "coupon_redemption_rate" -> <<Task("coupon strategy", "operations", 72)>>
      [] c = "refund_rate" -> <<Task("refund causes", "operations", 120)>>
      [] c = "positive_review_rate" -> <<Task("after-sales service", "after-sales", 72),
                                         Task("call back", "customer service", 24)>>
      [] c = "avg_shipping_hours" -> <<Task("shipping flow", "warehouse", 120)>>
      [] c = "seckill_conversion_rate" -> <<Task("seckill goods", "operations", 72)>>
      [] OTHER -> <<>>

\* The customers a rule wants to send coupons to; {} if it has none.
RuleCoupon(c) == CASE c = "repurchase_rate" -> {"no repurchase"}
                   [] c = "churn_rate" -> {"churn risk"}
                   [] OTHER -> {}

\* The rules that also send a message to their customers.
RuleMessages == {"coupon_redemption_rate", "churn_rate", "seckill_conversion_rate"}

collect_mandatory_task_specs(anomalies) ==
    FlattenSeq([i \in DOMAIN anomalies |-> RuleTasks(anomalies[i])])

-----------------------------------------------------------------------------
(* Plans *)

Step(says, depts, timeline, byRule) ==
    [says |-> says, depts |-> depts, timeline |-> timeline, byRule |-> byRule]
step_from_mandatory_spec(t) == Step({t.name}, {t.dept}, Within(t.hours), TRUE)

Plan(id, targets, steps, coupons, roi, difficulty, urgency) ==
    [id |-> id, targets |-> targets, steps |-> steps, coupons |-> coupons,
     roi |-> roi, difficulty |-> difficulty, urgency |-> urgency]

\* The steps and plans that can be written with some words.
StepType(words) == [says : SUBSET words, depts : SUBSET words,
                    timeline : TimelineType, byRule : BOOLEAN]
PlanType(words) == [id : Nat, targets : SUBSET Codes, steps : Seq(StepType(words)),
                    coupons : SUBSET words, roi : Int, difficulty : Int, urgency : Int]

\* In tenths: roi * 0.6 + (10 - difficulty) * 0.2 + urgency * 0.2.
priority_score(p) == 6 * p.roi + 2 * (10 - p.difficulty) + 2 * p.urgency

\* The indicators of the first n anomalies.
FirstFew(anomalies, n) == Range(SubSeq(anomalies, 1, Min({n, Len(anomalies)})))

\* The language model is off or its call failed: the rules alone.
build_plans_when_llm_disabled(anomalies) ==
    LET mandatory == collect_mandatory_task_specs(anomalies)
    IN <<Plan(1, FirstFew(anomalies, 10),
              [i \in DOMAIN mandatory |-> step_from_mandatory_spec(mandatory[i])],
              UNION {RuleCoupon(c) : c \in Range(anomalies)}, 1, 5, 6)>>

\* The first four characters of the name of a task.
FirstFour(name) == CASE name = "follow leads" -> "follow"
                     [] name = "coupon strategy" -> "coupon"
                     [] name = "refund causes" -> "refund"
                     [] name = "after-sales service" -> "service"
                     [] name = "call back" -> "back"
                     [] name = "shipping flow" -> "shipping"
                     [] name = "seckill goods" -> "seckill"
                     [] OTHER -> name
Mentions(says, name) == name \in says \/ FirstFour(name) \in says

mandatory_task_is_covered(plans, t) ==
    \E i \in DOMAIN plans : \E s \in Range(plans[i].steps) :
        t.dept \in s.depts /\ Mentions(s.says, t.name)

\* The steps the language model left out go to the first plan it wrote; a plan
\* is made for them if it wrote none.
\* Mutant: only if there is no plan.
ensure_some_plan(plans, anomalies) ==
    IF plans = <<>> THEN build_plans_when_llm_disabled(anomalies) ELSE plans
ensure_mandatory_task_steps(plans, anomalies) ==
    LET mandatory == collect_mandatory_task_specs(anomalies)
        made == <<Plan(1, {c \in Range(anomalies) : RuleTasks(c) # <<>>}, <<>>, {}, 1, 5, 7)>>
        given == IF plans = <<>> THEN made ELSE plans
        missing == Select(mandatory, {t \in Range(mandatory) : ~mandatory_task_is_covered(given, t)})
        added == [i \in DOMAIN missing |-> step_from_mandatory_spec(missing[i])]
    IN IF mandatory = <<>> THEN plans
       ELSE [given EXCEPT ![1].steps = @ \o added]

\* The plan that aims at indicator c, the first one if none does.
PlanFor(plans, c) ==
    LET aiming == {i \in DOMAIN plans : c \in plans[i].targets}
    IN IF aiming = {} THEN 1 ELSE Min(aiming)

\* The plan for each anomaly whose rule has coupons gets them, and aims at it.
ensure_mandatory_coupon_auto_actions(plans, anomalies) ==
    [i \in DOMAIN plans |->
        LET mine == {c \in Range(anomalies) : RuleCoupon(c) # {} /\ PlanFor(plans, c) = i}
            new == {c \in mine : RuleCoupon(c) \cap plans[i].coupons = {}}
        IN [plans[i] EXCEPT !.coupons = @ \cup UNION {RuleCoupon(c) : c \in new},
                            !.targets = @ \cup new]]

\* plans.sort(key=priority_score, reverse=True), a stable sort of plans whose
\* ids are their places.
Before(p, q) == \/ priority_score(p) > priority_score(q)
                \/ priority_score(p) = priority_score(q) /\ p.id < q.id
ByPriority(plans) ==
    CHOOSE s \in [DOMAIN plans -> Range(plans)] :
        Range(s) = Range(plans) /\ \A i, k \in DOMAIN s : i < k => Before(s[i], s[k])

\* Its answer is no JSON: a plan with the text as its description.
DefaultPlan(anomalies) ==
    <<Plan(1, FirstFew(anomalies, 3), <<>>, {}, 1, 5, 5)>>

generate_solutions(drafts, anomalies) ==
    ByPriority(ensure_mandatory_coupon_auto_actions(
                   ensure_mandatory_task_steps(drafts, anomalies), anomalies))

\* max(plans, key=priority_score): the first of the best ones.
Recommended(plans) ==
    CHOOSE i \in DOMAIN plans :
        /\ \A k \in DOMAIN plans : priority_score(plans[k]) <= priority_score(plans[i])
        /\ \A k \in 1..(i - 1) : priority_score(plans[k]) < priority_score(plans[i])

\* The list a client chooses from: a rank, the priority in tenths, and the
\* anomalies a plan aims at.
plan_to_list_item(p, rank, anomalies, isAdopted) ==
    [rank |-> rank, id |-> p.id, score |-> priority_score(p),
     anomaly_ids |-> p.targets \cap Range(anomalies),
     status |-> IF isAdopted THEN "adopted" ELSE "pending"]
build_compat_solution_list(plans, anomalies, adopted) ==
    [i \in DOMAIN plans |-> plan_to_list_item(plans[i], i, anomalies, i = adopted)]

-----------------------------------------------------------------------------
(* Tasks and their review *)

\* A task is done when its indicators are half way to the average, "name >= x",
\* to one decimal; an indicator that is not below the average gets no criterion.
\* (The code keeps the first five.)
generate_acceptance_criteria(targets, anomalies, values) ==
    LET below == {c \in targets \cap Range(anomalies) : values[c] < INDICATOR_META[c].avg}
    IN [c \in below |-> 10 * RoundDiv(values[c] + INDICATOR_META[c].avg, 20)]

ExecTask(says, deadline, criteria) ==
    [says |-> says, deadline |-> deadline, criteria |-> criteria]

build_execution_tasks(plan, anomalies, values, now) ==
    LET criteria == generate_acceptance_criteria(plan.targets, anomalies, values)
    IN IF plan.steps = <<>> THEN <<ExecTask({}, Deadline(now, Unreadable), criteria)>>
       ELSE [i \in DOMAIN plan.steps |->
               ExecTask(plan.steps[i].says, Deadline(now, plan.steps[i].timeline), criteria)]

\* The task, of whichever rule, that every anomaly in turn demands.
build_tasks_from_rule_specs(anomalies, values, now) ==
    LET ofRule(c) == [i \in DOMAIN RuleTasks(c) |->
            ExecTask({RuleTasks(c)[i].name}, Deadline(now, Within(RuleTasks(c)[i].hours)),
                     generate_acceptance_criteria({c}, anomalies, values))]
    IN FlattenSeq([i \in DOMAIN anomalies |-> ofRule(anomalies[i])])

\* The midnight that begins the day of the latest deadline, or the delay that
\* is configured when no task was created.
resolve_review_due_at(deadlines, now, delay) ==
    IF deadlines = {} THEN now + delay ELSE 24 * (Max(deadlines) \div 24)
=============================================================================
