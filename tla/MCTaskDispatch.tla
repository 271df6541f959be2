---------------------------- MODULE MCTaskDispatch ----------------------------
(* An instance of TaskDispatch for TLC: one task of a rule, two of the plan,  *)
(* one redistribution.                                                       *)
EXTENDS TaskDispatch

CONSTANTS ruleTask, planTask, planTask2

MCRuleTasks == <<ruleTask>>
MCPlanTasks == <<planTask, planTask2>>

Scenario(broken, overHttp, what) ==
    [faults |-> broken, http |-> overHttp, list |-> [w \in Redistributions |-> what]]
MCScenarios == {Scenario({}, TRUE, "plan"), Scenario({}, FALSE, "rule"),
                Scenario({"lost"}, TRUE, "plan"),
                Scenario({"lost"}, FALSE, "rule"),
                Scenario({"pg", "refused"}, TRUE, "plan"), Scenario({"biz"}, FALSE, "plan"),
                Scenario({"hollow"}, TRUE, "plan")}
=============================================================================
