------------------------ MODULE MCDiagnosisContents -------------------------
(* An instance of DiagnosisContents for TLC: six businesses, five requests,  *)
(* three plans that a language model may write.                              *)
EXTENDS DiagnosisContents

Raw(p) == [part |-> p, total |-> 10000]

\* Every indicator at the average of its industry; a rate is a part of 10000.
AtAverage == [c \in Codes |-> LET avg == INDICATOR_META[c].avg
                              IN Raw(IF c \in Averages THEN avg \div 100 ELSE avg)]
\* One anomaly of each severity, with and without tasks and coupons.
Troubled == [AtAverage EXCEPT !["refund_rate"] = Raw(1000), !["churn_rate"] = Raw(2300),
                              !["lead_conversion_rate"] = Raw(430)]
\* Deviations of exactly 15, 20 and 30 percent, and 15.01 percent.
AtTheBounds == [AtAverage EXCEPT !["lead_conversion_rate"] = Raw(442),
                                 !["churn_rate"] = Raw(2160),
                                 !["repurchase_rate"] = Raw(2450),
                                 !["order_conversion_rate"] = Raw(7224)]
NoSales == [c \in Codes |-> [part |-> 0, total |-> 0]]
\* Rates that are excellent, and twice the contacts, orders and hours of that.
Booming == [c \in Codes |-> LET e == INDICATOR_META[c].excellent
                            IN Raw(IF c \in Averages THEN e \div 50 ELSE e)]
\* What a mode leaves out, and a rule with two tasks.
Neglected == [AtAverage EXCEPT !["avg_shipping_hours"] = Raw(40),
                               !["service_completion_rate"] = Raw(5000),
                               !["positive_review_rate"] = Raw(5000)]

MCBusinesses == {AtAverage, Troubled, AtTheBounds, NoSales, Booming, Neglected}
MCOutcomes == {AtAverage, Troubled, Booming}

MCRequests == {[dims |-> {}, inds |-> {}],
               [dims |-> {"marketing", "retention"}, inds |-> {}],
               [dims |-> {"crm", "marketing", "retention"}, inds |-> {}],
               [dims |-> {"crm", "retention"}, inds |-> {"refund_rate", "lead_conversion_rate"}],
               [dims |-> {"efficiency"}, inds |-> {"churn_rate"}]}
MCLosses == {{}, {"profile"}, {"retention"}, Dimensions}

\* A plan that sees to the refunds within two hours and says it in four characters,
\* one that leaves that to the wrong department by a date that is past and adds a
\* step by a date to come, and one without steps.
MCDrafts ==
    {Plan(0, {"refund_rate"}, <<Step({"refund"}, {"operations"}, Within(2), FALSE)>>, {}, 3, 2, 9),
     Plan(0, {"churn_rate"}, <<Step({"refund causes"}, {"sales"}, On(-30), FALSE),
                               Step({"call"}, {"sales"}, On(60), FALSE)>>,
          {"churn risk"}, 1, 8, 2),
     Plan(0, {}, <<>>, {}, 1, 5, 5)}

\* Bounds of the exploration: at most four anomalies are asked about; plans are
\* made with no cause, or with one for every anomaly after one round; one is
\* executed with no cause in a hybrid business; a plan is tracked if it was the only one and every
\* task was created.
Bounds ==
    /\ pc = "asking" => Len(anomalies) <= 4
    /\ pc = "generating" => causes = <<>> \/ round <= 1
    /\ pc = "executing" => causes = <<>> /\ mode = "hybrid"
    /\ pc = "waiting_track" => Len(plans) = 1 /\ \A t \in Range(tasks) : t.created
=============================================================================
