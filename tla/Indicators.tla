----------------------------- MODULE Indicators -----------------------------
(* What a diagnosis computes from the figures of a business: the fourteen   *)
(* indicators as the business client derives them, their scores, the        *)
(* anomalies, the scores and weights of the dimensions, the health score    *)
(* and the figures shown to a reader (core/calculator.py and its callers).  *)
(*                                                                          *)
(* Numbers are integers: values and scores in hundredths, weights in        *)
(* ten-thousandths, a health score in millionths.  The code computes with   *)
(* floats and rounds to two (weights: four) decimals.                       *)
EXTENDS Integers, Sequences, FiniteSets, FiniteSetsExt, SequencesExt

\* The nearest integer to a / b, for b > 0.
RoundDiv(a, b) == (a + b \div 2) \div b
\* Mutant: no upper bound.
AtLeastZero(x) == Max({0, x})
Clip(x) == Max({0, Min({10000, x})})

\* The elements of a list that are in S, in their order.
Select(list, S) ==
    FlattenSeq([i \in DOMAIN list |-> IF list[i] \in S THEN <<list[i]>> ELSE <<>>])

-----------------------------------------------------------------------------
(* Tables *)

Indicator(d, better, avg, excellent) ==
    [dimension |-> d, better |-> better, avg |-> avg, excellent |-> excellent]

INDICATOR_META ==
    [lead_conversion_rate        |-> Indicator("crm", "higher", 520, 850),
     response_time_avg           |-> Indicator("crm", "lower", 600, 200),
     follow_up_count             |-> Indicator("crm", "higher", 80000, 150000),
     coupon_redemption_rate      |-> Indicator("marketing", "higher", 3200, 5000),
     browse_to_order_rate        |-> Indicator("marketing", "higher", 580, 1000),
     order_conversion_rate       |-> Indicator("marketing", "higher", 8500, 9500),
     seckill_conversion_rate     |-> Indicator("marketing", "higher", 3000, 5500),
     repurchase_rate             |-> Indicator("retention", "higher", 3500, 5500),
     refund_rate                 |-> Indicator("retention", "lower", 500, 200),
     churn_rate                  |-> Indicator("retention", "lower", 1800, 800),
     positive_review_rate        |-> Indicator("retention", "higher", 8200, 9500),
     avg_customer_lifetime_value |-> Indicator("retention", "higher", 120000, 250000),
     service_completion_rate     |-> Indicator("efficiency", "higher", 8000, 9500),
     avg_shipping_hours          |-> Indicator("efficiency", "lower", 1800, 600)]

Codes == DOMAIN INDICATOR_META
CodeOrder == <<"lead_conversion_rate", "response_time_avg", "follow_up_count",
               "coupon_redemption_rate", "browse_to_order_rate",
               "order_conversion_rate", "seckill_conversion_rate",
               "repurchase_rate", "refund_rate", "churn_rate",
               "positive_review_rate", "avg_customer_lifetime_value",
               "service_completion_rate", "avg_shipping_hours">>
Averages == {"response_time_avg", "follow_up_count", "avg_customer_lifetime_value",
             "avg_shipping_hours"}
Rates == Codes \ Averages            \* the names that contain the word "rate"

DefaultWeight == [crm |-> 2500, marketing |-> 3000, retention |-> 3000, efficiency |-> 1500]
Dimensions == DOMAIN DefaultWeight
CodesOf(d) == {c \in Codes : INDICATOR_META[c].dimension = d}

NOT_APPLICABLE(mode) ==
    CASE mode = "service" -> {"avg_shipping_hours", "seckill_conversion_rate",
                              "browse_to_order_rate"}
      [] mode = "mall" -> {"service_completion_rate"}
      [] OTHER -> {}

-----------------------------------------------------------------------------
(* What takes part *)

\* The dimensions and indicators of a request; an empty list asks for nothing
\* in particular.  Unknown names are dropped, and if no known indicator is
\* left every dimension takes part, with no indicator.
resolve_active_indicators(dims, inds) ==
    LET ofInds == {INDICATOR_META[c].dimension : c \in inds \cap Codes}
        active == IF dims # {} THEN dims \cap Dimensions
                  ELSE IF ofInds # {} THEN ofInds ELSE Dimensions
        chosen == IF inds = {} THEN Codes ELSE inds \cap Codes
    IN [dims |-> active,
        inds |-> {c \in chosen : INDICATOR_META[c].dimension \in active}]

\* Mutant: no rebalancing.
keep_weights(active) ==
    [d \in active |-> DefaultWeight[d]]
rebalance_weights(active) ==
    IF active = {} THEN DefaultWeight
    ELSE LET total == SumFunctionOnSet(DefaultWeight, active)
         IN [d \in active |-> RoundDiv(DefaultWeight[d] * 10000, total)]

\* An indicator from the raw figures of the business system: a percentage of
\* a total, zero if there is none, or an average taken over as it is.
Percentage(raw) == IF raw.total > 0 THEN RoundDiv(raw.part * 10000, raw.total) ELSE 0
Measured(c, raw) == IF c \in Averages THEN raw.part * 100 ELSE Percentage(raw)

\* What the business client answers for one dimension.
Answer(business, d) == [c \in CodesOf(d) |-> Measured(c, business[c])]

\* The answers for the dimensions that did answer, without the indicators that
\* do not apply to the mode of the business.
Collected(business, dims, mode) ==
    [c \in {k \in Codes : INDICATOR_META[k].dimension \in dims} \ NOT_APPLICABLE(mode)
        |-> Answer(business, INDICATOR_META[c].dimension)[c]]

-----------------------------------------------------------------------------
(* Scores *)

\* By how much v is better than the average of its industry.
Gap(c, v) == IF INDICATOR_META[c].better = "higher"
             THEN v - INDICATOR_META[c].avg ELSE INDICATOR_META[c].avg - v

\* The deviation is worse than -pct percent.
WorseThan(c, v, pct) == 100 * Gap(c, v) < -pct * INDICATOR_META[c].avg

IndicatorScore(c, v) == Clip(6000 + RoundDiv(4000 * Gap(c, v), INDICATOR_META[c].avg))

IsAnomaly(c, v) == WorseThan(c, v, 15)
Severity(c, v) == IF WorseThan(c, v, 30) THEN "high"
                  ELSE IF WorseThan(c, v, 20) THEN "medium" ELSE "low"

\* The mean score of the indicators of d that take part, 60 if there are none.
calculate_dimension_score(d, values, active) ==
    LET scored == CodesOf(d) \cap DOMAIN values \cap active
    IN IF scored = {} THEN 6000
       ELSE RoundDiv(SumFunction([c \in scored |-> IndicatorScore(c, values[c])]),
                     Cardinality(scored))

\* The anomalies in the order of the table.
FindAnomalies(values, active) ==
    Select(CodeOrder, {c \in DOMAIN values \cap active : IsAnomaly(c, values[c])})

\* What diagnose_node and the snapshots of a tracking compute alike.
Score(values, active) ==
    LET weights == rebalance_weights(active.dims)
        scores == [d \in active.dims |-> calculate_dimension_score(d, values, active.inds)]
    IN [scores |-> scores,
        weights |-> weights,
        health |-> SumFunction([d \in active.dims |-> scores[d] * weights[d]])]

\* The score of the industry's average itself, shown beside that of the dimension.
BenchmarkScore(d, active) ==
    LET codes == CodesOf(d) \cap active
        one(c) == LET m == INDICATOR_META[c]
                  IN Clip(IF m.better = "lower" THEN RoundDiv(m.excellent * 10000, m.avg)
                          ELSE RoundDiv(m.avg * 10000, m.excellent))
    IN IF codes = {} THEN 6000 ELSE RoundDiv(SumFunction([c \in codes |-> one(c)]), Cardinality(codes))

-----------------------------------------------------------------------------
(* The report and what is shown of it *)

SeverityRank(s) == CASE s = "high" -> 0 [] s = "medium" -> 1 [] OTHER -> 2

\* sorted(anomalies, key=severity), a stable sort.
BySeverity(anomalies, values) ==
    LET at(r) == Select(anomalies, {c \in Range(anomalies) : SeverityRank(Severity(c, values[c])) = r})
    IN at(0) \o at(1) \o at(2)

build_diagnosis_report(scored, anomalies, values, active, causes) ==
    [health |-> scored.health,
     scores |-> scored.scores,
     anomalies |-> BySeverity(anomalies, values),
     withCause |-> DOMAIN causes \cap Range(anomalies),
     benchmarks |-> [d \in Dimensions |->
                        BenchmarkScore(d, IF d \in active.dims THEN active.inds ELSE {})]]

\* A health score in tenths, and the level of a score in millionths.
Tenths(health) == RoundDiv(health, 100000)
score_to_status(health) == IF health >= 80000000 THEN "excellent"
                           ELSE IF health >= 60000000 THEN "good"
                           ELSE IF health >= 40000000 THEN "warning" ELSE "danger"

\* What a reader sees: the score in tenths with a level, the level of every
\* dimension, and by how many hundredths of a percent each anomaly is off.
transform_report_to_frontend_format(report, values) ==
    [total_score |-> Tenths(report.health),
     status |-> score_to_status(report.health),
     levels |-> [d \in DOMAIN report.scores |-> score_to_status(10000 * report.scores[d])],
     anomalies |-> [i \in DOMAIN report.anomalies |->
        LET c == report.anomalies[i]
        IN [metric_name |-> c,
            gap_percentage |-> -RoundDiv(10000 * Gap(c, values[c]), INDICATOR_META[c].avg),
            severity |-> Severity(c, values[c])]]]
=============================================================================
