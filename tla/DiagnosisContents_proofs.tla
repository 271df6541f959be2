----------------------- MODULE DiagnosisContents_proofs ----------------------
(* Proofs about DiagnosisContents, for every business, every request and     *)
(* whatever the language model answers: what the calculation of scores,      *)
(* plans and tasks yields, by lemmas about its operators, and from them that *)
(* every step keeps the invariant ContentsInv, which implies the properties. *)
EXTENDS DiagnosisContents, FoldLemmas

-----------------------------------------------------------------------------
(* Rounding *)

\* RoundDiv is an integer, monotone, and between two integers if the fraction is.
LEMMA RoundDivType == ASSUME NEW a \in Int, NEW b \in Nat \ {0} PROVE RoundDiv(a, b) \in Int
  BY DEF RoundDiv
LEMMA RoundDivMonotone ==
    ASSUME NEW a \in Int, NEW c \in Int, NEW b \in Nat \ {0}, a <= c
    PROVE  RoundDiv(a, b) <= RoundDiv(c, b)
  BY DEF RoundDiv
LEMMA RoundDivBounds ==
    ASSUME NEW a \in Int, NEW b \in Nat \ {0}, NEW k \in Int
    PROVE  /\ k * b <= a => k <= RoundDiv(a, b)
           /\ a <= k * b => RoundDiv(a, b) <= k
  BY DEF RoundDiv
\* Clip cuts off below zero and above a hundred percent.
LEMMA Clipped ==
    ASSUME NEW x \in Int
    PROVE  Clip(x) = IF x < 0 THEN 0 ELSE IF x > 10000 THEN 10000 ELSE x
  BY DEF Clip, Max, Min

-----------------------------------------------------------------------------
(* The tables *)

MetaType == [dimension : {"crm", "marketing", "retention", "efficiency"}, better : {"higher", "lower"},
             avg : Nat \ {0}, excellent : Nat \ {0}]
\* The indicators and dimensions of the table.
LEMMA Names ==
  /\ Codes = {"lead_conversion_rate", "response_time_avg", "follow_up_count",
               "coupon_redemption_rate", "browse_to_order_rate",
               "order_conversion_rate", "seckill_conversion_rate",
               "repurchase_rate", "refund_rate", "churn_rate",
               "positive_review_rate", "avg_customer_lifetime_value",
               "service_completion_rate", "avg_shipping_hours"}
  /\ Dimensions = {"crm", "marketing", "retention", "efficiency"}
  BY DEF Codes, Dimensions, INDICATOR_META, DefaultWeight

\* What the table says of an indicator.
LEMMA Metas ==
    ASSUME NEW c \in Codes
    PROVE  INDICATOR_META[c] \in MetaType /\ INDICATOR_META[c].avg >= 500
  BY Names DEF INDICATOR_META, Indicator, MetaType

\* A sequence has finitely many elements.
LEMMA FiniteRange ==
    ASSUME NEW S, NEW s \in Seq(S)
    PROVE  IsFiniteSet(Range(s))
  <1>1. Len(s) \in Nat /\ DOMAIN s = 1..Len(s)
    OBVIOUS
  <1>2. IsFiniteSet(1..Len(s))
    BY <1>1, FS_Interval
  <1>3. s \in [1..Len(s) -> Range(s)]
    BY <1>1 DEF Range
  <1>4. s \in Surjection(1..Len(s), Range(s))
    BY <1>1, <1>3 DEF Surjection, Range
  <1> QED BY <1>2, <1>4, FS_Surjection

\* Small sets are finite, and so are the names of the tables.
LEMMA FinitePair == ASSUME NEW S, IsFiniteSet(S), NEW a, NEW b PROVE IsFiniteSet(S \cup {a, b})
  <1>1. IsFiniteSet((S \cup {a}) \cup {b})
    BY FS_AddElement
  <1>2. (S \cup {a}) \cup {b} = S \cup {a, b}
    OBVIOUS
  <1> QED BY <1>1, <1>2

LEMMA FiniteNames == IsFiniteSet(Codes) /\ IsFiniteSet(Dimensions)
  <1> DEFINE a == {} \cup {"lead_conversion_rate", "response_time_avg"}
             b == a \cup {"follow_up_count", "coupon_redemption_rate"}
             c == b \cup {"browse_to_order_rate", "order_conversion_rate"}
             d == c \cup {"seckill_conversion_rate", "repurchase_rate"}
             e == d \cup {"refund_rate", "churn_rate"}
             f == e \cup {"positive_review_rate", "avg_customer_lifetime_value"}
             g == f \cup {"service_completion_rate", "avg_shipping_hours"}
             p == {} \cup {"crm", "marketing"}
             q == p \cup {"retention", "efficiency"}
  <1>1. g = Codes /\ q = Dimensions
    BY Names
  <1> HIDE DEF g, q
  <1>2. IsFiniteSet(a) /\ IsFiniteSet(p)
    BY FS_EmptySet, FinitePair
  <1>3. IsFiniteSet(b) /\ IsFiniteSet(q)
    BY <1>2, FinitePair DEF q
  <1>4. IsFiniteSet(c)
    BY <1>3, FinitePair
  <1>5. IsFiniteSet(d)
    BY <1>4, FinitePair
  <1>6. IsFiniteSet(e)
    BY <1>5, FinitePair
  <1>7. IsFiniteSet(f)
    BY <1>6, FinitePair
  <1>8. IsFiniteSet(g)
    BY <1>7, FinitePair DEF g
  <1> QED BY <1>1, <1>3, <1>8

\* What a request selects: some dimension, and indicators of these dimensions.
LEMMA Actives ==
    ASSUME NEW dims \in SUBSET Dimensions, NEW inds \in SUBSET Codes,
           NEW active, active = resolve_active_indicators(dims, inds)
    PROVE  /\ active.dims \in SUBSET Dimensions /\ active.dims # {}
           /\ active.inds \in SUBSET Codes
           /\ \A c \in active.inds : INDICATOR_META[c].dimension \in active.dims
  <1> DEFINE ofInds == {INDICATOR_META[c].dimension : c \in inds \cap Codes}
  <1>1. ofInds \subseteq Dimensions
    BY Metas, Names DEF MetaType
  <1>2. Dimensions # {}
    BY Names
  <1>3. active.dims = IF dims # {} THEN dims \cap Dimensions
                      ELSE IF ofInds # {} THEN ofInds ELSE Dimensions
    BY DEF resolve_active_indicators
  <1>4. active.inds = {c \in IF inds = {} THEN Codes ELSE inds \cap Codes :
                          INDICATOR_META[c].dimension \in active.dims}
    BY DEF resolve_active_indicators
  <1> HIDE DEF ofInds
  <1>5. active.dims \in SUBSET Dimensions /\ active.dims # {}
    BY <1>1, <1>2, <1>3
  <1> QED BY <1>4, <1>5

-----------------------------------------------------------------------------
(* Weights and scores *)

\* A sum over some of the four dimensions, written out.
LEMMA SumOfDimensions ==
    ASSUME NEW S \in SUBSET Dimensions, NEW f, \A d \in S : f[d] \in Int
    PROVE  LET part(d) == IF d \in S THEN f[d] ELSE 0
           IN SumFunctionOnSet(f, S) =
                part("crm") + part("marketing") + part("retention") + part("efficiency")
  <1> DEFINE part(d) == IF d \in S THEN f[d] ELSE 0
             sum(T) == SumFunctionOnSet(f, T)
             A == S \ {"crm"}
             B == A \ {"marketing"}
             C == B \ {"retention"}
             D == C \ {"efficiency"}
  <1>1. ASSUME NEW T \in SUBSET S, NEW d
        PROVE  sum(T) \in Int /\ sum(T) = (IF d \in T THEN f[d] ELSE 0) + sum(T \ {d})
    <2>1. IsFiniteSet(T) /\ \A x \in T : f[x] \in Int
      BY FiniteNames, FS_Subset
    <2>2. sum(T) \in Int /\ (d \in T => sum(T) = f[d] + sum(T \ {d}))
      BY <2>1, SumRemoves
    <2>3. d \notin T => T \ {d} = T
      OBVIOUS
    <2>4. CASE d \in T
      BY <2>2, <2>4
    <2>5. CASE d \notin T
      <3>1. sum(T) = 0 + sum(T)
        BY <2>2
      <3> QED BY <2>2, <2>3, <2>5, <3>1
    <2> QED BY <2>4, <2>5
  <1>2. D = {}
    BY Names
  <1>3. sum(D) = 0
    BY <1>2, FS_EmptySet, SumUnfolds
  <1> HIDE DEF sum
  <1>4. sum(S) \in Int /\ sum(S) = part("crm") + sum(A)
    BY <1>1
  <1>a. /\ A \in SUBSET S /\ ("marketing" \in A <=> "marketing" \in S)
        /\ B \in SUBSET S /\ ("retention" \in B <=> "retention" \in S)
        /\ C \in SUBSET S /\ ("efficiency" \in C <=> "efficiency" \in S)
    OBVIOUS
  <1>5. sum(A) \in Int /\ sum(A) = part("marketing") + sum(B)
    <2>1. sum(A) \in Int /\ sum(A) = (IF "marketing" \in A THEN f["marketing"] ELSE 0) + sum(B)
      BY <1>1, <1>a
    <2> QED BY <1>a, <2>1
  <1>6. sum(B) \in Int /\ sum(B) = part("retention") + sum(C)
    <2>1. sum(B) \in Int /\ sum(B) = (IF "retention" \in B THEN f["retention"] ELSE 0) + sum(C)
      BY <1>1, <1>a
    <2> QED BY <1>a, <2>1
  <1>7. sum(C) \in Int /\ sum(C) = part("efficiency") + sum(D)
    <2>1. sum(C) \in Int /\ sum(C) = (IF "efficiency" \in C THEN f["efficiency"] ELSE 0) + sum(D)
      BY <1>1, <1>a
    <2> QED BY <1>a, <2>1
  <1>8. \A d : part(d) \in Int
    OBVIOUS
  <1> HIDE DEF part, A, B, C, D
  <1>9. sum(S) = part("crm") + part("marketing") + part("retention") + part("efficiency")
    BY <1>3, <1>4, <1>5, <1>6, <1>7, <1>8
  <1> QED BY <1>9 DEF sum, part

\* The weights of the dimensions that take part add up to one, but for a rounding.
LEMMA Weights ==
    ASSUME NEW active \in SUBSET Dimensions, active # {},
           NEW w, w = rebalance_weights(active)
    PROVE  /\ DOMAIN w = active /\ \A d \in active : w[d] \in Nat
           /\ SumFunctionOnSet(w, active) \in 9999..10001
  <1> DEFINE total == SumFunctionOnSet(DefaultWeight, active)
             part(d) == IF d \in active THEN DefaultWeight[d] ELSE 0
             piece(d) == IF d \in active THEN w[d] ELSE 0
  <1>1. \A d \in Dimensions : DefaultWeight[d] \in Nat \ {0}
    BY Names DEF DefaultWeight
  <1>2. total = part("crm") + part("marketing") + part("retention") + part("efficiency")
    BY <1>1, SumOfDimensions
  <1>3. /\ DefaultWeight["crm"] = 2500 /\ DefaultWeight["marketing"] = 3000
        /\ DefaultWeight["retention"] = 3000 /\ DefaultWeight["efficiency"] = 1500
    BY DEF DefaultWeight
  <1>4. w = [d \in active |-> RoundDiv(DefaultWeight[d] * 10000, total)]
    BY SMTT(30) DEF rebalance_weights
  <1> HIDE DEF total
  <1>5. total \in 1500..10000
    <2>1. "crm" \in active \/ "marketing" \in active \/ "retention" \in active \/ "efficiency" \in active
      BY Names
    <2> QED BY <1>2, <1>3, <2>1
  <1>6. ASSUME NEW d \in active
        PROVE  w[d] \in Nat /\ w[d] = (DefaultWeight[d] * 10000 + total \div 2) \div total
    <2>1. DefaultWeight[d] \in Nat
      BY <1>1
    <2>2. w[d] = RoundDiv(DefaultWeight[d] * 10000, total)
      BY <1>4
    <2>3. w[d] = (DefaultWeight[d] * 10000 + total \div 2) \div total
      BY <2>2 DEF RoundDiv
    <2>4. DefaultWeight[d] * 10000 \in Int /\ 0 * total <= DefaultWeight[d] * 10000
      BY <1>5, <2>1
    <2>5. w[d] \in Nat
      <3>1. total \in Nat \ {0}
        BY <1>5
      <3> QED BY <2>2, <2>4, <3>1, RoundDivType, RoundDivBounds
    <2> QED BY <2>3, <2>5
  <1>7. SumFunctionOnSet(w, active) = piece("crm") + piece("marketing") + piece("retention") + piece("efficiency")
    BY <1>6, SumOfDimensions
  <1>8. piece("crm") + piece("marketing") + piece("retention") + piece("efficiency") \in 9999..10001
    <2>1. CASE "crm" \in active /\ "marketing" \in active
      BY <1>2, <1>3, <1>6, <2>1
    <2>2. CASE "crm" \in active /\ "marketing" \notin active
      BY <1>2, <1>3, <1>6, <2>2
    <2>3. CASE "crm" \notin active /\ "marketing" \in active
      BY <1>2, <1>3, <1>6, <2>3
    <2>4. CASE "crm" \notin active /\ "marketing" \notin active
      <3>1. "retention" \in active \/ "efficiency" \in active
        BY <2>4, Names
      <3> QED BY <1>2, <1>3, <1>6, <2>4, <3>1
    <2> QED BY <2>1, <2>2, <2>3, <2>4
  <1> QED BY <1>4, <1>6, <1>7, <1>8

\* The values of some of the indicators.
Values == UNION {[S -> Nat] : S \in SUBSET Codes}

\* The score of an indicator: from 0 to 100, higher for a better value, and at
\* most 54 if and only if it is an anomaly, where 54 itself may be either.
LEMMA GapType == ASSUME NEW c \in Codes, NEW v \in Int PROVE Gap(c, v) \in Int
  BY Metas DEF Gap, MetaType

LEMMA IndicatorScores ==
    ASSUME NEW c \in Codes, NEW v \in Int
    PROVE  /\ IndicatorScore(c, v) \in Nat /\ IndicatorScore(c, v) <= 10000
           /\ \A w \in Int : Gap(c, v) <= Gap(c, w) => IndicatorScore(c, v) <= IndicatorScore(c, w)
           /\ IsAnomaly(c, v) => IndicatorScore(c, v) <= 5400
           /\ ~IsAnomaly(c, v) => IndicatorScore(c, v) >= 5400
  <1> DEFINE avg == INDICATOR_META[c].avg
             q(w) == RoundDiv(4000 * Gap(c, w), avg)
  <1>1. avg \in Nat \ {0}
    BY Metas DEF MetaType
  <1>2. \A w \in Int : Gap(c, w) \in Int
    BY GapType
  <1> HIDE DEF avg
  <1>3. \A w \in Int : q(w) \in Int
    BY <1>1, <1>2, RoundDivType
  <1>4. \A w \in Int : IndicatorScore(c, w) = Clip(6000 + q(w))
    BY DEF IndicatorScore, avg
  <1>5. \A w \in Int : IndicatorScore(c, w) =
           IF 6000 + q(w) < 0 THEN 0 ELSE IF 6000 + q(w) > 10000 THEN 10000 ELSE 6000 + q(w)
    BY <1>3, <1>4, Clipped
  <1>6. ASSUME NEW w \in Int, Gap(c, v) <= Gap(c, w) PROVE q(v) <= q(w)
    BY <1>1, <1>2, <1>6, RoundDivMonotone
  <1>7. IsAnomaly(c, v) <=> 100 * Gap(c, v) < -15 * avg
    BY DEF IsAnomaly, WorseThan, avg
  <1>8. IsAnomaly(c, v) => q(v) <= -600
    <2>1. IsAnomaly(c, v) => 4000 * Gap(c, v) <= -600 * avg
      BY <1>1, <1>2, <1>7
    <2> QED BY <1>1, <1>2, <2>1, RoundDivBounds
  <1>9. ~IsAnomaly(c, v) => q(v) >= -600
    <2>1. ~IsAnomaly(c, v) => -600 * avg <= 4000 * Gap(c, v)
      BY <1>1, <1>2, <1>7
    <2> QED BY <1>1, <1>2, <2>1, RoundDivBounds
  <1> HIDE DEF q
  <1>10. IndicatorScore(c, v) \in Nat /\ IndicatorScore(c, v) <= 10000
    BY <1>3, <1>5
  <1>11. ASSUME NEW w \in Int, Gap(c, v) <= Gap(c, w) PROVE IndicatorScore(c, v) <= IndicatorScore(c, w)
    <2>1. q(v) <= q(w) /\ q(v) \in Int /\ q(w) \in Int
      BY <1>3, <1>6, <1>11
    <2> QED BY <1>5, <2>1
  <1>12. q(v) <= -600 => IndicatorScore(c, v) <= 5400
    BY <1>3, <1>5
  <1>13. q(v) >= -600 => IndicatorScore(c, v) >= 5400
    BY <1>3, <1>5
  <1> QED BY <1>8, <1>9, <1>10, <1>11, <1>12, <1>13

\* The mean score of a dimension: from 0 to 100, and higher for better values.
LEMMA DimensionScores ==
    ASSUME NEW v \in Values, NEW d, NEW active
    PROVE  /\ calculate_dimension_score(d, v, active) \in Nat
           /\ calculate_dimension_score(d, v, active) <= 10000
           /\ \A w \in Values :
                /\ DOMAIN w = DOMAIN v
                /\ \A c \in DOMAIN w \cap active : Gap(c, v[c]) <= Gap(c, w[c])
                => calculate_dimension_score(d, v, active) <= calculate_dimension_score(d, w, active)
  <1> DEFINE some == CodesOf(d) \cap DOMAIN v \cap active
             f(w) == [c \in some |-> IndicatorScore(c, w[c])]
  <1>1. some \in SUBSET Codes /\ IsFiniteSet(some) /\ Cardinality(some) \in Nat
    <2>1. some \in SUBSET Codes
      BY DEF CodesOf
    <2> QED BY <2>1, FiniteNames, FS_Subset, FS_CardinalityType
  <1>2. some # {} => Cardinality(some) \in Nat \ {0}
    BY <1>1, FS_EmptySet
  <1>3. ASSUME NEW w \in Values, DOMAIN w = DOMAIN v
        PROVE  calculate_dimension_score(d, w, active) =
                 IF some = {} THEN 6000 ELSE RoundDiv(SumFunctionOnSet(f(w), some), Cardinality(some))
    BY <1>3 DEF calculate_dimension_score, SumFunction
  <1>4. ASSUME NEW w \in Values, DOMAIN w = DOMAIN v, NEW c \in some
        PROVE  /\ f(w)[c] = IndicatorScore(c, w[c]) /\ f(w)[c] \in Nat /\ f(w)[c] <= 10000
               /\ c \in Codes /\ w[c] \in Int
    <2>1. c \in Codes /\ w[c] \in Int
      BY <1>1, <1>4 DEF Values
    <2>2. IndicatorScore(c, w[c]) \in Nat /\ IndicatorScore(c, w[c]) <= 10000
      BY <2>1, IndicatorScores
    <2>3. f(w)[c] = IndicatorScore(c, w[c])
      OBVIOUS
    <2> HIDE DEF f
    <2> QED BY <2>1, <2>2, <2>3
  <1> HIDE DEF f
  <1>5. ASSUME NEW w \in Values, DOMAIN w = DOMAIN v
        PROVE  /\ SumFunctionOnSet(f(w), some) \in Nat
               /\ SumFunctionOnSet(f(w), some) <= 10000 * Cardinality(some)
    <2>1. \A c \in some : f(w)[c] \in Int /\ 0 <= f(w)[c] /\ f(w)[c] <= 10000
      BY <1>4, <1>5
    <2>2. SumFunctionOnSet(f(w), some) \in Int
      BY <1>1, <2>1, SumRemoves
    <2> HIDE DEF some
    <2>3. /\ 0 * Cardinality(some) <= SumFunctionOnSet(f(w), some)
          /\ SumFunctionOnSet(f(w), some) <= 10000 * Cardinality(some)
      BY <1>1, <2>1, SumBounds
    <2> QED BY <1>1, <2>2, <2>3
  <1>6. /\ calculate_dimension_score(d, v, active) \in Nat
        /\ calculate_dimension_score(d, v, active) <= 10000
    <2>1. CASE some = {}
      BY <1>3, <2>1
    <2>2. CASE some # {}
      <3> DEFINE sum == SumFunctionOnSet(f(v), some)
      <3>1. sum \in Nat /\ sum <= 10000 * Cardinality(some)
        BY <1>5
      <3>2. calculate_dimension_score(d, v, active) = RoundDiv(sum, Cardinality(some))
        BY <1>3, <2>2
      <3> HIDE DEF sum
      <3>3. sum \in Int /\ 0 * Cardinality(some) <= sum /\ sum <= 10000 * Cardinality(some)
        BY <1>1, <3>1
      <3>4. Cardinality(some) \in Nat \ {0}
        BY <1>2, <2>2
      <3> HIDE DEF some
      <3>5. RoundDiv(sum, Cardinality(some)) \in Int /\ 0 <= RoundDiv(sum, Cardinality(some))
            /\ RoundDiv(sum, Cardinality(some)) <= 10000
        BY <3>3, <3>4, RoundDivType, RoundDivBounds
      <3> QED BY <3>2, <3>5
    <2> QED BY <2>1, <2>2
  <1>7. ASSUME NEW w \in Values, DOMAIN w = DOMAIN v,
               \A c \in DOMAIN w \cap active : Gap(c, v[c]) <= Gap(c, w[c])
        PROVE  calculate_dimension_score(d, v, active) <= calculate_dimension_score(d, w, active)
    <2>1. CASE some = {}
      BY <1>3, <1>7, <2>1
    <2>2. CASE some # {}
      <3>1. ASSUME NEW c \in some
            PROVE  f(v)[c] \in Int /\ f(w)[c] \in Int /\ f(v)[c] <= f(w)[c]
        <4>1. c \in Codes /\ v[c] \in Int /\ w[c] \in Int /\ Gap(c, v[c]) <= Gap(c, w[c])
          BY <1>1, <1>4, <1>7
        <4>2. IndicatorScore(c, v[c]) <= IndicatorScore(c, w[c])
          BY <4>1, IndicatorScores
        <4>3. f(v)[c] = IndicatorScore(c, v[c]) /\ f(v)[c] \in Int
          BY <1>4
        <4>4. f(w)[c] = IndicatorScore(c, w[c]) /\ f(w)[c] \in Int
          BY <1>4, <1>7
        <4> QED BY <4>2, <4>3, <4>4
      <3> DEFINE a == SumFunctionOnSet(f(v), some)
                 b == SumFunctionOnSet(f(w), some)
      <3>2. a <= b
        <4> HIDE DEF some
        <4> QED BY <1>1, <3>1, SumMonotone
      <3>3. a \in Int /\ b \in Int
        BY <1>5, <1>7
      <3>4. /\ calculate_dimension_score(d, v, active) = RoundDiv(a, Cardinality(some))
            /\ calculate_dimension_score(d, w, active) = RoundDiv(b, Cardinality(some))
        BY <1>3, <1>7, <2>2
      <3>5. Cardinality(some) \in Nat \ {0}
        BY <1>2, <2>2
      <3> HIDE DEF a, b
      <3> QED BY <3>2, <3>3, <3>4, <3>5, RoundDivMonotone
    <2> QED BY <2>1, <2>2
  <1> QED BY <1>6, <1>7

\* The scores of the dimensions that take part, and the health score between them.
LEMMA ScoreIs ==
    ASSUME NEW v \in Values, NEW active, active.dims \in SUBSET Dimensions, active.dims # {},
           NEW s, s = Score(v, active)
    PROVE  /\ DOMAIN s.scores = active.dims
           /\ \A d \in active.dims : /\ s.scores[d] = calculate_dimension_score(d, v, active.inds)
                                     /\ s.scores[d] \in Nat /\ s.scores[d] <= 10000
           /\ s.health \in Nat
           /\ \A k \in Nat : /\ (\A d \in active.dims : k <= s.scores[d]) => 9999 * k <= s.health
                             /\ (\A d \in active.dims : s.scores[d] <= k) => s.health <= 10001 * k
  <1> DEFINE S == active.dims
             w == rebalance_weights(S)
             f == [d \in S |-> s.scores[d] * w[d]]
             W == SumFunctionOnSet(w, S)
  <1>1. /\ s.scores = [d \in S |-> calculate_dimension_score(d, v, active.inds)]
        /\ s.health = SumFunctionOnSet(f, S)
    BY DEF Score, SumFunction
  <1>2. \A d \in S : s.scores[d] = calculate_dimension_score(d, v, active.inds)
                     /\ s.scores[d] \in Nat /\ s.scores[d] <= 10000
    BY <1>1, DimensionScores
  <1>3. DOMAIN w = S /\ (\A d \in S : w[d] \in Nat) /\ W \in Int /\ 9999 <= W /\ W <= 10001
    BY Weights
  <1>4. IsFiniteSet(S)
    BY FiniteNames, FS_Subset
  <1> HIDE DEF w
  <1>5. \A d \in S : f[d] = s.scores[d] * w[d] /\ f[d] \in Nat
    BY <1>2, <1>3
  <1>6. s.health \in Int
    <2>1. \A d \in S : f[d] \in Int
      BY <1>5
    <2> HIDE DEF f
    <2> QED BY <1>1, <1>4, <2>1, SumRemoves
  <1> HIDE DEF f, W
  <1>7. ASSUME NEW k \in Nat, \A d \in S : k <= s.scores[d] PROVE 9999 * k <= s.health
    <2> DEFINE g == [d \in S |-> k * w[d]]
    <2>1. Scales(g, k, w, S)
      BY <1>3 DEF Scales
    <2>2. ASSUME NEW d \in S PROVE g[d] \in Int /\ f[d] \in Int /\ g[d] <= f[d]
      <3>1. g[d] = k * w[d] /\ f[d] = s.scores[d] * w[d] /\ w[d] \in Nat /\ s.scores[d] \in Nat
        BY <1>2, <1>3, <1>5
      <3>2. k <= s.scores[d]
        BY <1>7
      <3>3. k * w[d] <= s.scores[d] * w[d]
        BY <3>1, <3>2
      <3> QED BY <3>1, <3>3
    <2> HIDE DEF g
    <2>3. SumFunctionOnSet(g, S) = k * W
      BY <1>4, <2>1, SumScaled DEF W
    <2>4. SumFunctionOnSet(g, S) <= s.health
      BY <1>1, <1>4, <2>2, SumMonotone
    <2>5. 9999 * k <= k * W /\ k * W \in Int
      BY <1>3
    <2> QED BY <1>6, <2>3, <2>4, <2>5
  <1>8. ASSUME NEW k \in Nat, \A d \in S : s.scores[d] <= k PROVE s.health <= 10001 * k
    <2> DEFINE g == [d \in S |-> k * w[d]]
    <2>1. Scales(g, k, w, S)
      BY <1>3 DEF Scales
    <2>2. ASSUME NEW d \in S PROVE g[d] \in Int /\ f[d] \in Int /\ f[d] <= g[d]
      <3>1. g[d] = k * w[d] /\ f[d] = s.scores[d] * w[d] /\ w[d] \in Nat /\ s.scores[d] \in Nat
        BY <1>2, <1>3, <1>5
      <3>2. s.scores[d] <= k
        BY <1>8
      <3>3. s.scores[d] * w[d] <= k * w[d]
        BY <3>1, <3>2
      <3> QED BY <3>1, <3>3
    <2> HIDE DEF g
    <2>3. SumFunctionOnSet(g, S) = k * W
      BY <1>4, <2>1, SumScaled DEF W
    <2>4. s.health <= SumFunctionOnSet(g, S)
      BY <1>1, <1>4, <2>2, SumMonotone
    <2>5. k * W <= 10001 * k /\ k * W \in Int
      BY <1>3
    <2> QED BY <1>6, <2>3, <2>4, <2>5
  <1>9. s.health >= 0
    <2>1. \A d \in S : 0 <= s.scores[d]
      BY <1>2
    <2>2. 9999 * 0 <= s.health
      BY <1>7, <2>1
    <2> QED BY <2>2
  <1>10. DOMAIN s.scores = S
    BY <1>1
  <1> HIDE DEF S
  <1>11. \A k \in Nat : /\ (\A d \in S : k <= s.scores[d]) => 9999 * k <= s.health
                        /\ (\A d \in S : s.scores[d] <= k) => s.health <= 10001 * k
    BY <1>7, <1>8
  <1> QED BY <1>2, <1>6, <1>9, <1>10, <1>11 DEF S

\* Better figures, a better score.
LEMMA BetterScore ==
    ASSUME NEW v \in Values, NEW u \in Values, DOMAIN u = DOMAIN v,
           NEW active, active.dims \in SUBSET Dimensions, active.dims # {},
           \A c \in DOMAIN u \cap active.inds : Gap(c, v[c]) <= Gap(c, u[c])
    PROVE  Score(v, active).health <= Score(u, active).health
  <1> DEFINE S == active.dims
             w == rebalance_weights(S)
             a(x) == Score(x, active)
             f(x) == [d \in S |-> a(x).scores[d] * w[d]]
  <1>1. \A x \in Values : a(x).health = SumFunctionOnSet(f(x), S)
    BY DEF Score, SumFunction
  <1>2. ASSUME NEW x \in Values, NEW d \in S
        PROVE  a(x).scores[d] = calculate_dimension_score(d, x, active.inds) /\ a(x).scores[d] \in Nat
    BY ScoreIs
  <1>3. \A d \in S : w[d] \in Nat
    BY Weights
  <1>4. IsFiniteSet(S)
    BY FiniteNames, FS_Subset
  <1>5. \A d \in S : calculate_dimension_score(d, v, active.inds) <= calculate_dimension_score(d, u, active.inds)
    BY DimensionScores
  <1>6. \A x \in Values, d \in S : f(x)[d] = a(x).scores[d] * w[d]
    OBVIOUS
  <1> HIDE DEF a, w, f
  <1>7. ASSUME NEW d \in S PROVE f(v)[d] \in Int /\ f(u)[d] \in Int /\ f(v)[d] <= f(u)[d]
    <2>1. /\ f(v)[d] = a(v).scores[d] * w[d] /\ f(u)[d] = a(u).scores[d] * w[d]
          /\ a(v).scores[d] \in Nat /\ a(u).scores[d] \in Nat /\ w[d] \in Nat
          /\ a(v).scores[d] <= a(u).scores[d]
      BY <1>2, <1>3, <1>5, <1>6
    <2>2. a(v).scores[d] * w[d] <= a(u).scores[d] * w[d]
      BY <2>1
    <2> QED BY <2>1, <2>2
  <1>8. SumFunctionOnSet(f(v), S) <= SumFunctionOnSet(f(u), S)
    BY <1>4, <1>7, SumMonotone
  <1> QED BY <1>1, <1>8 DEF a

-----------------------------------------------------------------------------
(* Collected figures and anomalies *)

\* Selecting from a list keeps what is in the set.
LEMMA SelectIs ==
    ASSUME NEW T, NEW s \in Seq(T), NEW S
    PROVE  Select(s, S) \in Seq(T) /\ Range(Select(s, S)) = Range(s) \cap S
  <1> DEFINE parts == [i \in DOMAIN s |-> IF s[i] \in S THEN <<s[i]>> ELSE <<>>]
  <1>1. Len(s) \in Nat /\ DOMAIN s = 1..Len(s) /\ \A i \in 1..Len(s) : s[i] \in T
    OBVIOUS
  <1>2. ASSUME NEW i \in 1..Len(s)
        PROVE  parts[i] \in Seq(T) /\ Range(parts[i]) = {s[i]} \cap S
    <2>1. parts[i] = IF s[i] \in S THEN <<s[i]>> ELSE <<>>
      BY <1>1
    <2> HIDE DEF parts
    <2>2. CASE s[i] \in S
      <3>1. parts[i] = <<s[i]>>
        BY <2>1, <2>2
      <3> QED BY <1>1, <2>2, <3>1 DEF Range
    <2>3. CASE s[i] \notin S
      <3>1. parts[i] = <<>>
        BY <2>1, <2>3
      <3> QED BY <2>3, <3>1 DEF Range
    <2> QED BY <2>2, <2>3
  <1>3. DOMAIN parts = 1..Len(s)
    BY <1>1
  <1>s. Select(s, S) = FlattenSeq(parts)
    BY DEF Select
  <1> HIDE DEF parts
  <1>e. parts = [i \in 1..Len(s) |-> parts[i]]
    BY <1>3 DEF parts
  <1>4. parts \in Seq(Seq(T)) /\ Len(parts) = Len(s)
    BY <1>1, <1>2, <1>e
  <1>5. /\ Select(s, S) \in Seq(T)
        /\ Range(Select(s, S)) = UNION {Range(parts[i]) : i \in 1..Len(parts)}
    BY <1>s, <1>4, Flattened
  <1>6. Range(s) = {s[i] : i \in 1..Len(s)}
    BY <1>1 DEF Range
  <1>7. UNION {Range(parts[i]) : i \in 1..Len(s)} = Range(s) \cap S
    BY <1>2, <1>6
  <1> QED BY <1>4, <1>5, <1>7

\* The order of the table lists every indicator.
LEMMA CodesInOrder == CodeOrder \in Seq(Codes) /\ Range(CodeOrder) = Codes
  <1>1. DOMAIN CodeOrder = 1..14 /\ Len(CodeOrder) = 14
    BY DEF CodeOrder
  <1>2. ASSUME NEW i \in 1..14 PROVE CodeOrder[i] \in Codes
    <2>1. CASE i <= 7
      BY <2>1, Names DEF CodeOrder
    <2>2. CASE i > 7
      BY <2>2, Names DEF CodeOrder
    <2> QED BY <2>1, <2>2
  <1>3. CodeOrder \in Seq(Codes)
    <2>1. CodeOrder = [i \in 1..14 |-> CodeOrder[i]]
      BY <1>1 DEF CodeOrder
    <2> QED BY <1>2, <2>1
  <1>4. ASSUME NEW c \in Codes PROVE \E i \in 1..14 : c = CodeOrder[i]
    BY Names DEF CodeOrder
  <1> QED BY <1>1, <1>2, <1>3, <1>4 DEF Range

\* The anomalies found are the active indicators that deviate too much.
LEMMA FindAnomaliesIs ==
    ASSUME NEW v \in Values, NEW active
    PROVE  /\ FindAnomalies(v, active) \in Seq(Codes)
           /\ Range(FindAnomalies(v, active)) = {c \in DOMAIN v \cap active : IsAnomaly(c, v[c])}
  <1>1. DOMAIN v \subseteq Codes
    BY DEF Values
  <1> QED BY <1>1, CodesInOrder, SelectIs DEF FindAnomalies

\* What is collected: the indicators of the dimensions that apply, as measured.
RawType == [Codes -> [part : Nat, total : Nat]]
LEMMA CollectedIs ==
    ASSUME NEW b \in RawType, NEW dims, NEW m
    PROVE  /\ Collected(b, dims, m) \in Values
           /\ DOMAIN Collected(b, dims, m) =
                {c \in Codes : INDICATOR_META[c].dimension \in dims} \ NOT_APPLICABLE(m)
           /\ \A c \in DOMAIN Collected(b, dims, m) :
                Collected(b, dims, m)[c] = Measured(c, b[c]) /\ Measured(c, b[c]) \in Nat
  <1> DEFINE S == {c \in Codes : INDICATOR_META[c].dimension \in dims} \ NOT_APPLICABLE(m)
             v == Collected(b, dims, m)
  <1>1. v = [c \in S |-> Answer(b, INDICATOR_META[c].dimension)[c]]
    BY DEF Collected
  <1> HIDE DEF v
  <1>2. ASSUME NEW c \in S PROVE v[c] = Measured(c, b[c]) /\ Measured(c, b[c]) \in Nat
    <2>1. c \in CodesOf(INDICATOR_META[c].dimension)
      BY DEF CodesOf
    <2>2. v[c] = Measured(c, b[c])
      BY <1>1, <2>1 DEF Answer
    <2>3. b[c].part \in Nat /\ b[c].total \in Nat
      BY DEF RawType
    <2>4. b[c].total > 0 => RoundDiv(b[c].part * 10000, b[c].total) \in Nat
      <3> DEFINE p == b[c].part * 10000
                 t == b[c].total
      <3>1. p \in Int /\ 0 * t <= p /\ t \in Nat
        BY <2>3
      <3> HIDE DEF p, t
      <3>2. t > 0 => RoundDiv(p, t) \in Int /\ 0 <= RoundDiv(p, t)
        BY <3>1, RoundDivType, RoundDivBounds
      <3> QED BY <3>2 DEF p, t
    <2>5. Percentage(b[c]) \in Nat
      BY <2>4 DEF Percentage
    <2> QED BY <2>2, <2>3, <2>5 DEF Measured
  <1>3. DOMAIN v = S /\ v \in [S -> Nat] /\ S \in SUBSET Codes
    BY <1>1, <1>2
  <1> HIDE DEF S
  <1>4. v \in Values
    BY <1>3 DEF Values
  <1> QED BY <1>2, <1>3, <1>4 DEF v, S

\* A score in tenths, better where no figure is worse.
LEMMA SnapshotScores ==
    ASSUME NEW b \in RawType, NEW dims, NEW m,
           NEW scope, scope.dims \in SUBSET Dimensions, scope.dims # {}
    PROVE  LET tenths(x) == Tenths(Score(Collected(x, dims, m), scope).health)
           IN /\ tenths(b) \in Nat /\ tenths(b) <= 1000
              /\ \A x \in RawType : NoWorse(b, x, scope) => tenths(b) <= tenths(x)
  <1> DEFINE v(x) == Collected(x, dims, m)
             h(x) == Score(v(x), scope).health
  <1>1. \A x \in RawType : v(x) \in Values
    BY CollectedIs
  <1>d. ASSUME NEW x \in RawType
        PROVE  /\ DOMAIN v(x) = {c \in Codes : INDICATOR_META[c].dimension \in dims} \ NOT_APPLICABLE(m)
               /\ \A c \in DOMAIN v(x) : v(x)[c] = Measured(c, x[c]) /\ Measured(c, x[c]) \in Nat
    BY CollectedIs
  <1>2. ASSUME NEW x \in RawType PROVE h(x) \in Nat /\ h(x) <= 10001 * 10000
    <2> DEFINE s == Score(v(x), scope)
    <2>1. v(x) \in Values
      BY <1>1
    <2> HIDE DEF v
    <2>2. \A d \in scope.dims : s.scores[d] <= 10000
      BY <2>1, ScoreIs
    <2>3. 10000 \in Nat
      OBVIOUS
    <2>4. /\ s.health \in Nat
          /\ \A k \in Nat : (\A d \in scope.dims : s.scores[d] <= k) => s.health <= 10001 * k
      BY <2>1, ScoreIs
    <2> HIDE DEF s
    <2>5. s.health \in Nat /\ s.health <= 10001 * 10000
      BY <2>2, <2>3, <2>4
    <2> QED BY <2>5 DEF s
  <1>3. ASSUME NEW x \in RawType, NoWorse(b, x, scope) PROVE h(b) <= h(x)
    <2>1. DOMAIN v(x) = DOMAIN v(b)
      BY <1>d
    <2>2. ASSUME NEW c \in DOMAIN v(x) \cap scope.inds PROVE Gap(c, v(b)[c]) <= Gap(c, v(x)[c])
      <3>1. v(b)[c] = Measured(c, b[c]) /\ v(x)[c] = Measured(c, x[c]) /\ c \in Codes
            /\ Measured(c, b[c]) \in Nat /\ Measured(c, x[c]) \in Nat
        BY <1>d, <2>1
      <3>2. Gap(c, Measured(c, x[c])) >= Gap(c, Measured(c, b[c]))
        BY <1>3 DEF NoWorse
      <3>3. Gap(c, Measured(c, x[c])) \in Int /\ Gap(c, Measured(c, b[c])) \in Int
        BY <3>1, GapType
      <3> HIDE DEF v
      <3> QED BY <3>1, <3>2, <3>3
    <2>3. v(b) \in Values /\ v(x) \in Values
      BY <1>1
    <2> HIDE DEF v
    <2> QED BY <2>1, <2>2, <2>3, BetterScore
  <1> HIDE DEF h
  <1>4. \A x \in RawType : Tenths(h(x)) = (h(x) + 50000) \div 100000
    <2>1. \A x \in RawType : Tenths(h(x)) = (h(x) + 100000 \div 2) \div 100000
      BY DEF Tenths, RoundDiv
    <2>2. 100000 \div 2 = 50000
      OBVIOUS
    <2> QED BY <2>1, <2>2
  <1>5. ASSUME NEW x \in RawType PROVE Tenths(h(x)) \in Nat /\ Tenths(h(x)) <= 1000
    <2>1. h(x) \in Nat /\ h(x) <= 100010000
      BY <1>2
    <2> QED BY <1>4, <2>1
  <1>6. ASSUME NEW x \in RawType, NoWorse(b, x, scope) PROVE Tenths(h(b)) <= Tenths(h(x))
    <2>1. h(b) \in Nat /\ h(x) \in Nat /\ h(b) <= h(x)
      BY <1>2, <1>3, <1>6
    <2> QED BY <1>4, <2>1
  <1> QED BY <1>5, <1>6 DEF h

\* The level of a score in hundredths, and of the health score.
LEMMA LevelIs ==
    ASSUME NEW h \in Int
    PROVE  /\ LevelRank(score_to_status(h)) \in 0..3
           /\ LevelRank(score_to_status(h)) >= 3 <=> h >= 80000000
           /\ LevelRank(score_to_status(h)) >= 2 <=> h >= 60000000
           /\ LevelRank(score_to_status(h)) >= 1 <=> h >= 40000000
  <1>1. CASE h >= 80000000
    <2>1. score_to_status(h) = "excellent"
      BY <1>1 DEF score_to_status
    <2>2. LevelRank(score_to_status(h)) = 3
      BY <2>1 DEF LevelRank
    <2> QED BY <1>1, <2>2
  <1>2. CASE h < 80000000 /\ h >= 60000000
    <2>1. score_to_status(h) = "good"
      BY <1>2 DEF score_to_status
    <2>2. LevelRank(score_to_status(h)) = 2
      BY <2>1 DEF LevelRank
    <2> QED BY <1>2, <2>2
  <1>3. CASE h < 60000000 /\ h >= 40000000
    <2>1. score_to_status(h) = "warning"
      BY <1>3 DEF score_to_status
    <2>2. LevelRank(score_to_status(h)) = 1
      BY <2>1 DEF LevelRank
    <2> QED BY <1>3, <2>2
  <1>4. CASE h < 40000000
    <2>1. score_to_status(h) = "danger"
      BY <1>4 DEF score_to_status
    <2>2. LevelRank(score_to_status(h)) = 0
      BY <2>1 DEF LevelRank
    <2> QED BY <1>4, <2>2
  <1> QED BY <1>1, <1>2, <1>3, <1>4

\* What an element of a sequence put together from three is.
LEMMA OfThree ==
    ASSUME NEW T, NEW a \in Seq(T), NEW b \in Seq(T), NEW c \in Seq(T), NEW s, s = a \o b \o c
    PROVE  /\ s \in Seq(T) /\ DOMAIN s = 1..Len(s) /\ Len(s) \in Nat
           /\ Range(s) = Range(a) \cup Range(b) \cup Range(c)
           /\ \A i \in 1..Len(s) : \/ i <= Len(a) /\ s[i] \in Range(a)
                                   \/ Len(a) < i /\ i <= Len(a) + Len(b) /\ s[i] \in Range(b)
                                   \/ Len(a) + Len(b) < i /\ s[i] \in Range(c)
  <1>1. /\ s \in Seq(T) /\ Len(s) = Len(a) + Len(b) + Len(c) /\ a \o b \in Seq(T)
        /\ Len(a) \in Nat /\ Len(b) \in Nat /\ Len(c) \in Nat
        /\ DOMAIN a = 1..Len(a) /\ DOMAIN b = 1..Len(b) /\ DOMAIN c = 1..Len(c)
    OBVIOUS
  <1>2. Range(s) = Range(a) \cup Range(b) \cup Range(c)
    <2>1. Range(a \o b) = Range(a) \cup Range(b)
      BY RangeOf
    <2>2. Range((a \o b) \o c) = Range(a \o b) \cup Range(c)
      <3> DEFINE d == a \o b
      <3>1. d \in Seq(T)
        BY <1>1
      <3> HIDE DEF d
      <3>2. Range(d \o c) = Range(d) \cup Range(c)
        BY <3>1, RangeOf
      <3> QED BY <3>2 DEF d
    <2> QED BY <2>1, <2>2
  <1>3. ASSUME NEW i \in 1..Len(s)
        PROVE  \/ i <= Len(a) /\ s[i] = a[i]
               \/ Len(a) < i /\ i <= Len(a) + Len(b) /\ s[i] = b[i - Len(a)]
               \/ Len(a) + Len(b) < i /\ s[i] = c[i - (Len(a) + Len(b))]
    BY <1>1
  <1>4. ASSUME NEW i \in 1..Len(s)
        PROVE  \/ i <= Len(a) /\ s[i] \in Range(a)
               \/ Len(a) < i /\ i <= Len(a) + Len(b) /\ s[i] \in Range(b)
               \/ Len(a) + Len(b) < i /\ s[i] \in Range(c)
    <2>1. CASE i <= Len(a) /\ s[i] = a[i]
      <3>1. i \in DOMAIN a
        BY <1>1, <2>1
      <3> QED BY <2>1, <3>1 DEF Range
    <2>2. CASE Len(a) < i /\ i <= Len(a) + Len(b) /\ s[i] = b[i - Len(a)]
      <3>1. i - Len(a) \in DOMAIN b
        BY <1>1, <2>2
      <3> QED BY <2>2, <3>1 DEF Range
    <2>3. CASE Len(a) + Len(b) < i /\ s[i] = c[i - (Len(a) + Len(b))]
      <3>1. i - (Len(a) + Len(b)) \in DOMAIN c
        BY <1>1, <2>3
      <3> QED BY <2>3, <3>1 DEF Range
    <2> QED BY <1>3, <2>1, <2>2, <2>3
  <1> QED BY <1>1, <1>2, <1>4

\* The sorted anomalies are the same ones, the severe ones first.
LEMMA BySeverityIs ==
    ASSUME NEW a \in Seq(Codes), NEW v, NEW s, s = BySeverity(a, v)
    PROVE  LET rank(c) == SeverityRank(Severity(c, v[c]))
           IN /\ s \in Seq(Codes) /\ Range(s) = Range(a)
              /\ \A i, k \in DOMAIN s : i < k => rank(s[i]) <= rank(s[k])
  <1> DEFINE rank(c) == SeverityRank(Severity(c, v[c]))
             at(r) == Select(a, {c \in Range(a) : rank(c) = r})
  <1>1. s = at(0) \o at(1) \o at(2)
    BY DEF BySeverity
  <1>2. \A r : at(r) \in Seq(Codes) /\ Range(at(r)) = {c \in Range(a) : rank(c) = r}
    BY SelectIs
  <1>3. \A c : rank(c) \in {0, 1, 2}
    BY DEF SeverityRank, Severity
  <1> HIDE DEF at, rank
  <1>4. /\ s \in Seq(Codes) /\ DOMAIN s = 1..Len(s) /\ Len(s) \in Nat
        /\ Range(s) = Range(at(0)) \cup Range(at(1)) \cup Range(at(2))
        /\ \A i \in 1..Len(s) :
             \/ i <= Len(at(0)) /\ s[i] \in Range(at(0))
             \/ Len(at(0)) < i /\ i <= Len(at(0)) + Len(at(1)) /\ s[i] \in Range(at(1))
             \/ Len(at(0)) + Len(at(1)) < i /\ s[i] \in Range(at(2))
    BY <1>1, <1>2, OfThree
  <1>5. Range(s) = Range(a)
    BY <1>2, <1>3, <1>4
  <1>6. \A i \in 1..Len(s) :
             \/ i <= Len(at(0)) /\ rank(s[i]) = 0
             \/ Len(at(0)) < i /\ i <= Len(at(0)) + Len(at(1)) /\ rank(s[i]) = 1
             \/ Len(at(0)) + Len(at(1)) < i /\ rank(s[i]) = 2
    BY <1>2, <1>4
  <1>7. Len(at(0)) \in Nat /\ Len(at(1)) \in Nat
    BY <1>2
  <1>8. ASSUME NEW i \in DOMAIN s, NEW k \in DOMAIN s, i < k PROVE rank(s[i]) <= rank(s[k])
    <2>1. i \in 1..Len(s) /\ k \in 1..Len(s)
      BY <1>4
    <2> QED BY <1>4, <1>6, <1>7, <1>8, <2>1
  <1>9. s \in Seq(Codes)
    BY <1>4
  <1> QED BY <1>5, <1>8, <1>9 DEF rank

\* By how much an anomaly is off, and its severity.
LEMMA GapShown ==
    ASSUME NEW c \in Codes, NEW v \in Int
    PROVE  LET g == -RoundDiv(10000 * Gap(c, v), INDICATOR_META[c].avg)
               r == SeverityRank(Severity(c, v))
           IN /\ g \in Int /\ r \in 0..2
              /\ r <= 0 => g >= 3000
              /\ r <= 1 => g >= 2000
              /\ g > 3000 => r <= 0
              /\ g > 2000 => r <= 1
  <1> DEFINE avg == INDICATOR_META[c].avg
             q == RoundDiv(10000 * Gap(c, v), avg)
             r == SeverityRank(Severity(c, v))
  <1>1. avg \in Nat \ {0} /\ Gap(c, v) \in Int
    BY Metas, GapType DEF MetaType
  <1>2. /\ WorseThan(c, v, 30) <=> 100 * Gap(c, v) < -30 * avg
        /\ WorseThan(c, v, 20) <=> 100 * Gap(c, v) < -20 * avg
    BY DEF WorseThan
  <1>3. r = IF WorseThan(c, v, 30) THEN 0 ELSE IF WorseThan(c, v, 20) THEN 1 ELSE 2
    <2>1. CASE WorseThan(c, v, 30)
      BY <2>1 DEF Severity, SeverityRank
    <2>2. CASE ~WorseThan(c, v, 30) /\ WorseThan(c, v, 20)
      BY <2>2 DEF Severity, SeverityRank
    <2>3. CASE ~WorseThan(c, v, 30) /\ ~WorseThan(c, v, 20)
      BY <2>3 DEF Severity, SeverityRank
    <2> QED BY <2>1, <2>2, <2>3
  <1> HIDE DEF avg
  <1>4. q \in Int
    BY <1>1, RoundDivType
  <1>5. /\ 100 * Gap(c, v) < -30 * avg => 10000 * Gap(c, v) <= -3000 * avg
        /\ ~(100 * Gap(c, v) < -30 * avg) => -3000 * avg <= 10000 * Gap(c, v)
        /\ 100 * Gap(c, v) < -20 * avg => 10000 * Gap(c, v) <= -2000 * avg
        /\ ~(100 * Gap(c, v) < -20 * avg) => -2000 * avg <= 10000 * Gap(c, v)
        /\ 100 * Gap(c, v) < -30 * avg => 100 * Gap(c, v) < -20 * avg
    BY <1>1
  <1>6. 10000 * Gap(c, v) \in Int
    BY <1>1
  <1>7. /\ WorseThan(c, v, 30) => q <= -3000 /\ WorseThan(c, v, 20)
        /\ ~WorseThan(c, v, 30) => -3000 <= q
        /\ WorseThan(c, v, 20) => q <= -2000
        /\ ~WorseThan(c, v, 20) => -2000 <= q
    BY <1>1, <1>2, <1>5, <1>6, RoundDivBounds
  <1> HIDE DEF q, r
  <1>8. /\ -q \in Int /\ r \in 0..2
        /\ r <= 0 => -q >= 3000
        /\ r <= 1 => -q >= 2000
        /\ -q > 3000 => r <= 0
        /\ -q > 2000 => r <= 1
    BY <1>3, <1>4, <1>7
  <1> QED BY <1>8 DEF q, r, avg

-----------------------------------------------------------------------------
(* The invariant.  What a diagnosis keeps is what was computed from what it   *)
(* collected: figures from the answers, scores and anomalies from the figures, *)
(* the report and the plans from the anomalies, tasks from an adopted plan, a  *)
(* day for the review from the tasks, and scores of the same kind afterwards.  *)

IsCollected ==
    /\ answered \in SUBSET Active.dims
    /\ values = Collected(business, answered, IF profile THEN mode ELSE "hybrid")
IsScored ==
    /\ IsCollected /\ profile /\ answered # {}
    /\ scored = Score(values, Active) /\ anomalies = FindAnomalies(values, Active.inds)

FiguresInv ==
    /\ pc \in Phases
    /\ request \in Requests /\ business \in Businesses /\ mode \in Modes /\ profile \in BOOLEAN
    /\ (values = <<>> /\ answered = {}) \/ IsCollected
    /\ (scored = NoScore /\ anomalies = <<>>) \/ IsScored
    /\ pc \in {"collecting", "diagnosing"} => scored = NoScore /\ anomalies = <<>>
    /\ pc = "diagnosing" => IsCollected
    /\ pc \in Phases \ {"collecting", "diagnosing", "failed"} => IsScored

CausesInv ==
    /\ round \in 0..3 /\ (pc = "asking" => round < 3)
    /\ \A c \in DOMAIN causes : causes[c] \in 1..round
    /\ pc \in {"collecting", "diagnosing"} => causes = <<>> /\ round = 0
    /\ CausesAreOfAnomalies

ReportInv ==
    /\ pc \in {"collecting", "diagnosing", "asking", "reporting"} => report = <<>>
    /\ report # <<>> => /\ IsScored
                        /\ report.health = scored.health /\ report.scores = scored.scores
                        /\ report.anomalies = BySeverity(anomalies, values)

\* The words of plans and rules (the provers do not know what is in STRING).
TasksOfRules == UNION {Range(RuleTasks(c)) : c \in Codes}
Words == STRING \cup {t.name : t \in TasksOfRules} \cup {t.dept : t \in TasksOfRules}
                \cup UNION {RuleCoupon(c) : c \in Codes}
SpecType == [name : Words, dept : Words, hours : Nat]
AStep == StepType(Words)
APlan == PlanType(Words)

PlansInv ==
    /\ plans \in Seq(APlan) /\ adopted \in 0..Len(plans)
    /\ pc \in {"executing", "waiting_track"} => adopted # 0
    /\ pc \in {"collecting", "diagnosing", "asking", "reporting", "generating"} => plans = <<>>
    /\ \A i, k \in 1..Len(plans) : i < k => Before(plans[i], plans[k])
    /\ pc \in {"waiting_adoption", "executing", "waiting_track", "completed"} => RulesAreInPlans

ExecType == [says : SUBSET Words, deadline : Int, criteria : Values]
TaskType == [task : ExecType, created : BOOLEAN]
TasksInv ==
    /\ tasks \in Seq(TaskType)
    /\ pc \in Phases \ {"waiting_track", "completed", "failed"} => tasks = <<>> /\ due = Never
    /\ due \in Int /\ ReviewDay
    /\ CriteriaImprove
    /\ pc = "waiting_track" /\ Len(plans) = 1 => RulesAreInTasks

IsMeasured(x) ==
    /\ x.kind = "measured" /\ x.by \in {"collector", "request"}
    /\ x.figures \in RawType /\ x.lost \in SUBSET Questions
    /\ x.score = SnapshotScore(x.figures, x.lost, Scope(x.by))
SnapshotType == [kind : {"measured", "closing"}, by : {"collector", "request", "review"},
                 score : 0..1000, figures : RawType \cup {<<>>}, lost : SUBSET Questions]
TrackInv ==
    /\ snapshots \in Seq(SnapshotType)
    /\ \A i \in 1..Len(snapshots) : snapshots[i].kind = "measured" => IsMeasured(snapshots[i])
    /\ \A i \in 1..Len(snapshots) : i < Len(snapshots) \/ pc # "completed" => snapshots[i].kind = "measured"
    /\ pc # "completed" => review = NoReview
    /\ current \in 0..1000 \cup {Never}
    /\ review.achievement \in 0..1000
    /\ review # NoReview =>
         /\ review.trend = BaseTrend(snapshots) /\ review.change = Change(snapshots)
         /\ Len(snapshots) >= 2 => Last(snapshots).score = snapshots[Len(snapshots) - 1].score

ContentsInv == FiguresInv /\ CausesInv /\ ReportInv /\ PlansInv /\ TasksInv /\ TrackInv
-----------------------------------------------------------------------------
(* What the invariant says of the figures *)

LEMMA FiniteValues ==
    ASSUME NEW S, IsFiniteSet(S), NEW f
    PROVE  IsFiniteSet({f[x] : x \in S})
  <1> DEFINE g == [x \in S |-> f[x]]
             T == {f[x] : x \in S}
  <1>1. g \in Surjection(S, T)
    BY DEF Surjection
  <1> HIDE DEF g, T
  <1> QED BY <1>1, FS_Surjection DEF T

\* Active and Everything are selections.
LEMMA ActiveIs ==
    ASSUME request \in Requests
    PROVE  /\ Active.dims \in SUBSET Dimensions /\ Active.dims # {} /\ Active.inds \in SUBSET Codes
           /\ \A c \in Active.inds : INDICATOR_META[c].dimension \in Active.dims
  <1>1. request.dims \in SUBSET Dimensions /\ request.inds \in SUBSET Codes
    BY ContentsAssumption
  <1> QED BY <1>1, Actives DEF Active

LEMMA EverythingIs ==
    /\ Everything.dims \in SUBSET Dimensions /\ Everything.dims # {} /\ Everything.inds \in SUBSET Codes
  BY Actives DEF Everything

\* What was collected are figures of the indicators.
LEMMA ValuesAre ==
    ASSUME business \in Businesses, IsCollected
    PROVE  /\ values \in Values
           /\ DOMAIN values = {c \in Codes : INDICATOR_META[c].dimension \in answered}
                                \ NOT_APPLICABLE(IF profile THEN mode ELSE "hybrid")
           /\ \A c \in DOMAIN values : c \in Codes /\ values[c] \in Nat
  <1>1. business \in RawType
    BY ContentsAssumption DEF RawType
  <1>2. /\ values \in Values
        /\ DOMAIN values = {c \in Codes : INDICATOR_META[c].dimension \in answered}
                              \ NOT_APPLICABLE(IF profile THEN mode ELSE "hybrid")
        /\ \A c \in DOMAIN values : values[c] \in Nat
    <2> DEFINE m == IF profile THEN mode ELSE "hybrid"
    <2>1. values = Collected(business, answered, m)
      BY DEF IsCollected
    <2> HIDE DEF m
    <2>2. /\ Collected(business, answered, m) \in Values
          /\ DOMAIN Collected(business, answered, m) =
                {c \in Codes : INDICATOR_META[c].dimension \in answered} \ NOT_APPLICABLE(m)
          /\ \A c \in DOMAIN Collected(business, answered, m) :
                Collected(business, answered, m)[c] = Measured(c, business[c])
                /\ Measured(c, business[c]) \in Nat
      BY <1>1, CollectedIs
    <2> QED BY <2>1, <2>2 DEF m
  <1> QED BY <1>2

\* The anomalies are those of the figures that were collected.
LEMMA AnomaliesAre ==
    ASSUME business \in Businesses, IsScored
    PROVE  /\ anomalies \in Seq(Codes)
           /\ Range(anomalies) = {c \in DOMAIN values \cap Active.inds : IsAnomaly(c, values[c])}
  BY ValuesAre, FindAnomaliesIs DEF IsScored

\* The health score lies between the scores of the dimensions.
LEMMA HealthAgrees ==
    ASSUME request \in Requests, business \in Businesses, IsScored
    PROVE  HealthIsAnAverage
  <1> DEFINE dims == Active.dims
             s == scored.scores
             all == {s[d] : d \in dims}
  <1>1. dims \in SUBSET Dimensions /\ dims # {}
    BY ActiveIs
  <1>2. values \in Values /\ scored = Score(values, Active)
    BY ValuesAre DEF IsScored
  <1>3. \A d \in dims : s[d] \in Nat
    BY <1>1, <1>2, ScoreIs
  <1>4. /\ scored.health \in Nat
        /\ \A k \in Nat : /\ (\A d \in dims : k <= s[d]) => 9999 * k <= scored.health
                          /\ (\A d \in dims : s[d] <= k) => scored.health <= 10001 * k
    BY <1>1, <1>2, ScoreIs
  <1>5. IsFiniteSet(dims)
    BY <1>1, FiniteNames, FS_Subset
  <1> HIDE DEF dims, s
  <1>6. IsFiniteSet(all)
    BY <1>5, FiniteValues
  <1>7. all \subseteq Nat /\ all \subseteq Int /\ all # {}
    BY <1>1, <1>3
  <1> HIDE DEF all
  <1>8. /\ Max(all) \in all /\ \A x \in all : x <= Max(all)
        /\ Min(all) \in all /\ \A x \in all : Min(all) <= x
    BY <1>6, <1>7, Extremes
  <1>9. /\ Max(all) \in Nat /\ Min(all) \in Nat
        /\ \A d \in dims : s[d] <= Max(all) /\ Min(all) <= s[d]
    BY <1>7, <1>8 DEF all
  <1>10. 9999 * Min(all) <= scored.health /\ scored.health <= 10001 * Max(all)
    BY <1>4, <1>9
  <1> QED BY <1>10 DEF HealthIsAnAverage, all, s, dims

\* Anomalies score low, take part, and were answered.
LEMMA AnomaliesAgree ==
    ASSUME request \in Requests, business \in Businesses, IsScored
    PROVE  AnomaliesScoreLow /\ AnomaliesTakePart
  <1>1. \A c \in DOMAIN values : c \in Codes /\ values[c] \in Int
    BY ValuesAre DEF IsScored
  <1>2. AnomaliesScoreLow
    BY <1>1, AnomaliesAre, IndicatorScores DEF AnomaliesScoreLow
  <1>3. DOMAIN values = {c \in Codes : INDICATOR_META[c].dimension \in answered} \ NOT_APPLICABLE(mode)
    BY ValuesAre DEF IsScored
  <1>4. AnomaliesTakePart
    BY <1>3, AnomaliesAre DEF AnomaliesTakePart
  <1> QED BY <1>2, <1>4

\* A reader sees the anomalies, the larger gaps first.
LEMMA ReportAgrees ==
    ASSUME business \in Businesses, IsScored, ReportInv, report # <<>>
    PROVE  ReportIsOrdered
  <1> DEFINE a == report.anomalies
             shown == transform_report_to_frontend_format(report, values).anomalies
             g(c) == -RoundDiv(10000 * Gap(c, values[c]), INDICATOR_META[c].avg)
             r(c) == SeverityRank(Severity(c, values[c]))
  <1>1. anomalies \in Seq(Codes) /\ Range(anomalies) \subseteq DOMAIN values
    BY AnomaliesAre
  <1>2. a = BySeverity(anomalies, values)
    BY DEF ReportInv
  <1>3. /\ a \in Seq(Codes) /\ Range(a) = Range(anomalies)
        /\ \A i, k \in DOMAIN a : i < k => r(a[i]) <= r(a[k])
    BY <1>1, <1>2, BySeverityIs
  <1>4. shown = [i \in DOMAIN a |-> [metric_name |-> a[i], gap_percentage |-> g(a[i]),
                                     severity |-> Severity(a[i], values[a[i]])]]
    BY DEF transform_report_to_frontend_format
  <1>5. \A c \in Range(a) : c \in Codes /\ values[c] \in Int
    BY <1>1, <1>3, ValuesAre DEF IsScored
  <1>6. ASSUME NEW c \in Range(a)
        PROVE  /\ g(c) \in Int /\ r(c) \in 0..2
               /\ r(c) <= 0 => g(c) >= 3000
               /\ r(c) <= 1 => g(c) >= 2000
               /\ g(c) > 3000 => r(c) <= 0
               /\ g(c) > 2000 => r(c) <= 1
    <2> DEFINE v == values[c]
    <2>1. c \in Codes /\ v \in Int
      BY <1>5
    <2> HIDE DEF v
    <2>2. LET y == -RoundDiv(10000 * Gap(c, v), INDICATOR_META[c].avg)
              z == SeverityRank(Severity(c, v))
          IN /\ y \in Int /\ z \in 0..2
             /\ z <= 0 => y >= 3000
             /\ z <= 1 => y >= 2000
             /\ y > 3000 => z <= 0
             /\ y > 2000 => z <= 1
      BY <2>1, GapShown
    <2> QED BY <2>2 DEF v
  <1> HIDE DEF g, r, a, shown
  <1>7. DOMAIN shown = DOMAIN a /\ \A i \in DOMAIN a : shown[i].metric_name = a[i] /\ shown[i].gap_percentage = g(a[i])
    BY <1>4
  <1>8. {x.metric_name : x \in Range(shown)} = Range(anomalies)
    <2>1. {x.metric_name : x \in Range(shown)} = {shown[i].metric_name : i \in DOMAIN shown}
      BY DEF Range
    <2>2. {shown[i].metric_name : i \in DOMAIN shown} = {a[i] : i \in DOMAIN a}
      BY <1>7
    <2> QED BY <1>3, <2>1, <2>2 DEF Range
  <1>9. ASSUME NEW i \in DOMAIN shown, NEW k \in DOMAIN shown, NEW bound \in {2000, 3000},
               i < k, shown[k].gap_percentage > bound
        PROVE  shown[i].gap_percentage >= bound
    <2>1. i \in DOMAIN a /\ k \in DOMAIN a /\ a[i] \in Range(a) /\ a[k] \in Range(a)
      BY <1>7 DEF Range
    <2>2. shown[i].gap_percentage = g(a[i]) /\ shown[k].gap_percentage = g(a[k])
      BY <1>7, <2>1
    <2>3. r(a[i]) <= r(a[k]) /\ r(a[i]) \in 0..2 /\ r(a[k]) \in 0..2
      BY <1>3, <1>6, <1>9, <2>1
    <2> QED BY <1>6, <1>9, <2>1, <2>2, <2>3
  <1> QED BY <1>8, <1>9 DEF ReportIsOrdered, shown

\* If every dimension has some level, the health score has it, but for what the
\* rounding of the weights takes.
LEMMA LevelsAgree ==
    ASSUME request \in Requests, business \in Businesses, IsScored, ReportInv, report # <<>>
    PROVE  LevelIsAnAverage
  <1> DEFINE dims == Active.dims
             s == scored.scores
             h == scored.health
             shown == transform_report_to_frontend_format(report, values)
             of(d) == LevelRank(score_to_status(10000 * s[d]))
             all == {of(d) : d \in dims}
             level == LevelRank(score_to_status(h))
  <1>1. dims \in SUBSET Dimensions /\ dims # {}
    BY ActiveIs
  <1>2. values \in Values /\ scored = Score(values, Active)
    BY ValuesAre DEF IsScored
  <1>3. DOMAIN s = dims /\ \A d \in dims : s[d] \in Nat /\ s[d] <= 10000
    BY <1>1, <1>2, ScoreIs
  <1>4. /\ h \in Nat
        /\ \A k \in Nat : /\ (\A d \in dims : k <= s[d]) => 9999 * k <= h
                          /\ (\A d \in dims : s[d] <= k) => h <= 10001 * k
    BY <1>1, <1>2, ScoreIs
  <1>5. report.health = h /\ report.scores = s
    BY DEF ReportInv
  <1>6. /\ shown.levels = [d \in dims |-> score_to_status(10000 * s[d])]
        /\ shown.status = score_to_status(h) /\ shown.total_score = Tenths(h)
    BY <1>3, <1>5 DEF transform_report_to_frontend_format
  <1>7. {LevelRank(shown.levels[d]) : d \in DOMAIN shown.levels} = all
    BY <1>6
  <1>8. IsFiniteSet(all)
    <2> DEFINE f == [d \in dims |-> of(d)]
    <2> HIDE DEF of
    <2>1. all = {f[d] : d \in dims}
      OBVIOUS
    <2>2. IsFiniteSet(dims)
      BY <1>1, FiniteNames, FS_Subset
    <2> HIDE DEF f, dims
    <2>3. IsFiniteSet({f[d] : d \in dims})
      BY <2>2, FiniteValues
    <2> QED BY <2>1, <2>3
  <1>9. ASSUME NEW d \in dims
        PROVE  /\ of(d) \in 0..3
               /\ of(d) >= 3 <=> s[d] >= 8000
               /\ of(d) >= 2 <=> s[d] >= 6000
               /\ of(d) >= 1 <=> s[d] >= 4000
    <2> DEFINE x == 10000 * s[d]
    <2>1. x \in Int /\ (x >= 80000000 <=> s[d] >= 8000) /\ (x >= 60000000 <=> s[d] >= 6000)
          /\ (x >= 40000000 <=> s[d] >= 4000)
      BY <1>3
    <2> HIDE DEF x
    <2>2. LET y == LevelRank(score_to_status(x))
          IN /\ y \in 0..3 /\ (y >= 3 <=> x >= 80000000)
             /\ (y >= 2 <=> x >= 60000000) /\ (y >= 1 <=> x >= 40000000)
      BY <2>1, LevelIs
    <2>3. of(d) = LevelRank(score_to_status(x))
      BY DEF x
    <2> HIDE DEF of
    <2> QED BY <2>1, <2>2, <2>3
  <1>10. /\ level \in 0..3
         /\ level >= 3 <=> h >= 80000000
         /\ level >= 2 <=> h >= 60000000
         /\ level >= 1 <=> h >= 40000000
    BY <1>4, LevelIs
  <1> HIDE DEF of, level, h, s, dims, shown
  <1>11. all \subseteq 0..3 /\ all \subseteq Int /\ all # {}
    BY <1>1, <1>9
  <1>12. \A d \in dims : of(d) \in all
    OBVIOUS
  <1> HIDE DEF all
  <1>13. /\ Max(all) \in all /\ \A x \in all : x <= Max(all)
         /\ Min(all) \in all /\ \A x \in all : Min(all) <= x
    BY <1>8, <1>11, Extremes
  <1>14. /\ Max(all) \in 0..3 /\ Min(all) \in 0..3
         /\ \A d \in dims : of(d) <= Max(all) /\ Min(all) <= of(d)
    BY <1>11, <1>12, <1>13
  <1>15. ASSUME NEW k \in Nat, \A d \in dims : ~(s[d] >= k + 1) PROVE h <= 10001 * k
    <2>1. \A d \in dims : s[d] <= k
      BY <1>3, <1>15
    <2> QED BY <1>4, <2>1
  <1>16. level <= Max(all)
    <2>1. CASE Max(all) = 0
      <3>1. \A d \in dims : ~(s[d] >= 3999 + 1)
        BY <1>9, <1>14, <2>1
      <3>2. h <= 10001 * 3999
        BY <1>15, <3>1
      <3> QED BY <1>4, <1>10, <2>1, <3>2
    <2>2. CASE Max(all) = 1
      <3>1. \A d \in dims : ~(s[d] >= 5999 + 1)
        BY <1>9, <1>14, <2>2
      <3>2. h <= 10001 * 5999
        BY SMTT(30), <1>15, <3>1
      <3> QED BY <1>4, <1>10, <2>2, <3>2
    <2>3. CASE Max(all) = 2
      <3>1. \A d \in dims : ~(s[d] >= 7999 + 1)
        BY <1>9, <1>14, <2>3
      <3>2. h <= 10001 * 7999
        BY <1>15, <3>1
      <3> QED BY <1>4, <1>10, <2>3, <3>2
    <2>4. CASE Max(all) = 3
      BY <1>10, <2>4
    <2> QED BY <1>14, <2>1, <2>2, <2>3, <2>4
  <1>17. /\ Tenths(h) = (h + 50000) \div 100000
    <2>1. Tenths(h) = (h + 100000 \div 2) \div 100000
      BY DEF Tenths, RoundDiv
    <2>2. 100000 \div 2 = 50000
      OBVIOUS
    <2> QED BY <2>1, <2>2
  <1>18. level >= Min(all) \/ \E x \in {40, 60, 80} : Tenths(h) = 10 * x
    <2>1. CASE Min(all) = 0
      BY <1>10, <2>1
    <2>2. CASE Min(all) = 1
      <3>1. \A d \in dims : 4000 <= s[d]
        BY <1>3, <1>9, <1>14, <2>2
      <3>2. 9999 * 4000 <= h
        BY <1>4, <3>1
      <3>3. level >= 1 \/ Tenths(h) = 10 * 40
        BY <1>4, <1>10, <1>17, <3>2
      <3> QED BY <2>2, <3>3
    <2>3. CASE Min(all) = 2
      <3>1. \A d \in dims : 6000 <= s[d]
        BY <1>3, <1>9, <1>14, <2>3
      <3>2. 9999 * 6000 <= h
        BY <1>4, <3>1
      <3>3. level >= 2 \/ Tenths(h) = 10 * 60
        BY <1>4, <1>10, <1>17, <3>2
      <3> QED BY <2>3, <3>3
    <2>4. CASE Min(all) = 3
      <3>1. \A d \in dims : 8000 <= s[d]
        BY <1>3, <1>9, <1>14, <2>4
      <3>2. 9999 * 8000 <= h
        BY <1>4, <3>1
      <3>3. level >= 3 \/ Tenths(h) = 10 * 80
        BY <1>4, <1>10, <1>17, <3>2
      <3> QED BY <2>4, <3>3
    <2> QED BY <1>14, <2>1, <2>2, <2>3, <2>4
  <1>19. LevelRank(shown.status) = level /\ shown.total_score = Tenths(h)
    BY <1>6 DEF level
  <1> QED BY <1>7, <1>16, <1>18, <1>19 DEF LevelIsAnAverage, shown

-----------------------------------------------------------------------------
(* The rules and the plans *)

\* Lists of one and two.
LEMMA SeqOfFew ==
    /\ \A S : \A x \in S : <<x>> \in Seq(S)
    /\ \A S : \A x, y \in S : <<x, y>> \in Seq(S)
  <1>1. ASSUME NEW S, NEW x \in S PROVE <<x>> \in Seq(S)
    OBVIOUS
  <1>2. ASSUME NEW S, NEW x \in S, NEW y \in S PROVE <<x, y>> \in Seq(S)
    OBVIOUS
  <1> QED BY <1>1, <1>2

LEMMA RangeOfFew ==
    /\ \A x : Range(<<x>>) = {x}
    /\ \A x, y : Range(<<x, y>>) = {x, y}
  <1>1. ASSUME NEW x PROVE Range(<<x>>) = {x}
    <2> DEFINE s == <<x>>
    <2>1. DOMAIN s = {1} /\ s[1] = x
      OBVIOUS
    <2> HIDE DEF s
    <2> QED BY <2>1 DEF Range, s
  <1>2. ASSUME NEW x, NEW y PROVE Range(<<x, y>>) = {x, y}
    <2> DEFINE s == <<x, y>>
    <2>1. DOMAIN s = {1, 2} /\ s[1] = x /\ s[2] = y
      OBVIOUS
    <2> HIDE DEF s
    <2>2. Range(s) = {x, y}
      BY <2>1 DEF Range
    <2> QED BY <2>2 DEF s
  <1> QED BY <1>1, <1>2

\* The rule of an indicator: a list of tasks, and at most one kind of coupon.
LEMMA RulesAre ==
    \A c \in Codes : /\ RuleTasks(c) \in Seq(SpecType)
                     /\ RuleCoupon(c) \in SUBSET Words
                     /\ \A x, y \in RuleCoupon(c) : x = y
  <1>1. ASSUME NEW c \in Codes, NEW n, NEW d, NEW h \in Nat, Task(n, d, h) \in Range(RuleTasks(c))
        PROVE  Task(n, d, h) \in SpecType
    <2>1. Task(n, d, h) \in TasksOfRules
      BY <1>1 DEF TasksOfRules
    <2>2. n = Task(n, d, h).name /\ d = Task(n, d, h).dept
      BY DEF Task
    <2>3. n \in Words /\ d \in Words
      BY <2>1, <2>2 DEF Words
    <2> QED BY <2>3 DEF Task, SpecType
  <1>2. ASSUME NEW c \in Codes PROVE RuleTasks(c) \in Seq(SpecType)
    <2> HIDE DEF SpecType
    <2>1. CASE c = "lead_conversion_rate"
      <3>1. RuleTasks(c) = <<Task("follow leads", "sales", 24)>>
        BY <2>1 DEF RuleTasks
      <3>2. Range(RuleTasks(c)) = {Task("follow leads", "sales", 24)}
        BY <3>1, RangeOfFew
      <3>3. Task("follow leads", "sales", 24) \in SpecType
        BY <1>1, <3>2
      <3> QED BY <3>1, <3>3, SeqOfFew
    <2>2. CASE c = "coupon_redemption_rate"
      <3>1. RuleTasks(c) = <<Task("coupon strategy", "operations", 72)>>
        BY <2>2 DEF RuleTasks
      <3>2. Range(RuleTasks(c)) = {Task("coupon strategy", "operations", 72)}
        BY <3>1, RangeOfFew
      <3>3. Task("coupon strategy", "operations", 72) \in SpecType
        BY <1>1, <3>2
      <3> QED BY <3>1, <3>3, SeqOfFew
    <2>3. CASE c = "refund_rate"
      <3>1. RuleTasks(c) = <<Task("refund causes", "operations", 120)>>
        BY <2>3 DEF RuleTasks
      <3>2. Range(RuleTasks(c)) = {Task("refund causes", "operations", 120)}
        BY <3>1, RangeOfFew
      <3>3. Task("refund causes", "operations", 120) \in SpecType
        BY <1>1, <3>2
      <3> QED BY <3>1, <3>3, SeqOfFew
    <2>4. CASE c = "positive_review_rate"
      <3>1. RuleTasks(c) = <<Task("after-sales service", "after-sales", 72), Task("call back", "customer service", 24)>>
        BY <2>4 DEF RuleTasks
      <3>2. Range(RuleTasks(c)) = {Task("after-sales service", "after-sales", 72), Task("call back", "customer service", 24)}
        BY <3>1, RangeOfFew
      <3>3. Task("after-sales service", "after-sales", 72) \in SpecType
        BY <1>1, <3>2
      <3>4. Task("call back", "customer service", 24) \in SpecType
        BY <1>1, <3>2
      <3> QED BY <3>1, <3>3, <3>4, SeqOfFew
    <2>5. CASE c = "avg_shipping_hours"
      <3>1. RuleTasks(c) = <<Task("shipping flow", "warehouse", 120)>>
        BY <2>5 DEF RuleTasks
      <3>2. Range(RuleTasks(c)) = {Task("shipping flow", "warehouse", 120)}
        BY <3>1, RangeOfFew
      <3>3. Task("shipping flow", "warehouse", 120) \in SpecType
        BY <1>1, <3>2
      <3> QED BY <3>1, <3>3, SeqOfFew
    <2>6. CASE c = "seckill_conversion_rate"
      <3>1. RuleTasks(c) = <<Task("seckill goods", "operations", 72)>>
        BY <2>6 DEF RuleTasks
      <3>2. Range(RuleTasks(c)) = {Task("seckill goods", "operations", 72)}
        BY <3>1, RangeOfFew
      <3>3. Task("seckill goods", "operations", 72) \in SpecType
        BY <1>1, <3>2
      <3> QED BY <3>1, <3>3, SeqOfFew
    <2>7. CASE c \notin {"lead_conversion_rate", "coupon_redemption_rate", "refund_rate",
                        "positive_review_rate", "avg_shipping_hours", "seckill_conversion_rate"}
      <3>1. RuleTasks(c) = <<>>
        BY <2>7 DEF RuleTasks
      <3> QED BY <3>1
    <2> QED BY <2>1, <2>2, <2>3, <2>4, <2>5, <2>6, <2>7
  <1>3. ASSUME NEW c PROVE RuleCoupon(c) \in {{"no repurchase"}, {"churn risk"}, {}}
    <2>1. CASE c = "repurchase_rate"
      BY <2>1 DEF RuleCoupon
    <2>2. CASE c = "churn_rate"
      BY <2>2 DEF RuleCoupon
    <2>3. CASE c \notin {"repurchase_rate", "churn_rate"}
      BY <2>3 DEF RuleCoupon
    <2> QED BY <2>1, <2>2, <2>3
  <1>4. ASSUME NEW c \in Codes PROVE RuleCoupon(c) \in SUBSET Words /\ \A x, y \in RuleCoupon(c) : x = y
    <2> DEFINE r == RuleCoupon(c)
    <2>1. r = {"no repurchase"} \/ r = {"churn risk"} \/ r = {}
      BY <1>3
    <2> HIDE DEF r
    <2>2. \A x, y \in r : x = y
      BY <2>1
    <2> QED BY <2>2 DEF Words, r
  <1> QED BY <1>2, <1>4

\* The tasks that the anomalies demand.
LEMMA MandatoryIs ==
    ASSUME NEW a \in Seq(Codes)
    PROVE  /\ collect_mandatory_task_specs(a) \in Seq(SpecType)
           /\ Range(collect_mandatory_task_specs(a)) = UNION {Range(RuleTasks(c)) : c \in Range(a)}
  <1> DEFINE seqs == [i \in DOMAIN a |-> RuleTasks(a[i])]
  <1>1. DOMAIN a = 1..Len(a) /\ Len(a) \in Nat
    OBVIOUS
  <1>2. seqs \in Seq(Seq(SpecType)) /\ Len(seqs) = Len(a)
    <2>1. \A i \in 1..Len(a) : seqs[i] \in Seq(SpecType)
      <3>1. \A i \in 1..Len(a) : a[i] \in Codes
        BY <1>1
      <3> QED BY <1>1, <3>1, RulesAre
    <2>2. seqs = [i \in 1..Len(a) |-> seqs[i]]
      BY <1>1
    <2> HIDE DEF seqs
    <2> QED BY <1>1, <2>1, <2>2
  <1>3. \A i \in 1..Len(a) : seqs[i] = RuleTasks(a[i])
    BY <1>1
  <1>4. collect_mandatory_task_specs(a) = FlattenSeq(seqs)
    BY DEF collect_mandatory_task_specs
  <1> HIDE DEF seqs
  <1>5. /\ FlattenSeq(seqs) \in Seq(SpecType)
        /\ Range(FlattenSeq(seqs)) = UNION {Range(seqs[i]) : i \in 1..Len(seqs)}
    BY <1>2, Flattened
  <1>6. Range(a) = {a[i] : i \in 1..Len(a)}
    BY <1>1 DEF Range
  <1>7. UNION {Range(seqs[i]) : i \in 1..Len(seqs)} = UNION {Range(RuleTasks(c)) : c \in Range(a)}
    BY <1>2, <1>3, <1>6
  <1> QED BY <1>4, <1>5, <1>7

\* A number of hours, or of none that can be read, is no time in the past.
LEMMA TimelinesAre ==
    /\ \A hours \in Nat : Within(hours) \in TimelineType
    /\ \A now \in Nat, t \in TimelineType :
          /\ Deadline(now, t) \in Int
          /\ Deadline(now, t) < 0 => t.kind = "on" /\ t.hours < 0
  <1>1. \A hours \in Nat : Within(hours) \in TimelineType
    BY DEF Within, TimelineType
  <1>2. ASSUME NEW now \in Nat, NEW t \in TimelineType
        PROVE  /\ Deadline(now, t) \in Int
               /\ Deadline(now, t) < 0 => t.kind = "on" /\ t.hours < 0
    <2>1. \/ t.kind = "within" /\ t.hours \in Nat
          \/ t.kind = "on" /\ t.hours \in Int
          \/ t.kind = "unreadable"
      BY DEF TimelineType, Unreadable
    <2>2. CASE t.kind = "within" /\ t.hours \in Nat
      <3>1. Deadline(now, t) = now + t.hours
        BY <2>2 DEF Deadline
      <3> QED BY <2>2, <3>1
    <2>3. CASE t.kind = "on" /\ t.hours \in Int
      <3>1. Deadline(now, t) = t.hours
        BY <2>3 DEF Deadline
      <3> QED BY <2>3, <3>1
    <2>4. CASE t.kind = "unreadable"
      <3>1. Deadline(now, t) = now + 168
        BY <2>4 DEF Deadline
      <3> QED BY <3>1
    <2> QED BY <2>1, <2>2, <2>3, <2>4
  <1> QED BY <1>1, <1>2

\* Steps from specifications.
StepsOf(specs) == [i \in DOMAIN specs |-> step_from_mandatory_spec(specs[i])]
LEMMA StepsAre ==
    ASSUME NEW specs \in Seq(SpecType)
    PROVE  /\ StepsOf(specs) \in Seq(AStep)
           /\ \A t \in Range(specs) : \E s \in Range(StepsOf(specs)) : t.dept \in s.depts /\ Mentions(s.says, t.name)
  <1> DEFINE steps == StepsOf(specs)
  <1>1. DOMAIN specs = 1..Len(specs) /\ Len(specs) \in Nat /\ \A i \in 1..Len(specs) : specs[i] \in SpecType
    OBVIOUS
  <1>2. ASSUME NEW i \in 1..Len(specs)
        PROVE  steps[i] \in AStep /\ specs[i].dept \in steps[i].depts /\ Mentions(steps[i].says, specs[i].name)
    <2> DEFINE timeline == Within(specs[i].hours)
    <2>1. steps[i] = Step({specs[i].name}, {specs[i].dept}, timeline, TRUE)
      BY <1>1 DEF StepsOf, step_from_mandatory_spec
    <2>2. specs[i].name \in Words /\ specs[i].dept \in Words /\ specs[i].hours \in Nat
      BY <1>1 DEF SpecType
    <2>3. timeline \in TimelineType
      BY <2>2, TimelinesAre
    <2> HIDE DEF steps, timeline
    <2> QED BY <2>1, <2>2, <2>3 DEF Step, AStep, StepType, Mentions
  <1>3. steps = [i \in 1..Len(specs) |-> steps[i]] /\ DOMAIN steps = 1..Len(specs)
    BY <1>1 DEF StepsOf
  <1> HIDE DEF steps
  <1>4. steps \in Seq(AStep)
    BY <1>1, <1>2, <1>3
  <1>5. \A t \in Range(specs) : \E s \in Range(steps) : t.dept \in s.depts /\ Mentions(s.says, t.name)
    BY <1>1, <1>2, <1>3 DEF Range
  <1> QED BY <1>4, <1>5 DEF steps

\* Plans, and what may be changed in them.
LEMMA PlanIs ==
    ASSUME NEW id \in Nat, NEW targets \in SUBSET Codes, NEW steps \in Seq(AStep),
           NEW coupons \in SUBSET Words, NEW roi \in Int, NEW difficulty \in Int, NEW urgency \in Int
    PROVE  LET p == Plan(id, targets, steps, coupons, roi, difficulty, urgency)
           IN p \in APlan /\ p.id = id
  BY DEF Plan, APlan, PlanType, AStep

LEMMA PlanParts ==
    ASSUME NEW p \in APlan
    PROVE  /\ p.id \in Nat /\ p.targets \in SUBSET Codes /\ p.steps \in Seq(AStep)
           /\ p.coupons \in SUBSET Words
           /\ p.roi \in Int /\ p.difficulty \in Int /\ p.urgency \in Int
           /\ priority_score(p) \in Int
           /\ \A s \in Seq(AStep) : [p EXCEPT !.steps = s] \in APlan
           /\ \A t \in SUBSET Codes, c \in SUBSET Words : [p EXCEPT !.coupons = c, !.targets = t] \in APlan
  <1>1. /\ p.id \in Nat /\ p.targets \in SUBSET Codes /\ p.steps \in Seq(AStep)
        /\ p.coupons \in SUBSET Words
        /\ p.roi \in Int /\ p.difficulty \in Int /\ p.urgency \in Int
    BY DEF APlan, PlanType, AStep
  <1>2. priority_score(p) \in Int
    BY SMTT(30), <1>1 DEF priority_score
  <1>3. \A s \in Seq(AStep) : [p EXCEPT !.steps = s] \in APlan
    BY DEF APlan, PlanType, AStep
  <1>4. \A t \in SUBSET Codes, c \in SUBSET Words : [p EXCEPT !.coupons = c, !.targets = t] \in APlan
    BY DEF APlan, PlanType
  <1> QED BY <1>1, <1>2, <1>3, <1>4

\* Plans whose ids are their places, and that see to all tasks of the rules.
Numbered(ps) == ps \in Seq(APlan) /\ \A i \in DOMAIN ps : ps[i].id = i
CoversAll(ps, a) == \A t \in Range(collect_mandatory_task_specs(a)) : mandatory_task_is_covered(ps, t)

LEMMA OnePlan ==
    ASSUME NEW p \in APlan, p.id = 1
    PROVE  Numbered(<<p>>)
  BY SeqOfFew DEF Numbered

\* The missing steps are added, and nothing else is lost.
LEMMA EnsuredTasks ==
    ASSUME NEW a \in Seq(Codes), NEW ps, Numbered(ps),
           NEW r, r = ensure_mandatory_task_steps(ps, a)
    PROVE  Numbered(r) /\ CoversAll(r, a)
  <1> DEFINE mandatory == collect_mandatory_task_specs(a)
             made == <<Plan(1, {c \in Range(a) : RuleTasks(c) # <<>>}, <<>>, {}, 1, 5, 7)>>
             given == IF ps = <<>> THEN made ELSE ps
             missing == Select(mandatory, {t \in Range(mandatory) : ~mandatory_task_is_covered(given, t)})
             added == StepsOf(missing)
  <1>1. mandatory \in Seq(SpecType)
    BY MandatoryIs
  <1>2. CASE mandatory = <<>>
    <2>1. r = ps
      BY <1>2 DEF ensure_mandatory_task_steps
    <2>2. Range(mandatory) = {}
      BY <1>1, <1>2, RangeOf
    <2> QED BY <2>1, <2>2 DEF CoversAll
  <1>3. CASE mandatory # <<>>
    <2>1. r = [given EXCEPT ![1].steps = @ \o added]
      BY <1>3 DEF ensure_mandatory_task_steps, StepsOf
    <2>2. Numbered(made)
      <3>1. {c \in Range(a) : RuleTasks(c) # <<>>} \in SUBSET Codes
        BY RangeOf
      <3>2. <<>> \in Seq(AStep)
        OBVIOUS
      <3> DEFINE t == {c \in Range(a) : RuleTasks(c) # <<>>}
                 none == <<>>
                 empty == {}
                 p == Plan(1, t, none, empty, 1, 5, 7)
      <3>3. t \in SUBSET Codes /\ none \in Seq(AStep) /\ empty \in SUBSET Words /\ 1 \in Nat /\ 1 \in Int /\ 5 \in Int /\ 7 \in Int
        BY <3>1, <3>2
      <3> HIDE DEF t, none, empty
      <3>4. p \in APlan /\ p.id = 1
        BY <3>3, PlanIs
      <3>5. made = <<p>>
        BY DEF t, none, empty
      <3> HIDE DEF p, made
      <3> QED BY <3>4, <3>5, OnePlan
    <2>3. Numbered(given) /\ given # <<>>
      BY <2>2
    <2>4. missing \in Seq(SpecType) /\ Range(missing) = {t \in Range(mandatory) : ~mandatory_task_is_covered(given, t)}
      BY <1>1, SelectIs
    <2>5. /\ added \in Seq(AStep)
          /\ \A t \in Range(missing) : \E s \in Range(added) : t.dept \in s.depts /\ Mentions(s.says, t.name)
      BY <2>4, StepsAre
    <2> HIDE DEF given, missing, added, mandatory, made
    <2>6. 1 \in DOMAIN given /\ DOMAIN given = 1..Len(given) /\ Len(given) \in Nat
          /\ (\A i \in DOMAIN given : given[i] \in APlan /\ given[i].id = i)
      BY <2>3 DEF Numbered
    <2>7. /\ DOMAIN r = DOMAIN given
          /\ r[1] = [given[1] EXCEPT !.steps = given[1].steps \o added]
          /\ \A i \in DOMAIN given : i # 1 => r[i] = given[i]
      BY <2>1, <2>6
    <2>8. given[1] \in APlan /\ given[1].steps \in Seq(AStep) /\ given[1].steps \o added \in Seq(AStep)
      <3>1. given[1] \in APlan
        BY <2>6
      <3>2. given[1].steps \in Seq(AStep)
        BY <3>1, PlanParts
      <3> QED BY <2>5, <3>1, <3>2
    <2>9. r[1] \in APlan /\ r[1].id = 1 /\ r[1].steps = given[1].steps \o added
      <3>1. r[1] \in APlan
        <4>1. \A s \in Seq(AStep) : [given[1] EXCEPT !.steps = s] \in APlan
          BY <2>8, PlanParts
        <4> QED BY <2>7, <2>8, <4>1
      <3>2. given[1] \in APlan
        BY <2>6
      <3> QED BY <2>6, <2>7, <3>1, <3>2 DEF APlan, PlanType
    <2>10. \A i \in DOMAIN r : r[i] \in APlan /\ r[i].id = i
      BY <2>6, <2>7, <2>9
    <2>11. r = [i \in 1..Len(given) |-> r[i]]
      BY <2>1, <2>6
    <2>12. Numbered(r)
      <3>1. r \in Seq(APlan)
        BY <2>6, <2>7, <2>10, <2>11
      <3> QED BY <2>10, <3>1 DEF Numbered
    <2>13. Range(r[1].steps) = Range(given[1].steps) \cup Range(added)
      BY <2>5, <2>8, <2>9, RangeOf
    <2>14. ASSUME NEW t \in Range(mandatory) PROVE mandatory_task_is_covered(r, t)
      <3>1. CASE mandatory_task_is_covered(given, t)
        <4>1. PICK i \in DOMAIN given : \E s \in Range(given[i].steps) : t.dept \in s.depts /\ Mentions(s.says, t.name)
          BY <3>1 DEF mandatory_task_is_covered
        <4>2. Range(given[i].steps) \subseteq Range(r[i].steps)
          BY <2>7, <2>13
        <4> QED BY <2>7, <4>1, <4>2 DEF mandatory_task_is_covered
      <3>2. CASE ~mandatory_task_is_covered(given, t)
        <4>1. \E s \in Range(r[1].steps) : t.dept \in s.depts /\ Mentions(s.says, t.name)
          BY <2>4, <2>5, <2>13, <3>2
        <4> QED BY <2>6, <2>7, <4>1 DEF mandatory_task_is_covered
      <3> QED BY <3>1, <3>2
    <2> QED BY <2>12, <2>14 DEF CoversAll, mandatory
  <1> QED BY <1>2, <1>3

\* Some plan has the coupons of every rule, if there is a plan.
CouponsOf(ps, a) == ps # <<>> => \A c \in Range(a) : \E p \in Range(ps) : RuleCoupon(c) \subseteq p.coupons

\* The coupons are added, and nothing else is lost.
LEMMA EnsuredCoupons ==
    ASSUME NEW a \in Seq(Codes), NEW ps, Numbered(ps), CoversAll(ps, a),
           NEW r, r = ensure_mandatory_coupon_auto_actions(ps, a)
    PROVE  Numbered(r) /\ CoversAll(r, a) /\ CouponsOf(r, a)
  <1> DEFINE mine(i) == {c \in Range(a) : RuleCoupon(c) # {} /\ PlanFor(ps, c) = i}
             new(i) == {c \in mine(i) : RuleCoupon(c) \cap ps[i].coupons = {}}
             gets(i) == UNION {RuleCoupon(c) : c \in new(i)}
             had(i) == ps[i].coupons
             aims(i) == ps[i].targets
  <1>1. r = [i \in DOMAIN ps |-> [ps[i] EXCEPT !.coupons = had(i) \cup gets(i),
                                               !.targets = aims(i) \cup new(i)]]
    BY DEF ensure_mandatory_coupon_auto_actions
  <1>2. DOMAIN ps = 1..Len(ps) /\ Len(ps) \in Nat /\ \A i \in DOMAIN ps : ps[i] \in APlan /\ ps[i].id = i
    BY DEF Numbered
  <1>3. Range(a) \subseteq Codes
    BY RangeOf
  <1>4. ASSUME NEW i \in DOMAIN ps PROVE gets(i) \in SUBSET Words /\ new(i) \in SUBSET Codes
    BY <1>3, RulesAre
  <1>5. ASSUME NEW i \in DOMAIN ps, NEW c \in Range(a), RuleCoupon(c) # {}, PlanFor(ps, c) = i
        PROVE  RuleCoupon(c) \subseteq had(i) \cup gets(i)
    <2>1. CASE RuleCoupon(c) \cap ps[i].coupons = {}
      <3>1. c \in new(i)
        BY <1>5, <2>1
      <3> HIDE DEF new
      <3> QED BY <3>1
    <2>2. CASE RuleCoupon(c) \cap ps[i].coupons # {}
      <3>1. \A x, y \in RuleCoupon(c) : x = y
        BY <1>3, RulesAre
      <3> QED BY <2>2, <3>1
    <2> QED BY <2>1, <2>2
  <1> HIDE DEF gets, new, had, aims
  <1>6. ASSUME NEW i \in DOMAIN ps
        PROVE  /\ r[i] \in APlan /\ r[i].id = i /\ r[i].steps = ps[i].steps
               /\ r[i].coupons = had(i) \cup gets(i)
    <2> DEFINE p == ps[i]
               c == had(i) \cup gets(i)
               t == aims(i) \cup new(i)
    <2>1. p \in APlan /\ p.id = i
      BY <1>2
    <2>2. r[i] = [p EXCEPT !.coupons = c, !.targets = t]
      BY <1>1
    <2>3. c \in SUBSET Words /\ t \in SUBSET Codes
      BY <1>4, <2>1, PlanParts DEF had, aims
    <2> HIDE DEF p, c, t
    <2>4. r[i] \in APlan
      <3>1. \A u \in SUBSET Codes, w \in SUBSET Words : [p EXCEPT !.coupons = w, !.targets = u] \in APlan
        BY <2>1, PlanParts
      <3> QED BY <2>2, <2>3, <3>1
    <2>5. r[i].id = i /\ r[i].steps = p.steps /\ r[i].coupons = c
      BY <2>1, <2>2 DEF APlan, PlanType
    <2> QED BY <2>4, <2>5 DEF p, c
  <1>7. DOMAIN r = DOMAIN ps /\ r = [i \in 1..Len(ps) |-> r[i]]
    BY <1>1, <1>2
  <1>8. Numbered(r)
    <2>1. r \in Seq(APlan)
      BY <1>2, <1>6, <1>7
    <2> QED BY <1>6, <1>7, <2>1 DEF Numbered
  <1>9. CoversAll(r, a)
    BY <1>6, <1>7 DEF CoversAll, mandatory_task_is_covered
  <1>10. ASSUME r # <<>>, NEW c \in Range(a) PROVE \E p \in Range(r) : RuleCoupon(c) \subseteq p.coupons
    <2>1. 1 \in DOMAIN ps
      BY <1>2, <1>7, <1>10
    <2>2. CASE RuleCoupon(c) = {}
      <3>1. r[1] \in Range(r)
        BY <1>7, <2>1 DEF Range
      <3>2. RuleCoupon(c) \subseteq r[1].coupons
        BY <2>2
      <3> QED BY <3>1, <3>2
    <2>3. CASE RuleCoupon(c) # {}
      <3> DEFINE aiming == {i \in DOMAIN ps : c \in ps[i].targets}
                 i == PlanFor(ps, c)
      <3>1. i = IF aiming = {} THEN 1 ELSE Min(aiming)
        BY DEF PlanFor
      <3>2. aiming \subseteq 1..Len(ps) /\ aiming \subseteq Int /\ IsFiniteSet(1..Len(ps))
        <4>1. aiming \subseteq 1..Len(ps) /\ aiming \subseteq Int
          BY <1>2
        <4>2. IsFiniteSet(1..Len(ps))
          BY <1>2, FS_Interval
        <4> QED BY <4>1, <4>2
      <3> HIDE DEF aiming, i
      <3>3. IsFiniteSet(aiming)
        BY <3>2, FS_Subset
      <3>4. aiming # {} => Min(aiming) \in aiming
        BY <3>2, <3>3, Extremes
      <3>5. i \in DOMAIN ps
        BY <1>2, <2>1, <3>1, <3>2, <3>4
      <3>6. RuleCoupon(c) \subseteq r[i].coupons
        BY <1>5, <1>6, <2>3, <3>5 DEF i
      <3> QED BY <1>7, <3>5, <3>6 DEF Range
    <2> QED BY <2>2, <2>3
  <1> QED BY <1>8, <1>9, <1>10 DEF CouponsOf

\* Sorting finds an order, and loses nothing.
LEMMA Sorted ==
    ASSUME NEW ps, Numbered(ps), NEW s, s = ByPriority(ps)
    PROVE  /\ s \in Seq(APlan) /\ Len(s) = Len(ps) /\ Range(s) = Range(ps)
           /\ \A i, k \in 1..Len(s) : i < k => Before(s[i], s[k])
  <1> DEFINE P == Range(ps)
             R == {x \in P \X P : Before(x[1], x[2])}
             n == Len(ps)
  <1>1. DOMAIN ps = 1..n /\ n \in Nat /\ P \subseteq APlan /\ ps \in [1..n -> P] /\ \A i \in 1..n : ps[i].id = i
    <2>1. ps \in Seq(APlan) /\ DOMAIN ps = 1..n /\ n \in Nat /\ \A i \in 1..n : ps[i].id = i
      BY DEF Numbered
    <2>2. P \subseteq APlan
      BY <2>1, RangeOf
    <2> QED BY <2>1, <2>2 DEF Range
  <1>2. IsFiniteSet(P) /\ Cardinality(P) = n
    <2>1. IsFiniteSet(1..n) /\ Cardinality(1..n) = n
      BY SMTT(30), <1>1, FS_Interval
    <2>2. ps \in Surjection(1..n, P)
      BY <1>1 DEF Surjection, Range
    <2>3. ps \in Injection(1..n, P)
      BY <1>1 DEF Injection, IsInjective
    <2> HIDE DEF P
    <2> QED BY <2>1, <2>2, <2>3, FS_Surjection
  <1>3. \A x \in P : x.id \in Nat /\ priority_score(x) \in Int
    BY <1>1, PlanParts
  <1>4. \A x, y \in P : x # y => x.id # y.id
    BY SMTT(30), <1>1 DEF Range
  <1>5. \A x, y \in P : <<x, y>> \in R <=> Before(x, y)
    OBVIOUS
  <1> HIDE DEF P, R
  <1>6. \A x, y \in P : x # y => Before(x, y) \/ Before(y, x)
    BY <1>3, <1>4 DEF Before
  <1>7. \A x, y, z \in P : Before(x, y) /\ Before(y, z) => Before(x, z)
    BY <1>3 DEF Before
  <1>8. Orders(R, P)
    BY <1>5, <1>6, <1>7 DEF Orders
  <1>9. PICK t : Sorts(t, R, P)
    BY <1>2, <1>8, SortExists
  <1>10. /\ t \in [DOMAIN ps -> Range(ps)] /\ Range(t) = Range(ps)
         /\ \A i, k \in DOMAIN t : i < k => Before(t[i], t[k])
    BY <1>1, <1>2, <1>5, <1>9 DEF Sorts, P
  <1>11. /\ s \in [DOMAIN ps -> Range(ps)] /\ Range(s) = Range(ps)
         /\ \A i, k \in DOMAIN s : i < k => Before(s[i], s[k])
    BY <1>10 DEF ByPriority
  <1>12. s \in [1..n -> APlan] /\ DOMAIN s = 1..n
    BY <1>1, <1>11 DEF P
  <1>13. s \in Seq(APlan) /\ Len(s) = n
    BY <1>1, <1>12
  <1> QED BY <1>11, <1>12, <1>13

\* The first few anomalies are anomalies.
LEMMA FirstFewAre ==
    ASSUME NEW a \in Seq(Codes), NEW n \in Nat
    PROVE  FirstFew(a, n) \in SUBSET Codes
  <1> DEFINE m == Min({n, Len(a)})
             first == SubSeq(a, 1, m)
  <1>1. m \in Int /\ m <= Len(a)
    <2> DEFINE S == {n, Len(a)}
    <2>1. S \subseteq Int /\ S # {} /\ Len(a) \in S
      OBVIOUS
    <2>2. IsFiniteSet({} \cup {n, Len(a)})
      BY FinitePair, FS_EmptySet
    <2>3. IsFiniteSet(S)
      BY <2>2
    <2> HIDE DEF S
    <2>4. Min(S) \in S /\ \A x \in S : Min(S) <= x
      BY <2>1, <2>3, Extremes
    <2> QED BY <2>1, <2>4 DEF S
  <1>2. FirstFew(a, n) = Range(first)
    BY DEF FirstFew
  <1> HIDE DEF m
  <1>3. first \in Seq(Codes)
    BY <1>1
  <1> HIDE DEF first
  <1> QED BY <1>2, <1>3, RangeOf

\* Every answer of the language model is a list of plans, numbered.
LEMMA AnswersAre ==
    ASSUME anomalies \in Seq(Codes), NEW answer \in Answers
    PROVE  Numbered(answer)
  <1> DEFINE targets == Range(anomalies)
  <1>1. targets \in SUBSET Codes /\ \A n \in Nat : FirstFew(anomalies, n) \in SUBSET Codes
    BY RangeOf, FirstFewAre
  <1>2. CASE answer = build_plans_when_llm_disabled(anomalies)
    <2> DEFINE steps == StepsOf(collect_mandatory_task_specs(anomalies))
               coupons == UNION {RuleCoupon(c) : c \in targets}
               few == FirstFew(anomalies, 10)
               p == Plan(1, few, steps, coupons, 1, 5, 6)
    <2>1. answer = <<p>>
      BY <1>2 DEF build_plans_when_llm_disabled, StepsOf
    <2>2. steps \in Seq(AStep)
      BY MandatoryIs, StepsAre
    <2>3. coupons \in SUBSET Words
      BY <1>1, RulesAre
    <2>5. few \in SUBSET Codes
      BY <1>1
    <2> HIDE DEF few, steps, coupons
    <2>4. p \in APlan /\ p.id = 1
      BY <2>2, <2>3, <2>5, PlanIs
    <2> HIDE DEF p
    <2> QED BY <2>1, <2>4, OnePlan
  <1>3. CASE answer = DefaultPlan(anomalies)
    <2> DEFINE few == FirstFew(anomalies, 3)
               none == <<>>
               empty == {}
               p == Plan(1, few, none, empty, 1, 5, 5)
    <2>1. answer = <<p>>
      BY <1>3 DEF DefaultPlan
    <2>2. few \in SUBSET Codes
      BY <1>1
    <2>3. none \in Seq(AStep) /\ empty \in SUBSET Words
      OBVIOUS
    <2> HIDE DEF few, none, empty
    <2>4. p \in APlan /\ p.id = 1
      BY <2>2, <2>3, PlanIs
    <2> HIDE DEF p
    <2> QED BY <2>1, <2>4, OnePlan
  <1>4. CASE answer \in {[i \in DOMAIN ds |-> [ds[i] EXCEPT !.id = i]] : ds \in SeqOf(Drafts, MaxPlans)}
    <2>1. PICK ds \in SeqOf(Drafts, MaxPlans) : answer = [i \in DOMAIN ds |-> [ds[i] EXCEPT !.id = i]]
      BY <1>4
    <2>2. PICK m \in 0..MaxPlans : ds \in [1..m -> Drafts]
      BY DEF SeqOf
    <2>3. m \in Nat
      BY <2>2, ContentsAssumption
    <2>4. ASSUME NEW i \in 1..m PROVE answer[i] \in APlan /\ answer[i].id = i
      <3>1. ds[i] \in PlanType(STRING) /\ answer[i] = [ds[i] EXCEPT !.id = i]
        BY <2>1, <2>2, ContentsAssumption
      <3>2. /\ ds[i].targets \in SUBSET Codes /\ ds[i].steps \in Seq(StepType(STRING))
            /\ ds[i].coupons \in SUBSET STRING /\ ds[i].roi \in Int /\ ds[i].difficulty \in Int
            /\ ds[i].urgency \in Int
        BY <3>1 DEF PlanType
      <3>3. STRING \subseteq Words
        BY DEF Words
      <3>4. ds[i].steps \in Seq(AStep)
        <4>1. \A x \in StepType(STRING) : x \in AStep
          BY <3>3 DEF StepType, AStep
        <4> QED BY <3>2, <4>1
      <3>5. i \in Nat
        BY <2>3
      <3>6. answer[i] = [id |-> i, targets |-> ds[i].targets, steps |-> ds[i].steps,
                         coupons |-> ds[i].coupons, roi |-> ds[i].roi,
                         difficulty |-> ds[i].difficulty, urgency |-> ds[i].urgency]
        BY <3>1 DEF PlanType
      <3>7. answer[i] = Plan(i, ds[i].targets, ds[i].steps, ds[i].coupons, ds[i].roi,
                             ds[i].difficulty, ds[i].urgency)
        BY <3>6 DEF Plan
      <3>8. ds[i].coupons \in SUBSET Words
        BY <3>2, <3>3
      <3> QED BY <3>2, <3>4, <3>5, <3>7, <3>8, PlanIs
    <2>5. answer = [i \in 1..m |-> answer[i]]
      BY <2>1, <2>2
    <2>6. answer \in Seq(APlan) /\ DOMAIN answer = 1..m
      BY <2>3, <2>4, <2>5
    <2> QED BY <2>4, <2>6 DEF Numbered
  <1> QED BY <1>2, <1>3, <1>4 DEF Answers

\* What is generated is sorted and keeps the rules, whatever was answered.
LEMMA Generated ==
    ASSUME anomalies \in Seq(Codes), NEW answer \in Answers, NEW r, r = generate_solutions(answer, anomalies)
    PROVE  /\ r \in Seq(APlan)
           /\ \A i, k \in 1..Len(r) : i < k => Before(r[i], r[k])
           /\ CoversAll(r, anomalies) /\ CouponsOf(r, anomalies)
  <1> DEFINE a == anomalies
             x == ensure_mandatory_task_steps(answer, a)
             y == ensure_mandatory_coupon_auto_actions(x, a)
  <1>1. Numbered(answer)
    BY AnswersAre
  <1>2. Numbered(x) /\ CoversAll(x, a)
    BY <1>1, EnsuredTasks
  <1> HIDE DEF x
  <1>3. Numbered(y) /\ CoversAll(y, a) /\ CouponsOf(y, a)
    BY <1>2, EnsuredCoupons
  <1>4. r = ByPriority(y)
    BY DEF generate_solutions, x
  <1> HIDE DEF y
  <1>5. /\ r \in Seq(APlan) /\ Len(r) = Len(y) /\ Range(r) = Range(y)
        /\ \A i, k \in 1..Len(r) : i < k => Before(r[i], r[k])
    BY <1>3, <1>4, Sorted
  <1>6. \A t : mandatory_task_is_covered(y, t) => mandatory_task_is_covered(r, t)
    BY <1>5 DEF mandatory_task_is_covered, Range
  <1>7. y \in Seq(APlan)
    BY <1>3 DEF Numbered
  <1>8. r # <<>> => y # <<>>
    BY <1>5, <1>7, RangeOf
  <1> QED BY <1>3, <1>5, <1>6, <1>8 DEF CoversAll, CouponsOf

\* The plan at the head of the list is the recommended one.
LEMMA RankedPlans ==
    ASSUME PlansInv, plans # <<>>
    PROVE  PlansAreRanked
  <1> DEFINE score(i) == priority_score(plans[i])
             list == build_compat_solution_list(plans, anomalies, adopted)
  <1>1. /\ DOMAIN plans = 1..Len(plans) /\ Len(plans) \in Nat /\ 1 \in DOMAIN plans
        /\ \A i \in DOMAIN plans : plans[i] \in APlan
    BY DEF PlansInv
  <1>2. \A i \in DOMAIN plans : score(i) \in Int
    BY <1>1, PlanParts
  <1>3. \A i, k \in DOMAIN plans : i < k => score(i) >= score(k)
    BY <1>1, <1>2 DEF PlansInv, Before
  <1>4. /\ DOMAIN list = DOMAIN plans
        /\ \A i \in DOMAIN plans : list[i].score = score(i) /\ list[i].id = plans[i].id
    BY DEF build_compat_solution_list, plan_to_list_item
  <1> DEFINE best(i) == /\ \A k \in DOMAIN plans : score(k) <= score(i)
                        /\ \A k \in 1..(i - 1) : score(k) < score(i)
  <1>5. Recommended(plans) = CHOOSE i \in DOMAIN plans : best(i)
    BY DEF Recommended
  <1> HIDE DEF score, list
  <1>6. best(1)
    BY <1>1, <1>2, <1>3
  <1>7. \A i \in DOMAIN plans : best(i) => i = 1
    <2> SUFFICES ASSUME NEW i \in DOMAIN plans, best(i), i # 1 PROVE FALSE
      OBVIOUS
    <2>1. 1 \in 1..(i - 1) /\ 1 < i
      BY <1>1
    <2> QED BY <1>1, <1>2, <1>3, <2>1
  <1> HIDE DEF best
  <1>8. Recommended(plans) = 1
    BY <1>1, <1>5, <1>6, <1>7
  <1> QED BY <1>1, <1>3, <1>4, <1>8 DEF PlansAreRanked, list

-----------------------------------------------------------------------------
(* The tasks and their review *)

\* What a task has to reach is between what was measured and the average.
Improves(x) == \A c \in DOMAIN x.criteria : /\ INDICATOR_META[c].better = "higher"
                                            /\ x.criteria[c] \in values[c]..INDICATOR_META[c].avg

\* Half way to the average is between what was measured and the average.
LEMMA CriteriaAre ==
    ASSUME business \in Businesses, IsScored, NEW targets,
           NEW k, k = generate_acceptance_criteria(targets, anomalies, values)
    PROVE  /\ k \in Values
           /\ \A c \in DOMAIN k : /\ INDICATOR_META[c].better = "higher"
                                  /\ k[c] \in values[c]..INDICATOR_META[c].avg
  <1> DEFINE below == {c \in targets \cap Range(anomalies) : values[c] < INDICATOR_META[c].avg}
  <1>1. k = [c \in below |-> 10 * RoundDiv(values[c] + INDICATOR_META[c].avg, 20)]
    BY DEF generate_acceptance_criteria
  <1>2. ASSUME NEW c \in below
        PROVE  /\ c \in Codes /\ INDICATOR_META[c].better = "higher"
               /\ k[c] \in Nat /\ k[c] \in values[c]..INDICATOR_META[c].avg
    <2> DEFINE avg == INDICATOR_META[c].avg
               v == values[c]
    <2>1. c \in Codes /\ v \in Nat /\ IsAnomaly(c, v) /\ v < avg
      BY AnomaliesAre, ValuesAre DEF IsScored
    <2>2. avg \in Nat /\ avg >= 500 /\ INDICATOR_META[c].better \in {"higher", "lower"}
      BY <2>1, Metas DEF MetaType
    <2>3. 100 * Gap(c, v) < -15 * avg
      BY <2>1 DEF IsAnomaly, WorseThan
    <2>4. Gap(c, v) = IF INDICATOR_META[c].better = "higher" THEN v - avg ELSE avg - v
      BY DEF Gap
    <2>5. k[c] = 10 * RoundDiv(v + avg, 20)
      BY <1>1
    <2> HIDE DEF v, avg
    <2>6. INDICATOR_META[c].better = "higher"
      BY <2>1, <2>2, <2>3, <2>4
    <2>7. 100 * v < 85 * avg
      BY <2>1, <2>2, <2>3, <2>4, <2>6
    <2>8. RoundDiv(v + avg, 20) = (v + avg + 10) \div 20
      <3>1. RoundDiv(v + avg, 20) = (v + avg + 20 \div 2) \div 20
        BY DEF RoundDiv
      <3>2. 20 \div 2 = 10
        OBVIOUS
      <3> QED BY <3>1, <3>2
    <2>9. k[c] \in Nat /\ v <= k[c] /\ k[c] <= avg
      BY <2>1, <2>2, <2>5, <2>7, <2>8
    <2>10. k[c] \in v..avg
      BY <2>1, <2>2, <2>9
    <2> QED BY <2>1, <2>6, <2>9, <2>10 DEF v, avg
  <1> HIDE DEF below
  <1>3. k \in [below -> Nat] /\ below \in SUBSET Codes /\ DOMAIN k = below
    BY <1>1, <1>2
  <1>4. k \in Values
    BY <1>3 DEF Values
  <1> QED BY <1>2, <1>3, <1>4

\* Tasks are of their type.
LEMMA ExecTaskIs ==
    ASSUME NEW says \in SUBSET Words, NEW deadline \in Int, NEW k \in Values
    PROVE  LET x == ExecTask(says, deadline, k)
           IN x \in ExecType /\ x.says = says /\ x.deadline = deadline /\ x.criteria = k
  BY DEF ExecTask, ExecType

\* The tasks of a plan say what its steps say, and are due before the day only by
\* a date in the past.
IsPast(s, x) == s.timeline.kind = "on" /\ s.timeline.hours < 0 /\ s.says = x.says
LEMMA PlannedTasks ==
    ASSUME business \in Businesses, IsScored, NEW p \in APlan, NEW now \in Nat,
           NEW list, list = build_execution_tasks(p, anomalies, values, now)
    PROVE  /\ list \in Seq(ExecType)
           /\ \A x \in Range(list) : Improves(x)
           /\ \A s \in Range(p.steps) : \E x \in Range(list) : x.says = s.says
           /\ \A x \in Range(list) : x.deadline < 0 => \E s \in Range(p.steps) : IsPast(s, x)
  <1> DEFINE k == generate_acceptance_criteria(p.targets, anomalies, values)
  <1>1. /\ k \in Values
        /\ \A c \in DOMAIN k : /\ INDICATOR_META[c].better = "higher"
                               /\ k[c] \in values[c]..INDICATOR_META[c].avg
    BY CriteriaAre
  <1>2. list = IF p.steps = <<>> THEN <<ExecTask({}, Deadline(now, Unreadable), k)>>
               ELSE [i \in DOMAIN p.steps |-> ExecTask(p.steps[i].says, Deadline(now, p.steps[i].timeline), k)]
    BY DEF build_execution_tasks
  <1> HIDE DEF k
  <1>3. p.steps \in Seq(AStep)
    BY PlanParts
  <1>4. CASE p.steps = <<>>
    <2> DEFINE none == {}
               d == Deadline(now, Unreadable)
               x == ExecTask(none, d, k)
    <2>1. none \in SUBSET Words /\ d \in Nat /\ list = <<x>>
      BY <1>2, <1>4 DEF Deadline, Unreadable
    <2> HIDE DEF none, d
    <2>2. x \in ExecType /\ x.criteria = k /\ x.deadline = d
      BY <1>1, <2>1, ExecTaskIs
    <2> HIDE DEF x
    <2>3. list \in Seq(ExecType) /\ Range(list) = {x}
      BY <2>1, <2>2, SeqOfFew, RangeOfFew
    <2>4. Improves(x)
      BY <1>1, <2>2 DEF Improves
    <2>5. Range(p.steps) = {}
      BY <1>3, <1>4, RangeOf
    <2>6. ~(x.deadline < 0)
      BY <2>1, <2>2
    <2> QED BY <2>3, <2>4, <2>5, <2>6
  <1>5. CASE p.steps # <<>>
    <2> DEFINE n == Len(p.steps)
    <2>1. DOMAIN p.steps = 1..n /\ n \in Nat /\ \A i \in 1..n : p.steps[i] \in AStep
      BY <1>3
    <2>2. list = [i \in 1..n |-> ExecTask(p.steps[i].says, Deadline(now, p.steps[i].timeline), k)]
      BY <1>2, <1>5, <2>1
    <2> HIDE DEF n
    <2>3. ASSUME NEW i \in 1..n
          PROVE  /\ list[i] \in ExecType /\ list[i].criteria = k /\ list[i].says = p.steps[i].says
                 /\ list[i].deadline < 0 => IsPast(p.steps[i], list[i])
      <3> DEFINE d == Deadline(now, p.steps[i].timeline)
      <3>1. p.steps[i].says \in SUBSET Words /\ p.steps[i].timeline \in TimelineType
        BY <2>1 DEF AStep, StepType
      <3>2. d \in Int /\ (d < 0 => p.steps[i].timeline.kind = "on" /\ p.steps[i].timeline.hours < 0)
        BY <3>1, TimelinesAre
      <3>3. list[i] = ExecTask(p.steps[i].says, d, k)
        BY <2>2
      <3> HIDE DEF d
      <3>4. /\ list[i] \in ExecType /\ list[i].criteria = k
            /\ list[i].says = p.steps[i].says /\ list[i].deadline = d
        BY <1>1, <3>1, <3>2, <3>3, ExecTaskIs
      <3> QED BY <3>2, <3>4 DEF IsPast
    <2>4. list = [i \in 1..n |-> list[i]] /\ DOMAIN list = 1..n
      BY <2>2
    <2>5. list \in Seq(ExecType)
      BY <2>1, <2>3, <2>4
    <2>6. \A x \in Range(list) : Improves(x)
      BY <1>1, <2>3, <2>4 DEF Range, Improves
    <2>7. \A s \in Range(p.steps) : \E x \in Range(list) : x.says = s.says
      BY <2>1, <2>3, <2>4 DEF Range
    <2>8. \A x \in Range(list) : x.deadline < 0 => \E s \in Range(p.steps) : IsPast(s, x)
      BY <2>1, <2>3, <2>4 DEF Range
    <2> QED BY <2>5, <2>6, <2>7, <2>8
  <1> QED BY <1>4, <1>5

\* The tasks of the rules are never due before the day.
LEMMA RuledTasks ==
    ASSUME business \in Businesses, IsScored, NEW now \in Nat,
           NEW list, list = build_tasks_from_rule_specs(anomalies, values, now)
    PROVE  /\ list \in Seq(ExecType)
           /\ \A x \in Range(list) : Improves(x) /\ x.deadline >= 0
  <1> DEFINE k(c) == generate_acceptance_criteria({c}, anomalies, values)
             ofRule(c) == [i \in DOMAIN RuleTasks(c) |->
                 ExecTask({RuleTasks(c)[i].name}, Deadline(now, Within(RuleTasks(c)[i].hours)), k(c))]
             seqs == [i \in DOMAIN anomalies |-> ofRule(anomalies[i])]
  <1>1. list = FlattenSeq(seqs)
    BY DEF build_tasks_from_rule_specs
  <1>2. anomalies \in Seq(Codes)
    BY AnomaliesAre
  <1>3. DOMAIN anomalies = 1..Len(anomalies) /\ Len(anomalies) \in Nat
        /\ \A i \in 1..Len(anomalies) : anomalies[i] \in Codes
    BY <1>2
  <1>4. ASSUME NEW c \in Codes
        PROVE  ofRule(c) \in Seq(ExecType) /\ \A x \in Range(ofRule(c)) : Improves(x) /\ x.deadline >= 0
    <2> DEFINE t == RuleTasks(c)
               l == ofRule(c)
    <2>1. t \in Seq(SpecType)
      BY RulesAre
    <2>2. DOMAIN t = 1..Len(t) /\ Len(t) \in Nat /\ \A i \in 1..Len(t) : t[i] \in SpecType
      BY <2>1
    <2>3. /\ k(c) \in Values
          /\ \A e \in DOMAIN k(c) : /\ INDICATOR_META[e].better = "higher"
                                    /\ k(c)[e] \in values[e]..INDICATOR_META[e].avg
      BY CriteriaAre
    <2>4. l = [i \in DOMAIN t |-> ExecTask({t[i].name}, Deadline(now, Within(t[i].hours)), k(c))]
      OBVIOUS
    <2> HIDE DEF k, t, l
    <2>5. ASSUME NEW i \in 1..Len(t) PROVE l[i] \in ExecType /\ l[i].criteria = k(c) /\ l[i].deadline >= 0
      <3> DEFINE d == Deadline(now, Within(t[i].hours))
      <3>1. {t[i].name} \in SUBSET Words /\ t[i].hours \in Nat
        BY <2>2 DEF SpecType
      <3>2. d \in Nat
        BY <3>1 DEF Deadline, Within
      <3>3. l[i] = ExecTask({t[i].name}, d, k(c))
        BY <2>2, <2>4
      <3> HIDE DEF d
      <3>4. l[i] \in ExecType /\ l[i].criteria = k(c) /\ l[i].deadline = d
        BY <2>3, <3>1, <3>2, <3>3, ExecTaskIs
      <3> QED BY <3>2, <3>4
    <2>6. l = [i \in 1..Len(t) |-> l[i]] /\ DOMAIN l = 1..Len(t)
      BY <2>2, <2>4
    <2>7. l \in Seq(ExecType)
      BY <2>2, <2>5, <2>6
    <2>8. \A x \in Range(l) : Improves(x) /\ x.deadline >= 0
      BY <2>3, <2>5, <2>6 DEF Range, Improves
    <2> QED BY <2>7, <2>8 DEF l
  <1>5. seqs = [i \in 1..Len(anomalies) |-> ofRule(anomalies[i])]
    BY <1>3
  <1> HIDE DEF ofRule, seqs
  <1>6. seqs \in Seq(Seq(ExecType)) /\ Len(seqs) = Len(anomalies)
        /\ \A i \in 1..Len(seqs) : \A x \in Range(seqs[i]) : Improves(x) /\ x.deadline >= 0
    BY <1>3, <1>4, <1>5
  <1>7. /\ FlattenSeq(seqs) \in Seq(ExecType)
        /\ Range(FlattenSeq(seqs)) = UNION {Range(seqs[i]) : i \in 1..Len(seqs)}
    BY <1>6, Flattened
  <1> QED BY <1>1, <1>6, <1>7

\* The deadlines of the tasks that were created.
LEMMA DeadlinesAre ==
    ASSUME NEW list \in Seq(TaskType), NEW D, D = CreatedDeadlines(list)
    PROVE  D \subseteq Int /\ IsFiniteSet(D)
  <1> DEFINE S == {s \in Range(list) : s.created}
             f == [t \in S |-> t.task.deadline]
  <1>1. Range(list) \subseteq TaskType /\ IsFiniteSet(Range(list))
    BY RangeOf, FiniteRange
  <1>2. IsFiniteSet(S)
    BY <1>1, FS_Subset
  <1>3. D = {t.task.deadline : t \in S}
    BY DEF CreatedDeadlines
  <1>4. \A t \in S : t.task.deadline \in Int
    BY <1>1 DEF TaskType, ExecType
  <1> HIDE DEF S
  <1>5. D = {f[t] : t \in S}
    BY <1>3
  <1> HIDE DEF f
  <1>6. IsFiniteSet({f[t] : t \in S})
    BY <1>2, FiniteValues
  <1> QED BY <1>3, <1>4, <1>5, <1>6

\* No created task is due after the day of the review, and one is due on it.
LEMMA ReviewAfterTasks ==
    ASSUME NEW list \in Seq(TaskType), NEW now \in Hours,
           NEW day, day = ReviewDue(list, now), NEW D, D = CreatedDeadlines(list)
    PROVE  /\ day \in Int /\ D \subseteq Int
           /\ \A d \in D : d < day + 24
           /\ D = {} => day >= ReviewDelay
           /\ D # {} => \E d \in D : day <= d
           /\ day < 0 => \A d \in D : d < 0
  <1>1. D \subseteq Int /\ IsFiniteSet(D)
    BY DeadlinesAre
  <1>2. now \in Nat /\ ReviewDelay \in Nat \ {0}
    BY ContentsAssumption
  <1>3. day = IF D = {} THEN now + ReviewDelay ELSE 24 * (Max(D) \div 24)
    BY DEF ReviewDue, resolve_review_due_at
  <1>4. CASE D = {}
    BY <1>2, <1>3, <1>4
  <1>5. CASE D # {}
    <2> DEFINE m == Max(D)
    <2>1. m \in D /\ m \in Int /\ \A d \in D : d <= m
      BY <1>1, <1>5, Extremes
    <2>2. day = 24 * (m \div 24)
      BY <1>3, <1>5
    <2> HIDE DEF m
    <2>3. day \in Int /\ day <= m /\ m < day + 24 /\ (day < 0 => m < 0)
      BY <2>1, <2>2
    <2>4. ASSUME NEW d \in D PROVE d < day + 24 /\ (day < 0 => d < 0)
      <3>1. d \in Int /\ d <= m
        BY <1>1, <2>1
      <3> QED BY <2>1, <2>3, <3>1
    <2> QED BY <1>1, <1>5, <2>1, <2>3, <2>4
  <1> QED BY <1>4, <1>5

\* What is pushed are the tasks of the list.
LEMMA PushedIs ==
    ASSUME NEW list \in Seq(ExecType), NEW refused, NEW r, r = Pushed(list, refused)
    PROVE  /\ r \in Seq(TaskType)
           /\ {x.task : x \in Range(r)} = Range(list)
  <1>1. DOMAIN list = 1..Len(list) /\ Len(list) \in Nat /\ \A i \in 1..Len(list) : list[i] \in ExecType
    OBVIOUS
  <1>2. r = [i \in 1..Len(list) |-> [task |-> list[i], created |-> i \notin refused]]
    BY <1>1 DEF Pushed
  <1>3. \A i \in 1..Len(list) : r[i] \in TaskType /\ r[i].task = list[i]
    BY <1>1, <1>2 DEF TaskType
  <1>4. r = [i \in 1..Len(list) |-> r[i]] /\ DOMAIN r = 1..Len(list)
    BY <1>2
  <1>5. r \in Seq(TaskType)
    BY <1>1, <1>3, <1>4
  <1>6. {x.task : x \in Range(r)} = {r[i].task : i \in 1..Len(list)}
    BY <1>4 DEF Range
  <1>7. {r[i].task : i \in 1..Len(list)} = Range(list)
    BY <1>1, <1>3 DEF Range
  <1> QED BY <1>5, <1>6, <1>7

-----------------------------------------------------------------------------
(* The steps *)

\* The scores of a diagnosis do not change once it is made.
LEMMA ScoredKept ==
    ASSUME UNCHANGED <<request, collectVars, scored, anomalies>>
    PROVE  /\ IsCollected' <=> IsCollected
           /\ IsScored' <=> IsScored
           /\ Active' = Active
  BY DEF collectVars, IsCollected, IsScored, Active

\* What collecting and diagnosing found is kept by every other step.
LEMMA LaterSteps ==
    ASSUME FiguresInv, [Next]_vars, ~Collect, ~Diagnose
    PROVE  /\ UNCHANGED <<request, collectVars, scored, anomalies>>
           /\ pc' = pc \/ (IsScored /\ pc' \in Phases \ {"collecting", "diagnosing"})
  <1>1. CASE AskCauses \/ Report
    BY <1>1 DEF AskCauses, Report, FiguresInv, Phases, collectVars
  <1>2. CASE Generate \/ \E i \in DOMAIN plans : Adopt(i)
    BY <1>2 DEF Generate, Adopt, FiguresInv, Phases, collectVars, diagnoseVars
  <1>3. CASE \E now \in Hours, pushRules \in PushSettings : Execute(now, pushRules)
    BY <1>3 DEF Execute, FiguresInv, Phases, collectVars, diagnoseVars
  <1>4. CASE (\E by \in {"collector", "request"} : TakeSnapshot(by)) \/ Complete
    BY <1>4 DEF TakeSnapshot, Complete, FiguresInv, Phases, collectVars, diagnoseVars
  <1>5. CASE UNCHANGED vars
    BY <1>5 DEF vars, collectVars, diagnoseVars
  <1> QED BY <1>1, <1>2, <1>3, <1>4, <1>5 DEF Next

\* Every step keeps the figures, the causes, the report, the plans, the tasks and
\* the tracking as ContentsInv describes them.
LEMMA StepFiguresInv ==
    ASSUME FiguresInv, [Next]_vars
    PROVE  FiguresInv'
  <1>1. CASE Collect
    <2>0. pc = "collecting" /\ scored = NoScore /\ anomalies = <<>>
      BY <1>1 DEF Collect, FiguresInv
    <2>1. UNCHANGED <<request, business, mode, scored, anomalies>>
      BY <1>1 DEF Collect, diagnoseVars
    <2>2. CASE pc' = "failed" /\ UNCHANGED <<profile, answered, values>>
      <3>1. IsCollected' <=> IsCollected
        BY <2>1, <2>2 DEF IsCollected, Active
      <3> QED BY <2>0, <2>1, <2>2, <3>1 DEF FiguresInv, Phases
    <2>3. CASE \E lost \in Losses :
                 /\ profile' = ("profile" \notin lost)
                 /\ answered' = Active.dims \ lost
                 /\ values' = Collected(business, answered', IF profile' THEN mode ELSE "hybrid")
                 /\ pc' = "diagnosing"
      <3>1. Active' = Active
        BY <2>1 DEF Active
      <3>2. IsCollected'
        BY <2>1, <2>3, <3>1 DEF IsCollected
      <3>3. profile' \in BOOLEAN
        BY <2>3
      <3> QED BY <2>0, <2>1, <2>3, <3>2, <3>3 DEF FiguresInv, Phases
    <2> QED BY <1>1, <2>2, <2>3 DEF Collect
  <1>2. CASE Diagnose
    <2>0. pc = "diagnosing" /\ IsCollected /\ scored = NoScore /\ anomalies = <<>>
      BY <1>2 DEF Diagnose, FiguresInv
    <2>1. UNCHANGED <<request, business, mode, profile, answered, values>>
      BY <1>2 DEF Diagnose, collectVars
    <2>2. Active' = Active /\ IsCollected'
      BY <2>0, <2>1 DEF IsCollected, Active
    <2>3. CASE profile /\ answered # {}
      <3>1. /\ scored' = Score(values, Active)
            /\ anomalies' = FindAnomalies(values, Active.inds)
            /\ pc' \in {"reporting", "asking"}
        BY <1>2, <2>3 DEF Diagnose
      <3>2. IsScored'
        BY <2>1, <2>2, <2>3, <3>1 DEF IsScored
      <3> QED BY <2>1, <2>2, <3>1, <3>2 DEF FiguresInv, Phases
    <2>4. CASE ~(profile /\ answered # {})
      <3>1. pc' = "failed" /\ UNCHANGED <<scored, anomalies>>
        BY <1>2, <2>4 DEF Diagnose
      <3> QED BY <2>0, <2>1, <2>2, <3>1 DEF FiguresInv, Phases
    <2> QED BY <2>3, <2>4
  <1>3. CASE ~Collect /\ ~Diagnose
    <2>1. /\ UNCHANGED <<request, collectVars, scored, anomalies>>
          /\ pc' = pc \/ (IsScored /\ pc' \in Phases \ {"collecting", "diagnosing"})
      BY <1>3, LaterSteps
    <2>2. (IsCollected' <=> IsCollected) /\ (IsScored' <=> IsScored)
      BY <2>1, ScoredKept
    <2> QED BY <2>1, <2>2 DEF FiguresInv, collectVars
  <1> QED BY <1>1, <1>2, <1>3

\* An answer explains what it was asked about, a vague one included.
LEMMA AnswerIsAsked ==
    ASSUME NEW named, NEW asked
    PROVE  normalize_llm_root_causes(named, asked) \subseteq asked
  BY DEF normalize_llm_root_causes

\* One round adds causes for anomalies that had none, and changes no other.
LEMMA RoundAdds ==
    ASSUME CausesInv, AskCauses
    PROVE  /\ \A c \in DOMAIN causes : c \in DOMAIN causes' /\ causes'[c] = causes[c]
           /\ \A c \in DOMAIN causes' : causes'[c] \in 1..(round + 1)
           /\ CausesAreOfAnomalies'
  <1>1. PICK named \in LlmRootCauses :
           LET found == normalize_llm_root_causes(named, AskedAbout)
           IN causes' = [c \in DOMAIN causes \cup found |->
                            IF c \in found THEN round + 1 ELSE causes[c]]
    BY DEF AskCauses
  <1> DEFINE found == normalize_llm_root_causes(named, AskedAbout)
  <1>2. found \subseteq Range(anomalies) \ DOMAIN causes
    BY AnswerIsAsked DEF AskedAbout
  <1> HIDE DEF found
  <1>3. causes' = [c \in DOMAIN causes \cup found |->
                      IF c \in found THEN round + 1 ELSE causes[c]]
    BY <1>1 DEF found
  <1>4. \A c \in DOMAIN causes : c \notin found
    BY <1>2
  <1>5. DOMAIN causes' = DOMAIN causes \cup found
    BY <1>3
  <1>6. anomalies' = anomalies
    BY DEF AskCauses
  <1>7. CausesAreOfAnomalies'
    BY <1>2, <1>5, <1>6 DEF CausesInv, CausesAreOfAnomalies
  <1>8. ASSUME NEW c \in DOMAIN causes
        PROVE  c \in DOMAIN causes' /\ causes'[c] = causes[c]
    BY <1>3, <1>4, <1>5
  <1>9. ASSUME NEW c \in DOMAIN causes' PROVE causes'[c] \in 1..(round + 1)
    <2>1. round \in Nat
      BY DEF CausesInv
    <2>2. CASE c \in found
      BY <1>3, <2>1, <2>2
    <2>3. CASE c \in DOMAIN causes /\ c \notin found
      <3>1. causes'[c] = causes[c] /\ causes[c] \in 1..round
        BY <1>8, <2>3 DEF CausesInv
      <3> QED BY <2>1, <3>1
    <2> QED BY <1>5, <2>2, <2>3
  <1> QED BY <1>7, <1>8, <1>9

\* Every other step leaves the causes alone.
LEMMA OthersKeepCauses ==
    ASSUME [Next]_vars, ~AskCauses
    PROVE  causes' = causes /\ round' = round
  BY DEF Next, Collect, Diagnose, Report, Generate, Adopt, Execute, TakeSnapshot, Complete,
         vars, collectVars, diagnoseVars, planVars, trackVars

LEMMA StepCausesInv ==
    ASSUME FiguresInv, CausesInv, [Next]_vars
    PROVE  CausesInv'
  <1>1. CASE AskCauses
    <2>1. /\ pc' \notin {"collecting", "diagnosing"} /\ round' = round + 1
          /\ pc' = "asking" => round' # 3
          /\ round \in 0..3 /\ round < 3
      BY <1>1 DEF AskCauses, CausesInv
    <2>2. round' \in 0..3 /\ (pc' = "asking" => round' < 3)
      BY <2>1
    <2>3. \A c \in DOMAIN causes' : causes'[c] \in 1..round'
      BY <1>1, <2>1, RoundAdds
    <2> QED BY <1>1, <2>1, <2>2, <2>3, RoundAdds DEF CausesInv
  <1>2. CASE Collect \/ Diagnose
    <2>1. causes = <<>> /\ round = 0 /\ causes' = causes /\ round' = round
      BY <1>2 DEF Collect, Diagnose, CausesInv, diagnoseVars
    <2>2. DOMAIN causes = {}
      BY <2>1
    <2> QED BY <2>1, <2>2 DEF CausesInv, CausesAreOfAnomalies
  <1>3. CASE ~AskCauses /\ ~Collect /\ ~Diagnose
    <2>1. causes' = causes /\ round' = round
      BY <1>3, OthersKeepCauses
    <2>2. anomalies' = anomalies /\ (pc' \in {"collecting", "diagnosing"} => pc' = pc)
      BY <1>3, LaterSteps
    <2>3. pc' = "asking" => pc = "asking"
      BY <1>3 DEF Next, Report, Generate, Adopt, Execute, TakeSnapshot, Complete, vars
    <2> QED BY <2>1, <2>2, <2>3 DEF CausesInv, CausesAreOfAnomalies
  <1> QED BY <1>1, <1>2, <1>3

LEMMA StepReportInv ==
    ASSUME FiguresInv, ReportInv, [Next]_vars
    PROVE  ReportInv'
  <1>1. CASE Collect \/ Diagnose
    <2>1. report = <<>> /\ report' = report
      BY <1>1 DEF Collect, Diagnose, ReportInv, diagnoseVars
    <2> QED BY <2>1 DEF ReportInv
  <1>2. CASE Report
    <2>1. IsScored /\ UNCHANGED <<request, collectVars, scored, anomalies>>
      BY <1>2, LaterSteps DEF Report, FiguresInv, Phases
    <2>2. /\ report'.health = scored.health /\ report'.scores = scored.scores
          /\ report'.anomalies = BySeverity(anomalies, values)
      BY <1>2 DEF Report, build_diagnosis_report
    <2>3. IsScored'
      BY <2>1, ScoredKept
    <2>4. pc' = "generating"
      BY <1>2 DEF Report
    <2> QED BY <2>1, <2>2, <2>3, <2>4 DEF ReportInv, collectVars
  <1>3. CASE ~Collect /\ ~Diagnose /\ ~Report
    <2>1. UNCHANGED <<request, collectVars, scored, anomalies>>
      BY <1>3, LaterSteps
    <2>2. IsScored' <=> IsScored
      BY <2>1, ScoredKept
    <2>3. report' = report
      BY <1>3 DEF Next, AskCauses, Generate, Adopt, Execute, TakeSnapshot, Complete, vars, diagnoseVars
    <2>4. pc' \in {"collecting", "diagnosing", "asking", "reporting"}
            => pc \in {"collecting", "diagnosing", "asking", "reporting"}
      BY <1>3 DEF Next, AskCauses, Generate, Adopt, Execute, TakeSnapshot, Complete, vars
    <2> QED BY <2>1, <2>2, <2>3, <2>4 DEF ReportInv, collectVars
  <1> QED BY <1>1, <1>2, <1>3

LEMMA StepPlansInv ==
    ASSUME FiguresInv, PlansInv, [Next]_vars
    PROVE  PlansInv'
  <1>1. CASE Collect \/ Diagnose
    <2>1. UNCHANGED <<plans, adopted>> /\ plans = <<>>
      BY <1>1 DEF Collect, Diagnose, PlansInv, planVars
    <2>2. pc' \in {"diagnosing", "reporting", "asking", "failed"}
      BY <1>1 DEF Collect, Diagnose
    <2> QED BY <2>1, <2>2 DEF PlansInv
  <1>2. CASE Generate
    <2>0. anomalies \in Seq(Codes) /\ anomalies' = anomalies /\ adopted' = adopted
      <3>1. business \in Businesses /\ IsScored
        BY <1>2 DEF Generate, FiguresInv, Phases
      <3> QED BY <1>2, <3>1, AnomaliesAre DEF Generate, diagnoseVars
    <2>p. plans = <<>> /\ adopted = 0
      BY <1>2 DEF Generate, PlansInv
    <2>1. CASE /\ plans' = IF anomalies = <<>> THEN <<>> ELSE plans
               /\ pc' = IF anomalies = <<>> THEN "completed" ELSE "failed"
      <3>1. plans' = <<>>
        BY <2>1, <2>p
      <3>2. pc' = "completed" => RulesAreInPlans'
        <4>1. CASE anomalies = <<>>
          <5>1. Range(collect_mandatory_task_specs(anomalies)) = UNION {Range(RuleTasks(c)) : c \in Range(anomalies)}
            BY <2>0, MandatoryIs
          <5>2. Range(anomalies) = {}
            BY <2>0, <4>1, RangeOf
          <5>3. Range(collect_mandatory_task_specs(anomalies)) = {}
            BY <5>1, <5>2
          <5> QED BY <2>0, <3>1, <5>3 DEF RulesAreInPlans
        <4>2. CASE anomalies # <<>>
          BY <2>1, <4>2
        <4> QED BY <4>1, <4>2
      <3> QED BY <2>0, <2>1, <2>p, <3>1, <3>2 DEF PlansInv
    <2>2. CASE /\ anomalies # <<>>
               /\ \E answer \in Answers : plans' = generate_solutions(answer, anomalies)
               /\ pc' = IF plans' = <<>> THEN "completed" ELSE "waiting_adoption"
      <3>1. PICK answer \in Answers : plans' = generate_solutions(answer, anomalies)
        BY <2>2
      <3>2. /\ plans' \in Seq(APlan)
            /\ \A i, k \in 1..Len(plans') : i < k => Before(plans'[i], plans'[k])
            /\ CoversAll(plans', anomalies) /\ CouponsOf(plans', anomalies)
        BY <2>0, <3>1, Generated
      <3>3. RulesAreInPlans'
        BY <2>0, <3>2 DEF RulesAreInPlans, CoversAll, CouponsOf
      <3> QED BY <2>0, <2>2, <2>p, <3>2, <3>3 DEF PlansInv
    <2> QED BY <1>2, <2>1, <2>2 DEF Generate
  <1>3. CASE ~Collect /\ ~Diagnose /\ ~Generate
    <2>1. anomalies' = anomalies
      BY <1>3, LaterSteps
    <2>2. plans' = plans
      BY <1>3 DEF Next, AskCauses, Report, Adopt, Execute, TakeSnapshot, Complete, vars, planVars
    <2>3. RulesAreInPlans' <=> RulesAreInPlans
      BY <2>1, <2>2 DEF RulesAreInPlans
    <2>4. CASE \E i \in DOMAIN plans : Adopt(i)
      <3>1. PICK i \in DOMAIN plans : Adopt(i)
        BY <2>4
      <3>2. /\ adopted' = i /\ i \in 0..Len(plans) /\ i # 0
            /\ pc = "waiting_adoption" /\ pc' = "executing"
        BY <3>1 DEF Adopt, PlansInv
      <3> QED BY <2>2, <2>3, <3>2 DEF PlansInv
    <2>5. CASE ~\E i \in DOMAIN plans : Adopt(i)
      <3>1. adopted' = adopted
        BY <1>3, <2>5 DEF Next, AskCauses, Report, Execute, TakeSnapshot, Complete, vars, planVars
      <3>2. /\ pc' \in {"executing", "waiting_track"} => pc \in {"executing", "waiting_track"}
            /\ pc' \in {"collecting", "diagnosing", "asking", "reporting", "generating"}
                 => pc \in {"collecting", "diagnosing", "asking", "reporting", "generating"}
            /\ pc' \in {"waiting_adoption", "executing", "waiting_track", "completed"}
                 => pc \in {"waiting_adoption", "executing", "waiting_track", "completed"}
        BY <1>3, <2>5 DEF Next, AskCauses, Report, Execute, TakeSnapshot, Complete, vars
      <3> QED BY <2>2, <2>3, <3>1, <3>2 DEF PlansInv
    <2> QED BY <2>4, <2>5
  <1> QED BY <1>1, <1>2, <1>3

\* What an execution pushes is well-formed, and covers the steps of its plan.
LEMMA ExecuteIs ==
    ASSUME FiguresInv, PlansInv, TasksInv, NEW now \in Hours, NEW pushRules \in PushSettings, Execute(now, pushRules)
    PROVE  /\ tasks' \in Seq(TaskType)
           /\ \A x \in Range(tasks') : Improves(x.task)
           /\ pc' \in {"waiting_track", "failed"}
           /\ pc' = "failed" => due' = Never
           /\ pc' = "waiting_track" =>
                /\ due' = ReviewDue(tasks', now)
                /\ \A s \in Range(plans[adopted].steps) : \E x \in Range(tasks') : x.task.says = s.says
                /\ \A x \in Range(tasks') : x.task.deadline < 0 =>
                      \E s \in Range(plans[adopted].steps) : IsPast(s, x.task)
  <1> DEFINE ruled == Ruled(now, pushRules)
             planned == build_execution_tasks(plans[adopted], anomalies, values, now)
             messages == pushRules /\ Range(anomalies) \cap RuleMessages # {}
  <1>1. business \in Businesses /\ IsScored /\ pc = "executing" /\ due = Never
    BY DEF Execute, FiguresInv, Phases, TasksInv
  <1>2. plans[adopted] \in APlan /\ now \in Nat
    <2>1. adopted # 0 /\ adopted \in 0..Len(plans) /\ plans \in Seq(APlan)
      BY <1>1 DEF PlansInv
    <2>2. now \in Nat
      BY ContentsAssumption
    <2> QED BY <2>1, <2>2
  <1>3. ruled \in Seq(ExecType) /\ \A x \in Range(ruled) : Improves(x) /\ x.deadline >= 0
    <2>1. CASE pushRules
      BY <1>1, <1>2, <2>1, RuledTasks DEF Ruled
    <2>2. CASE ~pushRules
      <3> DEFINE none == <<>>
      <3>1. none \in Seq(ExecType)
        OBVIOUS
      <3>2. ruled = none
        BY <2>2 DEF Ruled
      <3>3. Range(none) = {}
        BY <3>1, RangeOf
      <3> QED BY <3>1, <3>2, <3>3
    <2> QED BY <2>1, <2>2
  <1>4. /\ planned \in Seq(ExecType) /\ \A x \in Range(planned) : Improves(x)
        /\ \A s \in Range(plans[adopted].steps) : \E x \in Range(planned) : x.says = s.says
        /\ \A x \in Range(planned) : x.deadline < 0 =>
              \E s \in Range(plans[adopted].steps) : IsPast(s, x)
    BY <1>1, <1>2, PlannedTasks
  <1>5. \/ /\ \E refused : tasks' = Pushed(ruled, refused)
           /\ pc' = "failed" /\ UNCHANGED due
        \/ /\ \E refused : tasks' = Pushed(ruled \o planned, refused)
           /\ \/ pc' = "waiting_track" /\ due' = ReviewDue(tasks', now)
              \/ pc' = "failed" /\ UNCHANGED due
    BY DEF Execute
  <1> HIDE DEF ruled, planned, messages
  <1>6. /\ ruled \o planned \in Seq(ExecType)
        /\ Range(ruled \o planned) = Range(ruled) \cup Range(planned)
    BY <1>3, <1>4, RangeOf
  <1>7. CASE \E refused : tasks' = Pushed(ruled, refused) /\ pc' = "failed" /\ UNCHANGED due
    <2>1. PICK refused : tasks' = Pushed(ruled, refused) /\ pc' = "failed" /\ UNCHANGED due
      BY <1>7
    <2>2. tasks' \in Seq(TaskType) /\ {x.task : x \in Range(tasks')} = Range(ruled)
      BY <1>3, <2>1, PushedIs
    <2> QED BY <1>1, <1>3, <2>1, <2>2
  <1>8. CASE /\ \E refused : tasks' = Pushed(ruled \o planned, refused)
             /\ \/ pc' = "waiting_track" /\ due' = ReviewDue(tasks', now)
                \/ pc' = "failed" /\ UNCHANGED due
    <2>1. PICK refused : tasks' = Pushed(ruled \o planned, refused)
      BY <1>8
    <2>2. tasks' \in Seq(TaskType) /\ {x.task : x \in Range(tasks')} = Range(ruled \o planned)
      BY <1>6, <2>1, PushedIs
    <2>3. \A x \in Range(tasks') : Improves(x.task)
      BY <1>3, <1>4, <1>6, <2>2
    <2>4. \A s \in Range(plans[adopted].steps) : \E x \in Range(tasks') : x.task.says = s.says
      BY <1>4, <1>6, <2>2
    <2>5. \A x \in Range(ruled \o planned) : x.deadline < 0 =>
             \E s \in Range(plans[adopted].steps) : IsPast(s, x)
      <3>1. \A x \in Range(ruled) : ~(x.deadline < 0)
        <4>1. ASSUME NEW x \in Range(ruled) PROVE ~(x.deadline < 0)
          <5>1. x \in ExecType /\ x.deadline >= 0
            BY <1>3, RangeOf
          <5> QED BY <5>1 DEF ExecType
        <4> QED BY <4>1
      <3> QED BY <1>4, <1>6, <3>1
    <2>6. \A x \in Range(tasks') : x.task.deadline < 0 =>
             \E s \in Range(plans[adopted].steps) : IsPast(s, x.task)
      <3>1. \A x \in Range(tasks') : x.task \in Range(ruled \o planned)
        BY <2>2
      <3> QED BY <2>5, <3>1
    <2> QED BY <1>1, <1>8, <2>2, <2>3, <2>4, <2>6
  <1> QED BY <1>5, <1>7, <1>8

LEMMA CriteriaByTask == CriteriaImprove <=> \A x \in Range(tasks) : Improves(x.task)
  BY DEF CriteriaImprove, Improves

LEMMA StepTasksInv ==
    ASSUME FiguresInv, PlansInv, TasksInv, [Next]_vars
    PROVE  TasksInv'
  <1>1. CASE \E now \in Hours, pushRules \in PushSettings : Execute(now, pushRules)
    <2>1. PICK now \in Hours, pushRules \in PushSettings : Execute(now, pushRules)
      BY <1>1
    <2>2. UNCHANGED <<values, plans, adopted, anomalies>>
      BY <2>1 DEF Execute, collectVars, diagnoseVars
    <2>3. /\ tasks' \in Seq(TaskType)
          /\ \A x \in Range(tasks') : Improves(x.task)
          /\ pc' \in {"waiting_track", "failed"}
          /\ pc' = "failed" => due' = Never
          /\ pc' = "waiting_track" =>
               /\ due' = ReviewDue(tasks', now)
               /\ \A s \in Range(plans[adopted].steps) : \E x \in Range(tasks') : x.task.says = s.says
               /\ \A x \in Range(tasks') : x.task.deadline < 0 =>
                     \E s \in Range(plans[adopted].steps) : IsPast(s, x.task)
      BY <2>1, ExecuteIs
    <2>4. CriteriaImprove'
      BY <2>2, <2>3 DEF CriteriaImprove, Improves
    <2>5. due' \in Int /\ ReviewDay'
      <3>1. CASE pc' = "failed"
        BY <2>3, <3>1 DEF ReviewDay, Never
      <3>2. CASE pc' = "waiting_track"
        <4> DEFINE D == CreatedDeadlines(tasks')
                   C == {x \in Range(tasks') : x.created}
                   S == Range(plans[adopted].steps)
        <4>1. /\ due' \in Int /\ D \subseteq Int
              /\ \A d \in D : d < due' + 24
              /\ D = {} => due' >= ReviewDelay
              /\ D # {} => \E d \in D : due' <= d
              /\ due' < 0 => \A d \in D : d < 0
          BY <2>3, <3>2, ReviewAfterTasks
        <4>2. D = {x.task.deadline : x \in C}
          BY DEF CreatedDeadlines
        <4>3. \A x \in C : x.task.deadline < 0 => \E s \in S : IsPast(s, x.task)
          BY <2>3, <3>2
        <4>4. ReviewDay' <=> (due' # Never =>
                 /\ \A x \in C : x.task.deadline < due' + 24
                 /\ IF C = {} THEN due' >= ReviewDelay ELSE \E x \in C : due' <= x.task.deadline
                 /\ due' < 0 => \A x \in C : \E s \in S : IsPast(s, x.task))
          BY <2>2 DEF ReviewDay, Created, IsPast, Never
        <4> HIDE DEF D, C, S
        <4>5. /\ \A x \in C : x.task.deadline < due' + 24
              /\ C = {} => due' >= ReviewDelay
              /\ C # {} => \E x \in C : due' <= x.task.deadline
              /\ due' < 0 => \A x \in C : x.task.deadline < 0
          BY <4>1, <4>2
        <4> QED BY <4>1, <4>3, <4>4, <4>5
      <3> QED BY <2>3, <3>1, <3>2
    <2>6. ASSUME pc' = "waiting_track", Len(plans) = 1 PROVE RulesAreInTasks'
      <3>1. adopted = 1 /\ RulesAreInPlans /\ DOMAIN plans = {1}
        <4>1. pc = "executing"
          BY <2>1 DEF Execute
        <4>2. adopted # 0 /\ adopted \in 0..Len(plans) /\ plans \in Seq(APlan) /\ RulesAreInPlans
          BY <4>1 DEF PlansInv
        <4> QED BY <2>6, <4>2
      <3>2. ASSUME NEW t \in Range(collect_mandatory_task_specs(anomalies))
            PROVE  \E x \in Range(tasks') : Mentions(x.task.says, t.name)
        <4>1. \E s \in Range(plans[1].steps) : Mentions(s.says, t.name)
          BY <3>1 DEF RulesAreInPlans, mandatory_task_is_covered
        <4> QED BY <2>3, <2>6, <3>1, <4>1
      <3> QED BY <2>2, <3>2 DEF RulesAreInTasks
    <2> QED BY <2>2, <2>3, <2>4, <2>5, <2>6 DEF TasksInv, Phases
  <1>2. CASE ~\E now \in Hours, pushRules \in PushSettings : Execute(now, pushRules)
    <2>1. UNCHANGED <<tasks, due>>
      BY <1>2 DEF Next, Collect, Diagnose, AskCauses, Report, Generate, Adopt, TakeSnapshot, Complete, vars, planVars
    <2>2. ReviewDay'
      <3>1. CASE Generate \/ \E i \in DOMAIN plans : Adopt(i)
        <4>1. due = Never
          BY <3>1 DEF Generate, Adopt, TasksInv, Phases
        <4> QED BY <2>1, <4>1 DEF ReviewDay
      <3>2. CASE ~Generate /\ ~\E i \in DOMAIN plans : Adopt(i)
        <4>1. UNCHANGED <<plans, adopted>>
          BY <1>2, <3>2 DEF Next, Collect, Diagnose, AskCauses, Report, TakeSnapshot, Complete, vars, planVars
        <4> QED BY <2>1, <4>1 DEF ReviewDay, Created, TasksInv
      <3> QED BY <3>1, <3>2
    <2>3. CASE Collect \/ Diagnose
      <3>1. tasks = <<>> /\ due = Never
        BY <2>3 DEF Collect, Diagnose, TasksInv, Phases
      <3>2. Range(tasks) = {}
        BY <3>1, RangeOf DEF TasksInv
      <3>3. CriteriaImprove'
        BY <2>1, <3>2 DEF CriteriaImprove
      <3>4. pc' # "waiting_track"
        BY <2>3 DEF Collect, Diagnose
      <3> QED BY <2>1, <2>2, <3>1, <3>3, <3>4 DEF TasksInv
    <2>4. CASE ~Collect /\ ~Diagnose
      <3>1. UNCHANGED <<values, anomalies>>
        BY <2>4, LaterSteps DEF collectVars
      <3>2. CriteriaImprove' <=> CriteriaImprove
        BY <2>1, <3>1 DEF CriteriaImprove
      <3>3. RulesAreInTasks' <=> RulesAreInTasks
        BY <2>1, <3>1 DEF RulesAreInTasks
      <3>4. /\ pc' \in Phases \ {"waiting_track", "completed", "failed"} =>
                 pc \in Phases \ {"waiting_track", "completed", "failed"}
            /\ pc' = "waiting_track" => pc = "waiting_track" /\ plans' = plans
        BY <1>2, <2>4 DEF Next, AskCauses, Report, Generate, Adopt, TakeSnapshot, Complete, vars, planVars, Phases
      <3> QED BY <2>1, <2>2, <3>2, <3>3, <3>4 DEF TasksInv
    <2> QED BY <2>3, <2>4
  <1> QED BY <1>1, <1>2

\* What a snapshot measures: a score from 0 to 1000, better where nothing is worse.
LEMMA ScoreOfSnapshot ==
    ASSUME request \in Requests, NEW by \in {"collector", "request"},
           NEW b \in RawType, NEW lost
    PROVE  /\ SnapshotScore(b, lost, Scope(by)) \in 0..1000
           /\ \A x \in RawType : NoWorse(b, x, Scope(by)) =>
                SnapshotScore(b, lost, Scope(by)) <= SnapshotScore(x, lost, Scope(by))
  <1> DEFINE scope == Scope(by)
             m == IF "profile" \in lost THEN "hybrid" ELSE mode
             dims == scope.dims \ lost
             tenths(x) == Tenths(Score(Collected(x, dims, m), scope).health)
  <1>1. scope.dims \in SUBSET Dimensions /\ scope.dims # {}
    BY ActiveIs, EverythingIs DEF Scope
  <1>2. \A x : SnapshotScore(x, lost, scope) = tenths(x)
    BY DEF SnapshotScore
  <1> HIDE DEF scope, m, dims
  <1>3. /\ tenths(b) \in Nat /\ tenths(b) <= 1000
        /\ \A x \in RawType : NoWorse(b, x, scope) => tenths(b) <= tenths(x)
    BY <1>1, SnapshotScores
  <1> HIDE DEF tenths
  <1>4. tenths(b) \in 0..1000
    BY <1>3
  <1> QED BY <1>2, <1>3, <1>4 DEF scope

LEMMA FiniteTwo == \A a, b : IsFiniteSet({a, b})
  <1>1. ASSUME NEW a, NEW b PROVE IsFiniteSet({a, b})
    <2> DEFINE none == {}
    <2>1. IsFiniteSet(none)
      BY FS_EmptySet
    <2>2. none \cup {a, b} = {a, b}
      OBVIOUS
    <2> HIDE DEF none
    <2>3. IsFiniteSet(none \cup {a, b})
      BY <2>1, FinitePair
    <2> QED BY <2>2, <2>3
  <1> QED BY <1>1

LEMMA SnapshotIs ==
    ASSUME NEW kind \in {"measured", "closing"}, NEW by \in {"collector", "request", "review"},
           NEW score \in 0..1000, NEW figures \in RawType \cup {<<>>}, NEW lost \in SUBSET Questions
    PROVE  Snapshot(kind, by, score, figures, lost) \in SnapshotType
  BY DEF Snapshot, SnapshotType

\* The change over some snapshots, and the achievement it counts as.
LEMMA ChangeIs ==
    ASSUME NEW list \in Seq(SnapshotType)
    PROVE  Change(list) \in Int /\ Achievement(list) \in 0..1000
  <1>1. Change(list) \in Int
    <2>1. CASE Len(list) >= 2
      <3>1. Len(list) \in 1..Len(list) /\ 1 \in 1..Len(list)
        BY <2>1
      <3>2. list[Len(list)] \in SnapshotType /\ list[1] \in SnapshotType
        BY <3>1
      <3>3. \A x \in SnapshotType : x.score \in Int
        <4>1. \A x \in SnapshotType : x.score \in 0..1000
          BY DEF SnapshotType
        <4>2. \A n \in 0..1000 : n \in Int
          OBVIOUS
        <4> HIDE DEF SnapshotType
        <4> QED BY <4>1, <4>2
      <3>4. list[Len(list)].score \in Int /\ list[1].score \in Int
        BY <3>2, <3>3
      <3> QED BY <2>1, <3>4 DEF Change, Last
    <2>2. CASE ~(Len(list) >= 2)
      BY <2>2 DEF Change
    <2> QED BY <2>1, <2>2
  <1>2. CASE Len(list) >= 2
    <2> DEFINE c == 500 + 2 * Change(list)
               A == {500, c}
               m == Max(A)
               B == {1000, m}
    <2>0. c \in Int
      BY <1>1
    <2>1. Achievement(list) = Min(B)
      BY <1>2 DEF Achievement
    <2> HIDE DEF c
    <2>2. IsFiniteSet(A)
      BY FiniteTwo
    <2>3. A \subseteq Int /\ A # {} /\ 500 \in A
      BY <2>0
    <2> HIDE DEF A
    <2>4. m \in Int /\ 500 <= m
      BY <2>2, <2>3, Extremes
    <2> HIDE DEF m
    <2>5. IsFiniteSet(B)
      BY ZenonT(60), FiniteTwo
    <2>6. B \subseteq Int /\ B # {} /\ 1000 \in B /\ (\A x \in B : 500 <= x)
      BY <2>4
    <2> HIDE DEF B
    <2>7. Min(B) \in Int /\ 500 <= Min(B) /\ Min(B) <= 1000
      BY ZenonT(60), <2>5, <2>6, Extremes
    <2> DEFINE x == Min(B)
    <2>8. x \in 0..1000
      <3>1. x \in Int /\ 500 <= x /\ x <= 1000
        BY <2>7
      <3> HIDE DEF x
      <3> QED BY <3>1
    <2> QED BY <1>1, <2>1, <2>8
  <1>3. CASE ~(Len(list) >= 2)
    BY <1>1, <1>3 DEF Achievement
  <1> QED BY <1>2, <1>3

LEMMA StepTrackInv ==
    ASSUME FiguresInv, TrackInv, [Next]_vars
    PROVE  TrackInv'
  <1>s. snapshots \in Seq(SnapshotType)
    BY DEF TrackInv, SnapshotType
  <1>l. Len(snapshots) \in Nat /\ DOMAIN snapshots = 1..Len(snapshots)
        /\ \A i \in 1..Len(snapshots) : snapshots[i] \in SnapshotType
    BY <1>s
  <1>m. UNCHANGED <<request, mode>>
    BY DEF Next, Collect, Diagnose, AskCauses, Report, Generate, Adopt, Execute, TakeSnapshot, Complete,
           vars, collectVars
  <1>k. \A i : (IsMeasured(snapshots[i]))' <=> IsMeasured(snapshots'[i])
    BY <1>m DEF IsMeasured, SnapshotScore, Scope, Active, Everything
  <1>1. CASE \E by \in {"collector", "request"} : TakeSnapshot(by)
    <2>1. PICK by \in {"collector", "request"} : TakeSnapshot(by)
      BY <1>1
    <2>2. PICK b \in Outcomes, lost \in Losses :
             LET score == SnapshotScore(b, lost, Scope(by))
             IN /\ snapshots' = Append(snapshots, Snapshot("measured", by, score, b, lost))
                /\ current' = IF by = "request" THEN score ELSE current
      BY <2>1 DEF TakeSnapshot
    <2> DEFINE score == SnapshotScore(b, lost, Scope(by))
               x == Snapshot("measured", by, score, b, lost)
    <2>3. b \in RawType /\ lost \in SUBSET Questions
      BY ContentsAssumption DEF RawType
    <2>4. score \in 0..1000
      BY ZenonT(60), <2>3, ScoreOfSnapshot DEF FiguresInv
    <2>5. /\ snapshots' = Append(snapshots, x) /\ current' \in {score, current}
          /\ pc = "waiting_track" /\ pc' = "waiting_track" /\ review' = review
      BY <2>1, <2>2 DEF TakeSnapshot
    <2>6. x = [kind |-> "measured", by |-> by, score |-> score, figures |-> b, lost |-> lost]
      BY DEF Snapshot
    <2>7. IsMeasured(x)
      BY <2>3, <2>6 DEF IsMeasured
    <2> HIDE DEF score
    <2>8. x \in SnapshotType
      BY SMTT(30), <2>3, <2>4, SnapshotIs
    <2> HIDE DEF x
    <2>9. snapshots' \in Seq(SnapshotType) /\ Len(snapshots') = Len(snapshots) + 1
          /\ \A i \in 1..Len(snapshots') : snapshots'[i] = IF i = Len(snapshots') THEN x ELSE snapshots[i]
      BY <1>s, <1>l, <2>5, <2>8
    <2>10. ASSUME NEW i \in 1..Len(snapshots') PROVE snapshots'[i].kind = "measured" /\ IsMeasured(snapshots'[i])
      <3>1. CASE i = Len(snapshots')
        BY <2>7, <2>9, <3>1 DEF IsMeasured
      <3>2. CASE i # Len(snapshots')
        <4>1. i \in 1..Len(snapshots) /\ snapshots'[i] = snapshots[i]
          BY <1>l, <2>9, <3>2
        <4>2. snapshots[i].kind = "measured" /\ IsMeasured(snapshots[i])
          BY <2>5, <4>1 DEF TrackInv
        <4> QED BY <4>1, <4>2
      <3> QED BY <3>1, <3>2
    <2>11. \A i \in 1..Len(snapshots') : snapshots'[i].kind = "measured" /\ (IsMeasured(snapshots[i]))'
      BY <1>k, <2>10
    <2>12. review = NoReview /\ current' \in 0..1000 \cup {Never} /\ review.achievement \in 0..1000
      BY <2>4, <2>5 DEF TrackInv
    <2> QED BY <2>5, <2>9, <2>11, <2>12 DEF TrackInv, SnapshotType
  <1>2. CASE Complete
    <2>1. pc = "waiting_track" /\ pc' = "completed" /\ review = NoReview
          /\ \A i \in 1..Len(snapshots) : snapshots[i].kind = "measured" /\ IsMeasured(snapshots[i])
      BY <1>2 DEF Complete, TrackInv
    <2>2. CASE UNCHANGED trackVars
      BY <1>k, <2>1, <2>2 DEF TrackInv, trackVars
    <2>3. CASE LET closing == Snapshot("closing", "review", ClosingScore, <<>>, {})
                   list == Append(snapshots, closing)
               IN /\ snapshots' = list
                  /\ current' = IF snapshots # <<>> THEN closing.score ELSE current
                  /\ review' = [trend |-> BaseTrend(list), change |-> Change(list),
                                achievement |-> Achievement(list),
                                saved |-> Achievement(list) >= 500]
      <3> DEFINE closing == Snapshot("closing", "review", ClosingScore, <<>>, {})
      <3>1. /\ snapshots' = Append(snapshots, closing)
            /\ current' \in {closing.score, current}
            /\ review' = [trend |-> BaseTrend(snapshots'), change |-> Change(snapshots'),
                          achievement |-> Achievement(snapshots'),
                          saved |-> Achievement(snapshots') >= 500]
        BY <2>3
      <3>2. ClosingScore \in 0..1000 /\ (snapshots # <<>> => ClosingScore = snapshots[Len(snapshots)].score)
        <4>1. CASE snapshots # <<>>
          <5>1. ClosingScore = snapshots[Len(snapshots)].score
            BY <4>1 DEF ClosingScore, Last
          <5>2. Len(snapshots) \in 1..Len(snapshots)
            BY <1>s, <1>l, <4>1
          <5> QED BY ZenonT(60), <1>l, <5>1, <5>2 DEF SnapshotType
        <4>2. CASE snapshots = <<>>
          <5>1. ClosingScore = IF current # Never THEN current ELSE 0
            BY <4>2 DEF ClosingScore, ClosingScoreStale
          <5> QED BY <4>2, <5>1 DEF TrackInv
        <4> QED BY <4>1, <4>2
      <3>3. closing = [kind |-> "closing", by |-> "review", score |-> ClosingScore, figures |-> <<>>, lost |-> {}]
        BY DEF Snapshot
      <3> HIDE DEF closing
      <3>4. closing \in SnapshotType /\ closing.kind = "closing" /\ closing.score = ClosingScore
        BY <3>2, <3>3 DEF SnapshotType
      <3>5. snapshots' \in Seq(SnapshotType) /\ Len(snapshots') = Len(snapshots) + 1
            /\ \A i \in 1..Len(snapshots') : snapshots'[i] = IF i = Len(snapshots') THEN closing ELSE snapshots[i]
        BY <1>s, <1>l, <3>1, <3>4
      <3>6. ASSUME NEW i \in 1..Len(snapshots'), i < Len(snapshots')
            PROVE  snapshots'[i].kind = "measured" /\ IsMeasured(snapshots'[i])
        <4>1. i \in 1..Len(snapshots) /\ snapshots'[i] = snapshots[i]
          BY <1>l, <3>5, <3>6
        <4> QED BY <2>1, <4>1
      <3>7. snapshots'[Len(snapshots')] = closing
        BY <1>l, <3>5
      <3>8. \A i \in 1..Len(snapshots') :
               /\ i < Len(snapshots') => snapshots'[i].kind = "measured"
               /\ snapshots'[i].kind = "measured" => (IsMeasured(snapshots[i]))'
        <4>1. ASSUME NEW i \in 1..Len(snapshots'), i = Len(snapshots') PROVE snapshots'[i].kind # "measured"
          BY <3>4, <3>7, <4>1
        <4>2. \A i \in 1..Len(snapshots') : i < Len(snapshots') \/ i = Len(snapshots')
          BY <1>l, <3>5
        <4> QED BY <1>k, <3>6, <4>1, <4>2
      <3>9. current' \in 0..1000 \cup {Never}
        <4>1. current \in 0..1000 \cup {Never} /\ closing.score \in 0..1000
          BY <3>2, <3>4 DEF TrackInv
        <4>2. current' = closing.score \/ current' = current
          BY <3>1
        <4> HIDE DEF closing
        <4>3. CASE current' = closing.score
          BY ONLY <4>1, <4>3
        <4>4. CASE current' = current
          BY ONLY <4>1, <4>4
        <4> QED BY <4>2, <4>3, <4>4
      <3>10. review'.achievement \in 0..1000
        <4>1. Achievement(snapshots') \in 0..1000
          BY <3>5, ChangeIs
        <4> DEFINE a == Achievement(snapshots')
                   t == BaseTrend(snapshots')
                   c == Change(snapshots')
                   good == a >= 500
        <4>2. review' = [trend |-> t, change |-> c, achievement |-> a, saved |-> good]
          BY <3>1
        <4> HIDE DEF a, t, c, good
        <4>3. review'.achievement = a
          BY <4>2
        <4> QED BY <4>1, <4>3 DEF a
      <3>11. review'.trend = BaseTrend(snapshots)' /\ review'.change = Change(snapshots)'
        BY <3>1
      <3>12. Len(snapshots') >= 2 => Last(snapshots').score = snapshots'[Len(snapshots') - 1].score
        <4>1. ASSUME Len(snapshots') >= 2 PROVE Last(snapshots').score = snapshots'[Len(snapshots') - 1].score
          <5>0. Len(snapshots') = Len(snapshots) + 1
            BY <3>5
          <5>1. snapshots # <<>> /\ Len(snapshots') - 1 = Len(snapshots) /\ Len(snapshots) \in 1..Len(snapshots')
                /\ Len(snapshots) # Len(snapshots')
            <6> DEFINE n == Len(snapshots)
                       k == Len(snapshots')
            <6>1. n \in Nat /\ k = n + 1 /\ k >= 2
              BY <1>l, <4>1, <5>0
            <6>2. snapshots = <<>> => n = 0
              OBVIOUS
            <6> HIDE DEF n, k
            <6>3. snapshots # <<>> /\ k - 1 = n /\ n \in 1..k /\ n # k
              BY <6>1, <6>2
            <6> QED BY <6>3 DEF n, k
          <5>2. Last(snapshots').score = ClosingScore
            BY <3>4, <3>7 DEF Last
          <5> QED BY <3>2, <3>5, <5>1, <5>2
        <4> QED BY <4>1
      <3> QED BY SMTT(30), <2>1, <3>5, <3>8, <3>9, <3>10, <3>11, <3>12 DEF TrackInv, SnapshotType
    <2> QED BY <1>2, <2>2, <2>3 DEF Complete
  <1>3. CASE ~(\E by \in {"collector", "request"} : TakeSnapshot(by)) /\ ~Complete
    <2>1. UNCHANGED trackVars
      BY <1>3 DEF Next, Collect, Diagnose, AskCauses, Report, Generate, Adopt, Execute, vars, trackVars
    <2>2. pc = "completed" => pc' = "completed"
      BY <1>3 DEF Next, Collect, Diagnose, AskCauses, Report, Generate, Adopt, Execute, vars
    <2>3. pc' = "completed" => pc = "completed" \/ pc = "generating"
      BY <1>3 DEF Next, Collect, Diagnose, AskCauses, Report, Generate, Adopt, Execute, vars
    <2> QED BY <1>k, <2>1, <2>2 DEF TrackInv, trackVars
  <1> QED BY <1>1, <1>2, <1>3

-----------------------------------------------------------------------------
(* The theorems *)

LEMMA InitContents == Init => ContentsInv
  <1> SUFFICES ASSUME Init PROVE ContentsInv
    OBVIOUS
  <1>0. Range(<<>>) = {} /\ DOMAIN <<>> = {} /\ Len(<<>>) = 0
    BY DEF Range
  <1>1. FiguresInv
    BY DEF Init, FiguresInv, Phases
  <1>2. CausesInv
    BY <1>0 DEF Init, CausesInv, CausesAreOfAnomalies
  <1>3. ReportInv
    BY DEF Init, ReportInv
  <1>4. PlansInv
    <2>1. plans = <<>> /\ adopted = 0 /\ pc = "collecting"
      BY DEF Init
    <2> QED BY <1>0, <2>1 DEF PlansInv
  <1>5. TasksInv
    <2>1. tasks = <<>> /\ due = Never /\ pc = "collecting"
      BY DEF Init
    <2>2. CriteriaImprove
      BY <1>0, <2>1 DEF CriteriaImprove
    <2>3. due \in Int /\ ReviewDay
      BY <2>1 DEF ReviewDay, Never
    <2>4. tasks \in Seq(TaskType)
      BY <2>1
    <2>5. pc \notin {"waiting_track", "completed", "failed"}
      BY <2>1
    <2> QED BY <2>1, <2>2, <2>3, <2>4, <2>5 DEF TasksInv
  <1>6. TrackInv
    <2>1. snapshots = <<>> /\ current = Never /\ review = NoReview /\ pc = "collecting"
      BY DEF Init
    <2>2. review.achievement = 0
      BY <2>1 DEF NoReview
    <2> QED BY <1>0, <2>1, <2>2 DEF TrackInv
  <1> QED BY <1>1, <1>2, <1>3, <1>4, <1>5, <1>6 DEF ContentsInv

LEMMA StepContents ==
    ASSUME ContentsInv, [Next]_vars
    PROVE  ContentsInv'
  BY StepFiguresInv, StepCausesInv, StepReportInv, StepPlansInv, StepTasksInv, StepTrackInv DEF ContentsInv

\* What is kept of a diagnosis is at all times what was computed from what it
\* collected: the inductive invariant of the module.
THEOREM ContentsAreConsistent == Spec => []ContentsInv
  BY InitContents, StepContents, PTL DEF Spec

LEMMA TypesFollow ==
    ASSUME ContentsInv
    PROVE  TypeOK
  <1>0. FiguresInv
    BY DEF ContentsInv
  <1>1. request \in Requests /\ business \in Businesses /\ pc \in Phases /\ mode \in Modes /\ profile \in BOOLEAN
    BY DEF ContentsInv, FiguresInv
  <1>2. answered \subseteq Dimensions
    BY <1>1, ActiveIs DEF ContentsInv, FiguresInv, IsCollected
  <1>3. DOMAIN values \subseteq Codes /\ \A c \in DOMAIN values : values[c] \in Nat
    <2>1. CASE IsCollected
      <3>1. values \in Values
        BY <1>1, <2>1, ValuesAre
      <3> QED BY <3>1 DEF Values
    <2>2. CASE values = <<>>
      BY <2>2
    <2>3. (values = <<>> /\ answered = {}) \/ IsCollected
      BY <1>0 DEF FiguresInv
    <2> QED BY Zenon, <2>1, <2>2, <2>3
  <1>4. (\A d \in DOMAIN scored.scores : scored.scores[d] \in 0..10000) /\ Range(anomalies) \subseteq Codes
    <2> DEFINE InRange == \A d \in DOMAIN scored.scores : scored.scores[d] \in 0..10000
               OfTable == Range(anomalies) \subseteq Codes
    <2>1. ASSUME IsScored PROVE InRange /\ OfTable
      <3>1. Range(anomalies) \subseteq Codes
        BY <1>1, <2>1, AnomaliesAre, RangeOf
      <3>2. values \in Values /\ scored = Score(values, Active)
        BY <1>1, <2>1, ValuesAre DEF IsScored
      <3>3. /\ DOMAIN scored.scores = Active.dims
            /\ \A d \in Active.dims : scored.scores[d] \in Nat /\ scored.scores[d] <= 10000
        BY <1>1, <3>2, ActiveIs, ScoreIs
      <3>4. \A n \in Nat : n <= 10000 => n \in 0..10000
        BY SMTT(30)
      <3>5. \A d \in DOMAIN scored.scores : scored.scores[d] \in 0..10000
        <4> DEFINE s == scored.scores
                   dims == Active.dims
        <4> HIDE DEF s, dims
        <4>1. DOMAIN s = dims /\ \A d \in dims : s[d] \in Nat /\ s[d] <= 10000
          BY <3>3 DEF s, dims
        <4>2. ASSUME NEW d \in DOMAIN s PROVE s[d] \in 0..10000
          <5> DEFINE x == s[d]
          <5>1. x \in Nat /\ x <= 10000
            BY <4>1
          <5> HIDE DEF x
          <5>2. x \in 0..10000
            BY SMTT(30), <5>1
          <5> QED BY <5>2 DEF x
        <4> QED BY <4>2 DEF s
      <3> QED BY <3>1, <3>5
    <2>2. ASSUME scored = NoScore, anomalies = <<>> PROVE InRange /\ OfTable
      <3>1. DOMAIN scored.scores = {}
        BY <2>2 DEF NoScore
      <3>2. Range(anomalies) = {}
        BY <2>2 DEF Range
      <3> QED BY <3>1, <3>2
    <2>3. (scored = NoScore /\ anomalies = <<>>) \/ IsScored
      BY <1>0 DEF FiguresInv
    <2> HIDE DEF InRange, OfTable
    <2>4. InRange /\ OfTable
      BY <2>1, <2>2, <2>3
    <2> QED BY <2>4 DEF InRange, OfTable
  <1>5. round \in 0..3 /\ DOMAIN causes \subseteq Codes /\ \A c \in DOMAIN causes : causes[c] \in 1..round
    BY <1>4 DEF ContentsInv, CausesInv, CausesAreOfAnomalies
  <1>6. adopted \in 0..Len(plans)
    BY DEF ContentsInv, PlansInv
  <1>7. (\A t \in Range(tasks) : t.task.deadline \in Int /\ t.created \in BOOLEAN) /\ due \in Int
    <2>1. tasks \in Seq(TaskType)
      BY DEF ContentsInv, TasksInv
    <2>2. Range(tasks) \subseteq TaskType
      BY <2>1, RangeOf
    <2> QED BY <2>2 DEF TaskType, ExecType, ContentsInv, TasksInv
  <1>8. \A x \in Range(snapshots) : x.score \in 0..1000
    <2>1. snapshots \in Seq(SnapshotType)
      BY DEF ContentsInv, TrackInv, SnapshotType
    <2>2. Range(snapshots) \subseteq SnapshotType
      BY <2>1, RangeOf
    <2> QED BY ZenonT(60), <2>2 DEF SnapshotType
  <1>9. current \in 0..1000 \cup {Never} /\ review.achievement \in 0..1000
    BY DEF ContentsInv, TrackInv
  <1> QED BY ZenonT(60), <1>1, <1>2, <1>3, <1>4, <1>5, <1>6, <1>7, <1>8, <1>9 DEF TypeOK

\* Every indicator, score, deadline and percentage stays in its range: no score
\* leaves 0 to 100, whatever the business system answers.
THEOREM TypeCorrect == Spec => []TypeOK
  BY ContentsAreConsistent, TypesFollow, PTL

LEMMA FiguresFollow ==
    ASSUME ContentsInv
    PROVE  FiguresAgree
  <1>1. request \in Requests /\ business \in Businesses
    BY DEF ContentsInv, FiguresInv
  <1>2. scored # NoScore => IsScored
    BY DEF ContentsInv, FiguresInv
  <1>3. scored # NoScore => HealthIsAnAverage /\ AnomaliesScoreLow /\ AnomaliesTakePart
    BY <1>1, <1>2, HealthAgrees, AnomaliesAgree
  <1>4. report # <<>> => ReportIsOrdered /\ LevelIsAnAverage
    <2>1. ReportInv
      BY DEF ContentsInv
    <2>2. report # <<>> => IsScored
      BY <2>1 DEF ReportInv
    <2> QED BY <1>1, <2>1, <2>2, ReportAgrees, LevelsAgree
  <1>5. plans # <<>> => PlansAreRanked
    BY RankedPlans DEF ContentsInv
  <1>6. CriteriaImprove
    BY DEF ContentsInv, TasksInv
  <1> QED BY <1>3, <1>4, <1>5, <1>6 DEF FiguresAgree

\* The figures agree, whatever was selected, lost or does not apply: the health
\* score with those of the dimensions, its level with theirs, the anomalies with
\* the scores, the report with the anomalies, the head of the list of plans with
\* the recommended one, and the criteria of the tasks with what was measured.
THEOREM FiguresAreConsistent == Spec => []FiguresAgree
  BY ContentsAreConsistent, FiguresFollow, PTL

\* The rules are kept, whatever the language model writes: every mandatory task is
\* in some plan with its department, every rule's coupons too, and the execution of
\* a single plan pushes every task that the rules demand.
THEOREM RulesAreKept == Spec => []NothingIsForgotten
  <1>1. ContentsInv => NothingIsForgotten
    BY DEF ContentsInv, PlansInv, TasksInv, NothingIsForgotten
  <1> QED BY <1>1, ContentsAreConsistent, PTL

\* The review waits for the tasks, whatever dates and numbers of hours a plan gives:
\* it is due on the day of the last deadline of a created task, or after the delay if
\* there is none, and before the day of the execution only if the plan dates every
\* created task in the past.
THEOREM ReviewIsOnTime == Spec => []ReviewDay
  <1>1. ContentsInv => ReviewDay
    BY DEF ContentsInv, TasksInv
  <1> QED BY <1>1, ContentsAreConsistent, PTL

LEMMA SnapshotKind ==
    ASSUME NEW list \in Seq(SnapshotType), NEW i \in 1..Len(list)
    PROVE  list[i].kind \in {"measured", "closing"}
  <1>1. list[i] \in SnapshotType
    OBVIOUS
  <1>2. \A x \in SnapshotType : x.kind \in {"measured", "closing"}
    BY DEF SnapshotType
  <1> QED BY <1>1, <1>2

LEMMA ImprovementFollows ==
    ASSUME ContentsInv, IsScored
    PROVE  ImprovementShows
  <1> DEFINE first == [Snapshot("measured", "collector", Tenths(scored.health), business, {})
                          EXCEPT !.lost = Active.dims \ answered]
             M == <<first>> \o snapshots
             Fair(x) == /\ x.figures \in RawType /\ x.by \in {"collector", "request"}
                        /\ x.lost = {} => x.score = SnapshotScore(x.figures, {}, Scope(x.by))
  <1>1. request \in Requests /\ business \in RawType
    BY ContentsAssumption DEF ContentsInv, FiguresInv, RawType
  <1>2. snapshots \in Seq(SnapshotType)
    BY DEF ContentsInv, TrackInv, SnapshotType
  <1>3. first = [kind |-> "measured", by |-> "collector", score |-> Tenths(scored.health),
                 figures |-> business, lost |-> Active.dims \ answered]
    BY DEF Snapshot
  <1>4. Fair(first)
    <2>1. ASSUME Active.dims \ answered = {}
          PROVE  Tenths(scored.health) = SnapshotScore(business, {}, Scope("collector"))
      <3>1. answered = Active.dims /\ profile /\ values = Collected(business, answered, mode)
            /\ scored = Score(values, Active)
        BY <2>1 DEF IsScored, IsCollected
      <3>2. Scope("collector") = Active
        BY DEF Scope
      <3> DEFINE none == {}
      <3>3. Active.dims \ none = Active.dims /\ "profile" \notin none
        OBVIOUS
      <3> HIDE DEF none
      <3>4. SnapshotScore(business, none, Active) = Tenths(Score(Collected(business, Active.dims, mode), Active).health)
        BY <3>3 DEF SnapshotScore
      <3> QED BY <3>1, <3>2, <3>4 DEF none
    <2> HIDE DEF first
    <2> QED BY <1>1, <1>3, <2>1
  <1> HIDE DEF first
  <1>5. /\ DOMAIN M = 1..(Len(snapshots) + 1) /\ Len(snapshots) \in Nat
        /\ M[1] = first
        /\ \A i \in 2..(Len(snapshots) + 1) : M[i] = snapshots[i - 1] /\ i - 1 \in 1..Len(snapshots)
    BY <1>2
  <1>6. \A i \in 1..Len(snapshots) : snapshots[i].kind = "closing" \/ Fair(snapshots[i])
    <2>1. \A i \in 1..Len(snapshots) : snapshots[i].kind \in {"measured", "closing"}
      BY <1>2, SnapshotKind
    <2>2. \A i \in 1..Len(snapshots) : snapshots[i].kind = "measured" => IsMeasured(snapshots[i])
      BY DEF ContentsInv, TrackInv
    <2>3. \A x : IsMeasured(x) => Fair(x)
      BY DEF IsMeasured
    <2> HIDE DEF Fair
    <2> QED BY <2>1, <2>2, <2>3
  <1>7. first.kind = "measured"
    BY <1>3
  <1>8. \A i \in 1..Len(snapshots) : snapshots[i].kind = "closing" => i = Len(snapshots)
    <2>1. \A i \in 1..Len(snapshots) : i < Len(snapshots) => snapshots[i].kind = "measured"
      BY DEF ContentsInv, TrackInv
    <2>2. \A i \in 1..Len(snapshots) : i < Len(snapshots) \/ i = Len(snapshots)
      BY <1>5
    <2> QED BY <2>1, <2>2
  <1> HIDE DEF M, Fair
  <1>9. \A i \in DOMAIN M : Fair(M[i]) \/ (M[i].kind = "closing" /\ i = Len(snapshots) + 1)
    <2> SUFFICES ASSUME NEW i \in DOMAIN M PROVE Fair(M[i]) \/ (M[i].kind = "closing" /\ i = Len(snapshots) + 1)
      OBVIOUS
    <2>1. CASE i = 1
      BY <1>4, <1>5, <2>1
    <2>2. CASE i # 1
      <3>1. i \in 2..(Len(snapshots) + 1)
        BY <1>5, <2>2
      <3>2. M[i] = snapshots[i - 1] /\ i - 1 \in 1..Len(snapshots)
        BY <1>5, <3>1
      <3>3. Fair(M[i]) \/ (M[i].kind = "closing" /\ i - 1 = Len(snapshots))
        BY <1>6, <1>8, <3>2
      <3> QED BY <1>5, <3>1, <3>3
    <2> QED BY <2>1, <2>2
  <1>10. \A i \in DOMAIN M : i < Len(snapshots) + 1 => M[i].kind = "measured"
    <2> SUFFICES ASSUME NEW i \in DOMAIN M, i < Len(snapshots) + 1 PROVE M[i].kind = "measured"
      OBVIOUS
    <2>1. CASE i = 1
      BY <1>5, <1>7, <2>1
    <2>2. CASE i # 1
      <3>1. i \in 2..(Len(snapshots) + 1)
        BY <1>5, <2>2
      <3>2. M[i] = snapshots[i - 1] /\ i - 1 \in 1..Len(snapshots) /\ i - 1 # Len(snapshots)
        BY <1>5, <3>1
      <3>3. snapshots[i - 1].kind \in {"measured", "closing"}
        BY <1>2, <3>2, SnapshotKind
      <3> QED BY <1>8, <3>2, <3>3
    <2> QED BY <2>1, <2>2
  <1>11. ASSUME NEW i \in DOMAIN M, NEW k \in DOMAIN M, i < k, M[i].kind = M[k].kind, M[i].by = M[k].by,
                M[i].lost = {}, M[k].lost = {}, NoWorse(M[i].figures, M[k].figures, Scope(M[i].by))
         PROVE  M[k].score >= M[i].score
    <2> DEFINE x == M[i]
               y == M[k]
               by == x.by
               none == {}
    <2>1. i < Len(snapshots) + 1 /\ i # Len(snapshots) + 1
      BY <1>5, <1>11
    <2>2. M[i].kind = "measured" /\ M[k].kind = "measured"
      BY <1>10, <1>11, <2>1
    <2>3. Fair(x) /\ Fair(y)
      BY <1>9, <2>2
    <2>4. /\ by \in {"collector", "request"} /\ x.figures \in RawType /\ y.figures \in RawType
          /\ x.score = SnapshotScore(x.figures, none, Scope(by))
          /\ y.score = SnapshotScore(y.figures, none, Scope(by))
          /\ NoWorse(x.figures, y.figures, Scope(by))
      BY <1>11, <2>3 DEF Fair
    <2> HIDE DEF x, y, by, none
    <2>5. /\ SnapshotScore(x.figures, none, Scope(by)) <= SnapshotScore(y.figures, none, Scope(by))
          /\ SnapshotScore(x.figures, none, Scope(by)) \in 0..1000
          /\ SnapshotScore(y.figures, none, Scope(by)) \in 0..1000
      BY <1>1, <2>4, ScoreOfSnapshot
    <2>6. y.score >= x.score
      BY <2>4, <2>5
    <2> QED BY <2>6 DEF x, y
  <1>12. M = Measurements
    BY DEF M, first, Measurements
  <1> QED BY <1>11, <1>12 DEF ImprovementShows

LEMMA ReviewFollows ==
    ASSUME TrackInv
    PROVE  ReviewAgrees
  <1> SUFFICES ASSUME Len(snapshots) >= 3, review # NoReview
               PROVE  LET measured == Front(snapshots)
                      IN /\ review.trend = "improving" <=> Trend(measured) = "improving"
                         /\ review.change = Change(measured)
    BY DEF ReviewAgrees
  <1> DEFINE n == Len(snapshots)
             measured == Front(snapshots)
  <1>1. snapshots \in Seq(SnapshotType) /\ n \in Nat /\ n >= 3
    BY DEF TrackInv, SnapshotType
  <1>2. measured = [i \in 1..(n - 1) |-> snapshots[i]] /\ Len(measured) = n - 1
    BY <1>1 DEF Front
  <1>3. measured[1] = snapshots[1] /\ measured[n - 1] = snapshots[n - 1]
    BY <1>1, <1>2
  <1>4. Last(snapshots) = snapshots[n] /\ Last(measured) = measured[n - 1]
    BY <1>2 DEF Last
  <1>5. snapshots[n].score = snapshots[n - 1].score
    BY <1>1, <1>4 DEF TrackInv
  <1> HIDE DEF measured
  <1>6. Change(snapshots) = snapshots[n].score - snapshots[1].score
    BY <1>1, <1>4 DEF Change
  <1>7. Change(measured) = measured[n - 1].score - measured[1].score
    BY <1>1, <1>2, <1>4 DEF Change
  <1>8. Change(measured) = Change(snapshots)
    BY <1>3, <1>5, <1>6, <1>7
  <1>9. review.trend = BaseTrend(snapshots) /\ review.change = Change(snapshots)
    BY DEF TrackInv
  <1>10. Trend(measured) = IF Change(measured) > 0 THEN "improving"
                           ELSE IF Change(measured) < 0 THEN "declining" ELSE "stable"
    <2>1. measured # <<>> /\ Len(measured) # 1
      <3> HIDE DEF n
      <3>1. Len(measured) \in Nat /\ Len(measured) >= 2
        BY <1>1, <1>2
      <3>2. measured = <<>> => Len(measured) = 0
        OBVIOUS
      <3> DEFINE l == Len(measured)
      <3>4. l \in Nat /\ l >= 2
        BY <3>1
      <3> HIDE DEF l
      <3>3. l # 0 /\ l # 1
        BY <3>4
      <3> QED BY <3>2, <3>3 DEF l
    <2> QED BY <2>1 DEF Trend
  <1>11. review.trend = "improving" <=> Trend(measured) = "improving"
    BY <1>8, <1>9, <1>10 DEF BaseTrend
  <1> QED BY <1>8, <1>9, <1>11 DEF measured

\* A better measurement never scores lower than an earlier one by the same hand,
\* and the closing snapshot changes nothing of what the review reports.
THEOREM TrendsAreReal == Spec => []TrendIsReal
  <1>1. ASSUME ContentsInv, pc \in {"waiting_track", "completed"}, due # Never PROVE IsScored
    BY <1>1 DEF ContentsInv, FiguresInv, Phases
  <1>2. ContentsInv => TrendIsReal
    BY <1>1, ImprovementFollows, ReviewFollows DEF TrendIsReal, ContentsInv
  <1> QED BY <1>2, ContentsAreConsistent, PTL

\* No later round of questions replaces a cause, and none but an anomaly has one.
THEOREM CausesAreKept == Spec => CausesKept
  <1>1. ContentsInv /\ [Next]_vars =>
          [/\ \A c \in DOMAIN causes : c \in DOMAIN causes' /\ causes'[c] = causes[c]
           /\ CausesAreOfAnomalies']_causes
    BY RoundAdds, OthersKeepCauses DEF ContentsInv
  <1> QED BY <1>1, InitContents, StepContents, PTL DEF Spec, CausesKept
=============================================================================
