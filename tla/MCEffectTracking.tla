-------------------------- MODULE MCEffectTracking --------------------------
(* An instance of EffectTracking: one API process, named by its calls.       *)
EXTENDS EffectTracking, TLC

CONSTANTS p1, snap1, comp1, comp2, canc1, rev1, chk1, col1, col2, rep1

KindOfCall ==
    [c \in Calls |-> CASE c = snap1 -> "snapshot" [] c \in {comp1, comp2} -> "complete"
                       [] c = canc1 -> "cancel" [] c = rev1 -> "review"
                       [] c = chk1 -> "checker" [] c \in {col1, col2} -> "collector"
                       [] OTHER -> "report"]
OneProcess == [c \in Calls |-> p1]

\* Who meets whom: requests with a collector, a checker or the review job; two
\* completions and a reader; two collectors.
MixesOfCalls == {{snap1, comp1, canc1}, {snap1, comp1, col1}, {snap1, comp1, chk1},
                 {snap1, canc1, chk1}, {snap1, rev1, chk1}, {comp1, comp2, rep1, snap1},
                 {snap1, col1, col2}}
=============================================================================
