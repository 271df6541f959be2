----------------------------- MODULE ThreadPromise -----------------------------
(***************************************************************************)
(* What the back end promises the client of one thread, without tables,    *)
(* keys, caches, jobs or the reads of a query: a report, then an executed  *)
(* plan, then a review, each made once and never lost; and answers, given  *)
(* in one step, that are never ahead of these and raise no alarm as long   *)
(* as nothing has gone wrong.                                              *)
(***************************************************************************)
CONSTANTS Polls, Pages,   \* the kinds of queries
          Answers

VARIABLES
    have,      \* what there is of "report", "plan" and "review"
    troubled,  \* something has gone wrong, or a user has cancelled
    asked,     \* the kind of the query under way
    told       \* the last answer, until the next query

promise == <<have, troubled, asked, told>>

\* What must be there before each.
Basis == [report |-> {}, plan |-> {"report"}, review |-> {"plan"}]
Nothing == [kind |-> "none", answer |-> "none"]

Init == have = {} /\ troubled = FALSE /\ asked = "none" /\ told = Nothing

Make(x) ==
    /\ x \notin have /\ Basis[x] \subseteq have
    /\ have' = have \cup {x}
    /\ UNCHANGED <<troubled, asked, told>>

GoWrong == troubled' = TRUE /\ UNCHANGED <<have, asked, told>>

Ask(k) ==
    /\ asked = "none" /\ asked' = k /\ told' = Nothing
    /\ UNCHANGED <<have, troubled>>

\* What an answer of success speaks of.
Subject(k) == IF k = "adopt" THEN "plan" ELSE IF k = "review" THEN "review" ELSE "report"

Answer(a) ==
    /\ asked # "none"
    /\ a \in {"completed", "found"} => Subject(asked) \in have
    /\ a \in {"failed", "not_found"} /\ asked \in Polls => troubled
    /\ asked' = "none" /\ told' = [kind |-> asked, answer |-> a]
    /\ UNCHANGED <<have, troubled>>

Next ==
    \/ \E x \in DOMAIN Basis : Make(x)
    \/ GoWrong
    \/ \E k \in Polls \cup Pages : Ask(k)
    \/ \E a \in Answers : Answer(a)

Spec == Init /\ [][Next]_promise
=============================================================================
