------------------------------ MODULE TaskDelivery ------------------------------
(***************************************************************************)
(* What the execution of a plan promises about its tasks, without HTTP      *)
(* attempts, listings, counts or the order of the job: whoever pushes a     *)
(* task has it in hand, and takes up only what is pending or failed; a task *)
(* is said to run only once the business system has accepted it, and what   *)
(* is in nobody's hands changes at a user's word alone.  An adoption is     *)
(* settled only when every task of the plan was accepted or spoken for by   *)
(* a user.  To accept is to create a task or to answer for it with a 200:   *)
(* that the two are one is the business system's promise and not kept here. *)
(***************************************************************************)
CONSTANTS Tasks, PlanTasks, Pushers

VARIABLES
    word,     \* what our row says of a task, "none" before it is saved
    accepted, \* the tasks that the business system has, or said it has
    hands,    \* who has a task in hand
    said,     \* the tasks whose word a user has set
    settled   \* a redistribution has settled the adoption

delivery == <<word, accepted, hands, said, settled>>

Words == {"none", "pending", "running", "failed", "completed"}
Taken(w, S) == hands' = [t \in Tasks |-> IF t \in S THEN hands[t] \cup {w} ELSE hands[t]]
Freed(w, S) == hands' = [t \in Tasks |-> IF t \in S THEN hands[t] \ {w} ELSE hands[t]]

Init ==
    /\ word = [t \in Tasks |-> "none"] /\ accepted = {} /\ said = {} /\ settled = FALSE
    /\ hands \in [Tasks -> SUBSET Pushers]

\* New tasks are in the hands of who saves them.
Save(w, S) ==
    /\ \A t \in S : word[t] = "none" \/ w \in hands[t]
    /\ word' = [t \in Tasks |-> IF t \in S /\ word[t] = "none" THEN "pending" ELSE word[t]]
    /\ Taken(w, S) /\ UNCHANGED <<accepted, said, settled>>

Take(w, S) ==
    /\ \A t \in S : word[t] \in {"pending", "failed"}
    /\ Taken(w, S) /\ UNCHANGED <<word, accepted, said, settled>>

Accept(w, t) ==
    /\ w \in hands[t] /\ accepted' = accepted \cup {t}
    /\ UNCHANGED <<word, hands, said, settled>>

\* Its pusher says how it went, and may have done with it.
Record(w, t, new) ==
    /\ w \in hands[t] /\ (new = "running" => t \in accepted)
    /\ word' = [word EXCEPT ![t] = new]
    /\ UNCHANGED hands \/ Freed(w, {t})
    /\ UNCHANGED <<accepted, said, settled>>

\* Whoever lets go of tasks, even by an exception, leaves what was never accepted to the
\* next redistribution.
Release(w, S) ==
    /\ \A t \in S : t \in accepted \cup said \/ word[t] \in {"none", "pending", "failed"}
    /\ Freed(w, S) /\ UNCHANGED <<word, accepted, said, settled>>

SetByUser(t, new) ==
    /\ word[t] # "none" /\ word' = [word EXCEPT ![t] = new] /\ said' = said \cup {t}
    /\ UNCHANGED <<accepted, hands, settled>>

Settle ==
    /\ PlanTasks \subseteq accepted \cup said /\ settled' = TRUE
    /\ UNCHANGED <<word, accepted, hands, said>>

Next ==
    \/ \E w \in Pushers, S \in SUBSET Tasks : Save(w, S) \/ Take(w, S) \/ Release(w, S)
    \/ \E w \in Pushers, t \in Tasks :
          Accept(w, t) \/ \E new \in {"running", "failed"} : Record(w, t, new)
    \/ \E t \in Tasks : \E new \in Words \ {"none", "pending"} : SetByUser(t, new)
    \/ Settle

Spec == Init /\ [][Next]_delivery
=============================================================================
