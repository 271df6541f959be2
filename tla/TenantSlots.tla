----------------------------- MODULE TenantSlots -----------------------------
(***************************************************************************)
(* What the job machinery promises an enterprise, without Redis, Postgres  *)
(* or arq: its diagnoses run one at a time, each at most once, and each    *)
(* that begins ends.  start_diagnosis answers 409 while one is active.     *)
(***************************************************************************)
CONSTANTS Diagnoses,   \* diagnosis jobs
          OwnerOf      \* [Diagnoses -> tenants]

VARIABLE stage         \* [Diagnoses -> {"new", "active", "ended"}]

Init == stage = [d \in Diagnoses |-> "new"]

Begin(d) ==
    /\ stage[d] = "new"
    /\ \A e \in Diagnoses : OwnerOf[e] = OwnerOf[d] => stage[e] # "active"
    /\ stage' = [stage EXCEPT ![d] = "active"]

End(d) ==
    /\ stage[d] = "active"
    /\ stage' = [stage EXCEPT ![d] = "ended"]

Next == \E d \in Diagnoses : Begin(d) \/ End(d)

Spec == Init /\ [][Next]_stage

\* Nobody has to begin a diagnosis, but one that began is seen to its end.
FairSpec == Spec /\ \A d \in Diagnoses : WF_stage(End(d))
=============================================================================
