----------------------------- MODULE MCStatusQueries -----------------------------
(* The sets of faults of StatusQueries for TLC.                              *)
EXTENDS StatusQueries

MCFaultSets == {{"phase", "save"}, {"cancel"}, {"stop"}, {"kill", "ttl"}, {"redis"}}
=============================================================================
