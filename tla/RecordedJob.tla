------------------------------ MODULE RecordedJob ------------------------------
(***************************************************************************)
(* What starting API processes and workers together promise one recorded   *)
(* job, without arq's keys and ids that rotate.  It is run because it was   *)
(* submitted, or because a starting process found it without an outcome, or *)
(* failed for the first time.  Only a run under way reports, so an outcome  *)
(* stands once nothing is under way; and as long as nothing has crashed, a  *)
(* job without an outcome has something under way.                          *)
(***************************************************************************)
EXTENDS Naturals

CONSTANTS Finders,  \* processes that start
          Runs      \* the runs the job may get

VARIABLES
    status,    \* what the job's row says
    retries,   \* how often it was put back from failed
    found,     \* the processes that found it and have yet to enqueue it
    waiting,   \* the runs that are queued
    running,   \* the runs that have yet to report
    crashed    \* a process or a command has failed

job == <<status, retries, found, waiting, running, crashed>>

NoOutcome == {"queued", "running"}
Retriable == status = "failed" /\ retries = 0
UnderWay == found # {} \/ waiting # {} \/ running # {}

Init ==
    /\ status = "queued" /\ retries = 0
    /\ \E r \in Runs : waiting = {r}
    /\ found = {} /\ running = {} /\ crashed = FALSE

Find(p) ==
    /\ p \notin found /\ (status \in NoOutcome \/ Retriable)
    /\ found' = found \cup {p}
    /\ UNCHANGED <<status, retries, waiting, running, crashed>>

Retry(p) ==
    /\ p \in found /\ Retriable
    /\ status' = "queued" /\ retries' = 1
    /\ UNCHANGED <<found, waiting, running, crashed>>

Enqueue(p) ==
    /\ p \in found /\ found' = found \ {p}
    /\ \E r \in Runs \ (waiting \cup running) : waiting' = waiting \cup {r}
    /\ UNCHANGED <<status, retries, running, crashed>>

\* Another process has seen to it.
Leave(p) ==
    /\ p \in found /\ found' = found \ {p}
    /\ UNCHANGED <<status, retries, waiting, running, crashed>>

Start(r) ==
    /\ r \in waiting /\ waiting' = waiting \ {r} /\ running' = running \cup {r}
    /\ UNCHANGED <<status, retries, found, crashed>>

\* A run whose id the row no longer has reports to nobody.
Begin(r) ==
    /\ r \in running /\ status' \in {status, "running"}
    /\ UNCHANGED <<retries, found, waiting, running, crashed>>

Report(r) ==
    /\ r \in running /\ running' = running \ {r}
    /\ status' \in {status, "succeeded", "failed"}
    /\ UNCHANGED <<retries, found, waiting, crashed>>

Crash ==
    /\ crashed' = TRUE /\ found' \subseteq found /\ running' \subseteq running
    /\ UNCHANGED <<status, retries, waiting>>

Step ==
    \/ \E p \in Finders : Find(p) \/ Retry(p) \/ Enqueue(p) \/ Leave(p)
    \/ \E r \in Runs : Start(r) \/ Begin(r) \/ Report(r)
    \/ Crash

\* Nobody leaves the job, and no run reports to nobody, when that was the last hope.
Next == Step /\ (status' \in NoOutcome => crashed' \/ UnderWay')

Spec == Init /\ [][Next]_job
=============================================================================
