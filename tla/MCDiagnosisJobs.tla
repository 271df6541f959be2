-------------------------- MODULE MCDiagnosisJobs --------------------------
(* Instances of DiagnosisJobs for TLC: at most three threads of a tenant,   *)
(* their diagnosis jobs, an adoption and two reviews of the first thread.    *)
EXTENDS DiagnosisJobs, TLC

CONSTANTS t1, t2, t3, d1, d2, d3, a1, r1, r2, k1, s1, s2, s3, c1, c2

OneTenant == [t \in Threads |-> k1]

\* Every start on its own API process; or all of them on one.
OwnServer == [t \in Threads |-> CASE t = t1 -> s1 [] t = t2 -> s2 [] OTHER -> s3]
OneServer == [t \in Threads |-> s1]

ThreadOfJob == [j \in Jobs |-> CASE j = d2 -> t2 [] j = d3 -> t3 [] OTHER -> t1]
KindOfJob == [j \in Jobs |-> CASE j = a1 -> "adoption" [] j \in {r1, r2} -> "review"
                               [] OTHER -> "diagnosis"]

\* The three starts are interchangeable, each with its job and its process.
Rotate(a, b, c) ==
    (t1 :> <<t1, t2, t3>>[a] @@ t2 :> <<t1, t2, t3>>[b] @@ t3 :> <<t1, t2, t3>>[c]) @@
    (d1 :> <<d1, d2, d3>>[a] @@ d2 :> <<d1, d2, d3>>[b] @@ d3 :> <<d1, d2, d3>>[c]) @@
    (s1 :> <<s1, s2, s3>>[a] @@ s2 :> <<s1, s2, s3>>[b] @@ s3 :> <<s1, s2, s3>>[c])
Interchange == {Rotate(p[1], p[2], p[3]) : p \in Permutations(1..3)}

\* What has not happened, or left no trace.
Quiet ==
    /\ cancelRequested = [t \in Threads |-> FALSE]
    /\ cancelLock = [t \in Threads |-> FALSE]
    /\ pendingPlan = [t \in Threads |-> FALSE]
    /\ startLock = {}
    /\ phasesDone = [j \in Jobs |-> 0]
    /\ cancelTarget = [c \in CancelCalls |-> NoThread]
    /\ cancelAsked = [j \in Jobs |-> "no"]
    /\ phasesAfterCancel = [j \in Jobs |-> 0]
    /\ overtaken = {}

\* Some jobs of t1 are over, or recorded and registered and in arq's queue, each with
\* what its row says; the session is where they left it.  Other jobs may still be
\* submitted, or take no part.
Begin(rows, phase, part) ==
    LET recorded == DOMAIN rows
        queued == {j \in recorded : rows[j] = "queued"}
    IN  /\ Quiet
        /\ row = [j \in Jobs |-> IF j \in recorded THEN rows[j] ELSE "none"]
        /\ session = [t \in Threads |-> IF t = t1 THEN phase ELSE "none"]
        /\ sub = [j \in Jobs |-> IF j \in recorded THEN "accepted"
                                 ELSE IF j \in part THEN "idle" ELSE "rejected"]
        /\ job = [j \in Jobs |-> IF j \in queued THEN "queued"
                                 ELSE IF j \in recorded THEN "over" ELSE "absent"]
        /\ tenantKnown = [j \in Jobs |-> j \in recorded \ queued]
        /\ runningKey = [t \in Threads |-> t = t1 /\ queued # {}]
        /\ tenantActive = [k \in Tenants |-> IF queued # {} THEN t1 ELSE NoThread]

\* The diagnosis of t1 has succeeded and its plans wait for an adoption.
InitAwaitingAdoption(part) ==
    /\ Begin(d1 :> "succeeded", "waiting_adoption", part)
    /\ cancelPc = [c \in CancelCalls |-> "done"]

AwaitingAdoption == InitAwaitingAdoption(Jobs) /\ [][Next]_vars

\* Two cancel requests while a diagnosis is started, without follow-ups.
InitDiagnosis ==
    /\ Begin(<<>>, "none", {d1})
    /\ cancelPc = [c \in CancelCalls |-> "idle"]

\* An adoption that tracks at once was interrupted and a review of its thread waits in
\* the queue: a second review and one cancel request.
InitReviewQueued ==
    /\ Begin(d1 :> "succeeded" @@ a1 :> "failed" @@ r1 :> "queued", "tracking", {r2})
    /\ cancelPc = [c \in CancelCalls |-> IF c = c1 THEN "idle" ELSE "done"]

\* One of these, or an adoption beside a review.
CancelRequests ==
    /\ InitDiagnosis \/ InitAwaitingAdoption({a1, r1}) \/ InitReviewQueued
    /\ [][Next]_vars
=============================================================================
