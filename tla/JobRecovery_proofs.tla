-------------------------- MODULE JobRecovery_proofs --------------------------
(* Type correctness of JobRecovery, the one retry of a failed job, that no      *)
(* active row is orphaned while nothing crashes, that RecordedJob is            *)
(* implemented, and that outcomes are final: for any number of API processes,   *)
(* startups and crashes.                                                        *)
EXTENDS JobRecovery, TLAPS

LEMMA RecoveryTypeInit == Init => TypeOK
BY RecoveryAssumption DEF Init, TypeOK, Submitted, Rows, OtherRow, Status, ActiveStatus,
   ArqState, RunPC, ProcPC, Ids

\* Every step of a startup, a worker, arq or a crash keeps the types.
LEMMA RecoveryTypeNext == TypeOK /\ [Next]_vars => TypeOK'
<1> SUFFICES ASSUME TypeOK, [Next]_vars PROVE TypeOK'
  OBVIOUS
<1> USE RecoveryAssumption DEF TypeOK, arqVars, procVars, countVars
<1>1. ASSUME NEW p \in Procs, Startup(p) PROVE TypeOK'
  BY <1>1 DEF Startup, MoveProc, ProcPC, Reconciling
<1>2. ASSUME NEW p \in Procs, List(p) PROVE TypeOK'
  BY <1>2 DEF List, MoveProc, ProcPC, Reconciling, Upcoming, Rows
<1>3. ASSUME NEW p \in Procs, Claim(p) PROVE TypeOK'
  <2>1. row' \in Rows
    BY <1>3 DEF Claim, Rows, Status, ActiveStatus
  <2>2. proc' \in [Procs -> ProcPC]
    BY <1>3 DEF Claim, MoveProc, ProcPC, Reconciling
  <2>3. claims' \in Nat
    BY <1>3 DEF Claim
  <2>4. QED
    BY <1>3, <2>1, <2>2, <2>3 DEF Claim
<1>4. ASSUME NEW p \in Procs, EnqueueRecorded(p) PROVE TypeOK'
  BY <1>4 DEF EnqueueRecorded, MoveProc, ProcPC, Reconciling, ArqState
<1>5. ASSUME NEW p \in Procs, Rotate(p) PROVE TypeOK'
  BY <1>5 DEF Rotate, MoveProc, ProcPC, Reconciling, Rows
<1>6. ASSUME NEW p \in Procs, EnqueueFresh(p) PROVE TypeOK'
  BY <1>6 DEF EnqueueFresh, MoveProc, ProcPC, Reconciling, ArqState
<1>7. ASSUME NEW p \in Procs, Register(p) PROVE TypeOK'
  BY <1>7 DEF Register, MoveProc, ProcPC
<1>8. ASSUME NEW p \in Procs, FailToEnqueue(p) PROVE TypeOK'
  BY <1>8 DEF FailToEnqueue, Trouble, MoveProc, ProcPC
<1>9. ASSUME NEW p \in Procs, CrashProc(p) PROVE TypeOK'
  BY <1>9 DEF CrashProc, Trouble, MoveProc, ProcPC
<1>10. ASSUME NEW i \in Ids, Take(i) PROVE TypeOK'
  BY <1>10 DEF Take, MoveRun, RunPC, BeforeOutcome, ArqState
<1>11. ASSUME NEW i \in Ids, MarkRunning(i) PROVE TypeOK'
  BY <1>11 DEF MarkRunning, MoveRun, Mark, RunPC, BeforeOutcome, Rows, Status,
         ActiveStatus
<1>12. ASSUME NEW i \in Ids, Body(i) PROVE TypeOK'
  BY <1>12 DEF Body, MoveRun, RunPC, BeforeOutcome
<1>13. ASSUME NEW i \in Ids, MarkOutcome(i) PROVE TypeOK'
  BY <1>13 DEF MarkOutcome, MoveRun, Mark, RunPC, Rows, Status
<1>14. ASSUME NEW i \in Ids, Unregister(i) PROVE TypeOK'
  BY <1>14 DEF Unregister, MoveRun, RunPC
<1>15. ASSUME NEW i \in Ids, Finish(i) PROVE TypeOK'
  BY <1>15 DEF Finish, MoveRun, RunPC, ArqState
<1>16. ASSUME NEW i \in Ids, KillWorker(i) PROVE TypeOK'
  BY <1>16 DEF KillWorker, Trouble, RunPC
<1>17. ASSUME NEW i \in Ids, GiveUp(i) PROVE TypeOK'
  BY <1>17 DEF GiveUp, ArqState
<1>18. ASSUME NEW i \in Ids, ForgetResult(i) PROVE TypeOK'
  BY <1>18 DEF ForgetResult, ArqState
<1>19. CASE UNCHANGED vars
  BY <1>19 DEF vars
<1>20. ASSUME NEW p \in Procs, ClaimEarlier(p) PROVE TypeOK'
  <2>1. proc' \in [Procs -> ProcPC]
    BY <1>20 DEF ClaimEarlier, MoveProc, ProcPC, Reconciling, Upcoming
  <2>2. QED
    BY <1>20, <2>1 DEF ClaimEarlier, OtherRow
<1>21. CASE OtherJob
  BY <1>21 DEF OtherJob, OtherRow
<1>22. QED
  BY <1>1, <1>2, <1>3, <1>4, <1>5, <1>6, <1>7, <1>8, <1>9, <1>10, <1>11, <1>12,
     <1>13, <1>14, <1>15, <1>16, <1>17, <1>18, <1>19, <1>20, <1>21 DEF Next, Reconcile, Work

\* The claim of a failed job's retry succeeds once: only Claim counts, and its
\* UPDATE checks the flag that it sets.
LEMMA RetryNext == TypeOK /\ RetriedOnce /\ [Next]_vars => RetriedOnce'
<1> SUFFICES ASSUME TypeOK, RetriedOnce, [Next]_vars PROVE RetriedOnce'
  OBVIOUS
<1> USE DEF RetriedOnce
<1>1. ASSUME NEW p \in Procs, Claim(p) PROVE RetriedOnce'
  <2>1. CASE UNCHANGED <<row, claims>>
    BY <2>1
  <2>2. CASE ~row.retryUsed /\ claims' = claims + 1
             /\ row' = [row EXCEPT !.status = "queued", !.retryUsed = TRUE]
    <3>1. row'.retryUsed = TRUE
      BY <2>2 DEF TypeOK, Rows
    <3>2. claims' = 1
      BY <2>2
    <3>3. QED
      BY <3>1, <3>2
  <2>3. QED
    BY <1>1, <2>1, <2>2 DEF Claim, Claimable
<1>2. ASSUME NEW p \in Procs, Rotate(p) PROVE RetriedOnce'
  BY <1>2 DEF Rotate, TypeOK, Rows
<1>3. ASSUME NEW p \in Procs,
             Startup(p) \/ List(p) \/ ClaimEarlier(p) \/ EnqueueRecorded(p)
             \/ EnqueueFresh(p) \/ Register(p) \/ FailToEnqueue(p) \/ CrashProc(p)
      PROVE  RetriedOnce'
  BY <1>3 DEF Startup, List, ClaimEarlier, EnqueueRecorded, EnqueueFresh, Register,
         FailToEnqueue, CrashProc
<1>4. ASSUME NEW i \in Ids, MarkRunning(i) \/ MarkOutcome(i) PROVE RetriedOnce'
  BY <1>4 DEF MarkRunning, MarkOutcome, Mark, TypeOK, Rows
<1>5. ASSUME NEW i \in Ids,
             Take(i) \/ Body(i) \/ Unregister(i) \/ Finish(i) \/ KillWorker(i)
             \/ GiveUp(i) \/ ForgetResult(i)
      PROVE  RetriedOnce'
  BY <1>5 DEF Take, Body, Unregister, Finish, KillWorker, GiveUp, ForgetResult
<1>6. CASE UNCHANGED vars
  BY <1>6 DEF vars
<1>7. CASE OtherJob
  BY <1>7 DEF OtherJob
<1>8. QED
  BY <1>1, <1>2, <1>3, <1>4, <1>5, <1>6, <1>7 DEF Next, Reconcile, Work

\* Rows, jobs and arq's keys keep their types, whatever starts, rotates or crashes.
THEOREM TypeCorrect == Spec => []TypeOK
<1>1. Init => TypeOK
  BY RecoveryTypeInit
<1>2. TypeOK /\ [Next]_vars => TypeOK'
  BY RecoveryTypeNext
<1>3. QED
  BY <1>1, <1>2, PTL DEF Spec

\* A failed job is enqueued for its retry once in its life: the claim of
\* claim_failed_job_startup_retry holds however startups, rotations and crashes fall.
THEOREM OneRetry == Spec => [](TypeOK /\ RetriedOnce)
<1>1. Init => TypeOK /\ RetriedOnce
  BY RecoveryTypeInit DEF Init, RetriedOnce, Submitted
<1>2. TypeOK /\ RetriedOnce /\ [Next]_vars => (TypeOK /\ RetriedOnce)'
  BY RecoveryTypeNext, RetryNext
<1>3. QED
  BY <1>1, <1>2, PTL DEF Spec

-------------------------------------------------------------------------------
LEMMA RecoveryInit == Init => RecoveryInv
BY RecoveryAssumption
   DEF Init, Submitted, RecoveryInv, WorkersAndArqAgree, IdsAreFresh,
       ActiveRowHasAJob, JobToCome, RowIsActive, Ids

\* Workers, arq and crashes keep the row's job to come: a worker that leaves the
\* row of its own id active is still before its outcome.
LEMMA WorkerKeepsJobs ==
  ASSUME TypeOK, RecoveryInv, NEW i \in Ids,
         Work(i) \/ KillWorker(i) \/ GiveUp(i) \/ ForgetResult(i)
  PROVE  RecoveryInv'
<1> USE RecoveryAssumption
    DEF TypeOK, Rows, RowIsActive, arqVars, procVars, countVars, RecoveryInv
<1>1. CASE Take(i)
  <2>1. (WorkersAndArqAgree /\ IdsAreFresh)'
    BY <1>1 DEF Take, MoveRun, WorkersAndArqAgree, IdsAreFresh
  <2>2. ActiveRowHasAJob'
    BY <1>1 DEF Take, MoveRun, ActiveRowHasAJob, JobToCome, BeforeOutcome
  <2>3. QED
    BY <2>1, <2>2
<1>2. CASE MarkRunning(i)
  <2>1. (WorkersAndArqAgree /\ IdsAreFresh)'
    BY <1>2 DEF MarkRunning, MoveRun, Mark, WorkersAndArqAgree, IdsAreFresh
  <2>2. ActiveRowHasAJob'
    BY <1>2 DEF MarkRunning, MoveRun, Mark, ActiveRowHasAJob, JobToCome,
           BeforeOutcome, WorkersAndArqAgree
  <2>3. QED
    BY <2>1, <2>2
<1>3. CASE Body(i)
  <2>1. (WorkersAndArqAgree /\ IdsAreFresh)'
    BY <1>3 DEF Body, MoveRun, WorkersAndArqAgree, IdsAreFresh
  <2>2. ActiveRowHasAJob'
    BY <1>3 DEF Body, MoveRun, ActiveRowHasAJob, JobToCome, BeforeOutcome
  <2>3. QED
    BY <2>1, <2>2
<1>4. CASE MarkOutcome(i)
  <2>1. (WorkersAndArqAgree /\ IdsAreFresh)'
    BY <1>4 DEF MarkOutcome, MoveRun, Mark, WorkersAndArqAgree, IdsAreFresh
  <2>2. ActiveRowHasAJob'
    BY <1>4 DEF MarkOutcome, MoveRun, Mark, ActiveRowHasAJob, JobToCome,
           BeforeOutcome, ActiveStatus
  <2>3. QED
    BY <2>1, <2>2
<1>5. CASE Unregister(i) \/ Finish(i)
  <2>1. (WorkersAndArqAgree /\ IdsAreFresh)'
    BY <1>5 DEF Unregister, Finish, MoveRun, WorkersAndArqAgree, IdsAreFresh
  <2>2. ActiveRowHasAJob'
    BY <1>5 DEF Unregister, Finish, MoveRun, ActiveRowHasAJob, JobToCome,
           BeforeOutcome, WorkersAndArqAgree
  <2>3. QED
    BY <2>1, <2>2
<1>6. CASE KillWorker(i)
  <2>1. troubles' # 0
    BY <1>6 DEF KillWorker, Trouble
  <2>2. (WorkersAndArqAgree /\ IdsAreFresh)'
    BY <1>6, <2>1 DEF KillWorker, WorkersAndArqAgree, IdsAreFresh
  <2>3. QED
    BY <2>1, <2>2 DEF ActiveRowHasAJob
<1>7. CASE GiveUp(i)
  <2>1. troubles # 0 /\ troubles' = troubles
    BY <1>7 DEF GiveUp, WorkersAndArqAgree
  <2>2. (WorkersAndArqAgree /\ IdsAreFresh)'
    BY <1>7, <2>1 DEF GiveUp, WorkersAndArqAgree, IdsAreFresh
  <2>3. QED
    BY <2>1, <2>2 DEF ActiveRowHasAJob
<1>8. CASE ForgetResult(i)
  <2>1. (WorkersAndArqAgree /\ IdsAreFresh)'
    BY <1>8 DEF ForgetResult, WorkersAndArqAgree, IdsAreFresh
  <2>2. ActiveRowHasAJob'
    BY <1>8 DEF ForgetResult, ActiveRowHasAJob, JobToCome
  <2>3. QED
    BY <2>1, <2>2
<1>9. QED
  BY <1>1, <1>2, <1>3, <1>4, <1>5, <1>6, <1>7, <1>8 DEF Work

\* Startups keep it too.  A startup that finds its new id known to arq leaves the
\* row to whoever enqueued it; one that rotates the row's id promises the new one.
LEMMA StartupKeepsJobs ==
  ASSUME TypeOK, RecoveryInv, NEW p \in Procs,
         Startup(p) \/ Reconcile(p) \/ FailToEnqueue(p) \/ CrashProc(p)
  PROVE  RecoveryInv'
<1> USE RecoveryAssumption
    DEF TypeOK, Rows, RowIsActive, arqVars, procVars, countVars, RecoveryInv
<1>1. CASE Startup(p)
  <2>1. (WorkersAndArqAgree /\ IdsAreFresh)'
    BY <1>1 DEF Startup, WorkersAndArqAgree, IdsAreFresh
  <2>2. ActiveRowHasAJob'
    BY <1>1 DEF Startup, MoveProc, ActiveRowHasAJob, JobToCome
  <2>3. QED
    BY <2>1, <2>2
<1>2. CASE List(p)
  <2>1. (WorkersAndArqAgree /\ IdsAreFresh)'
    BY <1>2 DEF List, WorkersAndArqAgree, IdsAreFresh
  <2>2. ActiveRowHasAJob'
    BY <1>2 DEF List, MoveProc, Upcoming, ActiveRowHasAJob, JobToCome
  <2>3. QED
    BY <2>1, <2>2
<1>3. CASE Claim(p)
  <2>1. (WorkersAndArqAgree /\ IdsAreFresh)'
    BY <1>3 DEF Claim, WorkersAndArqAgree, IdsAreFresh
  <2>2. ActiveRowHasAJob'
    BY <1>3 DEF Claim, Claimable, MoveProc, ActiveRowHasAJob, JobToCome, RowIsActive
  <2>3. QED
    BY <2>1, <2>2
<1>4. CASE EnqueueRecorded(p)
  <2>1. (WorkersAndArqAgree /\ IdsAreFresh)'
    BY <1>4 DEF EnqueueRecorded, WorkersAndArqAgree, IdsAreFresh, Ids
  <2>2. ActiveRowHasAJob'
    BY <1>4 DEF EnqueueRecorded, MoveProc, ActiveRowHasAJob, JobToCome
  <2>3. QED
    BY <2>1, <2>2
<1>5. CASE Rotate(p)
  <2>1. (WorkersAndArqAgree /\ IdsAreFresh)'
    BY <1>5 DEF Rotate, WorkersAndArqAgree, IdsAreFresh, Ids
  <2>2. CASE row.id = jobId[p]
    <3>1. row'.id = lastId + 1 /\ arq'[row'.id] = "unknown"
      BY <1>5, <2>2 DEF Rotate, IdsAreFresh, Ids
    <3>2. proc'[p] = "enqueueNew" /\ jobId'[p] = row'.id
      BY <1>5, <3>1 DEF Rotate, MoveProc
    <3>3. QED
      BY <2>1, <3>1, <3>2 DEF ActiveRowHasAJob, JobToCome
  <2>3. CASE row.id # jobId[p]
    <3>1. row' = row
      BY <1>5, <2>3 DEF Rotate
    <3>2. \A q \in Procs : jobId[q] = row.id =>
             jobId'[q] = row.id /\ proc'[q] = proc[q]
      BY <1>5, <2>3 DEF Rotate, MoveProc
    <3>3. QED
      BY <1>5, <2>1, <3>1, <3>2 DEF Rotate, ActiveRowHasAJob, JobToCome
  <2>4. QED
    BY <2>2, <2>3
<1>6. CASE EnqueueFresh(p)
  <2>1. (WorkersAndArqAgree /\ IdsAreFresh)'
    BY <1>6 DEF EnqueueFresh, WorkersAndArqAgree, IdsAreFresh, Ids
  <2>2. ActiveRowHasAJob'
    BY <1>6 DEF EnqueueFresh, MoveProc, ActiveRowHasAJob, JobToCome
  <2>3. QED
    BY <2>1, <2>2
<1>7. CASE Register(p)
  <2>1. (WorkersAndArqAgree /\ IdsAreFresh)'
    BY <1>7 DEF Register, WorkersAndArqAgree, IdsAreFresh
  <2>2. ActiveRowHasAJob'
    BY <1>7 DEF Register, MoveProc, ActiveRowHasAJob, JobToCome
  <2>3. QED
    BY <2>1, <2>2
<1>8. CASE FailToEnqueue(p) \/ CrashProc(p)
  <2>1. troubles' # 0
    BY <1>8 DEF FailToEnqueue, CrashProc, Trouble
  <2>2. (WorkersAndArqAgree /\ IdsAreFresh)'
    BY <1>8, <2>1 DEF FailToEnqueue, CrashProc, WorkersAndArqAgree, IdsAreFresh
  <2>3. QED
    BY <2>1, <2>2 DEF ActiveRowHasAJob
<1>9. CASE ClaimEarlier(p)
  <2>1. (WorkersAndArqAgree /\ IdsAreFresh)'
    BY <1>9 DEF ClaimEarlier, WorkersAndArqAgree, IdsAreFresh
  <2>2. PICK pc \in DOMAIN Upcoming, to \in {"down", "claim", "enqueue"} : MoveProc(p, pc, to)
    BY <1>9 DEF ClaimEarlier, Upcoming
  <2>3. ActiveRowHasAJob'
    BY <1>9, <2>2 DEF ClaimEarlier, MoveProc, Upcoming, ActiveRowHasAJob, JobToCome, RowIsActive
  <2>4. QED
    BY <2>1, <2>3
<1>10. QED
  BY <1>1, <1>2, <1>3, <1>4, <1>5, <1>6, <1>7, <1>8, <1>9 DEF Reconcile

\* Other rows of the thread change neither this row nor its jobs.
LEMMA OthersKeepJobs == ASSUME RecoveryInv, OtherJob PROVE RecoveryInv'
BY DEF OtherJob, RecoveryInv, WorkersAndArqAgree, IdsAreFresh, ActiveRowHasAJob, JobToCome,
   RowIsActive, arqVars, procVars, countVars

\* Without a crash, concurrent startups with their rotations and claims never leave
\* an active row without a job that will mark it: RecoveryInv is inductive.
THEOREM NoRowIsOrphaned == Spec => []RecoveryInv
<1>1. Init => TypeOK /\ RecoveryInv
  BY RecoveryTypeInit, RecoveryInit
<1>2. TypeOK /\ RecoveryInv /\ [Next]_vars => (TypeOK /\ RecoveryInv)'
  <2> SUFFICES ASSUME TypeOK, RecoveryInv, [Next]_vars PROVE RecoveryInv'
    BY RecoveryTypeNext
  <2>1. CASE UNCHANGED vars
    BY <2>1 DEF vars, arqVars, procVars, countVars, RecoveryInv, WorkersAndArqAgree,
           IdsAreFresh, ActiveRowHasAJob, JobToCome, RowIsActive
  <2>2. QED
    BY <2>1, WorkerKeepsJobs, StartupKeepsJobs, OthersKeepJobs DEF Next
<1>3. QED
  BY <1>1, <1>2, PTL DEF Spec

-------------------------------------------------------------------------------
(* The promise to one job: every step of a startup, a worker or arq is a step of *)
(* RecordedJob, or none.                                                         *)

RecoveryAll == TypeOK /\ RetriedOnce /\ RecoveryInv

LEMMA RecoveryAllInit == Init => RecoveryAll
BY RecoveryTypeInit, RecoveryInit DEF RecoveryAll, Init, RetriedOnce, Submitted

LEMMA RecoveryAllNext == RecoveryAll /\ [Next]_vars => RecoveryAll'
<1> SUFFICES ASSUME RecoveryAll, [Next]_vars PROVE RecoveryInv'
  BY RecoveryTypeNext, RetryNext DEF RecoveryAll
<1>1. CASE UNCHANGED vars
  BY <1>1 DEF vars, arqVars, procVars, countVars, RecoveryAll, RecoveryInv,
         WorkersAndArqAgree, IdsAreFresh, ActiveRowHasAJob, JobToCome, RowIsActive
<1>2. QED
  BY <1>1, WorkerKeepsJobs, StartupKeepsJobs, OthersKeepJobs DEF Next, RecoveryAll

\* Without a crash an active row has something under way, so that no step is the
\* last to leave it.
LEMMA SomethingUnderWay ==
  ASSUME RecoveryAll, row.status \in ActiveStatus
  PROVE  troubles > 0 \/ Found # {} \/ Queued # {} \/ ToReport # {}
<1> USE DEF RecoveryAll, TypeOK, Rows
<1>1. CASE troubles # 0
  BY <1>1, RecoveryAssumption
<1>2. CASE JobToCome
  <2>1. CASE arq[row.id] = "queued"
    BY <2>1 DEF Queued
  <2>2. CASE run[row.id] \in BeforeOutcome
    BY <2>2 DEF ToReport
  <2>3. CASE \E p \in Procs : proc[p] \in {"enqueue", "rotate", "enqueueNew"}
    BY <2>3 DEF Found
  <2>4. QED
    BY <1>2, <2>1, <2>2, <2>3 DEF JobToCome
<1>3. QED
  BY <1>1, <1>2 DEF RecoveryInv, ActiveRowHasAJob, RowIsActive

\* What is mapped, as each kind of step changes it.
Held == {"claim", "enqueue", "rotate", "enqueueNew"} \cup DOMAIN Upcoming

LEMMA ProcMoves ==
  ASSUME TypeOK, NEW p \in Procs, NEW to, proc' = [proc EXCEPT ![p] = to]
  PROVE  Found' = IF to \in Held THEN Found \cup {p} ELSE Found \ {p}
BY DEF TypeOK, Found, Held

LEMMA RunMoves ==
  ASSUME TypeOK, NEW i \in Ids, NEW to, run' = [run EXCEPT ![i] = to]
  PROVE  ToReport' = IF to \in BeforeOutcome THEN ToReport \cup {i} ELSE ToReport \ {i}
BY DEF TypeOK, ToReport

LEMMA ArqMoves ==
  ASSUME TypeOK, NEW i \in Ids, NEW to, arq' = [arq EXCEPT ![i] = to]
  PROVE  Queued' = IF to = "queued" THEN Queued \cup {i} ELSE Queued \ {i}
BY DEF TypeOK, Queued

LEMMA MarkMoves ==
  ASSUME TypeOK, NEW i \in Ids, NEW s, Mark(i, s)
  PROVE  row'.status \in {row.status, s}
BY DEF TypeOK, Rows, Mark

LEMMA StartupMaps ==
  ASSUME RecoveryAll, NEW p \in Procs, Startup(p) \/ Reconcile(p)
  PROVE  Promised!Step \/ UNCHANGED Promised!job
<1> USE DEF RecoveryAll
<1>1. CASE Startup(p)
  <2>1. PICK from \in {"up", "down"} : MoveProc(p, from, "list")
    BY <1>1 DEF Startup
  <2>2. Found' = Found
    BY <2>1, ProcMoves DEF MoveProc, Held, Upcoming, Found
  <2>3. QED
    BY <1>1, <2>2 DEF Startup, Promised!job, arqVars, Queued, ToReport
<1>2. CASE List(p)
  <2>1. UNCHANGED <<row, claims, troubles, Queued, ToReport>>
    BY <1>2 DEF List, arqVars, countVars, Queued, ToReport
  <2>2. CASE Recoverable
    <3>1. p \notin Found /\ Found' = Found \cup {p}
      BY <1>2, <2>2, ProcMoves DEF List, MoveProc, Held, Upcoming, Found
    <3>2. row.status \in Promised!NoOutcome \/ Promised!Retriable
      BY <2>2 DEF Recoverable, RowIsActive, ActiveStatus, Promised!NoOutcome, Promised!Retriable, RetriedOnce
    <3>3. Promised!Find(p)
      BY <2>1, <3>1, <3>2 DEF Promised!Find
    <3>4. QED
      BY <3>3 DEF Promised!Step
  <2>3. CASE ~Recoverable
    <3>1. Found' = Found
      BY <1>2, <2>3, ProcMoves DEF List, MoveProc, Held, Upcoming, Found
    <3>2. QED
      BY <2>1, <3>1 DEF Promised!job
  <2>4. QED
    BY <2>2, <2>3
<1>3. CASE Claim(p)
  <2>1. UNCHANGED <<troubles, Queued, ToReport>>
    BY <1>3 DEF Claim, arqVars, countVars, Queued, ToReport
  <2>2. CASE Claimable(p) /\ ~OtherIsActive
    <3>1. p \in Found /\ Found' = Found
      BY <1>3, <2>2, ProcMoves DEF Claim, MoveProc, Held, Found
    <3>2. claims = 0 /\ claims' = 1 /\ row'.status = "queued"
      <4>1. claims = 0
        BY <2>2 DEF Claimable, RetriedOnce
      <4>2. claims' = claims + 1 /\ row' = [row EXCEPT !.status = "queued", !.retryUsed = TRUE]
        BY <1>3, <2>2 DEF Claim
      <4>3. row'.status = "queued"
        BY <4>2 DEF TypeOK, Rows
      <4>4. QED
        BY <4>1, <4>2, <4>3
    <3>3. Promised!Retry(p)
      BY <2>1, <2>2, <3>1, <3>2 DEF Claimable, Promised!Retry, Promised!Retriable
    <3>4. QED
      BY <3>3 DEF Promised!Step
  <2>3. CASE ~(Claimable(p) /\ ~OtherIsActive)
    <3>1. p \in Found /\ Found' = Found \ {p}
      BY <1>3, <2>3, ProcMoves DEF Claim, MoveProc, Held, Upcoming, Found
    <3>2. UNCHANGED <<row, claims>>
      BY <1>3, <2>3 DEF Claim
    <3>3. Promised!Leave(p)
      BY <2>1, <3>1, <3>2 DEF Promised!Leave
    <3>4. QED
      BY <3>3 DEF Promised!Step
  <2>4. QED
    BY <2>2, <2>3
<1>4. CASE EnqueueRecorded(p) \/ EnqueueFresh(p)
  <2>1. UNCHANGED <<row, claims, troubles, ToReport>> /\ p \in Found
    BY <1>4 DEF EnqueueRecorded, EnqueueFresh, MoveProc, countVars, ToReport, Found
  <2>2. CASE arq[jobId[p]] = "unknown" /\ arq' = [arq EXCEPT ![jobId[p]] = "queued"]
             /\ proc' = [proc EXCEPT ![p] = "register"]
    <3>1. jobId[p] \in Ids
      BY DEF TypeOK
    <3>2. jobId[p] \notin Queued /\ jobId[p] \notin ToReport
      BY <2>2, <3>1 DEF Queued, ToReport, RecoveryInv, WorkersAndArqAgree, BeforeOutcome
    <3>3. Queued' = Queued \cup {jobId[p]}
      BY <2>2, <3>1, ArqMoves
    <3>4. Found' = Found \ {p}
      BY <2>2, ProcMoves DEF Held, Upcoming
    <3>5. Promised!Enqueue(p)
      BY <2>1, <3>1, <3>2, <3>3, <3>4 DEF Promised!Enqueue
    <3>6. QED
      BY <3>5 DEF Promised!Step
  <2>3. CASE UNCHANGED arq /\ proc' = [proc EXCEPT ![p] = "rotate"]
    <3>1. Found' = Found
      BY <2>1, <2>3, ProcMoves DEF Held
    <3>2. QED
      BY <2>1, <2>3, <3>1 DEF Promised!job, Queued
  <2>4. CASE UNCHANGED arq /\ proc' = [proc EXCEPT ![p] = "up"]
    <3>1. Found' = Found \ {p} /\ Queued' = Queued
      BY <2>4, ProcMoves DEF Held, Upcoming, Queued
    <3>2. Promised!Leave(p)
      BY <2>1, <3>1 DEF Promised!Leave
    <3>3. QED
      BY <3>2 DEF Promised!Step
  <2>5. QED
    BY <1>4, <2>2, <2>3, <2>4 DEF EnqueueRecorded, EnqueueFresh, MoveProc
<1>5. CASE Rotate(p)
  <2>1. Found' = Found
    BY <1>5, ProcMoves DEF Rotate, MoveProc, Held, Found
  <2>2. row'.status = row.status
    BY <1>5 DEF Rotate, TypeOK, Rows
  <2>3. QED
    BY <1>5, <2>1, <2>2 DEF Rotate, Promised!job, countVars, Queued, ToReport
<1>6. CASE Register(p)
  <2>1. Found' = Found
    BY <1>6, ProcMoves DEF Register, MoveProc, Held, Upcoming, Found
  <2>2. QED
    BY <1>6, <2>1 DEF Register, Promised!job, arqVars, countVars, Queued, ToReport
<1>7. CASE ClaimEarlier(p)
  <2>1. UNCHANGED <<row, claims, troubles, Queued, ToReport>>
    BY <1>7 DEF ClaimEarlier, arqVars, countVars, Queued, ToReport
  <2>2. PICK pc \in DOMAIN Upcoming, to \in {"down", "claim", "enqueue"} : MoveProc(p, pc, to)
    BY <1>7 DEF ClaimEarlier, Upcoming
  <2>3. p \in Found
    BY <2>2 DEF MoveProc, Found
  <2>4. CASE to = "down"
    <3>1. Found' = Found \ {p}
      BY <2>2, <2>4, ProcMoves DEF MoveProc, Held, Upcoming
    <3>2. Promised!Leave(p)
      BY <2>1, <2>3, <3>1 DEF Promised!Leave
    <3>3. QED
      BY <3>2 DEF Promised!Step
  <2>5. CASE to # "down"
    <3>1. Found' = Found
      BY <2>2, <2>3, <2>5, ProcMoves DEF MoveProc, Held
    <3>2. QED
      BY <2>1, <3>1 DEF Promised!job
  <2>6. QED
    BY <2>4, <2>5
<1>8. QED
  BY <1>1, <1>2, <1>3, <1>4, <1>5, <1>6, <1>7 DEF Reconcile

LEMMA WorkerMaps ==
  ASSUME RecoveryAll, NEW i \in Ids, Work(i) \/ GiveUp(i) \/ ForgetResult(i)
  PROVE  Promised!Step \/ UNCHANGED Promised!job
<1> USE DEF RecoveryAll
<1>1. CASE Take(i)
  <2>1. i \in Queued /\ Queued' = Queued \ {i}
    BY <1>1, ArqMoves, ZenonT(60) DEF Take, Queued
  <2>2. ToReport' = ToReport \cup {i}
    BY <1>1, RunMoves DEF Take, MoveRun, BeforeOutcome
  <2>3. Promised!Start(i)
    BY <1>1, <2>1, <2>2 DEF Take, Promised!Start, procVars, countVars, Found
  <2>4. QED
    BY <2>3 DEF Promised!Step
<1>2. CASE MarkRunning(i)
  <2>1. i \in ToReport /\ ToReport' = ToReport
    <3>1. PICK to \in {"body", "fail"} : MoveRun(i, "markRunning", to)
      BY <1>2 DEF MarkRunning
    <3>2. QED
      BY <3>1, RunMoves DEF MoveRun, BeforeOutcome, ToReport
  <2>2. row'.status \in {row.status, "running"}
    BY <1>2, MarkMoves DEF MarkRunning
  <2>3. Promised!Begin(i)
    BY <1>2, <2>1, <2>2 DEF MarkRunning, Promised!Begin, arqVars, procVars, countVars, Found, Queued
  <2>4. QED
    BY <2>3 DEF Promised!Step
<1>3. CASE Body(i)
  <2>1. ToReport' = ToReport
    BY <1>3, RunMoves DEF Body, MoveRun, BeforeOutcome, ToReport
  <2>2. QED
    BY <1>3, <2>1 DEF Body, Promised!job, arqVars, procVars, countVars, Found, Queued
<1>4. CASE MarkOutcome(i)
  <2>1. i \in ToReport /\ ToReport' = ToReport \ {i}
    BY <1>4, RunMoves DEF MarkOutcome, MoveRun, BeforeOutcome, ToReport
  <2>2. row'.status \in {row.status, "succeeded", "failed"}
    BY <1>4, MarkMoves DEF MarkOutcome
  <2>3. Promised!Report(i)
    BY <1>4, <2>1, <2>2 DEF MarkOutcome, Promised!Report, arqVars, procVars, countVars, Found, Queued
  <2>4. QED
    BY <2>3 DEF Promised!Step
<1>5. CASE Unregister(i)
  <2>1. ToReport' = ToReport
    BY <1>5, RunMoves DEF Unregister, MoveRun, BeforeOutcome, ToReport
  <2>2. QED
    BY <1>5, <2>1 DEF Unregister, Promised!job, arqVars, procVars, countVars, Found, Queued
<1>6. CASE Finish(i)
  <2>1. ToReport' = ToReport
    BY <1>6, RunMoves DEF Finish, MoveRun, BeforeOutcome, ToReport
  <2>2. Queued' = Queued
    BY <1>6, ArqMoves DEF Finish, MoveRun, Queued, RecoveryInv, WorkersAndArqAgree
  <2>3. QED
    BY <1>6, <2>1, <2>2 DEF Finish, Promised!job, procVars, countVars, Found
<1>7. CASE GiveUp(i) \/ ForgetResult(i)
  <2>1. Queued' = Queued
    BY <1>7, ArqMoves DEF GiveUp, ForgetResult, Queued
  <2>2. QED
    BY <1>7, <2>1 DEF GiveUp, ForgetResult, Promised!job, procVars, countVars, Found, ToReport
<1>8. QED
  BY <1>1, <1>2, <1>3, <1>4, <1>5, <1>6, <1>7 DEF Work

\* A crash takes what its process or worker had in hand.
LEMMA CrashMaps ==
  ASSUME RecoveryAll,
         \/ \E p \in Procs : FailToEnqueue(p) \/ CrashProc(p)
         \/ \E i \in Ids : KillWorker(i)
  PROVE  Promised!Step
<1> USE DEF RecoveryAll
<1>1. (troubles > 0)'
  BY RecoveryAssumption DEF FailToEnqueue, CrashProc, KillWorker, Trouble, TypeOK
<1>2. CASE \E p \in Procs : FailToEnqueue(p) \/ CrashProc(p)
  <2>1. PICK p \in Procs : FailToEnqueue(p) \/ CrashProc(p)
    BY <1>2
  <2>2. PICK to \in {"up", "down"} : proc' = [proc EXCEPT ![p] = to]
    BY <2>1 DEF FailToEnqueue, CrashProc, MoveProc
  <2>3. Found' \subseteq Found
    BY <2>2, ProcMoves DEF Held, Upcoming
  <2>4. Promised!Crash
    BY <1>1, <2>1, <2>3 DEF FailToEnqueue, CrashProc, Promised!Crash, arqVars, Queued, ToReport
  <2>5. QED
    BY <2>4 DEF Promised!Step
<1>3. CASE \E i \in Ids : KillWorker(i)
  <2>1. PICK i \in Ids : KillWorker(i)
    BY <1>3
  <2>2. ToReport' \subseteq ToReport
    BY <2>1, RunMoves DEF KillWorker, BeforeOutcome
  <2>3. Promised!Crash
    BY <1>1, <2>1, <2>2 DEF KillWorker, Promised!Crash, arqVars, procVars, Queued, Found
  <2>4. QED
    BY <2>3 DEF Promised!Step
<1>4. QED
  BY <1>2, <1>3

LEMMA OthersMap == OtherJob => UNCHANGED Promised!job
BY DEF OtherJob, Promised!job, arqVars, procVars, countVars, Found, Queued, ToReport

LEMMA RecoveryMaps ==
  ASSUME RecoveryAll, RecoveryAll', [Next]_vars
  PROVE  [Promised!Next]_(Promised!job)
<1>1. Promised!Step \/ UNCHANGED Promised!job
  <2>1. CASE UNCHANGED vars
    BY <2>1 DEF vars, arqVars, procVars, countVars, Promised!job, Found, Queued, ToReport
  <2>2. QED
    BY <2>1, StartupMaps, WorkerMaps, CrashMaps, OthersMap DEF Next
<1>2. (row.status \in Promised!NoOutcome => troubles > 0 \/ Promised!UnderWay)'
  BY SomethingUnderWay, PTL DEF Promised!NoOutcome, ActiveStatus, Promised!UnderWay
<1>3. QED
  BY <1>1, <1>2 DEF Promised!Next

\* The recovery implements RecordedJob, for any processes, startups and crashes.
THEOREM ThePromiseIsKept == Spec => RecoversTheJob
<1>1. Init => Promised!Init
  <2> SUFFICES ASSUME Init PROVE Promised!Init
    OBVIOUS
  <2>1. 1 \in Ids /\ Queued = {1}
    BY RecoveryAssumption DEF Init, Queued, Ids
  <2>2. Found = {} /\ ToReport = {}
    BY DEF Init, Found, Upcoming, ToReport, BeforeOutcome
  <2>3. QED
    BY <2>1, <2>2 DEF Init, Submitted, Promised!Init
<1>2. RecoveryAll /\ RecoveryAll' /\ [Next]_vars => [Promised!Next]_(Promised!job)
  BY RecoveryMaps
<1>3. QED
  BY <1>1, <1>2, RecoveryAllInit, RecoveryAllNext, PTL DEF Spec, RecoversTheJob, Promised!Spec

\* A step of RecordedJob leaves a job alone that has an outcome, no retry left, and
\* nothing under way.
LEMMA RestIsKept ==
  ASSUME RecoveryAll, [Next]_vars, AtRest
  PROVE  AtRest' /\ row' = row
<1> USE DEF RecoveryAll
<1>1. ~Recoverable
  BY DEF AtRest, Recoverable, RowIsActive, ActiveStatus
<1>2. (\A p \in Procs : proc[p] \notin Held) /\ (\A i \in Ids : arq[i] # "queued" /\ run[i] \notin BeforeOutcome)
  BY DEF AtRest, Found, Held, Queued, ToReport
<1>3. row' = row
  BY <1>2 DEF Next, vars, arqVars, procVars, countVars, Startup, Reconcile, List, ClaimEarlier, Claim, OtherJob, EnqueueRecorded,
         Rotate, EnqueueFresh, Register, FailToEnqueue, CrashProc, Work, Take, MarkRunning, Body,
         MarkOutcome, Unregister, Finish, KillWorker, GiveUp, ForgetResult, MoveProc, MoveRun,
         Held, BeforeOutcome
<1>4. Found' = {} /\ Queued' = {} /\ ToReport' = {}
  <2>1. [Promised!Next]_(Promised!job)
    BY RecoveryAllNext, RecoveryMaps
  <2>2. row.status \notin Promised!NoOutcome /\ ~Promised!Retriable
    BY DEF AtRest, Promised!NoOutcome, Promised!Retriable, RetriedOnce
  <2>3. QED
    BY <2>1, <2>2 DEF AtRest, Promised!Next, Promised!Step, Promised!job, Promised!Find, Promised!Retry,
           Promised!Enqueue, Promised!Leave, Promised!Start, Promised!Begin, Promised!Report,
           Promised!Crash
<1>5. QED
  BY <1>3, <1>4 DEF AtRest

\* An outcome is final once no startup has the job in hand and no run of it is queued
\* or under way: no later startup, rotation or crash brings the row back.
THEOREM OutcomesStand == Spec => OutcomeIsFinal
<1>1. RecoveryAll /\ [Next]_vars => [AtRest => AtRest' /\ row' = row]_vars
  BY RestIsKept
<1>2. QED
  BY <1>1, RecoveryAllInit, RecoveryAllNext, PTL DEF Spec, OutcomeIsFinal
=============================================================================
