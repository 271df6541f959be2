------------------------- MODULE DiagnosisJobs_proofs -------------------------
(***************************************************************************)
(* Theorems about DiagnosisJobs, for any number of threads, tenants, API   *)
(* processes, jobs and cancel requests.                                    *)
(*                                                                         *)
(* Types and the phase count hold whatever fails.  The mutual exclusion,   *)
(* the refinement of TenantSlots and the promises of a cancellation hold   *)
(* under the two hypotheses that the findings of the README show to be     *)
(* needed: the jobs are diagnoses (an adoption or a review registers and   *)
(* unregisters the same keys) and no fault occurs.                         *)
(***************************************************************************)
EXTENDS DiagnosisJobs, TLAPS

-----------------------------------------------------------------------------
(* Types                                                                   *)

TypeInv == TypeOK /\ PhasesRunOnce

\* Every variable starts in its type.
LEMMA TypeInit == Init => TypeInv
BY SMTT(30), ConstantsAssumption DEF Init, TypeInv, TypeOK, PhasesRunOnce, RowStatus,
       Phases, SubPC, JobPC, CancelPC

\* Every step of a submission, a worker, a cancel request or a TTL keeps the types,
\* and a worker enters no fourth phase.
LEMMA TypeNext == TypeInv /\ [Next]_vars => TypeInv'
<1> SUFFICES ASSUME TypeInv, [Next]_vars PROVE TypeInv'
  OBVIOUS
<1> USE ConstantsAssumption
    DEF TypeInv, TypeOK, PhasesRunOnce, redisVars, pgVars, apiVars, workerVars,
        cancelVars, histVars, sessionVars
<1>1. ASSUME NEW j \in Jobs, AcquireStartLock(j) PROVE TypeInv'
  BY <1>1 DEF AcquireStartLock, IsDiagnosis, StartLockOf, Tenant, MoveSub,
       SubPC
<1>2. ASSUME NEW j \in Jobs, CheckActive(j) PROVE TypeInv'
  BY <1>2 DEF CheckActive, Tenant, EndStart, MoveSub, StartLockOf, SubPC
<1>3. ASSUME NEW j \in Jobs, ClaimTenant(j) PROVE TypeInv'
  BY <1>3 DEF ClaimTenant, Tenant, MoveSub, SubPC
<1>4. ASSUME NEW j \in Jobs, ReadClaimHolder(j) PROVE TypeInv'
  BY <1>4 DEF ReadClaimHolder, EndStart, MoveSub, StartLockOf, Tenant, SubPC
<1>5. ASSUME NEW j \in Jobs, SubmitAdoption(j) PROVE TypeInv'
  BY <1>5 DEF SubmitAdoption, MoveSub, SubPC
<1>6. ASSUME NEW j \in Jobs, SetPending(j) PROVE TypeInv'
  BY <1>6 DEF SetPending, MoveSub, SubPC
<1>7. ASSUME NEW j \in Jobs, SubmitReview(j) PROVE TypeInv'
  BY <1>7 DEF SubmitReview, MoveSub, SubPC
<1>8. ASSUME NEW j \in Jobs, Enqueue(j) PROVE TypeInv'
  BY <1>8 DEF Enqueue, MoveSub, RaiseSub, IsDiagnosis, SubPC, JobPC, BodyPC,
       ExceptPC, FinallyPC
<1>9. ASSUME NEW j \in Jobs, RecordJob(j) PROVE TypeInv'
  BY <1>9 DEF RecordJob, MoveSub, RaiseSub, IsDiagnosis, SubPC, RowStatus
<1>10. ASSUME NEW j \in Jobs, RegisterRunning(j) PROVE TypeInv'
  BY <1>10 DEF RegisterRunning, MoveSub, Accept, IsDiagnosis, EndStart,
       StartLockOf, Tenant, SubPC
<1>11. ASSUME NEW j \in Jobs, RegisterActive(j) PROVE TypeInv'
  BY <1>11 DEF RegisterActive, Accept, IsDiagnosis, EndStart, MoveSub,
       StartLockOf, Tenant, SubPC
<1>12. ASSUME NEW j \in Jobs, ReadOwnClaim(j) PROVE TypeInv'
  BY <1>12 DEF ReadOwnClaim, Tenant, MoveSub, EndStart, StartLockOf, SubPC
<1>13. ASSUME NEW j \in Jobs, DeleteOwnClaim(j) PROVE TypeInv'
  BY <1>13 DEF DeleteOwnClaim, EndStart, MoveSub, StartLockOf, Tenant, SubPC
<1>14. ASSUME NEW j \in Jobs, TakeJob(j) PROVE TypeInv'
  BY <1>14 DEF TakeJob, MoveJob, JobPC, BodyPC, ExceptPC, FinallyPC
<1>15. ASSUME NEW j \in Jobs, MarkRunning(j) PROVE TypeInv'
  BY <1>15 DEF MarkRunning, MoveJob, IsDiagnosis, Mark, JobPC, BodyPC,
       ExceptPC, FinallyPC, RowStatus
<1>16. ASSUME NEW j \in Jobs, CreateSession(j) PROVE TypeInv'
  BY <1>16 DEF CreateSession, MoveJob, SetSession, JobPC, BodyPC, ExceptPC,
       FinallyPC, Phases
<1>17. ASSUME NEW j \in Jobs, CheckCancel(j) PROVE TypeInv'
  BY <1>17 DEF CheckCancel, IfCancelRequested, MoveJob, JobPC, BodyPC,
       ExceptPC, FinallyPC
<1>18. ASSUME NEW j \in Jobs, StartPhase(j) PROVE TypeInv'
  BY <1>18 DEF StartPhase, MoveJob, SetSession, PhaseOf, JobPC, BodyPC,
       ExceptPC, FinallyPC, Phases
<1>19. ASSUME NEW j \in Jobs, RunPhase(j) PROVE TypeInv'
  BY <1>19 DEF RunPhase, MoveJob, JobPC, BodyPC, ExceptPC, FinallyPC
<1>20. ASSUME NEW j \in Jobs, FinishDiagnosis(j) PROVE TypeInv'
  BY <1>20 DEF FinishDiagnosis, MoveJob, SetSession, JobPC, BodyPC,
       ExceptPC, FinallyPC, Phases
<1>21. ASSUME NEW j \in Jobs, Resume(j) PROVE TypeInv'
  BY <1>21 DEF Resume, MoveJob, StartPhases, JobPC, BodyPC, ExceptPC,
       FinallyPC
<1>22. ASSUME NEW j \in Jobs, EnterPhase(j) PROVE TypeInv'
  BY <1>22 DEF EnterPhase, MoveJob, SetSession, JobPC, BodyPC, ExceptPC,
       FinallyPC, Phases
<1>23. ASSUME NEW j \in Jobs, Work(j) PROVE TypeInv'
  BY <1>23 DEF Work, SetSession, MoveJob, JobPC, BodyPC, ExceptPC,
       FinallyPC, Phases
<1>24. ASSUME NEW j \in Jobs, Track(j) PROVE TypeInv'
  BY <1>24 DEF Track, MoveJob, SetSession, JobPC, BodyPC, ExceptPC,
       FinallyPC, Phases
<1>25. ASSUME NEW j \in Jobs, Decide(j) PROVE TypeInv'
  BY <1>25 DEF Decide, IfCancelRequested, MoveJob, JobPC, BodyPC, ExceptPC,
       FinallyPC
<1>26. ASSUME NEW j \in Jobs, Raise(j) PROVE TypeInv'
  BY <1>26 DEF Raise, JobPC, BodyPC, ExceptPC, FinallyPC
<1>27. ASSUME NEW j \in Jobs, Interrupt(j) PROVE TypeInv'
  BY <1>27 DEF Interrupt, BodyPC, JobPC, ExceptPC, FinallyPC
<1>28. ASSUME NEW j \in Jobs, DecideOnCancel(j) PROVE TypeInv'
  BY <1>28 DEF DecideOnCancel, IfCancelRequested, MoveJob, JobPC, BodyPC,
       ExceptPC, FinallyPC
<1>29. ASSUME NEW j \in Jobs, MarkOutcome(j) PROVE TypeInv'
  BY <1>29 DEF MarkOutcome, MoveJob, Mark, JobPC, BodyPC, ExceptPC,
       FinallyPC, RowStatus
<1>30. ASSUME NEW j \in Jobs, LookupTenant(j) PROVE TypeInv'
  BY <1>30 DEF LookupTenant, MoveJob, JobPC, BodyPC, ExceptPC, FinallyPC
<1>31. ASSUME NEW j \in Jobs, DeleteRunning(j) PROVE TypeInv'
  BY ZenonT(60), <1>31 DEF DeleteRunning, MoveJob, JobPC, BodyPC, ExceptPC, FinallyPC
<1>32. ASSUME NEW j \in Jobs, DeleteCancel(j) PROVE TypeInv'
  BY ZenonT(60), <1>32 DEF DeleteCancel, MoveJob, JobPC, BodyPC, ExceptPC, FinallyPC
<1>33. ASSUME NEW j \in Jobs, ReadActive(j) PROVE TypeInv'
  BY <1>33 DEF ReadActive, Tenant, MoveJob, JobPC, BodyPC, ExceptPC,
       FinallyPC
<1>34. ASSUME NEW j \in Jobs, DeleteActive(j) PROVE TypeInv'
  BY <1>34 DEF DeleteActive, MoveJob, Tenant, JobPC, BodyPC, ExceptPC,
       FinallyPC
<1>35. ASSUME NEW c \in CancelCalls, NEW t \in Threads, AcquireCancelLock(c, t)
     PROVE  TypeInv'
  BY <1>35 DEF AcquireCancelLock, MoveCancel, CancelPC
<1>36. ASSUME NEW c \in CancelCalls, CheckRunning(c) PROVE TypeInv'
  BY <1>36 DEF CheckRunning, MoveCancel, CancelPC
<1>37. ASSUME NEW c \in CancelCalls, RequestCancel(c) PROVE TypeInv'
  BY <1>37 DEF RequestCancel, MoveCancel, Live, BeforeDecision, BodyPC,
       CancelPC
<1>38. ASSUME NEW c \in CancelCalls, CancelRows(c) PROVE TypeInv'
  BY <1>38 DEF CancelRows, MoveCancel, ActiveStatus, RowStatus, CancelPC
<1>39. ASSUME NEW c \in CancelCalls, ReleaseCancelLock(c) PROVE TypeInv'
  BY <1>39 DEF ReleaseCancelLock, MoveCancel, CancelPC
<1>40. ASSUME NEW k \in Tenants, ExpireActive(k) PROVE TypeInv'
  BY <1>40 DEF ExpireActive
<1>41. ASSUME NEW t \in Threads, ExpireRunning(t) PROVE TypeInv'
  BY <1>41 DEF ExpireRunning
<1>42. ASSUME NEW t \in Threads, ExpireCancel(t) PROVE TypeInv'
  BY <1>42 DEF ExpireCancel
<1>43. ASSUME NEW t \in Threads, ExpireCancelLock(t) PROVE TypeInv'
  BY <1>43 DEF ExpireCancelLock
<1>44. CASE UNCHANGED vars
  BY <1>44 DEF vars
<1>45. QED
  BY <1>1, <1>2, <1>3, <1>4, <1>5, <1>6, <1>7, <1>8, <1>9, <1>10, <1>11,
       <1>12, <1>13, <1>14, <1>15, <1>16, <1>17, <1>18, <1>19, <1>20, <1>21,
       <1>22, <1>23, <1>24, <1>25, <1>26, <1>27, <1>28, <1>29, <1>30, <1>31,
       <1>32, <1>33, <1>34, <1>35, <1>36, <1>37, <1>38, <1>39, <1>40, <1>41,
       <1>42, <1>43, <1>44 DEF Next,
       Submission, Worker, CancelCall, Expiry

\* The type invariant, and each phase of a diagnosis at most once, hold of every
\* behaviour, with every fault and every kind of job.
THEOREM TypeCorrect == Spec => [](TypeOK /\ PhasesRunOnce)
<1>1. Init => TypeInv
  BY TypeInit
<1>2. TypeInv /\ [Next]_vars => TypeInv'
  BY TypeNext
<1>3. QED
  BY <1>1, <1>2, PTL DEF Spec, TypeInv

-----------------------------------------------------------------------------
(* One diagnosis per tenant                                                *)

\* Init frees every slot.
LEMMA SlotInit == Init => SlotInv
BY ConstantsAssumption
   DEF Init, SlotInv, SlotIsExclusive, SlotIsClaimed, JobWasEnqueued, Holder,
       Live, Diagnoses, Tenant

\* The slot invariant reads three variables.
LEMMA SlotUntouched ==
  ASSUME SlotInv, UNCHANGED <<sub, job, tenantActive>> PROVE SlotInv'
BY DEF SlotInv, SlotIsExclusive, SlotIsClaimed, JobWasEnqueued, Holder, Live

\* A worker's step moves a live job on, and no submission.
LEMMA WorkerMoves ==
  ASSUME TypeInv, NEW j \in Jobs, Worker(j) \/ Raise(j) \/ Interrupt(j)
  PROVE  /\ Live(j)
         /\ \E pc \in JobPC \ {"absent"} : job' = [job EXCEPT ![j] = pc]
         /\ sub' = sub
<1> DEFINE Moves == /\ Live(j)
                    /\ \E pc \in JobPC \ {"absent"} : job' = [job EXCEPT ![j] = pc]
                    /\ sub' = sub
<1> USE DEF MoveJob, Live, JobPC, BodyPC, ExceptPC, FinallyPC, apiVars
<1>1. CASE TakeJob(j)
  BY <1>1 DEF TakeJob
<1>2. CASE MarkRunning(j)
  BY <1>2 DEF MarkRunning
<1>3. CASE CreateSession(j)
  BY <1>3 DEF CreateSession
<1>4. CASE CheckCancel(j)
  BY <1>4 DEF CheckCancel, IfCancelRequested
<1>5. CASE StartPhase(j)
  BY <1>5 DEF StartPhase
<1>6. CASE RunPhase(j)
  BY <1>6 DEF RunPhase
<1>7. CASE FinishDiagnosis(j)
  BY <1>7 DEF FinishDiagnosis
<1>8. CASE Resume(j)
  BY <1>8 DEF Resume
<1>9. CASE EnterPhase(j)
  BY <1>9 DEF EnterPhase
<1>10. CASE Work(j)
  BY <1>10 DEF Work
<1>11. CASE Track(j)
  BY <1>11 DEF Track
<1>12. CASE Decide(j)
  BY <1>12 DEF Decide, IfCancelRequested
<1>13. CASE Raise(j)
  BY <1>13 DEF Raise
<1>14. CASE Interrupt(j)
  BY <1>14 DEF Interrupt
<1>15. CASE DecideOnCancel(j)
  BY <1>15 DEF DecideOnCancel, IfCancelRequested
<1>16. CASE MarkOutcome(j)
  BY <1>16 DEF MarkOutcome
<1>17. CASE LookupTenant(j)
  BY <1>17 DEF LookupTenant
<1>18. CASE DeleteRunning(j)
  BY <1>18 DEF DeleteRunning
<1>19. CASE DeleteCancel(j)
  BY <1>19 DEF DeleteCancel
<1>20. CASE ReadActive(j)
  BY <1>20 DEF ReadActive
<1>21. CASE DeleteActive(j)
  BY <1>21 DEF DeleteActive
<1>22. QED
  BY <1>1, <1>2, <1>3, <1>4, <1>5, <1>6, <1>7, <1>8, <1>9, <1>10, <1>11,
       <1>12, <1>13, <1>14, <1>15, <1>16, <1>17, <1>18, <1>19, <1>20, <1>21 DEF Worker

\* Moving a live job on, the claims untouched, takes and frees no other slot.
LEMMA WorkerKeepsSlot ==
  ASSUME TypeInv, SlotInv, NEW j \in Jobs, Live(j), UNCHANGED <<sub, tenantActive>>,
         \E pc \in JobPC \ {"absent"} : job' = [job EXCEPT ![j] = pc]
  PROVE  SlotInv'
BY DEF TypeInv, TypeOK, SlotInv, SlotIsExclusive, SlotIsClaimed, JobWasEnqueued,
       Holder, Live, Diagnoses

\* Without faults, and with nothing but diagnoses, every step keeps the slots
\* exclusive and claimed.
LEMMA SlotNext ==
  ASSUME Diagnoses = Jobs, Faults = {}
  PROVE  TypeInv /\ SlotInv /\ [Next]_vars => SlotInv'
<1> SUFFICES ASSUME TypeInv, SlotInv, [Next]_vars PROVE SlotInv'
  OBVIOUS
<1> USE ConstantsAssumption
    DEF redisVars, pgVars, sessionVars, apiVars, workerVars, cancelVars, histVars
<1> USE DEF TypeInv, TypeOK, SlotInv, SlotIsExclusive, SlotIsClaimed,
       JobWasEnqueued, Holder, Live, Diagnoses, Tenant, IsDiagnosis, MoveSub
<1>1. ASSUME NEW j \in Jobs, AcquireStartLock(j) PROVE SlotInv'
  BY <1>1 DEF AcquireStartLock
<1>2. ASSUME NEW j \in Jobs, CheckActive(j) PROVE SlotInv'
  BY <1>2 DEF CheckActive, EndStart
<1>3. ASSUME NEW j \in Jobs, ClaimTenant(j) PROVE SlotInv'
  BY <1>3 DEF ClaimTenant
<1>4. ASSUME NEW j \in Jobs, ReadClaimHolder(j) PROVE SlotInv'
  BY <1>4 DEF ReadClaimHolder, EndStart
<1>5. ASSUME NEW j \in Jobs, Enqueue(j) PROVE SlotInv'
  BY SMTT(30), <1>5 DEF Enqueue, RaiseSub
<1>6. ASSUME NEW j \in Jobs, RecordJob(j) PROVE SlotInv'
  <2>1. ThreadFree(j)
    BY OneDiagnosisPerThread DEF ThreadFree
  <2>2. QED
    BY <1>6, <2>1 DEF RecordJob, RaiseSub
<1>7. ASSUME NEW j \in Jobs, RegisterRunning(j) PROVE SlotInv'
  BY <1>7 DEF RegisterRunning, Accept, EndStart
<1>8. ASSUME NEW j \in Jobs, RegisterActive(j) PROVE SlotInv'
  BY <1>8 DEF RegisterActive, Accept, EndStart
<1>9. ASSUME NEW j \in Jobs, ReadOwnClaim(j) PROVE SlotInv'
  BY SMTT(30), <1>9 DEF ReadOwnClaim, EndStart
<1>10. ASSUME NEW j \in Jobs, DeleteOwnClaim(j) PROVE SlotInv'
  BY ZenonT(60), <1>10 DEF DeleteOwnClaim, EndStart
<1>11. ASSUME NEW j \in Jobs, SubmitAdoption(j) PROVE SlotInv'
  BY <1>11 DEF SubmitAdoption
<1>12. ASSUME NEW j \in Jobs, SetPending(j) PROVE SlotInv'
  BY <1>12 DEF SetPending
<1>13. ASSUME NEW j \in Jobs, SubmitReview(j) PROVE SlotInv'
  BY <1>13 DEF SubmitReview
<1>14. ASSUME NEW j \in Jobs, DeleteActive(j) PROVE SlotInv'
  BY <1>14 DEF DeleteActive, MoveJob
<1>15. ASSUME NEW k \in Tenants, ExpireActive(k) PROVE SlotInv'
  BY <1>15 DEF ExpireActive, Occupied, Submitting
<1> HIDE DEF TypeInv, TypeOK, SlotInv, SlotIsExclusive, SlotIsClaimed,
       JobWasEnqueued, Holder, Live, Diagnoses, Tenant, IsDiagnosis, MoveSub
<1>16. ASSUME NEW j \in Jobs, Worker(j) \/ Raise(j) \/ Interrupt(j), ~DeleteActive(j)
     PROVE  SlotInv'
  <2>1. tenantActive' = tenantActive
    BY <1>16 DEF Worker, TakeJob, MarkRunning, CreateSession, CheckCancel,
       StartPhase, RunPhase, FinishDiagnosis, Resume, EnterPhase, Work,
       Track, Decide, Raise, Interrupt, DecideOnCancel, MarkOutcome,
       LookupTenant, DeleteRunning, DeleteCancel, ReadActive
  <2>2. QED
    BY <1>16, <2>1, WorkerMoves, WorkerKeepsSlot
<1>17. CASE UNCHANGED <<sub, job, tenantActive>>
  BY <1>17, SlotUntouched
<1>18. QED
  BY <1>1, <1>2, <1>3, <1>4, <1>5, <1>6, <1>7, <1>8, <1>9, <1>10, <1>11,
       <1>12, <1>13, <1>14, <1>15, <1>16, <1>17
     DEF Next, Submission, CancelCall, Expiry, AcquireCancelLock,
       CheckRunning, RequestCancel, CancelRows, ReleaseCancelLock,
       ExpireRunning, ExpireCancel, ExpireCancelLock, vars

\* The claim protocol is correct: without faults, and with nothing but diagnoses,
\* at most one diagnosis of a tenant is queued or running at a time.
THEOREM OneDiagnosisPerTenant ==
  ASSUME Diagnoses = Jobs, Faults = {}
  PROVE  Spec => [](SlotInv /\ TenantMutex)
<1>1. Init => TypeInv /\ SlotInv
  BY TypeInit, SlotInit
<1>2. TypeInv /\ SlotInv /\ [Next]_vars => (TypeInv /\ SlotInv)'
  BY TypeNext, SlotNext
<1>3. SlotInv => TenantMutex
  BY DEF SlotInv, SlotIsExclusive, Holder, TenantMutex
<1>4. QED
  BY <1>1, <1>2, <1>3, PTL DEF Spec

-----------------------------------------------------------------------------
(* Refinement                                                              *)

\* A step that moves no job is a stutter of TenantSlots.
LEMMA StageUntouched == job' = job => UNCHANGED Stage
BY DEF Stage

\* Enqueueing a diagnosis begins it, the end of its worker's finally clause ends
\* it, and every other step leaves the slots alone.
LEMMA StepRefines ==
  ASSUME Diagnoses = Jobs, Faults = {}
  PROVE  TypeInv /\ SlotInv /\ [Next]_vars => [Slots!Next]_Stage
<1> SUFFICES ASSUME TypeInv, SlotInv, [Next]_vars PROVE [Slots!Next]_Stage
  OBVIOUS
<1>1. ASSUME NEW j \in Jobs, Enqueue(j) PROVE [Slots!Next]_Stage
  <2>1. CASE job' = job
    BY <2>1, StageUntouched
  <2>2. CASE job' # job
    <3>1. sub[j] = "enqueue" /\ job' = [job EXCEPT ![j] = "queued"]
      BY <1>1, <2>2 DEF Enqueue, RaiseSub, MoveSub
    <3>2. job[j] = "absent"
      BY <3>1 DEF SlotInv, JobWasEnqueued
    <3>3. \A i \in Jobs : Tenant(i) = Tenant(j) => ~Live(i)
      BY <3>1, <3>2 DEF SlotInv, SlotIsExclusive, Holder, Live
    <3>4. Stage' = [Stage EXCEPT ![j] = "active"]
      BY <3>1 DEF Stage, TypeInv, TypeOK
    <3>5. Slots!Begin(j)
      BY <3>2, <3>3, <3>4 DEF Slots!Begin, Stage, Live
    <3>6. QED
      BY <3>5 DEF Slots!Next
  <2>3. QED
    BY <2>1, <2>2
<1>2. ASSUME NEW j \in Jobs, Worker(j) \/ Raise(j) \/ Interrupt(j)
      PROVE  [Slots!Next]_Stage
  <2>1. PICK pc \in JobPC \ {"absent"} : job' = [job EXCEPT ![j] = pc]
    BY <1>2, WorkerMoves
  <2>2. Live(j)
    BY <1>2, WorkerMoves
  <2>3. Stage[j] = "active"
    BY <2>2 DEF Live, Stage
  <2>4. CASE pc = "over"
    <3>1. Stage' = [Stage EXCEPT ![j] = "ended"]
      BY <2>1, <2>4 DEF Stage, TypeInv, TypeOK
    <3>2. Slots!End(j)
      BY <2>3, <3>1 DEF Slots!End
    <3>3. QED
      BY <3>2 DEF Slots!Next
  <2>5. CASE pc # "over"
    <3>1. Stage' = Stage
      BY <2>1, <2>2, <2>5 DEF Stage, Live, TypeInv, TypeOK
    <3>2. QED
      BY <3>1
  <2>6. QED
    BY <2>4, <2>5
<1>3. CASE job' = job
  BY <1>3, StageUntouched
<1>4. QED
  BY <1>1, <1>2, <1>3
  DEF Next, Submission, CancelCall, Expiry, AcquireStartLock, CheckActive,
       ClaimTenant, ReadClaimHolder, SubmitAdoption, SetPending,
       SubmitReview, RecordJob, RegisterRunning, RegisterActive,
       ReadOwnClaim, DeleteOwnClaim, AcquireCancelLock, CheckRunning,
       RequestCancel, CancelRows, ReleaseCancelLock, ExpireActive,
       ExpireRunning, ExpireCancel, ExpireCancelLock, workerVars, vars

\* The jobs of any number of API processes, workers and clients implement one slot
\* per tenant: a diagnosis begins only while no other of its tenant is active, and
\* begins and ends at most once.
THEOREM JobsImplementSlots ==
  ASSUME Diagnoses = Jobs, Faults = {}
  PROVE  Spec => Slots!Spec
<1>1. Init => Slots!Init
  BY DEF Init, Slots!Init, Stage, Diagnoses
<1>2. Init => TypeInv /\ SlotInv
  BY TypeInit, SlotInit
<1>3. TypeInv /\ SlotInv /\ [Next]_vars => (TypeInv /\ SlotInv)'
  BY TypeNext, SlotNext
<1>4. TypeInv /\ SlotInv /\ [Next]_vars => [Slots!Next]_Stage
  BY StepRefines
<1>5. QED
  BY <1>1, <1>2, <1>3, <1>4, PTL DEF Spec, Slots!Spec

-----------------------------------------------------------------------------
(* Cancellation                                                            *)

\* Nobody has asked for a cancellation at first.
LEMMA CancelInit == Init => CancelInv
BY SMTT(30), ConstantsAssumption
   DEF Init, CancelInv, CancelFollowsRecord, FlagStays, PhaseAfterCancel,
       OutcomeFollowsFlag, CancelStopsPhases, CancelWasMeant, Diagnoses, Live

\* Without faults, and with nothing but diagnoses, the cancel flag, the row and the
\* worker keep in step, however their reads and writes interleave.
LEMMA CancelNext ==
  ASSUME Diagnoses = Jobs, Faults = {}
  PROVE  TypeInv /\ CancelInv /\ [Next]_vars => CancelInv'
<1> SUFFICES ASSUME TypeInv, CancelInv, [Next]_vars PROVE CancelInv'
  OBVIOUS
<1>o. \A i, j \in Jobs : JobThread[i] = JobThread[j] => i = j
  BY OneDiagnosisPerThread DEF Diagnoses
<1> USE ConstantsAssumption
    DEF redisVars, pgVars, sessionVars, apiVars, workerVars, cancelVars, histVars
<1> USE DEF TypeInv, TypeOK, CancelInv, CancelFollowsRecord, FlagStays,
       PhaseAfterCancel, OutcomeFollowsFlag, CancelStopsPhases,
       CancelWasMeant, Diagnoses, Live, FinallyPC, IsDiagnosis
<1>1. ASSUME NEW j \in Jobs, AcquireStartLock(j) PROVE CancelInv'
  BY <1>1, <1>o DEF AcquireStartLock, MoveSub
<1>2. ASSUME NEW j \in Jobs, CheckActive(j) PROVE CancelInv'
  BY <1>2, <1>o DEF CheckActive, EndStart, MoveSub
<1>3. ASSUME NEW j \in Jobs, ClaimTenant(j) PROVE CancelInv'
  BY <1>3, <1>o DEF ClaimTenant, MoveSub
<1>4. ASSUME NEW j \in Jobs, ReadClaimHolder(j) PROVE CancelInv'
  BY <1>4, <1>o DEF ReadClaimHolder, EndStart, MoveSub
<1>5. ASSUME NEW j \in Jobs, SubmitAdoption(j) PROVE CancelInv'
  BY <1>5, <1>o DEF SubmitAdoption, MoveSub
<1>6. ASSUME NEW j \in Jobs, SetPending(j) PROVE CancelInv'
  BY <1>6, <1>o DEF SetPending, MoveSub
<1>7. ASSUME NEW j \in Jobs, SubmitReview(j) PROVE CancelInv'
  BY <1>7, <1>o DEF SubmitReview, MoveSub
<1>8. ASSUME NEW j \in Jobs, Enqueue(j) PROVE CancelInv'
  <2>1. CancelFollowsRecord'
    BY <1>8, <1>o DEF Enqueue, MoveSub, RaiseSub
  <2>2. FlagStays'
    BY <1>8, <1>o DEF Enqueue, MoveSub, RaiseSub, PhasesRunOnce
  <2>3. PhaseAfterCancel'
    BY SMTT(30), <1>8, <1>o DEF Enqueue, MoveSub, RaiseSub
  <2>4. OutcomeFollowsFlag'
    BY <1>8, <1>o DEF Enqueue, MoveSub, RaiseSub
  <2>5. CancelStopsPhases' /\ CancelWasMeant'
    BY <1>8, <1>o DEF Enqueue, MoveSub, RaiseSub
  <2>6. QED
    BY <2>1, <2>2, <2>3, <2>4, <2>5
<1>9. ASSUME NEW j \in Jobs, RecordJob(j) PROVE CancelInv'
  <2>1. CancelFollowsRecord'
    BY <1>9, <1>o DEF RecordJob, ThreadFree, MoveSub, RaiseSub
  <2>2. FlagStays'
    BY <1>9, <1>o DEF RecordJob, ThreadFree, MoveSub, RaiseSub
  <2>3. PhaseAfterCancel'
    BY <1>9, <1>o DEF RecordJob, ThreadFree, MoveSub, RaiseSub
  <2>4. OutcomeFollowsFlag'
    BY SMTT(30), <1>9, <1>o DEF RecordJob, ThreadFree, MoveSub, RaiseSub
  <2>5. CancelStopsPhases' /\ CancelWasMeant'
    BY <1>9, <1>o DEF RecordJob, ThreadFree, MoveSub, RaiseSub
  <2>6. QED
    BY <2>1, <2>2, <2>3, <2>4, <2>5
<1>10. ASSUME NEW j \in Jobs, RegisterRunning(j) PROVE CancelInv'
  <2>1. CancelFollowsRecord'
    BY <1>10, <1>o DEF RegisterRunning, MoveSub, Accept, EndStart
  <2>2. FlagStays'
    BY <1>10, <1>o DEF RegisterRunning, MoveSub, Accept, EndStart
  <2>3. PhaseAfterCancel'
    BY <1>10, <1>o DEF RegisterRunning, MoveSub, Accept, EndStart
  <2>4. OutcomeFollowsFlag'
    BY <1>10, <1>o DEF RegisterRunning, MoveSub, Accept, EndStart
  <2>5. CancelStopsPhases' /\ CancelWasMeant'
    BY <1>10, <1>o DEF RegisterRunning, MoveSub, Accept, EndStart
  <2>6. QED
    BY <2>1, <2>2, <2>3, <2>4, <2>5
<1>11. ASSUME NEW j \in Jobs, RegisterActive(j) PROVE CancelInv'
  BY <1>11, <1>o DEF RegisterActive, Accept, EndStart, MoveSub
<1>12. ASSUME NEW j \in Jobs, ReadOwnClaim(j) PROVE CancelInv'
  BY <1>12, <1>o DEF ReadOwnClaim, MoveSub, EndStart
<1>13. ASSUME NEW j \in Jobs, DeleteOwnClaim(j) PROVE CancelInv'
  BY <1>13, <1>o DEF DeleteOwnClaim, EndStart, MoveSub
<1>14. ASSUME NEW j \in Jobs, TakeJob(j) PROVE CancelInv'
  BY <1>14, <1>o DEF TakeJob, MoveJob
<1>15. ASSUME NEW j \in Jobs, MarkRunning(j) PROVE CancelInv'
  BY <1>15, <1>o DEF MarkRunning, ThreadFree, MoveJob, Mark
<1>16. ASSUME NEW j \in Jobs, CreateSession(j) PROVE CancelInv'
  BY <1>16, <1>o DEF CreateSession, MoveJob, SetSession
<1>17. ASSUME NEW j \in Jobs, CheckCancel(j) PROVE CancelInv'
  <2>1. CancelFollowsRecord'
    BY <1>17, <1>o DEF CheckCancel, IfCancelRequested, MoveJob
  <2>2. FlagStays'
    BY SMTT(30), <1>17, <1>o DEF CheckCancel, IfCancelRequested, MoveJob
  <2>3. PhaseAfterCancel'
    BY <1>17, <1>o DEF CheckCancel, IfCancelRequested, MoveJob
  <2>4. OutcomeFollowsFlag'
    BY <1>17, <1>o DEF CheckCancel, IfCancelRequested, MoveJob
  <2>5. CancelStopsPhases' /\ CancelWasMeant'
    BY <1>17, <1>o DEF CheckCancel, IfCancelRequested, MoveJob
  <2>6. QED
    BY <2>1, <2>2, <2>3, <2>4, <2>5
<1>18. ASSUME NEW j \in Jobs, StartPhase(j) PROVE CancelInv'
  <2>1. CancelFollowsRecord'
    BY <1>18, <1>o DEF StartPhase, MoveJob, SetSession
  <2>2. FlagStays'
    BY <1>18, <1>o DEF StartPhase, MoveJob, SetSession
  <2>3. PhaseAfterCancel'
    BY <1>18, <1>o DEF StartPhase, MoveJob, SetSession
  <2>4. OutcomeFollowsFlag'
    BY <1>18, <1>o DEF StartPhase, MoveJob, SetSession
  <2>5. CancelStopsPhases' /\ CancelWasMeant'
    BY <1>18, <1>o DEF StartPhase, MoveJob, SetSession
  <2>6. QED
    BY <2>1, <2>2, <2>3, <2>4, <2>5
<1>19. ASSUME NEW j \in Jobs, RunPhase(j) PROVE CancelInv'
  BY <1>19, <1>o DEF RunPhase, MoveJob
<1>20. ASSUME NEW j \in Jobs, FinishDiagnosis(j) PROVE CancelInv'
  BY <1>20, <1>o DEF FinishDiagnosis, MoveJob, SetSession
<1>21. ASSUME NEW j \in Jobs, Resume(j) PROVE CancelInv'
  BY <1>21, <1>o DEF Resume, MoveJob, StartPhases
<1>22. ASSUME NEW j \in Jobs, EnterPhase(j) PROVE CancelInv'
  BY <1>22, <1>o DEF EnterPhase, MoveJob, SetSession
<1>23. ASSUME NEW j \in Jobs, Work(j) PROVE CancelInv'
  BY <1>23, <1>o DEF Work, SetSession, MoveJob
<1>24. ASSUME NEW j \in Jobs, Track(j) PROVE CancelInv'
  BY <1>24, <1>o DEF Track, MoveJob, SetSession
<1>25. ASSUME NEW j \in Jobs, Decide(j) PROVE CancelInv'
  <2>1. CancelFollowsRecord'
    BY <1>25, <1>o DEF Decide, IfCancelRequested, MoveJob
  <2>2. FlagStays'
    BY SMTT(30), <1>25, <1>o DEF Decide, IfCancelRequested, MoveJob
  <2>3. PhaseAfterCancel'
    BY <1>25, <1>o DEF Decide, IfCancelRequested, MoveJob
  <2>4. OutcomeFollowsFlag'
    BY <1>25, <1>o DEF Decide, IfCancelRequested, MoveJob
  <2>5. CancelStopsPhases' /\ CancelWasMeant'
    BY <1>25, <1>o DEF Decide, IfCancelRequested, MoveJob
  <2>6. QED
    BY <2>1, <2>2, <2>3, <2>4, <2>5
<1>26. ASSUME NEW j \in Jobs, Raise(j) PROVE CancelInv'
  BY <1>26, <1>o DEF Raise
<1>27. ASSUME NEW j \in Jobs, Interrupt(j) PROVE CancelInv'
  BY <1>27, <1>o DEF Interrupt, BodyPC
<1>28. ASSUME NEW j \in Jobs, DecideOnCancel(j) PROVE CancelInv'
  <2>1. CancelFollowsRecord'
    BY <1>28, <1>o DEF DecideOnCancel, IfCancelRequested, MoveJob
  <2>2. FlagStays'
    BY SMTT(30), <1>28, <1>o DEF DecideOnCancel, IfCancelRequested, MoveJob
  <2>3. PhaseAfterCancel'
    BY <1>28, <1>o DEF DecideOnCancel, IfCancelRequested, MoveJob
  <2>4. OutcomeFollowsFlag'
    BY <1>28, <1>o DEF DecideOnCancel, IfCancelRequested, MoveJob
  <2>5. CancelStopsPhases' /\ CancelWasMeant'
    BY <1>28, <1>o DEF DecideOnCancel, IfCancelRequested, MoveJob
  <2>6. QED
    BY <2>1, <2>2, <2>3, <2>4, <2>5
<1>29. ASSUME NEW j \in Jobs, MarkOutcome(j) PROVE CancelInv'
  <2>1. CancelFollowsRecord'
    BY <1>29, <1>o DEF MarkOutcome, MoveJob, Mark
  <2>2. FlagStays'
    BY SMTT(30), <1>29, <1>o DEF MarkOutcome, MoveJob, Mark
  <2>3. PhaseAfterCancel'
    BY <1>29, <1>o DEF MarkOutcome, MoveJob, Mark
  <2>4. OutcomeFollowsFlag'
    BY <1>29, <1>o DEF MarkOutcome, MoveJob, Mark
  <2>5. CancelStopsPhases' /\ CancelWasMeant'
    BY <1>29, <1>o DEF MarkOutcome, MoveJob, Mark
  <2>6. QED
    BY <2>1, <2>2, <2>3, <2>4, <2>5
<1>30. ASSUME NEW j \in Jobs, LookupTenant(j) PROVE CancelInv'
  BY <1>30, <1>o DEF LookupTenant, MoveJob
<1>31. ASSUME NEW j \in Jobs, DeleteRunning(j) PROVE CancelInv'
  BY <1>31, <1>o DEF DeleteRunning, MoveJob
<1>32. ASSUME NEW j \in Jobs, DeleteCancel(j) PROVE CancelInv'
  <2>1. CancelFollowsRecord'
    BY <1>32, <1>o DEF DeleteCancel, MoveJob
  <2>2. FlagStays'
    BY <1>32, <1>o DEF DeleteCancel, MoveJob
  <2>3. PhaseAfterCancel'
    BY <1>32, <1>o DEF DeleteCancel, MoveJob
  <2>4. OutcomeFollowsFlag'
    BY <1>32, <1>o DEF DeleteCancel, MoveJob
  <2>5. CancelStopsPhases' /\ CancelWasMeant'
    BY <1>32, <1>o DEF DeleteCancel, MoveJob
  <2>6. QED
    BY <2>1, <2>2, <2>3, <2>4, <2>5
<1>33. ASSUME NEW j \in Jobs, ReadActive(j) PROVE CancelInv'
  BY <1>33, <1>o DEF ReadActive, MoveJob
<1>34. ASSUME NEW j \in Jobs, DeleteActive(j) PROVE CancelInv'
  BY <1>34, <1>o DEF DeleteActive, MoveJob
<1>35. ASSUME NEW c \in CancelCalls, NEW t \in Threads, AcquireCancelLock(c, t)
     PROVE  CancelInv'
  BY <1>35 DEF AcquireCancelLock, MoveCancel
<1>36. ASSUME NEW c \in CancelCalls, CheckRunning(c) PROVE CancelInv'
  BY <1>36, <1>o DEF CheckRunning, MoveCancel
<1>37. ASSUME NEW c \in CancelCalls, RequestCancel(c) PROVE CancelInv'
  <2>1. CancelFollowsRecord'
    BY <1>37, <1>o DEF RequestCancel, MoveCancel, BeforeDecision, BodyPC
  <2>2. FlagStays'
    BY <1>37, <1>o DEF RequestCancel, MoveCancel, BeforeDecision, BodyPC
  <2>3. PhaseAfterCancel'
    BY <1>37, <1>o DEF RequestCancel, MoveCancel, BeforeDecision, BodyPC
  <2>4. OutcomeFollowsFlag'
    BY SMTT(30), <1>37, <1>o DEF RequestCancel, MoveCancel, BeforeDecision, BodyPC
  <2>5. CancelStopsPhases' /\ CancelWasMeant'
    BY <1>37, <1>o DEF RequestCancel, MoveCancel, BeforeDecision, BodyPC
  <2>6. QED
    BY <2>1, <2>2, <2>3, <2>4, <2>5
<1>38. ASSUME NEW c \in CancelCalls, CancelRows(c) PROVE CancelInv'
  BY <1>38, <1>o DEF CancelRows, MoveCancel, ActiveStatus
<1>39. ASSUME NEW c \in CancelCalls, ReleaseCancelLock(c) PROVE CancelInv'
  BY <1>39, <1>o DEF ReleaseCancelLock, MoveCancel
<1>40. ASSUME NEW k \in Tenants, ExpireActive(k) PROVE CancelInv'
  BY <1>40 DEF ExpireActive
<1>41. ASSUME NEW t \in Threads, ExpireRunning(t) PROVE CancelInv'
  BY <1>41 DEF ExpireRunning, ThreadIdle, Occupied, Submitting
<1>42. ASSUME NEW t \in Threads, ExpireCancel(t) PROVE CancelInv'
  BY <1>42 DEF ExpireCancel, ThreadIdle, Occupied, Submitting
<1>43. ASSUME NEW t \in Threads, ExpireCancelLock(t) PROVE CancelInv'
  BY <1>43 DEF ExpireCancelLock, CancelOver
<1>44. CASE UNCHANGED vars
  BY <1>44 DEF vars
<1>45. QED
  BY <1>1, <1>2, <1>3, <1>4, <1>5, <1>6, <1>7, <1>8, <1>9, <1>10, <1>11,
       <1>12, <1>13, <1>14, <1>15, <1>16, <1>17, <1>18, <1>19, <1>20, <1>21,
       <1>22, <1>23, <1>24, <1>25, <1>26, <1>27, <1>28, <1>29, <1>30, <1>31,
       <1>32, <1>33, <1>34, <1>35, <1>36, <1>37, <1>38, <1>39, <1>40, <1>41,
       <1>42, <1>43, <1>44 DEF Next,
       Submission, Worker, CancelCall, Expiry

\* What follows from the bookkeeping of the cancellations, where the jobs are
\* diagnoses and no fault occurs.
LEMMA CancelInvHolds ==
  ASSUME Diagnoses = Jobs, Faults = {}
  PROVE  Spec => []CancelInv
<1>1. Init => TypeInv /\ CancelInv
  BY TypeInit, CancelInit
<1>2. TypeInv /\ CancelInv /\ [Next]_vars => (TypeInv /\ CancelInv)'
  BY TypeNext, CancelNext
<1>3. QED
  BY <1>1, <1>2, PTL DEF Spec

\* After a cancellation was requested, with the keys in place, the worker runs at
\* most the phase it is in: the look at the flag before the next one stops it.
THEOREM CancellationStops ==
  ASSUME Diagnoses = Jobs, Faults = {}
  PROVE  Spec => []CancelStopsPhases
<1>1. CancelInv => CancelStopsPhases
  BY DEF CancelInv
<1>2. QED
  BY <1>1, CancelInvHolds, PTL

\* A diagnosis that was cancelled before the worker's last look at the flag is not
\* recorded as succeeded, in whatever order the row's writers come.
THEOREM CancellationWorks ==
  ASSUME Diagnoses = Jobs, Faults = {}
  PROVE  Spec => []CancelIsNotLost
<1>1. CancelInv => CancelIsNotLost
  BY DEF CancelInv, OutcomeFollowsFlag, CancelIsNotLost
<1>2. QED
  BY <1>1, CancelInvHolds, PTL

\* No diagnosis is taken for cancelled that nobody cancelled.
THEOREM CancellationWasAsked ==
  ASSUME Diagnoses = Jobs, Faults = {}
  PROVE  Spec => []CancelWasMeant
<1>1. CancelInv => CancelWasMeant
  BY DEF CancelInv
<1>2. QED
  BY <1>1, CancelInvHolds, PTL

-----------------------------------------------------------------------------
(* The phase of a session                                                  *)

\* The work of a diagnosis that is yet to write the session for the last time, and that
\* of a follow-up that has looked at the session and is yet to write it.
DiagnosisAhead == {"absent", "queued", "markRunning", "create", "check", "startPhase",
                   "runPhase", "finish"}
FollowUpAhead == {"enter", "work", "track"}

\* What a worker does next is the work of its kind of job.
WorkFitsKind ==
    \A j \in Jobs :
        /\ job[j] \in {"create", "check", "startPhase", "runPhase", "finish"} => IsDiagnosis(j)
        /\ job[j] \in {"resume"} \cup FollowUpAhead => ~IsDiagnosis(j)
        /\ job[j] = "work" => JobKind[j] = "adoption"
        /\ job[j] \in {"absent", "queued", "markRunning", "create"} => phasesDone[j] = 0

\* The session while the diagnosis is at work on it: nobody else writes it then, as
\* nobody else finds a phase to resume.
DiagnosisPhase ==
    \A j \in Jobs :
        LET phase == session[JobThread[j]]
            done == phasesDone[j]
        IN  /\ IsDiagnosis(j) /\ job[j] \in {"absent", "queued", "markRunning", "create"}
               => phase = "none"
            /\ job[j] \in {"check", "startPhase"} =>
                  phase = IF done = 0 THEN "collecting" ELSE PhaseOf[done]
            /\ job[j] = "runPhase" => phase = PhaseOf[done + 1]
            /\ job[j] = "finish" => phase = "generating"
            /\ IsDiagnosis(j) /\ job[j] \in DiagnosisAhead =>
                  \A i \in Jobs : JobThread[i] = JobThread[j] => job[i] \notin FollowUpAhead

\* A follow-up that nobody has overtaken knows the phase it is about to leave.
FollowUpPhase ==
    \A j \in Jobs : j \notin overtaken =>
        LET phase == session[JobThread[j]]
        IN  /\ job[j] = "enter" => phase \in StartPhases(j)
            /\ job[j] = "work" => phase = "executing"
            /\ job[j] = "track" => phase = "tracking"

PhaseInv == WorkFitsKind /\ DiagnosisPhase /\ FollowUpPhase

\* Nothing is begun at first.
LEMMA PhaseInit == Init => PhaseInv
  BY ConstantsAssumption
     DEF Init, PhaseInv, WorkFitsKind, DiagnosisPhase, FollowUpPhase, FollowUpAhead, IsDiagnosis

\* A step that moves neither a session nor a job.
LEMMA PhaseUntouched ==
    ASSUME PhaseInv, UNCHANGED <<session, overtaken, job, phasesDone>>
    PROVE  PhaseInv'
  BY SMTT(30) DEF PhaseInv, WorkFitsKind, DiagnosisPhase, FollowUpPhase, StartPhases

\* A step of one job that writes no session and stays clear of the follow-ups' writes.
LEMMA PhaseMoved ==
    ASSUME TypeInv, PhaseInv, NEW j \in Jobs, UNCHANGED sessionVars,
           NEW pc, job' = [job EXCEPT ![j] = pc],
           phasesDone' = phasesDone \/ phasesDone' = [phasesDone EXCEPT ![j] = 0],
           \/ pc \in {"onCancel", "decide", "markSucceeded", "markCancelled",
                      "exceptCancelled", "exceptFailed", "lookup", "delRunning", "delCancel",
                      "readActive", "delActive", "over"}
           \/ pc = "resume" /\ ~IsDiagnosis(j)
           \/ pc = "startPhase" /\ job[j] = "check" /\ phasesDone' = phasesDone
           \/ /\ pc \in {"queued", "markRunning", "create"} /\ phasesDone' = phasesDone
              /\ job[j] \in {"absent", "queued", "markRunning"}
              /\ pc = "create" => IsDiagnosis(j)
    PROVE  PhaseInv'
  <1>p. /\ session \in [Threads -> Phases] /\ job \in [Jobs -> JobPC]
        /\ phasesDone \in [Jobs -> 0..3]
    BY DEF TypeInv, TypeOK
  <1>j. job'[j] = pc /\ \A i \in Jobs \ {j} : job'[i] = job[i] /\ phasesDone'[i] = phasesDone[i]
    BY <1>p
  <1> USE DEF sessionVars, PhaseInv
  <1>1. WorkFitsKind'
    BY <1>p, <1>j DEF WorkFitsKind, FollowUpAhead
  <1>2. DiagnosisPhase'
    BY <1>p, <1>j DEF WorkFitsKind, DiagnosisPhase, DiagnosisAhead, FollowUpAhead
  <1>3. FollowUpPhase'
    BY <1>p, <1>j DEF FollowUpPhase, StartPhases
  <1> QED BY <1>1, <1>2, <1>3

\* Whoever writes a session has overtaken the other jobs of its thread.
LEMMA PhaseWrite ==
    ASSUME TypeInv, PhaseInv, NEW j \in Jobs, NEW phase, SetSession(j, phase),
           NEW pc, job' = [job EXCEPT ![j] = pc], phasesDone' = phasesDone,
           \/ /\ ~IsDiagnosis(j) /\ job[j] \in FollowUpAhead
              /\ \/ pc = "decide"
                 \/ pc = "work" /\ JobKind[j] = "adoption" /\ phase = "executing"
                 \/ pc = "track" /\ phase = "tracking"
           \/ /\ IsDiagnosis(j) /\ job[j] \in DiagnosisAhead
              /\ \/ pc = "decide"
                 \/ pc = "check" /\ phasesDone[j] = 0 /\ phase = "collecting"
                 \/ pc = "runPhase" /\ phase = PhaseOf[phasesDone[j] + 1]
    PROVE  PhaseInv'
  <1>k. \A i \in Jobs : JobThread[i] \in Threads
    BY ConstantsAssumption
  <1>p. /\ session \in [Threads -> Phases] /\ job \in [Jobs -> JobPC]
        /\ phasesDone \in [Jobs -> 0..3]
    BY DEF TypeInv, TypeOK
  <1>j. job'[j] = pc /\ \A i \in Jobs \ {j} : job'[i] = job[i]
    BY <1>p
  <1>s. /\ session'[JobThread[j]] = phase
        /\ \A i \in Jobs : JobThread[i] # JobThread[j] => session'[JobThread[i]] = session[JobThread[i]]
        /\ overtaken' = (overtaken \cup {i \in Jobs : JobThread[i] = JobThread[j]}) \ {j}
    BY <1>k, <1>p DEF SetSession
  <1>d. \A i \in Jobs : i # j /\ JobThread[i] = JobThread[j] /\ IsDiagnosis(i)
                        => job[i] \notin DiagnosisAhead
    <2> SUFFICES ASSUME NEW i \in Jobs, i # j, JobThread[i] = JobThread[j], IsDiagnosis(i),
                        job[i] \in DiagnosisAhead
                 PROVE  FALSE
      OBVIOUS
    <2>1. ~IsDiagnosis(j)
      BY OneDiagnosisPerThread
    <2>2. job[j] \in FollowUpAhead
      BY <2>1
    <2> QED BY <2>2 DEF PhaseInv, DiagnosisPhase
  <1>w. \A i \in Jobs : job[i] \in {"check", "startPhase", "runPhase", "finish"} =>
             IsDiagnosis(i) /\ job[i] \in DiagnosisAhead
    BY DEF PhaseInv, WorkFitsKind, DiagnosisAhead
  <1>1. WorkFitsKind'
    BY <1>p, <1>j DEF PhaseInv, WorkFitsKind, FollowUpAhead, DiagnosisAhead
  <1>2. DiagnosisPhase'
    <2> SUFFICES ASSUME NEW i \in Jobs
                 PROVE  /\ IsDiagnosis(i) /\ job'[i] \in {"absent", "queued", "markRunning", "create"}
                           => session'[JobThread[i]] = "none"
                        /\ job'[i] \in {"check", "startPhase"} =>
                              session'[JobThread[i]] = IF phasesDone[i] = 0 THEN "collecting"
                                                       ELSE PhaseOf[phasesDone[i]]
                        /\ job'[i] = "runPhase" => session'[JobThread[i]] = PhaseOf[phasesDone[i] + 1]
                        /\ job'[i] = "finish" => session'[JobThread[i]] = "generating"
                        /\ IsDiagnosis(i) /\ job'[i] \in DiagnosisAhead =>
                              \A o \in Jobs : JobThread[o] = JobThread[i] => job'[o] \notin FollowUpAhead
      BY DEF DiagnosisPhase
    <2>1. CASE i = j
      <3>1. pc \in DiagnosisAhead => IsDiagnosis(j) /\ job[j] \in DiagnosisAhead
        BY DEF DiagnosisAhead
      <3>2. IsDiagnosis(j) /\ job[j] \in DiagnosisAhead =>
              \A o \in Jobs : JobThread[o] = JobThread[j] => job[o] \notin FollowUpAhead
        BY DEF PhaseInv, DiagnosisPhase
      <3>3. pc \in DiagnosisAhead =>
              \A o \in Jobs : JobThread[o] = JobThread[j] => job'[o] \notin FollowUpAhead
        BY <1>j, <3>1, <3>2 DEF DiagnosisAhead, FollowUpAhead
      <3> QED BY <1>j, <1>s, <2>1, <3>3
    <2>2. CASE i # j /\ JobThread[i] = JobThread[j]
      <3>1. IsDiagnosis(i) => job[i] \notin DiagnosisAhead
        BY <1>d, <2>2
      <3> QED BY <1>j, <1>w, <2>2, <3>1 DEF DiagnosisAhead
    <2>3. CASE JobThread[i] # JobThread[j]
      <3>1. job'[i] = job[i] /\ session'[JobThread[i]] = session[JobThread[i]]
        BY <1>j, <1>s, <2>3
      <3>2. \A o \in Jobs : JobThread[o] = JobThread[i] => job'[o] = job[o]
        BY <1>j, <2>3
      <3> QED BY <3>1, <3>2 DEF PhaseInv, DiagnosisPhase
    <2> QED BY <2>1, <2>2, <2>3
  <1>3. FollowUpPhase'
    <2> SUFFICES ASSUME NEW i \in Jobs, i \notin overtaken'
                 PROVE  /\ job'[i] = "enter" => session'[JobThread[i]] \in StartPhases(i)
                        /\ job'[i] = "work" => session'[JobThread[i]] = "executing"
                        /\ job'[i] = "track" => session'[JobThread[i]] = "tracking"
      BY DEF FollowUpPhase, StartPhases
    <2>1. CASE i = j
      BY <1>j, <1>s, <2>1
    <2>2. CASE i # j
      <3>1. i \notin overtaken /\ JobThread[i] # JobThread[j]
        BY <1>s, <2>2
      <3> QED BY <1>j, <1>s, <2>2, <3>1 DEF PhaseInv, FollowUpPhase
    <2> QED BY <2>1, <2>2
  <1> QED BY <1>1, <1>2, <1>3 DEF PhaseInv

LEMMA PhaseNext == TypeInv /\ PhaseInv /\ [Next]_vars => PhaseInv'
  <1> SUFFICES ASSUME TypeInv, PhaseInv, [Next]_vars PROVE PhaseInv'
    OBVIOUS
  <1>k. \A j \in Jobs : JobKind[j] \in Kinds /\ JobThread[j] \in Threads
    BY ConstantsAssumption
  <1>p. /\ session \in [Threads -> Phases] /\ job \in [Jobs -> JobPC]
        /\ sub \in [Jobs -> SubPC] /\ phasesDone \in [Jobs -> 0..3]
    BY DEF TypeInv, TypeOK
  <1>q. \A j \in Jobs :
          /\ sub[j] = "enqueue" => job[j] = "absent"
          /\ job[j] \in {"startPhase", "runPhase"} => phasesDone[j] <= 2
    BY DEF TypeInv, PhasesRunOnce
  <1>w. \A j \in Jobs :
          /\ job[j] \in {"create", "check", "startPhase", "runPhase", "finish"} => IsDiagnosis(j)
          /\ job[j] \in {"resume"} \cup FollowUpAhead => ~IsDiagnosis(j)
          /\ job[j] = "work" => JobKind[j] = "adoption"
          /\ job[j] = "create" => phasesDone[j] = 0
    BY DEF PhaseInv, WorkFitsKind
  <1>1. ASSUME NEW j \in Jobs, Enqueue(j) PROVE PhaseInv'
    <2>1. UNCHANGED sessionVars /\ phasesDone' = phasesDone /\ sub[j] = "enqueue"
      BY <1>1 DEF Enqueue, MoveSub, RaiseSub, pgVars
    <2>2. CASE job' = job
      BY <2>1, <2>2, PhaseUntouched DEF sessionVars
    <2>3. CASE job' = [job EXCEPT ![j] = "queued"]
      BY <2>1, <2>3, <1>q, PhaseMoved
    <2> QED BY <1>1, <2>2, <2>3 DEF Enqueue
  <1>2. ASSUME NEW j \in Jobs, TakeJob(j) PROVE PhaseInv'
    BY <1>2, PhaseMoved DEF TakeJob, MoveJob, pgVars
  <1>3. ASSUME NEW j \in Jobs, MarkRunning(j) PROVE PhaseInv'
    <2>1. UNCHANGED sessionVars /\ phasesDone' = phasesDone /\ job[j] = "markRunning"
      BY <1>3 DEF MarkRunning, MoveJob
    <2>2. PICK pc \in {"create", "resume", "exceptFailed"} :
             /\ job' = [job EXCEPT ![j] = pc]
             /\ pc = "create" => IsDiagnosis(j)
             /\ pc = "resume" => ~IsDiagnosis(j)
      BY <1>3 DEF MarkRunning, MoveJob
    <2> QED BY <2>1, <2>2, PhaseMoved
  <1>4. ASSUME NEW j \in Jobs, CreateSession(j) PROVE PhaseInv'
    BY <1>4, <1>w, PhaseWrite DEF CreateSession, MoveJob, DiagnosisAhead
  <1>5. ASSUME NEW j \in Jobs, CheckCancel(j) PROVE PhaseInv'
    <2>1. PICK pc \in {"onCancel", "startPhase"} : job[j] = "check" /\ job' = [job EXCEPT ![j] = pc]
      BY <1>5 DEF CheckCancel, IfCancelRequested, MoveJob
    <2> QED BY <1>5, <2>1, PhaseMoved DEF CheckCancel, pgVars
  <1>6. ASSUME NEW j \in Jobs, StartPhase(j) PROVE PhaseInv'
    BY <1>6, <1>w, PhaseWrite DEF StartPhase, MoveJob, DiagnosisAhead
  <1>7. ASSUME NEW j \in Jobs, RunPhase(j) PROVE PhaseInv'
    <2>1. /\ job[j] = "runPhase" /\ phasesDone[j] \in 0..2
          /\ phasesDone' = [phasesDone EXCEPT ![j] = phasesDone[j] + 1]
          /\ job' = [job EXCEPT ![j] = IF phasesDone[j] = 2 THEN "finish" ELSE "check"]
          /\ UNCHANGED <<session, overtaken>>
      BY <1>7, <1>p, <1>q DEF RunPhase, MoveJob, pgVars, sessionVars
    <2>2. job'[j] \in {"finish", "check"} /\ \A i \in Jobs \ {j} : job'[i] = job[i] /\ phasesDone'[i] = phasesDone[i]
      BY <2>1, <1>p
    <2>3. IsDiagnosis(j)
      BY <2>1, <1>w
    <2>4. WorkFitsKind'
      BY <2>1, <2>2, <2>3, <1>p DEF PhaseInv, WorkFitsKind, FollowUpAhead
    <2>5. DiagnosisPhase'
      BY <2>1, <2>2, <2>3, <1>p DEF PhaseInv, DiagnosisPhase, DiagnosisAhead, FollowUpAhead, PhaseOf
    <2>6. FollowUpPhase'
      BY <2>1, <2>2, <1>p DEF PhaseInv, FollowUpPhase, StartPhases
    <2> QED BY <2>4, <2>5, <2>6 DEF PhaseInv
  <1>8. ASSUME NEW j \in Jobs, FinishDiagnosis(j) PROVE PhaseInv'
    BY <1>8, <1>w, PhaseWrite DEF FinishDiagnosis, MoveJob, DiagnosisAhead
  <1>9. ASSUME NEW j \in Jobs, Resume(j) PROVE PhaseInv'
    <2>1. /\ job[j] = "resume" /\ ~IsDiagnosis(j)
          /\ UNCHANGED <<session, phasesDone>> /\ overtaken' = overtaken \ {j}
      BY <1>9, <1>w DEF Resume, MoveJob
    <2>2. PICK pc \in {"enter", "decide"} :
             /\ job' = [job EXCEPT ![j] = pc]
             /\ pc = "enter" => session[JobThread[j]] \in StartPhases(j)
      BY <1>9 DEF Resume, MoveJob
    <2>3. job'[j] = pc /\ \A i \in Jobs \ {j} : job'[i] = job[i]
      BY <2>2, <1>p
    <2>4. pc = "enter" => \A i \in Jobs : IsDiagnosis(i) /\ JobThread[i] = JobThread[j]
                                          => job[i] \notin DiagnosisAhead
      <3> SUFFICES ASSUME session[JobThread[j]] \in StartPhases(j), NEW i \in Jobs,
                          IsDiagnosis(i), JobThread[i] = JobThread[j], job[i] \in DiagnosisAhead
                   PROVE  FALSE
        BY <2>2
      <3>1. session[JobThread[i]] \in {"none", "collecting", "diagnosing", "generating"}
        BY <1>p, <1>q DEF PhaseInv, DiagnosisPhase, DiagnosisAhead, PhaseOf, TypeInv, PhasesRunOnce
      <3> QED BY <3>1 DEF StartPhases
    <2>5. WorkFitsKind'
      BY <2>1, <2>2, <2>3, <1>p DEF PhaseInv, WorkFitsKind, FollowUpAhead
    <2>6. DiagnosisPhase'
      BY <2>1, <2>2, <2>3, <2>4, <1>p DEF PhaseInv, DiagnosisPhase, DiagnosisAhead, FollowUpAhead
    <2>7. FollowUpPhase'
      BY <2>1, <2>2, <2>3 DEF PhaseInv, FollowUpPhase, StartPhases
    <2> QED BY <2>5, <2>6, <2>7 DEF PhaseInv
  <1>10. ASSUME NEW j \in Jobs, EnterPhase(j) PROVE PhaseInv'
    BY <1>10, <1>w, PhaseWrite DEF EnterPhase, MoveJob, FollowUpAhead
  <1>11. ASSUME NEW j \in Jobs, Work(j) PROVE PhaseInv'
    BY <1>11, <1>w, PhaseWrite DEF Work, MoveJob, FollowUpAhead
  <1>12. ASSUME NEW j \in Jobs, Track(j) PROVE PhaseInv'
    BY <1>12, <1>w, PhaseWrite DEF Track, MoveJob, FollowUpAhead
  <1>13. ASSUME NEW j \in Jobs,
                Decide(j) \/ Raise(j) \/ Interrupt(j) \/ DecideOnCancel(j) \/ MarkOutcome(j)
                \/ LookupTenant(j) \/ DeleteRunning(j) \/ DeleteCancel(j) \/ ReadActive(j)
                \/ DeleteActive(j)
         PROVE  PhaseInv'
    <2>1. UNCHANGED sessionVars
      BY <1>13 DEF Decide, Raise, Interrupt, DecideOnCancel, MarkOutcome, LookupTenant,
                   DeleteRunning, DeleteCancel, ReadActive, DeleteActive, pgVars
    <2>2. phasesDone' = phasesDone \/ phasesDone' = [phasesDone EXCEPT ![j] = 0]
      BY <1>13 DEF Decide, Raise, Interrupt, DecideOnCancel, MarkOutcome, LookupTenant,
                   DeleteRunning, DeleteCancel, ReadActive, DeleteActive
    <2>3. \E pc \in {"onCancel", "decide", "markSucceeded", "markCancelled",
                     "exceptCancelled", "exceptFailed", "lookup", "delRunning", "delCancel",
                     "readActive", "delActive", "over"} : job' = [job EXCEPT ![j] = pc]
      <3>1. CASE Decide(j) \/ DecideOnCancel(j)
        BY <3>1 DEF Decide, DecideOnCancel, IfCancelRequested, MoveJob
      <3>2. CASE Raise(j) \/ Interrupt(j)
        BY <3>2 DEF Raise, Interrupt
      <3>3. CASE MarkOutcome(j)
        BY <3>3 DEF MarkOutcome, MoveJob
      <3>4. CASE LookupTenant(j) \/ DeleteRunning(j)
        BY <3>4 DEF LookupTenant, DeleteRunning, MoveJob
      <3>5. CASE DeleteCancel(j) \/ ReadActive(j) \/ DeleteActive(j)
        BY <3>5 DEF DeleteCancel, ReadActive, DeleteActive, MoveJob
      <3> QED BY <1>13, <3>1, <3>2, <3>3, <3>4, <3>5
    <2> QED BY <2>1, <2>2, <2>3, PhaseMoved
  <1>14. CASE UNCHANGED <<session, overtaken, job, phasesDone>>
    BY <1>14, PhaseUntouched
  <1>15. ASSUME NEW j \in Jobs,
                AcquireStartLock(j) \/ CheckActive(j) \/ ClaimTenant(j) \/ ReadClaimHolder(j)
                \/ SubmitAdoption(j) \/ SetPending(j) \/ SubmitReview(j) \/ RecordJob(j)
                \/ RegisterRunning(j) \/ RegisterActive(j) \/ ReadOwnClaim(j) \/ DeleteOwnClaim(j)
         PROVE  UNCHANGED <<session, overtaken, job, phasesDone>>
    BY <1>15 DEF AcquireStartLock, CheckActive, ClaimTenant, ReadClaimHolder, SubmitAdoption,
           SetPending, SubmitReview, RecordJob, RegisterRunning, RegisterActive, ReadOwnClaim,
           DeleteOwnClaim, workerVars, pgVars, sessionVars
  <1>16. ASSUME \/ \E c \in CancelCalls, t \in Threads : AcquireCancelLock(c, t)
                \/ \E c \in CancelCalls : CancelCall(c)
                \/ Expiry \/ UNCHANGED vars
         PROVE  UNCHANGED <<session, overtaken, job, phasesDone>>
    BY <1>16 DEF AcquireCancelLock, CancelCall, CheckRunning, RequestCancel, CancelRows,
           ReleaseCancelLock, Expiry, ExpireActive, ExpireRunning, ExpireCancel,
           ExpireCancelLock, vars, workerVars, pgVars, sessionVars
  <1> QED
    BY <1>1, <1>2, <1>3, <1>4, <1>5, <1>6, <1>7, <1>8, <1>9, <1>10, <1>11, <1>12, <1>13,
       <1>14, <1>15, <1>16 DEF Next, Submission, Worker

\* The rank of a phase.
LEMMA Ranks ==
    /\ PhaseRank["none"] = 0 /\ PhaseRank["collecting"] = 1 /\ PhaseRank["diagnosing"] = 2
    /\ PhaseRank["generating"] = 3 /\ PhaseRank["waiting_adoption"] = 4
    /\ PhaseRank["executing"] = 5 /\ PhaseRank["waiting_track"] = 6
    /\ PhaseRank["tracking"] = 7 /\ PhaseRank["completed"] = 8 /\ PhaseRank["failed"] = 8
    /\ \A p \in Phases : PhaseRank[p] \in 0..8
  BY DEF PhaseRank, Phases

\* No session is moved back but by a follow-up that was overtaken.
NoneMovedBack ==
    \A t \in Threads : PhaseRank[session'[t]] < PhaseRank[session[t]] =>
        \E j \in overtaken \ Diagnoses : JobThread[j] = t /\ job'[j] # job[j]

\* A worker's write of a phase: it is no step back, or the worker was overtaken.
LEMMA PhaseWritten ==
    ASSUME TypeInv, NEW j \in Jobs, NEW phase \in Phases, SetSession(j, phase),
           \/ PhaseRank[phase] >= PhaseRank[session[JobThread[j]]]
           \/ j \in overtaken /\ ~IsDiagnosis(j) /\ job'[j] # job[j]
    PROVE  NoneMovedBack
  <1>1. \A t \in Threads : PhaseRank[session[t]] \in 0..8
    BY Ranks DEF TypeInv, TypeOK
  <1>2. session' = [session EXCEPT ![JobThread[j]] = phase] /\ session \in [Threads -> Phases]
    BY DEF SetSession, TypeInv, TypeOK
  <1>3. \A t \in Threads : t # JobThread[j] => session'[t] = session[t]
    BY <1>2
  <1>4. JobThread[j] \in Threads
    BY ConstantsAssumption
  <1>5. CASE PhaseRank[phase] >= PhaseRank[session[JobThread[j]]]
    <2>1. PhaseRank[phase] \in 0..8
      BY Ranks
    <2>2. session'[JobThread[j]] = phase
      BY <1>2, <1>4
    <2>3. \A t \in Threads : ~(PhaseRank[session'[t]] < PhaseRank[session[t]])
      BY <1>1, <1>3, <1>5, <2>1, <2>2
    <2> QED BY <2>3 DEF NoneMovedBack
  <1>6. CASE j \in overtaken /\ ~IsDiagnosis(j) /\ job'[j] # job[j]
    BY <1>1, <1>3, <1>4, <1>6 DEF NoneMovedBack, Diagnoses
  <1> QED BY <1>5, <1>6

LEMMA ForwardStep == TypeInv /\ PhaseInv /\ [Next]_vars => NoneMovedBack
  <1> SUFFICES ASSUME TypeInv, PhaseInv, [Next]_vars PROVE NoneMovedBack
    OBVIOUS
  <1>k. \A j \in Jobs : JobKind[j] \in Kinds /\ JobThread[j] \in Threads
    BY ConstantsAssumption
  <1>p. /\ session \in [Threads -> Phases] /\ job \in [Jobs -> JobPC]
        /\ phasesDone \in [Jobs -> 0..3]
    BY DEF TypeInv, TypeOK
  <1>q. \A j \in Jobs : job[j] = "startPhase" => phasesDone[j] \in 0..2
    BY <1>p DEF TypeInv, PhasesRunOnce
  <1>w. \A j \in Jobs :
          /\ job[j] \in {"create", "startPhase", "finish"} => IsDiagnosis(j)
          /\ job[j] \in FollowUpAhead => ~IsDiagnosis(j)
          /\ job[j] = "work" => JobKind[j] = "adoption"
    BY DEF PhaseInv, WorkFitsKind
  <1>m. \A j \in Jobs : \A from, to : MoveJob(j, from, to) =>
           job[j] = from /\ job'[j] = to
    BY <1>p DEF MoveJob
  <1>1. ASSUME NEW j \in Jobs, CreateSession(j) PROVE NoneMovedBack
    <2>1. job[j] = "create" /\ SetSession(j, "collecting")
      BY <1>1 DEF CreateSession, MoveJob
    <2>2. session[JobThread[j]] = "none"
      BY <2>1, <1>w DEF PhaseInv, DiagnosisPhase
    <2> QED BY <2>1, <2>2, Ranks, PhaseWritten DEF Phases
  <1>2. ASSUME NEW j \in Jobs, StartPhase(j) PROVE NoneMovedBack
    <2>1. /\ job[j] = "startPhase" /\ phasesDone[j] \in {0, 1, 2}
          /\ SetSession(j, PhaseOf[phasesDone[j] + 1])
      BY <1>2, <1>q DEF StartPhase, MoveJob
    <2>2. PhaseRank[PhaseOf[phasesDone[j] + 1]] >= PhaseRank[session[JobThread[j]]]
      BY <2>1, Ranks DEF PhaseOf, PhaseInv, DiagnosisPhase
    <2> QED BY <2>1, <2>2, PhaseWritten DEF Phases, PhaseOf
  <1>3. ASSUME NEW j \in Jobs, FinishDiagnosis(j) PROVE NoneMovedBack
    <2>1. /\ job[j] = "finish"
          /\ SetSession(j, "waiting_adoption") \/ SetSession(j, "completed")
      BY <1>3 DEF FinishDiagnosis, MoveJob
    <2>2. session[JobThread[j]] = "generating"
      BY <2>1 DEF PhaseInv, DiagnosisPhase
    <2> QED BY <2>1, <2>2, Ranks, PhaseWritten DEF Phases
  <1>4. ASSUME NEW j \in Jobs, EnterPhase(j) PROVE NoneMovedBack
    <2>1. /\ job[j] = "enter" /\ job'[j] # job[j] /\ ~IsDiagnosis(j)
          /\ \/ JobKind[j] = "adoption" /\ SetSession(j, "executing")
             \/ JobKind[j] = "review" /\ SetSession(j, "tracking")
      BY <1>4, <1>m, <1>w DEF EnterPhase, FollowUpAhead
    <2>2. j \notin overtaken => session[JobThread[j]] \in StartPhases(j)
      BY <2>1 DEF PhaseInv, FollowUpPhase
    <2> QED BY <2>1, <2>2, Ranks, PhaseWritten DEF StartPhases, Phases
  <1>5. ASSUME NEW j \in Jobs, Work(j) PROVE NoneMovedBack
    <2>1. /\ job[j] = "work" /\ job'[j] # job[j] /\ ~IsDiagnosis(j)
          /\ \E phase \in {"waiting_track", "tracking", "failed"} : SetSession(j, phase)
      BY <1>5, <1>m, <1>w DEF Work, FollowUpAhead
    <2>2. j \notin overtaken => session[JobThread[j]] = "executing"
      BY <2>1 DEF PhaseInv, FollowUpPhase
    <2> QED BY <2>1, <2>2, Ranks, PhaseWritten DEF Phases
  <1>6. ASSUME NEW j \in Jobs, Track(j) PROVE NoneMovedBack
    <2>1. /\ job[j] = "track" /\ job'[j] # job[j] /\ ~IsDiagnosis(j)
          /\ \E phase \in {"completed", "failed"} : SetSession(j, phase)
      BY <1>6, <1>m, <1>w DEF Track, FollowUpAhead
    <2>2. j \notin overtaken => session[JobThread[j]] = "tracking"
      BY <2>1 DEF PhaseInv, FollowUpPhase
    <2> QED BY <2>1, <2>2, Ranks, PhaseWritten DEF Phases
  <1>7. CASE session' = session
    BY <1>7, <1>p, Ranks DEF NoneMovedBack
  <1> QED
    BY <1>1, <1>2, <1>3, <1>4, <1>5, <1>6, <1>7
       DEF Next, Submission, Worker, CancelCall, Expiry, AcquireStartLock, CheckActive, ClaimTenant, ReadClaimHolder,
           SubmitAdoption, SetPending, SubmitReview, Enqueue, RecordJob,
           RegisterRunning, RegisterActive, ReadOwnClaim, DeleteOwnClaim, TakeJob,
           MarkRunning, CheckCancel, RunPhase, Resume, Decide, Raise, Interrupt,
           DecideOnCancel, MarkOutcome, LookupTenant, DeleteRunning, DeleteCancel,
           ReadActive, DeleteActive, AcquireCancelLock, CheckRunning,
           RequestCancel, CancelRows, ReleaseCancelLock, ExpireActive,
           ExpireRunning, ExpireCancel, ExpireCancelLock, vars, pgVars, sessionVars

\* A session moves back only by the hand of a follow-up that another job of its thread
\* has overtaken since it last looked at the session or wrote it: with any adoptions
\* and reviews of a thread side by side, and with every fault,
\* interruption and cancellation.
THEOREM SessionsMoveForward == Spec => SessionForward
  <1>1. Init => TypeInv /\ PhaseInv
    BY TypeInit, PhaseInit
  <1>2. TypeInv /\ PhaseInv /\ [Next]_vars => (TypeInv /\ PhaseInv)'
    BY TypeNext, PhaseNext
  <1>3. TypeInv /\ PhaseInv /\ [Next]_vars =>
          [\A t \in Threads : PhaseRank[session'[t]] < PhaseRank[session[t]] =>
              \E j \in overtaken \ Diagnoses : JobThread[j] = t /\ job'[j] # job[j]
          ]_<<sessionVars, job>>
    <2> SUFFICES ASSUME TypeInv, PhaseInv, [Next]_vars
                 PROVE  \A t \in Threads : PhaseRank[session'[t]] < PhaseRank[session[t]] =>
                            \E j \in overtaken \ Diagnoses : JobThread[j] = t /\ job'[j] # job[j]
      OBVIOUS
    <2> QED BY ForwardStep DEF NoneMovedBack
  <1> QED BY <1>1, <1>2, <1>3, PTL DEF Spec, SessionForward

=============================================================================
