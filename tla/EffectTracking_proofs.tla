------------------------ MODULE EffectTracking_proofs ------------------------
(* Proofs about EffectTracking, for every set of calls, mix and fault.        *)
EXTENDS EffectTracking, FiniteSetTheorems, TLAPS

\* The program counters and local variables keep their types however a handler
\* moves on: the shapes all the actions are built from.
LEMMA MoveType ==
    ASSUME TypeOK, NEW c \in Calls, NEW to \in PC, Goto(c, to)
    PROVE  pc' \in [Calls -> PC]
  BY DEF TypeOK, Goto

LEMMA MoveKeepsType ==
    ASSUME TypeOK, NEW c \in Calls, NEW from, NEW to \in PC, Move(c, from, to)
    PROVE  pc' \in [Calls -> PC]
  BY DEF TypeOK, Move

LEMMA ForgetType ==
    ASSUME TypeOK, TrackingAssumption, NEW c \in Calls, Forget(c)
    PROVE  /\ copy' \in [Calls -> Doc] /\ since' \in [Calls -> Days]
           /\ closes' \in [Calls -> BOOLEAN] /\ scores' \in [Calls -> Nat]
  BY DEF TypeOK, Forget, Doc, NoDoc, Status, Days, TrackingAssumption

LEMMA InsertType ==
    ASSUME TypeOK, NEW at \in Days, NEW type \in SnapTypes, Insert(at, type)
    PROVE  snaps' \in Seq([at : Days, type : SnapTypes])
  BY DEF TypeOK, Insert

LEMMA NoDocType == NoDoc \in Doc
  BY DEF NoDoc, Doc, Status

LEMMA DocWith ==
    ASSUME NEW d \in Doc, NEW s \in Status, NEW n \in Nat
    PROVE  /\ [d EXCEPT !.status = s] \in Doc /\ [d EXCEPT !.count = n] \in Doc
           /\ [d EXCEPT !.status = s].count = d.count
           /\ [d EXCEPT !.count = n].status = d.status
           /\ d.count \in Nat /\ d.status \in Status
  BY DEF Doc

\* Writing a document into the row.
LEMMA WriteType ==
    ASSUME TypeOK, NEW d \in Doc, track' = [track EXCEPT !.data = d]
    PROVE  track' \in [exists : BOOLEAN, data : Doc]
  BY DEF TypeOK

\* Taking a document into a local copy.
LEMMA CopyType ==
    ASSUME TypeOK, NEW c \in Calls, NEW d \in Doc,
           copy' = [copy EXCEPT ![c] = d] \/ UNCHANGED copy
    PROVE  copy' \in [Calls -> Doc]
  BY DEF TypeOK

\* The first row of a thread.
LEMMA CreateType ==
    ASSUME TypeOK, track' = [exists |-> TRUE, data |-> NoDoc] \/ UNCHANGED track
    PROVE  track' \in [exists : BOOLEAN, data : Doc]
  <1>1. CASE track' = [exists |-> TRUE, data |-> NoDoc]
    BY <1>1, NoDocType
  <1>2. CASE UNCHANGED track
    BY <1>2 DEF TypeOK
  <1> QED BY <1>1, <1>2

LEMMA SnapshotType ==
    ASSUME TypeOK, NEW c \in Calls, Snapshot(c), TrackingAssumption
    PROVE  TypeOK'
  <1> USE DEF PC, CompletionPC, EnginePC
  <1>1. CASE ReadForSnapshot(c)
    BY ZenonT(60), <1>1 DEF ReadForSnapshot, TypeOK, Goto, rows, flags, history
  <1>2. CASE LookAgain(c)
    BY ZenonT(60), <1>2 DEF LookAgain, TypeOK, Goto, rows, flags, history
  <1>3. CASE CreateForSnapshot(c)
    <2>1. track' \in [exists : BOOLEAN, data : Doc] /\ copy' \in [Calls -> Doc]
      BY <1>3, NoDocType, CreateType, CopyType DEF CreateForSnapshot
    <2> QED BY ZenonT(60), <1>3, <2>1 DEF CreateForSnapshot, TypeOK, Goto, flags, history
  <1>4. CASE UnscheduleForSnapshot(c)
    BY <1>4 DEF UnscheduleForSnapshot, TypeOK, Move, Unschedule, flags, locals, history
  <1>5. CASE CollectForSnapshot(c)
    BY ZenonT(60), <1>5 DEF CollectForSnapshot, TypeOK, Move, rows, flags, locals, history
  <1>6. CASE UpdateForSnapshot(c)
    <2>1. copy[c] \in Doc /\ copy[c].count + 1 \in Nat
      BY DEF TypeOK, Doc
    <2>2. [copy[c] EXCEPT !.count = copy[c].count + 1] \in Doc
      BY <2>1, DocWith DEF Status
    <2>3. track' \in [exists : BOOLEAN, data : Doc]
      BY <1>6, <2>2, WriteType DEF UpdateForSnapshot
    <2> QED BY <1>6, <2>3 DEF UpdateForSnapshot, TypeOK, Move, flags, locals, history
  <1>7. CASE InsertForSnapshot(c)
    <2>1. snaps' \in Seq([at : Days, type : SnapTypes])
      BY <1>7, InsertType DEF InsertForSnapshot, TypeOK, SnapTypes
    <2>2. missing' \in Nat
      BY <1>7 DEF InsertForSnapshot, TypeOK
    <2> QED BY <1>7, <2>1, <2>2, ForgetType DEF InsertForSnapshot, TypeOK, Move, flags
  <1> QED BY <1>1, <1>2, <1>3, <1>4, <1>5, <1>6, <1>7 DEF Snapshot

LEMMA AfterCompletionType ==
    ASSUME NEW c \in Calls
    PROVE  AfterCompletion(c) \in PC /\ AfterCompletion(c) \in {"cFree", "eDone"}
  BY DEF AfterCompletion, PC, EnginePC, CompletionPC

LEMMA CompletionType ==
    ASSUME TypeOK, NEW c \in Calls, Completion(c), TrackingAssumption
    PROVE  TypeOK'
  <1> USE DEF PC, CompletionPC, EnginePC
  <1>1. CASE ReadRow(c)
    <2>1. [track.data EXCEPT !.status = "completed"] \in Doc
      BY DEF TypeOK, Doc, Status
    <2>2. copy' \in [Calls -> Doc]
      BY <1>1, <2>1, CopyType DEF ReadRow
    <2> QED BY ZenonT(60), <1>1, <2>2, AfterCompletionType DEF ReadRow, TypeOK, Goto, rows, flags, history
  <1>2. CASE ReadLatest(c)
    BY ZenonT(60), <1>2 DEF ReadLatest, TypeOK, Move, rows, flags, history
  <1>3. CASE ReadSnapshots(c)
    <2>1. Len(snaps) + (IF closes[c] THEN 1 ELSE 0) \in Nat
      BY DEF TypeOK
    <2> QED BY <1>3, <2>1 DEF ReadSnapshots, TypeOK, Move, rows, flags, history
  <1>4. CASE InsertClosing(c)
    <2>1. snaps' \in Seq([at : Days, type : SnapTypes])
      BY <1>4, InsertType DEF InsertClosing, TypeOK, SnapTypes
    <2> QED BY <1>4, <2>1 DEF InsertClosing, TypeOK, Move, flags, locals, history
  <1>5. CASE CompleteRow(c)
    <2> DEFINE n == copy[c].count + (IF closes[c] THEN 1 ELSE 0)
    <2>1. copy[c] \in Doc /\ n \in Nat
      BY DEF TypeOK, Doc
    <2>2. [copy[c] EXCEPT !.count = n] \in Doc
      BY <2>1, DocWith DEF Status
    <2>3. track' \in [exists : BOOLEAN, data : Doc]
      BY <1>5, <2>2, WriteType DEF CompleteRow
    <2> QED BY <1>5, <2>3 DEF CompleteRow, TypeOK, Move, flags, locals
  <1>6. CASE StoreReport(c)
    BY <1>6 DEF StoreReport, TypeOK, Move, flags, locals, history
  <1>7. CASE Learn(c)
    BY <1>7, AfterCompletionType DEF Learn, TypeOK, Goto, flags, locals, history
  <1>8. CASE CutShort(c)
    BY <1>8, AfterCompletionType DEF CutShort, TypeOK, Goto, rows, flags, locals
  <1> QED BY <1>1, <1>2, <1>3, <1>4, <1>5, <1>6, <1>7, <1>8 DEF Completion

LEMMA AfterEngineType ==
    ASSUME NEW c \in Calls
    PROVE  AfterEngine(c) \in PC /\ AfterEngine(c) \in {"eMark", "over"}
  BY DEF AfterEngine, PC, EnginePC

LEMMA EngineType ==
    ASSUME TypeOK, NEW c \in Calls, Engine(c), TrackingAssumption
    PROVE  TypeOK'
  <1> USE DEF PC, CompletionPC, EnginePC
  <1>1. CASE ReadPhase(c)
    BY <1>1, AfterEngineType DEF ReadPhase, TypeOK, Goto, rows, flags, locals, history
  <1>2. CASE EnterTracking(c)
    BY <1>2 DEF EnterTracking, TypeOK, Move, flags, locals, history
  <1>3. CASE EnsureTracking(c)
    BY <1>3 DEF EnsureTracking, TypeOK, Goto, rows, flags, locals, history
  <1>4. CASE CreateTracking(c)
    <2>1. track' \in [exists : BOOLEAN, data : Doc]
      BY <1>4, CreateType DEF CreateTracking
    <2> QED BY ZenonT(60), <1>4, <2>1 DEF CreateTracking, TypeOK, Goto, flags, locals, history
  <1>5. CASE FinishReview(c)
    BY <1>5, AfterEngineType, ForgetType DEF FinishReview, TypeOK, Goto, flags, history
  <1>6. CASE FailReview(c)
    BY <1>6, ForgetType DEF FailReview, TypeOK, Goto, flags, history
  <1> QED BY <1>1, <1>2, <1>3, <1>4, <1>5, <1>6 DEF Engine

LEMMA RequestsType ==
    ASSUME TypeOK, NEW c \in Calls, Requests(c), TrackingAssumption
    PROVE  TypeOK'
  <1> USE DEF PC, CompletionPC, EnginePC
  <1>1. CASE SubmitComplete(c)
    <2>1. inflight' \in SUBSET Procs
      BY <1>1 DEF SubmitComplete, TypeOK, TrackingAssumption
    <2>2. pc' \in [Calls -> PC]
      BY <1>1 DEF SubmitComplete, TypeOK, Goto
    <2>3. UNCHANGED <<rows, busy, day, locals, history>>
      BY <1>1 DEF SubmitComplete
    <2> QED BY <2>1, <2>2, <2>3 DEF TypeOK, rows, locals, history
  <1>2. CASE FreeInflight(c)
    BY <1>2, ForgetType DEF FreeInflight, TypeOK, Move, rows, history
  <1>3. CASE ReadForCancel(c)
    <2>1. [track.data EXCEPT !.status = "cancelled"] \in Doc
      BY DEF TypeOK, Doc, Status
    <2>2. copy' \in [Calls -> Doc]
      BY <1>3, <2>1, CopyType DEF ReadForCancel
    <2> QED BY ZenonT(60), <1>3, <2>2 DEF ReadForCancel, TypeOK, Goto, rows, flags, history
  <1>4. CASE CancelTracking(c)
    BY <1>4, ForgetType DEF CancelTracking, TypeOK, Move, flags, history
  <1>5. CASE CancelSchedule(c)
    BY <1>5 DEF CancelSchedule, Unschedule, TypeOK, Move, flags, locals, history
  <1>6. CASE StartReview(c)
    BY <1>6 DEF StartReview, TypeOK, Goto, rows, flags, locals, history
  <1>7. CASE UnscheduleForReview(c)
    BY <1>7 DEF UnscheduleForReview, Unschedule, TypeOK, Move, flags, locals, history
  <1>8. CASE RunReviewJob(c)
    BY <1>8 DEF RunReviewJob, TypeOK, Move, rows, flags, locals, history
  <1>9. CASE ReadReport(c)
    <2>0. report \in Nat /\ scores \in [Calls -> Nat]
      BY DEF TypeOK
    <2>5. \/ scores' = [scores EXCEPT ![c] = report]
          \/ scores' = scores
      BY <1>9 DEF ReadReport
    <2>1. scores' \in [Calls -> Nat]
      BY <2>0, <2>5
    <2>2. pc' \in [Calls -> PC]
      BY <1>9 DEF ReadReport, TypeOK, Goto
    <2>3. UNCHANGED <<rows, flags, day, copy, since, closes, history>>
      BY <1>9 DEF ReadReport
    <2> QED BY <2>1, <2>2, <2>3 DEF TypeOK, rows, flags, history
  <1>10. CASE WriteReportBack(c)
    BY <1>10, ForgetType DEF WriteReportBack, TypeOK, Move, flags, history
  <1> QED BY <1>1, <1>2, <1>3, <1>4, <1>5, <1>6, <1>7, <1>8, <1>9, <1>10 DEF Requests

LEMMA SchedulersType ==
    ASSUME TypeOK, NEW c \in Calls, Checker(c) \/ Collector(c), TrackingAssumption
    PROVE  TypeOK'
  <1> USE DEF PC, CompletionPC, EnginePC
  <1>1. CASE ListDueReviews(c)
    BY <1>1 DEF ListDueReviews, TypeOK, Goto, rows, flags, locals, history
  <1>2. CASE MarkReviewDone(c)
    BY <1>2 DEF MarkReviewDone, TypeOK, Move, flags, locals, history
  <1>3. CASE StartRound(c)
    BY <1>3 DEF StartRound, TypeOK, Goto, rows, locals, history, TrackingAssumption
  <1>4. CASE ListTargets(c)
    BY <1>4 DEF ListTargets, TypeOK, Goto, rows, flags, history
  <1>5. CASE Throttle(c)
    BY <1>5 DEF Throttle, TypeOK, Goto, rows, flags, locals, history
  <1>6. CASE SaveSnapshot(c)
    <2>1. snaps' \in Seq([at : Days, type : SnapTypes])
      BY <1>6, InsertType DEF SaveSnapshot, TypeOK, SnapTypes
    <2> QED BY <1>6, <2>1 DEF SaveSnapshot, TypeOK, Move, flags, locals, history
  <1>7. CASE EndRound(c)
    BY <1>7, ForgetType DEF EndRound, TypeOK, Move, rows, history
  <1> QED BY <1>1, <1>2, <1>3, <1>4, <1>5, <1>6, <1>7 DEF Checker, Collector

LEMMA TypeInit == TrackingAssumption /\ Init => TypeOK
  <1> SUFFICES ASSUME TrackingAssumption, Init PROVE TypeOK
    OBVIOUS
  <1>1. snaps \in Seq([at : Days, type : SnapTypes])
    BY DEF Init
  <1>2. track \in [exists : BOOLEAN, data : Doc] /\ copy \in [Calls -> Doc]
    BY NoDocType DEF Init
  <1>3. pc \in [Calls -> PC]
    BY DEF Init, PC
  <1>4. since \in [Calls -> Days] /\ day \in Days
    BY DEF Init, Days, TrackingAssumption
  <1> QED BY <1>1, <1>2, <1>3, <1>4 DEF Init, TypeOK

LEMMA TypeStep == TrackingAssumption /\ TypeOK /\ [Next]_vars => TypeOK'
  <1> SUFFICES ASSUME TrackingAssumption, TypeOK, [Next]_vars PROVE TypeOK'
    OBVIOUS
  <1>1. CASE Tick
    BY <1>1 DEF Tick, TypeOK, Days, TrackingAssumption, rows, flags, locals, history
  <1>2. CASE UNCHANGED vars
    BY <1>2 DEF vars, TypeOK, rows, flags, locals, history
  <1>3. ASSUME NEW c \in Calls,
               Snapshot(c) \/ Completion(c) \/ Engine(c) \/ Checker(c) \/ Collector(c) \/ Requests(c)
        PROVE  TypeOK'
    BY <1>3, SnapshotType, CompletionType, EngineType, SchedulersType, RequestsType
  <1> QED BY <1>1, <1>2, <1>3 DEF Next

\* Every reachable state is well typed.
THEOREM TypeCorrect == Spec => []TypeOK
  BY TrackingAssumption, TypeInit, TypeStep, PTL DEF Spec

LEMMA AppendIsNotEmpty ==
    ASSUME NEW S, NEW s \in Seq(S), NEW e \in S
    PROVE  Append(s, e) # <<>>
  <1>1. Len(Append(s, e)) = Len(s) + 1 /\ Len(s) \in Nat
    OBVIOUS
  <1>2. Len(<<>>) = 0
    OBVIOUS
  <1> QED BY <1>1, <1>2

\* What a document keeps when one of its fields is written.
LEMMA DocOf ==
    ASSUME NEW d \in Doc
    PROVE  /\ \A s : [d EXCEPT !.status = s].status = s
           /\ \A n : [d EXCEPT !.count = n].status = d.status
  BY DEF Doc

LEMMA RowOf ==
    ASSUME TypeOK
    PROVE  \A d : /\ [track EXCEPT !.data = d].data = d
                  /\ [track EXCEPT !.data = d].exists = track.exists
  BY DEF TypeOK


-----------------------------------------------------------------------------
(* Reviews.  A completion runs only on an existing row; where no closing       *)
(* snapshot is due there is a snapshot already, so that what it reports on is  *)
(* never empty; and it ends with a report unless it was cut short.             *)

Reported == report # 0

ReviewInv ==
    /\ \A c \in Calls :
          /\ pc[c] \in CompletionPC => track.exists
          /\ pc[c] = "cAll" /\ ~closes[c] => snaps # <<>>
          /\ pc[c] \in {"cClose", "cUpdate", "cReport", "pWrite"} => scores[c] # 0
          /\ pc[c] = "cLearn" => Reported
          /\ pc[c] = "eDone" /\ ~cut => Reported
    /\ session = "completed" /\ ~cut => Reported
    /\ learned > 0 => Reported

LEMMA ReviewInit == Init => ReviewInv
  BY DEF Init, ReviewInv, CompletionPC

LEMMA ReviewStep == TypeOK /\ ReviewInv /\ [Next]_vars => ReviewInv'
  <1> SUFFICES ASSUME TypeOK, ReviewInv, [Next]_vars PROVE ReviewInv'
    OBVIOUS
  <1> USE DEF CompletionPC, Reported
  <1>1. CASE Tick
    BY <1>1 DEF Tick, ReviewInv, TypeOK, rows, flags, locals, history
  <1>2. CASE UNCHANGED vars
    BY <1>2 DEF vars, ReviewInv, TypeOK, rows, flags, locals, history
  <1>3. ASSUME NEW c \in Calls, Snapshot(c) PROVE ReviewInv'
    <2>1. CASE ReadForSnapshot(c)
      BY <2>1 DEF ReadForSnapshot, Goto, rows, flags, history, ReviewInv, TypeOK
    <2>2. CASE LookAgain(c)
      BY <2>2 DEF LookAgain, Goto, rows, flags, history, ReviewInv, TypeOK
    <2>3. CASE CreateForSnapshot(c)
      BY <2>3 DEF CreateForSnapshot, Goto, flags, history, NoDoc, ReviewInv, TypeOK
    <2>4. CASE UnscheduleForSnapshot(c)
      BY <2>4 DEF UnscheduleForSnapshot, Move, Unschedule, flags, locals, history, ReviewInv, TypeOK
    <2>5. CASE CollectForSnapshot(c)
      BY <2>5 DEF CollectForSnapshot, Move, rows, flags, locals, history, ReviewInv, TypeOK
    <2>6. CASE UpdateForSnapshot(c)
      BY <2>6 DEF UpdateForSnapshot, Move, flags, locals, history, ReviewInv, TypeOK
    <2>7. CASE InsertForSnapshot(c)
      <3>1. snaps # <<>> => snaps' # <<>>
        BY <2>7, AppendIsNotEmpty DEF InsertForSnapshot, Insert, TypeOK, SnapTypes
      <3>2. /\ Move(c, "sInsert", "over") /\ UNCHANGED <<cut, session, learned, report, track>>
            /\ \A d \in Calls \ {c} : scores'[d] = scores[d] /\ closes'[d] = closes[d]
        BY <2>7 DEF InsertForSnapshot, Forget, TypeOK
      <3> QED BY <3>1, <3>2 DEF Move, ReviewInv, TypeOK
    <2> QED BY <1>3, <2>1, <2>2, <2>3, <2>4, <2>5, <2>6, <2>7 DEF Snapshot
  <1>4. ASSUME NEW c \in Calls, Completion(c) PROVE ReviewInv'
    <2>1. CASE ReadRow(c)
      BY <2>1 DEF ReadRow, Goto, rows, flags, history, AfterCompletion, ReviewInv, TypeOK
    <2>2. CASE ReadLatest(c)
      <3>1. CASE snaps = <<>> /\ closes' = [closes EXCEPT ![c] = TRUE]
        BY <2>2, <3>1 DEF ReadLatest, Move, rows, flags, history, ReviewInv, TypeOK
      <3>2. CASE snaps # <<>>
        BY <2>2, <3>2 DEF ReadLatest, Move, rows, flags, history, ReviewInv, TypeOK
      <3>3. \A i \in Latest : snaps # <<>>
        BY DEF Latest
      <3> QED BY <2>2, <3>1, <3>2, <3>3 DEF ReadLatest
    <2>3. CASE ReadSnapshots(c)
      BY <2>3 DEF ReadSnapshots, Move, rows, flags, history, ReviewInv, TypeOK
    <2>4. CASE InsertClosing(c)
      BY <2>4 DEF InsertClosing, Move, Insert, flags, locals, history, ReviewInv, TypeOK
    <2>5. CASE CompleteRow(c)
      BY <2>5 DEF CompleteRow, Move, flags, locals, ReviewInv, TypeOK
    <2>6. CASE StoreReport(c)
      BY <2>6 DEF StoreReport, Move, flags, locals, history, ReviewInv, TypeOK
    <2>7. CASE Learn(c)
      BY <2>7 DEF Learn, Goto, flags, locals, history, AfterCompletion, ReviewInv, TypeOK
    <2>8. CASE CutShort(c)
      BY <2>8 DEF CutShort, Goto, rows, flags, locals, AfterCompletion, ReviewInv, TypeOK
    <2> QED BY <1>4, <2>1, <2>2, <2>3, <2>4, <2>5, <2>6, <2>7, <2>8 DEF Completion
  <1>5. ASSUME NEW c \in Calls, Engine(c) PROVE ReviewInv'
    <2>1. CASE ReadPhase(c)
      BY <2>1 DEF ReadPhase, Goto, rows, flags, locals, history, AfterEngine, ReviewInv, TypeOK
    <2>2. CASE EnterTracking(c)
      BY <2>2 DEF EnterTracking, Move, flags, locals, history, ReviewInv, TypeOK
    <2>3. CASE EnsureTracking(c)
      BY <2>3 DEF EnsureTracking, Goto, rows, flags, locals, history, ReviewInv, TypeOK
    <2>4. CASE CreateTracking(c)
      BY <2>4 DEF CreateTracking, Goto, flags, locals, history, NoDoc, ReviewInv, TypeOK
    <2>5. CASE FinishReview(c)
      BY <2>5 DEF FinishReview, Goto, Forget, flags, history, NoDoc, AfterEngine, ReviewInv, TypeOK
    <2>6. CASE FailReview(c)
      BY <2>6 DEF FailReview, Goto, Forget, flags, history, NoDoc, ReviewInv, TypeOK
    <2> QED BY <1>5, <2>1, <2>2, <2>3, <2>4, <2>5, <2>6 DEF Engine
  <1>6. ASSUME NEW c \in Calls, Checker(c) PROVE ReviewInv'
    <2>1. CASE ListDueReviews(c)
      BY <2>1 DEF ListDueReviews, Goto, rows, flags, locals, history, ReviewInv, TypeOK
    <2>2. CASE MarkReviewDone(c)
      BY <2>2 DEF MarkReviewDone, Move, flags, locals, history, ReviewInv, TypeOK
    <2> QED BY <1>6, <2>1, <2>2 DEF Checker
  <1>7. ASSUME NEW c \in Calls, Collector(c) PROVE ReviewInv'
    <2>1. CASE StartRound(c)
      BY <2>1 DEF StartRound, Goto, rows, locals, history, ReviewInv, TypeOK
    <2>2. CASE ListTargets(c)
      BY <2>2 DEF ListTargets, Goto, rows, flags, history, ReviewInv, TypeOK
    <2>3. CASE Throttle(c)
      BY <2>3 DEF Throttle, Goto, rows, flags, locals, history, ReviewInv, TypeOK
    <2>4. CASE SaveSnapshot(c)
      BY <2>4 DEF SaveSnapshot, Move, Insert, flags, locals, history, ReviewInv, TypeOK
    <2>5. CASE EndRound(c)
      BY <2>5 DEF EndRound, Move, Forget, rows, history, NoDoc, ReviewInv, TypeOK
    <2> QED BY <1>7, <2>1, <2>2, <2>3, <2>4, <2>5 DEF Collector
  <1>8. ASSUME NEW c \in Calls, Requests(c) PROVE ReviewInv'
    <2>1. CASE SubmitComplete(c)
      BY <2>1 DEF SubmitComplete, Goto, rows, locals, history, ReviewInv, TypeOK
    <2>2. CASE FreeInflight(c)
      BY <2>2 DEF FreeInflight, Move, Forget, rows, history, NoDoc, ReviewInv, TypeOK
    <2>3. CASE ReadForCancel(c)
      BY <2>3 DEF ReadForCancel, Goto, rows, flags, history, ReviewInv, TypeOK
    <2>4. CASE CancelTracking(c)
      BY <2>4 DEF CancelTracking, Move, Forget, flags, history, NoDoc, ReviewInv, TypeOK
    <2>5. CASE CancelSchedule(c)
      BY <2>5 DEF CancelSchedule, Move, Unschedule, flags, locals, history, ReviewInv, TypeOK
    <2>6. CASE StartReview(c)
      BY <2>6 DEF StartReview, Goto, rows, flags, locals, history, ReviewInv, TypeOK
    <2>7. CASE UnscheduleForReview(c)
      BY <2>7 DEF UnscheduleForReview, Move, Unschedule, flags, locals, history, ReviewInv, TypeOK
    <2>8. CASE RunReviewJob(c)
      BY <2>8 DEF RunReviewJob, Move, rows, flags, locals, history, ReviewInv, TypeOK
    <2>9. CASE ReadReport(c)
      BY <2>9 DEF ReadReport, Goto, rows, flags, history, ReviewInv, TypeOK
    <2>10. CASE WriteReportBack(c)
      BY <2>10 DEF WriteReportBack, Move, Forget, flags, history, NoDoc, ReviewInv, TypeOK
    <2> QED BY <1>8, <2>1, <2>2, <2>3, <2>4, <2>5, <2>6, <2>7, <2>8, <2>9, <2>10 DEF Requests
  <1> QED BY <1>1, <1>2, <1>3, <1>4, <1>5, <1>6, <1>7, <1>8 DEF Next

\* Unless a review was cut short, a session that says "completed" has its report, and
\* no plan is saved as effective without one.
THEOREM ReportBeforeCompletion == Spec => []ReviewedBeforeCompleted
  <1>1. ReviewInv => ReviewedBeforeCompleted
    BY DEF ReviewInv, ReviewedBeforeCompleted, Reported
  <1> QED BY TypeCorrect, ReviewInit, ReviewStep, <1>1, PTL DEF Spec

-----------------------------------------------------------------------------
(* Completions.                                                               *)

UndoInv ==
    /\ fate # "open" => track.exists
    /\ fate = "completed" => /\ track.data.status # "active"
                             /\ \A c \in Calls : ~HoldsActiveCopy(c)
    /\ \A c \in Calls :
          /\ pc[c] \in CompletionPC => track.exists
          /\ pc[c] \in {"cLatest", "cAll", "cClose", "cUpdate"} => copy[c].status = "completed"
          /\ pc[c] = "xWrite" => copy[c].status = "cancelled"

LEMMA UndoInit == Init => UndoInv
  BY DEF Init, UndoInv, CompletionPC, HoldsActiveCopy, NoDoc

LEMMA UndoStep == TypeOK /\ UndoInv /\ [Next]_vars => UndoInv'
  <1> SUFFICES ASSUME TypeOK, UndoInv, [Next]_vars PROVE UndoInv'
    OBVIOUS
  <1> USE DEF CompletionPC, HoldsActiveCopy
  <1>1. CASE Tick
    BY <1>1 DEF Tick, UndoInv, TypeOK, rows, flags, locals, history
  <1>2. CASE UNCHANGED vars
    BY <1>2 DEF vars, UndoInv, TypeOK, rows, flags, locals, history
  <1>3. ASSUME NEW c \in Calls, Snapshot(c) PROVE UndoInv'
    <2>1. CASE ReadForSnapshot(c)
      BY ZenonT(60), <2>1 DEF ReadForSnapshot, Goto, rows, flags, history, UndoInv, TypeOK
    <2>2. CASE LookAgain(c)
      BY ZenonT(60), <2>2 DEF LookAgain, Goto, rows, flags, history, UndoInv, TypeOK
    <2>3. CASE CreateForSnapshot(c)
      BY ZenonT(60), <2>3 DEF CreateForSnapshot, Goto, flags, history, NoDoc, UndoInv, TypeOK
    <2>4. CASE UnscheduleForSnapshot(c)
      BY <2>4 DEF UnscheduleForSnapshot, Move, Unschedule, flags, locals, history, UndoInv, TypeOK
    <2>5. CASE CollectForSnapshot(c)
      BY <2>5 DEF CollectForSnapshot, Move, rows, flags, locals, history, UndoInv, TypeOK
    <2>6. CASE UpdateForSnapshot(c)
      <3>1. track'.exists = track.exists /\ track'.data.status = copy[c].status
        BY <2>6, RowOf, DocOf DEF UpdateForSnapshot, TypeOK
      <3>2. Move(c, "sUpdate", "sInsert") /\ UNCHANGED <<copy, fate>>
        BY <2>6 DEF UpdateForSnapshot, locals, history
      <3> QED BY <3>1, <3>2 DEF Move, UndoInv, TypeOK
    <2>7. CASE InsertForSnapshot(c)
      BY <2>7 DEF InsertForSnapshot, Move, Forget, Insert, flags, history, NoDoc, UndoInv, TypeOK
    <2> QED BY <1>3, <2>1, <2>2, <2>3, <2>4, <2>5, <2>6, <2>7 DEF Snapshot
  <1>4. ASSUME NEW c \in Calls, Completion(c) PROVE UndoInv'
    <2>1. CASE ReadRow(c)
      <3>1. CASE track.exists
        <4>1. PICK d : d.status = "completed" /\ copy' = [copy EXCEPT ![c] = d]
          BY <2>1, <3>1, DocOf DEF ReadRow, TypeOK
        <4>2. Goto(c, "cLatest") /\ UNCHANGED <<track, fate>>
          BY <2>1, <3>1 DEF ReadRow, rows, history
        <4> QED BY <2>1, <4>1, <4>2 DEF ReadRow, Goto, UndoInv, TypeOK
      <3>2. CASE ~track.exists
        BY <2>1, <3>2 DEF ReadRow, Goto, rows, flags, history, AfterCompletion, UndoInv, TypeOK
      <3> QED BY <3>1, <3>2
    <2>2. CASE ReadLatest(c)
      BY <2>2 DEF ReadLatest, Move, rows, flags, history, UndoInv, TypeOK
    <2>3. CASE ReadSnapshots(c)
      BY <2>3 DEF ReadSnapshots, Move, rows, flags, history, UndoInv, TypeOK
    <2>4. CASE InsertClosing(c)
      BY <2>4 DEF InsertClosing, Move, Insert, flags, locals, history, UndoInv, TypeOK
    <2>5. CASE CompleteRow(c)
      <3>1. track'.exists = track.exists /\ track'.data.status = copy[c].status
        <4>1. PICK n : track' = [track EXCEPT !.data = [copy[c] EXCEPT !.count = n]]
          BY <2>5, Zenon DEF CompleteRow
        <4>2. copy[c] \in Doc
          BY DEF TypeOK
        <4>3. [copy[c] EXCEPT !.count = n].status = copy[c].status
          BY <4>2, DocOf
        <4>4. /\ track'.data = [copy[c] EXCEPT !.count = n]
              /\ track'.exists = track.exists
          BY <4>1, RowOf, Zenon
        <4> QED BY <4>3, <4>4
      <3>2. Move(c, "cUpdate", "cReport") /\ UNCHANGED copy
        BY <2>5 DEF CompleteRow, locals
      <3>3. fate' = "completed" /\ fate # "completed" => \A k \in Calls : ~HoldsActiveCopy(k)
        BY <2>5 DEF CompleteRow
      <3> QED BY <2>5, <3>1, <3>2, <3>3 DEF CompleteRow, Move, UndoInv, TypeOK
    <2>6. CASE StoreReport(c)
      BY <2>6 DEF StoreReport, Move, flags, locals, history, UndoInv, TypeOK
    <2>7. CASE Learn(c)
      BY <2>7 DEF Learn, Goto, flags, locals, history, AfterCompletion, UndoInv, TypeOK
    <2>8. CASE CutShort(c)
      BY <2>8 DEF CutShort, Goto, rows, flags, locals, AfterCompletion, UndoInv, TypeOK
    <2> QED BY <1>4, <2>1, <2>2, <2>3, <2>4, <2>5, <2>6, <2>7, <2>8 DEF Completion
  <1>5. ASSUME NEW c \in Calls, Engine(c) PROVE UndoInv'
    <2>1. CASE ReadPhase(c)
      BY <2>1 DEF ReadPhase, Goto, rows, flags, locals, history, AfterEngine, UndoInv, TypeOK
    <2>2. CASE EnterTracking(c)
      BY <2>2 DEF EnterTracking, Move, flags, locals, history, UndoInv, TypeOK
    <2>3. CASE EnsureTracking(c)
      BY <2>3 DEF EnsureTracking, Goto, rows, flags, locals, history, UndoInv, TypeOK
    <2>4. CASE CreateTracking(c)
      BY <2>4 DEF CreateTracking, Goto, flags, locals, history, NoDoc, UndoInv, TypeOK
    <2>5. CASE FinishReview(c)
      BY <2>5 DEF FinishReview, Goto, Forget, flags, history, NoDoc, AfterEngine, UndoInv, TypeOK
    <2>6. CASE FailReview(c)
      BY <2>6 DEF FailReview, Goto, Forget, flags, history, NoDoc, UndoInv, TypeOK
    <2> QED BY <1>5, <2>1, <2>2, <2>3, <2>4, <2>5, <2>6 DEF Engine
  <1>6. ASSUME NEW c \in Calls, Checker(c) PROVE UndoInv'
    <2>1. CASE ListDueReviews(c)
      BY <2>1 DEF ListDueReviews, Goto, rows, flags, locals, history, UndoInv, TypeOK
    <2>2. CASE MarkReviewDone(c)
      BY <2>2 DEF MarkReviewDone, Move, flags, locals, history, UndoInv, TypeOK
    <2> QED BY <1>6, <2>1, <2>2 DEF Checker
  <1>7. ASSUME NEW c \in Calls, Collector(c) PROVE UndoInv'
    <2>1. CASE StartRound(c)
      BY <2>1 DEF StartRound, Goto, rows, locals, history, UndoInv, TypeOK
    <2>2. CASE ListTargets(c)
      BY <2>2 DEF ListTargets, Goto, rows, flags, history, UndoInv, TypeOK
    <2>3. CASE Throttle(c)
      BY <2>3 DEF Throttle, Goto, rows, flags, locals, history, UndoInv, TypeOK
    <2>4. CASE SaveSnapshot(c)
      BY <2>4 DEF SaveSnapshot, Move, Insert, flags, locals, history, UndoInv, TypeOK
    <2>5. CASE EndRound(c)
      BY <2>5 DEF EndRound, Move, Forget, rows, history, NoDoc, UndoInv, TypeOK
    <2> QED BY <1>7, <2>1, <2>2, <2>3, <2>4, <2>5 DEF Collector
  <1>8. ASSUME NEW c \in Calls, Requests(c) PROVE UndoInv'
    <2>1. CASE SubmitComplete(c)
      BY <2>1 DEF SubmitComplete, Goto, rows, locals, history, UndoInv, TypeOK
    <2>2. CASE FreeInflight(c)
      BY <2>2 DEF FreeInflight, Move, Forget, rows, history, NoDoc, UndoInv, TypeOK
    <2>3. CASE ReadForCancel(c)
      <3>1. CASE track.exists
        <4>1. PICK d : d.status = "cancelled" /\ copy' = [copy EXCEPT ![c] = d]
          BY <2>3, <3>1, DocOf DEF ReadForCancel, TypeOK
        <4>2. Goto(c, "xWrite") /\ UNCHANGED <<track, fate>>
          BY <2>3, <3>1 DEF ReadForCancel, rows, history
        <4> QED BY <2>3, <4>1, <4>2 DEF ReadForCancel, Goto, UndoInv, TypeOK
      <3>2. CASE ~track.exists
        BY <2>3, <3>2 DEF ReadForCancel, Goto, rows, flags, history, UndoInv, TypeOK
      <3> QED BY <3>1, <3>2
    <2>4. CASE CancelTracking(c)
      BY <2>4 DEF CancelTracking, Move, Forget, flags, history, NoDoc, UndoInv, TypeOK
    <2>5. CASE CancelSchedule(c)
      BY <2>5 DEF CancelSchedule, Move, Unschedule, flags, locals, history, UndoInv, TypeOK
    <2>6. CASE StartReview(c)
      BY <2>6 DEF StartReview, Goto, rows, flags, locals, history, UndoInv, TypeOK
    <2>7. CASE UnscheduleForReview(c)
      BY <2>7 DEF UnscheduleForReview, Move, Unschedule, flags, locals, history, UndoInv, TypeOK
    <2>8. CASE RunReviewJob(c)
      BY <2>8 DEF RunReviewJob, Move, rows, flags, locals, history, UndoInv, TypeOK
    <2>9. CASE ReadReport(c)
      BY <2>9 DEF ReadReport, Goto, rows, flags, history, UndoInv, TypeOK
    <2>10. CASE WriteReportBack(c)
      BY <2>10 DEF WriteReportBack, Move, Forget, flags, history, NoDoc, UndoInv, TypeOK
    <2> QED BY <1>8, <2>1, <2>2, <2>3, <2>4, <2>5, <2>6, <2>7, <2>8, <2>9, <2>10 DEF Requests
  <1> QED BY <1>1, <1>2, <1>3, <1>4, <1>5, <1>6, <1>7, <1>8 DEF Next

\* A completion is undone only by a snapshot request that had read the row before it.
THEOREM CompletionLasts == Spec => []CompletionIsNotUndone
  <1>1. UndoInv => CompletionIsNotUndone
    BY DEF UndoInv, CompletionIsNotUndone
  <1> QED BY TypeCorrect, UndoInit, UndoStep, <1>1, PTL DEF Spec

-----------------------------------------------------------------------------
(* The set of completions under way.                                           *)

Completing(c) == KindOf[c] = "complete" /\ pc[c] \in CompletionPC \cup {"cFree"}

InflightInv ==
    /\ \A c \in Calls :
          /\ Completing(c) => ProcOf[c] \in inflight
          /\ pc[c] \in EnginePC \cup {"vCancel", "vQueued"} => KindOf[c] # "complete"
          /\ pc[c] = "cFree" => KindOf[c] = "complete"
    /\ \A c, d \in Calls : Completing(c) /\ Completing(d) /\ ProcOf[c] = ProcOf[d] => c = d

LEMMA InflightInit == Init => InflightInv
  BY DEF Init, InflightInv, Completing, CompletionPC, EnginePC

\* A step to a point outside completions and reviews.
LEMMA InflightQuiet ==
    ASSUME TypeOK, InflightInv, NEW c \in Calls, NEW to,
           UNCHANGED inflight, Goto(c, to),
           to \notin CompletionPC \cup EnginePC \cup {"cFree", "vCancel", "vQueued"}
    PROVE  InflightInv'
  <1>1. pc' = [pc EXCEPT ![c] = to] /\ pc \in [Calls -> PC]
    BY DEF Goto, TypeOK
  <1>2. pc'[c] = to /\ \A d \in Calls \ {c} : pc'[d] = pc[d]
    BY <1>1
  <1>3. ~Completing(c)' /\ \A d \in Calls \ {c} : Completing(d)' <=> Completing(d)
    BY <1>2 DEF Completing
  <1>4. \A d \in Calls : (Completing(d) => ProcOf[d] \in inflight)'
    BY <1>3 DEF InflightInv
  <1>5. \A d \in Calls : /\ (pc[d] \in EnginePC \cup {"vCancel", "vQueued"} => KindOf[d] # "complete")'
                        /\ (pc[d] = "cFree" => KindOf[d] = "complete")'
    BY <1>2 DEF InflightInv
  <1>6. \A d, e \in Calls : (Completing(d) /\ Completing(e) /\ ProcOf[d] = ProcOf[e] => d = e)'
    BY <1>3 DEF InflightInv
  <1> QED BY <1>4, <1>5, <1>6 DEF InflightInv

\* The completion of a request in a process that has none.
LEMMA InflightEnter ==
    ASSUME TypeOK, InflightInv, NEW c \in Calls, KindOf[c] = "complete",
           ProcOf[c] \notin inflight, inflight' = inflight \cup {ProcOf[c]}, Goto(c, "cRow")
    PROVE  InflightInv'
  <1>1. pc'[c] = "cRow" /\ \A d \in Calls \ {c} : pc'[d] = pc[d]
    BY DEF Goto, TypeOK
  <1>2. \A d \in Calls \ {c} : Completing(d)' <=> Completing(d)
    BY <1>1 DEF Completing
  <1>3. \A d \in Calls \ {c} : Completing(d) => ProcOf[d] # ProcOf[c]
    BY DEF InflightInv
  <1>4. \A d, e \in Calls : (Completing(d) /\ Completing(e) /\ ProcOf[d] = ProcOf[e] => d = e)'
    BY <1>2, <1>3 DEF InflightInv
  <1>5. \A d \in Calls : (Completing(d) => ProcOf[d] \in inflight)'
    BY <1>2 DEF InflightInv
  <1>6. "cRow" \notin EnginePC \cup {"cFree", "vCancel", "vQueued"}
    BY DEF EnginePC
  <1>7. \A d \in Calls : /\ (pc[d] \in EnginePC \cup {"vCancel", "vQueued"} => KindOf[d] # "complete")'
                        /\ (pc[d] = "cFree" => KindOf[d] = "complete")'
    BY <1>1, <1>6 DEF InflightInv
  <1> QED BY <1>4, <1>5, <1>7 DEF InflightInv

LEMMA InflightStep == TypeOK /\ InflightInv /\ [Next]_vars => InflightInv'
  <1> SUFFICES ASSUME TypeOK, InflightInv, [Next]_vars PROVE InflightInv'
    OBVIOUS
  <1> USE DEF CompletionPC, EnginePC, Completing
  <1>1. CASE Tick
    BY <1>1 DEF Tick, InflightInv, TypeOK, rows, flags, locals, history
  <1>2. CASE UNCHANGED vars
    BY <1>2 DEF vars, InflightInv, TypeOK, rows, flags, locals, history
  <1>3. ASSUME NEW c \in Calls, Snapshot(c) PROVE InflightInv'
    <2>1. CASE ReadForSnapshot(c)
      <3>1. UNCHANGED inflight /\ (Goto(c, "sCollect") \/ Goto(c, "sBoot"))
        BY <2>1 DEF ReadForSnapshot, flags
      <3> QED BY <3>1, InflightQuiet
    <2>2. CASE LookAgain(c)
      <3>1. UNCHANGED inflight /\ (Goto(c, "sCollect") \/ Goto(c, "sCreate"))
        BY <2>2 DEF LookAgain, flags
      <3> QED BY <3>1, InflightQuiet
    <2>3. CASE CreateForSnapshot(c)
      <3>1. UNCHANGED inflight /\ (Goto(c, "over") \/ Goto(c, "sUnschedule"))
        BY <2>3 DEF CreateForSnapshot, flags
      <3> QED BY <3>1, InflightQuiet
    <2>4. CASE UnscheduleForSnapshot(c)
      <3>1. UNCHANGED inflight /\ Goto(c, "sCollect")
        BY <2>4 DEF UnscheduleForSnapshot, Move, Goto, flags
      <3> QED BY <3>1, InflightQuiet
    <2>5. CASE CollectForSnapshot(c)
      <3>1. UNCHANGED inflight /\ (Goto(c, "sUpdate") \/ Goto(c, "over"))
        BY <2>5 DEF CollectForSnapshot, Move, Goto, flags
      <3> QED BY <3>1, InflightQuiet
    <2>6. CASE UpdateForSnapshot(c)
      <3>1. UNCHANGED inflight /\ Goto(c, "sInsert")
        BY <2>6 DEF UpdateForSnapshot, Move, Goto, flags
      <3> QED BY <3>1, InflightQuiet
    <2>7. CASE InsertForSnapshot(c)
      <3>1. UNCHANGED inflight /\ Goto(c, "over")
        BY <2>7 DEF InsertForSnapshot, Move, Goto, flags
      <3> QED BY <3>1, InflightQuiet
    <2> QED BY <1>3, <2>1, <2>2, <2>3, <2>4, <2>5, <2>6, <2>7 DEF Snapshot
  <1>4. ASSUME NEW c \in Calls, Completion(c) PROVE InflightInv'
    <2>1. CASE ReadRow(c)
      <3>1. pc[c] = "cRow" /\ UNCHANGED inflight
        BY <2>1 DEF ReadRow, flags
      <3>2. Goto(c, "cLatest") \/ Goto(c, AfterCompletion(c))
        BY <2>1 DEF ReadRow
      <3>3. CASE Goto(c, "cLatest")
        BY <3>1, <3>3 DEF Goto, InflightInv, TypeOK
      <3>4. CASE Goto(c, "cFree") /\ KindOf[c] = "complete"
        BY <3>1, <3>4 DEF Goto, InflightInv, TypeOK
      <3>5. CASE Goto(c, "eDone") /\ KindOf[c] # "complete"
        BY <3>1, <3>5 DEF Goto, InflightInv, TypeOK
      <3> QED BY <3>2, <3>3, <3>4, <3>5 DEF AfterCompletion
    <2>2. CASE ReadLatest(c)
      BY <2>2 DEF ReadLatest, Move, rows, flags, history, InflightInv, TypeOK
    <2>3. CASE ReadSnapshots(c)
      BY <2>3 DEF ReadSnapshots, Move, rows, flags, history, InflightInv, TypeOK
    <2>4. CASE InsertClosing(c)
      BY <2>4 DEF InsertClosing, Move, Insert, flags, locals, history, InflightInv, TypeOK
    <2>5. CASE CompleteRow(c)
      BY <2>5 DEF CompleteRow, Move, flags, locals, InflightInv, TypeOK
    <2>6. CASE StoreReport(c)
      BY <2>6 DEF StoreReport, Move, flags, locals, history, InflightInv, TypeOK
    <2>7. CASE Learn(c)
      BY <2>7 DEF Learn, Goto, flags, locals, history, AfterCompletion, InflightInv, TypeOK
    <2>8. CASE CutShort(c)
      BY <2>8 DEF CutShort, Goto, rows, flags, locals, AfterCompletion, InflightInv, TypeOK
    <2> QED BY <1>4, <2>1, <2>2, <2>3, <2>4, <2>5, <2>6, <2>7, <2>8 DEF Completion
  <1>5. ASSUME NEW c \in Calls, Engine(c) PROVE InflightInv'
    <2>1. CASE ReadPhase(c)
      BY <2>1 DEF ReadPhase, Goto, rows, flags, locals, history, AfterEngine, InflightInv, TypeOK
    <2>2. CASE EnterTracking(c)
      BY <2>2 DEF EnterTracking, Move, flags, locals, history, InflightInv, TypeOK
    <2>3. CASE EnsureTracking(c)
      BY <2>3 DEF EnsureTracking, Goto, rows, flags, locals, history, InflightInv, TypeOK
    <2>4. CASE CreateTracking(c)
      BY <2>4 DEF CreateTracking, Goto, flags, locals, history, NoDoc, InflightInv, TypeOK
    <2>5. CASE FinishReview(c)
      BY <2>5 DEF FinishReview, Goto, Forget, flags, history, NoDoc, AfterEngine, InflightInv, TypeOK
    <2>6. CASE FailReview(c)
      BY <2>6 DEF FailReview, Goto, Forget, flags, history, NoDoc, InflightInv, TypeOK
    <2> QED BY <1>5, <2>1, <2>2, <2>3, <2>4, <2>5, <2>6 DEF Engine
  <1>6. ASSUME NEW c \in Calls, Checker(c) PROVE InflightInv'
    <2>1. CASE ListDueReviews(c)
      BY <2>1 DEF ListDueReviews, Goto, rows, flags, locals, history, InflightInv, TypeOK
    <2>2. CASE MarkReviewDone(c)
      BY <2>2 DEF MarkReviewDone, Move, flags, locals, history, InflightInv, TypeOK
    <2> QED BY <1>6, <2>1, <2>2 DEF Checker
  <1>7. ASSUME NEW c \in Calls, Collector(c) PROVE InflightInv'
    <2>1. CASE StartRound(c)
      BY <2>1 DEF StartRound, Goto, rows, locals, history, InflightInv, TypeOK
    <2>2. CASE ListTargets(c)
      BY <2>2 DEF ListTargets, Goto, rows, flags, history, InflightInv, TypeOK
    <2>3. CASE Throttle(c)
      BY <2>3 DEF Throttle, Goto, rows, flags, locals, history, InflightInv, TypeOK
    <2>4. CASE SaveSnapshot(c)
      BY <2>4 DEF SaveSnapshot, Move, Insert, flags, locals, history, InflightInv, TypeOK
    <2>5. CASE EndRound(c)
      BY <2>5 DEF EndRound, Move, Forget, rows, history, NoDoc, InflightInv, TypeOK
    <2> QED BY <1>7, <2>1, <2>2, <2>3, <2>4, <2>5 DEF Collector
  <1>8. ASSUME NEW c \in Calls, Requests(c) PROVE InflightInv'
    <2>1. CASE SubmitComplete(c)
      <3>1. CASE track.exists /\ ProcOf[c] \notin inflight
        <4>1. Goto(c, "cRow") /\ KindOf[c] = "complete" /\ inflight' = inflight \cup {ProcOf[c]}
          BY <2>1, <3>1 DEF SubmitComplete
        <4> QED BY <4>1, <3>1, InflightEnter
      <3>2. CASE ~(track.exists /\ ProcOf[c] \notin inflight)
        <4>1. UNCHANGED inflight /\ Goto(c, "over")
          BY <2>1, <3>2 DEF SubmitComplete
        <4> QED BY <4>1, InflightQuiet
      <3> QED BY <3>1, <3>2
    <2>2. CASE FreeInflight(c)
      BY <2>2 DEF FreeInflight, Move, Forget, rows, history, NoDoc, InflightInv, TypeOK
    <2>3. CASE ReadForCancel(c)
      <3>1. CASE track.exists
        <4>1. UNCHANGED inflight /\ Goto(c, "xWrite")
          BY <2>3, <3>1 DEF ReadForCancel, flags
        <4> QED BY <4>1, InflightQuiet
      <3>2. CASE ~track.exists
        <4> DEFINE to == IF pending = "pending" THEN "xPending" ELSE "over"
        <4>1. UNCHANGED inflight /\ Goto(c, to)
          BY <2>3, <3>2 DEF ReadForCancel, flags
        <4>2. to \notin CompletionPC \cup EnginePC \cup {"cFree", "vCancel", "vQueued"}
          OBVIOUS
        <4> QED BY <4>1, <4>2, InflightQuiet
      <3> QED BY <3>1, <3>2
    <2>4. CASE CancelTracking(c)
      BY <2>4 DEF CancelTracking, Move, Forget, flags, history, NoDoc, InflightInv, TypeOK
    <2>5. CASE CancelSchedule(c)
      BY <2>5 DEF CancelSchedule, Move, Unschedule, flags, locals, history, InflightInv, TypeOK
    <2>6. CASE StartReview(c)
      BY <2>6 DEF StartReview, Goto, rows, flags, locals, history, InflightInv, TypeOK
    <2>7. CASE UnscheduleForReview(c)
      BY <2>7 DEF UnscheduleForReview, Move, Unschedule, flags, locals, history, InflightInv, TypeOK
    <2>8. CASE RunReviewJob(c)
      BY <2>8 DEF RunReviewJob, Move, rows, flags, locals, history, InflightInv, TypeOK
    <2>9. CASE ReadReport(c)
      <3>1. UNCHANGED inflight /\ (Goto(c, "pWrite") \/ Goto(c, "over"))
        BY <2>9 DEF ReadReport, flags
      <3> QED BY <3>1, InflightQuiet
    <2>10. CASE WriteReportBack(c)
      BY <2>10 DEF WriteReportBack, Move, Forget, flags, history, NoDoc, InflightInv, TypeOK
    <2> QED BY <1>8, <2>1, <2>2, <2>3, <2>4, <2>5, <2>6, <2>7, <2>8, <2>9, <2>10 DEF Requests
  <1> QED BY <1>1, <1>2, <1>3, <1>4, <1>5, <1>6, <1>7, <1>8 DEF Next

\* At most one of the completions that requests started in a process is under way.
THEOREM OneInflight == Spec => []OneCompletionPerProcess
  <1>1. InflightInv => OneCompletionPerProcess
    BY DEF InflightInv, OneCompletionPerProcess, Completing
  <1> QED BY TypeCorrect, InflightInit, InflightStep, <1>1, PTL DEF Spec

-----------------------------------------------------------------------------
(* The daily collector.  Where every call runs in one process its busy flag     *)
(* lets one round at a time choose, wait for the business system and save, so   *)
(* that the distance it has checked is the distance its snapshot keeps.         *)

RoundPC == {"kTargets", "kLast", "kCollect", "kFree"}
Collecting(c) == pc[c] \in RoundPC
OneProcessOnly == \A c, d \in Calls : ProcOf[c] = ProcOf[d]

SpacedInv ==
    /\ \A c \in Calls :
          /\ Collecting(c) => ProcOf[c] \in busy
          /\ since[c] <= day
          /\ pc[c] = "kCollect" => \A i \in DOMAIN snaps :
                snaps[i].type = "auto" => snaps[i].at + Interval <= since[c]
    /\ \A c, d \in Calls : Collecting(c) /\ Collecting(d) => c = d
    /\ AutomaticSnapshotsSpaced

\* Other snapshots may come in between: they are no automatic ones.
OthersOnly == \/ UNCHANGED snaps
              \/ \E at \in Days, type \in SnapTypes \ {"auto"} : Insert(at, type)

LEMMA OthersKeepSpace ==
    ASSUME TypeOK, OthersOnly
    PROVE  /\ AutomaticSnapshotsSpaced => AutomaticSnapshotsSpaced'
           /\ \A n \in Nat : (\A i \in DOMAIN snaps :
                                 snaps[i].type = "auto" => snaps[i].at + Interval <= n)
                => \A i \in DOMAIN snaps' :
                      snaps'[i].type = "auto" => snaps'[i].at + Interval <= n
  <1>1. CASE UNCHANGED snaps
    BY <1>1 DEF AutomaticSnapshotsSpaced
  <1>2. ASSUME NEW at \in Days, NEW type \in SnapTypes \ {"auto"}, Insert(at, type)
        PROVE  /\ DOMAIN snaps' = 1..(Len(snaps) + 1) /\ DOMAIN snaps = 1..Len(snaps)
               /\ Len(snaps) \in Nat
               /\ \A i \in DOMAIN snaps : snaps'[i] = snaps[i]
               /\ snaps'[Len(snaps) + 1].type # "auto"
    BY <1>2 DEF Insert, TypeOK
  <1>3. ASSUME NEW at \in Days, NEW type \in SnapTypes \ {"auto"}, Insert(at, type)
        PROVE  \A i \in DOMAIN snaps' : snaps'[i].type = "auto" =>
                  i \in DOMAIN snaps /\ snaps'[i] = snaps[i]
    <2>1. \A i \in 1..(Len(snaps) + 1) : i \in 1..Len(snaps) \/ i = Len(snaps) + 1
      BY <1>2, <1>3
    <2> QED BY <1>2, <1>3, <2>1
  <1>4. CASE \E at \in Days, type \in SnapTypes \ {"auto"} : Insert(at, type)
    BY <1>3, <1>4 DEF AutomaticSnapshotsSpaced
  <1> QED BY <1>1, <1>4 DEF OthersOnly

\* A step of a call that is no round of the collector.
LEMMA OthersKeepSpacedInv ==
    ASSUME TypeOK, SpacedInv, NEW c \in Calls, ~Collecting(c),
           NEW to \in PC \ RoundPC, Goto(c, to), UNCHANGED <<busy, day>>, OthersOnly,
           NEW n \in Days, n <= day, since' = [since EXCEPT ![c] = n] \/ UNCHANGED since
    PROVE  SpacedInv'
  <1>1. \A d \in Calls : Collecting(d)' => Collecting(d) /\ d # c
    BY DEF Collecting, Goto, TypeOK
  <1>2. \A d \in Calls : /\ since'[d] <= day'
                         /\ d # c => since'[d] = since[d] /\ pc'[d] = pc[d]
    BY DEF SpacedInv, TypeOK, Goto
  <1>3. \A d \in Calls : since[d] \in Nat
    BY TrackingAssumption DEF TypeOK, Days
  <1>4. \A d \in Calls : pc'[d] = "kCollect" => d # c /\ pc[d] = "kCollect"
    BY <1>1, <1>2 DEF Collecting, RoundPC
  <1>5. \A d \in Calls : pc'[d] = "kCollect" => \A i \in DOMAIN snaps' :
            snaps'[i].type = "auto" => snaps'[i].at + Interval <= since'[d]
    BY <1>2, <1>3, <1>4, OthersKeepSpace DEF SpacedInv
  <1> QED BY <1>1, <1>2, <1>5, OthersKeepSpace DEF SpacedInv

LEMMA SpacedInit == Init => SpacedInv
  <1> SUFFICES ASSUME Init PROVE SpacedInv
    OBVIOUS
  <1>1. snaps = <<>> /\ DOMAIN snaps = {}
    BY DEF Init
  <1>2. \A c \in Calls : pc[c] \in {"idle", "over"} /\ since[c] = 0 /\ day = 0
    BY DEF Init
  <1> QED BY <1>1, <1>2 DEF SpacedInv, Collecting, RoundPC, AutomaticSnapshotsSpaced

LEMMA ElementsOf ==
    ASSUME NEW S, NEW s \in Seq(S)
    PROVE  \A i \in DOMAIN s : s[i] \in S
  <1>1. \A i \in 1..Len(s) : s[i] \in S
    OBVIOUS
  <1>2. DOMAIN s = 1..Len(s)
    OBVIOUS
  <1> QED BY <1>1, <1>2

LEMMA SpacedStep ==
    OneProcessOnly => (TypeOK /\ TypeOK' /\ SpacedInv /\ [Next]_vars => SpacedInv')
  <1> SUFFICES ASSUME OneProcessOnly, TypeOK, TypeOK', SpacedInv, [Next]_vars
               PROVE  SpacedInv'
    OBVIOUS
  <1> USE TrackingAssumption
  <1>0. day \in Days /\ day <= day /\ \A c \in Calls : since[c] \in Days
    BY DEF TypeOK, Days
  <1>t. 0 \in Days /\ 0 <= day
    BY DEF TypeOK, Days
  <1>s. \A i \in DOMAIN snaps : snaps[i].at \in Nat
    <2>1. \A i \in DOMAIN snaps : snaps[i] \in [at : Days, type : SnapTypes]
      <3>1. snaps \in Seq([at : Days, type : SnapTypes])
        BY DEF TypeOK
      <3> QED BY <3>1, ElementsOf
    <2> QED BY <2>1 DEF Days
  <1>n. day \in Nat /\ \A c \in Calls : since[c] \in Nat
    BY <1>0 DEF Days
  <1>1. CASE Tick
    <2>1. \A c \in Calls : since[c] <= day'
      BY <1>1, <1>0 DEF Tick, SpacedInv, locals, Days
    <2> QED BY <1>1, <2>1 DEF Tick, SpacedInv, AutomaticSnapshotsSpaced, Collecting, rows, flags, locals
  <1>2. CASE UNCHANGED vars
    BY <1>2 DEF vars, SpacedInv, AutomaticSnapshotsSpaced, Collecting, rows, flags, locals
  <1>3. ASSUME NEW c \in Calls, Snapshot(c) PROVE SpacedInv'
    <2>1. CASE ReadForSnapshot(c)
      <3>1. ~Collecting(c) /\ OthersOnly /\ UNCHANGED <<busy, day>>
        BY <2>1 DEF ReadForSnapshot, Collecting, RoundPC, OthersOnly, rows, flags
      <3>2. \E to \in PC \ RoundPC : Goto(c, to)
        BY <2>1 DEF ReadForSnapshot, PC, RoundPC
      <3> QED BY <2>1, <1>0, <3>1, <3>2, OthersKeepSpacedInv DEF ReadForSnapshot
    <2>2. CASE LookAgain(c)
      <3>1. ~Collecting(c) /\ OthersOnly /\ UNCHANGED <<busy, day, since>>
        BY <2>2 DEF LookAgain, Collecting, RoundPC, OthersOnly, rows, flags
      <3>2. \E to \in PC \ RoundPC : Goto(c, to)
        BY <2>2 DEF LookAgain, PC, RoundPC
      <3> QED BY <1>0, <3>1, <3>2, OthersKeepSpacedInv
    <2>3. CASE CreateForSnapshot(c)
      <3>1. ~Collecting(c) /\ OthersOnly /\ UNCHANGED <<busy, day, since>>
        BY <2>3 DEF CreateForSnapshot, Collecting, RoundPC, OthersOnly, flags
      <3>2. \E to \in PC \ RoundPC : Goto(c, to)
        BY <2>3 DEF CreateForSnapshot, PC, RoundPC
      <3> QED BY <1>0, <3>1, <3>2, OthersKeepSpacedInv
    <2>4. CASE UnscheduleForSnapshot(c)
      <3>1. ~Collecting(c) /\ OthersOnly /\ UNCHANGED <<busy, day, since>>
        BY <2>4 DEF UnscheduleForSnapshot, Move, Collecting, RoundPC, OthersOnly, rows, flags, locals
      <3>2. \E to \in PC \ RoundPC : Goto(c, to)
        BY <2>4 DEF UnscheduleForSnapshot, Move, Goto, PC, RoundPC
      <3> QED BY <1>0, <3>1, <3>2, OthersKeepSpacedInv
    <2>5. CASE CollectForSnapshot(c)
      <3>1. ~Collecting(c) /\ OthersOnly /\ UNCHANGED <<busy, day, since>>
        BY <2>5 DEF CollectForSnapshot, Move, Collecting, RoundPC, OthersOnly, rows, flags, locals
      <3>2. \E to \in PC \ RoundPC : Goto(c, to)
        BY <2>5 DEF CollectForSnapshot, Move, Goto, PC, RoundPC
      <3> QED BY <1>0, <3>1, <3>2, OthersKeepSpacedInv
    <2>6. CASE UpdateForSnapshot(c)
      <3>1. ~Collecting(c) /\ OthersOnly /\ UNCHANGED <<busy, day, since>>
        BY <2>6 DEF UpdateForSnapshot, Move, Collecting, RoundPC, OthersOnly, rows, flags, locals
      <3>2. \E to \in PC \ RoundPC : Goto(c, to)
        BY <2>6 DEF UpdateForSnapshot, Move, Goto, PC, RoundPC
      <3> QED BY <1>0, <3>1, <3>2, OthersKeepSpacedInv
    <2>7. CASE InsertForSnapshot(c)
      <3>1. ~Collecting(c) /\ OthersOnly /\ UNCHANGED <<busy, day>>
        BY <2>7, <1>0 DEF InsertForSnapshot, Move, flags, Collecting, RoundPC, OthersOnly, SnapTypes, rows
      <3>2. \E to \in PC \ RoundPC : Goto(c, to)
        BY <2>7 DEF InsertForSnapshot, Move, Goto, PC, RoundPC
      <3>3. since' = [since EXCEPT ![c] = 0]
        BY <2>7 DEF InsertForSnapshot, Forget
      <3> QED BY <1>t, <3>1, <3>2, <3>3, OthersKeepSpacedInv
    <2> QED BY <1>3, <2>1, <2>2, <2>3, <2>4, <2>5, <2>6, <2>7 DEF Snapshot
  <1>4. ASSUME NEW c \in Calls, Completion(c) PROVE SpacedInv'
    <2>1. CASE ReadRow(c)
      <3>1. ~Collecting(c) /\ OthersOnly /\ UNCHANGED <<busy, day>>
        BY <2>1 DEF ReadRow, Collecting, RoundPC, OthersOnly, rows, flags
      <3>2. \E to \in PC \ RoundPC : Goto(c, to)
        BY <2>1 DEF ReadRow, AfterCompletion, CompletionPC, EnginePC, PC, RoundPC
      <3> QED BY <2>1, <1>0, <3>1, <3>2, OthersKeepSpacedInv DEF ReadRow
    <2>2. CASE ReadLatest(c)
      <3>1. ~Collecting(c) /\ OthersOnly /\ UNCHANGED <<busy, day, since>>
        BY <2>2 DEF ReadLatest, Move, Collecting, RoundPC, OthersOnly, rows, flags, locals
      <3>2. \E to \in PC \ RoundPC : Goto(c, to)
        BY <2>2 DEF ReadLatest, Move, Goto, CompletionPC, EnginePC, PC, RoundPC
      <3> QED BY <1>0, <3>1, <3>2, OthersKeepSpacedInv
    <2>3. CASE ReadSnapshots(c)
      <3>1. ~Collecting(c) /\ OthersOnly /\ UNCHANGED <<busy, day, since>>
        BY <2>3 DEF ReadSnapshots, Move, Collecting, RoundPC, OthersOnly, rows, flags, locals
      <3>2. \E to \in PC \ RoundPC : Goto(c, to)
        BY <2>3 DEF ReadSnapshots, Move, Goto, CompletionPC, EnginePC, PC, RoundPC
      <3> QED BY <1>0, <3>1, <3>2, OthersKeepSpacedInv
    <2>4. CASE InsertClosing(c)
      <3>1. ~Collecting(c) /\ UNCHANGED <<busy, day, since>>
        BY <2>4 DEF InsertClosing, Move, Collecting, RoundPC, flags, locals
      <3>2. OthersOnly
        BY <2>4, <1>0 DEF InsertClosing, OthersOnly, SnapTypes
      <3>3. \E to \in PC \ RoundPC : Goto(c, to)
        BY <2>4 DEF InsertClosing, Move, Goto, CompletionPC, PC, RoundPC
      <3> QED BY <1>0, <3>1, <3>2, <3>3, OthersKeepSpacedInv
    <2>5. CASE CompleteRow(c)
      <3>1. ~Collecting(c) /\ OthersOnly /\ UNCHANGED <<busy, day, since>>
        BY <2>5 DEF CompleteRow, Move, Collecting, RoundPC, OthersOnly, rows, flags, locals
      <3>2. \E to \in PC \ RoundPC : Goto(c, to)
        BY <2>5 DEF CompleteRow, Move, Goto, CompletionPC, EnginePC, PC, RoundPC
      <3> QED BY <1>0, <3>1, <3>2, OthersKeepSpacedInv
    <2>6. CASE StoreReport(c)
      <3>1. ~Collecting(c) /\ OthersOnly /\ UNCHANGED <<busy, day, since>>
        BY <2>6 DEF StoreReport, Move, Collecting, RoundPC, OthersOnly, rows, flags, locals
      <3>2. \E to \in PC \ RoundPC : Goto(c, to)
        BY <2>6 DEF StoreReport, Move, Goto, CompletionPC, EnginePC, PC, RoundPC
      <3> QED BY <1>0, <3>1, <3>2, OthersKeepSpacedInv
    <2>7. CASE Learn(c)
      <3>1. ~Collecting(c) /\ OthersOnly /\ UNCHANGED <<busy, day, since>>
        BY <2>7 DEF Learn, Collecting, RoundPC, OthersOnly, rows, flags, locals
      <3>2. \E to \in PC \ RoundPC : Goto(c, to)
        BY <2>7 DEF Learn, AfterCompletion, CompletionPC, EnginePC, PC, RoundPC
      <3> QED BY <1>0, <3>1, <3>2, OthersKeepSpacedInv
    <2>8. CASE CutShort(c)
      <3>1. ~Collecting(c) /\ OthersOnly /\ UNCHANGED <<busy, day, since>>
        BY <2>8 DEF CutShort, CompletionPC, Collecting, RoundPC, OthersOnly, rows, flags, locals
      <3>2. \E to \in PC \ RoundPC : Goto(c, to)
        BY <2>8 DEF CutShort, AfterCompletion, CompletionPC, EnginePC, PC, RoundPC
      <3> QED BY <1>0, <3>1, <3>2, OthersKeepSpacedInv
    <2> QED BY <1>4, <2>1, <2>2, <2>3, <2>4, <2>5, <2>6, <2>7, <2>8 DEF Completion
  <1>5. ASSUME NEW c \in Calls, Engine(c) PROVE SpacedInv'
    <2>1. CASE ReadPhase(c)
      <3>1. ~Collecting(c) /\ OthersOnly /\ UNCHANGED <<busy, day, since>>
        BY <2>1 DEF ReadPhase, Collecting, RoundPC, OthersOnly, rows, flags, locals
      <3>2. \E to \in PC \ RoundPC : Goto(c, to)
        BY <2>1 DEF ReadPhase, AfterEngine, CompletionPC, EnginePC, PC, RoundPC
      <3> QED BY <1>0, <3>1, <3>2, OthersKeepSpacedInv
    <2>2. CASE EnterTracking(c)
      <3>1. ~Collecting(c) /\ OthersOnly /\ UNCHANGED <<busy, day, since>>
        BY <2>2 DEF EnterTracking, Move, Collecting, RoundPC, OthersOnly, rows, flags, locals
      <3>2. \E to \in PC \ RoundPC : Goto(c, to)
        BY <2>2 DEF EnterTracking, Move, Goto, CompletionPC, EnginePC, PC, RoundPC
      <3> QED BY <1>0, <3>1, <3>2, OthersKeepSpacedInv
    <2>3. CASE EnsureTracking(c)
      <3>1. ~Collecting(c) /\ OthersOnly /\ UNCHANGED <<busy, day, since>>
        BY <2>3 DEF EnsureTracking, Collecting, RoundPC, OthersOnly, rows, flags, locals
      <3>2. \E to \in PC \ RoundPC : Goto(c, to)
        BY <2>3 DEF EnsureTracking, CompletionPC, EnginePC, PC, RoundPC
      <3> QED BY <1>0, <3>1, <3>2, OthersKeepSpacedInv
    <2>4. CASE CreateTracking(c)
      <3>1. ~Collecting(c) /\ OthersOnly /\ UNCHANGED <<busy, day, since>>
        BY <2>4 DEF CreateTracking, Collecting, RoundPC, OthersOnly, rows, flags, locals
      <3>2. \E to \in PC \ RoundPC : Goto(c, to)
        BY <2>4 DEF CreateTracking, CompletionPC, EnginePC, PC, RoundPC
      <3> QED BY <1>0, <3>1, <3>2, OthersKeepSpacedInv
    <2>5. CASE FinishReview(c)
      <3>1. ~Collecting(c) /\ OthersOnly /\ UNCHANGED <<busy, day>>
        BY <2>5, <1>0 DEF FinishReview, flags, Collecting, RoundPC, OthersOnly, SnapTypes, rows
      <3>2. \E to \in PC \ RoundPC : Goto(c, to)
        BY <2>5 DEF FinishReview, AfterEngine, CompletionPC, EnginePC, PC, RoundPC
      <3>3. since' = [since EXCEPT ![c] = 0]
        BY <2>5 DEF FinishReview, Forget
      <3> QED BY <1>t, <3>1, <3>2, <3>3, OthersKeepSpacedInv
    <2>6. CASE FailReview(c)
      <3>1. ~Collecting(c) /\ OthersOnly /\ UNCHANGED <<busy, day>>
        BY <2>6, <1>0 DEF FailReview, flags, Collecting, RoundPC, OthersOnly, SnapTypes, rows
      <3>2. \E to \in PC \ RoundPC : Goto(c, to)
        BY <2>6 DEF FailReview, AfterEngine, CompletionPC, EnginePC, PC, RoundPC
      <3>3. since' = [since EXCEPT ![c] = 0]
        BY <2>6 DEF FailReview, Forget
      <3> QED BY <1>t, <3>1, <3>2, <3>3, OthersKeepSpacedInv
    <2> QED BY <1>5, <2>1, <2>2, <2>3, <2>4, <2>5, <2>6 DEF Engine
  <1>6. ASSUME NEW c \in Calls, Checker(c) PROVE SpacedInv'
    <2>1. CASE ListDueReviews(c)
      <3>1. ~Collecting(c) /\ OthersOnly /\ UNCHANGED <<busy, day, since>>
        BY <2>1 DEF ListDueReviews, Collecting, RoundPC, OthersOnly, rows, flags, locals
      <3>2. \E to \in PC \ RoundPC : Goto(c, to)
        BY <2>1 DEF ListDueReviews, CompletionPC, EnginePC, PC, RoundPC
      <3> QED BY <1>0, <3>1, <3>2, OthersKeepSpacedInv
    <2>2. CASE MarkReviewDone(c)
      <3>1. ~Collecting(c) /\ OthersOnly /\ UNCHANGED <<busy, day, since>>
        BY <2>2 DEF MarkReviewDone, Move, Collecting, RoundPC, OthersOnly, rows, flags, locals
      <3>2. \E to \in PC \ RoundPC : Goto(c, to)
        BY <2>2 DEF MarkReviewDone, Move, Goto, CompletionPC, EnginePC, PC, RoundPC
      <3> QED BY <1>0, <3>1, <3>2, OthersKeepSpacedInv
    <2> QED BY <1>6, <2>1, <2>2 DEF Checker
  <1>7. ASSUME NEW c \in Calls, Collector(c) PROVE SpacedInv'
    <2>1. CASE StartRound(c)
      <3>1. \A d \in Calls : ~Collecting(d)
        BY <2>1 DEF StartRound, SpacedInv, OneProcessOnly
      <3>2. Goto(c, "kTargets") /\ busy' = busy \cup {ProcOf[c]} /\ UNCHANGED <<snaps, since, day>>
        BY <2>1 DEF StartRound, rows, locals
      <3>3. \A d \in Calls : Collecting(d)' => d = c
        BY <3>1, <3>2 DEF Collecting, Goto, TypeOK
      <3>4. \A d \in Calls : pc'[d] # "kCollect"
        BY <3>1, <3>2 DEF Collecting, RoundPC, Goto, TypeOK
      <3> QED BY <3>2, <3>3, <3>4 DEF SpacedInv, AutomaticSnapshotsSpaced
    <2>2. CASE ListTargets(c)
      <3>1. /\ Collecting(c) /\ UNCHANGED <<snaps, busy, day>>
            /\ Goto(c, "kLast") \/ Goto(c, "kFree")
            /\ since' = [since EXCEPT ![c] = day]
        BY <2>2 DEF ListTargets, Collecting, RoundPC, rows, flags
      <3>2. \A d \in Calls : (Collecting(d)' => Collecting(d)) /\ pc'[d] # "kCollect"
        BY <3>1 DEF Goto, Collecting, RoundPC, SpacedInv, TypeOK
      <3>3. \A d \in Calls : since'[d] <= day'
        BY <3>1, <1>0 DEF SpacedInv, TypeOK
      <3> QED BY <3>1, <3>2, <3>3 DEF SpacedInv, AutomaticSnapshotsSpaced
    <2>3. CASE Throttle(c)
      <3>1. /\ Collecting(c) /\ UNCHANGED <<snaps, busy, day, since>>
            /\ Goto(c, "kFree") \/ Goto(c, "kCollect")
        BY <2>3 DEF Throttle, Collecting, RoundPC, rows, flags, locals
      <3>2. \A d \in Calls : (Collecting(d)' => Collecting(d)) /\ (pc'[d] = "kCollect" => d = c)
        BY <3>1 DEF Goto, Collecting, RoundPC, SpacedInv, TypeOK
      <3>3. pc'[c] = "kCollect" => \A i \in DOMAIN snaps : ~(since[c] < snaps[i].at + Interval)
        BY <2>3 DEF Throttle, Goto, TypeOK
      <3> QED BY <1>s, <1>n, <3>1, <3>2, <3>3 DEF SpacedInv, AutomaticSnapshotsSpaced
    <2>4. CASE SaveSnapshot(c)
      <3>1. /\ Collecting(c) /\ pc[c] = "kCollect" /\ Goto(c, "kFree")
            /\ UNCHANGED <<busy, day, since>>
            /\ Insert(day, "auto") \/ UNCHANGED snaps
        BY <2>4 DEF SaveSnapshot, Move, Goto, Collecting, RoundPC, flags, locals
      <3>2. \A d \in Calls : (Collecting(d)' => Collecting(d)) /\ pc'[d] # "kCollect"
        BY <3>1 DEF Goto, Collecting, RoundPC, SpacedInv, TypeOK
      <3>3. CASE UNCHANGED snaps
        BY <3>1, <3>2, <3>3 DEF SpacedInv, AutomaticSnapshotsSpaced
      <3>4. CASE Insert(day, "auto")
        <4>1. /\ DOMAIN snaps' = 1..(Len(snaps) + 1) /\ DOMAIN snaps = 1..Len(snaps)
              /\ Len(snaps) \in Nat /\ snaps'[Len(snaps) + 1].at = day
              /\ \A i \in DOMAIN snaps : snaps'[i] = snaps[i]
          BY <3>4 DEF Insert, TypeOK
        <4>2. since[c] <= day /\ \A i \in DOMAIN snaps :
                  snaps[i].type = "auto" => snaps[i].at + Interval <= since[c]
          BY <3>1 DEF SpacedInv
        <4>3. \A i \in DOMAIN snaps : snaps[i].type = "auto" => snaps[i].at + Interval <= day
          BY <4>2, <1>s, <1>n
        <4>4. ASSUME NEW i \in DOMAIN snaps', NEW k \in DOMAIN snaps', i < k,
                     snaps'[i].type = "auto", snaps'[k].type = "auto"
              PROVE  snaps'[i].at + Interval <= snaps'[k].at
          <5>1. i \in DOMAIN snaps /\ snaps'[i] = snaps[i]
            BY <4>1, <4>4
          <5>2. CASE k \in DOMAIN snaps
            BY <4>1, <4>4, <5>1, <5>2 DEF SpacedInv, AutomaticSnapshotsSpaced
          <5>3. CASE k = Len(snaps) + 1
            BY <4>1, <4>3, <4>4, <5>1, <5>3
          <5> QED BY <4>1, <4>4, <5>2, <5>3
        <4>5. AutomaticSnapshotsSpaced'
          BY <4>4 DEF AutomaticSnapshotsSpaced
        <4> QED BY <3>1, <3>2, <4>5 DEF SpacedInv
      <3> QED BY <3>1, <3>3, <3>4
    <2>5. CASE EndRound(c)
      <3>1. /\ Collecting(c) /\ Goto(c, "idle") /\ UNCHANGED <<snaps, day>>
            /\ since' = [since EXCEPT ![c] = 0]
        BY <2>5 DEF EndRound, Move, Goto, Forget, Collecting, RoundPC, rows
      <3>2. \A d \in Calls : ~Collecting(d)'
        BY <3>1 DEF Goto, Collecting, RoundPC, SpacedInv, TypeOK
      <3>3. \A d \in Calls : since'[d] <= day'
        BY <3>1, <1>t DEF SpacedInv, TypeOK
      <3>4. \A d \in Calls : pc'[d] # "kCollect"
        BY <3>2 DEF Collecting, RoundPC
      <3> QED BY <3>1, <3>2, <3>3, <3>4 DEF SpacedInv, AutomaticSnapshotsSpaced
    <2> QED BY <1>7, <2>1, <2>2, <2>3, <2>4, <2>5 DEF Collector
  <1>8. ASSUME NEW c \in Calls, Requests(c) PROVE SpacedInv'
    <2>1. CASE SubmitComplete(c)
      <3>1. ~Collecting(c) /\ OthersOnly /\ UNCHANGED <<busy, day, since>>
        BY <2>1 DEF SubmitComplete, Collecting, RoundPC, OthersOnly, rows, flags, locals
      <3>2. \E to \in PC \ RoundPC : Goto(c, to)
        BY <2>1 DEF SubmitComplete, CompletionPC, EnginePC, PC, RoundPC
      <3> QED BY <1>0, <3>1, <3>2, OthersKeepSpacedInv
    <2>2. CASE FreeInflight(c)
      <3>1. ~Collecting(c) /\ OthersOnly /\ UNCHANGED <<busy, day>>
        BY <2>2, <1>0 DEF FreeInflight, Move, Collecting, RoundPC, OthersOnly, SnapTypes, rows
      <3>2. \E to \in PC \ RoundPC : Goto(c, to)
        BY <2>2 DEF FreeInflight, Move, Goto, CompletionPC, EnginePC, PC, RoundPC
      <3>3. since' = [since EXCEPT ![c] = 0]
        BY <2>2 DEF FreeInflight, Forget
      <3> QED BY <1>t, <3>1, <3>2, <3>3, OthersKeepSpacedInv
    <2>3. CASE ReadForCancel(c)
      <3>1. ~Collecting(c) /\ OthersOnly /\ UNCHANGED <<busy, day, since>>
        BY <2>3 DEF ReadForCancel, Collecting, RoundPC, OthersOnly, rows, flags, locals
      <3>2. \E to \in PC \ RoundPC : Goto(c, to)
        BY <2>3 DEF ReadForCancel, CompletionPC, EnginePC, PC, RoundPC
      <3> QED BY <1>0, <3>1, <3>2, OthersKeepSpacedInv
    <2>4. CASE CancelTracking(c)
      <3>1. ~Collecting(c) /\ OthersOnly /\ UNCHANGED <<busy, day>>
        BY <2>4, <1>0 DEF CancelTracking, Move, flags, Collecting, RoundPC, OthersOnly, SnapTypes, rows
      <3>2. \E to \in PC \ RoundPC : Goto(c, to)
        BY <2>4 DEF CancelTracking, Move, Goto, PC, RoundPC
      <3>3. since' = [since EXCEPT ![c] = 0]
        BY <2>4 DEF CancelTracking, Forget
      <3> QED BY <1>t, <3>1, <3>2, <3>3, OthersKeepSpacedInv
    <2>5. CASE CancelSchedule(c)
      <3>1. ~Collecting(c) /\ OthersOnly /\ UNCHANGED <<busy, day, since>>
        BY <2>5 DEF CancelSchedule, Move, Collecting, RoundPC, OthersOnly, rows, flags, locals
      <3>2. \E to \in PC \ RoundPC : Goto(c, to)
        BY <2>5 DEF CancelSchedule, Move, Goto, PC, RoundPC
      <3> QED BY <1>0, <3>1, <3>2, OthersKeepSpacedInv
    <2>6. CASE StartReview(c)
      <3>1. ~Collecting(c) /\ OthersOnly /\ UNCHANGED <<busy, day, since>>
        BY <2>6 DEF StartReview, Collecting, RoundPC, OthersOnly, rows, flags, locals
      <3>2. \E to \in PC \ RoundPC : Goto(c, to)
        BY <2>6 DEF StartReview, CompletionPC, EnginePC, PC, RoundPC
      <3> QED BY <1>0, <3>1, <3>2, OthersKeepSpacedInv
    <2>7. CASE UnscheduleForReview(c)
      <3>1. ~Collecting(c) /\ OthersOnly /\ UNCHANGED <<busy, day, since>>
        BY <2>7 DEF UnscheduleForReview, Move, Collecting, RoundPC, OthersOnly, rows, flags, locals
      <3>2. \E to \in PC \ RoundPC : Goto(c, to)
        BY <2>7 DEF UnscheduleForReview, Move, Goto, PC, RoundPC
      <3> QED BY <1>0, <3>1, <3>2, OthersKeepSpacedInv
    <2>8. CASE RunReviewJob(c)
      <3>1. ~Collecting(c) /\ OthersOnly /\ UNCHANGED <<busy, day, since>>
        BY <2>8 DEF RunReviewJob, Move, Collecting, RoundPC, OthersOnly, rows, flags, locals
      <3>2. \E to \in PC \ RoundPC : Goto(c, to)
        BY <2>8 DEF RunReviewJob, Move, Goto, CompletionPC, EnginePC, PC, RoundPC
      <3> QED BY <1>0, <3>1, <3>2, OthersKeepSpacedInv
    <2>9. CASE ReadReport(c)
      <3>1. ~Collecting(c) /\ OthersOnly /\ UNCHANGED <<busy, day, since>>
        BY <2>9 DEF ReadReport, Collecting, RoundPC, OthersOnly, rows, flags, locals
      <3>2. \E to \in PC \ RoundPC : Goto(c, to)
        BY <2>9 DEF ReadReport, CompletionPC, EnginePC, PC, RoundPC
      <3> QED BY <1>0, <3>1, <3>2, OthersKeepSpacedInv
    <2>10. CASE WriteReportBack(c)
      <3>1. ~Collecting(c) /\ OthersOnly /\ UNCHANGED <<busy, day>>
        BY <2>10, <1>0 DEF WriteReportBack, Move, flags, Collecting, RoundPC, OthersOnly, SnapTypes, rows
      <3>2. \E to \in PC \ RoundPC : Goto(c, to)
        BY <2>10 DEF WriteReportBack, Move, Goto, PC, RoundPC
      <3>3. since' = [since EXCEPT ![c] = 0]
        BY <2>10 DEF WriteReportBack, Forget
      <3> QED BY <1>t, <3>1, <3>2, <3>3, OthersKeepSpacedInv
    <2> QED BY <1>8, <2>1, <2>2, <2>3, <2>4, <2>5, <2>6, <2>7, <2>8, <2>9, <2>10 DEF Requests
  <1> QED BY <1>1, <1>2, <1>3, <1>4, <1>5, <1>6, <1>7, <1>8 DEF Next

\* Snapshots that one process collects by itself keep their distance, however long
\* a collection takes, when every call runs in that process (with a second API
\* process, whose busy flag is its own, it is not so).
THEOREM OneProcessSpacesSnapshots == OneProcessOnly => (Spec => []AutomaticSnapshotsSpaced)
  <1> SUFFICES ASSUME OneProcessOnly PROVE Spec => []AutomaticSnapshotsSpaced
    OBVIOUS
  <1>1. TypeOK /\ TypeOK' /\ SpacedInv /\ [Next]_vars => SpacedInv'
    BY SpacedStep
  <1>2. SpacedInv => AutomaticSnapshotsSpaced
    BY DEF SpacedInv
  <1> QED BY TypeCorrect, SpacedInit, <1>1, <1>2, PTL DEF Spec

-----------------------------------------------------------------------------
(* What is listed.  A thread stays listed twice only while the request or the   *)
(* check that made its tracking has the scheduled review still to settle: a user's *)
(* review has settled it before it began.  A count is raised from a copy that   *)
(* is never ahead of the snapshots there are, by whoever inserts one more.      *)

\* Whoever finished, failed or completed a review found or made the row.
MadeInv ==
    /\ \A c \in Calls : pc[c] \in CompletionPC \cup {"eDone", "eFail", "eMark"} => track.exists
    /\ session \in {"completed", "failed"} => track.exists
    /\ pending = "completed" => track.exists

LEMMA MadeInit == Init => MadeInv
  BY DEF Init, MadeInv, CompletionPC

LEMMA MadeStep == TypeOK /\ MadeInv /\ [Next]_vars => MadeInv'
  <1> SUFFICES ASSUME TypeOK, MadeInv, [Next]_vars PROVE MadeInv'
    OBVIOUS
  <1> USE DEF CompletionPC
  <1>1. CASE Tick
    BY <1>1 DEF Tick, MadeInv, TypeOK, rows, flags, locals, history
  <1>2. CASE UNCHANGED vars
    BY <1>2 DEF vars, MadeInv, TypeOK, rows, flags, locals, history
  <1>3. ASSUME NEW c \in Calls, Snapshot(c) PROVE MadeInv'
    <2>1. CASE ReadForSnapshot(c)
      BY <2>1 DEF ReadForSnapshot, Goto, rows, flags, history, MadeInv, TypeOK
    <2>2. CASE LookAgain(c)
      BY <2>2 DEF LookAgain, Goto, rows, flags, history, MadeInv, TypeOK
    <2>3. CASE CreateForSnapshot(c)
      BY <2>3 DEF CreateForSnapshot, Goto, flags, history, NoDoc, MadeInv, TypeOK
    <2>4. CASE UnscheduleForSnapshot(c)
      BY <2>4 DEF UnscheduleForSnapshot, Move, Unschedule, flags, locals, history, MadeInv, TypeOK
    <2>5. CASE CollectForSnapshot(c)
      BY <2>5 DEF CollectForSnapshot, Move, rows, flags, locals, history, MadeInv, TypeOK
    <2>6. CASE UpdateForSnapshot(c)
      BY <2>6 DEF UpdateForSnapshot, Move, flags, locals, history, MadeInv, TypeOK
    <2>7. CASE InsertForSnapshot(c)
      BY <2>7 DEF InsertForSnapshot, Move, Forget, Insert, flags, history, NoDoc, MadeInv, TypeOK
    <2> QED BY <1>3, <2>1, <2>2, <2>3, <2>4, <2>5, <2>6, <2>7 DEF Snapshot
  <1>4. ASSUME NEW c \in Calls, Completion(c) PROVE MadeInv'
    <2>1. CASE ReadRow(c)
      BY <2>1 DEF ReadRow, Goto, rows, flags, history, AfterCompletion, MadeInv, TypeOK
    <2>2. CASE ReadLatest(c)
      BY <2>2 DEF ReadLatest, Move, rows, flags, history, MadeInv, TypeOK
    <2>3. CASE ReadSnapshots(c)
      BY <2>3 DEF ReadSnapshots, Move, rows, flags, history, MadeInv, TypeOK
    <2>4. CASE InsertClosing(c)
      BY <2>4 DEF InsertClosing, Move, Insert, flags, locals, history, MadeInv, TypeOK
    <2>5. CASE CompleteRow(c)
      BY <2>5 DEF CompleteRow, Move, flags, locals, MadeInv, TypeOK
    <2>6. CASE StoreReport(c)
      BY <2>6 DEF StoreReport, Move, flags, locals, history, MadeInv, TypeOK
    <2>7. CASE Learn(c)
      BY <2>7 DEF Learn, Goto, flags, locals, history, AfterCompletion, MadeInv, TypeOK
    <2>8. CASE CutShort(c)
      BY <2>8 DEF CutShort, Goto, rows, flags, locals, AfterCompletion, MadeInv, TypeOK
    <2> QED BY <1>4, <2>1, <2>2, <2>3, <2>4, <2>5, <2>6, <2>7, <2>8 DEF Completion
  <1>5. ASSUME NEW c \in Calls, Engine(c) PROVE MadeInv'
    <2>1. CASE ReadPhase(c)
      BY <2>1 DEF ReadPhase, Goto, rows, flags, locals, history, AfterEngine, MadeInv, TypeOK
    <2>2. CASE EnterTracking(c)
      BY <2>2 DEF EnterTracking, Move, flags, locals, history, MadeInv, TypeOK
    <2>3. CASE EnsureTracking(c)
      BY <2>3 DEF EnsureTracking, Goto, rows, flags, locals, history, MadeInv, TypeOK
    <2>4. CASE CreateTracking(c)
      BY <2>4 DEF CreateTracking, Goto, flags, locals, history, NoDoc, MadeInv, TypeOK
    <2>5. CASE FinishReview(c)
      BY <2>5 DEF FinishReview, Goto, Forget, flags, history, NoDoc, AfterEngine, MadeInv, TypeOK
    <2>6. CASE FailReview(c)
      BY <2>6 DEF FailReview, Goto, Forget, flags, history, NoDoc, MadeInv, TypeOK
    <2> QED BY <1>5, <2>1, <2>2, <2>3, <2>4, <2>5, <2>6 DEF Engine
  <1>6. ASSUME NEW c \in Calls, Checker(c) PROVE MadeInv'
    <2>1. CASE ListDueReviews(c)
      BY <2>1 DEF ListDueReviews, Goto, rows, flags, locals, history, MadeInv, TypeOK
    <2>2. CASE MarkReviewDone(c)
      BY <2>2 DEF MarkReviewDone, Move, flags, locals, history, MadeInv, TypeOK
    <2> QED BY <1>6, <2>1, <2>2 DEF Checker
  <1>7. ASSUME NEW c \in Calls, Collector(c) PROVE MadeInv'
    <2>1. CASE StartRound(c)
      BY <2>1 DEF StartRound, Goto, rows, locals, history, MadeInv, TypeOK
    <2>2. CASE ListTargets(c)
      BY <2>2 DEF ListTargets, Goto, rows, flags, history, MadeInv, TypeOK
    <2>3. CASE Throttle(c)
      BY <2>3 DEF Throttle, Goto, rows, flags, locals, history, MadeInv, TypeOK
    <2>4. CASE SaveSnapshot(c)
      BY <2>4 DEF SaveSnapshot, Move, Insert, flags, locals, history, MadeInv, TypeOK
    <2>5. CASE EndRound(c)
      BY <2>5 DEF EndRound, Move, Forget, rows, history, NoDoc, MadeInv, TypeOK
    <2> QED BY <1>7, <2>1, <2>2, <2>3, <2>4, <2>5 DEF Collector
  <1>8. ASSUME NEW c \in Calls, Requests(c) PROVE MadeInv'
    <2>1. CASE SubmitComplete(c)
      BY <2>1 DEF SubmitComplete, Goto, rows, locals, history, MadeInv, TypeOK
    <2>2. CASE FreeInflight(c)
      BY <2>2 DEF FreeInflight, Move, Forget, rows, history, NoDoc, MadeInv, TypeOK
    <2>3. CASE ReadForCancel(c)
      BY <2>3 DEF ReadForCancel, Goto, rows, flags, history, MadeInv, TypeOK
    <2>4. CASE CancelTracking(c)
      BY <2>4 DEF CancelTracking, Move, Forget, flags, history, NoDoc, MadeInv, TypeOK
    <2>5. CASE CancelSchedule(c)
      BY <2>5 DEF CancelSchedule, Move, Unschedule, flags, locals, history, MadeInv, TypeOK
    <2>6. CASE StartReview(c)
      BY <2>6 DEF StartReview, Goto, rows, flags, locals, history, MadeInv, TypeOK
    <2>7. CASE UnscheduleForReview(c)
      BY <2>7 DEF UnscheduleForReview, Move, Unschedule, flags, locals, history, MadeInv, TypeOK
    <2>8. CASE RunReviewJob(c)
      BY <2>8 DEF RunReviewJob, Move, rows, flags, locals, history, MadeInv, TypeOK
    <2>9. CASE ReadReport(c)
      BY <2>9 DEF ReadReport, Goto, rows, flags, history, MadeInv, TypeOK
    <2>10. CASE WriteReportBack(c)
      BY <2>10 DEF WriteReportBack, Move, Forget, flags, history, NoDoc, MadeInv, TypeOK
    <2> QED BY <1>8, <2>1, <2>2, <2>3, <2>4, <2>5, <2>6, <2>7, <2>8, <2>9, <2>10 DEF Requests
  <1> QED BY <1>1, <1>2, <1>3, <1>4, <1>5, <1>6, <1>7, <1>8 DEF Next

\* The scheduled review of a tracked thread has somebody left to settle it.
Settling(c) == \/ pc[c] = "sUnschedule"
               \/ KindOf[c] = "checker" /\ pc[c] \in CompletionPC \cup {"eDone", "eMark"}

ScheduledInv ==
    /\ ~stuck /\ pending = "pending" /\ track.exists => \E c \in Calls : Settling(c)
    /\ pending = "pending" => \A c \in Calls :
          /\ pc[c] \in {"vQueued"} \cup EnginePC => KindOf[c] = "checker"
          /\ pc[c] \in CompletionPC => KindOf[c] \in {"complete", "checker"}

LEMMA ScheduledInit == Init => ScheduledInv
  BY DEF Init, ScheduledInv, CompletionPC, EnginePC

LEMMA ScheduledStep ==
    TypeOK /\ ScheduledInv /\ [Next]_vars => ScheduledInv'
  <1> SUFFICES ASSUME TypeOK, ScheduledInv, [Next]_vars
               PROVE  ScheduledInv'
    OBVIOUS
  <1> USE DEF CompletionPC, EnginePC, Settling
  <1>1. CASE Tick
    BY <1>1 DEF Tick, ScheduledInv, TypeOK, rows, flags, locals, history
  <1>2. CASE UNCHANGED vars
    BY <1>2 DEF vars, ScheduledInv, TypeOK, rows, flags, locals, history
  <1>3. ASSUME NEW c \in Calls, Snapshot(c) PROVE ScheduledInv'
    <2>1. CASE ReadForSnapshot(c)
      BY <2>1 DEF ReadForSnapshot, Goto, rows, flags, history, ScheduledInv, TypeOK
    <2>2. CASE LookAgain(c)
      BY <2>2 DEF LookAgain, Goto, rows, flags, history, ScheduledInv, TypeOK
    <2>3. CASE CreateForSnapshot(c)
      BY <2>3 DEF CreateForSnapshot, Goto, flags, history, NoDoc, ScheduledInv, TypeOK
    <2>4. CASE UnscheduleForSnapshot(c)
      BY <2>4 DEF UnscheduleForSnapshot, Move, Unschedule, flags, locals, history, ScheduledInv, TypeOK
    <2>5. CASE CollectForSnapshot(c)
      BY <2>5 DEF CollectForSnapshot, Move, rows, flags, locals, history, ScheduledInv, TypeOK
    <2>6. CASE UpdateForSnapshot(c)
      BY <2>6 DEF UpdateForSnapshot, Move, flags, locals, history, ScheduledInv, TypeOK
    <2>7. CASE InsertForSnapshot(c)
      BY <2>7 DEF InsertForSnapshot, Move, Forget, Insert, flags, history, NoDoc, ScheduledInv, TypeOK
    <2> QED BY <1>3, <2>1, <2>2, <2>3, <2>4, <2>5, <2>6, <2>7 DEF Snapshot
  <1>4. ASSUME NEW c \in Calls, Completion(c) PROVE ScheduledInv'
    <2>1. CASE ReadRow(c)
      BY <2>1 DEF ReadRow, Goto, rows, flags, history, AfterCompletion, ScheduledInv, TypeOK
    <2>2. CASE ReadLatest(c)
      BY <2>2 DEF ReadLatest, Move, rows, flags, history, ScheduledInv, TypeOK
    <2>3. CASE ReadSnapshots(c)
      BY <2>3 DEF ReadSnapshots, Move, rows, flags, history, ScheduledInv, TypeOK
    <2>4. CASE InsertClosing(c)
      BY <2>4 DEF InsertClosing, Move, Insert, flags, locals, history, ScheduledInv, TypeOK
    <2>5. CASE CompleteRow(c)
      BY <2>5 DEF CompleteRow, Move, flags, locals, ScheduledInv, TypeOK
    <2>6. CASE StoreReport(c)
      BY <2>6 DEF StoreReport, Move, flags, locals, history, ScheduledInv, TypeOK
    <2>7. CASE Learn(c)
      BY <2>7 DEF Learn, Goto, flags, locals, history, AfterCompletion, ScheduledInv, TypeOK
    <2>8. CASE CutShort(c)
      BY <2>8 DEF CutShort, Goto, rows, flags, locals, AfterCompletion, ScheduledInv, TypeOK
    <2> QED BY <1>4, <2>1, <2>2, <2>3, <2>4, <2>5, <2>6, <2>7, <2>8 DEF Completion
  <1>5. ASSUME NEW c \in Calls, Engine(c) PROVE ScheduledInv'
    <2>1. CASE ReadPhase(c)
      BY <2>1 DEF ReadPhase, Goto, rows, flags, locals, history, AfterEngine, ScheduledInv, TypeOK
    <2>2. CASE EnterTracking(c)
      BY <2>2 DEF EnterTracking, Move, flags, locals, history, ScheduledInv, TypeOK
    <2>3. CASE EnsureTracking(c)
      BY <2>3 DEF EnsureTracking, Goto, rows, flags, locals, history, ScheduledInv, TypeOK
    <2>4. CASE CreateTracking(c)
      BY <2>4 DEF CreateTracking, Goto, flags, locals, history, NoDoc, ScheduledInv, TypeOK
    <2>5. CASE FinishReview(c)
      BY <2>5 DEF FinishReview, Goto, Forget, flags, history, NoDoc, AfterEngine, ScheduledInv, TypeOK
    <2>6. CASE FailReview(c)
      BY <2>6 DEF FailReview, Goto, Forget, flags, history, NoDoc, ScheduledInv, TypeOK
    <2> QED BY <1>5, <2>1, <2>2, <2>3, <2>4, <2>5, <2>6 DEF Engine
  <1>6. ASSUME NEW c \in Calls, Checker(c) PROVE ScheduledInv'
    <2>1. CASE ListDueReviews(c)
      BY <2>1 DEF ListDueReviews, Goto, rows, flags, locals, history, ScheduledInv, TypeOK
    <2>2. CASE MarkReviewDone(c)
      BY <2>2 DEF MarkReviewDone, Move, flags, locals, history, ScheduledInv, TypeOK
    <2> QED BY <1>6, <2>1, <2>2 DEF Checker
  <1>7. ASSUME NEW c \in Calls, Collector(c) PROVE ScheduledInv'
    <2>1. CASE StartRound(c)
      BY <2>1 DEF StartRound, Goto, rows, locals, history, ScheduledInv, TypeOK
    <2>2. CASE ListTargets(c)
      BY <2>2 DEF ListTargets, Goto, rows, flags, history, ScheduledInv, TypeOK
    <2>3. CASE Throttle(c)
      BY <2>3 DEF Throttle, Goto, rows, flags, locals, history, ScheduledInv, TypeOK
    <2>4. CASE SaveSnapshot(c)
      BY <2>4 DEF SaveSnapshot, Move, Insert, flags, locals, history, ScheduledInv, TypeOK
    <2>5. CASE EndRound(c)
      BY <2>5 DEF EndRound, Move, Forget, rows, history, NoDoc, ScheduledInv, TypeOK
    <2> QED BY <1>7, <2>1, <2>2, <2>3, <2>4, <2>5 DEF Collector
  <1>8. ASSUME NEW c \in Calls, Requests(c) PROVE ScheduledInv'
    <2>1. CASE SubmitComplete(c)
      BY <2>1 DEF SubmitComplete, Goto, rows, locals, history, ScheduledInv, TypeOK
    <2>2. CASE FreeInflight(c)
      BY <2>2 DEF FreeInflight, Move, Forget, rows, history, NoDoc, ScheduledInv, TypeOK
    <2>3. CASE ReadForCancel(c)
      BY <2>3 DEF ReadForCancel, Goto, rows, flags, history, ScheduledInv, TypeOK
    <2>4. CASE CancelTracking(c)
      BY <2>4 DEF CancelTracking, Move, Forget, flags, history, NoDoc, ScheduledInv, TypeOK
    <2>5. CASE CancelSchedule(c)
      BY <2>5 DEF CancelSchedule, Move, Unschedule, flags, locals, history, ScheduledInv, TypeOK
    <2>6. CASE StartReview(c)
      BY <2>6 DEF StartReview, Goto, rows, flags, locals, history, ScheduledInv, TypeOK
    <2>7. CASE UnscheduleForReview(c)
      BY <2>7 DEF UnscheduleForReview, Move, Unschedule, flags, locals, history, ScheduledInv, TypeOK
    <2>8. CASE RunReviewJob(c)
      BY <2>8 DEF RunReviewJob, Move, rows, flags, locals, history, ScheduledInv, TypeOK
    <2>9. CASE ReadReport(c)
      BY <2>9 DEF ReadReport, Goto, rows, flags, history, ScheduledInv, TypeOK
    <2>10. CASE WriteReportBack(c)
      BY <2>10 DEF WriteReportBack, Move, Forget, flags, history, NoDoc, ScheduledInv, TypeOK
    <2> QED BY <1>8, <2>1, <2>2, <2>3, <2>4, <2>5, <2>6, <2>7, <2>8, <2>9, <2>10 DEF Requests
  <1> QED BY <1>1, <1>2, <1>3, <1>4, <1>5, <1>6, <1>7, <1>8 DEF Next

\* The snapshots there are, those about to be inserted by who counted them, and
\* those whose INSERT failed.
Backed == Len(snaps) + Cardinality(Inserting) + missing

CountInv ==
    /\ track.data.count <= Backed
    /\ \A c \in Calls : /\ copy[c].count <= Backed
                        /\ pc[c] = "cUpdate" /\ closes[c] => copy[c].count + 1 <= Backed

LEMMA BackedType ==
    ASSUME IsFiniteSet(Calls), TypeOK
    PROVE  /\ Backed \in Nat /\ Len(snaps) \in Nat
           /\ Cardinality(Inserting) \in Nat /\ IsFiniteSet(Inserting) /\ missing \in Nat
  <1>1. Inserting \subseteq Calls
    BY DEF Inserting
  <1>2. IsFiniteSet(Inserting) /\ Cardinality(Inserting) \in Nat
    BY <1>1, FS_Subset, FS_CardinalityType
  <1>3. Len(snaps) \in Nat /\ missing \in Nat
    BY DEF TypeOK
  <1> QED BY <1>2, <1>3 DEF Backed

LEMMA InsertLength ==
    ASSUME TypeOK, NEW at, NEW type, Insert(at, type)
    PROVE  Len(snaps') = Len(snaps) + 1
  BY DEF Insert, TypeOK

\* A step that inserts and counts nothing: a document is only read, taken back or
\* written as it was read.
Quiet(c) ==
    /\ pc[c] # "sInsert" /\ pc'[c] \notin {"sInsert", "cUpdate"}
    /\ \A d \in Calls : d # c => pc'[d] = pc[d]
    /\ UNCHANGED <<snaps, missing>>
    /\ track'.data.count \in {track.data.count, copy[c].count, 0}
    /\ copy'[c].count \in {copy[c].count, track.data.count, 0}
    /\ \A d \in Calls : d # c => copy'[d] = copy[d] /\ closes'[d] = closes[d]

LEMMA QuietStep ==
    ASSUME IsFiniteSet(Calls), TypeOK, CountInv, NEW c \in Calls, Quiet(c)
    PROVE  CountInv'
  <1>1. Inserting' = Inserting
    BY DEF Quiet, Inserting
  <1>2. Backed' = Backed
    BY <1>1 DEF Backed, Quiet
  <1>3. pc'[c] # "cUpdate" /\ \A d \in Calls : d # c => pc'[d] = pc[d]
    BY DEF Quiet
  <1>4. \A d \in Calls : copy'[d].count <= Backed
    BY BackedType DEF Quiet, CountInv
  <1>5. track'.data.count <= Backed
    BY BackedType DEF Quiet, CountInv
  <1> QED BY <1>2, <1>3, <1>4, <1>5 DEF Quiet, CountInv

LEMMA CountInit == IsFiniteSet(Calls) /\ Init => CountInv
  <1> SUFFICES ASSUME IsFiniteSet(Calls), Init PROVE CountInv
    OBVIOUS
  <1>1. Backed \in Nat
    BY TrackingAssumption, TypeInit, BackedType
  <1>2. track.data.count = 0 /\ \A c \in Calls : copy[c].count = 0 /\ pc[c] # "cUpdate"
    BY DEF Init, NoDoc
  <1> QED BY <1>1, <1>2 DEF CountInv

LEMMA CountStep ==
    IsFiniteSet(Calls) => (TypeOK /\ TypeOK' /\ CountInv /\ [Next]_vars => CountInv')
  <1> SUFFICES ASSUME IsFiniteSet(Calls), TypeOK, TypeOK', CountInv, [Next]_vars
               PROVE  CountInv'
    OBVIOUS
  <1>q. /\ track \in [exists : BOOLEAN, data : Doc] /\ copy \in [Calls -> Doc]
        /\ closes \in [Calls -> BOOLEAN]
        /\ pc \in [Calls -> PC] /\ \A c \in Calls : copy[c].count \in Nat
        /\ track.data.count \in Nat
    BY DEF TypeOK, Doc
  <1> USE DEF Doc, NoDoc, PC, CompletionPC, EnginePC
  <1>1. CASE Tick
    BY <1>1 DEF Tick, CountInv, Backed, Inserting, rows, flags, locals, history
  <1>2. CASE UNCHANGED vars
    BY <1>2 DEF vars, CountInv, Backed, Inserting, rows, flags, locals, history
  <1>3. ASSUME NEW c \in Calls, Snapshot(c) PROVE CountInv'
    <2>1. CASE ReadForSnapshot(c)
      <3>1. Quiet(c)
        BY <2>1, <1>q DEF ReadForSnapshot, Goto, rows, flags, history, Quiet
      <3> QED BY <3>1, QuietStep
    <2>2. CASE LookAgain(c)
      <3>1. Quiet(c)
        BY <2>2, <1>q DEF LookAgain, Goto, rows, flags, history, Quiet
      <3> QED BY <3>1, QuietStep
    <2>3. CASE CreateForSnapshot(c)
      <3>1. Quiet(c)
        BY <2>3, <1>q DEF CreateForSnapshot, Goto, flags, history, Quiet
      <3> QED BY <3>1, QuietStep
    <2>4. CASE UnscheduleForSnapshot(c)
      <3>1. Quiet(c)
        BY <2>4, <1>q DEF UnscheduleForSnapshot, Move, Unschedule, flags, locals, history, Goto, Quiet
      <3> QED BY <3>1, QuietStep
    <2>5. CASE CollectForSnapshot(c)
      <3>1. Quiet(c)
        BY <2>5, <1>q DEF CollectForSnapshot, Move, rows, flags, locals, history, Goto, Quiet
      <3> QED BY <3>1, QuietStep
    <2>6. CASE UpdateForSnapshot(c)
      <3>1. /\ Goto(c, "sInsert") /\ pc[c] = "sUpdate" /\ UNCHANGED <<snaps, copy, closes, missing>>
            /\ track'.data.count = copy[c].count + 1
        BY <2>6, <1>q DEF UpdateForSnapshot, Move, Goto, locals, history
      <3>2. Inserting' = Inserting \cup {c} /\ c \notin Inserting
        BY <3>1 DEF Inserting, Goto, TypeOK
      <3>c. Cardinality(Inserting \cup {c}) = Cardinality(Inserting) + 1
        BY <3>2, FS_AddElement, BackedType
      <3>3. Backed' = Backed + 1
        BY <3>1, <3>2, <3>c, BackedType DEF Backed
      <3> QED BY <3>1, <3>3, <1>q, BackedType DEF CountInv, Goto
    <2>7. CASE InsertForSnapshot(c)
      <3>1. /\ Goto(c, "over") /\ pc[c] = "sInsert" /\ UNCHANGED track
            /\ copy' = [copy EXCEPT ![c] = NoDoc] /\ closes' = [closes EXCEPT ![c] = FALSE]
        BY <2>7 DEF InsertForSnapshot, Move, Goto, Forget
      <3>l. \/ Len(snaps') = Len(snaps) + 1 /\ UNCHANGED missing
            \/ missing' = missing + 1 /\ UNCHANGED snaps
        BY <2>7, InsertLength DEF InsertForSnapshot
      <3>2. Inserting' = Inserting \ {c} /\ c \in Inserting
        BY <3>1 DEF Inserting, Goto, TypeOK
      <3>c. Cardinality(Inserting \ {c}) = Cardinality(Inserting) - 1
        BY <3>2, FS_RemoveElement, BackedType
      <3>3. Backed' = Backed
        BY <3>l, <3>2, <3>c, BackedType DEF Backed
      <3> QED BY <3>1, <3>3, <1>q, BackedType DEF CountInv, Goto, NoDoc
    <2> QED BY <1>3, <2>1, <2>2, <2>3, <2>4, <2>5, <2>6, <2>7 DEF Snapshot
  <1>4. ASSUME NEW c \in Calls, Completion(c) PROVE CountInv'
    <2>1. CASE ReadRow(c)
      <3>1. Quiet(c)
        BY <2>1, <1>q DEF ReadRow, Goto, rows, flags, history, AfterCompletion, Quiet
      <3> QED BY <3>1, QuietStep
    <2>2. CASE ReadLatest(c)
      <3>1. Quiet(c)
        BY <2>2, <1>q DEF ReadLatest, Move, rows, flags, history, Goto, Quiet
      <3> QED BY <3>1, QuietStep
    <2>3. CASE ReadSnapshots(c)
      <3>1. Quiet(c)
        BY <2>3, <1>q DEF ReadSnapshots, Move, rows, flags, history, Goto, Quiet
      <3> QED BY <3>1, QuietStep
    <2>4. CASE InsertClosing(c)
      <3>1. /\ Goto(c, "cUpdate") /\ pc[c] = "cClose" /\ UNCHANGED <<track, copy, closes, missing>>
            /\ Len(snaps') = Len(snaps) + IF closes[c] THEN 1 ELSE 0
        BY <2>4, InsertLength DEF InsertClosing, Move, Goto, locals, history
      <3>2. Inserting' = Inserting
        BY <3>1 DEF Inserting, Goto, TypeOK
      <3>3. Backed' = Backed + IF closes[c] THEN 1 ELSE 0
        BY <3>1, <3>2, BackedType DEF Backed
      <3> QED BY <3>1, <3>3, <1>q, BackedType DEF CountInv, Goto
    <2>5. CASE CompleteRow(c)
      <3>1. /\ Goto(c, "cReport") /\ pc[c] = "cUpdate" /\ UNCHANGED <<snaps, copy, closes, missing>>
            /\ track'.data.count = copy[c].count + IF closes[c] THEN 1 ELSE 0
        BY <2>5, <1>q DEF CompleteRow, Move, Goto, locals
      <3>2. Inserting' = Inserting
        BY <3>1 DEF Inserting, Goto, TypeOK
      <3>3. Backed' = Backed
        BY <3>1, <3>2 DEF Backed
      <3> QED BY <3>1, <3>3, <1>q, BackedType DEF CountInv, Goto
    <2>6. CASE StoreReport(c)
      <3>1. Quiet(c)
        BY <2>6, <1>q DEF StoreReport, Move, flags, locals, history, Goto, Quiet
      <3> QED BY <3>1, QuietStep
    <2>7. CASE Learn(c)
      <3>1. Quiet(c)
        BY <2>7, <1>q DEF Learn, Goto, flags, locals, history, AfterCompletion, Quiet
      <3> QED BY <3>1, QuietStep
    <2>8. CASE CutShort(c)
      <3>1. Quiet(c)
        BY <2>8, <1>q DEF CutShort, Goto, rows, flags, locals, AfterCompletion, Quiet
      <3> QED BY <3>1, QuietStep
    <2> QED BY <1>4, <2>1, <2>2, <2>3, <2>4, <2>5, <2>6, <2>7, <2>8 DEF Completion
  <1>5. ASSUME NEW c \in Calls, Engine(c) PROVE CountInv'
    <2>1. CASE ReadPhase(c)
      <3>1. Quiet(c)
        BY <2>1, <1>q DEF ReadPhase, Goto, rows, flags, locals, history, AfterEngine, Quiet
      <3> QED BY <3>1, QuietStep
    <2>2. CASE EnterTracking(c)
      <3>1. Quiet(c)
        BY <2>2, <1>q DEF EnterTracking, Move, flags, locals, history, Goto, Quiet
      <3> QED BY <3>1, QuietStep
    <2>3. CASE EnsureTracking(c)
      <3>1. Quiet(c)
        BY <2>3, <1>q DEF EnsureTracking, Goto, rows, flags, locals, history, Quiet
      <3> QED BY <3>1, QuietStep
    <2>4. CASE CreateTracking(c)
      <3>1. Quiet(c)
        BY <2>4, <1>q DEF CreateTracking, Goto, flags, locals, history, Quiet
      <3> QED BY <3>1, QuietStep
    <2>5. CASE FinishReview(c)
      <3>1. Quiet(c)
        BY <2>5, <1>q DEF FinishReview, Goto, Forget, flags, history, AfterEngine, Quiet
      <3> QED BY <3>1, QuietStep
    <2>6. CASE FailReview(c)
      <3>1. Quiet(c)
        BY <2>6, <1>q DEF FailReview, Goto, Forget, flags, history, Quiet
      <3> QED BY <3>1, QuietStep
    <2> QED BY <1>5, <2>1, <2>2, <2>3, <2>4, <2>5, <2>6 DEF Engine
  <1>6. ASSUME NEW c \in Calls, Checker(c) PROVE CountInv'
    <2>1. CASE ListDueReviews(c)
      <3>1. Quiet(c)
        BY <2>1, <1>q DEF ListDueReviews, Goto, rows, flags, locals, history, Quiet
      <3> QED BY <3>1, QuietStep
    <2>2. CASE MarkReviewDone(c)
      <3>1. Quiet(c)
        BY <2>2, <1>q DEF MarkReviewDone, Move, flags, locals, history, Goto, Quiet
      <3> QED BY <3>1, QuietStep
    <2> QED BY <1>6, <2>1, <2>2 DEF Checker
  <1>7. ASSUME NEW c \in Calls, Collector(c) PROVE CountInv'
    <2>1. CASE StartRound(c)
      <3>1. Quiet(c)
        BY <2>1, <1>q DEF StartRound, Goto, rows, locals, history, Quiet
      <3> QED BY <3>1, QuietStep
    <2>2. CASE ListTargets(c)
      <3>1. Quiet(c)
        BY <2>2, <1>q DEF ListTargets, Goto, rows, flags, history, Quiet
      <3> QED BY <3>1, QuietStep
    <2>3. CASE Throttle(c)
      <3>1. Quiet(c)
        BY <2>3, <1>q DEF Throttle, Goto, rows, flags, locals, history, Quiet
      <3> QED BY <3>1, QuietStep
    <2>4. CASE SaveSnapshot(c)
      <3>1. /\ Goto(c, "kFree") /\ pc[c] = "kCollect" /\ UNCHANGED <<track, copy, closes>>
            /\ Len(snaps') \in {Len(snaps), Len(snaps) + 1} /\ UNCHANGED missing
        BY <2>4, InsertLength DEF SaveSnapshot, Move, Goto, locals, history
      <3>2. Inserting' = Inserting
        BY <3>1 DEF Inserting, Goto, TypeOK
      <3>3. Backed' \in {Backed, Backed + 1}
        BY <3>1, <3>2, BackedType DEF Backed
      <3> QED BY <3>1, <3>3, <1>q, BackedType DEF CountInv, Goto
    <2>5. CASE EndRound(c)
      <3>1. Quiet(c)
        BY <2>5, <1>q DEF EndRound, Move, Forget, rows, history, Goto, Quiet
      <3> QED BY <3>1, QuietStep
    <2> QED BY <1>7, <2>1, <2>2, <2>3, <2>4, <2>5 DEF Collector
  <1>8. ASSUME NEW c \in Calls, Requests(c) PROVE CountInv'
    <2>1. CASE SubmitComplete(c)
      <3>1. Quiet(c)
        BY <2>1, <1>q DEF SubmitComplete, Goto, rows, locals, history, Quiet
      <3> QED BY <3>1, QuietStep
    <2>2. CASE FreeInflight(c)
      <3>1. Quiet(c)
        BY <2>2, <1>q DEF FreeInflight, Move, Forget, rows, history, Goto, Quiet
      <3> QED BY <3>1, QuietStep
    <2>3. CASE ReadForCancel(c)
      <3>1. Quiet(c)
        BY <2>3, <1>q DEF ReadForCancel, Goto, rows, flags, history, Quiet
      <3> QED BY <3>1, QuietStep
    <2>4. CASE CancelTracking(c)
      <3>1. Quiet(c)
        BY <2>4, <1>q DEF CancelTracking, Move, Forget, flags, history, Goto, Quiet
      <3> QED BY <3>1, QuietStep
    <2>5. CASE CancelSchedule(c)
      <3>1. Quiet(c)
        BY <2>5, <1>q DEF CancelSchedule, Move, Unschedule, flags, locals, history, Goto, Quiet
      <3> QED BY <3>1, QuietStep
    <2>6. CASE StartReview(c)
      <3>1. Quiet(c)
        BY <2>6, <1>q DEF StartReview, Goto, rows, flags, locals, history, Quiet
      <3> QED BY <3>1, QuietStep
    <2>7. CASE UnscheduleForReview(c)
      <3>1. Quiet(c)
        BY <2>7, <1>q DEF UnscheduleForReview, Move, Unschedule, flags, locals, history, Goto, Quiet
      <3> QED BY <3>1, QuietStep
    <2>8. CASE RunReviewJob(c)
      <3>1. Quiet(c)
        BY <2>8, <1>q DEF RunReviewJob, Move, rows, flags, locals, history, Goto, Quiet
      <3> QED BY <3>1, QuietStep
    <2>9. CASE ReadReport(c)
      <3>1. Quiet(c)
        BY <2>9, <1>q DEF ReadReport, Goto, rows, flags, history, Quiet
      <3> QED BY <3>1, QuietStep
    <2>10. CASE WriteReportBack(c)
      <3>1. Quiet(c)
        BY <2>10, <1>q DEF WriteReportBack, Move, Forget, flags, history, Goto, Quiet
      <3> QED BY <3>1, QuietStep
    <2> QED BY <1>8, <2>1, <2>2, <2>3, <2>4, <2>5, <2>6, <2>7, <2>8, <2>9, <2>10 DEF Requests
  <1> QED BY <1>1, <1>2, <1>3, <1>4, <1>5, <1>6, <1>7, <1>8 DEF Next

\* What is listed is true, however the read-modify-write cycles of requests, jobs
\* and checks overlap and whichever writes raise, for any finite number of calls.
THEOREM ListedIsTrue ==
    IsFiniteSet(Calls) => (Spec => []ListIsTrue)
  <1> SUFFICES ASSUME IsFiniteSet(Calls) PROVE Spec => []ListIsTrue
    OBVIOUS
  <1>1. TypeOK /\ CountInv => CountIsBacked
    <2> SUFFICES ASSUME TypeOK, CountInv, NEW i \in DOMAIN ListedItems
                 PROVE  ListedItems[i].count <= Backed
      BY DEF CountIsBacked, Backed
    <2>1. ListedItems[i].count \in {0, track.data.count}
      BY DEF ListedItems
    <2> QED BY <2>1, BackedType DEF CountInv
  <1>2. TypeOK /\ MadeInv /\ ScheduledInv => ListedOnce
    <2> SUFFICES ASSUME TypeOK, MadeInv, ScheduledInv, \A c \in Calls : pc[c] \in {"idle", "over"}
                 PROVE  /\ Len(ListedItems) <= 1 \/ stuck
                        /\ pending = "completed" => Summary # "unknown"
      BY DEF ListedOnce
    <2>1. stuck \/ ~(pending = "pending" /\ track.exists)
      BY DEF ScheduledInv, Settling, CompletionPC
    <2>2. stuck \/ Len(ListedItems) <= 1
      BY <2>1 DEF ListedItems
    <2>3. track.data.status # "unknown"
      BY DEF TypeOK, Doc, Status
    <2> QED BY <2>2, <2>3 DEF MadeInv, Summary
  <1>3. TypeOK /\ ScheduledInv /\ [Next]_vars => ScheduledInv'
    BY ScheduledStep
  <1>4. TypeOK /\ TypeOK' /\ CountInv /\ [Next]_vars => CountInv'
    BY CountStep
  <1>5. Init => CountInv
    BY CountInit
  <1> QED BY TypeCorrect, MadeInit, MadeStep, ScheduledInit, <1>1, <1>2, <1>3, <1>4, <1>5, PTL
          DEF Spec, ListIsTrue

=============================================================================
