CONSTANTS
  p1 = p1  snap1 = snap1  comp1 = comp1  comp2 = comp2  canc1 = canc1
  rev1 = rev1  chk1 = chk1  col1 = col1  col2 = col2  rep1 = rep1
  Calls = {snap1, comp1, comp2, canc1, rev1, chk1, col1, col2, rep1}
  Mixes <- MixesOfCalls
  KindOf <- KindOfCall
  ProcOf <- OneProcess
  Procs = {p1}
  Interval = 1
  MaxDay = 1
  MaxSnaps = 2
  Faults = {"llm", "pg"}
SPECIFICATION FairSpec
INVARIANTS TypeOK ListIsTrue ReviewedBeforeCompleted CompletionIsNotUndone
  AutomaticSnapshotsSpaced OneCompletionPerProcess
PROPERTY DueReviewsSettle
CHECK_DEADLOCK FALSE
