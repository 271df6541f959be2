CONSTANTS
  Procs = {p1, p2}
  MaxStarts = 2
  MaxTroubles = 2
SPECIFICATION FairSpec
INVARIANTS TypeOK RecoveryInv
PROPERTIES Settles RecoversTheJob OutcomeIsFinal
CHECK_DEADLOCK FALSE
