CONSTANTS
  Requests <- MCRequests
  Businesses <- MCBusinesses
  Outcomes <- MCOutcomes
  Modes = {"hybrid", "service", "mall"}
  Losses <- MCLosses
  Drafts <- MCDrafts
  Hours = {9, 23}
  MaxPlans = 2
  MaxSnapshots = 2
  ReviewDelay = 168
  PushSettings = {TRUE, FALSE}
SPECIFICATION Spec
CONSTRAINT Bounds
INVARIANTS TypeOK FiguresAgree NothingIsForgotten ReviewDay TrendIsReal
PROPERTY CausesKept
CHECK_DEADLOCK FALSE
