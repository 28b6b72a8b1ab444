\* Two deliveries at a time, with faults, both workers and an operator, over two seconds.
SPECIFICATION FairSpec
CONSTANTS
  None = None
  h1 = h1  h2 = h2
  Hooks = {h1, h2}
  Kinds <- MCKinds
  Parallel <- Racing
  MaxOps = 1
  Grace = 1
  MaxTime = 2
  Stamped = FALSE
INVARIANTS
  AppliedOnce
  OneLicense
  NewestWins
  AccessFollowsStanding
PROPERTIES
  GraceEnds
  MissedEventsHealed
CHECK_DEADLOCK FALSE
