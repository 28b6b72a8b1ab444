\* What totals and events are worth after up to two of a restart, a failed sweep and an
\* erasure, with batches that a sweep of two rows cuts.
SPECIFICATION FairSpec
CONSTANTS
  NoValue = NoValue
  t1 = t1  t2 = t2  p1 = p1
  Metered = {t1, t2}
  Producers = {p1}
  Entitlements = {"api", "users", "seats"}
  Aggregation <- MCAggregation
  Allowance <- MCAllowance
  Archived = {}
  Inactive = {}
  Batches <- MCBatches
  BucketSecs = 2
  RetentionSecs = 1
  FutureSkewSecs = 0
  MaxEvents = 3
  MaxBatch = 3
  Fractions = {0, 1}
  MaxTime = 3
  MaxRequests = 3
  MaxFaults = 2
CONSTRAINT Small
INVARIANTS
  WatermarkSafe
  TotalsSurvive
  AccruedOnce
PROPERTIES
  AlwaysEventuallyFolded
CHECK_DEADLOCK FALSE
