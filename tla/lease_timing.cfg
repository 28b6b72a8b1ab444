\* Expiry, grace, revocation and handle lifetimes on one license; two leases that are due
\* while a sweep takes one.
SPECIFICATION FairSpec
CONSTANTS
  None = None
  l1 = l1  l2 = l2
  h1 = h1  h2 = h2  h3 = h3
  n1 = n1  n2 = n2  n3 = n3
  p1 = p1  p2 = p2  p3 = p3
  Licenses <- TimingLicenses
  Holders = {h1, h2}
  Nonces = {n1, n2, n3}
  Requests = {p1, p2}
  NoncesFor <- TimingTokens
  MaxConcurrent <- TimingMax
  Overage <- TimingOverage
  LicenseExpiry <- TimingExpiry
  Policy <- TimingPolicy
  Heartbeat = 1  Ttl = 3  Grace = 1
  SweepBatch = 1
  Operated = {l1}
  MaxClock = 7
  MaxTx = 1
CONSTRAINT OneAtATime
INVARIANTS
  TimerReclaimSafe
  RevocationWindow
PROPERTIES
  NoRevival
  LapsedReclaimed
  RevokedDrains
CHECK_DEADLOCK FALSE
