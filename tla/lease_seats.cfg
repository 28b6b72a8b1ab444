\* Seat accounting with time standing still: cap, one lease per holder, overage
\* metering and the abstract seat pool. Two requests race over two licenses; l1 has
\* two seats and three holders, so the last seat is raced for and the third refused.
SPECIFICATION Spec
CONSTANTS
  None = None
  l1 = l1  l2 = l2
  h1 = h1  h2 = h2  h3 = h3
  n1 = n1  n2 = n2  n3 = n3
  p1 = p1  p2 = p2  p3 = p3
  Licenses <- SeatsLicenses
  Holders = {h1, h2, h3}
  Nonces = {n1, n2, n3}
  Requests = {p1, p2}
  NoncesFor <- SeatsTokens
  MaxConcurrent <- SeatsMax
  Overage <- SeatsOverage
  LicenseExpiry <- SeatsExpiry
  Policy <- SeatsPolicy
  Heartbeat = 1  Ttl = 3  Grace = 1
  SweepBatch = 1
  Operated = {}
  MaxClock = 0
  MaxTx = 0
SYMMETRY Symmetry
INVARIANTS
  SeatInv
PROPERTIES
  ImplementsSeatPool
CHECK_DEADLOCK FALSE
