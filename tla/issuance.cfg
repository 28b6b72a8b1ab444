SPECIFICATION Spec
CONSTANTS
  None = None
  Admins = {a1}
  Keys = {k1, k2}
  Shares = {s1, s2}
  Threshold = 2
  OverlapSeconds = 1
  MaxTime = 1
  MaxRestarts = 1
  Requests = {r1, r2}
  Customers = {c1, c2}
  Licenses = {l1}
  TransferLimit = 1
  MaxAudit = 3
CONSTRAINT AuditBound
SYMMETRY Symmetry
CHECK_DEADLOCK FALSE
INVARIANTS OwnersKept AuditReplays
