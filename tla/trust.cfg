\* Two admins change the keys of a product, and one restart; two servers publish the list
\* of a license and a machine, which falls due once unchanged.
SPECIFICATION TrustSpec
CONSTANTS
  None = None
  Admins = {a1, a2}
  Keys = {k1, k2, k3}
  Shares = {s1, s2, s3}
  Threshold = 3
  OverlapSeconds = 1
  MaxTime = 1
  MaxRestarts = 1
  Licenses = {l1}
  Activations = {m1}
  Workers = {w1, w2}
  Clients = {c1}
  MaxDue = 1
  MaxFaults = 1
INVARIANTS
  Signable
  StaysTrusted
PROPERTIES
  ChangesEnd
  RevocationReachesClients
CHECK_DEADLOCK FALSE
