\* Two beats of a machine at a time, two identifiers; a row can be pruned and its identifier reused.
SPECIFICATION Spec
CONSTANTS
  None = None
  m1 = m1  m2 = m2  n1 = n1  n2 = n2  b1 = b1  b2 = b2
  Activations = {m1}
  Nonces = {n1, n2}
  Beats = {b1, b2}
  TTL = 2
  Retain = 2
  Expiry = 4
  MaxTime = 4
SYMMETRY Symmetry
INVARIANTS
  StalenessBounded
  AnchorCoversRenewals
  OneRenewalPerNonce
CHECK_DEADLOCK FALSE
