\* Two seats. Three machines (one of which drifts) race for them with three tokens: the
\* third is refused until a seat is given up. Or a license whose status and expiry change
\* under two requests, with a token that travels in a file that may get too old.
SPECIFICATION Spec
CONSTANTS
  None = None
  l1 = l1  l2 = l2
  n1 = n1  n2 = n2  n3 = n3  n4 = n4
  r1 = r1  r2 = r2  r3 = r3
  p1 = p1  p2 = p2
  Licenses <- OneLicense
  Fingerprints <- Machines
  FpMin = 2
  MaxActivations <- TwoSeats
  Nonces = {n1, n2, n3, n4}
  FileNonces = {n4}
  Rows = {r1, r2, r3}
  Requests = {p1, p2}
CONSTRAINT OneAtATime
SYMMETRY Symmetry
INVARIANTS
  OneSeatPerMachine
PROPERTIES
  ImplementsSeatPool
  DriftTakesNoSeat
  SeatOnlyOnActiveLicense
  StaleFileNeverActivates
CHECK_DEADLOCK FALSE
