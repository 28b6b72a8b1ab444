SPECIFICATION Spec
CONSTANTS
  Tenants = {1, 2, 3}
  Operations = {r1, r2}
  Quotas = {0, 1}
  None = None
  Hosts = {h1, h2}
  Bindings = {1, 2}
  Calls = {c1, c2}
  Users = {1, 2, 3}
  Updates = {x1, x2}
  NoOne = NoOne
CONSTRAINT Bounded
SYMMETRY Symmetry
INVARIANT OneLevel
CHECK_DEADLOCK FALSE
