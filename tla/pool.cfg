\* Three requests, four connections, one row to lock: a handler of two transactions that
\* reads under a lock, one that reads twice without a lock, one that only locks.
SPECIFICATION FairSpec
CONSTANTS
  None = None
  a = a  b = b  c = c  license = license  other = other
  Requests = {a, b, c}
  Kinds = {"acquireLease", "runEnforcement", "deactivate"}
  Locks = {license}
  PoolMax = 4
INVARIANTS
  NotStuck
PROPERTIES
  EveryRequestAnswered
CHECK_DEADLOCK FALSE
