SPECIFICATION Spec
CONSTANTS
  None = None
  Identity = {i1}
  Ip = {a1}
  Request = {r1, r2}
  ATTEMPT_MAX_FAILURES = 2
  ATTEMPT_LOCK_BASE = 3
  ATTEMPT_LOCK_CAP = 4
  ATTEMPT_SPACING = 1
  MaxDelay = 1
  MaxTime = 6
  MaxCount = 6
SYMMETRY Symmetry
INVARIANTS
  TypeOK
  GuessBudget
PROPERTIES
  LockKept
CHECK_DEADLOCK FALSE
