SPECIFICATION Spec
CONSTANTS
  None = None
  Identity = {i1}
  Ip = {a1}
  Request = {r1}
  ATTEMPT_MAX_FAILURES = 2
  ATTEMPT_LOCK_BASE = 6
  ATTEMPT_LOCK_CAP = 12
  ATTEMPT_SPACING = 2
  MaxDelay = 0
  MaxTime = 12
  MaxCount = 4
SYMMETRY Symmetry
INVARIANTS
  EveryVerbThrottled
CHECK_DEADLOCK FALSE
