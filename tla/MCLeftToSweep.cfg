SPECIFICATION Spec
CONSTANTS
  None = None
  Email = {e1}
  User = {u1}
  Token = {t1, t2}
  Invite = {i1}
  Request = {r1, r2}
  Verb = {"mint_invite", "clock", "redeem", "verify", "rotate", "revoke_access"}
  MaxFaults = 1
SYMMETRY Symmetry
INVARIANTS
  NothingLeftToSweep
CHECK_DEADLOCK FALSE
