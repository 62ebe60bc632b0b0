SPECIFICATION Spec
CONSTANTS
  None = None
  Email = {e1}
  User = {u1}
  Token = {t1, t2}
  Invite = {i1, i2}
  Request = {r1, r2}
  Verb = {"mint_invite", "clock", "redeem", "revoke_access"}
  MaxFaults = 0
SYMMETRY Symmetry
PROPERTIES
  ReaccessByInvitation
CHECK_DEADLOCK FALSE
