SPECIFICATION LSpec
CONSTANTS
  None = None
  Email = {e1}
  User = {u1}
  Token = {t1}
  Invite = {i1}
  Request = {r1, r2}
  Verb = {"mint_invite", "redeem", "revoke_access"}
  MaxFaults = 1
  Person = {p1}
  EmailOf <- SameEmail
  OfficersRevoke = TRUE
  MaxReplays = 1
INVARIANTS
  LTypeOK
PROPERTIES
  GoneIsRevoked
CHECK_DEADLOCK FALSE
