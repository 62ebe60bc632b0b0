SPECIFICATION LSpec
CONSTANTS
  None = None
  Email = {e1}
  User = {u1}
  Token = {t1}
  Invite = {i1}
  Request = {r1, r2}
  Verb = {"mint_invite", "redeem", "revoke_access"}
  MaxFaults = 1
  Person = {p1}
  EmailOf <- SameEmail
  OfficersRevoke = FALSE
  MaxReplays = 1
PROPERTIES
  PerformedEdgeAudited
CHECK_DEADLOCK FALSE
