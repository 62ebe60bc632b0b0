SPECIFICATION LSpec
CONSTANTS
  None = None
  Email = {e1}
  User = {u1}
  Token = {t1}
  Invite = {i1}
  Request = {r1, r2}
  Verb = {"mint_invite", "redeem", "crud", "revoke_access"}
  MaxFaults = 1
  Person = {p1, p2}
  EmailOf <- SameEmail
  OfficersRevoke = FALSE
  MaxReplays = 1
SYMMETRY Symmetry
INVARIANTS
  RevokedOnlyIfGone
  RevocationAuditedOnce
  RevokedRowMeansSwept
CHECK_DEADLOCK FALSE
