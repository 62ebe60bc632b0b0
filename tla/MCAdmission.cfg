SPECIFICATION Spec
CONSTANTS
  None = None
  Email = {e1, e2}
  User = {u1, u2}
  Token = {t1}
  Invite = {i1, i2}
  Request = {r1, r2}
  Verb = {"mint_invite", "clock", "redeem", "revoke_invite", "revoke_pending_for_email", "sweep_expired", "revoke_bearer", "signup", "login", "verify", "rotate", "revoke_access", "set_signup_policy", "crud"}
  MaxFaults = 1
SYMMETRY Symmetry
ACTION_CONSTRAINT Bound
INVARIANTS
  OneLivePrincipal
  OneShot
  AuditTruthful
  DeadOnArrival
CHECK_DEADLOCK FALSE
