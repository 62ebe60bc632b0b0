SPECIFICATION Spec
CONSTANTS
  None = None
  Email = {e1}
  User = {u1}
  Token = {t1}
  Invite = {i1}
  Request = {r1, r2}
  Verb = {"mint_invite", "redeem", "revoke_access", "signup", "set_signup_policy"}
  MaxFaults = 0
SYMMETRY Symmetry
PROPERTIES
  SecondSignupIsLogin
CHECK_DEADLOCK FALSE
