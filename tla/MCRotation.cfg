SPECIFICATION SSpec
CONSTANTS
  None = None
  Email = {e1}
  User = {u1}
  Token = {t1, t2, t3}
  Invite = {i1}
  Request = {r1, r2}
  Column = {c1, c2}
  Value = {v1}
  Verb = {"mint_invite", "clock", "redeem", "login", "verify", "rotate", "revoke_access", "crud"}
  MaxFaults = 1
SYMMETRY Symmetry
ACTION_CONSTRAINT Bound
INVARIANTS
  TypeOK
  
  OneHolder
  RotationLinks
  GrantedAtOneInstant
  ViewCurrent
  SweepReachesAll
  AuditedBeforeSent
  DeadOnArrival
PROPERTIES
  DeadForever
  OwnLiveWrites
  KeepsPromise
CHECK_DEADLOCK FALSE
