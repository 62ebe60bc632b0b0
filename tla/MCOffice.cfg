SPECIFICATION OSpec
CONSTANTS
  None = None
  Kind = {"user", "token", "invite", "policy"}
  Id = {"a", "b"}
  Instant = {0, 2}
  Edited = {"email", "status", "display_name", "revocation_reason", "user_id", "token_nonce", "token_expires_at", "recipient_email", "enabled", "note"}
  Ttl = 1
  MaxTime = 2
  MaxWrites = 2
INVARIANTS
  OTypeOK
  ChecksHold
  LinkSound
  CreatedNotAdmitted
  RoutesAgree
  RecipientBinds
PROPERTIES
  StatusByVerb
CHECK_DEADLOCK FALSE
