---------------------------- MODULE PortalRecords ----------------------------
(***************************************************************************)
(* What the generated layers know of the four tables.  The code writes the *)
(* columns of an entity out again in every layer: the struct, the arms of  *)
(* its PATCH, the bodies of POST and PUT, the assignments of POST   *)
(* and PUT, the response.  So does this module, list by list; that they    *)
(* agree where they have to is checked, and proved, in PortalOffice.  Then *)
(* the fields a generic write may not change, the row rules of the         *)
(* services and the CHECKs of the tables.                                  *)
(*                                                                         *)
(* A stored value is a pair: <<characters, shape>> for a text,             *)
(* <<instant, "at">> for a time, <<0, name>> for an id, a status or a      *)
(* flag; None is NULL.  A row is a function from columns to values.        *)
(***************************************************************************)
EXTENDS Naturals

CONSTANT None

Kinds == {"user", "token", "invite", "policy"}

Named(name) == <<0, name>>
At(instant) == <<instant, "at">>

(* Lengths as the database and the row rules count them (char_length, the  *)
(* framework's length) and as Rust's len() does: a "wide" text takes two   *)
(* bytes a character.                                                      *)
Chars(v) == v[1]
Bytes(v) == IF v[2] = "wide" THEN 2 * v[1] ELSE v[1]
Blank(v) == v[2] \in {"plain", "wide", "blank"} /\ (v[1] = 0 \/ v[2] = "blank")

-----------------------------------------------------------------------------
(* The structs: their columns, and which of them are not an Option.        *)

PortalUser ==
    [columns |-> {"email", "display_name", "status", "phone", "street", "street2", "city",
                  "state_id", "country_id", "zip", "vat", "company_name", "sapiens_user_id",
                  "revoked_at", "revocation_reason", "archived_at", "last_login_at"},
     required |-> {"email", "status"}]
PortalToken ==
    [columns |-> {"user_id", "token_nonce", "token_expires_at", "status", "rotated_at",
                  "rotated_to", "revoked_at", "revocation_reason", "last_used_at"},
     required |-> {"user_id", "token_nonce", "token_expires_at", "status"}]
PortalInvite ==
    [columns |-> {"recipient_email", "token_nonce", "token_expires_at", "status", "granted_by",
                  "redeemed_by", "redeemed_at", "revoked_at", "revocation_reason"},
     required |-> {"recipient_email", "token_nonce", "token_expires_at", "status"}]
PortalSignupPolicy ==
    [columns |-> {"enabled", "note", "updated_by"}, required |-> {"enabled"}]

Of(k, user, token, invite, policy) ==
    CASE k = "user" -> user [] k = "token" -> token [] k = "invite" -> invite
      [] k = "policy" -> policy

Entity(k) == Of(k, PortalUser, PortalToken, PortalInvite, PortalSignupPolicy)
Columns(k) == Entity(k).columns
Required(k) == Entity(k).required

-----------------------------------------------------------------------------
(* write_protected_fields and secret_fields: what a generic write may not  *)
(* change, and what a response does not show.                              *)

(* Slip: the status left out. *)
PortalUserMetaOpen == [protected |-> {}, secret |-> {}]
PortalUserMeta == [protected |-> {"status"}, secret |-> {}]
PortalTokenMeta == [protected |-> {"token_nonce", "status"}, secret |-> {"token_nonce"}]
PortalInviteMeta == [protected |-> {"token_nonce", "status"}, secret |-> {"token_nonce"}]
PortalSignupPolicyMeta == [protected |-> {}, secret |-> {}]
Meta(k) == Of(k, PortalUserMeta, PortalTokenMeta, PortalInviteMeta, PortalSignupPolicyMeta)

-----------------------------------------------------------------------------
(* PATCH: the arms of apply_patch.  The route hands it the body's keys as  *)
(* they came: one without an arm is ignored, and so is a value its column  *)
(* cannot hold, null where the column is required.                         *)

PortalUserArms ==
    {"email", "display_name", "status", "phone", "street", "street2", "city", "state_id",
     "country_id", "zip", "vat", "company_name", "sapiens_user_id", "revoked_at",
     "revocation_reason", "archived_at", "last_login_at"}
PortalTokenArms ==
    {"user_id", "token_nonce", "token_expires_at", "status", "rotated_at", "rotated_to",
     "revoked_at", "revocation_reason", "last_used_at"}
PortalInviteArms ==
    {"recipient_email", "token_nonce", "token_expires_at", "status", "granted_by",
     "redeemed_by", "redeemed_at", "revoked_at", "revocation_reason"}
PortalSignupPolicyArms == {"enabled", "note"}
Arms(k) == Of(k, PortalUserArms, PortalTokenArms, PortalInviteArms, PortalSignupPolicyArms)

Takes(k, c, v) == v # None \/ c \notin Required(k)

(* Slip: the body merged over the row. *)
PatchMerged(k, row, body) ==
    [c \in Columns(k) \cup DOMAIN body |->
        IF c \in DOMAIN body /\ Takes(k, c, body[c]) THEN body[c] ELSE row[c]]
Patched(k, row, body) ==
    [c \in Columns(k) |-> IF c \in Arms(k) \cap DOMAIN body /\ Takes(k, c, body[c])
                          THEN body[c] ELSE row[c]]

-----------------------------------------------------------------------------
(* POST: the members of its body, and what the conversion takes from them; *)
(* a column it does not take is the status, which is born with the row.    *)

CreatePortalUserDto ==
    {"email", "display_name", "phone", "street", "street2", "city", "state_id", "country_id",
     "zip", "vat", "company_name", "sapiens_user_id", "revoked_at", "revocation_reason",
     "archived_at", "last_login_at"}
CreatePortalTokenDto ==
    {"user_id", "token_nonce", "token_expires_at", "rotated_at", "rotated_to", "revoked_at",
     "revocation_reason", "last_used_at"}
CreatePortalInviteDto ==
    {"recipient_email", "token_nonce", "token_expires_at", "granted_by", "redeemed_by",
     "redeemed_at", "revoked_at", "revocation_reason"}
CreatePortalSignupPolicyDto == {"enabled", "note", "updated_by"}
CreateDto(k) == Of(k, CreatePortalUserDto, CreatePortalTokenDto, CreatePortalInviteDto,
                   CreatePortalSignupPolicyDto)

(* Slip: born active. *)
PortalUserFromActive == [takes |-> CreatePortalUserDto, birth |-> "active"]
PortalUserFrom ==
    [takes |-> {"email", "display_name", "phone", "street", "street2", "city", "state_id",
                "country_id", "zip", "vat", "company_name", "sapiens_user_id", "revoked_at",
                "revocation_reason", "archived_at", "last_login_at"},
     birth |-> "invited"]
PortalTokenFrom ==
    [takes |-> {"user_id", "token_nonce", "token_expires_at", "rotated_at", "rotated_to",
                "revoked_at", "revocation_reason", "last_used_at"},
     birth |-> "active"]
PortalInviteFrom ==
    [takes |-> {"recipient_email", "token_nonce", "token_expires_at", "granted_by",
                "redeemed_by", "redeemed_at", "revoked_at", "revocation_reason"},
     birth |-> "pending"]
PortalSignupPolicyFrom == [takes |-> {"enabled", "note", "updated_by"}, birth |-> "none"]
From(k) == Of(k, PortalUserFrom, PortalTokenFrom, PortalInviteFrom, PortalSignupPolicyFrom)

Created(k, dto) ==
    [c \in Columns(k) |-> IF c \in From(k).takes THEN dto[c] ELSE Named(From(k).birth)]

-----------------------------------------------------------------------------
(* PUT: the members of its body, and the assignments of apply_update.      *)

UpdatePortalUserDto ==
    {"email", "display_name", "status", "phone", "street", "street2", "city", "state_id",
     "country_id", "zip", "vat", "company_name", "sapiens_user_id", "revoked_at",
     "revocation_reason", "archived_at", "last_login_at"}
UpdatePortalTokenDto ==
    {"user_id", "token_expires_at", "status", "rotated_at", "rotated_to", "revoked_at",
     "revocation_reason", "last_used_at"}
UpdatePortalInviteDto ==
    {"recipient_email", "token_expires_at", "status", "granted_by", "redeemed_by",
     "redeemed_at", "revoked_at", "revocation_reason"}
UpdatePortalSignupPolicyDto == {"enabled", "note", "updated_by"}
UpdateDto(k) == Of(k, UpdatePortalUserDto, UpdatePortalTokenDto, UpdatePortalInviteDto,
                   UpdatePortalSignupPolicyDto)

PortalUserAssigned ==
    {"email", "display_name", "status", "phone", "street", "street2", "city", "state_id",
     "country_id", "zip", "vat", "company_name", "sapiens_user_id", "revoked_at",
     "revocation_reason", "archived_at", "last_login_at"}
(* Slip: the last assignment left out. *)
PortalTokenAssignedShort ==
    {"user_id", "token_expires_at", "status", "rotated_at", "rotated_to", "revoked_at",
     "revocation_reason"}
PortalTokenAssigned ==
    {"user_id", "token_expires_at", "status", "rotated_at", "rotated_to", "revoked_at",
     "revocation_reason", "last_used_at"}
PortalInviteAssigned ==
    {"recipient_email", "token_expires_at", "status", "granted_by", "redeemed_by",
     "redeemed_at", "revoked_at", "revocation_reason"}
PortalSignupPolicyAssigned == {"enabled", "note", "updated_by"}
Assigned(k) == Of(k, PortalUserAssigned, PortalTokenAssigned, PortalInviteAssigned,
                  PortalSignupPolicyAssigned)

Updated(k, row, dto) ==
    [c \in DOMAIN row |-> IF c \in Assigned(k) THEN dto[c] ELSE row[c]]

-----------------------------------------------------------------------------
(* GET: what the conversion to a response names; the framework masks the   *)
(* secret ones.                                                            *)

PortalUserResponseDto ==
    {"email", "display_name", "status", "phone", "street", "street2", "city", "state_id",
     "country_id", "zip", "vat", "company_name", "sapiens_user_id", "revoked_at",
     "revocation_reason", "archived_at", "last_login_at"}
PortalTokenResponseDto ==
    {"user_id", "token_nonce", "token_expires_at", "status", "rotated_at", "rotated_to",
     "revoked_at", "revocation_reason", "last_used_at"}
PortalInviteResponseDto ==
    {"recipient_email", "token_nonce", "token_expires_at", "status", "granted_by",
     "redeemed_by", "redeemed_at", "revoked_at", "revocation_reason"}
PortalSignupPolicyResponseDto == {"enabled", "note", "updated_by"}
ResponseDto(k) == Of(k, PortalUserResponseDto, PortalTokenResponseDto, PortalInviteResponseDto,
                     PortalSignupPolicyResponseDto)

Masked == <<0, "masked">>
Responded(k, row) == [c \in ResponseDto(k) |-> IF c \in Meta(k).secret THEN Masked ELSE row[c]]

-----------------------------------------------------------------------------
(* The row rules of the generic services, and the CHECKs of the tables:    *)
(* two tables of what a row must satisfy.                                  *)

PortalUserRowRules ==
    [required |-> {"email"},
     limit |-> [email |-> 320, display_name |-> 120, phone |-> 40, street |-> 160,
                street2 |-> 160, city |-> 80, state_id |-> 80, country_id |-> 8, zip |-> 24,
                vat |-> 40, company_name |-> 120, revocation_reason |-> 120]]
PortalTokenRowRules ==
    [required |-> {"user_id", "token_nonce"},
     limit |-> [token_nonce |-> 64, revocation_reason |-> 120]]
PortalInviteRowRules ==
    [required |-> {"recipient_email", "token_nonce"},
     limit |-> [recipient_email |-> 320, token_nonce |-> 64, revocation_reason |-> 120]]
PortalSignupPolicyRowRules == [required |-> {}, limit |-> [note |-> 200]]

RowRules(k) == Of(k, PortalUserRowRules, PortalTokenRowRules, PortalInviteRowRules,
                  PortalSignupPolicyRowRules)

(* The rules of the columns in looked at; NULL has no length to exceed.    *)
Satisfies(row, rules, looked) ==
    /\ \A c \in looked \cap rules.required : row[c] # None /\ ~Blank(row[c])
    /\ \A c \in looked \cap DOMAIN rules.limit :
          row[c] # None => Chars(row[c]) <= rules.limit[c]

PortalUserChecks ==
    [required |-> {"email"},
     limit |-> [email |-> 320, display_name |-> 120, phone |-> 40, street |-> 160,
                street2 |-> 160, city |-> 80, state_id |-> 80, country_id |-> 8, zip |-> 24,
                vat |-> 40, company_name |-> 120, revocation_reason |-> 120]]
PortalTokenChecks ==
    [required |-> {"user_id", "token_nonce"},
     limit |-> [token_nonce |-> 64, revocation_reason |-> 120]]
PortalInviteChecks ==
    [required |-> {"recipient_email", "token_nonce"},
     limit |-> [recipient_email |-> 320, token_nonce |-> 64, revocation_reason |-> 120]]
PortalSignupPolicyChecks == [required |-> {}, limit |-> [note |-> 200]]

Checks(k) == Of(k, PortalUserChecks, PortalTokenChecks, PortalInviteChecks,
                PortalSignupPolicyChecks)

(* NOT NULL and the CHECKs, on the whole row. *)
Fits(k, row) ==
    /\ \A c \in Required(k) : row[c] # None
    /\ Satisfies(row, Checks(k), Columns(k))

(* The self-service patch: its ten arms and their limits, in bytes. *)
DetailLimit ==
    [display_name |-> 120, phone |-> 40, street |-> 160, street2 |-> 160, city |-> 80,
     state_id |-> 80, country_id |-> 8, zip |-> 24, vat |-> 40, company_name |-> 120]

(* Slip: the limit left to the table. *)
ValidDetailUnlimited(c, v) == c \in DOMAIN DetailLimit
ValidDetail(c, v) == c \in DOMAIN DetailLimit /\ Bytes(v) <= DetailLimit[c]
=============================================================================
