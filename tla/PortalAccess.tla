---------------------------- MODULE PortalAccess ----------------------------
(***************************************************************************)
(* The access core of the portal module: invitations, principals, bearer   *)
(* credentials, the signup kill switch and the audit trail, as the service *)
(* verbs of invite_service, token_service, access_service and              *)
(* policy_service read and write them in one Postgres database.            *)
(*                                                                         *)
(* A request is one in-flight call of a verb.  Its program counter stands  *)
(* between two awaits: every action below is one committed statement or    *)
(* one committed transaction together with the straight-line code around   *)
(* it.  A request may stop at every await (database error, client gone,    *)
(* process crash): that is Fail.  Links are unforgeable tokens here: a     *)
(* caller can present a link only after some verb returned it (sent).      *)
(***************************************************************************)
EXTENDS Naturals

CONSTANTS
    Email,      \* normalized addresses
    User,       \* ids of portal.portal_users rows, drawn fresh by the code
    Token,      \* ids of portal.portal_tokens rows
    Invite,     \* ids of portal.portal_invites rows
    Request,    \* slots for calls in flight; a slot is reused after its call
    Verb,       \* the verbs the composed system calls (a bound of the model)
    MaxFaults,  \* how many calls may stop half way, failed policy reads
                \* included (a bound of the model)
    None        \* SQL NULL, or a request field with no value yet

AllVerbs == {"mint_invite", "revoke_invite", "revoke_pending_for_email",
             "sweep_expired", "redeem", "login", "signup", "verify", "rotate",
             "revoke_bearer", "revoke_access", "set_signup_policy",
             "clock", "crud"}   \* the last two are the world's: Expire; SoftDelete, Restore

ASSUME VerbAssumption == Verb \subseteq AllVerbs
ASSUME MaxFaultsAssumption == MaxFaults \in Nat
ASSUME NoneAssumption == None \notin Email \cup User \cup Token \cup Invite \cup AllVerbs
ASSUME IdAssumption == /\ User \cap Token = {}
                       /\ User \cap Invite = {}
                       /\ Token \cap Invite = {}

VARIABLES
    (* the database *)
    users,    \* portal.portal_users
    tokens,   \* portal.portal_tokens
    invites,  \* portal.portal_invites
    open,     \* portal.portal_signup_policies: the row exists and is enabled
    audit,    \* the rows of the shared audit trail
    (* the clock and the outside world *)
    late,     \* the tokens and invites whose expires_at has passed
    sent,     \* the links (by row id) that some verb has returned
    (* the calls *)
    req,      \* what each request is doing
    faults,   \* how many calls have stopped half way, or found the policy unreadable
    (* history, read by properties only *)
    due,      \* per user, what was to be swept when their revocation committed
    settled   \* users for whom revoke_access has returned Ok(true)

tables == <<users, tokens, invites, open>>
history == <<due, settled>>
vars == <<users, tokens, invites, open, audit, late, sent, req, faults, due, settled>>

-----------------------------------------------------------------------------
(* Row and request types.  status "absent" is an id with no row yet.       *)

UserRow == [status : {"absent", "active", "revoked"},
            email : Email \cup {None},
            deleted : BOOLEAN]

TokenRow == [status : {"absent", "active", "rotated", "revoked"},
             user : User \cup {None},
             rotated_to : Token \cup {None},
             line : Token \cup {None}]   \* history: the mint its rotations started from

InviteRow == [status : {"absent", "pending", "redeemed", "revoked", "expired"},
              email : Email \cup {None},
              redeemed_by : User \cup {None}]

Event == {"invite_minted", "invite_redeemed", "invite_revoked", "bearer_minted",
          "bearer_rotated", "bearer_revoked", "login_succeeded", "login_refused",
          "signup_created", "signup_refused_policy_closed", "policy_changed",
          "credential_port_not_composed"}

AuditRow == [event : Event,
             user : User \cup {None},
             invite : Invite \cup {None},
             token : Token \cup {None}]

PC == {"idle", "audit", "mint", "deliver", "granted",
       "redeem_read", "redeem_tx",
       "login_read", "login_port", "login_audit",
       "signup_policy", "signup_read", "signup_port", "signup_insert", "signup_fallback",
       "verify_read", "verify_user", "rotate_tx",
       "bearers_read", "bearers_write", "invites_read", "invites_write", "expire_write"}

(* Where a call goes once its audit row is written. *)
After == {"idle", "mint", "deliver", "login_audit", "invites_read"}

RequestState == [verb : AllVerbs \cup {None},
                 pc : PC,
                 email : Email \cup {None},
                 user : User \cup {None},
                 invite : Invite \cup {None},
                 token : Token \cup {None},
                 seen : SUBSET (Token \cup Invite),   \* rows in a statement's snapshot
                 row : AuditRow \cup {None},          \* the audit row to write next
                 then : After,                        \* where the call goes after it
                 doomed : BOOLEAN,    \* history: nothing since its start could let it succeed
                 vouched : BOOLEAN]   \* history: it was good at one instant since

TypeOK ==
    /\ users \in [User -> UserRow]
    /\ tokens \in [Token -> TokenRow]
    /\ invites \in [Invite -> InviteRow]
    /\ open \in BOOLEAN
    /\ audit \subseteq AuditRow
    /\ late \subseteq Token \cup Invite
    /\ sent \subseteq Token \cup Invite
    /\ req \in [Request -> RequestState]
    /\ faults \in 0..MaxFaults
    /\ due \in [User -> SUBSET (Token \cup Invite)]
    /\ settled \subseteq User

-----------------------------------------------------------------------------
(* Helpers: what the statements' WHERE clauses say.                        *)

NoUser == [status |-> "absent", email |-> None, deleted |-> FALSE]
NoToken == [status |-> "absent", user |-> None, rotated_to |-> None, line |-> None]
NoInvite == [status |-> "absent", email |-> None, redeemed_by |-> None]

Idle == [verb |-> None, pc |-> "idle", email |-> None, user |-> None,
         invite |-> None, token |-> None, seen |-> {}, row |-> None,
         then |-> "idle", doomed |-> FALSE, vouched |-> FALSE]

(* (metadata->>'deleted_at') IS NULL, on a row that exists *)
Live(u) == users[u].status # "absent" /\ ~users[u].deleted

LiveByEmail(e) == {u \in User : Live(u) /\ users[u].email = e}

ActiveTokens(u) == {t \in Token : tokens[t].status = "active" /\ tokens[t].user = u}

PendingInvites(e) == {i \in Invite : invites[i].status = "pending" /\ invites[i].email = e}

FreshUser(u) == users[u].status = "absent"
FreshToken(t) == tokens[t].status = "absent"
FreshInvite(i) == invites[i].status = "absent"

Pending(i) == invites[i].status = "pending"
Active(t) == tokens[t].status = "active"

ActiveUserRow(e) == [status |-> "active", email |-> e, deleted |-> FALSE]
(* Slip: the enum's word for a live token spelled differently. *)
MisspeltTokenRow(u, line) == [status |-> "live", user |-> u, rotated_to |-> None, line |-> line]
ActiveTokenRow(u, line) == [status |-> "active", user |-> u, rotated_to |-> None, line |-> line]

Row(event, u, i, t) == [event |-> event, user |-> u, invite |-> i, token |-> t]

(* The verbs' audit helpers run after their write committed, in a          *)
(* transaction of their own: the call goes to pc "audit" first.            *)
ThenAudit(s, row, then) == [s EXCEPT !.pc = "audit", !.row = row, !.then = then]

At(r, pc) == req[r].pc = pc
Goto(r, pc) == req' = [req EXCEPT ![r].pc = pc]
Becomes(r, s) == req' = [req EXCEPT ![r] = s]
Return(r) == Becomes(r, Idle)

Begin(r, verb) == At(r, "idle") /\ verb \in Verb

-----------------------------------------------------------------------------
(* Initially the database is empty, every call is idle, and the signup     *)
(* policy has no row, which signup_open reads as closed.                   *)

Init ==
    /\ users = [u \in User |-> NoUser]
    /\ tokens = [t \in Token |-> NoToken]
    /\ invites = [i \in Invite |-> NoInvite]
    /\ open = FALSE
    /\ audit = {}
    /\ late = {}
    /\ sent = {}
    /\ req = [r \in Request |-> Idle]
    /\ faults = 0
    /\ due = [u \in User |-> {}]
    /\ settled = {}

-----------------------------------------------------------------------------
(* Steps that every verb shares.                                           *)

(* record_audit_on_pool: one row, in a transaction of its own.             *)
WriteAudit(r) ==
    /\ At(r, "audit")
    /\ audit' = audit \cup {req[r].row}
    /\ Becomes(r, IF req[r].then = "idle" THEN Idle
                  ELSE [req[r] EXCEPT !.pc = req[r].then, !.row = None, !.then = "idle"])
    /\ UNCHANGED <<tables, late, sent, faults, history>>

(* The verb returns its link, and the caller has it from now on.           *)
Deliver(r) ==
    /\ At(r, "deliver")
    /\ sent' = sent \cup ({req[r].token, req[r].invite} \ {None})
    /\ Return(r)
    /\ UNCHANGED <<tables, audit, late, faults, history>>

(* Slip: the link returned without the audit row. *)
MintBearerUnaudited(r) ==
    /\ At(r, "mint")
    /\ \E t \in Token :
        /\ FreshToken(t)
        /\ tokens' = [tokens EXCEPT ![t] = ActiveTokenRow(req[r].user, t)]
        /\ Becomes(r, [req[r] EXCEPT !.token = t, !.pc = "deliver"])
    /\ UNCHANGED <<users, invites, open, audit, late, sent, faults, history>>

(* mint_bearer: the row is committed, then audited; only then does the     *)
(* link leave.  Nothing here looks at the principal's status.              *)
MintBearer(r) ==
    /\ At(r, "mint")
    /\ \E t \in Token :
        /\ FreshToken(t)
        /\ tokens' = [tokens EXCEPT ![t] = ActiveTokenRow(req[r].user, t)]
        /\ Becomes(r, ThenAudit([req[r] EXCEPT !.token = t],
                                Row("bearer_minted", req[r].user, None, t),
                                IF req[r].verb = "login" THEN "login_audit" ELSE "deliver"))
    /\ UNCHANGED <<users, invites, open, audit, late, sent, faults, history>>

(* A call stops at an await: `?` on a database error, a dropped future, a  *)
(* crash.  What it committed stays; nobody continues the call.             *)
Fail(r) ==
    /\ ~At(r, "idle")
    /\ faults < MaxFaults
    /\ faults' = faults + 1
    /\ Return(r)
    /\ UNCHANGED <<tables, audit, late, sent, history>>

-----------------------------------------------------------------------------
(* Invitations (invite_service).                                           *)

MintInvite(r) ==
    /\ Begin(r, "mint_invite")
    /\ \E i \in Invite, e \in Email :
        /\ FreshInvite(i)
        /\ invites' = [invites EXCEPT ![i] = [status |-> "pending", email |-> e,
                                              redeemed_by |-> None]]
        /\ Becomes(r, ThenAudit([Idle EXCEPT !.verb = "mint_invite", !.invite = i],
                                Row("invite_minted", None, i, None), "deliver"))
    /\ UNCHANGED <<users, tokens, open, audit, late, sent, faults, history>>

RevokeInvite(r) ==
    /\ Begin(r, "revoke_invite")
    /\ \E i \in Invite :
        /\ Pending(i)
        /\ invites' = [invites EXCEPT ![i].status = "revoked"]
        /\ Becomes(r, ThenAudit([Idle EXCEPT !.verb = "revoke_invite"],
                                Row("invite_revoked", None, i, None), "idle"))
    /\ UNCHANGED <<users, tokens, open, audit, late, sent, faults, history>>

(* A multi-row UPDATE takes its snapshot (InvitesRead), then locks the     *)
(* rows it found one after the other and re-checks each against its latest *)
(* version (InvitesWrite): READ COMMITTED.  Two verbs run this statement:  *)
(* revoke_pending_for_email, audited, and the last statement of            *)
(* revoke_access, silent.                                                  *)
BeginRevokePending(r) ==
    /\ Begin(r, "revoke_pending_for_email")
    /\ \E e \in Email :
        Becomes(r, [Idle EXCEPT !.verb = "revoke_pending_for_email",
                                !.pc = "invites_read", !.email = e])
    /\ UNCHANGED <<tables, audit, late, sent, faults, history>>

InvitesRead(r) ==
    /\ At(r, "invites_read")
    /\ Becomes(r, [req[r] EXCEPT !.pc = "invites_write",
                                 !.seen = PendingInvites(req[r].email)])
    /\ UNCHANGED <<tables, audit, late, sent, faults, history>>

(* Slip: the UPDATE trusts its snapshot. *)
SeenPending(r) == req[r].seen \cap Invite
(* The rows of the snapshot that are still pending when they are locked.   *)
StillPending(r) == {i \in req[r].seen \cap Invite : Pending(i)}

SetInvites(S, status) ==
    invites' = [i \in Invite |-> IF i \in S THEN [invites[i] EXCEPT !.status = status]
                                            ELSE invites[i]]

InvitesWrite(r) ==
    /\ At(r, "invites_write")
    /\ SetInvites(StillPending(r), "revoked")
    /\ \/ /\ req[r].verb = "revoke_access"
          /\ settled' = settled \cup {req[r].user}
          /\ Return(r)
       \/ /\ req[r].verb = "revoke_pending_for_email"
          /\ settled' = settled
          /\ Becomes(r, IF StillPending(r) = {} THEN Idle
                        ELSE ThenAudit([req[r] EXCEPT !.seen = {}],
                                       Row("invite_revoked", None, None, None), "idle"))
    /\ UNCHANGED <<users, tokens, open, audit, late, sent, faults, due>>

(* sweep_expired: the same two halves, over every email, never audited.    *)
SweepExpiredRead(r) ==
    /\ Begin(r, "sweep_expired")
    /\ Becomes(r, [Idle EXCEPT !.verb = "sweep_expired", !.pc = "expire_write",
                               !.seen = {i \in late \cap Invite : Pending(i)}])
    /\ UNCHANGED <<tables, audit, late, sent, faults, history>>

SweepExpiredWrite(r) ==
    /\ At(r, "expire_write")
    /\ SetInvites(StillPending(r), "expired")
    /\ Return(r)
    /\ UNCHANGED <<users, tokens, open, audit, late, sent, faults, history>>

(* Slip: the expiry left to the sweep. *)
RedeemRefusedUntimed(i, e) == ~Pending(i) \/ invites[i].email # e

(* What redeem refuses: a row that is not pending, an expired one, and a   *)
(* presenting email that is not the invitation's.                          *)
RedeemRefused(i, e) ==
    \/ ~Pending(i)
    \/ i \in late
    \/ invites[i].email # e

(* An invitation that e can never redeem again.                            *)
DeadInvite(i, e) == ~Pending(i) \/ i \in late \/ invites[i].email # e

BeginRedeem(r) ==
    /\ Begin(r, "redeem")
    /\ \E i \in sent \cap Invite, e \in Email :
        Becomes(r, [Idle EXCEPT !.verb = "redeem", !.pc = "redeem_read", !.invite = i,
                                !.email = e, !.doomed = DeadInvite(i, e)])
    /\ UNCHANGED <<tables, audit, late, sent, faults, history>>

RedeemRead(r) ==
    /\ At(r, "redeem_read")
    /\ IF RedeemRefused(req[r].invite, req[r].email) THEN Return(r)
       ELSE Becomes(r, [req[r] EXCEPT !.pc = "redeem_tx", !.vouched = TRUE])
    /\ UNCHANGED <<tables, audit, late, sent, faults, history>>

(* Slip: WHERE id = $1 alone. *)
RedeemableAnyway(i) == invites[i].status # "absent"
(* The one-shot fence: WHERE id = $1 AND status = 'pending'.               *)
Redeemable(i) == Pending(i)

(* The transaction: flip pending -> redeemed, insert the principal, commit.*)
(* No row flipped, or the unique-on-live email index refusing the insert,  *)
(* rolls all of it back.                                                   *)
RedeemTx(r) ==
    LET i == req[r].invite
        e == invites[i].email IN
    /\ At(r, "redeem_tx")
    /\ \/ /\ ~Redeemable(i) \/ LiveByEmail(e) # {}
          /\ Return(r)
          /\ UNCHANGED <<users, invites>>
       \/ /\ Redeemable(i)
          /\ LiveByEmail(e) = {}
          /\ \E u \in User :
              /\ FreshUser(u)
              /\ users' = [users EXCEPT ![u] = ActiveUserRow(e)]
              /\ invites' = [invites EXCEPT ![i].status = "redeemed", ![i].redeemed_by = u]
              /\ Becomes(r, ThenAudit([req[r] EXCEPT !.user = u],
                                      Row("invite_redeemed", u, i, None), "mint"))
    /\ UNCHANGED <<tokens, open, audit, late, sent, faults, history>>

-----------------------------------------------------------------------------
(* Bearers (token_service).                                                *)

(* Slip: the token's own status not looked at. *)
TokenRefusedLax(t) == ~Live(tokens[t].user) \/ t \in late

(* What the first SELECT of verify_bearer refuses: no row, a dead token,   *)
(* an expired one, a soft-deleted principal.                               *)
TokenRefused(t) ==
    \/ ~Active(t)
    \/ t \in late
    \/ ~Live(tokens[t].user)

ActivePrincipal(u) == Live(u) /\ users[u].status = "active"

(* A link that can never be accepted again (a soft-deleted principal may   *)
(* come back, the other conditions are for ever).                          *)
DeadToken(t) ==
    \/ ~Active(t)
    \/ t \in late
    \/ users[tokens[t].user].status = "revoked"

(* me, update_me and my_access_history run verify; rotate runs it first.   *)
BeginVerify(r) ==
    /\ \E verb \in {"verify", "rotate"}, t \in sent \cap Token :
        /\ Begin(r, verb)
        /\ Becomes(r, [Idle EXCEPT !.verb = verb, !.pc = "verify_read", !.token = t,
                                   !.doomed = DeadToken(t)])
    /\ UNCHANGED <<tables, audit, late, sent, faults, history>>

VerifyRead(r) ==
    LET t == req[r].token IN
    /\ At(r, "verify_read")
    /\ IF TokenRefused(t) THEN Return(r)
       ELSE Becomes(r, [req[r] EXCEPT !.pc = "verify_user", !.user = tokens[t].user,
                                      !.vouched = ActivePrincipal(tokens[t].user)])
    /\ UNCHANGED <<tables, audit, late, sent, faults, history>>

(* Slip: the principal's status not read again. *)
VerifyUserUnread(r) ==
    /\ At(r, "verify_user")
    /\ Goto(r, IF req[r].verb = "rotate" THEN "rotate_tx" ELSE "granted")
    /\ UNCHANGED <<tables, audit, late, sent, faults, history>>

(* The second SELECT: the principal's status, read again.                  *)
VerifyUser(r) ==
    /\ At(r, "verify_user")
    /\ IF ~ActivePrincipal(req[r].user) THEN Return(r)
       ELSE Goto(r, IF req[r].verb = "rotate" THEN "rotate_tx" ELSE "granted")
    /\ UNCHANGED <<tables, audit, late, sent, faults, history>>

(* The principal was returned; the route's handler acts for it and ends.   *)
EndGranted(r) ==
    /\ At(r, "granted")
    /\ Return(r)
    /\ UNCHANGED <<tables, audit, late, sent, faults, history>>

(* Slip: WHERE id = $1 alone. *)
RotatableAnyway(t) == tokens[t].status # "absent"
(* WHERE id = $1 AND status = 'active'                                     *)
Rotatable(t) == Active(t)

(* Slip: rotated_to left out of the UPDATE. *)
SupersededUnlinked(t, new) == [tokens[t] EXCEPT !.status = "rotated"]
Superseded(t, new) == [tokens[t] EXCEPT !.status = "rotated", !.rotated_to = new]

(* The transaction: active -> rotated on the presented row, insert its     *)
(* successor.  The status is all that the UPDATE checks again.             *)
RotateTx(r) ==
    LET old == req[r].token IN
    /\ At(r, "rotate_tx")
    /\ \/ /\ ~Rotatable(old)
          /\ Return(r)
          /\ UNCHANGED tokens
       \/ /\ Rotatable(old)
          /\ \E new \in Token :
              /\ FreshToken(new)
              /\ tokens' = [tokens EXCEPT ![old] = Superseded(old, new),
                                          ![new] = ActiveTokenRow(req[r].user, tokens[old].line)]
              /\ Becomes(r, ThenAudit([req[r] EXCEPT !.token = new],
                                      Row("bearer_rotated", req[r].user, None, old), "deliver"))
    /\ UNCHANGED <<users, invites, open, audit, late, sent, faults, history>>

RevokeBearer(r) ==
    /\ Begin(r, "revoke_bearer")
    /\ \E t \in Token :
        /\ Active(t)
        /\ tokens' = [tokens EXCEPT ![t].status = "revoked"]
        /\ Becomes(r, ThenAudit([Idle EXCEPT !.verb = "revoke_bearer"],
                                Row("bearer_revoked", tokens[t].user, None, t), "idle"))
    /\ UNCHANGED <<users, invites, open, audit, late, sent, faults, history>>

(* Slip: expired tokens thought not worth revoking. *)
BearersReadUnexpired(r) ==
    /\ At(r, "bearers_read")
    /\ Becomes(r, [req[r] EXCEPT !.pc = "bearers_write",
                                 !.seen = ActiveTokens(req[r].user) \ late])
    /\ UNCHANGED <<tables, audit, late, sent, faults, history>>

(* revoke_all_bearers, a multi-row UPDATE: a row inserted after the        *)
(* snapshot is not seen, a row that changed since is checked again.        *)
BearersRead(r) ==
    /\ At(r, "bearers_read")
    /\ Becomes(r, [req[r] EXCEPT !.pc = "bearers_write", !.seen = ActiveTokens(req[r].user)])
    /\ UNCHANGED <<tables, audit, late, sent, faults, history>>

(* Slip: the UPDATE trusts its snapshot. *)
SeenActive(r) == req[r].seen \cap Token
StillActive(r) == {t \in req[r].seen \cap Token : Active(t)}

BearersWrite(r) ==
    LET hit == StillActive(r)
        s == [req[r] EXCEPT !.seen = {}] IN
    /\ At(r, "bearers_write")
    /\ tokens' = [t \in Token |-> IF t \in hit THEN [tokens[t] EXCEPT !.status = "revoked"]
                                               ELSE tokens[t]]
    /\ Becomes(r, IF hit = {} THEN [s EXCEPT !.pc = "invites_read"]
                  ELSE ThenAudit(s, Row("bearer_revoked", s.user, None, None), "invites_read"))
    /\ UNCHANGED <<users, invites, open, audit, late, sent, faults, history>>

-----------------------------------------------------------------------------
(* Access (access_service) and the kill switch (policy_service).           *)

(* Slip: the condition on the status left out of the UPDATE. *)
RevocableAgain(u) == Live(u)
Revocable(u) == Live(u) /\ users[u].status # "revoked"

(* The flip is conditional.  On a principal already revoked or deleted the *)
(* verb returns Ok(false) and runs no sweep: no step of this action.       *)
RevokeFlip(r, u) ==
    /\ Revocable(u)
    /\ users' = [users EXCEPT ![u].status = "revoked"]
    /\ due' = [due EXCEPT ![u] = ActiveTokens(u) \cup PendingInvites(users[u].email)]
    /\ Becomes(r, [Idle EXCEPT !.verb = "revoke_access", !.pc = "bearers_read",
                               !.user = u, !.email = users[u].email])
    /\ UNCHANGED <<tokens, invites, open, audit, late, sent, faults, settled>>

RevokeAccess(r) == Begin(r, "revoke_access") /\ \E u \in User : RevokeFlip(r, u)

BeginLogin(r) ==
    /\ Begin(r, "login")
    /\ \E e \in Email :
        Becomes(r, [Idle EXCEPT !.verb = "login", !.pc = "login_read", !.email = e])
    /\ UNCHANGED <<tables, audit, late, sent, faults, history>>

(* verify_and_mint: an unknown or inactive principal is refused and the    *)
(* refusal audited.  The status is not read again on the way to the mint.  *)
LoginRead(r) ==
    /\ At(r, "login_read")
    /\ \/ /\ LiveByEmail(req[r].email) = {}
          /\ Becomes(r, ThenAudit(req[r], Row("login_refused", None, None, None), "idle"))
       \/ \E u \in LiveByEmail(req[r].email) :
          Becomes(r, IF users[u].status = "active"
                     THEN [req[r] EXCEPT !.pc = "login_port", !.user = u]
                     ELSE ThenAudit(req[r], Row("login_refused", u, None, None), "idle"))
    /\ UNCHANGED <<tables, audit, late, sent, faults, history>>

(* The host's verifier says yes or no; its own failure is a Fail; a slot   *)
(* nobody filled is audited and refused.                                   *)
LoginPort(r) ==
    LET u == req[r].user IN
    /\ At(r, "login_port")
    /\ \/ Goto(r, "mint")
       \/ Becomes(r, ThenAudit(req[r], Row("login_refused", u, None, None), "idle"))
       \/ Becomes(r, ThenAudit(req[r], Row("credential_port_not_composed", u, None, None), "idle"))
    /\ UNCHANGED <<tables, audit, late, sent, faults, history>>

LoginAudit(r) ==
    /\ At(r, "login_audit")
    /\ audit' = audit \cup {Row("login_succeeded", req[r].user, None, None)}
    /\ Goto(r, "deliver")
    /\ UNCHANGED <<tables, late, sent, faults, history>>

BeginSignup(r) ==
    /\ Begin(r, "signup")
    /\ \E e \in Email :
        Becomes(r, [Idle EXCEPT !.verb = "signup", !.pc = "signup_policy", !.email = e,
                                !.doomed = ~open])
    /\ UNCHANGED <<tables, audit, late, sent, faults, history>>

(* Slip: the policy taken from start-up instead of read on every call. *)
SignupPolicyCached(r) ==
    /\ At(r, "signup_policy")
    /\ Goto(r, "signup_read")
    /\ UNCHANGED <<tables, audit, late, sent, faults, history>>

(* signup_open: a switch that is off and one that cannot be read are both  *)
(* answered false, and both refusals are audited as a closed policy.       *)
SignupPolicy(r) ==
    /\ At(r, "signup_policy")
    /\ \/ /\ open
          /\ Becomes(r, [req[r] EXCEPT !.pc = "signup_read"])
          /\ UNCHANGED faults
       \/ /\ \/ ~open /\ UNCHANGED faults
             \/ faults < MaxFaults /\ faults' = faults + 1
          /\ Becomes(r, ThenAudit(req[r], Row("signup_refused_policy_closed", None, None, None),
                                  "idle"))
    /\ UNCHANGED <<tables, audit, late, sent, history>>

(* An active principal of that email is a login from here on; another one  *)
(* is refused; none is a candidate for creation.                           *)
SignupRead(r) ==
    /\ At(r, "signup_read")
    /\ \/ /\ LiveByEmail(req[r].email) = {}
          /\ Goto(r, "signup_port")
       \/ \E u \in LiveByEmail(req[r].email) :
          Becomes(r, IF users[u].status = "active"
                     THEN [req[r] EXCEPT !.verb = "login", !.pc = "login_read"]
                     ELSE Idle)
    /\ UNCHANGED <<tables, audit, late, sent, faults, history>>

SignupPort(r) ==
    /\ At(r, "signup_port")
    /\ \/ Goto(r, "signup_insert")
       \/ Return(r)
       \/ Becomes(r, ThenAudit(req[r], Row("credential_port_not_composed", None, None, None),
                               "idle"))
    /\ UNCHANGED <<tables, audit, late, sent, faults, history>>

SignupCreated(s, u) ==
    ThenAudit([s EXCEPT !.user = u], Row("signup_created", u, None, None), "mint")

(* Slip: the earlier search trusted, no fence in the database. *)
SignupInsertUnfenced(r) ==
    /\ At(r, "signup_insert")
    /\ \E u \in User :
        /\ FreshUser(u)
        /\ users' = [users EXCEPT ![u] = ActiveUserRow(req[r].email)]
        /\ Becomes(r, SignupCreated(req[r], u))
    /\ UNCHANGED <<tokens, invites, open, audit, late, sent, faults, history>>

(* INSERT ... ON CONFLICT DO NOTHING against the unique-on-live email.     *)
SignupInsert(r) ==
    /\ At(r, "signup_insert")
    /\ \/ /\ LiveByEmail(req[r].email) # {}
          /\ Goto(r, "signup_fallback")
          /\ UNCHANGED users
       \/ /\ LiveByEmail(req[r].email) = {}
          /\ \E u \in User :
              /\ FreshUser(u)
              /\ users' = [users EXCEPT ![u] = ActiveUserRow(req[r].email)]
              /\ Becomes(r, SignupCreated(req[r], u))
    /\ UNCHANGED <<tokens, invites, open, audit, late, sent, faults, history>>

(* The race was lost: whoever holds the email now is taken, whatever its   *)
(* status; nobody (deleted meanwhile) is an internal error.                *)
SignupFallback(r) ==
    /\ At(r, "signup_fallback")
    /\ \/ /\ LiveByEmail(req[r].email) = {}
          /\ Return(r)
       \/ \E u \in LiveByEmail(req[r].email) : Becomes(r, SignupCreated(req[r], u))
    /\ UNCHANGED <<tables, audit, late, sent, faults, history>>

(* DELETE and INSERT in one transaction, then the audit row.               *)
SetSignupPolicy(r) ==
    /\ Begin(r, "set_signup_policy")
    /\ \E enabled \in BOOLEAN :
        /\ open' = enabled
        /\ req' = [q \in Request |->
                     IF q = r THEN ThenAudit([Idle EXCEPT !.verb = "set_signup_policy"],
                                             Row("policy_changed", None, None, None), "idle")
                     ELSE IF req[q].verb = "signup" /\ enabled
                          THEN [req[q] EXCEPT !.doomed = FALSE]
                          ELSE req[q]]
    /\ UNCHANGED <<users, tokens, invites, audit, late, sent, faults, history>>

-----------------------------------------------------------------------------
(* What the world does: time passes for a row (only for those that could   *)
(* still be accepted, nothing reads the others' expiry), and the host's    *)
(* generic CRUD archives a principal and restores it.                      *)

Expire ==
    /\ "clock" \in Verb
    /\ late' \in {late \cup {x} : x \in {t \in Token : Active(t)}
                                        \cup {i \in Invite : Pending(i)}}
    /\ UNCHANGED <<tables, audit, sent, req, faults, history>>

SoftDelete ==
    /\ "crud" \in Verb
    /\ \E u \in User : Live(u) /\ users' = [users EXCEPT ![u].deleted = TRUE]
    /\ UNCHANGED <<tokens, invites, open, audit, late, sent, req, faults, history>>

Restore ==
    /\ "crud" \in Verb
    /\ \E u \in User :
        /\ users[u].deleted
        /\ LiveByEmail(users[u].email) = {}
        /\ users' = [users EXCEPT ![u].deleted = FALSE]
    /\ UNCHANGED <<tokens, invites, open, audit, late, sent, req, faults, history>>

(* A slot takes up a verb; a call goes on; a call stops half way.          *)
Start(r) ==
    \/ MintInvite(r) \/ RevokeInvite(r) \/ BeginRevokePending(r) \/ SweepExpiredRead(r)
    \/ BeginRedeem(r) \/ BeginVerify(r) \/ RevokeBearer(r) \/ RevokeAccess(r)
    \/ BeginLogin(r) \/ BeginSignup(r) \/ SetSignupPolicy(r)

Continue(r) ==
    \/ WriteAudit(r) \/ Deliver(r) \/ MintBearer(r)
    \/ InvitesRead(r) \/ InvitesWrite(r) \/ SweepExpiredWrite(r)
    \/ RedeemRead(r) \/ RedeemTx(r)
    \/ VerifyRead(r) \/ VerifyUser(r) \/ EndGranted(r) \/ RotateTx(r)
    \/ BearersRead(r) \/ BearersWrite(r)
    \/ LoginRead(r) \/ LoginPort(r) \/ LoginAudit(r)
    \/ SignupPolicy(r) \/ SignupRead(r) \/ SignupPort(r)
    \/ SignupInsert(r) \/ SignupFallback(r)

Step(r) == Start(r) \/ Continue(r) \/ Fail(r)

Next == (\E r \in Request : Step(r)) \/ Expire \/ SoftDelete \/ Restore

Spec == Init /\ [][Next]_vars

-----------------------------------------------------------------------------
(* Safety.                                                                 *)

(* At most one live principal holds an email, whatever redemptions,        *)
(* signups, archivings and restorations race: redeem's plain INSERT,       *)
(* signup's ON CONFLICT and the host's restore share one fence.            *)
OneLivePrincipal ==
    \A u, v \in User : Live(u) /\ Live(v) /\ users[u].email = users[v].email => u = v

(* However often and however concurrently a link is rotated, one sign-in   *)
(* has at most one accepted credential: two rotations of one link cannot   *)
(* both leave a live successor.                                            *)
OneHolder ==
    \A s, t \in Token :
        Active(s) /\ Active(t) /\ tokens[s].line = tokens[t].line => s = t

(* A rotated row names its successor, which is a row of the same user and  *)
(* of the same sign-in and is no other row's successor; no other row names *)
(* one.                                                                    *)
RotationLinks ==
    \A s \in Token :
        /\ tokens[s].status = "rotated" <=> tokens[s].rotated_to # None
        /\ \A n \in Token : tokens[s].rotated_to = n =>
            /\ tokens[n].status # "absent"
            /\ tokens[n].user = tokens[s].user
            /\ tokens[n].line = tokens[s].line
            /\ \A q \in Token : tokens[q].rotated_to = n => q = s

(* A redeemed invitation has a principal of its own, of its email, and the *)
(* trail records one redemption of it.                                     *)
OneShot ==
    \A i \in Invite : invites[i].status = "redeemed" =>
        /\ \E u \in User : /\ invites[i].redeemed_by = u
                           /\ users[u].status # "absent"
                           /\ users[u].email = invites[i].email
        /\ \A j \in Invite : invites[j].redeemed_by = invites[i].redeemed_by => i = j
        /\ \A a, b \in audit :
            /\ a.event = "invite_redeemed" /\ a.invite = i
            /\ b.event = "invite_redeemed" /\ b.invite = i
            => a = b

(* A call has got what it asked for.                                       *)
Succeeded(r) ==
    \/ At(r, "granted")
    \/ req[r].verb = "rotate" /\ req[r].pc \in {"rotate_tx", "audit", "deliver"}
    \/ req[r].verb = "redeem" /\ req[r].user # None
    \/ req[r].verb = "signup" /\ req[r].user # None

(* A call that had no chance when it began never gets through, whatever    *)
(* happens between its reads: a link that was rotated, revoked or expired, *)
(* a revoked principal, an invitation spent, expired or of another email,  *)
(* a signup while the kill switch stayed off.                              *)
DeadOnArrival == \A r \in Request : Succeeded(r) => ~req[r].doomed

(* verify_bearer reads the token and the principal in two statements, but  *)
(* what it grants was good at one instant: token live and unexpired and    *)
(* principal active together, when the first statement ran.                *)
GrantedAtOneInstant ==
    \A r \in Request : At(r, "granted") \/ At(r, "rotate_tx") => req[r].vouched

(* Once revoke_access has returned Ok(true), every row that was live when  *)
(* its flip committed is dead, also those that a racing statement changed  *)
(* under the sweep.  A row that is inserted behind the sweep's snapshot is *)
(* not among them: what the code says of those is NothingLeftToSweep, and  *)
(* it is refuted.                                                          *)
SweepReachesAll ==
    \A u \in settled : \A x \in due[u] :
        IF x \in Token THEN tokens[x].status # "active" ELSE invites[x].status # "pending"

(* No link leaves the module before its birth is on the audit trail: a     *)
(* bearer's mint or the rotation that produced it, an invitation's mint.   *)
AuditedBeforeSent ==
    \A x \in sent : \E a \in audit :
        \/ a.event = "bearer_minted" /\ a.token = x
        \/ a.event = "bearer_rotated" /\ a.token \in Token /\ tokens[a.token].rotated_to = x
        \/ a.event = "invite_minted" /\ a.invite = x

(* The trail's rows on rows hold, and go on holding: the bearer it says    *)
(* was minted, rotated or revoked, the principal it says was revoked, the  *)
(* invitation it says was redeemed or revoked; a login it says succeeded   *)
(* left a minted bearer.  Of signup_created it says only that the          *)
(* principal is there: the fallback after a lost insert writes it too, for *)
(* a principal that another call created.  And of a closed policy it says  *)
(* nothing: the switch may have been on, and only its reading failed.      *)
AuditTruthful ==
    \A a \in audit :
        /\ a.event = "bearer_minted" =>
            tokens[a.token].status # "absent" /\ tokens[a.token].user = a.user
        /\ a.event = "bearer_rotated" => tokens[a.token].status = "rotated"
        /\ a.event = "bearer_revoked" /\ a.token # None => tokens[a.token].status = "revoked"
        /\ a.event = "bearer_revoked" /\ a.token = None =>
            users[a.user].status = "revoked"
        /\ a.event = "invite_redeemed" =>
            invites[a.invite].status = "redeemed" /\ invites[a.invite].redeemed_by = a.user
        /\ a.event = "invite_revoked" /\ a.invite # None => invites[a.invite].status = "revoked"
        /\ a.event = "login_succeeded" =>
            \E b \in audit : b.event = "bearer_minted" /\ b.user = a.user
        /\ a.event = "signup_created" => users[a.user].status # "absent"

(* Death is for good: a spent or revoked credential row, a decided         *)
(* invitation and a revoked principal never change status again.           *)
DeadForever ==
    [][/\ \A t \in Token : tokens[t].status \in {"rotated", "revoked"} => tokens'[t] = tokens[t]
       /\ \A i \in Invite : invites[i].status \in {"redeemed", "revoked", "expired"} =>
            invites'[i] = invites[i]
       /\ \A u \in User : users[u].status = "revoked" => users'[u].status = "revoked"]_vars

-----------------------------------------------------------------------------
(* What the comments and the schema say and the code does not do.  Each of *)
(* these is refuted by a run of its own.                                   *)

(* "The bearer/invite sweeps below would find nothing live anyway": with   *)
(* no revocation of them in flight, a revoked principal has no active      *)
(* bearer row.  A revocation that stopped after its flip is not resumed by *)
(* a retry, and a login or rotation under way mints behind the sweep.      *)
NothingLeftToSweep ==
    \A u \in User :
        /\ Live(u) /\ users[u].status = "revoked"
        /\ \A r \in Request : ~(req[r].verb = "revoke_access" /\ req[r].user = u)
        => ActiveTokens(u) = {}

(* "re-access = a NEW invitation": a redemption of a pending invitation is *)
(* turned away only if an active principal holds the email.  The revoked   *)
(* principal's own row holds it too.                                       *)
ReaccessByInvitation ==
    [][\A r \in Request :
         At(r, "redeem_tx") /\ Pending(req[r].invite) /\ req'[r] = Idle /\ faults' = faults =>
            \E u \in LiveByEmail(invites[req[r].invite].email) : users[u].status = "active"]_vars

(* 'An existing principal "signing up" is just a login': who signs up with *)
(* an address that a principal holds is that principal only while it is    *)
(* active.  The fallback after a lost insert takes the holder of the email *)
(* whatever its status, and mints for a revoked one.                       *)
SecondSignupIsLogin ==
    [][\A r \in Request : \A u \in User :
         /\ req[r].verb = "signup" /\ req[r].user = None /\ req'[r].user = u
         /\ Live(u)
         => users[u].status = "active"]_vars

-----------------------------------------------------------------------------
(* The promise to the host, kept by these verbs: each step above is one    *)
(* step of PortalPromise, or none.  A revoked principal is barred even     *)
(* when archived; a question is vouched for when the first SELECT found    *)
(* everything good, and granted when the second has agreed.                *)

StandingOf(u) ==
    IF users[u].status = "absent" THEN "none"
    ELSE IF users[u].status = "revoked" THEN "barred"
    ELSE IF users[u].deleted THEN "away" ELSE "member"

LifeOf(t) ==
    IF tokens[t].status = "absent" THEN "unborn"
    ELSE IF ~Active(t) THEN "spent"
    ELSE IF t \in late THEN "lapsed" ELSE "live"

ClaimOf(r) ==
    LET stage == CASE At(r, "verify_read") -> "asked"
                   [] At(r, "verify_user") -> IF req[r].vouched THEN "vouched" ELSE "asked"
                   [] req[r].pc \in {"rotate_tx", "granted"} -> "granted"
                   [] OTHER -> "none" IN
    [stage |-> stage, token |-> IF stage = "none" THEN None ELSE req[r].token]

Promise == INSTANCE PortalPromise WITH
    standing <- [u \in User |-> StandingOf(u)],
    credential <- [t \in Token |-> [life |-> LifeOf(t), owner |-> tokens[t].user]],
    claim <- [r \in Request |-> ClaimOf(r)]

(* The refinement: database steps, races and stops of calls never show the *)
(* host anything that the promise does not allow.                          *)
KeepsPromise == Promise!Spec
=============================================================================
