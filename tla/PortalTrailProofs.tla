-------------------------- MODULE PortalTrailProofs --------------------------
(***************************************************************************)
(* The audit trail of PortalAccess, for every instance: what it says was   *)
(* so and stays so, a redemption is recorded once, and a link leaves only  *)
(* after the row that tells of it.                                         *)
(***************************************************************************)
EXTENDS PortalBearerProofs

(* What a row claims about the tables.                                     *)
RowTrue(a) ==
    /\ a.event = "bearer_minted" =>
         /\ a.token \in Token
         /\ tokens[a.token].status # "absent" /\ tokens[a.token].user = a.user
    /\ a.event = "bearer_rotated" => a.token \in Token /\ tokens[a.token].status = "rotated"
    /\ a.event = "bearer_revoked" /\ a.token # None => tokens[a.token].status = "revoked"
    /\ a.event = "bearer_revoked" /\ a.token = None =>
         a.user \in User /\ users[a.user].status = "revoked"
    /\ a.event = "invite_redeemed" =>
         /\ a.invite \in Invite /\ a.token = None
         /\ invites[a.invite].status = "redeemed" /\ invites[a.invite].redeemed_by = a.user
    /\ a.event = "invite_revoked" /\ a.invite # None => invites[a.invite].status = "revoked"
    /\ a.event = "signup_created" => a.user \in User /\ users[a.user].status # "absent"

(* Rows that claim nothing of that kind.                                   *)
Silent == Event \ {"bearer_minted", "bearer_rotated", "bearer_revoked",
                   "invite_redeemed", "invite_revoked", "invite_minted",
                   "signup_created", "login_succeeded"}

(* A row that tells of the link x.                                         *)
Announces(a, x) ==
    \/ a.event = "bearer_minted" /\ a.token = x
    \/ a.event = "bearer_rotated" /\ a.token \in Token /\ tokens[a.token].rotated_to = x
    \/ a.event = "invite_minted" /\ a.invite = x

-----------------------------------------------------------------------------
(* The calls.  Only a revocation revokes every bearer of a principal, and  *)
(* only after its flip; a call hands out links that are already out, or    *)
(* that its row tells of.                                                  *)

Revoker(s) ==
    /\ s.verb = "revoke_access" =>
         /\ s.user \in User /\ users[s.user].status = "revoked"
         /\ s.pc \in {"bearers_read", "bearers_write", "invites_read", "invites_write", "audit"}
         /\ s.pc = "audit" => s.then = "invites_read"
    /\ s.pc \in {"bearers_read", "bearers_write"} => s.verb = "revoke_access"

Handing(s) == \/ s.pc \in {"deliver", "login_audit"}
              \/ s.pc = "audit" /\ s.then \in {"deliver", "login_audit"}

(* An invitation that a call names without having minted it.               *)
Carries(s) == s.invite \in sent \cup {None} \/ Handing(s)

Hands(s) ==
    \A x \in {s.token, s.invite} \ {None} :
        /\ s.pc \in {"deliver", "login_audit"} => x \in sent \/ \E a \in audit : Announces(a, x)
        /\ s.pc = "audit" /\ s.then \in {"deliver", "login_audit"} =>
             x \in sent \/ Announces(s.row, x)

Tells(s) ==
    /\ s.pc = "audit" => RowTrue(s.row)
    /\ Revoker(s) /\ Carries(s) /\ Hands(s)

TrailInv ==
    /\ \A a \in audit : RowTrue(a)
    /\ \A r \in Request : Tells(req[r])

-----------------------------------------------------------------------------
(* What a row claims stays so.                                             *)

LEMMA EmailStays ==
    ASSUME TypeOK, [Next]_vars, NEW u \in User, users[u].status # "absent"
    PROVE  users'[u].status # "absent" /\ users'[u].email = users[u].email
<1>1. CASE UNCHANGED users
  BY <1>1
<1>2. ASSUME NEW r \in Request, RedeemTx(r) \/ SignupInsert(r) PROVE users'[u] = users[u]
  BY <1>2 DEF RedeemTx, SignupInsert, FreshUser, TypeOK
<1>3. ASSUME NEW r \in Request, RevokeAccess(r) PROVE users'[u].email = users[u].email
  BY <1>3 DEF RevokeAccess, RevokeFlip, TypeOK, UserRow
<1>4. CASE SoftDelete \/ Restore
  <2>1. users'[u].email = users[u].email
    BY <1>4 DEF SoftDelete, Restore, TypeOK, UserRow
  <2>. QED
    BY <2>1, UserLife
<1>. QED
  BY <1>1, <1>2, <1>3, <1>4, UserLife, UserSteps

LEMMA RowStays ==
    ASSUME TypeInv, [Next]_vars, NEW a \in AuditRow, RowTrue(a)
    PROVE  RowTrue(a)'
<1>1. a.token \in Token \cup {None} /\ a.user \in User \cup {None}
      /\ a.invite \in Invite \cup {None}
  BY DEF AuditRow
<1>2. CASE a.event = "bearer_minted"
  <2>1. tokens'[a.token].status # "absent" /\ tokens'[a.token].user = a.user
    BY <1>2, TokenLife DEF RowTrue, TypeInv
  <2>. QED
    BY <1>2, <2>1 DEF RowTrue
<1>3. CASE a.event = "bearer_rotated"
  <2>1. tokens'[a.token].status = "rotated"
    BY <1>3, TokenLife DEF RowTrue, TypeInv
  <2>. QED
    BY <1>3, <2>1 DEF RowTrue
<1>4. CASE a.event = "bearer_revoked"
  <2>1. a.token # None => tokens'[a.token].status = "revoked"
    BY <1>1, <1>4, TokenLife DEF RowTrue, TypeInv
  <2>2. a.token = None => users'[a.user].status = "revoked"
    BY <1>4, UserLife DEF RowTrue, TypeInv
  <2>. QED
    BY <1>4, <2>1, <2>2 DEF RowTrue
<1>5. CASE a.event \in {"invite_redeemed", "invite_revoked"}
  <2>1. a.event = "invite_redeemed" \/ a.invite # None => invites'[a.invite] = invites[a.invite]
    BY <1>1, <1>5, InviteLife DEF RowTrue
  <2>. QED
    BY <1>5, <2>1 DEF RowTrue
<1>6. CASE a.event = "signup_created"
  <2>1. users'[a.user].status # "absent"
    BY <1>6, EmailStays DEF RowTrue, TypeInv
  <2>. QED
    BY <1>6, <2>1 DEF RowTrue
<1>7. CASE a.event \notin {"bearer_minted", "bearer_rotated", "bearer_revoked",
                          "invite_redeemed", "invite_revoked", "signup_created"}
  BY <1>7 DEF RowTrue
<1>. QED
  BY <1>2, <1>3, <1>4, <1>5, <1>6, <1>7

LEMMA AnnouncesStays ==
    ASSUME TypeInv, [Next]_vars, NEW a \in AuditRow, RowTrue(a), NEW x, Announces(a, x)
    PROVE  Announces(a, x)'
<1>1. a.event = "bearer_rotated" => tokens'[a.token] = tokens[a.token]
  BY TokenLife DEF RowTrue, TypeInv
<1>. QED
  BY <1>1 DEF Announces

(* What is already out stays out.                                          *)
LEMMA SentGrows ==
    ASSUME TypeInv, [Next]_vars PROVE sent \subseteq sent'
<1>1. CASE sent' = sent
  BY <1>1
<1>2. CASE sent' # sent
  BY <1>2, SentStep DEF Deliver
<1>. QED
  BY <1>1, <1>2

-----------------------------------------------------------------------------
(* The steps that leave nothing to tell of.                                *)

Plain(s, before) ==
    /\ s.verb = "revoke_access" =>
         s.pc = "invites_write" /\ s.user = before.user /\ before.verb = "revoke_access"
    /\ s.pc \notin {"bearers_read", "bearers_write", "deliver", "login_audit"}
    /\ s.pc = "audit" => s.row.event \in Silent /\ s.then \in {"idle", "mint"}
    /\ s.invite \in sent \cup {None}

Telling(r) ==
    \/ RevokeAccess(r) \/ BearersRead(r) \/ BearersWrite(r) \/ InvitesWrite(r)
    \/ WriteAudit(r) \/ LoginAudit(r) \/ MintBearer(r) \/ RotateTx(r) \/ RevokeBearer(r)
    \/ MintInvite(r) \/ RevokeInvite(r) \/ RedeemTx(r)
    \/ SignupInsert(r) \/ SignupFallback(r)

(* Where a call is neither revoking nor handing out a link.                *)
Aside == {"redeem_read", "redeem_tx", "login_read", "login_port", "signup_policy",
          "signup_read", "signup_port", "signup_insert", "signup_fallback", "verify_read",
          "verify_user", "rotate_tx", "granted", "expire_write", "mint"}

LEMMA AsideCalls ==
    ASSUME TypeInv, TrailInv, NEW r \in Request, req[r].pc \in Aside
    PROVE  req[r].verb # "revoke_access" /\ req[r].invite \in sent \cup {None}
  BY DEF Aside, TrailInv, Tells, Revoker, Carries, Handing

LEMMA PlainSteps ==
    ASSUME TypeInv, TrailInv, NEW r \in Request, Step(r), ~Telling(r)
    PROVE  Plain(req'[r], req[r])
<1> DEFINE Fine(s) == Plain(s, req[r])
<1>1. req \in [Request -> RequestState] /\ req[r] \in RequestState
  BY DEF TypeInv, TypeOK
<1>2. ASSUME NEW s, Becomes(r, s) PROVE req'[r] = s
  BY <1>1, <1>2 DEF Becomes
<1>3. Fine(Idle)
  BY NoneAssumption DEF Plain, Idle, AllVerbs
<1>4. Return(r) => Fine(req'[r])
  BY <1>2, <1>3 DEF Return
<1>5. ASSUME NEW pc \in PC \ {"bearers_read", "bearers_write", "deliver", "login_audit", "audit"},
             Goto(r, pc), req[r].pc \in Aside
      PROVE  Fine(req'[r])
  <2>1. req'[r] = [req[r] EXCEPT !.pc = pc]
    BY <1>1, <1>5 DEF Goto
  <2>. QED
    BY <1>1, <1>5, <2>1, AsideCalls DEF Plain, RequestState
<1>6. ASSUME NEW event \in Silent, NEW u, req[r].pc \in Aside,
             Becomes(r, ThenAudit(req[r], Row(event, u, None, None), "idle"))
      PROVE  Fine(req'[r])
  <2> DEFINE row == Row(event, u, None, None)
  <2>1. req'[r] = ThenAudit(req[r], row, "idle")
    BY <1>2, <1>6
  <2>2. /\ req'[r].verb = req[r].verb /\ req'[r].invite = req[r].invite
        /\ req'[r].pc = "audit" /\ req'[r].row = row /\ req'[r].then = "idle"
    BY <1>1, <2>1 DEF ThenAudit, RequestState
  <2>3. row.event = event
    BY DEF Row
  <2>. QED
    BY <1>6, <2>2, <2>3, AsideCalls DEF Plain
<1>7. {"login_refused", "credential_port_not_composed",
       "signup_refused_policy_closed", "policy_changed"} \subseteq Silent
  BY DEF Silent, Event
<1>8. CASE BeginRevokePending(r) \/ SweepExpiredRead(r) \/ BeginLogin(r) \/ BeginSignup(r)
  <2>1. ASSUME NEW s, Becomes(r, s), s.verb # "revoke_access", s.invite = None,
               s.pc \in {"invites_read", "expire_write", "login_read", "signup_policy"}
        PROVE  Fine(req'[r])
    BY <1>2, <2>1 DEF Plain
  <2>. QED
    BY <1>8, <2>1 DEF BeginRevokePending, SweepExpiredRead, BeginLogin, BeginSignup, Idle
<1>9. CASE BeginRedeem(r) \/ BeginVerify(r)
  <2>1. ASSUME NEW s, Becomes(r, s), s.verb # "revoke_access", s.invite \in sent \cup {None},
               s.pc \in {"redeem_read", "verify_read"}
        PROVE  Fine(req'[r])
    BY <1>2, <2>1 DEF Plain
  <2>. QED
    BY <1>9, <2>1 DEF BeginRedeem, BeginVerify, Idle
<1>10. CASE SetSignupPolicy(r)
  <2>1. req'[r] = ThenAudit([Idle EXCEPT !.verb = "set_signup_policy"],
                            Row("policy_changed", None, None, None), "idle")
    BY <1>1, <1>10 DEF SetSignupPolicy
  <2>. QED
    BY <1>7, <2>1 DEF Plain, ThenAudit, Row, Idle
<1>11. CASE Deliver(r) \/ EndGranted(r) \/ SweepExpiredWrite(r) \/ Fail(r)
  BY <1>4, <1>11 DEF Deliver, EndGranted, SweepExpiredWrite, Fail
<1>12. CASE InvitesRead(r)
  <2>1. PICK S : req'[r] = [req[r] EXCEPT !.pc = "invites_write", !.seen = S]
    BY <1>2, <1>12 DEF InvitesRead
  <2>2. req[r].invite \in sent \cup {None}
    BY <1>12 DEF InvitesRead, At, TrailInv, Tells, Carries, Handing
  <2>. QED
    BY <1>1, <2>1, <2>2 DEF Plain, RequestState
<1>13. CASE RedeemRead(r) \/ VerifyRead(r)
  <2>1. ASSUME ~Return(r)
        PROVE  \E pc \in {"redeem_tx", "verify_user"} : \E u, v :
                  req'[r] = [req[r] EXCEPT !.pc = pc, !.user = u, !.vouched = v]
    <3>1. CASE RedeemRead(r)
      <4>1. req'[r] = [req[r] EXCEPT !.pc = "redeem_tx", !.vouched = TRUE]
        BY <1>2, <2>1, <3>1 DEF RedeemRead
      <4>2. req'[r] = [req[r] EXCEPT !.pc = "redeem_tx", !.user = req[r].user, !.vouched = TRUE]
        BY <1>1, <4>1 DEF RequestState
      <4>. QED
        BY <4>2
    <3>2. CASE VerifyRead(r)
      BY <1>2, <2>1, <3>2 DEF VerifyRead
    <3>. QED
      BY <1>13, <3>1, <3>2
  <2>2. req[r].pc \in Aside
    BY <1>13 DEF RedeemRead, VerifyRead, At, Aside
  <2>3. ASSUME NEW pc \in {"redeem_tx", "verify_user"}, NEW u, NEW v,
               req'[r] = [req[r] EXCEPT !.pc = pc, !.user = u, !.vouched = v]
        PROVE  Fine(req'[r])
    BY <1>1, <2>2, <2>3, AsideCalls DEF Plain, RequestState
  <2>. QED
    BY <1>4, <2>1, <2>3
<1>14. CASE VerifyUser(r) \/ LoginPort(r) \/ SignupPort(r)
  <2>1. req[r].pc \in Aside
    BY <1>14 DEF VerifyUser, LoginPort, SignupPort, At, Aside
  <2>2. {"rotate_tx", "granted", "mint", "signup_insert"}
          \subseteq PC \ {"bearers_read", "bearers_write", "deliver", "login_audit", "audit"}
    BY DEF PC
  <2>3. CASE VerifyUser(r)
    BY <1>4, <1>5, <2>1, <2>2, <2>3 DEF VerifyUser
  <2>4. CASE LoginPort(r)
    BY <1>5, <1>6, <1>7, <2>1, <2>2, <2>4 DEF LoginPort
  <2>5. CASE SignupPort(r)
    BY <1>4, <1>5, <1>6, <1>7, <2>1, <2>2, <2>5 DEF SignupPort
  <2>. QED
    BY <1>14, <2>3, <2>4, <2>5
<1>15. CASE LoginRead(r)
  <2>1. req[r].pc \in Aside
    BY <1>15 DEF LoginRead, At, Aside
  <2>2. ASSUME NEW u, Becomes(r, [req[r] EXCEPT !.pc = "login_port", !.user = u])
        PROVE  Fine(req'[r])
    BY <1>1, <1>2, <2>1, <2>2, AsideCalls DEF Plain, RequestState
  <2>3. ASSUME NEW u \in LiveByEmail(req[r].email),
               Becomes(r, IF users[u].status = "active"
                   THEN [req[r] EXCEPT !.pc = "login_port", !.user = u]
                   ELSE ThenAudit(req[r], Row("login_refused", u, None, None), "idle"))
        PROVE  Fine(req'[r])
    BY <1>6, <1>7, <2>1, <2>2, <2>3
  <2>. QED
    BY <1>6, <1>7, <1>15, <2>1, <2>3 DEF LoginRead
<1>16. CASE SignupPolicy(r)
  <2>1. req[r].pc \in Aside
    BY <1>16 DEF SignupPolicy, At, Aside
  <2>2. Becomes(r, [req[r] EXCEPT !.pc = "signup_read"]) => Fine(req'[r])
    BY <1>1, <1>2, <2>1, AsideCalls DEF Plain, RequestState
  <2>. QED
    BY <1>6, <1>7, <1>16, <2>1, <2>2 DEF SignupPolicy
<1>17. CASE SignupRead(r)
  <2>1. req[r].pc \in Aside
    BY <1>17 DEF SignupRead, At, Aside
  <2>2. Becomes(r, [req[r] EXCEPT !.verb = "login", !.pc = "login_read"]) => Fine(req'[r])
    BY <1>1, <1>2, <2>1, AsideCalls DEF Plain, RequestState
  <2>3. Goto(r, "signup_port") => Fine(req'[r])
    BY <1>5, <2>1 DEF PC
  <2>4. Becomes(r, Idle) => Fine(req'[r])
    BY <1>2, <1>3
  <2>. QED
    BY <1>17, <2>2, <2>3, <2>4 DEF SignupRead
<1>. QED
  BY <1>8, <1>9, <1>10, <1>11, <1>12, <1>13, <1>14, <1>15, <1>16, <1>17
     DEF Step, Start, Continue, Telling

-----------------------------------------------------------------------------
(* What a call may tell after each kind of step.                           *)

LEMMA PlainTells ==
    ASSUME TypeInv, TrailInv, [Next]_vars, NEW r \in Request, NEW s, Plain(s, req[r])
    PROVE  Tells(s)'
<1>1. s.pc = "audit" => RowTrue(s.row)'
  BY DEF Plain, RowTrue, Silent
<1>2. Revoker(s)'
  BY UserLife DEF Plain, Revoker, TrailInv, Tells, TypeInv
<1>3. Carries(s)' /\ Hands(s)'
  BY SentGrows DEF Plain, Carries, Hands
<1>. QED
  BY <1>1, <1>2, <1>3 DEF Tells

LEMMA KeptTells ==
    ASSUME TypeInv, TrailInv, [Next]_vars, NEW q \in Request, NEW s,
           s.verb = req[q].verb, s.pc = req[q].pc, s.user = req[q].user,
           s.token = req[q].token, s.invite = req[q].invite,
           s.row = req[q].row, s.then = req[q].then
    PROVE  Tells(s)'
<1>1. Tells(req[q])
  BY DEF TrailInv
<1>2. s.pc = "audit" => s.row \in AuditRow /\ RowTrue(s.row)
  BY <1>1 DEF Tells, TypeInv, CallsSound, Sound
<1>3. s.pc = "audit" => RowTrue(s.row)'
  BY <1>2, RowStays
<1>4. Revoker(s)'
  BY <1>1, UserLife DEF Tells, Revoker, TypeInv
<1>5. Carries(s)'
  BY <1>1, SentGrows DEF Tells, Carries, Handing
<1>6. ASSUME NEW x \in {s.token, s.invite} \ {None}
      PROVE  /\ s.pc \in {"deliver", "login_audit"} =>
                  x \in sent' \/ \E a \in audit' : Announces(a, x)'
             /\ s.pc = "audit" /\ s.then \in {"deliver", "login_audit"} =>
                  x \in sent' \/ Announces(s.row, x)'
  <2>1. ASSUME NEW a \in audit, Announces(a, x) PROVE a \in audit' /\ Announces(a, x)'
    BY <2>1, AuditGrows, AnnouncesStays DEF TrailInv, TypeInv, TypeOK
  <2>2. s.pc = "audit" /\ Announces(s.row, x) => Announces(s.row, x)'
    BY <1>2, AnnouncesStays
  <2>. QED
    BY <1>1, <1>6, <2>1, <2>2, SentGrows DEF Tells, Hands
<1>7. Hands(s)'
  BY <1>6 DEF Hands
<1>. QED
  BY <1>3, <1>4, <1>5, <1>7 DEF Tells

(* A call that goes on to write a row, and hands out no link after it.     *)
LEMMA RowTells ==
    ASSUME NEW s, s.pc = "audit", RowTrue(s.row)', s.then \notin {"deliver", "login_audit"},
           s.invite \in sent' \cup {None}, s.verb # "revoke_access"
    PROVE  Tells(s)'
  BY DEF Tells, Revoker, Carries, Hands

LEMMA IdleTells == Tells(Idle)'
  BY NoneAssumption DEF Tells, Idle, Revoker, Carries, Hands, AllVerbs

LEMMA RevocationTells ==
    ASSUME TypeInv, TrailInv, [Next]_vars, NEW r \in Request,
           RevokeAccess(r) \/ BearersRead(r) \/ BearersWrite(r) \/ InvitesWrite(r)
    PROVE  Tells(req[r])'
<1>1. req \in [Request -> RequestState] /\ req[r] \in RequestState /\ Tells(req[r])
  BY DEF TypeInv, TypeOK, TrailInv
<1>2. ASSUME NEW s, Becomes(r, s) PROVE req'[r] = s
  BY <1>1, <1>2 DEF Becomes
<1>3. CASE RevokeAccess(r)
  <2>1. PICK u \in User :
          /\ users' = [users EXCEPT ![u].status = "revoked"]
          /\ Becomes(r, [Idle EXCEPT !.verb = "revoke_access", !.pc = "bearers_read",
                                     !.user = u, !.email = users[u].email])
    BY <1>3 DEF RevokeAccess, RevokeFlip
  <2>2. users'[u].status = "revoked"
    BY <2>1 DEF TypeInv, TypeOK, UserRow
  <2>3. PICK s : /\ s = req'[r] /\ s.verb = "revoke_access" /\ s.pc = "bearers_read"
                 /\ s.user = u /\ s.invite = None /\ s.token = None
    <3>1. req'[r] = [Idle EXCEPT !.verb = "revoke_access", !.pc = "bearers_read",
                                 !.user = u, !.email = users[u].email]
      BY <1>2, <2>1
    <3>. QED
      BY <3>1 DEF Idle
  <2>4. Tells(s)'
    BY <2>2, <2>3 DEF Tells, Revoker, Carries, Hands
  <2>. QED
    BY <2>3, <2>4
<1>4. ASSUME req[r].pc \in {"bearers_read", "bearers_write"}
      PROVE  /\ req[r].verb = "revoke_access" /\ req[r].user \in User
             /\ users[req[r].user].status = "revoked" /\ users'[req[r].user].status = "revoked"
             /\ req[r].invite \in sent' \cup {None}
  BY <1>1, <1>4, UserLife, SentGrows DEF Tells, Revoker, Carries, Handing, TypeInv
<1>5. CASE BearersRead(r)
  <2>1. PICK S : req'[r] = [req[r] EXCEPT !.pc = "bearers_write", !.seen = S]
    BY <1>2, <1>5 DEF BearersRead
  <2>2. PICK s : /\ s = req'[r] /\ s.pc = "bearers_write" /\ s.verb = req[r].verb
                 /\ s.user = req[r].user /\ s.invite = req[r].invite
    BY <1>1, <2>1 DEF RequestState
  <2>3. req[r].pc = "bearers_read"
    BY <1>5 DEF BearersRead, At
  <2>4. Tells(s)'
    BY <1>4, <2>2, <2>3 DEF Tells, Revoker, Carries, Hands
  <2>. QED
    BY <2>2, <2>4
<1>6. CASE BearersWrite(r)
  <2> DEFINE row == Row("bearer_revoked", req[r].user, None, None)
  <2>1. \/ req'[r] = [[req[r] EXCEPT !.seen = {}] EXCEPT !.pc = "invites_read"]
        \/ req'[r] = ThenAudit([req[r] EXCEPT !.seen = {}], row, "invites_read")
    BY <1>1, <1>2, <1>6 DEF BearersWrite, RequestState
  <2>2. PICK s : /\ s = req'[r] /\ s.verb = req[r].verb
                 /\ s.user = req[r].user /\ s.invite = req[r].invite
                 /\ \/ s.pc = "invites_read"
                    \/ s.pc = "audit" /\ s.row = row /\ s.then = "invites_read"
    BY <1>1, <2>1 DEF ThenAudit, RequestState
  <2>3. req[r].pc = "bearers_write"
    BY <1>6 DEF BearersWrite, At
  <2>4. s.pc = "audit" => RowTrue(s.row)'
    BY <1>4, <2>2, <2>3 DEF RowTrue, Row
  <2>5. Tells(s)'
    BY <1>4, <2>2, <2>3, <2>4 DEF Tells, Revoker, Carries, Hands
  <2>. QED
    BY <2>2, <2>5
<1>7. CASE InvitesWrite(r)
  <2> DEFINE row == Row("invite_revoked", None, None, None)
  <2>1. \/ req'[r] = Idle
        \/ /\ req[r].verb = "revoke_pending_for_email"
           /\ req'[r] = ThenAudit([req[r] EXCEPT !.seen = {}], row, "idle")
    BY <1>2, <1>7 DEF InvitesWrite, Return
  <2>2. CASE req'[r] = Idle
    BY <2>2, IdleTells
  <2>3. CASE req'[r] # Idle
    <3>1. PICK s : /\ s = req'[r] /\ s.verb = "revoke_pending_for_email" /\ s.pc = "audit"
                   /\ s.row = row /\ s.then = "idle" /\ s.invite = req[r].invite
      BY <1>1, <2>1, <2>3 DEF ThenAudit, RequestState
    <3>2. req[r].invite \in sent' \cup {None}
      BY <1>1, <1>7, SentGrows DEF InvitesWrite, At, Tells, Carries, Handing
    <3>3. RowTrue(s.row)'
      BY <3>1 DEF RowTrue, Row
    <3>4. Tells(s)'
      BY <3>1, <3>2, <3>3, RowTells
    <3>. QED
      BY <3>1, <3>4
  <2>. QED
    BY <2>2, <2>3
<1>. QED
  BY <1>3, <1>5, <1>6, <1>7

(* The row is written and the call goes on: what its row told of is now on *)
(* the trail.                                                              *)
LEMMA WriteTells ==
    ASSUME TypeInv, TrailInv, [Next]_vars, NEW r \in Request, WriteAudit(r)
    PROVE  Tells(req[r])' /\ audit' = audit \cup {req[r].row} /\ RowTrue(req[r].row)
<1>1. req[r] \in RequestState /\ Tells(req[r]) /\ req[r].pc = "audit" /\ req[r].row \in AuditRow
  BY DEF TypeInv, TypeOK, TrailInv, WriteAudit, At, CallsSound, Sound
<1>2. audit' = audit \cup {req[r].row} /\ RowTrue(req[r].row)
  BY <1>1 DEF WriteAudit, Tells
<1>3. CASE req[r].then = "idle"
  <2>1. req'[r] = Idle
    BY <1>3 DEF WriteAudit, Becomes, TypeInv, TypeOK
  <2>. QED
    BY <1>2, <2>1, IdleTells
<1>4. CASE req[r].then # "idle"
  <2>1. req'[r] = [req[r] EXCEPT !.pc = req[r].then, !.row = None, !.then = "idle"]
    BY <1>4 DEF WriteAudit, Becomes, TypeInv, TypeOK
  <2>2. PICK s : /\ s = req'[r] /\ s.verb = req[r].verb /\ s.user = req[r].user
                 /\ s.token = req[r].token /\ s.invite = req[r].invite
                 /\ s.pc = req[r].then /\ s.then = "idle"
    BY <1>1, <2>1 DEF RequestState
  <2>3. s.pc \in {"mint", "deliver", "login_audit", "invites_read"}
    BY <1>1, <1>4, <2>2 DEF RequestState, After
  <2>4. Revoker(s)'
    BY <1>1, <2>2, <2>3, UserLife DEF Tells, Revoker, TypeInv
  <2>5. Carries(s)'
    BY <1>1, <2>2, <2>3, SentGrows DEF Tells, Carries, Handing
  <2>6. ASSUME NEW x \in {s.token, s.invite} \ {None}, s.pc \in {"deliver", "login_audit"}
        PROVE  x \in sent' \/ \E a \in audit' : Announces(a, x)'
    <3>1. x \in sent \/ Announces(req[r].row, x)
      BY <1>1, <2>2, <2>6 DEF Tells, Hands
    <3>2. PICK a : a = req[r].row /\ a \in AuditRow /\ a \in audit' /\ RowTrue(a)
      BY <1>1, <1>2
    <3>3. Announces(a, x) => Announces(a, x)'
      BY <3>2, AnnouncesStays
    <3>. QED
      BY <3>1, <3>2, <3>3, SentGrows
  <2>7. Hands(s)'
    BY <2>3, <2>6 DEF Hands
  <2>8. Tells(s)'
    BY <2>3, <2>4, <2>5, <2>7 DEF Tells
  <2>. QED
    BY <1>2, <2>2, <2>8
<1>. QED
  BY <1>3, <1>4

LEMMA LoginAuditTells ==
    ASSUME TypeInv, TrailInv, [Next]_vars, NEW r \in Request, LoginAudit(r)
    PROVE  Tells(req[r])'
<1>1. req[r] \in RequestState /\ Tells(req[r]) /\ req[r].pc = "login_audit"
  BY DEF TypeInv, TypeOK, TrailInv, LoginAudit, At
<1>2. req'[r] = [req[r] EXCEPT !.pc = "deliver"]
  BY DEF LoginAudit, Goto, TypeInv, TypeOK
<1>3. PICK s : /\ s = req'[r] /\ s.verb = req[r].verb /\ s.pc = "deliver"
               /\ s.token = req[r].token /\ s.invite = req[r].invite
  BY <1>1, <1>2 DEF RequestState
<1>4. Revoker(s)' /\ Carries(s)'
  BY <1>1, <1>3 DEF Tells, Revoker, Carries, Handing
<1>5. ASSUME NEW x \in {s.token, s.invite} \ {None}
      PROVE  x \in sent' \/ \E a \in audit' : Announces(a, x)'
  <2>1. ASSUME NEW a \in audit, Announces(a, x) PROVE a \in audit' /\ Announces(a, x)'
    BY <2>1, AuditGrows, AnnouncesStays DEF TrailInv, TypeInv, TypeOK
  <2>. QED
    BY <1>1, <1>3, <2>1, SentGrows DEF Tells, Hands
<1>6. Tells(s)'
  BY <1>3, <1>4, <1>5 DEF Tells, Hands
<1>. QED
  BY <1>3, <1>6

(* A call that goes on to write the row of a link, and then hands it out.  *)
LEMMA LinkTells ==
    ASSUME NEW s, s.pc = "audit", RowTrue(s.row)', s.verb # "revoke_access",
           s.then \in {"deliver", "login_audit"},
           \A x \in {s.token, s.invite} \ {None} : x \in sent' \/ Announces(s.row, x)'
    PROVE  Tells(s)'
  BY DEF Tells, Revoker, Carries, Handing, Hands

LEMMA MintTells ==
    ASSUME TypeInv, TrailInv, [Next]_vars, NEW r \in Request, MintBearer(r) \/ RotateTx(r)
    PROVE  Tells(req[r])'
<1>1. req \in [Request -> RequestState] /\ req[r] \in RequestState
      /\ tokens \in [Token -> TokenRow]
  BY DEF TypeInv, TypeOK
<1>2. req[r].verb # "revoke_access" /\ req[r].invite \in sent' \cup {None}
  BY AsideCalls, SentGrows DEF MintBearer, RotateTx, At, Aside
<1>3. CASE MintBearer(r)
  <2> DEFINE row(t) == Row("bearer_minted", req[r].user, None, t)
  <2>1. PICK t \in Token, then \in {"deliver", "login_audit"} :
           /\ tokens' = [tokens EXCEPT ![t] = ActiveTokenRow(req[r].user, t)]
           /\ req'[r] = ThenAudit([req[r] EXCEPT !.token = t], row(t), then)
    BY <1>1, <1>3 DEF MintBearer, Becomes
  <2>2. PICK s, user : /\ s = req'[r] /\ user = req[r].user /\ s.verb = req[r].verb
                 /\ s.pc = "audit" /\ s.token = t /\ s.invite = req[r].invite
                 /\ s.row = Row("bearer_minted", user, None, t) /\ s.then = then
    BY <1>1, <2>1 DEF ThenAudit, RequestState
  <2>3. tokens'[t].status = "active" /\ tokens'[t].user = user
    BY <1>1, <2>1, <2>2 DEF ActiveTokenRow
  <2>4. RowTrue(s.row)' /\ Announces(s.row, t)'
    BY <2>2, <2>3 DEF RowTrue, Announces, Row
  <2>5. Tells(s)'
    BY <1>2, <2>1, <2>2, <2>4, LinkTells
  <2>. QED
    BY <2>2, <2>5
<1>4. CASE RotateTx(r)
  <2>1. CASE Return(r)
    <3>1. req'[r] = Idle
      BY <1>1, <2>1 DEF Return, Becomes
    <3>. QED
      BY <3>1, IdleTells
  <2>2. CASE ~Return(r)
    <3>1. PICK old \in Token : old = req[r].token
      BY <1>4, ReqTyped DEF RotateTx, At, Owned
    <3>2. PICK new \in Token :
             /\ Active(old) /\ FreshToken(new)
             /\ tokens' = [tokens EXCEPT ![old] = Superseded(old, new),
                              ![new] = ActiveTokenRow(req[r].user, tokens[old].line)]
             /\ Becomes(r, ThenAudit([req[r] EXCEPT !.token = new],
                              Row("bearer_rotated", req[r].user, None, old), "deliver"))
      BY <1>4, <2>2, <3>1 DEF RotateTx, Rotatable
    <3>3. req'[r] = ThenAudit([req[r] EXCEPT !.token = new],
                              Row("bearer_rotated", req[r].user, None, old), "deliver")
      BY <1>1, <3>2 DEF Becomes
    <3>4. PICK s, user : /\ s = req'[r] /\ user = req[r].user /\ s.verb = req[r].verb
                   /\ s.pc = "audit" /\ s.token = new /\ s.invite = req[r].invite
                   /\ s.row = Row("bearer_rotated", user, None, old) /\ s.then = "deliver"
      BY <1>1, <3>3 DEF ThenAudit, RequestState
    <3>5. tokens'[old].status = "rotated" /\ tokens'[old].rotated_to = new
      <4>1. old # new
        BY <3>2 DEF Active, FreshToken
      <4>2. tokens'[old] = [tokens[old] EXCEPT !.status = "rotated", !.rotated_to = new]
        BY <1>1, <3>2, <4>1 DEF Superseded
      <4>. QED
        BY <1>1, <4>2 DEF TokenRow
    <3>6. RowTrue(s.row)' /\ Announces(s.row, new)'
      BY <3>4, <3>5 DEF RowTrue, Announces, Row
    <3>7. Tells(s)'
      BY <1>2, <3>4, <3>6, LinkTells
    <3>. QED
      BY <3>4, <3>7
  <2>. QED
    BY <2>1, <2>2
<1>. QED
  BY <1>3, <1>4

LEMMA RowsTell ==
    ASSUME TypeInv, TrailInv, [Next]_vars, NEW r \in Request,
           MintInvite(r) \/ RevokeInvite(r) \/ RevokeBearer(r) \/ RedeemTx(r)
    PROVE  Tells(req[r])'
<1>1. req \in [Request -> RequestState] /\ req[r] \in RequestState
      /\ tokens \in [Token -> TokenRow] /\ invites \in [Invite -> InviteRow]
  BY DEF TypeInv, TypeOK
<1>2. ASSUME NEW s, Becomes(r, s) PROVE req'[r] = s
  BY <1>1, <1>2 DEF Becomes
<1>3. CASE MintInvite(r)
  <2>1. PICK i \in Invite :
          req'[r] = ThenAudit([Idle EXCEPT !.verb = "mint_invite", !.invite = i],
                              Row("invite_minted", None, i, None), "deliver")
    BY <1>2, <1>3 DEF MintInvite
  <2>2. PICK s : /\ s = req'[r] /\ s.verb = "mint_invite" /\ s.pc = "audit"
                 /\ s.row = Row("invite_minted", None, i, None) /\ s.then = "deliver"
                 /\ s.token = None /\ s.invite = i
    BY <2>1 DEF ThenAudit, Idle
  <2>3. RowTrue(s.row)' /\ Announces(s.row, i)'
    BY <2>2 DEF RowTrue, Announces, Row
  <2>4. Tells(s)'
    BY <2>2, <2>3, LinkTells
  <2>. QED
    BY <2>2, <2>4
<1>4. CASE RevokeInvite(r)
  <2>1. PICK i \in Invite :
          /\ invites' = [invites EXCEPT ![i].status = "revoked"]
          /\ req'[r] = ThenAudit([Idle EXCEPT !.verb = "revoke_invite"],
                                 Row("invite_revoked", None, i, None), "idle")
    BY <1>2, <1>4 DEF RevokeInvite
  <2>2. PICK s : /\ s = req'[r] /\ s.verb = "revoke_invite" /\ s.pc = "audit"
                 /\ s.row = Row("invite_revoked", None, i, None) /\ s.then = "idle"
                 /\ s.invite = None
    BY <2>1 DEF ThenAudit, Idle
  <2>3. invites'[i].status = "revoked"
    BY <1>1, <2>1 DEF InviteRow
  <2>4. RowTrue(s.row)'
    BY <2>2, <2>3 DEF RowTrue, Row
  <2>5. Tells(s)'
    BY <2>2, <2>4, RowTells
  <2>. QED
    BY <2>2, <2>5
<1>5. CASE RevokeBearer(r)
  <2>1. PICK t \in Token :
          /\ tokens' = [tokens EXCEPT ![t].status = "revoked"]
          /\ req'[r] = ThenAudit([Idle EXCEPT !.verb = "revoke_bearer"],
                                 Row("bearer_revoked", tokens[t].user, None, t), "idle")
    BY <1>2, <1>5 DEF RevokeBearer
  <2>2. PICK s, u : /\ s = req'[r] /\ s.verb = "revoke_bearer" /\ s.pc = "audit"
                 /\ s.row = Row("bearer_revoked", u, None, t) /\ s.then = "idle"
                 /\ s.invite = None
    BY <2>1 DEF ThenAudit, Idle
  <2>3. tokens'[t].status = "revoked"
    BY <1>1, <2>1 DEF TokenRow
  <2>4. RowTrue(s.row)'
    BY <2>2, <2>3, NoneAssumption DEF RowTrue, Row
  <2>5. Tells(s)'
    BY <2>2, <2>4, RowTells
  <2>. QED
    BY <2>2, <2>5
<1>6. CASE RedeemTx(r)
  <2>1. CASE Return(r)
    BY <1>2, <2>1, IdleTells DEF Return
  <2>2. CASE ~Return(r)
    <3>1. PICK i \in Invite : i = req[r].invite
      BY <1>6, ReqTyped DEF RedeemTx, At, Owned
    <3>2. PICK u \in User :
            /\ invites' = [invites EXCEPT ![i].status = "redeemed", ![i].redeemed_by = u]
            /\ Becomes(r, ThenAudit([req[r] EXCEPT !.user = u],
                                    Row("invite_redeemed", u, i, None), "mint"))
      BY <1>6, <2>2, <3>1 DEF RedeemTx
    <3>3. req'[r] = ThenAudit([req[r] EXCEPT !.user = u],
                              Row("invite_redeemed", u, i, None), "mint")
      BY <1>2, <3>2
    <3>4. PICK s : /\ s = req'[r] /\ s.verb = req[r].verb /\ s.pc = "audit"
                   /\ s.row = Row("invite_redeemed", u, i, None) /\ s.then = "mint"
                   /\ s.invite = i
      BY <1>1, <3>1, <3>3 DEF ThenAudit, RequestState
    <3>5. invites'[i].status = "redeemed" /\ invites'[i].redeemed_by = u
      BY <1>1, <3>2 DEF InviteRow
    <3>6. RowTrue(s.row)'
      BY <3>4, <3>5 DEF RowTrue, Row
    <3>7. req[r].verb # "revoke_access" /\ i \in sent' \cup {None}
      BY <1>6, <3>1, AsideCalls, SentGrows DEF RedeemTx, At, Aside
    <3>8. Tells(s)'
      BY <3>4, <3>6, <3>7, RowTells
    <3>. QED
      BY <3>4, <3>8
  <2>. QED
    BY <2>1, <2>2
<1>. QED
  BY <1>3, <1>4, <1>5, <1>6

LEMMA SignupTells ==
    ASSUME TypeInv, TrailInv, [Next]_vars, NEW r \in Request,
           SignupInsert(r) \/ SignupFallback(r)
    PROVE  Tells(req[r])'
<1>1. req \in [Request -> RequestState] /\ req[r] \in RequestState
      /\ users \in [User -> UserRow]
  BY DEF TypeInv, TypeOK
<1>2. ASSUME NEW s, Becomes(r, s) PROVE req'[r] = s
  BY <1>1, <1>2 DEF Becomes
<1>3. req[r].verb # "revoke_access" /\ req[r].invite \in sent \cup {None}
  BY AsideCalls DEF SignupInsert, SignupFallback, At, Aside
<1>4. CASE Goto(r, "signup_fallback")
  <2>1. PICK s : /\ s = req'[r] /\ s.verb = req[r].verb /\ s.pc = "signup_fallback"
                 /\ s.invite = req[r].invite
    BY <1>1, <1>4 DEF Goto, RequestState
  <2>2. Plain(s, req[r])
    BY <1>3, <2>1 DEF Plain
  <2>3. Tells(s)'
    BY <2>2, PlainTells
  <2>. QED
    BY <2>1, <2>3
<1>5. CASE Return(r)
  <2>1. req'[r] = Idle
    BY <1>2, <1>5 DEF Return
  <2>. QED
    BY <2>1, IdleTells
<1>6. ASSUME NEW u \in User, users'[u].status # "absent", Becomes(r, SignupCreated(req[r], u))
      PROVE  Tells(req[r])'
  <2>1. req'[r] = ThenAudit([req[r] EXCEPT !.user = u],
                            Row("signup_created", u, None, None), "mint")
    BY <1>2, <1>6 DEF SignupCreated
  <2>2. PICK s : /\ s = req'[r] /\ s.verb = req[r].verb /\ s.pc = "audit"
                 /\ s.row = Row("signup_created", u, None, None) /\ s.then = "mint"
                 /\ s.invite = req[r].invite
    BY <1>1, <2>1 DEF ThenAudit, RequestState
  <2>3. RowTrue(s.row)'
    BY <1>6, <2>2 DEF RowTrue, Row
  <2>4. s.invite \in sent' \cup {None} /\ s.verb # "revoke_access"
    BY <1>3, <2>2, SentGrows
  <2>5. Tells(s)'
    BY <2>2, <2>3, <2>4, RowTells
  <2>. QED
    BY <2>2, <2>5
<1>7. CASE SignupInsert(r)
  <2>1. ASSUME NEW u \in User, users' = [users EXCEPT ![u] = ActiveUserRow(req[r].email)],
               Becomes(r, SignupCreated(req[r], u))
        PROVE  Tells(req[r])'
    <3>1. users'[u].status # "absent"
      BY <1>1, <2>1 DEF ActiveUserRow
    <3>. QED
      BY <1>6, <2>1, <3>1
  <2>. QED
    BY <1>4, <1>7, <2>1 DEF SignupInsert
<1>8. CASE SignupFallback(r)
  <2>1. ASSUME NEW u \in LiveByEmail(req[r].email), Becomes(r, SignupCreated(req[r], u))
        PROVE  Tells(req[r])'
    <3>1. u \in User /\ users'[u].status # "absent"
      BY <1>8 DEF LiveByEmail, Live, SignupFallback, tables
    <3>. QED
      BY <1>6, <2>1, <3>1
  <2>. QED
    BY <1>5, <1>8, <2>1 DEF SignupFallback
<1>. QED
  BY <1>7, <1>8

-----------------------------------------------------------------------------
(* The invariant.                                                          *)

LEMMA AuditSteps ==
    ASSUME [Next]_vars, audit' # audit
    PROVE  \E r \in Request : WriteAudit(r) \/ LoginAudit(r)
<1>1. ASSUME NEW r \in Request, Start(r) PROVE UNCHANGED audit
  BY <1>1 DEF Start, MintInvite, RevokeInvite, BeginRevokePending, SweepExpiredRead,
     BeginRedeem, BeginVerify, RevokeBearer, RevokeAccess, RevokeFlip, BeginLogin, BeginSignup,
     SetSignupPolicy
<1>2. ASSUME NEW r \in Request, Continue(r), ~(WriteAudit(r) \/ LoginAudit(r))
      PROVE  UNCHANGED audit
  BY <1>2 DEF Continue, Deliver, MintBearer, InvitesRead, InvitesWrite, SweepExpiredWrite,
     RedeemRead, RedeemTx, VerifyRead, VerifyUser, EndGranted, RotateTx, BearersRead,
     BearersWrite, LoginRead, LoginPort, SignupPolicy, SignupRead, SignupPort,
     SignupInsert, SignupFallback
<1>3. (\E r \in Request : Fail(r)) \/ Expire \/ SoftDelete \/ Restore \/ UNCHANGED vars
        => UNCHANGED audit
  BY DEF Fail, Expire, SoftDelete, Restore, vars
<1>. QED
  BY <1>1, <1>2, <1>3 DEF Next, Step

LEMMA TrailRows ==
    ASSUME TypeInv, TrailInv, [Next]_vars, NEW a \in audit' PROVE RowTrue(a)'
<1>1. \A b \in audit : b \in AuditRow /\ RowTrue(b)
  BY DEF TrailInv, TypeInv, TypeOK
<1>2. CASE a \in audit
  BY <1>1, <1>2, RowStays
<1>3. CASE a \notin audit
  <2>1. PICK r \in Request : WriteAudit(r) \/ LoginAudit(r)
    BY <1>3, AuditSteps
  <2>2. CASE WriteAudit(r)
    <3>1. a = req[r].row /\ RowTrue(a)
      BY <1>3, <2>2, WriteTells
    <3>2. a \in AuditRow
      BY <2>2, <3>1 DEF WriteAudit, At, TypeInv, CallsSound, Sound
    <3>. QED
      BY <3>1, <3>2, RowStays
  <2>3. CASE LoginAudit(r)
    <3>1. PICK u : a = Row("login_succeeded", u, None, None)
      BY <1>3, <2>3 DEF LoginAudit
    <3>. QED
      BY <3>1 DEF RowTrue, Row
  <2>. QED
    BY <2>1, <2>2, <2>3
<1>. QED
  BY <1>2, <1>3

LEMMA TrailCalls ==
    ASSUME TypeInv, TrailInv, [Next]_vars, NEW q \in Request PROVE Tells(req[q])'
<1>1. ASSUME SameCall(q) PROVE Tells(req[q])'
  <2>1. PICK s : /\ s = req'[q]
                 /\ s.verb = req[q].verb /\ s.pc = req[q].pc /\ s.user = req[q].user
                 /\ s.token = req[q].token /\ s.invite = req[q].invite
                 /\ s.row = req[q].row /\ s.then = req[q].then
    BY <1>1 DEF SameCall
  <2>2. Tells(s)'
    BY <2>1, KeptTells
  <2>. QED
    BY <2>1, <2>2
<1>2. ASSUME Step(q), ~Telling(q) PROVE Tells(req[q])'
  <2>1. PICK s : s = req'[q] /\ Plain(s, req[q])
    BY <1>2, PlainSteps
  <2>2. Tells(s)'
    BY <2>1, PlainTells
  <2>. QED
    BY <2>1, <2>2
<1>3. ASSUME Telling(q) PROVE Tells(req[q])'
  BY <1>3, RevocationTells, WriteTells, LoginAuditTells, MintTells, RowsTell, SignupTells
     DEF Telling
<1>4. CASE \E r \in Request : Step(r)
  BY <1>1, <1>2, <1>3, <1>4, OthersKeep
<1>5. CASE ~\E r \in Request : Step(r)
  BY <1>1, <1>5, WorldKeeps DEF Next, SameCall
<1>. QED
  BY <1>4, <1>5

LEMMA TrailInvariant == Spec => []TrailInv
<1>1. Init => TrailInv
  BY NoneAssumption DEF Init, TrailInv, Tells, Idle, Revoker, Carries, Hands, AllVerbs
<1>2. TypeInv /\ TrailInv /\ [Next]_vars => TrailInv'
  BY TrailRows, TrailCalls DEF TrailInv
<1>. QED
  BY <1>1, <1>2, TypeInvariant, PTL DEF Spec

-----------------------------------------------------------------------------
(* A login says that it succeeded once its bearer's row is on the trail.   *)

Mints(row, u) == row.event = "bearer_minted" /\ row.user = u

MintTold(u) == \E b \in audit : Mints(b, u)

LoginTold(s) ==
    /\ s.pc = "login_audit" => MintTold(s.user)
    /\ s.pc = "audit" => s.row.event # "login_succeeded"
    /\ s.pc = "audit" /\ s.then = "login_audit" => Mints(s.row, s.user)

LoginInv ==
    /\ \A a \in audit : a.event = "login_succeeded" => MintTold(a.user)
    /\ \A r \in Request : LoginTold(req[r])

(* A call that is on no way to that row. *)
Otherwise(s) ==
    /\ s.pc # "login_audit"
    /\ s.pc = "audit" => s.row.event # "login_succeeded" /\ s.then # "login_audit"

LEMMA OtherwiseSteps ==
    ASSUME TypeInv, TrailInv, NEW r \in Request, Step(r),
           ~(WriteAudit(r) \/ MintBearer(r))
    PROVE  Otherwise(req'[r])
<1>1. req \in [Request -> RequestState] /\ req[r] \in RequestState
  BY DEF TypeInv, TypeOK
<1>2. ASSUME NEW s, Becomes(r, s) PROVE req'[r] = s
  BY <1>1, <1>2 DEF Becomes
<1>3. ASSUME NEW s, NEW event \in Event \ {"login_succeeded"}, NEW u, NEW i, NEW t,
             NEW then \in {"idle", "mint", "deliver", "invites_read"},
             s \in RequestState, Becomes(r, ThenAudit(s, Row(event, u, i, t), then))
      PROVE  Otherwise(req'[r])
  <2>1. req'[r] = ThenAudit(s, Row(event, u, i, t), then)
    BY <1>2, <1>3
  <2>2. req'[r].row = Row(event, u, i, t) /\ req'[r].then = then /\ req'[r].pc = "audit"
    BY <1>3, <2>1 DEF ThenAudit, RequestState
  <2>3. Row(event, u, i, t).event = event
    BY DEF Row
  <2>. QED
    BY <1>3, <2>2, <2>3 DEF Otherwise
<1>4. Return(r) => Otherwise(req'[r])
  BY <1>2 DEF Return, Idle, Otherwise
<1>5. ASSUME NEW pc \in PC \ {"login_audit", "audit"}, req'[r].pc = pc
      PROVE  Otherwise(req'[r])
  BY <1>5 DEF Otherwise
<1>6. CASE ~Telling(r)
  BY <1>6, PlainSteps DEF Plain, Silent, Otherwise
<1>7. Idle \in RequestState
  BY RowsTyped
<1>8. {"bearer_revoked", "bearer_rotated", "invite_minted", "invite_revoked",
       "invite_redeemed", "signup_created"} \subseteq Event \ {"login_succeeded"}
  BY DEF Event
<1>9. CASE RevokeAccess(r) \/ BearersRead(r) \/ LoginAudit(r)
  <2>1. req'[r].pc \in {"bearers_read", "bearers_write", "deliver"}
    BY <1>1, <1>2, <1>9 DEF RevokeAccess, RevokeFlip, BearersRead, LoginAudit, Goto, Idle,
       RequestState
  <2>. QED
    BY <2>1 DEF Otherwise
<1>10. CASE BearersWrite(r) \/ InvitesWrite(r)
  <2>1. [req[r] EXCEPT !.seen = {}] \in RequestState
    BY <1>1 DEF RequestState
  <2>2. CASE BearersWrite(r)
    <3>1. \/ \E u : Becomes(r, ThenAudit([req[r] EXCEPT !.seen = {}],
                           Row("bearer_revoked", u, None, None), "invites_read"))
          \/ Becomes(r, [[req[r] EXCEPT !.seen = {}] EXCEPT !.pc = "invites_read"])
      BY <1>1, <2>2 DEF BearersWrite, RequestState
    <3>2. Becomes(r, [[req[r] EXCEPT !.seen = {}] EXCEPT !.pc = "invites_read"])
             => req'[r].pc = "invites_read"
      BY <1>2, <2>1 DEF RequestState
    <3>. QED
      BY <1>3, <1>8, <2>1, <3>1, <3>2 DEF Otherwise
  <2>3. CASE InvitesWrite(r)
    <3>1. \/ Return(r) \/ Becomes(r, Idle)
          \/ Becomes(r, ThenAudit([req[r] EXCEPT !.seen = {}],
                                  Row("invite_revoked", None, None, None), "idle"))
      BY <2>3 DEF InvitesWrite
    <3>. QED
      BY <1>3, <1>4, <1>8, <2>1, <3>1 DEF Return
  <2>. QED
    BY <1>10, <2>2, <2>3
<1>11. CASE MintInvite(r) \/ RevokeInvite(r) \/ RevokeBearer(r)
  <2>1. CASE MintInvite(r)
    <3>1. PICK i \in Invite :
            Becomes(r, ThenAudit([Idle EXCEPT !.verb = "mint_invite", !.invite = i],
                                 Row("invite_minted", None, i, None), "deliver"))
      BY <2>1 DEF MintInvite
    <3>2. [Idle EXCEPT !.verb = "mint_invite", !.invite = i] \in RequestState
      BY <1>7 DEF RequestState, AllVerbs
    <3>. QED
      BY <1>3, <1>8, <3>1, <3>2
  <2>2. CASE RevokeInvite(r)
    <3>1. [Idle EXCEPT !.verb = "revoke_invite"] \in RequestState
      BY <1>7 DEF RequestState, AllVerbs
    <3>. QED
      BY <1>3, <1>8, <2>2, <3>1 DEF RevokeInvite
  <2>3. CASE RevokeBearer(r)
    <3>1. [Idle EXCEPT !.verb = "revoke_bearer"] \in RequestState
      BY <1>7 DEF RequestState, AllVerbs
    <3>. QED
      BY <1>3, <1>8, <2>3, <3>1 DEF RevokeBearer
  <2>. QED
    BY <1>11, <2>1, <2>2, <2>3
<1>12. CASE RedeemTx(r) \/ SignupInsert(r) \/ SignupFallback(r)
  <2>1. ASSUME NEW u \in User PROVE [req[r] EXCEPT !.user = u] \in RequestState
    BY <1>1, <2>1 DEF RequestState
  <2>2. CASE RedeemTx(r)
    BY <1>3, <1>4, <1>8, <2>1, <2>2 DEF RedeemTx
  <2>3. Goto(r, "signup_fallback") => Otherwise(req'[r])
    BY <1>1 DEF Goto, RequestState, Otherwise
  <2>4. CASE SignupInsert(r) \/ SignupFallback(r)
    BY <1>3, <1>4, <1>8, <2>1, <2>3, <2>4 DEF SignupInsert, SignupFallback, SignupCreated,
       LiveByEmail
  <2>. QED
    BY <1>12, <2>2, <2>4
<1>13. CASE RotateTx(r)
  <2>1. ASSUME NEW t \in Token PROVE [req[r] EXCEPT !.token = t] \in RequestState
    BY <1>1, <2>1 DEF RequestState
  <2>. QED
    BY <1>3, <1>4, <1>8, <1>13, <2>1 DEF RotateTx
<1>. QED
  BY <1>6, <1>9, <1>10, <1>11, <1>12, <1>13 DEF Telling

LEMMA LoginCalls ==
    ASSUME TypeInv, TrailInv, LoginInv, [Next]_vars, NEW q \in Request
    PROVE  LoginTold(req[q])'
<1>1. req \in [Request -> RequestState] /\ req[q] \in RequestState /\ LoginTold(req[q])
  BY DEF TypeInv, TypeOK, LoginInv
<1>2. ASSUME NEW u, MintTold(u) PROVE MintTold(u)'
  BY <1>2, AuditGrows DEF MintTold
<1>3. CASE SameCall(q)
  <2>1. /\ req'[q].pc = req[q].pc /\ req'[q].user = req[q].user
        /\ req'[q].row = req[q].row /\ req'[q].then = req[q].then
    BY <1>3 DEF SameCall
  <2>. QED
    BY <1>1, <1>2, <2>1 DEF LoginTold
<1>4. CASE WriteAudit(q)
  <2>1. CASE req[q].then = "idle"
    BY <1>1, <1>4, <2>1 DEF WriteAudit, Becomes, Idle, LoginTold
  <2>2. CASE req[q].then # "idle"
    <3>1. /\ req'[q].pc = req[q].then /\ req'[q].user = req[q].user
      BY <1>1, <1>4, <2>2 DEF WriteAudit, Becomes, RequestState
    <3>2. req'[q].pc # "audit"
      BY <1>1, <3>1 DEF RequestState, After
    <3>3. PICK s : s = req'[q] /\ s.pc = req[q].then /\ s.user = req[q].user
      BY <3>1
    <3>4. s.pc = "login_audit" => MintTold(s.user)'
      BY <1>1, <1>4, <3>3 DEF WriteAudit, At, LoginTold, MintTold
    <3>5. LoginTold(s)'
      BY <3>1, <3>2, <3>3, <3>4 DEF LoginTold
    <3>. QED
      BY <3>3, <3>5
  <2>. QED
    BY <2>1, <2>2
<1>5. CASE MintBearer(q)
  <2>1. PICK t \in Token, then \in {"deliver", "login_audit"} :
          req'[q] = ThenAudit([req[q] EXCEPT !.token = t],
                              Row("bearer_minted", req[q].user, None, t), then)
    BY <1>1, <1>5 DEF MintBearer, Becomes
  <2>2. /\ req'[q].pc = "audit" /\ req'[q].user = req[q].user
        /\ req'[q].row = Row("bearer_minted", req[q].user, None, t)
    BY <1>1, <2>1 DEF ThenAudit, RequestState
  <2>. QED
    BY <2>2 DEF LoginTold, Mints, Row
<1>6. CASE Step(q) /\ ~(WriteAudit(q) \/ MintBearer(q))
  BY <1>6, OtherwiseSteps DEF Otherwise, LoginTold
<1>7. CASE \E r \in Request : Step(r)
  BY <1>3, <1>4, <1>5, <1>6, <1>7, OthersKeep
<1>8. CASE ~\E r \in Request : Step(r)
  BY <1>1, <1>3, <1>8, WorldKeeps DEF Next, SameCall
<1>. QED
  BY <1>7, <1>8

LEMMA LoginRows ==
    ASSUME TypeInv, TrailInv, LoginInv, [Next]_vars, NEW a \in audit',
           a.event = "login_succeeded"
    PROVE  MintTold(a.user)'
<1>1. ASSUME NEW u, MintTold(u) PROVE MintTold(u)'
  BY <1>1, AuditGrows DEF MintTold
<1>2. CASE a \in audit
  BY <1>1, <1>2 DEF LoginInv
<1>3. CASE a \notin audit
  <2>1. PICK r \in Request : WriteAudit(r) \/ LoginAudit(r)
    BY <1>3, AuditSteps
  <2>2. LoginTold(req[r])
    BY DEF LoginInv
  <2>3. ~WriteAudit(r)
    BY <1>3, <2>2 DEF WriteAudit, At, LoginTold
  <2>4. a = Row("login_succeeded", req[r].user, None, None) /\ MintTold(req[r].user)
    BY <1>3, <2>1, <2>2, <2>3 DEF LoginAudit, At, LoginTold
  <2>. QED
    BY <1>1, <2>4 DEF Row
<1>. QED
  BY <1>2, <1>3

LEMMA LoginInvariant == Spec => []LoginInv
<1>1. Init => LoginInv
  BY DEF Init, LoginInv, LoginTold, Idle
<1>2. TypeInv /\ TrailInv /\ LoginInv /\ [Next]_vars => LoginInv'
  BY LoginCalls, LoginRows DEF LoginInv
<1>. QED
  BY <1>1, <1>2, TypeInvariant, TrailInvariant, PTL DEF Spec

(* What the trail says of bearers, principals and invitations was so when  *)
(* it was written and stays so, although each row is written by another    *)
(* transaction than what it tells of; a login it says succeeded left a     *)
(* minted bearer, and a principal it says was created is there.  For every *)
(* instance.                                                               *)
THEOREM AuditTruthfulHolds == Spec => []AuditTruthful
<1>1. TrailInv /\ LoginInv => AuditTruthful
  BY DEF TrailInv, RowTrue, LoginInv, MintTold, Mints, AuditTruthful
<1>. QED
  BY <1>1, TrailInvariant, LoginInvariant, PTL

-----------------------------------------------------------------------------
(* A link leaves once audited.                                             *)

LEMMA ToldStep ==
    ASSUME TypeInv, TrailInv, [Next]_vars,
           \A x \in sent : \E a \in audit : Announces(a, x),
           NEW x \in sent'
    PROVE  \E a \in audit' : Announces(a, x)'
<1>1. ASSUME NEW a \in audit, Announces(a, x) PROVE a \in audit' /\ Announces(a, x)'
  BY <1>1, AuditGrows, AnnouncesStays DEF TrailInv, TypeInv, TypeOK
<1>2. \E a \in audit : Announces(a, x)
  <2>1. CASE x \in sent
    BY <2>1
  <2>2. CASE x \notin sent
    <3>1. PICK r \in Request : Deliver(r)
      BY <2>2, SentStep
    <3>2. x \in {req[r].token, req[r].invite} \ {None} /\ req[r].pc = "deliver"
      BY <2>2, <3>1 DEF Deliver, At
    <3>. QED
      BY <2>2, <3>2 DEF TrailInv, Tells, Hands
  <2>. QED
    BY <2>1, <2>2
<1>. QED
  BY <1>1, <1>2

(* A link, of an invitation or of a bearer, reaches nobody before the row  *)
(* that tells of it is on the trail, for every instance.                   *)
THEOREM AuditedBeforeSentHolds == Spec => []AuditedBeforeSent
<1> DEFINE Told == \A x \in sent : \E a \in audit : Announces(a, x)
<1>1. Init => Told
  BY DEF Init
<1>2. TypeInv /\ TrailInv /\ Told /\ [Next]_vars => Told'
  BY ToldStep
<1>3. Told => AuditedBeforeSent
  BY DEF Announces, AuditedBeforeSent
<1> HIDE DEF Told
<1>. QED
  BY <1>1, <1>2, <1>3, TypeInvariant, TrailInvariant, PTL DEF Spec
-----------------------------------------------------------------------------
(* An invitation admits one principal, once.                               *)

(* An invitation that names a principal is spent; a spent one admitted a   *)
(* principal of its email, whom no other invitation admitted.              *)
SpentInv ==
    \A i \in Invite :
        /\ invites[i].redeemed_by # None => invites[i].status = "redeemed"
        /\ invites[i].status = "redeemed" =>
             /\ invites[i].redeemed_by \in User
             /\ users[invites[i].redeemed_by].status # "absent"
             /\ users[invites[i].redeemed_by].email = invites[i].email
        /\ \A j \in Invite :
             invites[i].redeemed_by # None /\ invites[j].redeemed_by = invites[i].redeemed_by
             => i = j

(* No other statement than the redemption names a principal.               *)
LEMMA OnlyRedeemSpends ==
    ASSUME TypeInv, SpentInv, [Next]_vars, NEW i \in Invite,
           ~\E r \in Request : RedeemTx(r)
    PROVE  /\ invites'[i].redeemed_by = invites[i].redeemed_by
           /\ invites'[i].status = "redeemed" <=> invites[i].status = "redeemed"
<1>1. invites \in [Invite -> InviteRow]
  BY DEF TypeInv, TypeOK
<1>2. CASE UNCHANGED invites
  BY <1>2
<1>3. ASSUME NEW r \in Request, MintInvite(r)
      PROVE  /\ invites'[i].redeemed_by = invites[i].redeemed_by
             /\ invites'[i].status = "redeemed" <=> invites[i].status = "redeemed"
  <2>1. PICK n \in Invite, e \in Email :
          /\ invites[n].status = "absent"
          /\ invites' = [invites EXCEPT ![n] = [status |-> "pending", email |-> e,
                                                redeemed_by |-> None]]
    BY <1>3 DEF MintInvite, FreshInvite
  <2>2. invites[n].redeemed_by = None
    BY <2>1 DEF SpentInv
  <2>. QED
    BY <1>1, <2>1, <2>2
<1>4. ASSUME NEW r \in Request, RevokeInvite(r)
      PROVE  /\ invites'[i].redeemed_by = invites[i].redeemed_by
             /\ invites'[i].status = "redeemed" <=> invites[i].status = "redeemed"
  BY <1>1, <1>4 DEF RevokeInvite, Pending, InviteRow
<1>5. ASSUME NEW r \in Request, InvitesWrite(r) \/ SweepExpiredWrite(r)
      PROVE  /\ invites'[i].redeemed_by = invites[i].redeemed_by
             /\ invites'[i].status = "redeemed" <=> invites[i].status = "redeemed"
  BY <1>1, <1>5 DEF InvitesWrite, SweepExpiredWrite, SetInvites, StillPending, Pending, InviteRow
<1>. QED
  BY <1>2, <1>3, <1>4, <1>5, InviteSteps

LEMMA MailStays ==
    ASSUME TypeInv, SpentInv, [Next]_vars, NEW i \in Invite,
           invites[i].status = "redeemed"
    PROVE  /\ invites'[i] = invites[i]
           /\ users'[invites[i].redeemed_by].status # "absent"
           /\ users'[invites[i].redeemed_by].email = invites'[i].email
<1>1. invites'[i] = invites[i]
  BY InviteLife
<1>2. PICK u \in User : u = invites[i].redeemed_by /\ users[u].status # "absent"
                        /\ users[u].email = invites[i].email
  BY DEF SpentInv
<1>. QED
  BY <1>1, <1>2, EmailStays DEF TypeInv

LEMMA SpentStep ==
    ASSUME TypeInv, SpentInv, [Next]_vars PROVE SpentInv'
<1>1. invites \in [Invite -> InviteRow] /\ users \in [User -> UserRow]
  BY DEF TypeInv, TypeOK
<1>2. CASE ~\E r \in Request : RedeemTx(r)
  BY <1>2, OnlyRedeemSpends, MailStays DEF SpentInv
<1>3. ASSUME NEW r \in Request, RedeemTx(r), invites' # invites PROVE SpentInv'
  <2>1. PICK n \in Invite : n = req[r].invite
    BY <1>3, ReqTyped DEF RedeemTx, At, Owned
  <2>2. PICK u \in User :
          /\ Redeemable(n) /\ FreshUser(u)
          /\ users' = [users EXCEPT ![u] = ActiveUserRow(invites[n].email)]
          /\ invites' = [invites EXCEPT ![n].status = "redeemed", ![n].redeemed_by = u]
    BY <1>3, <2>1 DEF RedeemTx
  <2>3. /\ invites'[n].status = "redeemed" /\ invites'[n].redeemed_by = u
        /\ invites'[n].email = invites[n].email
        /\ \A i \in Invite \ {n} : invites'[i] = invites[i]
    BY <1>1, <2>2 DEF InviteRow
  <2>4. users'[u].status # "absent" /\ users'[u].email = invites[n].email
    BY <1>1, <2>2 DEF ActiveUserRow
  <2>5. \A i \in Invite : invites[i].redeemed_by # u
    BY <2>2, NoneAssumption DEF SpentInv, FreshUser
  <2>6. u # None
    BY NoneAssumption
  <2>7. ASSUME NEW i \in Invite
        PROVE  /\ invites'[i].redeemed_by # None => invites'[i].status = "redeemed"
               /\ invites'[i].status = "redeemed" =>
                    /\ invites'[i].redeemed_by \in User
                    /\ users'[invites'[i].redeemed_by].status # "absent"
                    /\ users'[invites'[i].redeemed_by].email = invites'[i].email
    <3>1. CASE i = n
      BY <2>3, <2>4, <3>1
    <3>2. CASE i # n
      BY <2>3, <3>2, MailStays DEF SpentInv
    <3>. QED
      BY <3>1, <3>2
  <2>8. ASSUME NEW i \in Invite, NEW j \in Invite, invites'[i].redeemed_by # None,
               invites'[j].redeemed_by = invites'[i].redeemed_by
        PROVE  i = j
    BY <2>3, <2>5, <2>8 DEF SpentInv
  <2>. QED
    BY <2>7, <2>8 DEF SpentInv
<1>4. ASSUME NEW r \in Request, RedeemTx(r), invites' = invites PROVE SpentInv'
  BY <1>4, MailStays DEF SpentInv
<1>. QED
  BY <1>2, <1>3, <1>4

(* A redeemed invitation admitted one principal of its own email, admitted *)
(* nobody else, and its redemption is on the trail at most once, for every *)
(* instance and however redemptions race.                                  *)
THEOREM OneShotHolds == Spec => []OneShot
<1>1. Init => SpentInv
  BY DEF Init, NoInvite, SpentInv
<1>2. TypeInv /\ SpentInv /\ [Next]_vars => SpentInv'
  BY SpentStep
<1>3. TypeInv /\ TrailInv /\ SpentInv => OneShot
  <2> SUFFICES ASSUME TypeInv, TrailInv, SpentInv, NEW i \in Invite,
                      invites[i].status = "redeemed"
               PROVE  /\ \E u \in User : /\ invites[i].redeemed_by = u
                                         /\ users[u].status # "absent"
                                         /\ users[u].email = invites[i].email
                      /\ \A j \in Invite :
                           invites[j].redeemed_by = invites[i].redeemed_by => i = j
                      /\ \A a, b \in audit :
                           /\ a.event = "invite_redeemed" /\ a.invite = i
                           /\ b.event = "invite_redeemed" /\ b.invite = i
                           => a = b
    BY DEF OneShot
  <2>1. invites[i].redeemed_by \in User /\ invites[i].redeemed_by # None
    BY NoneAssumption DEF SpentInv
  <2>2. ASSUME NEW a \in audit, a.event = "invite_redeemed", a.invite = i
        PROVE  a = Row("invite_redeemed", invites[i].redeemed_by, i, None)
    <3>1. a \in AuditRow /\ RowTrue(a)
      BY DEF TypeInv, TypeOK, TrailInv
    <3>2. a.user = invites[i].redeemed_by /\ a.token = None
      BY <2>2, <3>1 DEF RowTrue
    <3>. QED
      BY <2>2, <3>1, <3>2 DEF AuditRow, Row
  <2>. QED
    BY <2>1, <2>2 DEF SpentInv
<1>. QED
  BY <1>1, <1>2, <1>3, TypeInvariant, TrailInvariant, PTL DEF Spec
=============================================================================
