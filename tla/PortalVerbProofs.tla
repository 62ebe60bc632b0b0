--------------------------- MODULE PortalVerbProofs ---------------------------
(***************************************************************************)
(* Verbs of PortalAccess from their first statement to their last, for     *)
(* every instance: a revocation's sweeps reach everything that was live at *)
(* its flip, and a call that had no chance when it began never gets        *)
(* through.                                                                *)
(***************************************************************************)
EXTENDS PortalTrailProofs

-----------------------------------------------------------------------------
(* An invitation keeps its email, and only its mint makes it pending.      *)

LEMMA InviteMail ==
    ASSUME TypeInv, [Next]_vars, NEW i \in Invite, invites[i].status # "absent"
    PROVE  /\ invites'[i].status # "absent"
           /\ invites'[i].email = invites[i].email
           /\ invites'[i].status = "pending" => invites[i].status = "pending"
<1>1. invites \in [Invite -> InviteRow] /\ invites[i] \in InviteRow
  BY DEF TypeInv, TypeOK
<1>2. CASE ~Pending(i)
  BY <1>1, <1>2, InviteLife DEF Pending, InviteRow
<1>3. CASE Pending(i)
  <2>1. ASSUME NEW r \in Request, MintInvite(r) PROVE invites'[i] = invites[i]
    BY <1>1, <1>3, <2>1 DEF MintInvite, FreshInvite, Pending
  <2>2. ASSUME NEW r \in Request, RevokeInvite(r) \/ InvitesWrite(r) \/ SweepExpiredWrite(r)
        PROVE  /\ invites'[i].status \in {"pending", "revoked", "expired"}
               /\ invites'[i].email = invites[i].email
    BY <1>1, <1>3, <2>2 DEF RevokeInvite, InvitesWrite, SweepExpiredWrite, SetInvites, Pending,
       InviteRow
  <2>3. ASSUME NEW r \in Request, RedeemTx(r)
        PROVE  /\ invites'[i].status \in {"pending", "redeemed"}
               /\ invites'[i].email = invites[i].email
    <3>1. PICK n, u :
             \/ invites' = invites
             \/ invites' = [invites EXCEPT ![n].status = "redeemed", ![n].redeemed_by = u]
      BY <2>3, Zenon DEF RedeemTx
    <3>2. \/ invites'[i] = invites[i]
          \/ invites'[i] = [[invites[i] EXCEPT !.status = "redeemed"] EXCEPT !.redeemed_by = u]
      BY <1>1, <3>1, Zenon
    <3>. QED
      BY <1>1, <1>3, <3>2, Zenon DEF Pending, InviteRow
  <2>. QED
    BY <1>3, <2>1, <2>2, <2>3, InviteSteps DEF Pending
<1>. QED
  BY <1>2, <1>3

-----------------------------------------------------------------------------
(* What a call takes with it.  Once begun it keeps the email, the          *)
(* invitation and the doom it began with, and its verb unless a signup     *)
(* turns into a login.                                                     *)

Carried(s, before) ==
    /\ s.verb \in {before.verb, "login"}
    /\ s.email = before.email /\ s.invite = before.invite /\ s.doomed = before.doomed

Kin(s, before) == s = Idle \/ Carried(s, before)

LEMMA ContinueKin ==
    ASSUME TypeInv, NEW r \in Request, Continue(r) \/ Fail(r) PROVE Kin(req'[r], req[r])
<1>1. req \in [Request -> RequestState] /\ req[r] \in RequestState
  BY DEF TypeInv, TypeOK
<1>2. ASSUME NEW s, Becomes(r, s), Carried(s, req[r]) \/ s = Idle PROVE Kin(req'[r], req[r])
  BY <1>1, <1>2 DEF Becomes, Kin
<1>3. Return(r) => Kin(req'[r], req[r])
  BY <1>2 DEF Return
<1>4. ASSUME NEW pc, Goto(r, pc) PROVE Kin(req'[r], req[r])
  <2>1. req'[r] = [req[r] EXCEPT !.pc = pc]
    BY <1>1, <1>4 DEF Goto
  <2>. QED
    BY <1>1, <2>1 DEF Kin, Carried, RequestState
<1>5. ASSUME NEW s \in RequestState, Carried(s, req[r]), NEW row, NEW then,
             Becomes(r, ThenAudit(s, row, then))
      PROVE  Kin(req'[r], req[r])
  <2>1. Carried(ThenAudit(s, row, then), req[r])
    BY <1>5 DEF ThenAudit, RequestState, Carried
  <2>. QED
    BY <1>2, <1>5, <2>1
<1>6. Carried(req[r], req[r])
  BY DEF Carried
<1>7. ASSUME NEW t \in Token PROVE [req[r] EXCEPT !.token = t] \in RequestState
  BY <1>1 DEF RequestState, Carried
<1>8. CASE Fail(r) \/ Deliver(r) \/ EndGranted(r) \/ SweepExpiredWrite(r)
  BY <1>3, <1>8 DEF Fail, Deliver, EndGranted, SweepExpiredWrite
<1>9. CASE WriteAudit(r)
  <2>1. Carried([req[r] EXCEPT !.pc = req[r].then, !.row = None, !.then = "idle"], req[r])
    BY <1>1 DEF RequestState, Carried
  <2>. QED
    BY <1>2, <1>9, <2>1 DEF WriteAudit
<1>10. CASE MintBearer(r)
  <2>1. PICK t \in Token : \E row, then :
           Becomes(r, ThenAudit([req[r] EXCEPT !.token = t], row, then))
    BY <1>10 DEF MintBearer
  <2>2. Carried([req[r] EXCEPT !.token = t], req[r])
    BY <1>1 DEF RequestState, Carried
  <2>. QED
    BY <1>2, <1>5, <1>7, <2>1, <2>2
<1>11. CASE InvitesRead(r) \/ BearersRead(r)
  <2>1. PICK pc, S : Becomes(r, [req[r] EXCEPT !.pc = pc, !.seen = S])
    BY <1>11, Zenon DEF InvitesRead, BearersRead
  <2>2. Carried([req[r] EXCEPT !.pc = pc, !.seen = S], req[r])
    BY <1>1 DEF RequestState, Carried
  <2>. QED
    BY <1>2, <2>1, <2>2, Zenon
<1>12. CASE InvitesWrite(r) \/ BearersWrite(r)
  <2>1. PICK s : s = [req[r] EXCEPT !.seen = {}]
    OBVIOUS
  <2>2. s \in RequestState /\ Carried(s, req[r])
    BY <1>1, <2>1 DEF RequestState, Carried
  <2>3. Carried([s EXCEPT !.pc = "invites_read"], req[r])
    BY <2>2 DEF RequestState, Carried
  <2>4. CASE InvitesWrite(r)
    BY <1>2, <1>3, <1>5, <2>1, <2>2, <2>4 DEF InvitesWrite
  <2>5. CASE BearersWrite(r)
    BY <1>2, <1>5, <2>1, <2>2, <2>3, <2>5 DEF BearersWrite
  <2>. QED
    BY <1>12, <2>4, <2>5
<1>13. CASE RedeemRead(r)
  <2>1. Carried([req[r] EXCEPT !.pc = "redeem_tx", !.vouched = TRUE], req[r])
    BY <1>1 DEF RequestState, Carried
  <2>. QED
    BY <1>2, <1>3, <1>13, <2>1 DEF RedeemRead
<1>14. CASE RedeemTx(r)
  <2>1. Return(r) \/ \E u \in User : \E row : Becomes(r, ThenAudit([req[r] EXCEPT !.user = u], row, "mint"))
    BY <1>14, Zenon DEF RedeemTx
  <2>2. ASSUME NEW u \in User
        PROVE  [req[r] EXCEPT !.user = u] \in RequestState /\ Carried([req[r] EXCEPT !.user = u], req[r])
    BY <1>1 DEF RequestState, Carried
  <2>. QED
    BY <1>2, <1>3, <1>5, <2>1, <2>2, Zenon
<1>15. CASE VerifyRead(r)
  <2>1. Return(r) \/ \E u, v : Becomes(r, [req[r] EXCEPT !.pc = "verify_user", !.user = u,
                                                        !.vouched = v])
    BY <1>15, Zenon DEF VerifyRead
  <2>2. ASSUME NEW u, NEW v
        PROVE  Carried([req[r] EXCEPT !.pc = "verify_user", !.user = u, !.vouched = v], req[r])
    BY <1>1 DEF RequestState, Carried
  <2>. QED
    BY <1>2, <1>3, <2>1, <2>2, Zenon
<1>16. CASE VerifyUser(r) \/ LoginAudit(r)
  BY <1>3, <1>4, <1>16 DEF VerifyUser, LoginAudit
<1>17. CASE RotateTx(r)
  <2>1. Return(r) \/ \E t \in Token : \E row : Becomes(r, ThenAudit([req[r] EXCEPT !.token = t], row, "deliver"))
    BY <1>17, Zenon DEF RotateTx
  <2>2. ASSUME NEW t \in Token PROVE Carried([req[r] EXCEPT !.token = t], req[r])
    BY <1>1 DEF RequestState, Carried
  <2>. QED
    BY <1>2, <1>3, <1>5, <1>7, <2>1, <2>2, Zenon
<1>18. ASSUME NEW row, NEW then, Becomes(r, ThenAudit(req[r], row, then))
       PROVE  Kin(req'[r], req[r])
  BY <1>1, <1>5, <1>6, <1>18
<1>19. CASE LoginRead(r)
  <2>1. ASSUME NEW u PROVE Carried([req[r] EXCEPT !.pc = "login_port", !.user = u], req[r])
    BY <1>1 DEF RequestState, Carried
  <2>2. \/ \E row : Becomes(r, ThenAudit(req[r], row, "idle"))
        \/ \E u : Becomes(r, [req[r] EXCEPT !.pc = "login_port", !.user = u])
    BY <1>19, Zenon DEF LoginRead
  <2>. QED
    BY <1>2, <1>18, <2>1, <2>2, Zenon
<1>20. CASE LoginPort(r) \/ SignupPort(r)
  BY <1>3, <1>4, <1>18, <1>20 DEF LoginPort, SignupPort
<1>21. CASE SignupPolicy(r)
  <2>1. Carried([req[r] EXCEPT !.pc = "signup_read"], req[r])
    BY <1>1 DEF RequestState, Carried
  <2>. QED
    BY <1>2, <1>18, <1>21, <2>1 DEF SignupPolicy
<1>22. CASE SignupRead(r)
  <2>1. Carried([req[r] EXCEPT !.verb = "login", !.pc = "login_read"], req[r])
    BY <1>1 DEF RequestState, Carried
  <2>. QED
    BY <1>2, <1>4, <1>22, <2>1 DEF SignupRead
<1>23. CASE SignupInsert(r) \/ SignupFallback(r)
  <2>1. \/ Return(r) \/ Goto(r, "signup_fallback")
        \/ \E u \in User : \E row : Becomes(r, ThenAudit([req[r] EXCEPT !.user = u], row, "mint"))
    BY <1>23, Zenon DEF SignupInsert, SignupFallback, SignupCreated, LiveByEmail
  <2>2. ASSUME NEW u \in User
        PROVE  [req[r] EXCEPT !.user = u] \in RequestState /\ Carried([req[r] EXCEPT !.user = u], req[r])
    BY <1>1 DEF RequestState, Carried
  <2>. QED
    BY <1>2, <1>3, <1>4, <1>5, <2>1, <2>2, Zenon
<1>. QED
  BY <1>8, <1>9, <1>10, <1>11, <1>12, <1>13, <1>14, <1>15, <1>16, <1>17, <1>19, <1>20,
     <1>21, <1>22, <1>23 DEF Continue

-----------------------------------------------------------------------------
(* The sweeps of a revocation.  What is due is known from the flip on: the *)
(* rows exist, belong to the principal and are never born again, so a row  *)
(* that a sweep found dead, or killed, is dead for good.  Between snapshot *)
(* and write, what is still live was in the snapshot.                      *)

DueKnown(u) ==
    /\ due[u] # {} => users[u].status = "revoked"
    /\ \A t \in due[u] \cap Token : tokens[t].status # "absent" /\ tokens[t].user = u
    /\ \A i \in due[u] \cap Invite : /\ invites[i].status # "absent"
                                   /\ invites[i].email = users[u].email

TokensDead(u) == \A t \in due[u] \cap Token : ~Active(t)
InvitesDead(u) == \A i \in due[u] \cap Invite : ~Pending(i)

Swept(u) == users[u].status = "revoked" /\ TokensDead(u) /\ InvitesDead(u)

(* A revocation on its way.                                                *)
Sweeping(s) ==
    s.verb = "revoke_access" =>
        /\ s.email = users[s.user].email
        /\ s.pc = "bearers_write" => \A t \in due[s.user] \cap Token : Active(t) => t \in s.seen
        /\ s.pc \in {"audit", "invites_read", "invites_write"} => TokensDead(s.user)
        /\ s.pc = "invites_write" =>
             \A i \in due[s.user] \cap Invite : Pending(i) => i \in s.seen

SweepInv ==
    /\ \A u \in User : DueKnown(u)
    /\ \A u \in settled : Swept(u)
    /\ \A r \in Request : Sweeping(req[r])

LEMMA HistorySteps ==
    ASSUME [Next]_vars
    PROVE  /\ due' # due => \E r \in Request : RevokeAccess(r)
           /\ settled' # settled => \E r \in Request : InvitesWrite(r)
<1>1. ASSUME NEW r \in Request, Start(r), ~RevokeAccess(r) PROVE UNCHANGED history
  BY <1>1, Zenon DEF Start, MintInvite, RevokeInvite, BeginRevokePending, SweepExpiredRead,
     BeginRedeem, BeginVerify, RevokeBearer, BeginLogin, BeginSignup, SetSignupPolicy
<1>2. ASSUME NEW r \in Request, Continue(r), ~InvitesWrite(r) PROVE UNCHANGED history
  BY <1>2, Zenon DEF Continue, WriteAudit, Deliver, MintBearer, InvitesRead, SweepExpiredWrite,
     RedeemRead, RedeemTx, VerifyRead, VerifyUser, EndGranted, RotateTx, BearersRead,
     BearersWrite, LoginRead, LoginPort, LoginAudit, SignupPolicy, SignupRead, SignupPort,
     SignupInsert, SignupFallback
<1>3. ASSUME NEW r \in Request, Fail(r) PROVE UNCHANGED history
  BY <1>3 DEF Fail
<1>4. Expire \/ SoftDelete \/ Restore \/ UNCHANGED vars => UNCHANGED history
  BY DEF Expire, SoftDelete, Restore, vars, history
<1>5. ASSUME NEW r \in Request, RevokeAccess(r) PROVE settled' = settled
  BY <1>5 DEF RevokeAccess, RevokeFlip
<1>6. ASSUME NEW r \in Request, InvitesWrite(r) PROVE due' = due
  BY <1>6 DEF InvitesWrite
<1>. QED
  BY <1>1, <1>2, <1>3, <1>4, <1>5, <1>6 DEF Next, Step, history

(* After its flip nothing is added to what is due of a principal, and      *)
(* nothing of it comes back to life.                                       *)
LEMMA DueStays ==
    ASSUME TypeInv, SweepInv, [Next]_vars, NEW u \in User, users[u].status = "revoked"
    PROVE  /\ due'[u] = due[u] /\ users'[u].status = "revoked" /\ users'[u].email = users[u].email
           /\ \A t \in due[u] \cap Token : Active(t)' => Active(t)
           /\ \A i \in due[u] \cap Invite : Pending(i)' => Pending(i)
           /\ DueKnown(u)'
<1>1. due'[u] = due[u]
  <2>1. ASSUME NEW r \in Request, RevokeAccess(r) PROVE due'[u] = due[u]
    BY <2>1 DEF RevokeAccess, RevokeFlip, Revocable, TypeInv, TypeOK
  <2>. QED
    BY <2>1, HistorySteps
<1>2. users'[u].status = "revoked" /\ users'[u].email = users[u].email
  BY UserLife, EmailStays DEF TypeInv
<1>3. ASSUME NEW t \in due[u] \cap Token
      PROVE  /\ Active(t)' => Active(t)
             /\ tokens'[t].status # "absent" /\ tokens'[t].user = u
  <2>1. tokens[t].status # "absent" /\ tokens[t].user = u /\ tokens[t] \in TokenRow
    BY DEF SweepInv, DueKnown, TypeInv, TypeOK
  <2>. QED
    BY <2>1, TokenLife DEF Active, TypeInv, TokenRow
<1>4. ASSUME NEW i \in due[u] \cap Invite
      PROVE  /\ Pending(i)' => Pending(i)
             /\ invites'[i].status # "absent" /\ invites'[i].email = users[u].email
  BY InviteMail DEF SweepInv, DueKnown, Pending
<1>. QED
  BY <1>1, <1>2, <1>3, <1>4 DEF DueKnown

LEMMA DueStep ==
    ASSUME TypeInv, SweepInv, [Next]_vars, NEW u \in User PROVE DueKnown(u)'
<1>1. CASE users[u].status = "revoked"
  BY <1>1, DueStays
<1>2. CASE users[u].status # "revoked"
  <2>1. due[u] = {}
    BY <1>2 DEF SweepInv, DueKnown
  <2>2. CASE due'[u] = {}
    BY <2>2 DEF DueKnown
  <2>3. CASE due'[u] # {}
    <3>1. PICK r \in Request, v \in User : RevokeFlip(r, v)
      BY <2>1, <2>3, HistorySteps DEF RevokeAccess
    <3>2. v = u
      BY <2>1, <2>3, <3>1 DEF RevokeFlip, TypeInv, TypeOK
    <3>3. /\ users'[u].status = "revoked" /\ users'[u].email = users[u].email
          /\ tokens' = tokens /\ invites' = invites
          /\ due'[u] = ActiveTokens(u) \cup PendingInvites(users[u].email)
      BY <3>1, <3>2 DEF RevokeFlip, TypeInv, TypeOK, UserRow
    <3>. QED
      BY <3>3, IdAssumption DEF DueKnown, ActiveTokens, PendingInvites
  <2>. QED
    BY <2>2, <2>3
<1>. QED
  BY <1>1, <1>2

(* A revocation on its way whose own record did not move.                  *)
LEMMA SweepingStays ==
    ASSUME TypeInv, TrailInv, SweepInv, [Next]_vars, NEW q \in Request, SameCall(q)
    PROVE  Sweeping(req[q])'
<1>. SUFFICES ASSUME req[q].verb = "revoke_access" PROVE Sweeping(req[q])'
  BY DEF Sweeping, SameCall
<1>1. PICK u \in User : u = req[q].user /\ users[u].status = "revoked"
  BY DEF TrailInv, Tells, Revoker
<1>2. /\ due'[u] = due[u] /\ users'[u].email = users[u].email
      /\ \A t \in due[u] \cap Token : Active(t)' => Active(t)
      /\ \A i \in due[u] \cap Invite : Pending(i)' => Pending(i)
  BY <1>1, DueStays
<1>3. Sweeping(req[q])
  BY DEF SweepInv
<1>4. /\ req'[q].user = u /\ req'[q].email = req[q].email /\ req'[q].pc = req[q].pc
      /\ req'[q].seen = req[q].seen
  BY <1>1 DEF SameCall
<1>. QED
  BY <1>1, <1>2, <1>3, <1>4 DEF Sweeping, TokensDead

(* A revocation's own step.                                                *)
LEMMA SweepingMoves ==
    ASSUME TypeInv, TrailInv, SweepInv, NEW r \in Request, Step(r),
           req'[r].verb = "revoke_access"
    PROVE  Sweeping(req[r])'
<1>1. req \in [Request -> RequestState] /\ req[r] \in RequestState
  BY DEF TypeInv, TypeOK
<1>2. ASSUME NEW s, Becomes(r, s) PROVE req'[r] = s
  BY <1>1, <1>2 DEF Becomes
<1>3. CASE RevokeAccess(r)
  <2>1. PICK u \in User : RevokeFlip(r, u)
    BY <1>3 DEF RevokeAccess
  <2>2. req'[r] = [Idle EXCEPT !.verb = "revoke_access", !.pc = "bearers_read",
                               !.user = u, !.email = users[u].email]
    BY <1>2, <2>1 DEF RevokeFlip
  <2>3. users'[u].email = users[u].email
    BY <2>1 DEF RevokeFlip, TypeInv, TypeOK, UserRow
  <2>. QED
    BY <2>2, <2>3 DEF Sweeping, Idle
<1>4. CASE Start(r) /\ ~RevokeAccess(r)
  <2>1. ASSUME NEW s, Becomes(r, s), s.verb # "revoke_access" PROVE FALSE
    BY <1>2, <2>1
  <2>2. CASE SetSignupPolicy(r)
    BY <1>1, <2>2, Zenon DEF SetSignupPolicy, ThenAudit, Idle
  <2>3. CASE MintInvite(r) \/ RevokeInvite(r) \/ RevokeBearer(r)
    BY <1>2, <2>3, Zenon DEF MintInvite, RevokeInvite, RevokeBearer, ThenAudit, Idle
  <2>4. CASE BeginRevokePending(r) \/ SweepExpiredRead(r) \/ BeginRedeem(r) \/ BeginVerify(r)
             \/ BeginLogin(r) \/ BeginSignup(r)
    BY <2>1, <2>4, Zenon DEF BeginRevokePending, SweepExpiredRead, BeginRedeem, BeginVerify,
       BeginLogin, BeginSignup, Idle
  <2>. QED
    BY <1>4, <2>2, <2>3, <2>4 DEF Start
<1>5. CASE Continue(r) \/ Fail(r)
  <2>1. /\ req[r].verb = "revoke_access" /\ req'[r].email = req[r].email /\ req'[r] # Idle
    <3>1. req'[r] # Idle
      BY NoneAssumption DEF Idle, AllVerbs
    <3>. QED
      BY <1>5, <3>1, ContinueKin DEF Kin, Carried
  <2>2. PICK u \in User :
          /\ u = req[r].user /\ req[r].email = users[u].email /\ DueKnown(u)
          /\ req[r].pc \in {"bearers_read", "bearers_write", "invites_read", "invites_write", "audit"}
          /\ req[r].pc = "audit" => req[r].then = "invites_read"
    BY <2>1 DEF TrailInv, Tells, Revoker, SweepInv, Sweeping
  <2>3. Sweeping(req[r])
    BY DEF SweepInv
  <2>4. CASE BearersRead(r)
    <3>1. req'[r] = [req[r] EXCEPT !.pc = "bearers_write", !.seen = ActiveTokens(req[r].user)]
      BY <1>2, <2>4 DEF BearersRead
    <3>2. req'[r].pc = "bearers_write" /\ req'[r].user = u /\ req'[r].seen = ActiveTokens(u)
      BY <1>1, <2>2, <3>1 DEF RequestState
    <3>3. users' = users /\ tokens' = tokens /\ due' = due
      BY <2>4 DEF BearersRead, tables, history
    <3>. QED
      BY <2>1, <2>2, <3>2, <3>3, Zenon DEF Sweeping, DueKnown, ActiveTokens, Active
  <2>5. CASE BearersWrite(r)
    <3>1. /\ req'[r].user = u
          /\ req'[r].pc \in {"invites_read", "audit"}
      <4>1. PICK s : s = [req[r] EXCEPT !.seen = {}]
        OBVIOUS
      <4>2. \/ req'[r] = [s EXCEPT !.pc = "invites_read"]
            \/ \E row : req'[r] = ThenAudit(s, row, "invites_read")
        BY <1>2, <2>5, <4>1 DEF BearersWrite
      <4>3. s \in RequestState /\ s.user = u
        BY <1>1, <2>2, <4>1 DEF RequestState
      <4>. QED
        BY <4>2, <4>3, Zenon DEF ThenAudit, RequestState
    <3>2. users' = users /\ due' = due
      BY <2>5 DEF BearersWrite, history
    <3>3. ASSUME NEW t \in due[u] \cap Token PROVE tokens'[t].status # "active"
      <4>1. Active(t) => t \in StillActive(r)
        BY <2>1, <2>2, <2>3, <2>5 DEF Sweeping, BearersWrite, At, StillActive
      <4>2. tokens'[t] = IF t \in StillActive(r) THEN [tokens[t] EXCEPT !.status = "revoked"]
                                                ELSE tokens[t]
        BY <2>5 DEF BearersWrite
      <4>. QED
        BY <4>1, <4>2 DEF Active, TypeInv, TypeOK, TokenRow
    <3>. QED
      BY <2>1, <2>2, <3>1, <3>2, <3>3 DEF Sweeping, TokensDead, Active
  <2>6. CASE WriteAudit(r)
    <3>1. req'[r] = [req[r] EXCEPT !.pc = "invites_read", !.row = None, !.then = "idle"]
      BY <1>2, <2>2, <2>6, Zenon DEF WriteAudit, At
    <3>2. req'[r].pc = "invites_read" /\ req'[r].user = u
      BY <1>1, <2>2, <3>1 DEF RequestState
    <3>3. users' = users /\ tokens' = tokens /\ due' = due
      BY <2>6 DEF WriteAudit, tables, history
    <3>4. TokensDead(u)
      BY <2>1, <2>2, <2>3, <2>6 DEF Sweeping, WriteAudit, At
    <3>. QED
      BY <2>1, <2>2, <3>2, <3>3, <3>4 DEF Sweeping, TokensDead, Active
  <2>7. CASE InvitesRead(r)
    <3>1. req'[r] = [req[r] EXCEPT !.pc = "invites_write", !.seen = PendingInvites(req[r].email)]
      BY <1>2, <2>7 DEF InvitesRead
    <3>2. /\ req'[r].pc = "invites_write" /\ req'[r].user = u
          /\ req'[r].seen = PendingInvites(users[u].email)
      BY <1>1, <2>2, <3>1 DEF RequestState
    <3>3. users' = users /\ tokens' = tokens /\ due' = due /\ invites' = invites
      BY <2>7 DEF InvitesRead, tables, history
    <3>4. TokensDead(u)
      BY <2>1, <2>2, <2>3, <2>7 DEF Sweeping, InvitesRead, At
    <3>. QED
      BY <2>1, <2>2, <3>2, <3>3, <3>4 DEF Sweeping, TokensDead, Active, DueKnown,
         PendingInvites, Pending
  <2>8. CASE InvitesWrite(r)
    BY <1>2, <2>1, <2>8 DEF InvitesWrite, Return
  <2>9. CASE Fail(r)
    BY <1>2, <2>1, <2>9 DEF Fail, Return
  <2>10. CASE Continue(r)
    BY <2>2, <2>4, <2>5, <2>6, <2>7, <2>8, <2>10, Zenon DEF Continue, Deliver, MintBearer,
       SweepExpiredWrite, RedeemRead, RedeemTx, VerifyRead, VerifyUser, EndGranted, RotateTx,
       LoginRead, LoginPort, LoginAudit, SignupPolicy, SignupRead, SignupPort, SignupInsert,
       SignupFallback, At
  <2>. QED
    BY <1>5, <2>9, <2>10
<1>. QED
  BY <1>3, <1>4, <1>5 DEF Step

(* The last statement of a revocation kills what is left of what was due.  *)
LEMMA SettledStep ==
    ASSUME TypeInv, TrailInv, SweepInv, [Next]_vars, NEW u \in settled' PROVE Swept(u)'
<1>0. settled \subseteq User
  BY DEF TypeInv, TypeOK
<1>1. CASE u \in settled
  <2>1. u \in User /\ Swept(u)
    BY <1>0, <1>1 DEF SweepInv
  <2>. QED
    BY <2>1, DueStays DEF Swept, TokensDead, InvitesDead
<1>2. CASE u \notin settled
  <2>1. PICK r \in Request : InvitesWrite(r)
    BY <1>2, HistorySteps
  <2>2. req[r].verb = "revoke_access" /\ req[r].pc = "invites_write" /\ req[r].user = u
    BY <1>2, <2>1 DEF InvitesWrite, At
  <2>3. u \in User /\ users[u].status = "revoked"
    BY <2>2 DEF TrailInv, Tells, Revoker
  <2>4. TokensDead(u) /\ \A i \in due[u] \cap Invite : Pending(i) => i \in StillPending(r)
    BY <2>2 DEF SweepInv, Sweeping, StillPending
  <2>5. ASSUME NEW i \in due[u] \cap Invite PROVE invites'[i].status # "pending"
    <3>1. invites'[i] = IF i \in StillPending(r) THEN [invites[i] EXCEPT !.status = "revoked"]
                                                 ELSE invites[i]
      BY <2>1 DEF InvitesWrite, SetInvites
    <3>. QED
      BY <2>4, <3>1 DEF Pending, TypeInv, TypeOK, InviteRow
  <2>. QED
    BY <2>3, <2>4, <2>5, DueStays DEF Swept, TokensDead, InvitesDead, Pending
<1>. QED
  BY <1>1, <1>2

LEMMA SweepStep == ASSUME TypeInv, TrailInv, SweepInv, [Next]_vars PROVE SweepInv'
<1>1. ASSUME NEW q \in Request PROVE Sweeping(req[q])'
  <2>1. ASSUME NEW r \in Request, Step(r) PROVE Sweeping(req[q])'
    <3>1. CASE q # r
      BY <2>1, <3>1, OthersKeep, SweepingStays
    <3>2. CASE q = r /\ req'[r].verb = "revoke_access"
      BY <2>1, <3>2, SweepingMoves
    <3>3. CASE q = r /\ req'[r].verb # "revoke_access"
      BY <3>3 DEF Sweeping
    <3>. QED
      BY <3>1, <3>2, <3>3
  <2>2. CASE Expire \/ SoftDelete \/ Restore \/ UNCHANGED vars
    BY <2>2, WorldKeeps, SweepingStays DEF SameCall
  <2>. QED
    BY <2>1, <2>2 DEF Next
<1>. QED
  BY <1>1, DueStep, SettledStep DEF SweepInv

LEMMA SweepInvariant == Spec => []SweepInv
<1>1. Init => SweepInv
  BY NoneAssumption DEF Init, SweepInv, DueKnown, Sweeping, Idle, AllVerbs
<1>2. TypeInv /\ TrailInv /\ SweepInv /\ [Next]_vars => SweepInv'
  BY SweepStep
<1>. QED
  BY <1>1, <1>2, TypeInvariant, TrailInvariant, PTL DEF Spec

(* revoke_access, for every instance: when it has returned Ok(true), every *)
(* bearer and every pending invitation that was live at its flip is dead,  *)
(* whichever statements raced its two sweeps.                              *)
THEOREM SweepReachesAllHolds == Spec => []SweepReachesAll
<1>1. TypeInv /\ SweepInv => SweepReachesAll
  BY DEF TypeInv, TypeOK, SweepInv, Swept, TokensDead, InvitesDead, Active, Pending,
     SweepReachesAll
<1>. QED
  BY <1>1, TypeInvariant, SweepInvariant, PTL

-----------------------------------------------------------------------------
(* Invitations that are out, or that a call names, have a row.             *)

InvitesKnown ==
    /\ \A i \in sent \cap Invite : invites[i].status # "absent"
    /\ \A r \in Request : req[r].invite \in Invite => invites[req[r].invite].status # "absent"

LEMMA InvitesKnownStep == ASSUME TypeInv, InvitesKnown, [Next]_vars PROVE InvitesKnown'
<1>1. req \in [Request -> RequestState] /\ invites \in [Invite -> InviteRow]
  BY DEF TypeInv, TypeOK
<1>2. \A i \in Invite : invites[i].status # "absent" => invites'[i].status # "absent"
  BY InviteMail
<1>3. ASSUME NEW i \in sent' \cap Invite PROVE invites'[i].status # "absent"
  <2>1. CASE i \in sent
    BY <1>2, <1>3, <2>1 DEF InvitesKnown
  <2>2. CASE i \notin sent
    <3>1. PICK r \in Request : Deliver(r)
      BY <1>3, <2>2, SentStep
    <3>2. i = req[r].invite
      <4>1. i \in {req[r].token, req[r].invite}
        BY <1>3, <2>2, <3>1 DEF Deliver
      <4>2. i # req[r].token
        BY <1>3, ReqTyped, IdAssumption, NoneAssumption
      <4>. QED
        BY <4>1, <4>2
    <3>. QED
      BY <1>2, <1>3, <3>2 DEF InvitesKnown
  <2>. QED
    BY <2>1, <2>2
<1>4. ASSUME NEW q \in Request, req'[q].invite \in {req[q].invite, None},
             req'[q].invite \in Invite
      PROVE  invites'[req'[q].invite].status # "absent"
  BY <1>2, <1>4, NoneAssumption DEF InvitesKnown
<1>5. ASSUME NEW r \in Request, Step(r), NEW q \in Request, req'[q].invite \in Invite
      PROVE  invites'[req'[q].invite].status # "absent"
  <2>1. CASE q # r
    BY <1>4, <1>5, <2>1, OthersKeep DEF SameCall
  <2>2. CASE q = r /\ (Continue(r) \/ Fail(r))
    BY <1>4, <1>5, <2>2, ContinueKin DEF Kin, Carried, Idle
  <2>3. CASE q = r /\ MintInvite(r)
    <3>1. PICK i \in Invite, e \in Email :
             /\ invites' = [invites EXCEPT ![i] = [status |-> "pending", email |-> e,
                                                   redeemed_by |-> None]]
             /\ Becomes(r, ThenAudit([Idle EXCEPT !.verb = "mint_invite", !.invite = i],
                                     Row("invite_minted", None, i, None), "deliver"))
      BY <2>3, Zenon DEF MintInvite
    <3>2. req'[r].invite = i /\ invites'[i].status = "pending"
      BY <1>1, <3>1 DEF Becomes, ThenAudit, Idle
    <3>. QED
      BY <2>3, <3>2
  <2>4. CASE q = r /\ BeginRedeem(r)
    <3>1. PICK i \in sent \cap Invite : req'[r].invite = i
      BY <1>1, <2>4 DEF BeginRedeem, Becomes, Idle
    <3>. QED
      BY <1>2, <2>4, <3>1 DEF InvitesKnown
  <2>5. CASE q = r /\ Start(r) /\ ~MintInvite(r) /\ ~BeginRedeem(r)
    <3>1. req'[r].invite = None
      <4>1. CASE RevokeInvite(r) \/ RevokeBearer(r) \/ SetSignupPolicy(r)
        <5>1. ASSUME NEW verb, NEW row
              PROVE  ThenAudit([Idle EXCEPT !.verb = verb], row, "idle").invite = None
          BY DEF ThenAudit, Idle
        <5>2. ASSUME NEW s, Becomes(r, s) PROVE req'[r] = s
          BY <1>1, <5>2 DEF Becomes
        <5>3. CASE RevokeInvite(r) \/ RevokeBearer(r)
          BY <5>1, <5>2, <5>3, Zenon DEF RevokeInvite, RevokeBearer
        <5>4. CASE SetSignupPolicy(r)
          <6>1. req'[r] = ThenAudit([Idle EXCEPT !.verb = "set_signup_policy"],
                                    Row("policy_changed", None, None, None), "idle")
            BY <5>4, Zenon DEF SetSignupPolicy
          <6>. QED
            BY <5>1, <6>1, Zenon
        <5>. QED
          BY <4>1, <5>3, <5>4
      <4>2. CASE BeginRevokePending(r) \/ SweepExpiredRead(r) \/ BeginVerify(r)
                 \/ RevokeAccess(r) \/ BeginLogin(r) \/ BeginSignup(r)
        <5>1. ASSUME NEW s, Becomes(r, s) PROVE req'[r] = s
          BY <1>1, <5>1 DEF Becomes
        <5>2. CASE BeginRevokePending(r) \/ BeginLogin(r)
          BY <5>1, <5>2, Zenon DEF BeginRevokePending, BeginLogin, Idle
        <5>3. CASE SweepExpiredRead(r)
          BY <5>1, <5>3, Zenon DEF SweepExpiredRead, Idle
        <5>4. CASE BeginVerify(r)
          BY <5>1, <5>4, Zenon DEF BeginVerify, Idle
        <5>5. CASE RevokeAccess(r)
          BY <5>1, <5>5, Zenon DEF RevokeAccess, RevokeFlip, Idle
        <5>6. CASE BeginSignup(r)
          BY <5>1, <5>6, Zenon DEF BeginSignup, Idle
        <5>. QED
          BY <4>2, <5>2, <5>3, <5>4, <5>5, <5>6
      <4>. QED
        BY <2>5, <4>1, <4>2 DEF Start
    <3>. QED
      BY <1>4, <1>5, <2>5, <3>1
  <2>. QED
    BY <1>5, <2>1, <2>2, <2>3, <2>4, <2>5 DEF Step
<1>6. ASSUME Expire \/ SoftDelete \/ Restore \/ UNCHANGED vars,
             NEW q \in Request, req'[q].invite \in Invite
      PROVE  invites'[req'[q].invite].status # "absent"
  BY <1>4, <1>6, WorldKeeps
<1>. QED
  BY <1>3, <1>5, <1>6 DEF InvitesKnown, Next

-----------------------------------------------------------------------------
(* Calls without a chance.  What doomed them at their start stays so until *)
(* the statement that looks at it, and each of them turns the call away.   *)

Doomed(s) ==
    s.doomed =>
        \/ /\ s.verb = "redeem" /\ s.pc = "redeem_read" /\ s.user = None
           /\ s.invite \in Invite /\ DeadInvite(s.invite, s.email)
        \/ /\ s.verb \in {"verify", "rotate"} /\ s.token \in Token
           /\ \/ s.pc = "verify_read" /\ DeadToken(s.token)
              \/ s.pc = "verify_user" /\ users[s.user].status = "revoked"
        \/ /\ s.verb = "signup" /\ s.user = None
           /\ \/ s.pc = "signup_policy" /\ ~open
              \/ s.pc = "audit" /\ s.then = "idle"

DoomInv == \A r \in Request : Doomed(req[r])

LEMMA LateGrows == ASSUME [Next]_vars PROVE late \subseteq late'
<1>1. ASSUME NEW r \in Request, Start(r) PROVE UNCHANGED late
  BY <1>1, Zenon DEF Start, MintInvite, RevokeInvite, BeginRevokePending, SweepExpiredRead,
     BeginRedeem, BeginVerify, RevokeBearer, RevokeAccess, RevokeFlip, BeginLogin, BeginSignup,
     SetSignupPolicy
<1>2. ASSUME NEW r \in Request, Continue(r) PROVE UNCHANGED late
  BY <1>2, Zenon DEF Continue, WriteAudit, Deliver, MintBearer, InvitesRead, InvitesWrite,
     SweepExpiredWrite, RedeemRead, RedeemTx, VerifyRead, VerifyUser, EndGranted, RotateTx,
     BearersRead, BearersWrite, LoginRead, LoginPort, LoginAudit, SignupPolicy, SignupRead,
     SignupPort, SignupInsert, SignupFallback
<1>3. ASSUME NEW r \in Request, Fail(r) PROVE UNCHANGED late
  BY <1>3 DEF Fail
<1>4. SoftDelete \/ Restore \/ UNCHANGED vars => UNCHANGED late
  BY DEF SoftDelete, Restore, vars
<1>5. Expire => late \subseteq late'
  BY DEF Expire
<1>. QED
  BY <1>1, <1>2, <1>3, <1>4, <1>5 DEF Next, Step

LEMMA OpenSteps ==
    ASSUME [Next]_vars, open' # open PROVE \E r \in Request : SetSignupPolicy(r)
<1>1. ASSUME NEW r \in Request, Start(r), ~SetSignupPolicy(r) PROVE UNCHANGED open
  BY <1>1, Zenon DEF Start, MintInvite, RevokeInvite, BeginRevokePending, SweepExpiredRead,
     BeginRedeem, BeginVerify, RevokeBearer, RevokeAccess, RevokeFlip, BeginLogin, BeginSignup,
     tables
<1>2. ASSUME NEW r \in Request, Continue(r) PROVE UNCHANGED open
  BY <1>2, Zenon DEF Continue, WriteAudit, Deliver, MintBearer, InvitesRead, InvitesWrite,
     SweepExpiredWrite, RedeemRead, RedeemTx, VerifyRead, VerifyUser, EndGranted, RotateTx,
     BearersRead, BearersWrite, LoginRead, LoginPort, LoginAudit, SignupPolicy, SignupRead,
     SignupPort, SignupInsert, SignupFallback, tables
<1>3. ASSUME NEW r \in Request, Fail(r) PROVE UNCHANGED open
  BY <1>3 DEF Fail, tables
<1>4. Expire \/ SoftDelete \/ Restore \/ UNCHANGED vars => UNCHANGED open
  BY DEF Expire, SoftDelete, Restore, vars, tables
<1>. QED
  BY <1>1, <1>2, <1>3, <1>4 DEF Next, Step

(* A dead link and a dead invitation stay dead.                            *)
LEMMA DeadStays ==
    ASSUME TypeInv, BearerInv, [Next]_vars
    PROVE  /\ \A i \in Invite : \A e :
                invites[i].status # "absent" /\ DeadInvite(i, e) => DeadInvite(i, e)'
           /\ \A t \in Token : tokens[t].status # "absent" /\ DeadToken(t) => DeadToken(t)'
<1>1. ASSUME NEW i \in Invite, NEW e, invites[i].status # "absent", DeadInvite(i, e)
      PROVE  DeadInvite(i, e)'
  BY <1>1, InviteMail, LateGrows DEF DeadInvite, Pending
<1>2. ASSUME NEW t \in Token, tokens[t].status # "absent", DeadToken(t) PROVE DeadToken(t)'
  <2>1. tokens[t] \in TokenRow /\ tokens[t].user \in User /\ tokens'[t].user = tokens[t].user
    BY <1>2, TokenLife DEF TypeInv, TypeOK, BearerInv, TokensOwned
  <2>2. CASE ~Active(t)
    BY <1>2, <2>1, <2>2, TokenLife DEF TypeInv, TokenRow, DeadToken, Active
  <2>3. CASE t \in late
    BY <2>3, LateGrows DEF DeadToken
  <2>4. CASE users[tokens[t].user].status = "revoked"
    BY <2>1, <2>4, UserLife DEF TypeInv, DeadToken
  <2>. QED
    BY <1>2, <2>2, <2>3, <2>4 DEF DeadToken
<1>. QED
  BY <1>1, <1>2

LEMMA DoomStays ==
    ASSUME TypeInv, BearerInv, AskInv, InvitesKnown, DoomInv, [Next]_vars, NEW q \in Request,
           SameCall(q), req'[q].doomed /\ req[q].verb = "signup" /\ ~open => ~open'
    PROVE  Doomed(req[q])'
<1>. SUFFICES ASSUME req'[q].doomed PROVE Doomed(req[q])'
  BY DEF Doomed
<1>1. /\ req[q].doomed /\ Doomed(req[q])
      /\ req'[q].verb = req[q].verb /\ req'[q].pc = req[q].pc /\ req'[q].user = req[q].user
      /\ req'[q].token = req[q].token /\ req'[q].invite = req[q].invite
      /\ req'[q].email = req[q].email /\ req'[q].then = req[q].then
  BY DEF SameCall, DoomInv
<1>2. CASE req[q].verb = "redeem"
  BY <1>1, <1>2, DeadStays DEF Doomed, InvitesKnown
<1>3. CASE req[q].verb \in {"verify", "rotate"} /\ req[q].pc = "verify_read"
  BY <1>1, <1>3, DeadStays DEF Doomed, AskInv
<1>4. CASE req[q].verb \in {"verify", "rotate"} /\ req[q].pc = "verify_user"
  <2>1. req[q].user \in User
    BY <1>4 DEF BearerInv, Holds, TokensOwned
  <2>. QED
    BY <1>1, <1>4, <2>1, UserLife DEF Doomed, TypeInv
<1>5. CASE req[q].verb = "signup"
  BY <1>1, <1>5 DEF Doomed
<1>. QED
  BY <1>1, <1>2, <1>3, <1>4, <1>5 DEF Doomed

(* The call's own step.                                                    *)
LEMMA DoomMoves ==
    ASSUME TypeInv, BearerInv, AskInv, DoomInv, NEW r \in Request, Step(r), req'[r].doomed
    PROVE  Doomed(req[r])'
<1>1. req \in [Request -> RequestState] /\ req[r] \in RequestState
  BY DEF TypeInv, TypeOK
<1>2. ASSUME NEW s, Becomes(r, s) PROVE req'[r] = s
  BY <1>1, <1>2 DEF Becomes
<1>3. CASE BeginRedeem(r)
  <2>1. PICK i \in sent \cap Invite, e \in Email :
          req'[r] = [Idle EXCEPT !.verb = "redeem", !.pc = "redeem_read", !.invite = i,
                                 !.email = e, !.doomed = DeadInvite(i, e)]
    BY <1>2, <1>3, Zenon DEF BeginRedeem
  <2>2. DeadInvite(i, e) <=> DeadInvite(i, e)'
    BY <1>3 DEF BeginRedeem, DeadInvite, Pending, tables
  <2>3. /\ req'[r].verb = "redeem" /\ req'[r].pc = "redeem_read" /\ req'[r].user = None
        /\ req'[r].invite = i /\ req'[r].email = e /\ DeadInvite(i, e)
    BY <2>1 DEF Idle
  <2>. QED
    BY <2>2, <2>3 DEF Doomed
<1>4. CASE BeginVerify(r)
  <2>1. PICK verb \in {"verify", "rotate"}, t \in sent \cap Token :
          req'[r] = [Idle EXCEPT !.verb = verb, !.pc = "verify_read", !.token = t,
                                 !.doomed = DeadToken(t)]
    BY <1>2, <1>4, Zenon DEF BeginVerify
  <2>2. DeadToken(t) <=> DeadToken(t)'
    BY <1>4 DEF BeginVerify, DeadToken, Active, tables
  <2>3. /\ req'[r].verb = verb /\ req'[r].pc = "verify_read" /\ req'[r].token = t
        /\ DeadToken(t)
    BY <2>1 DEF Idle
  <2>. QED
    BY <2>2, <2>3 DEF Doomed
<1>5. CASE BeginSignup(r)
  <2>1. PICK e \in Email :
          Becomes(r, [Idle EXCEPT !.verb = "signup", !.pc = "signup_policy", !.email = e,
                                  !.doomed = ~open])
    BY <1>5, Zenon DEF BeginSignup
  <2>2. CASE open
    <3>1. Becomes(r, [Idle EXCEPT !.verb = "signup", !.pc = "signup_policy", !.email = e,
                                  !.doomed = FALSE])
      BY <2>1, <2>2, Zenon
    <3>. QED
      BY <1>2, <3>1, Zenon DEF Idle
  <2>3. CASE ~open
    <3>1. ASSUME NEW d
          PROVE  LET s == [Idle EXCEPT !.verb = "signup", !.pc = "signup_policy", !.email = e,
                                       !.doomed = d]
                 IN  s.verb = "signup" /\ s.pc = "signup_policy" /\ s.user = None
      BY DEF Idle
    <3>2. req'[r].verb = "signup" /\ req'[r].pc = "signup_policy" /\ req'[r].user = None
      BY <1>2, <2>1, <3>1, Zenon
    <3>3. open' = open
      BY <1>5 DEF BeginSignup, tables
    <3>. QED
      BY <2>3, <3>2, <3>3, Zenon DEF Doomed
  <2>. QED
    BY <2>2, <2>3
<1>6. CASE Start(r) /\ ~BeginRedeem(r) /\ ~BeginVerify(r) /\ ~BeginSignup(r)
  <2>1. CASE MintInvite(r) \/ RevokeInvite(r) \/ RevokeBearer(r) \/ SetSignupPolicy(r)
    <3>1. CASE MintInvite(r)
      BY <1>2, <3>1, Zenon DEF MintInvite, ThenAudit, Idle
    <3>2. CASE RevokeInvite(r)
      BY <1>2, <3>2, Zenon DEF RevokeInvite, ThenAudit, Idle
    <3>3. CASE RevokeBearer(r)
      BY <1>2, <3>3, Zenon DEF RevokeBearer, ThenAudit, Idle
    <3>4. CASE SetSignupPolicy(r)
      BY <1>1, <3>4, Zenon DEF SetSignupPolicy, ThenAudit, Idle
    <3>. QED
      BY <2>1, <3>1, <3>2, <3>3, <3>4
  <2>2. CASE BeginRevokePending(r) \/ SweepExpiredRead(r) \/ RevokeAccess(r) \/ BeginLogin(r)
    <3>1. CASE BeginRevokePending(r) \/ BeginLogin(r)
      BY <1>2, <3>1, Zenon DEF BeginRevokePending, BeginLogin, Idle
    <3>2. CASE SweepExpiredRead(r)
      <4>1. PICK S : Becomes(r, [Idle EXCEPT !.verb = "sweep_expired", !.pc = "expire_write",
                                             !.seen = S])
        BY <3>2, Zenon DEF SweepExpiredRead
      <4>. QED
        BY <1>2, <4>1, Zenon DEF Idle
    <3>3. CASE RevokeAccess(r)
      <4>1. PICK u, e : Becomes(r, [Idle EXCEPT !.verb = "revoke_access", !.pc = "bearers_read",
                                                !.user = u, !.email = e])
        BY <3>3, Zenon DEF RevokeAccess, RevokeFlip
      <4>. QED
        BY <1>2, <4>1, Zenon DEF Idle
    <3>. QED
      BY <2>2, <3>1, <3>2, <3>3
  <2>. QED
    BY <1>6, <2>1, <2>2 DEF Start
<1>7. CASE Continue(r) \/ Fail(r)
  <2>1. req[r].doomed /\ req'[r] # Idle
    BY <1>7, ContinueKin DEF Kin, Carried, Idle
  <2>2. ~Return(r)
    BY <1>2, <2>1 DEF Return
  <2>3. Doomed(req[r])
    BY DEF DoomInv
  <2>4. CASE RedeemRead(r)
    BY <2>1, <2>2, <2>3, <2>4 DEF Doomed, RedeemRead, RedeemRefused, DeadInvite, At
  <2>5. CASE VerifyRead(r)
    <3>1. PICK t \in Token :
            /\ t = req[r].token /\ DeadToken(t) /\ ~TokenRefused(t)
            /\ \E v : req'[r] = [req[r] EXCEPT !.pc = "verify_user", !.user = tokens[t].user,
                                               !.vouched = v]
      BY <1>2, <2>1, <2>2, <2>3, <2>5, Zenon DEF Doomed, VerifyRead, At
    <3>2. users[tokens[t].user].status = "revoked"
      BY <3>1 DEF DeadToken, TokenRefused
    <3>3. /\ req'[r].pc = "verify_user" /\ req'[r].user = tokens[t].user
          /\ req'[r].token = t /\ req'[r].verb = req[r].verb /\ users' = users
      BY <1>1, <2>5, <3>1 DEF RequestState, VerifyRead, tables
    <3>4. req[r].verb \in {"verify", "rotate"}
      BY <2>5 DEF VerifyRead, At, AskInv, Asks
    <3>. QED
      BY <3>2, <3>3, <3>4 DEF Doomed
  <2>6. CASE VerifyUser(r)
    BY <2>1, <2>2, <2>3, <2>6 DEF Doomed, VerifyUser, ActivePrincipal, At
  <2>7. CASE SignupPolicy(r)
    <3>1. /\ req[r].verb = "signup" /\ req[r].user = None
          /\ \E row : req'[r] = ThenAudit(req[r], row, "idle")
      BY <1>2, <2>1, <2>3, <2>7 DEF Doomed, SignupPolicy, At
    <3>2. /\ req'[r].verb = "signup" /\ req'[r].user = None
          /\ req'[r].pc = "audit" /\ req'[r].then = "idle"
      BY <1>1, <3>1 DEF ThenAudit, RequestState
    <3>. QED
      BY <3>2 DEF Doomed
  <2>8. CASE WriteAudit(r)
    BY <1>2, <2>1, <2>3, <2>8 DEF Doomed, WriteAudit, At
  <2>9. CASE Fail(r)
    BY <2>2, <2>9 DEF Fail
  <2>10. CASE Continue(r)
    <3>1. req[r].pc \in {"redeem_read", "verify_read", "verify_user", "signup_policy", "audit"}
      BY <2>1, <2>3 DEF Doomed
    <3>. QED
      BY <2>4, <2>5, <2>6, <2>7, <2>8, <2>10, <3>1, Zenon DEF Continue, Deliver, MintBearer,
         InvitesRead, InvitesWrite, SweepExpiredWrite, RedeemTx, EndGranted, RotateTx,
         BearersRead, BearersWrite, LoginRead, LoginPort, LoginAudit, SignupRead, SignupPort,
         SignupInsert, SignupFallback, At
  <2>. QED
    BY <1>7, <2>9, <2>10
<1>. QED
  BY <1>3, <1>4, <1>5, <1>6, <1>7 DEF Step

LEMMA DoomStep ==
    ASSUME TypeInv, BearerInv, AskInv, InvitesKnown, DoomInv, [Next]_vars PROVE DoomInv'
<1>1. ASSUME NEW r \in Request, Step(r), NEW q \in Request, q # r,
             req'[q].doomed, req[q].verb = "signup", ~open
      PROVE  ~open'
  <2>2. CASE open' = open
    BY <1>1, <2>2
  <2>3. CASE open' # open
    <3>1. PICK p \in Request : SetSignupPolicy(p)
      BY <2>3, OpenSteps
    <3>2. CASE p = q
      <4>1. req'[q].doomed = FALSE
        BY <3>1, <3>2, Zenon DEF SetSignupPolicy, ThenAudit, Idle, TypeInv, TypeOK
      <4>. QED
        BY <1>1, <4>1
    <3>3. CASE p # q
      <4>1. PICK enabled \in BOOLEAN :
              /\ open' = enabled
              /\ enabled => req'[q] = [req[q] EXCEPT !.doomed = FALSE]
        BY <1>1, <3>1, <3>3 DEF SetSignupPolicy
      <4>2. [req[q] EXCEPT !.doomed = FALSE].doomed = FALSE
        BY DEF TypeInv, TypeOK, RequestState
      <4>. QED
        BY <1>1, <4>1, <4>2, Zenon
    <3>. QED
      BY <3>2, <3>3
  <2>. QED
    BY <2>2, <2>3
<1>2. ASSUME NEW r \in Request, Step(r), NEW q \in Request PROVE Doomed(req[q])'
  <2>1. CASE q # r
    BY <1>1, <1>2, <2>1, OthersKeep, DoomStays
  <2>2. CASE q = r
    BY <1>2, <2>2, DoomMoves DEF Doomed
  <2>. QED
    BY <2>1, <2>2
<1>3. ASSUME Expire \/ SoftDelete \/ Restore \/ UNCHANGED vars, NEW q \in Request
      PROVE  Doomed(req[q])'
  <2>1. open' = open
    BY <1>3 DEF Expire, SoftDelete, Restore, vars, tables
  <2>. QED
    BY <1>3, <2>1, WorldKeeps, DoomStays DEF SameCall
<1>. QED
  BY <1>2, <1>3 DEF Next, DoomInv

(* Dead on arrival, for every instance: a link that was rotated, revoked   *)
(* or expired when it was presented, a revoked principal's, a decided      *)
(* invitation, a signup under a closed policy never get through, however   *)
(* their statements interleave with others.                                *)
THEOREM DeadOnArrivalHolds == Spec => []DeadOnArrival
<1>1. Init => InvitesKnown /\ DoomInv
  BY NoneAssumption DEF Init, InvitesKnown, DoomInv, Doomed, Idle
<1>2. TypeInv /\ InvitesKnown /\ [Next]_vars => InvitesKnown'
  BY InvitesKnownStep
<1>3. TypeInv /\ BearerInv /\ AskInv /\ InvitesKnown /\ DoomInv /\ [Next]_vars => DoomInv'
  BY DoomStep
<1>4. DoomInv => DeadOnArrival
  BY DEF DoomInv, Doomed, DeadOnArrival, Succeeded, At
<1>. QED
  BY <1>1, <1>2, <1>3, <1>4, TypeInvariant, BearerInvariant, AskInvariant, PTL DEF Spec
=============================================================================
