------------------------- MODULE PortalAccessProofs -------------------------
(***************************************************************************)
(* Proofs about PortalAccess, for every set of ids, every choice of verbs  *)
(* and every number of calls that stop half way: its types, what each      *)
(* table's rows can become, one live principal per email, one accepted     *)
(* credential per sign-in.  The safety rests on the types and on which     *)
(* verbs write which table.                                                *)
(***************************************************************************)
EXTENDS PortalAccess, TLAPS

-----------------------------------------------------------------------------
(* Type correctness.                                                       *)

LEMMA RowsTyped ==
    /\ NoUser \in UserRow
    /\ NoToken \in TokenRow
    /\ NoInvite \in InviteRow
    /\ Idle \in RequestState /\ Idle.pc = "idle"
    /\ \A e \in Email \cup {None} : ActiveUserRow(e) \in UserRow
    /\ \A u \in User \cup {None}, t \in Token \cup {None} : ActiveTokenRow(u, t) \in TokenRow
    /\ \A event \in Event, u \in User \cup {None}, i \in Invite \cup {None},
          t \in Token \cup {None} : Row(event, u, i, t) \in AuditRow
  BY DEF NoUser, NoToken, NoInvite, Idle, ActiveUserRow, ActiveTokenRow, Row, Event,
         UserRow, TokenRow, InviteRow, AuditRow, RequestState, PC, After, AllVerbs

LEMMA ThenAuditTyped ==
    ASSUME NEW s \in RequestState, NEW row \in AuditRow, NEW then \in After
    PROVE  ThenAudit(s, row, then) \in RequestState
<1>1. "audit" \in PC
  BY DEF PC
<1>. QED
  BY <1>1 DEF ThenAudit, RequestState

(* What TypeOK leaves out of a call's state and the actions rely on: at pc *)
(* "audit" there is a row to write, and a call knows the row it works on.  *)
Owned(s) ==
    /\ s.verb = "revoke_access" => s.user \in User
    /\ s.pc \in {"redeem_read", "redeem_tx"} => s.invite \in Invite
    /\ s.pc \in {"verify_read", "verify_user", "rotate_tx"} =>
         s.token \in Token /\ s.verb # "revoke_access"
Sound(s) == /\ s \in RequestState
            /\ s.pc = "audit" => s.row \in AuditRow
            /\ Owned(s)

CallsSound == \A r \in Request : Sound(req[r])

TypeInv == TypeOK /\ CallsSound

LEMMA SoundParts ==
    /\ Sound(Idle)
    /\ \A s \in RequestState, row \in AuditRow, then \in After :
          Owned(s) => Sound(ThenAudit(s, row, then))
    /\ \A s \in RequestState : s.pc # "audit" /\ Owned(s) => Sound(s)
<1>1. Sound(Idle)
  <2>1. "revoke_access" \in AllVerbs
    BY DEF AllVerbs
  <2>. QED
    BY <2>1, RowsTyped, NoneAssumption DEF Sound, Idle, Owned
<1>2. ASSUME NEW s \in RequestState, NEW row \in AuditRow, NEW then \in After, Owned(s)
      PROVE  Sound(ThenAudit(s, row, then))
  <2>1. ThenAudit(s, row, then) \in RequestState
    BY ThenAuditTyped
  <2>2. ThenAudit(s, row, then).row = row
    BY DEF ThenAudit, RequestState
  <2>3. Owned(ThenAudit(s, row, then))
    BY <1>2 DEF ThenAudit, RequestState, Owned
  <2>. QED
    BY <2>1, <2>2, <2>3 DEF Sound
<1>. QED
  BY <1>1, <1>2 DEF Sound

LEMMA BecomesSound ==
    ASSUME TypeInv, NEW r \in Request, NEW s, Sound(s), Becomes(r, s)
    PROVE  req' \in [Request -> RequestState] /\ CallsSound'
<1>1. s \in RequestState
  BY DEF Sound
<1>2. req' = [req EXCEPT ![r] = s]
  BY DEF Becomes
<1>3. \A q \in Request : Sound(req'[q])
  BY <1>2 DEF TypeInv, TypeOK, CallsSound
<1>. QED
  BY <1>1, <1>2, <1>3 DEF TypeInv, TypeOK, CallsSound

LEMMA ReturnSound ==
    ASSUME TypeInv, NEW r \in Request, Return(r)
    PROVE  req' \in [Request -> RequestState] /\ CallsSound'
  BY SoundParts, BecomesSound DEF Return

LEMMA GotoSound ==
    ASSUME TypeInv, NEW r \in Request, NEW pc \in PC \ {"audit", "redeem_read", "redeem_tx",
                            "verify_read", "verify_user", "rotate_tx"},
           Goto(r, pc)
    PROVE  req' \in [Request -> RequestState] /\ CallsSound'
<1> DEFINE s == [req[r] EXCEPT !.pc = pc]
<1>1. Sound(s)
  BY DEF TypeInv, CallsSound, Sound, Owned, RequestState
<1>. QED
  BY <1>1, BecomesSound DEF Goto, Becomes

LEMMA TypeInit == Init => TypeInv
<1> SUFFICES ASSUME Init PROVE TypeInv
  OBVIOUS
<1>1. faults \in 0..MaxFaults
  BY MaxFaultsAssumption DEF Init
<1>2. /\ users \in [User -> UserRow]
      /\ tokens \in [Token -> TokenRow]
      /\ invites \in [Invite -> InviteRow]
      /\ req \in [Request -> RequestState]
  BY RowsTyped DEF Init
<1>3. due \in [User -> SUBSET (Token \cup Invite)]
  BY DEF Init
<1>4. CallsSound
  BY SoundParts DEF CallsSound, Init
<1>5. QED
  BY <1>1, <1>2, <1>3, <1>4 DEF Init, TypeOK, TypeInv

(* One lemma per action: whatever the verb, the state it leaves is typed.  *)

LEMMA TypeWriteAudit == ASSUME TypeInv, NEW r \in Request, WriteAudit(r) PROVE TypeInv'
<1>1. req[r].row \in AuditRow
  BY DEF TypeInv, CallsSound, Sound, WriteAudit, At
<1>2. Sound(IF req[r].then = "idle" THEN Idle
            ELSE [req[r] EXCEPT !.pc = req[r].then, !.row = None, !.then = "idle"])
  <2>1. req[r] \in RequestState /\ Owned(req[r])
    BY DEF TypeInv, CallsSound, Sound
  <2>2. req[r].then \in After /\ After \subseteq PC /\ "idle" \in After
    BY <2>1 DEF PC, After, RequestState
  <2>3. req[r].then \notin {"audit", "redeem_read", "redeem_tx",
                           "verify_read", "verify_user", "rotate_tx"}
    BY <2>2 DEF After
  <2>4. Sound([req[r] EXCEPT !.pc = req[r].then, !.row = None, !.then = "idle"])
    BY <2>1, <2>2, <2>3 DEF Sound, RequestState, Owned
  <2>. QED
    BY <2>4, SoundParts
<1>3. req' \in [Request -> RequestState] /\ CallsSound'
  BY <1>2, BecomesSound DEF WriteAudit
<1>. QED
  BY <1>1, <1>3 DEF WriteAudit, TypeInv, TypeOK, tables, history

LEMMA TypeDeliver == ASSUME TypeInv, NEW r \in Request, Deliver(r) PROVE TypeInv'
<1>1. req' \in [Request -> RequestState] /\ CallsSound'
  BY ReturnSound DEF Deliver
<1>2. sent' \subseteq Token \cup Invite
  BY DEF Deliver, TypeInv, TypeOK, RequestState
<1>. QED
  BY <1>1, <1>2 DEF Deliver, TypeInv, TypeOK, tables, history

LEMMA TypeMintBearer == ASSUME TypeInv, NEW r \in Request, MintBearer(r) PROVE TypeInv'
<1> PICK t \in Token :
        /\ tokens' = [tokens EXCEPT ![t] = ActiveTokenRow(req[r].user, t)]
        /\ Becomes(r, ThenAudit([req[r] EXCEPT !.token = t],
                                Row("bearer_minted", req[r].user, None, t),
                                IF req[r].verb = "login" THEN "login_audit" ELSE "deliver"))
  BY DEF MintBearer
<1>1. req[r] \in RequestState /\ Owned(req[r])
  BY DEF TypeInv, CallsSound, Sound
<1>2. /\ [req[r] EXCEPT !.token = t] \in RequestState
      /\ Owned([req[r] EXCEPT !.token = t])
      /\ req[r].user \in User \cup {None}
  BY <1>1 DEF RequestState, Owned
<1>3. Row("bearer_minted", req[r].user, None, t) \in AuditRow
  BY <1>2, RowsTyped DEF Event
<1>4. (IF req[r].verb = "login" THEN "login_audit" ELSE "deliver") \in After
  BY DEF After
<1>5. req' \in [Request -> RequestState] /\ CallsSound'
  BY <1>2, <1>3, <1>4, SoundParts, BecomesSound
<1>6. tokens' \in [Token -> TokenRow]
  BY <1>2, RowsTyped DEF TypeInv, TypeOK
<1>. QED
  BY <1>5, <1>6 DEF MintBearer, TypeInv, TypeOK, history

LEMMA TypeFail == ASSUME TypeInv, NEW r \in Request, Fail(r) PROVE TypeInv'
<1>1. req' \in [Request -> RequestState] /\ CallsSound'
  BY ReturnSound DEF Fail
<1>2. faults' \in 0..MaxFaults
  BY MaxFaultsAssumption DEF Fail, TypeInv, TypeOK
<1>. QED
  BY <1>1, <1>2 DEF Fail, TypeInv, TypeOK, tables, history

(* Most actions move one call and touch no table.                          *)
LEMMA OnlyReqMoves ==
    ASSUME TypeInv, UNCHANGED <<tables, audit, late, sent, faults, history>>,
           req' \in [Request -> RequestState], CallsSound'
    PROVE  TypeInv'
  BY DEF TypeInv, TypeOK, tables, history

LEMMA ReqTyped ==
    ASSUME TypeInv, NEW r \in Request
    PROVE  /\ req[r] \in RequestState
           /\ Owned(req[r])
           /\ req[r].email \in Email \cup {None}
           /\ req[r].user \in User \cup {None}
           /\ req[r].invite \in Invite \cup {None}
           /\ req[r].token \in Token \cup {None}
           /\ req[r].seen \subseteq Token \cup Invite
  BY DEF TypeInv, CallsSound, Sound, RequestState

LEMMA ReturnMoves ==
    ASSUME TypeInv, NEW r \in Request, Return(r),
           UNCHANGED <<tables, audit, late, sent, faults, history>>
    PROVE  TypeInv'
  BY ReturnSound, OnlyReqMoves

(* A refusal that is audited and ends the call.                            *)
LEMMA AuditMoves ==
    ASSUME TypeInv, NEW r \in Request, NEW s \in RequestState, Owned(s), NEW event \in Event,
           NEW u \in User \cup {None}, NEW then \in After,
           Becomes(r, ThenAudit(s, Row(event, u, None, None), then)),
           UNCHANGED <<tables, audit, late, sent, faults, history>>
    PROVE  TypeInv'
<1>1. Row(event, u, None, None) \in AuditRow
  BY RowsTyped
<1>2. Sound(ThenAudit(s, Row(event, u, None, None), then))
  BY <1>1, SoundParts
<1>. QED
  BY <1>2, BecomesSound, OnlyReqMoves

LEMMA BecomesMoves ==
    ASSUME TypeInv, NEW r \in Request, NEW s \in RequestState, s.pc # "audit", Owned(s), Becomes(r, s),
           UNCHANGED <<tables, audit, late, sent, faults, history>>
    PROVE  TypeInv'
  BY SoundParts, BecomesSound, OnlyReqMoves

LEMMA GotoMoves ==
    ASSUME TypeInv, NEW r \in Request, NEW pc \in PC \ {"audit", "redeem_read", "redeem_tx",
                            "verify_read", "verify_user", "rotate_tx"},
           Goto(r, pc), UNCHANGED <<tables, audit, late, sent, faults, history>>
    PROVE  TypeInv'
  BY GotoSound, OnlyReqMoves

LEMMA TypeBeginRevokePending ==
    ASSUME TypeInv, NEW r \in Request, BeginRevokePending(r) PROVE TypeInv'
<1> PICK e \in Email : Becomes(r, [Idle EXCEPT !.verb = "revoke_pending_for_email",
                                               !.pc = "invites_read", !.email = e])
  BY DEF BeginRevokePending
<1> DEFINE s == [Idle EXCEPT !.verb = "revoke_pending_for_email",
                             !.pc = "invites_read", !.email = e]
<1>1. "invites_read" \in PC /\ "revoke_pending_for_email" \in AllVerbs
  BY DEF PC, AllVerbs
<1>2. s \in RequestState /\ s.pc # "audit" /\ Owned(s)
  BY <1>1, RowsTyped DEF RequestState, Owned
<1>. QED
  BY <1>2, BecomesMoves DEF BeginRevokePending

LEMMA TypeInvitesRead ==
    ASSUME TypeInv, NEW r \in Request, InvitesRead(r) PROVE TypeInv'
<1> DEFINE s == [req[r] EXCEPT !.pc = "invites_write", !.seen = PendingInvites(req[r].email)]
<1>1. "invites_write" \in PC
  BY DEF PC
<1>2. PendingInvites(req[r].email) \subseteq Token \cup Invite
  BY DEF PendingInvites
<1>3. s \in RequestState /\ s.pc # "audit" /\ Owned(s)
  BY <1>1, <1>2, ReqTyped DEF RequestState, Owned
<1>. QED
  BY <1>3, BecomesMoves DEF InvitesRead

LEMMA SetInvitesTyped ==
    ASSUME TypeInv, NEW S, NEW status \in {"revoked", "expired"}, SetInvites(S, status)
    PROVE  invites' \in [Invite -> InviteRow]
<1>1. \A i \in Invite : [invites[i] EXCEPT !.status = status] \in InviteRow
  BY DEF TypeInv, TypeOK, InviteRow
<1>. QED
  BY <1>1 DEF SetInvites, TypeInv, TypeOK

LEMMA TypeInvitesWrite ==
    ASSUME TypeInv, NEW r \in Request, InvitesWrite(r) PROVE TypeInv'
<1>1. invites' \in [Invite -> InviteRow]
  BY SetInvitesTyped DEF InvitesWrite
<1>2. CASE req[r].verb = "revoke_access" /\ Return(r) /\ settled' = settled \cup {req[r].user}
  <2>1. settled' \subseteq User
    BY <1>2, ReqTyped DEF Owned, TypeInv, TypeOK
  <2>. QED
    BY <1>1, <1>2, <2>1, ReturnSound DEF InvitesWrite, TypeInv, TypeOK
<1>3. CASE settled' = settled /\ Return(r)
  BY <1>1, <1>3, ReturnSound DEF InvitesWrite, TypeInv, TypeOK
<1>4. CASE /\ settled' = settled
           /\ Becomes(r, ThenAudit([req[r] EXCEPT !.seen = {}],
                                   Row("invite_revoked", None, None, None), "idle"))
  <2>1. Row("invite_revoked", None, None, None) \in AuditRow
    BY RowsTyped DEF Event
  <2>2. [req[r] EXCEPT !.seen = {}] \in RequestState /\ Owned([req[r] EXCEPT !.seen = {}])
    BY ReqTyped DEF RequestState, Owned
  <2>3. req' \in [Request -> RequestState] /\ CallsSound'
    BY <1>4, <2>1, <2>2, SoundParts, BecomesSound DEF After
  <2>. QED
    BY <1>1, <1>4, <2>3 DEF InvitesWrite, TypeInv, TypeOK
<1>. QED
  BY <1>2, <1>3, <1>4 DEF InvitesWrite, Return

LEMMA TypeMintInvite ==
    ASSUME TypeInv, NEW r \in Request, MintInvite(r) PROVE TypeInv'
<1> PICK i \in Invite, e \in Email :
        /\ invites' = [invites EXCEPT ![i] = [status |-> "pending", email |-> e,
                                              redeemed_by |-> None]]
        /\ Becomes(r, ThenAudit([Idle EXCEPT !.verb = "mint_invite", !.invite = i],
                                Row("invite_minted", None, i, None), "deliver"))
  BY DEF MintInvite
<1> DEFINE s == [Idle EXCEPT !.verb = "mint_invite", !.invite = i]
<1>1. s \in RequestState /\ Owned(s)
  BY RowsTyped DEF RequestState, Owned, AllVerbs
<1>2. Row("invite_minted", None, i, None) \in AuditRow
  BY RowsTyped DEF Event
<1>3. req' \in [Request -> RequestState] /\ CallsSound'
  BY <1>1, <1>2, SoundParts, BecomesSound DEF After
<1>4. invites' \in [Invite -> InviteRow]
  BY DEF TypeInv, TypeOK, InviteRow
<1>. QED
  BY <1>3, <1>4 DEF MintInvite, TypeInv, TypeOK, history

LEMMA TypeRevokeInvite ==
    ASSUME TypeInv, NEW r \in Request, RevokeInvite(r) PROVE TypeInv'
<1> PICK i \in Invite :
        /\ invites' = [invites EXCEPT ![i].status = "revoked"]
        /\ Becomes(r, ThenAudit([Idle EXCEPT !.verb = "revoke_invite"],
                                Row("invite_revoked", None, i, None), "idle"))
  BY DEF RevokeInvite
<1> DEFINE s == [Idle EXCEPT !.verb = "revoke_invite"]
<1>1. s \in RequestState /\ Owned(s)
  BY RowsTyped DEF RequestState, Owned, AllVerbs
<1>2. Row("invite_revoked", None, i, None) \in AuditRow
  BY RowsTyped DEF Event
<1>3. req' \in [Request -> RequestState] /\ CallsSound'
  BY <1>1, <1>2, SoundParts, BecomesSound DEF After
<1>4. invites' \in [Invite -> InviteRow]
  BY DEF TypeInv, TypeOK, InviteRow
<1>. QED
  BY <1>3, <1>4 DEF RevokeInvite, TypeInv, TypeOK, history

LEMMA TypeSweepExpiredRead ==
    ASSUME TypeInv, NEW r \in Request, SweepExpiredRead(r) PROVE TypeInv'
<1> DEFINE s == [Idle EXCEPT !.verb = "sweep_expired", !.pc = "expire_write",
                             !.seen = {i \in late \cap Invite : Pending(i)}]
<1>1. "expire_write" \in PC /\ "sweep_expired" \in AllVerbs
  BY DEF PC, AllVerbs
<1>2. s \in RequestState /\ s.pc # "audit" /\ Owned(s)
  BY <1>1, RowsTyped DEF RequestState, Owned
<1>. QED
  BY <1>2, BecomesMoves DEF SweepExpiredRead

LEMMA TypeSweepExpiredWrite ==
    ASSUME TypeInv, NEW r \in Request, SweepExpiredWrite(r) PROVE TypeInv'
<1>1. invites' \in [Invite -> InviteRow]
  BY SetInvitesTyped DEF SweepExpiredWrite
<1>2. req' \in [Request -> RequestState] /\ CallsSound'
  BY ReturnSound DEF SweepExpiredWrite
<1>. QED
  BY <1>1, <1>2 DEF SweepExpiredWrite, TypeInv, TypeOK, history

LEMMA TypeBeginRedeem ==
    ASSUME TypeInv, NEW r \in Request, BeginRedeem(r) PROVE TypeInv'
<1> PICK i \in Invite, e \in Email :
        Becomes(r, [Idle EXCEPT !.verb = "redeem", !.pc = "redeem_read", !.invite = i,
                                !.email = e, !.doomed = DeadInvite(i, e)])
  BY DEF BeginRedeem
<1> DEFINE s == [Idle EXCEPT !.verb = "redeem", !.pc = "redeem_read", !.invite = i,
                             !.email = e, !.doomed = DeadInvite(i, e)]
<1>1. "redeem_read" \in PC /\ "redeem" \in AllVerbs
  BY DEF PC, AllVerbs
<1>2. DeadInvite(i, e) \in BOOLEAN
  BY DEF DeadInvite
<1>3. s \in RequestState /\ s.pc # "audit" /\ Owned(s)
  BY <1>1, <1>2, RowsTyped DEF RequestState, Owned
<1>. QED
  BY <1>3, BecomesMoves DEF BeginRedeem

LEMMA TypeRedeemRead ==
    ASSUME TypeInv, NEW r \in Request, RedeemRead(r) PROVE TypeInv'
<1> DEFINE s == [req[r] EXCEPT !.pc = "redeem_tx", !.vouched = TRUE]
<1>1. CASE Return(r)
  BY <1>1, ReturnMoves DEF RedeemRead
<1>2. CASE Becomes(r, s)
  <2>1. "redeem_tx" \in PC
    BY DEF PC
  <2>2. s \in RequestState /\ s.pc # "audit" /\ Owned(s)
    BY <2>1, ReqTyped DEF RequestState, Owned, RedeemRead, At
  <2>. QED
    BY <1>2, <2>2, BecomesMoves DEF RedeemRead
<1>. QED
  BY <1>1, <1>2 DEF RedeemRead

LEMMA TypeRedeemTx ==
    ASSUME TypeInv, NEW r \in Request, RedeemTx(r) PROVE TypeInv'
<1> DEFINE i == req[r].invite
           e == invites[i].email
<1>1. i \in Invite
  BY ReqTyped DEF Owned, RedeemTx, At
<1>2. CASE Return(r) /\ UNCHANGED <<users, invites>>
  BY <1>2, ReturnSound DEF RedeemTx, TypeInv, TypeOK, history
<1>3. ASSUME NEW u \in User,
             users' = [users EXCEPT ![u] = ActiveUserRow(e)],
             invites' = [invites EXCEPT ![i].status = "redeemed", ![i].redeemed_by = u],
             Becomes(r, ThenAudit([req[r] EXCEPT !.user = u],
                                  Row("invite_redeemed", u, i, None), "mint"))
      PROVE  TypeInv'
  <2>1. e \in Email \cup {None}
    BY <1>1 DEF TypeInv, TypeOK, InviteRow
  <2>2. users' \in [User -> UserRow]
    BY <1>3, <2>1, RowsTyped DEF TypeInv, TypeOK
  <2>3. invites' \in [Invite -> InviteRow]
    BY <1>1, <1>3 DEF TypeInv, TypeOK, InviteRow
  <2>4. Row("invite_redeemed", u, i, None) \in AuditRow
    BY <1>1, RowsTyped DEF Event
  <2>5. [req[r] EXCEPT !.user = u] \in RequestState /\ Owned([req[r] EXCEPT !.user = u])
    BY ReqTyped DEF RequestState, Owned
  <2>6. req' \in [Request -> RequestState] /\ CallsSound'
    BY <1>3, <2>4, <2>5, SoundParts, BecomesSound DEF After
  <2>. QED
    BY <2>2, <2>3, <2>6 DEF RedeemTx, TypeInv, TypeOK, history
<1>. QED
  BY <1>2, <1>3 DEF RedeemTx

LEMMA TypeBeginVerify ==
    ASSUME TypeInv, NEW r \in Request, BeginVerify(r) PROVE TypeInv'
<1> PICK verb \in {"verify", "rotate"}, t \in Token :
        Becomes(r, [Idle EXCEPT !.verb = verb, !.pc = "verify_read", !.token = t,
                                !.doomed = DeadToken(t)])
  BY DEF BeginVerify
<1> DEFINE s == [Idle EXCEPT !.verb = verb, !.pc = "verify_read", !.token = t,
                             !.doomed = DeadToken(t)]
<1>1. "verify_read" \in PC /\ verb \in AllVerbs
  BY DEF PC, AllVerbs
<1>2. DeadToken(t) \in BOOLEAN
  BY DEF DeadToken
<1>3. s \in RequestState /\ s.pc # "audit" /\ Owned(s)
  BY <1>1, <1>2, RowsTyped DEF RequestState, Owned
<1>. QED
  BY <1>3, BecomesMoves DEF BeginVerify

LEMMA TypeVerifyRead ==
    ASSUME TypeInv, NEW r \in Request, VerifyRead(r) PROVE TypeInv'
<1> DEFINE t == req[r].token
           s == [req[r] EXCEPT !.pc = "verify_user", !.user = tokens[t].user,
                               !.vouched = ActivePrincipal(tokens[t].user)]
<1>1. CASE Return(r)
  BY <1>1, ReturnMoves DEF VerifyRead
<1>2. CASE Becomes(r, s)
  <2>1. t \in Token
    BY ReqTyped DEF Owned, VerifyRead, At
  <2>2. tokens[t].user \in User \cup {None}
    BY <2>1 DEF TypeInv, TypeOK, TokenRow
  <2>3. ActivePrincipal(tokens[t].user) \in BOOLEAN
    BY DEF ActivePrincipal, Live
  <2>4. "verify_user" \in PC
    BY DEF PC
  <2>5. req[r].verb # "revoke_access"
    BY ReqTyped DEF Owned, VerifyRead, At
  <2>6. s \in RequestState /\ s.pc # "audit" /\ Owned(s)
    BY <2>1, <2>2, <2>3, <2>4, <2>5, ReqTyped DEF RequestState, Owned
  <2>. QED
    BY <1>2, <2>6, BecomesMoves DEF VerifyRead
<1>. QED
  BY <1>1, <1>2 DEF VerifyRead

LEMMA TypeVerifyUser ==
    ASSUME TypeInv, NEW r \in Request, VerifyUser(r) PROVE TypeInv'
<1>1. CASE Return(r)
  BY <1>1, ReturnMoves DEF VerifyUser
<1>2. ASSUME NEW pc \in {"rotate_tx", "granted"}, Goto(r, pc)
      PROVE  TypeInv'
  <2> DEFINE s == [req[r] EXCEPT !.pc = pc]
  <2>1. pc \in PC /\ pc # "audit"
    BY DEF PC
  <2>2. s \in RequestState /\ s.pc # "audit" /\ Owned(s)
    BY <2>1, ReqTyped DEF RequestState, Owned, VerifyUser, At
  <2>. QED
    BY <1>2, <2>2, BecomesMoves DEF VerifyUser, Goto, Becomes
<1>. QED
  BY <1>1, <1>2 DEF VerifyUser

LEMMA TypeRotateTx ==
    ASSUME TypeInv, NEW r \in Request, RotateTx(r) PROVE TypeInv'
<1> DEFINE old == req[r].token
<1>1. old \in Token
  BY ReqTyped DEF Owned, RotateTx, At
<1>2. CASE Return(r) /\ UNCHANGED tokens
  BY <1>2, ReturnSound DEF RotateTx, TypeInv, TypeOK, history
<1>3. ASSUME NEW new \in Token,
             tokens' = [tokens EXCEPT ![old] = Superseded(old, new),
                                      ![new] = ActiveTokenRow(req[r].user, tokens[old].line)],
             Becomes(r, ThenAudit([req[r] EXCEPT !.token = new],
                                  Row("bearer_rotated", req[r].user, None, old), "deliver"))
      PROVE  TypeInv'
  <2>1. Superseded(old, new) \in TokenRow
    <3>1. tokens[old] \in TokenRow /\ new \in Token
      BY <1>1, <1>3 DEF TypeInv, TypeOK
    <3>. QED
      BY <3>1 DEF Superseded, TokenRow
  <2>2. tokens[old].line \in Token \cup {None}
    BY <1>1 DEF TypeInv, TypeOK, TokenRow
  <2>3. ActiveTokenRow(req[r].user, tokens[old].line) \in TokenRow
    BY <2>2, ReqTyped, RowsTyped
  <2>4. tokens' \in [Token -> TokenRow]
    BY <1>3, <2>1, <2>3 DEF TypeInv, TypeOK
  <2>5. Row("bearer_rotated", req[r].user, None, old) \in AuditRow
    BY <1>1, ReqTyped, RowsTyped DEF Event
  <2>6. [req[r] EXCEPT !.token = new] \in RequestState /\ Owned([req[r] EXCEPT !.token = new])
    BY ReqTyped DEF RequestState, Owned
  <2>7. req' \in [Request -> RequestState] /\ CallsSound'
    BY <1>3, <2>5, <2>6, SoundParts, BecomesSound DEF After
  <2>. QED
    BY <2>4, <2>7 DEF RotateTx, TypeInv, TypeOK, history
<1>. QED
  BY <1>2, <1>3 DEF RotateTx

LEMMA TypeRevokeBearer ==
    ASSUME TypeInv, NEW r \in Request, RevokeBearer(r) PROVE TypeInv'
<1> PICK t \in Token :
        /\ tokens' = [tokens EXCEPT ![t].status = "revoked"]
        /\ Becomes(r, ThenAudit([Idle EXCEPT !.verb = "revoke_bearer"],
                                Row("bearer_revoked", tokens[t].user, None, t), "idle"))
  BY DEF RevokeBearer
<1> DEFINE s == [Idle EXCEPT !.verb = "revoke_bearer"]
<1>1. s \in RequestState /\ Owned(s)
  BY RowsTyped DEF RequestState, Owned, AllVerbs
<1>2. tokens[t].user \in User \cup {None}
  BY DEF TypeInv, TypeOK, TokenRow
<1>3. Row("bearer_revoked", tokens[t].user, None, t) \in AuditRow
  BY <1>2, RowsTyped DEF Event
<1>4. req' \in [Request -> RequestState] /\ CallsSound'
  BY <1>1, <1>3, SoundParts, BecomesSound DEF After
<1>5. tokens' \in [Token -> TokenRow]
  BY DEF TypeInv, TypeOK, TokenRow
<1>. QED
  BY <1>4, <1>5 DEF RevokeBearer, TypeInv, TypeOK, history

LEMMA TypeBearersRead ==
    ASSUME TypeInv, NEW r \in Request, BearersRead(r) PROVE TypeInv'
<1> DEFINE s == [req[r] EXCEPT !.pc = "bearers_write", !.seen = ActiveTokens(req[r].user)]
<1>1. "bearers_write" \in PC
  BY DEF PC
<1>2. ActiveTokens(req[r].user) \subseteq Token \cup Invite
  BY DEF ActiveTokens
<1>3. s \in RequestState /\ s.pc # "audit" /\ Owned(s)
  BY <1>1, <1>2, ReqTyped DEF RequestState, Owned
<1>. QED
  BY <1>3, BecomesMoves DEF BearersRead

LEMMA TypeBearersWrite ==
    ASSUME TypeInv, NEW r \in Request, BearersWrite(r) PROVE TypeInv'
<1> DEFINE s == [req[r] EXCEPT !.seen = {}]
           hit == StillActive(r)
<1>1. \A t \in Token : [tokens[t] EXCEPT !.status = "revoked"] \in TokenRow
  BY DEF TypeInv, TypeOK, TokenRow
<1>2. tokens' \in [Token -> TokenRow]
  BY <1>1 DEF BearersWrite, TypeInv, TypeOK
<1>3. s \in RequestState /\ Owned(s) /\ s.user \in User \cup {None}
  BY ReqTyped DEF RequestState, Owned
<1>4. Row("bearer_revoked", s.user, None, None) \in AuditRow
  BY <1>3, RowsTyped DEF Event
<1>5. Sound([s EXCEPT !.pc = "invites_read"])
  <2>1. "invites_read" \in PC
    BY DEF PC
  <2>. QED
    BY <1>3, <2>1 DEF Sound, RequestState, Owned
<1>6. Sound(ThenAudit(s, Row("bearer_revoked", s.user, None, None), "invites_read"))
  BY <1>3, <1>4, SoundParts DEF After
<1>7. req' \in [Request -> RequestState] /\ CallsSound'
  BY <1>5, <1>6, BecomesSound DEF BearersWrite
<1>. QED
  BY <1>2, <1>7 DEF BearersWrite, TypeInv, TypeOK, history

LEMMA TypeRevokeFlip ==
    ASSUME TypeInv, NEW r \in Request, NEW u \in User, RevokeFlip(r, u) PROVE TypeInv'
<1> DEFINE s == [Idle EXCEPT !.verb = "revoke_access", !.pc = "bearers_read",
                             !.user = u, !.email = users[u].email]
<1>1. "bearers_read" \in PC /\ "revoke_access" \in AllVerbs
  BY DEF PC, AllVerbs
<1>2. users[u].email \in Email \cup {None}
  BY DEF TypeInv, TypeOK, UserRow
<1>3. s \in RequestState /\ s.pc # "audit" /\ Owned(s)
  BY <1>1, <1>2, RowsTyped DEF RequestState, Owned
<1>4. req' \in [Request -> RequestState] /\ CallsSound'
  BY <1>3, SoundParts, BecomesSound DEF RevokeFlip
<1>5. users' \in [User -> UserRow]
  BY DEF RevokeFlip, TypeInv, TypeOK, UserRow
<1>6. due' \in [User -> SUBSET (Token \cup Invite)]
  BY DEF RevokeFlip, TypeInv, TypeOK, ActiveTokens, PendingInvites
<1>. QED
  BY <1>4, <1>5, <1>6 DEF RevokeFlip, TypeInv, TypeOK

LEMMA TypeBeginLogin ==
    ASSUME TypeInv, NEW r \in Request, BeginLogin(r) PROVE TypeInv'
<1> PICK e \in Email : Becomes(r, [Idle EXCEPT !.verb = "login", !.pc = "login_read",
                                               !.email = e])
  BY DEF BeginLogin
<1> DEFINE s == [Idle EXCEPT !.verb = "login", !.pc = "login_read", !.email = e]
<1>1. "login_read" \in PC /\ "login" \in AllVerbs
  BY DEF PC, AllVerbs
<1>2. s \in RequestState /\ s.pc # "audit" /\ Owned(s)
  BY <1>1, RowsTyped DEF RequestState, Owned
<1>. QED
  BY <1>2, BecomesMoves DEF BeginLogin

LEMMA TypeLoginRead ==
    ASSUME TypeInv, NEW r \in Request, LoginRead(r) PROVE TypeInv'
<1>1. ASSUME NEW u \in User \cup {None},
             Becomes(r, ThenAudit(req[r], Row("login_refused", u, None, None), "idle"))
      PROVE  TypeInv'
  BY <1>1, ReqTyped, AuditMoves DEF LoginRead, Event, After
<1>2. ASSUME NEW u \in User, Becomes(r, [req[r] EXCEPT !.pc = "login_port", !.user = u])
      PROVE  TypeInv'
  <2> DEFINE s == [req[r] EXCEPT !.pc = "login_port", !.user = u]
  <2>1. "login_port" \in PC
    BY DEF PC
  <2>2. s \in RequestState /\ s.pc # "audit" /\ Owned(s)
    BY <2>1, ReqTyped DEF RequestState, Owned
  <2>. QED
    BY <1>2, <2>2, BecomesMoves DEF LoginRead
<1>3. CASE LiveByEmail(req[r].email) = {}
           /\ Becomes(r, ThenAudit(req[r], Row("login_refused", None, None, None), "idle"))
  BY <1>1, <1>3
<1>4. CASE \E u \in LiveByEmail(req[r].email) :
              Becomes(r, IF users[u].status = "active"
                         THEN [req[r] EXCEPT !.pc = "login_port", !.user = u]
                         ELSE ThenAudit(req[r], Row("login_refused", u, None, None), "idle"))
  <2>1. LiveByEmail(req[r].email) \subseteq User
    BY DEF LiveByEmail
  <2>. QED
    BY <1>1, <1>2, <1>4, <2>1
<1>. QED
  BY <1>3, <1>4 DEF LoginRead

LEMMA TypeLoginPort ==
    ASSUME TypeInv, NEW r \in Request, LoginPort(r) PROVE TypeInv'
<1>1. CASE Goto(r, "mint")
  <2>1. "mint" \in PC
    BY DEF PC
  <2>. QED
    BY <1>1, <2>1, GotoMoves DEF LoginPort
<1>2. ASSUME NEW event \in {"login_refused", "credential_port_not_composed"},
             Becomes(r, ThenAudit(req[r], Row(event, req[r].user, None, None), "idle"))
      PROVE  TypeInv'
  <2>1. event \in Event /\ "idle" \in After
    BY DEF Event, After
  <2>. QED
    BY <1>2, <2>1, ReqTyped, AuditMoves DEF LoginPort
<1>. QED
  BY <1>1, <1>2 DEF LoginPort

LEMMA TypeLoginAudit ==
    ASSUME TypeInv, NEW r \in Request, LoginAudit(r) PROVE TypeInv'
<1>1. Row("login_succeeded", req[r].user, None, None) \in AuditRow
  BY ReqTyped, RowsTyped DEF Event
<1>2. req' \in [Request -> RequestState] /\ CallsSound'
  <2>1. "deliver" \in PC
    BY DEF PC
  <2>. QED
    BY <2>1, GotoSound DEF LoginAudit
<1>. QED
  BY <1>1, <1>2 DEF LoginAudit, TypeInv, TypeOK, tables, history

LEMMA TypeBeginSignup ==
    ASSUME TypeInv, NEW r \in Request, BeginSignup(r) PROVE TypeInv'
<1> PICK e \in Email : Becomes(r, [Idle EXCEPT !.verb = "signup", !.pc = "signup_policy",
                                               !.email = e, !.doomed = ~open])
  BY DEF BeginSignup
<1> DEFINE s == [Idle EXCEPT !.verb = "signup", !.pc = "signup_policy", !.email = e,
                             !.doomed = ~open]
<1>1. "signup_policy" \in PC /\ "signup" \in AllVerbs
  BY DEF PC, AllVerbs
<1>2. s \in RequestState /\ s.pc # "audit" /\ Owned(s)
  BY <1>1, RowsTyped DEF RequestState, Owned
<1>. QED
  BY <1>2, BecomesMoves DEF BeginSignup

LEMMA TypeSignupPolicy ==
    ASSUME TypeInv, NEW r \in Request, SignupPolicy(r) PROVE TypeInv'
<1>0. ASSUME req' \in [Request -> RequestState] /\ CallsSound' PROVE TypeInv'
  <2>1. faults' \in 0..MaxFaults
    BY MaxFaultsAssumption DEF SignupPolicy, TypeInv, TypeOK
  <2>. QED
    BY <1>0, <2>1 DEF SignupPolicy, TypeInv, TypeOK, tables, history
<1> DEFINE s == [req[r] EXCEPT !.pc = "signup_read"]
<1>1. CASE Becomes(r, s)
  <2>1. "signup_read" \in PC
    BY DEF PC
  <2>2. s \in RequestState /\ s.pc # "audit" /\ Owned(s)
    BY <2>1, ReqTyped DEF RequestState, Owned
  <2>. QED
    BY <1>0, <1>1, <2>2, SoundParts, BecomesSound DEF SignupPolicy, tables
<1>2. CASE Becomes(r, ThenAudit(req[r], Row("signup_refused_policy_closed", None, None, None),
                                "idle"))
  <2>1. "signup_refused_policy_closed" \in Event /\ "idle" \in After
    BY DEF Event, After
  <2>2. Row("signup_refused_policy_closed", None, None, None) \in AuditRow
    BY <2>1, RowsTyped
  <2>3. Sound(ThenAudit(req[r], Row("signup_refused_policy_closed", None, None, None), "idle"))
    BY <2>1, <2>2, ReqTyped, SoundParts
  <2>. QED
    BY <1>0, <1>2, <2>3, BecomesSound DEF SignupPolicy, tables
<1>. QED
  BY <1>1, <1>2 DEF SignupPolicy

LEMMA TypeSignupRead ==
    ASSUME TypeInv, NEW r \in Request, SignupRead(r) PROVE TypeInv'
<1> DEFINE s == [req[r] EXCEPT !.verb = "login", !.pc = "login_read"]
<1>1. CASE Goto(r, "signup_port")
  <2>1. "signup_port" \in PC
    BY DEF PC
  <2>. QED
    BY <1>1, <2>1, GotoMoves DEF SignupRead
<1>2. CASE Becomes(r, s)
  <2>1. "login_read" \in PC /\ "login" \in AllVerbs
    BY DEF PC, AllVerbs
  <2>2. s \in RequestState /\ s.pc # "audit" /\ Owned(s)
    BY <2>1, ReqTyped DEF RequestState, Owned
  <2>. QED
    BY <1>2, <2>2, BecomesMoves DEF SignupRead
<1>3. CASE Return(r)
  BY <1>3, ReturnMoves DEF SignupRead
<1>. QED
  BY <1>1, <1>2, <1>3 DEF SignupRead, Return

LEMMA TypeSignupPort ==
    ASSUME TypeInv, NEW r \in Request, SignupPort(r) PROVE TypeInv'
<1>1. CASE Goto(r, "signup_insert")
  <2>1. "signup_insert" \in PC
    BY DEF PC
  <2>. QED
    BY <1>1, <2>1, GotoMoves DEF SignupPort
<1>2. CASE Return(r)
  BY <1>2, ReturnMoves DEF SignupPort
<1>3. CASE Becomes(r, ThenAudit(req[r], Row("credential_port_not_composed", None, None, None),
                                "idle"))
  <2>1. "credential_port_not_composed" \in Event /\ "idle" \in After
    BY DEF Event, After
  <2>. QED
    BY <1>3, <2>1, ReqTyped, AuditMoves DEF SignupPort
<1>. QED
  BY <1>1, <1>2, <1>3 DEF SignupPort

LEMMA SignupCreatedSound ==
    ASSUME TypeInv, NEW r \in Request, NEW u \in User
    PROVE  Sound(SignupCreated(req[r], u))
<1>1. Row("signup_created", u, None, None) \in AuditRow
  BY RowsTyped DEF Event
<1>2. [req[r] EXCEPT !.user = u] \in RequestState /\ Owned([req[r] EXCEPT !.user = u])
  BY ReqTyped DEF RequestState, Owned
<1>. QED
  BY <1>1, <1>2, SoundParts DEF SignupCreated, After

LEMMA TypeSignupInsert ==
    ASSUME TypeInv, NEW r \in Request, SignupInsert(r) PROVE TypeInv'
<1>1. CASE Goto(r, "signup_fallback") /\ UNCHANGED users
  <2>1. "signup_fallback" \in PC
    BY DEF PC
  <2>. QED
    BY <1>1, <2>1, GotoMoves DEF SignupInsert, tables
<1>2. ASSUME NEW u \in User, users' = [users EXCEPT ![u] = ActiveUserRow(req[r].email)],
             Becomes(r, SignupCreated(req[r], u))
      PROVE  TypeInv'
  <2>1. users' \in [User -> UserRow]
    BY <1>2, ReqTyped, RowsTyped DEF TypeInv, TypeOK
  <2>2. req' \in [Request -> RequestState] /\ CallsSound'
    BY <1>2, SignupCreatedSound, BecomesSound
  <2>. QED
    BY <2>1, <2>2 DEF SignupInsert, TypeInv, TypeOK, history
<1>. QED
  BY <1>1, <1>2 DEF SignupInsert

LEMMA TypeSignupFallback ==
    ASSUME TypeInv, NEW r \in Request, SignupFallback(r) PROVE TypeInv'
<1>1. CASE Return(r)
  BY <1>1, ReturnMoves DEF SignupFallback
<1>2. ASSUME NEW u \in LiveByEmail(req[r].email), Becomes(r, SignupCreated(req[r], u))
      PROVE  TypeInv'
  <2>1. u \in User
    BY DEF LiveByEmail
  <2>. QED
    BY <1>2, <2>1, SignupCreatedSound, BecomesSound, OnlyReqMoves DEF SignupFallback
<1>. QED
  BY <1>1, <1>2 DEF SignupFallback

LEMMA TypeSetSignupPolicy ==
    ASSUME TypeInv, NEW r \in Request, SetSignupPolicy(r) PROVE TypeInv'
<1> DEFINE s == ThenAudit([Idle EXCEPT !.verb = "set_signup_policy"],
                          Row("policy_changed", None, None, None), "idle")
<1> PICK enabled \in BOOLEAN :
        /\ open' = enabled
        /\ req' = [q \in Request |->
                     IF q = r THEN s
                     ELSE IF req[q].verb = "signup" /\ enabled
                          THEN [req[q] EXCEPT !.doomed = FALSE]
                          ELSE req[q]]
  BY DEF SetSignupPolicy
<1>1. Sound(s)
  <2>1. [Idle EXCEPT !.verb = "set_signup_policy"] \in RequestState
        /\ Owned([Idle EXCEPT !.verb = "set_signup_policy"])
    BY RowsTyped DEF RequestState, Owned, AllVerbs
  <2>2. Row("policy_changed", None, None, None) \in AuditRow
    BY RowsTyped DEF Event
  <2>. QED
    BY <2>1, <2>2, SoundParts DEF After
<1>2. \A q \in Request : Sound(req[q]) /\ Sound([req[q] EXCEPT !.doomed = FALSE])
  BY DEF TypeInv, CallsSound, Sound, Owned, RequestState
<1>3. \A q \in Request : Sound(req'[q])
  <2> HIDE DEF s
  <2>. QED
    BY <1>1, <1>2
<1>4. req' \in [Request -> RequestState] /\ CallsSound'
  <2>1. \A q \in Request : req'[q] \in RequestState
    BY <1>3 DEF Sound
  <2>. QED
    BY <1>3, <2>1 DEF CallsSound
<1>. QED
  BY <1>4 DEF SetSignupPolicy, TypeInv, TypeOK, history

(* A row archived or restored is still a row of the table.                 *)
LEMMA FlaggedRow ==
    ASSUME TypeInv, NEW u \in User, NEW flag \in BOOLEAN,
           users' = [users EXCEPT ![u].deleted = flag]
    PROVE  users' \in [User -> UserRow]
<1>1. users \in [User -> UserRow]
  BY DEF TypeInv, TypeOK
<1>2. users[u] \in UserRow
  BY <1>1
<1>3. [users[u] EXCEPT !.deleted = flag] \in UserRow
  BY <1>2 DEF UserRow
<1>4. users' = [users EXCEPT ![u] = [users[u] EXCEPT !.deleted = flag]]
  OBVIOUS
<1>. QED
  BY <1>1, <1>3, <1>4

LEMMA OnlyUsersMove ==
    ASSUME TypeInv, users' \in [User -> UserRow],
           UNCHANGED <<tokens, invites, open, audit, late, sent, req, faults, history>>
    PROVE  TypeInv'
  BY DEF TypeInv, TypeOK, CallsSound, history

LEMMA TypeExpire == ASSUME TypeInv, Expire PROVE TypeInv'
<1>1. late' \subseteq Token \cup Invite
  BY DEF Expire, TypeInv, TypeOK
<1>. QED
  BY <1>1 DEF Expire, TypeInv, TypeOK, CallsSound, tables, history

LEMMA TypeSoftDelete == ASSUME TypeInv, SoftDelete PROVE TypeInv'
<1> PICK u \in User : users' = [users EXCEPT ![u].deleted = TRUE]
  BY DEF SoftDelete
<1>1. users' \in [User -> UserRow]
  BY FlaggedRow
<1>. QED
  BY <1>1, OnlyUsersMove DEF SoftDelete

LEMMA TypeRestore == ASSUME TypeInv, Restore PROVE TypeInv'
<1> PICK u \in User : users' = [users EXCEPT ![u].deleted = FALSE]
  BY DEF Restore
<1>1. users' \in [User -> UserRow]
  BY FlaggedRow
<1>. QED
  BY <1>1, OnlyUsersMove DEF Restore

LEMMA TypeWorld == ASSUME TypeInv, Expire \/ SoftDelete \/ Restore PROVE TypeInv'
  BY TypeExpire, TypeSoftDelete, TypeRestore

LEMMA TypeStart == ASSUME TypeInv, NEW r \in Request, Start(r) PROVE TypeInv'
<1>1. CASE MintInvite(r) \/ RevokeInvite(r) \/ BeginRevokePending(r) \/ SweepExpiredRead(r)
           \/ BeginRedeem(r) \/ BeginVerify(r) \/ RevokeBearer(r)
  BY <1>1, TypeMintInvite, TypeRevokeInvite, TypeBeginRevokePending, TypeSweepExpiredRead,
     TypeBeginRedeem, TypeBeginVerify, TypeRevokeBearer
<1>2. CASE RevokeAccess(r)
  BY <1>2, TypeRevokeFlip DEF RevokeAccess
<1>3. CASE BeginLogin(r) \/ BeginSignup(r) \/ SetSignupPolicy(r)
  BY <1>3, TypeBeginLogin, TypeBeginSignup, TypeSetSignupPolicy
<1>. QED
  BY <1>1, <1>2, <1>3 DEF Start

LEMMA TypeEndGranted == ASSUME TypeInv, NEW r \in Request, EndGranted(r) PROVE TypeInv'
  BY ReturnMoves DEF EndGranted

LEMMA TypeContinue == ASSUME TypeInv, NEW r \in Request, Continue(r) PROVE TypeInv'
<1>1. CASE WriteAudit(r) \/ Deliver(r) \/ MintBearer(r)
           \/ InvitesRead(r) \/ InvitesWrite(r) \/ SweepExpiredWrite(r)
  BY <1>1, TypeWriteAudit, TypeDeliver, TypeMintBearer, TypeInvitesRead, TypeInvitesWrite,
     TypeSweepExpiredWrite
<1>2. CASE RedeemRead(r) \/ RedeemTx(r)
           \/ VerifyRead(r) \/ VerifyUser(r) \/ EndGranted(r) \/ RotateTx(r)
           \/ BearersRead(r) \/ BearersWrite(r)
  BY <1>2, TypeRedeemRead, TypeRedeemTx, TypeVerifyRead, TypeVerifyUser, TypeEndGranted,
     TypeRotateTx, TypeBearersRead, TypeBearersWrite
<1>3. CASE LoginRead(r) \/ LoginPort(r) \/ LoginAudit(r)
           \/ SignupPolicy(r) \/ SignupRead(r) \/ SignupPort(r)
           \/ SignupInsert(r) \/ SignupFallback(r)
  BY <1>3, TypeLoginRead, TypeLoginPort, TypeLoginAudit, TypeSignupPolicy, TypeSignupRead,
     TypeSignupPort, TypeSignupInsert, TypeSignupFallback
<1>. QED
  BY <1>1, <1>2, <1>3 DEF Continue

LEMMA TypeNext == TypeInv /\ [Next]_vars => TypeInv'
<1> SUFFICES ASSUME TypeInv, [Next]_vars PROVE TypeInv'
  OBVIOUS
<1>1. CASE UNCHANGED vars
  BY <1>1 DEF vars, TypeInv, TypeOK, CallsSound
<1>2. ASSUME NEW r \in Request, Step(r) PROVE TypeInv'
  BY <1>2, TypeStart, TypeContinue, TypeFail DEF Step
<1>. QED
  BY <1>1, <1>2, TypeWorld DEF Next

THEOREM TypeInvariant == Spec => []TypeInv
<1>. QED
  BY TypeInit, TypeNext, PTL DEF Spec

(* Every reachable state is typed: each statement of the verbs writes rows *)
(* of the tables' shapes, whatever the calls in flight.                    *)
THEOREM TypeCorrect == Spec => []TypeOK
<1>1. TypeInv => TypeOK
  BY DEF TypeInv
<1>. QED
  BY <1>1, TypeInvariant, PTL

-----------------------------------------------------------------------------
(* Which steps write which table.                                          *)

LEMMA TokenSteps ==
    ASSUME [Next]_vars, tokens' # tokens
    PROVE  \E r \in Request : MintBearer(r) \/ RotateTx(r) \/ RevokeBearer(r) \/ BearersWrite(r)
<1>1. ASSUME NEW r \in Request, Start(r), tokens' # tokens PROVE RevokeBearer(r)
  BY <1>1 DEF Start, MintInvite, RevokeInvite, BeginRevokePending, SweepExpiredRead,
     BeginRedeem, BeginVerify, RevokeAccess, RevokeFlip, BeginLogin, BeginSignup,
     SetSignupPolicy, tables
<1>2. ASSUME NEW r \in Request, Continue(r), tokens' # tokens
      PROVE  MintBearer(r) \/ RotateTx(r) \/ BearersWrite(r)
  BY <1>2 DEF Continue, WriteAudit, Deliver, InvitesRead, InvitesWrite, SweepExpiredWrite,
     RedeemRead, RedeemTx, VerifyRead, VerifyUser, EndGranted, BearersRead, LoginRead,
     LoginPort, LoginAudit, SignupPolicy, SignupRead, SignupPort, SignupInsert,
     SignupFallback, tables
<1>3. ASSUME NEW r \in Request, Fail(r) PROVE UNCHANGED tokens
  BY <1>3 DEF Fail, tables
<1>4. Expire \/ SoftDelete \/ Restore \/ UNCHANGED vars => UNCHANGED tokens
  BY DEF Expire, SoftDelete, Restore, vars, tables
<1>. QED
  BY <1>1, <1>2, <1>3, <1>4 DEF Next, Step

LEMMA InviteSteps ==
    ASSUME [Next]_vars, invites' # invites
    PROVE  \E r \in Request : \/ MintInvite(r) \/ RevokeInvite(r) \/ InvitesWrite(r)
                              \/ SweepExpiredWrite(r) \/ RedeemTx(r)
<1>1. ASSUME NEW r \in Request, Start(r), invites' # invites
      PROVE  MintInvite(r) \/ RevokeInvite(r)
  BY <1>1 DEF Start, RevokeBearer, BeginRevokePending, SweepExpiredRead,
     BeginRedeem, BeginVerify, RevokeAccess, RevokeFlip, BeginLogin, BeginSignup,
     SetSignupPolicy, tables
<1>2. ASSUME NEW r \in Request, Continue(r), invites' # invites
      PROVE  InvitesWrite(r) \/ SweepExpiredWrite(r) \/ RedeemTx(r)
  BY <1>2 DEF Continue, WriteAudit, Deliver, MintBearer, InvitesRead,
     RedeemRead, RotateTx, VerifyRead, VerifyUser, EndGranted, BearersRead, BearersWrite,
     LoginRead, LoginPort, LoginAudit, SignupPolicy, SignupRead, SignupPort, SignupInsert,
     SignupFallback, tables
<1>3. ASSUME NEW r \in Request, Fail(r) PROVE UNCHANGED invites
  BY <1>3 DEF Fail, tables
<1>4. Expire \/ SoftDelete \/ Restore \/ UNCHANGED vars => UNCHANGED invites
  BY DEF Expire, SoftDelete, Restore, vars, tables
<1>. QED
  BY <1>1, <1>2, <1>3, <1>4 DEF Next, Step

LEMMA UserCalls ==
    ASSUME NEW r \in Request, users' # users
    PROVE  /\ Start(r) => RevokeAccess(r)
           /\ Continue(r) => RedeemTx(r) \/ SignupInsert(r)
           /\ ~Fail(r)
<1>1. Start(r) => RevokeAccess(r)
  BY DEF Start, MintInvite, RevokeInvite, RevokeBearer, BeginRevokePending,
     SweepExpiredRead, BeginRedeem, BeginVerify, BeginLogin, BeginSignup,
     SetSignupPolicy, tables
<1>2. Continue(r) => RedeemTx(r) \/ SignupInsert(r)
  BY DEF Continue, WriteAudit, Deliver, MintBearer, InvitesRead, InvitesWrite,
     SweepExpiredWrite, RedeemRead, RotateTx, VerifyRead, VerifyUser, EndGranted,
     BearersRead, BearersWrite, LoginRead, LoginPort, LoginAudit, SignupPolicy,
     SignupRead, SignupPort, SignupFallback, tables
<1>3. ~Fail(r)
  BY DEF Fail, tables
<1>. QED
  BY <1>1, <1>2, <1>3

LEMMA UserSteps ==
    ASSUME [Next]_vars, users' # users
    PROVE  \/ \E r \in Request : RedeemTx(r) \/ SignupInsert(r) \/ RevokeAccess(r)
           \/ SoftDelete \/ Restore
<1>1. Expire \/ UNCHANGED vars => UNCHANGED users
  BY DEF Expire, vars, tables
<1>. QED
  BY <1>1, UserCalls DEF Next, Step

-----------------------------------------------------------------------------
(* Death is for good.                                                      *)

LEMMA TokenLife ==
    ASSUME TypeOK, [Next]_vars, NEW t \in Token
    PROVE  /\ tokens[t].status \in {"rotated", "revoked"} => tokens'[t] = tokens[t]
           /\ tokens[t].status # "absent" => tokens'[t].status # "absent"
                                             /\ tokens'[t].line = tokens[t].line
                                             /\ tokens'[t].user = tokens[t].user
<1>1. CASE UNCHANGED tokens
  BY <1>1
<1>2. ASSUME NEW r \in Request, MintBearer(r)
      PROVE  tokens[t].status # "absent" => tokens'[t] = tokens[t]
  BY <1>2 DEF MintBearer, FreshToken, TypeOK
<1>3. ASSUME NEW r \in Request, RotateTx(r)
      PROVE  \/ tokens[t].status # "absent" => tokens'[t] = tokens[t]
             \/ \E new \in Token : Active(t) /\ tokens'[t] = Superseded(t, new)
  BY <1>3 DEF RotateTx, Rotatable, FreshToken, Active, TypeOK
<1>4. ASSUME NEW r \in Request, RevokeBearer(r) \/ BearersWrite(r)
      PROVE  \/ tokens'[t] = tokens[t]
             \/ Active(t) /\ tokens'[t] = [tokens[t] EXCEPT !.status = "revoked"]
  BY <1>4 DEF RevokeBearer, BearersWrite, StillActive, Active, TypeOK
<1>5. tokens[t] \in TokenRow
  BY DEF TypeOK
<1>6. ASSUME NEW new \in Token, Active(t), tokens'[t] = Superseded(t, new)
      PROVE  /\ tokens'[t].status = "rotated" /\ tokens'[t].line = tokens[t].line
             /\ tokens'[t].user = tokens[t].user
  BY <1>5, <1>6 DEF Superseded, TokenRow
<1>7. ASSUME Active(t), tokens'[t] = [tokens[t] EXCEPT !.status = "revoked"]
      PROVE  /\ tokens'[t].status = "revoked" /\ tokens'[t].line = tokens[t].line
             /\ tokens'[t].user = tokens[t].user
  BY <1>5, <1>7 DEF TokenRow
<1>. QED
  BY <1>1, <1>2, <1>3, <1>4, <1>6, <1>7, TokenSteps DEF Active

LEMMA InviteLife ==
    ASSUME TypeInv, [Next]_vars, NEW i \in Invite,
           invites[i].status \in {"redeemed", "revoked", "expired"}
    PROVE  invites'[i] = invites[i]
<1>1. ASSUME NEW r \in Request, MintInvite(r) PROVE invites'[i] = invites[i]
  BY <1>1 DEF MintInvite, FreshInvite, TypeInv, TypeOK
<1>2. ASSUME NEW r \in Request, RevokeInvite(r) PROVE invites'[i] = invites[i]
  BY <1>2 DEF RevokeInvite, Pending, TypeInv, TypeOK
<1>3. ASSUME NEW r \in Request, InvitesWrite(r) \/ SweepExpiredWrite(r)
      PROVE  invites'[i] = invites[i]
  BY <1>3 DEF InvitesWrite, SweepExpiredWrite, SetInvites, StillPending, Pending
<1>4. ASSUME NEW r \in Request, RedeemTx(r) PROVE invites'[i] = invites[i]
  BY <1>4 DEF RedeemTx, Redeemable, Pending, TypeInv, TypeOK
<1>. QED
  BY <1>1, <1>2, <1>3, <1>4, InviteSteps

LEMMA UserLife ==
    ASSUME TypeOK, [Next]_vars, NEW u \in User
    PROVE  /\ users[u].status = "revoked" => users'[u].status = "revoked"
           /\ users[u].status # "absent" => users'[u].status # "absent"
<1>1. CASE UNCHANGED users
  BY <1>1
<1>2. ASSUME NEW r \in Request, RedeemTx(r) \/ SignupInsert(r)
      PROVE  users[u].status # "absent" => users'[u] = users[u]
  BY <1>2 DEF RedeemTx, SignupInsert, FreshUser, TypeOK
<1>3. ASSUME NEW r \in Request, RevokeAccess(r)
      PROVE  users'[u].status \in {users[u].status, "revoked"}
  BY <1>3 DEF RevokeAccess, RevokeFlip, TypeOK, UserRow
<1>4. CASE SoftDelete \/ Restore
  <2>1. users'[u].status = users[u].status
    BY <1>4 DEF SoftDelete, Restore, TypeOK, UserRow
  <2>. QED
    BY <2>1
<1>. QED
  BY <1>1, <1>2, <1>3, <1>4, UserSteps

(* Death is for good, for every instance: no verb, sweep, race or stop of  *)
(* a call revives a rotated or revoked bearer row, a decided invitation or *)
(* a revoked principal.                                                    *)
THEOREM DeathIsFinal == Spec => DeadForever
<1> DEFINE Stays ==
      /\ \A t \in Token : tokens[t].status \in {"rotated", "revoked"} => tokens'[t] = tokens[t]
      /\ \A i \in Invite : invites[i].status \in {"redeemed", "revoked", "expired"} =>
           invites'[i] = invites[i]
      /\ \A u \in User : users[u].status = "revoked" => users'[u].status = "revoked"
<1>1. TypeInv /\ [Next]_vars => Stays
  BY TokenLife, InviteLife, UserLife DEF TypeInv
<1>2. TypeInv /\ [Next]_vars => [Stays]_vars
  BY <1>1
<1>. QED
  BY <1>2, TypeInvariant, PTL DEF Spec, DeadForever

-----------------------------------------------------------------------------
(* One live principal per email.                                           *)

LEMMA OneLiveStep ==
    ASSUME TypeOK, OneLivePrincipal, [Next]_vars
    PROVE  OneLivePrincipal'
<1>1. CASE UNCHANGED users
  BY <1>1 DEF OneLivePrincipal, Live
(* Both inserts: nobody live holds the new row's email.                    *)
<1>2. ASSUME NEW n \in User, NEW e, LiveByEmail(e) = {},
             users' = [users EXCEPT ![n] = ActiveUserRow(e)]
      PROVE  OneLivePrincipal'
  <2>1. \A v \in User : Live(v) => users[v].email # e
    BY <1>2 DEF LiveByEmail
  <2>2. users'[n].email = e
    BY <1>2 DEF ActiveUserRow, TypeOK
  <2>3. \A v \in User : v # n => users'[v] = users[v]
    BY <1>2 DEF TypeOK
  <2>. QED
    BY <2>1, <2>2, <2>3 DEF OneLivePrincipal, Live
<1>3. ASSUME NEW r \in Request, RedeemTx(r), users' # users PROVE OneLivePrincipal'
  BY <1>2, <1>3 DEF RedeemTx
<1>4. ASSUME NEW r \in Request, SignupInsert(r), users' # users PROVE OneLivePrincipal'
  BY <1>2, <1>4 DEF SignupInsert
<1>5. ASSUME NEW r \in Request, RevokeAccess(r) PROVE OneLivePrincipal'
  <2>1. PICK u \in User : Live(u) /\ users' = [users EXCEPT ![u].status = "revoked"]
    BY <1>5 DEF RevokeAccess, RevokeFlip, Revocable
  <2>2. \A v \in User : /\ users'[v].email = users[v].email
                        /\ users'[v].deleted = users[v].deleted
                        /\ v # u => users'[v].status = users[v].status
    BY <2>1 DEF TypeOK, UserRow
  <2>3. \A v \in User : Live(v)' => Live(v)
    BY <2>1, <2>2 DEF Live
  <2>. QED
    BY <2>2, <2>3 DEF OneLivePrincipal
<1>6. CASE SoftDelete
  <2>1. PICK u \in User : users' = [users EXCEPT ![u].deleted = TRUE]
    BY <1>6 DEF SoftDelete
  <2>2. \A v \in User : /\ users'[v].email = users[v].email
                        /\ users'[v].status = users[v].status
                        /\ v # u => users'[v].deleted = users[v].deleted
                        /\ users'[u].deleted
    BY <2>1 DEF TypeOK, UserRow
  <2>3. \A v \in User : Live(v)' => Live(v)
    BY <2>2 DEF Live
  <2>. QED
    BY <2>2, <2>3 DEF OneLivePrincipal
<1>7. CASE Restore
  <2>1. PICK u \in User : /\ LiveByEmail(users[u].email) = {}
                          /\ users' = [users EXCEPT ![u].deleted = FALSE]
    BY <1>7 DEF Restore
  <2>2. \A v \in User : /\ users'[v].email = users[v].email
                        /\ users'[v].status = users[v].status
                        /\ v # u => users'[v].deleted = users[v].deleted
    BY <2>1 DEF TypeOK, UserRow
  <2>3. \A v \in User : Live(v) => users[v].email # users[u].email
    BY <2>1 DEF LiveByEmail
  <2>4. \A v \in User : v # u /\ Live(v)' => Live(v)
    BY <2>2 DEF Live
  <2>. QED
    BY <2>2, <2>3, <2>4 DEF OneLivePrincipal
<1>. QED
  BY <1>1, <1>3, <1>4, <1>5, <1>6, <1>7, UserSteps

(* One live principal per email, for every instance: redemption, signup's  *)
(* insert and the host's restore are fenced by the same index.             *)
THEOREM OneLivePrincipalHolds == Spec => []OneLivePrincipal
<1>1. Init => OneLivePrincipal
  BY DEF Init, OneLivePrincipal, Live, NoUser
<1>2. TypeInv /\ OneLivePrincipal /\ [Next]_vars => OneLivePrincipal'
  BY OneLiveStep DEF TypeInv
<1>. QED
  BY <1>1, <1>2, TypeInvariant, PTL DEF Spec

-----------------------------------------------------------------------------
(* One accepted credential per sign-in.  OneHolder alone is not inductive: *)
(* a mint could take the id of a line that is already in use.  LinesBorn   *)
(* says the mint a line is named for is a row, so a fresh row's is not.    *)

LinesBorn ==
    \A t \in Token : tokens[t].status # "absent" =>
        tokens[t].line \in Token /\ tokens[tokens[t].line].status # "absent"

HolderInv == LinesBorn /\ OneHolder

LEMMA LinesBornStep ==
    ASSUME TypeInv, LinesBorn, [Next]_vars PROVE LinesBorn'
<1> SUFFICES ASSUME NEW t \in Token, tokens'[t].status # "absent"
             PROVE  tokens'[t].line \in Token /\ tokens'[tokens'[t].line].status # "absent"
  BY DEF LinesBorn
<1>1. CASE tokens[t].status # "absent"
  BY <1>1, TokenLife DEF LinesBorn, TypeInv
<1>2. CASE tokens[t].status = "absent"
  <2>1. tokens' # tokens
    BY <1>2
  <2>2. ASSUME NEW r \in Request, MintBearer(r) PROVE tokens'[t].line = t
    BY <1>2, <2>2 DEF MintBearer, ActiveTokenRow, TypeInv, TypeOK
  <2>3. ASSUME NEW r \in Request, RotateTx(r)
        PROVE  \E old \in Token : Active(old) /\ tokens'[t].line = tokens[old].line
    <3> DEFINE old == req[r].token
    <3>1. old \in Token
      BY <2>3, ReqTyped DEF Owned, RotateTx, At
    <3>2. PICK new \in Token :
             /\ Active(old)
             /\ tokens' = [tokens EXCEPT ![old] = Superseded(old, new),
                                 ![new] = ActiveTokenRow(req[r].user, tokens[old].line)]
      BY <2>1, <2>3 DEF RotateTx, Rotatable
    <3>3. t # old
      BY <1>2, <3>2 DEF Active
    <3>4. t = new
      BY <1>2, <3>2, <3>3 DEF TypeInv, TypeOK
    <3>. QED
      BY <3>1, <3>2, <3>3, <3>4 DEF ActiveTokenRow, TypeInv, TypeOK
  <2>4. ASSUME NEW r \in Request, RevokeBearer(r) \/ BearersWrite(r) PROVE FALSE
    BY <1>2, <2>4 DEF RevokeBearer, BearersWrite, StillActive, Active, TypeInv, TypeOK
  <2>5. \A old \in Token : Active(old) =>
          tokens[old].line \in Token /\ tokens'[tokens[old].line].status # "absent"
    BY TokenLife DEF LinesBorn, Active, TypeInv
  <2>. QED
    BY <2>1, <2>2, <2>3, <2>4, <2>5, TokenSteps
<1>. QED
  BY <1>1, <1>2

LEMMA OneHolderStep ==
    ASSUME TypeInv, HolderInv, [Next]_vars PROVE OneHolder'
<1>1. CASE UNCHANGED tokens
  BY <1>1 DEF HolderInv, OneHolder, Active
<1>2. ASSUME NEW r \in Request, MintBearer(r) PROVE OneHolder'
  <2>1. PICK n \in Token : /\ FreshToken(n)
                           /\ tokens' = [tokens EXCEPT ![n] = ActiveTokenRow(req[r].user, n)]
    BY <1>2 DEF MintBearer
  <2>2. tokens'[n].line = n /\ \A s \in Token : s # n => tokens'[s] = tokens[s]
    BY <2>1 DEF ActiveTokenRow, TypeInv, TypeOK
  <2>3. \A s \in Token : Active(s) => tokens[s].line # n
    BY <2>1 DEF HolderInv, LinesBorn, Active, FreshToken
  <2>. QED
    BY <2>2, <2>3 DEF HolderInv, OneHolder, Active
<1>3. ASSUME NEW r \in Request, RotateTx(r), tokens' # tokens PROVE OneHolder'
  <2> DEFINE old == req[r].token
  <2>1. old \in Token
    BY <1>3, ReqTyped DEF Owned, RotateTx, At
  <2>2. PICK new \in Token :
           /\ Active(old)
           /\ FreshToken(new)
           /\ tokens' = [tokens EXCEPT ![old] = Superseded(old, new),
                               ![new] = ActiveTokenRow(req[r].user, tokens[old].line)]
    BY <1>3 DEF RotateTx, Rotatable
  <2>3. new # old
    BY <2>2 DEF Active, FreshToken
  <2>4. tokens'[new].line = tokens[old].line
    BY <2>1, <2>2, <2>3 DEF ActiveTokenRow, TypeInv, TypeOK
  <2>5. tokens'[old].status = "rotated"
    <3>1. tokens'[old] = Superseded(old, new) /\ tokens[old] \in TokenRow
      BY <2>1, <2>2, <2>3 DEF TypeInv, TypeOK
    <3>. QED
      BY <3>1 DEF Superseded, TokenRow
  <2>6. \A s \in Token : s \notin {old, new} => tokens'[s] = tokens[s]
    BY <2>2 DEF TypeInv, TypeOK
  <2>7. \A s \in Token : Active(s) /\ tokens[s].line = tokens[old].line => s = old
    BY <2>1, <2>2 DEF HolderInv, OneHolder
  <2>8. \A s \in Token : Active(s)' /\ s # new => s # old /\ Active(s)
                                                  /\ tokens'[s] = tokens[s]
    BY <2>5, <2>6 DEF Active
  <2>. QED
    BY <2>4, <2>7, <2>8 DEF HolderInv, OneHolder
<1>4. ASSUME NEW r \in Request, RevokeBearer(r) \/ BearersWrite(r) PROVE OneHolder'
  <2>1. \A s \in Token : \/ tokens'[s] = tokens[s]
                         \/ tokens'[s] = [tokens[s] EXCEPT !.status = "revoked"]
    BY <1>4 DEF RevokeBearer, BearersWrite, TypeInv, TypeOK
  <2>2. \A s \in Token : tokens[s] \in TokenRow
    BY DEF TypeInv, TypeOK
  <2>3. \A s \in Token : Active(s)' => tokens'[s] = tokens[s]
    BY <2>1, <2>2 DEF Active, TokenRow
  <2>. QED
    BY <2>3 DEF HolderInv, OneHolder, Active
<1>. QED
  BY <1>1, <1>2, <1>3, <1>4, TokenSteps

(* One accepted credential per sign-in, for every instance: however many   *)
(* calls rotate one link at once, one successor at most is live.           *)
THEOREM OneHolderHolds == Spec => []OneHolder
<1>1. Init => HolderInv
  BY DEF Init, HolderInv, LinesBorn, OneHolder, Active, NoToken
<1>2. TypeInv /\ HolderInv /\ [Next]_vars => HolderInv'
  BY LinesBornStep, OneHolderStep DEF HolderInv
<1>3. HolderInv => OneHolder
  BY DEF HolderInv
<1>. QED
  BY <1>1, <1>2, <1>3, TypeInvariant, PTL DEF Spec
=============================================================================
