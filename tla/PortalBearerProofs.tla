-------------------------- MODULE PortalBearerProofs --------------------------
(***************************************************************************)
(* What a bearer call knows between its statements, for every instance of  *)
(* PortalAccess: the principal it holds is the token's own, and it was     *)
(* good at one instant.  From it, the chains that rotations leave.         *)
(***************************************************************************)
EXTENDS PortalAccessProofs

-----------------------------------------------------------------------------
(* Which steps bring a call to the points these proofs look at.            *)

(* What one call's step leaves of another call.                            *)
SameCall(q) ==
    /\ req'[q].verb = req[q].verb /\ req'[q].pc = req[q].pc
    /\ req'[q].user = req[q].user /\ req'[q].token = req[q].token
    /\ req'[q].then = req[q].then /\ req'[q].vouched = req[q].vouched
    /\ req'[q].row = req[q].row /\ req'[q].invite = req[q].invite
    /\ req'[q].email = req[q].email /\ req'[q].seen = req[q].seen
    /\ req'[q].doomed => req[q].doomed

LEMMA OthersKeep ==
    ASSUME TypeInv, NEW r \in Request, Step(r), NEW q \in Request, q # r
    PROVE  SameCall(q)
<1>1. req \in [Request -> RequestState] /\ req[q] \in RequestState
  BY DEF TypeInv, TypeOK
<1>2. ASSUME NEW s, Becomes(r, s) PROVE SameCall(q)
  BY <1>1, <1>2 DEF Becomes, SameCall
<1>3. ASSUME NEW pc, Goto(r, pc) PROVE SameCall(q)
  BY <1>1, <1>3 DEF Goto, SameCall
<1>4. Return(r) => SameCall(q)
  BY <1>2 DEF Return
<1>5. CASE SetSignupPolicy(r)
  BY <1>1, <1>5 DEF SetSignupPolicy, SameCall, RequestState
<1>6. CASE Start(r) /\ ~SetSignupPolicy(r)
  BY <1>2, <1>6 DEF Start, MintInvite, RevokeInvite, BeginRevokePending, SweepExpiredRead,
     BeginRedeem, BeginVerify, RevokeBearer, RevokeAccess, RevokeFlip, BeginLogin, BeginSignup
<1>7. CASE Fail(r)
  BY <1>4, <1>7 DEF Fail
<1>8. CASE Continue(r)
  <2>1. CASE WriteAudit(r) \/ Deliver(r) \/ MintBearer(r) \/ InvitesRead(r)
             \/ SweepExpiredWrite(r) \/ RedeemRead(r) \/ VerifyRead(r)
             \/ EndGranted(r) \/ RotateTx(r) \/ BearersRead(r) \/ BearersWrite(r)
    BY <1>2, <1>4, <2>1 DEF WriteAudit, Deliver, MintBearer, InvitesRead, SweepExpiredWrite,
       RedeemRead, VerifyRead, EndGranted, RotateTx, BearersRead, BearersWrite
  <2>2. CASE InvitesWrite(r) \/ RedeemTx(r) \/ LoginRead(r) \/ LoginAudit(r)
             \/ LoginPort(r) \/ VerifyUser(r)
    BY <1>2, <1>3, <1>4, <2>2 DEF InvitesWrite, RedeemTx, LoginRead, LoginAudit, LoginPort,
       VerifyUser
  <2>3. CASE SignupPolicy(r) \/ SignupRead(r) \/ SignupPort(r) \/ SignupInsert(r)
             \/ SignupFallback(r)
    BY <1>2, <1>3, <1>4, <2>3 DEF SignupPolicy, SignupRead, SignupPort, SignupInsert,
       SignupFallback
  <2>. QED
    BY <1>8, <2>1, <2>2, <2>3 DEF Continue
<1>. QED
  BY <1>5, <1>6, <1>7, <1>8 DEF Step

LEMMA WorldKeeps ==
    ASSUME Expire \/ SoftDelete \/ Restore \/ UNCHANGED vars PROVE UNCHANGED req
  BY DEF Expire, SoftDelete, Restore, vars

(* A call that is now at one of these points was there before, or has just *)
(* taken the one step that leads there.                                    *)
Arrives(r) ==
    /\ req'[r].pc = "login_port" => LoginRead(r)
    /\ req'[r].pc = "verify_user" => VerifyRead(r)
    /\ req'[r].pc \in {"rotate_tx", "granted"} => VerifyUser(r)
    /\ req'[r].pc = "mint" => LoginPort(r) \/ WriteAudit(r)
    /\ req'[r].pc = "audit" /\ req'[r].then = "mint" =>
         RedeemTx(r) \/ SignupInsert(r) \/ SignupFallback(r)

LEMMA StepArrives ==
    ASSUME TypeInv, NEW r \in Request, Step(r) PROVE Arrives(r)
<1> DEFINE Elsewhere(s) == /\ s.pc \notin {"login_port", "verify_user", "rotate_tx",
                                           "granted", "mint"}
                           /\ s.pc = "audit" => s.then # "mint"
<1>1. req \in [Request -> RequestState] /\ req[r] \in RequestState
  BY DEF TypeInv, TypeOK
<1>2. ASSUME NEW s, Becomes(r, s) PROVE req'[r] = s
  BY <1>1, <1>2 DEF Becomes
<1>3. ASSUME NEW pc, Goto(r, pc)
      PROVE  req'[r].pc = pc /\ req'[r].then = req[r].then
  BY <1>1, <1>3 DEF Goto, RequestState
<1>4. ASSUME NEW s \in RequestState, NEW row, NEW then, Becomes(r, ThenAudit(s, row, then))
      PROVE  req'[r].pc = "audit" /\ req'[r].then = then
  BY <1>2, <1>4 DEF ThenAudit, RequestState
<1>5. Elsewhere(req'[r]) => Arrives(r)
  BY DEF Arrives
<1>6. Idle \in RequestState /\ Idle.pc = "idle"
  BY RowsTyped
<1>7. Return(r) => Elsewhere(req'[r])
  BY <1>2, <1>6 DEF Return
<1> HIDE DEF Elsewhere
<1>8. ASSUME NEW s \in RequestState, NEW row, NEW then \in After \ {"mint"},
             Becomes(r, ThenAudit(s, row, then))
      PROVE  Elsewhere(req'[r])
  BY <1>4, <1>8 DEF Elsewhere
<1>9. CASE Start(r)
  <2>1. ASSUME NEW s \in RequestState, NEW row, NEW then \in {"idle", "deliver"},
               Becomes(r, ThenAudit(s, row, then))
        PROVE  Arrives(r)
    BY <1>5, <1>8, <2>1 DEF After
  <2>2. ASSUME NEW s, Becomes(r, s), s.pc \in {"invites_read", "expire_write", "redeem_read",
                        "verify_read", "bearers_read", "login_read", "signup_policy"}
        PROVE  Arrives(r)
    BY <1>2, <1>5, <2>2 DEF Elsewhere
  <2>3. CASE MintInvite(r) \/ RevokeInvite(r) \/ RevokeBearer(r)
    BY <1>6, <2>1, <2>3 DEF MintInvite, RevokeInvite, RevokeBearer, Idle, RequestState, AllVerbs
  <2>4. CASE SetSignupPolicy(r)
    BY <1>1, <2>4 DEF SetSignupPolicy, Idle, ThenAudit, Elsewhere, Arrives
  <2>5. CASE BeginRevokePending(r) \/ SweepExpiredRead(r) \/ BeginRedeem(r) \/ BeginVerify(r)
             \/ RevokeAccess(r) \/ BeginLogin(r) \/ BeginSignup(r)
    BY <2>2, <2>5 DEF BeginRevokePending, SweepExpiredRead, BeginRedeem, BeginVerify,
       RevokeAccess, RevokeFlip, BeginLogin, BeginSignup, Idle
  <2>. QED
    BY <1>9, <2>3, <2>4, <2>5 DEF Start
<1>10. CASE Fail(r) \/ Deliver(r) \/ EndGranted(r) \/ SweepExpiredWrite(r)
  BY <1>5, <1>7, <1>10 DEF Fail, Deliver, EndGranted, SweepExpiredWrite
<1>11. CASE WriteAudit(r)
  <2>1. CASE Return(r)
    BY <1>5, <1>7, <2>1
  <2>2. CASE Becomes(r, [req[r] EXCEPT !.pc = req[r].then, !.row = None, !.then = "idle"])
    <3>1. req'[r].pc \in After
      BY <1>1, <1>2, <2>2 DEF RequestState
    <3>2. "audit" \notin After /\ "login_port" \notin After /\ "verify_user" \notin After
          /\ "rotate_tx" \notin After /\ "granted" \notin After
      BY DEF After
    <3>. QED
      BY <1>11, <3>1, <3>2 DEF Arrives
  <2>. QED
    BY <1>11, <2>1, <2>2 DEF WriteAudit, Return
<1>12. ASSUME NEW s \in RequestState, NEW then \in After \ {"mint"}, NEW row,
              Becomes(r, Idle) \/ Becomes(r, ThenAudit(s, row, then))
       PROVE  Arrives(r)
  BY <1>5, <1>7, <1>8, <1>12 DEF Return
<1>13. CASE MintBearer(r)
  <2>1. PICK t \in Token : Becomes(r, ThenAudit([req[r] EXCEPT !.token = t],
                               Row("bearer_minted", req[r].user, None, t),
                               IF req[r].verb = "login" THEN "login_audit" ELSE "deliver"))
    BY <1>13 DEF MintBearer
  <2>2. [req[r] EXCEPT !.token = t] \in RequestState
    BY <1>1 DEF RequestState
  <2>. QED
    BY <1>12, <2>1, <2>2 DEF After
<1>14. CASE RotateTx(r)
  <2>1. ASSUME NEW t \in Token PROVE [req[r] EXCEPT !.token = t] \in RequestState
    BY <1>1 DEF RequestState
  <2>. QED
    <3>1. CASE Return(r)
      BY <1>5, <1>7, <3>1
    <3>2. ASSUME NEW t \in Token,
                 Becomes(r, ThenAudit([req[r] EXCEPT !.token = t],
                            Row("bearer_rotated", req[r].user, None, req[r].token), "deliver"))
          PROVE  Arrives(r)
      BY <1>12, <2>1, <3>2 DEF After
    <3>. QED
      BY <1>14, <3>1, <3>2 DEF RotateTx
<1>15. CASE InvitesWrite(r) \/ BearersWrite(r)
  <2>1. [req[r] EXCEPT !.seen = {}] \in RequestState
    BY <1>1 DEF RequestState
  <2>2. Becomes(r, [[req[r] EXCEPT !.seen = {}] EXCEPT !.pc = "invites_read"]) => Arrives(r)
    BY <1>1, <1>2, <1>5 DEF Elsewhere, RequestState
  <2>. QED
    BY <1>12, <1>15, <2>1, <2>2 DEF InvitesWrite, BearersWrite, Return, After
<1>16. CASE InvitesRead(r) \/ BearersRead(r) \/ RedeemRead(r)
  <2>1. \/ req'[r].pc \in {"invites_write", "bearers_write", "redeem_tx"}
        \/ Return(r)
    BY <1>1, <1>2, <1>16 DEF InvitesRead, BearersRead, RedeemRead, RequestState
  <2>. QED
    BY <1>5, <1>7, <2>1 DEF Elsewhere
<1>17. CASE LoginAudit(r) \/ SignupPolicy(r) \/ SignupRead(r) \/ SignupPort(r)
  <2>1. ASSUME NEW pc \in {"deliver", "signup_read", "signup_port", "signup_insert", "login_read"},
               req'[r].pc = pc
        PROVE  Arrives(r)
    BY <1>5, <2>1 DEF Elsewhere
  <2>2. CASE LoginAudit(r)
    BY <1>3, <2>1, <2>2 DEF LoginAudit
  <2>3. CASE SignupPolicy(r)
    <3>1. CASE Becomes(r, [req[r] EXCEPT !.pc = "signup_read"])
      BY <1>1, <1>2, <2>1, <3>1 DEF RequestState
    <3>2. CASE Becomes(r, ThenAudit(req[r], Row("signup_refused_policy_closed", None, None, None),
                                    "idle"))
      BY <1>1, <1>12, <3>2 DEF After
    <3>. QED
      BY <2>3, <3>1, <3>2 DEF SignupPolicy
  <2>4. CASE SignupRead(r)
    <3>1. CASE Goto(r, "signup_port")
      BY <1>3, <2>1, <3>1
    <3>2. CASE Becomes(r, [req[r] EXCEPT !.verb = "login", !.pc = "login_read"])
      BY <1>1, <1>2, <2>1, <3>2 DEF RequestState
    <3>3. CASE Becomes(r, Idle)
      BY <1>5, <1>7, <3>3 DEF Return
    <3>. QED
      BY <2>4, <3>1, <3>2, <3>3 DEF SignupRead
  <2>5. CASE SignupPort(r)
    BY <1>1, <1>3, <1>12, <2>1, <2>5 DEF SignupPort, Return, After
  <2>. QED
    BY <1>17, <2>2, <2>3, <2>4, <2>5
<1>18. CASE RedeemTx(r)
  <2>1. ASSUME NEW u \in User PROVE [req[r] EXCEPT !.user = u] \in RequestState
    BY <1>1 DEF RequestState
  <2>. QED
    BY <1>4, <1>5, <1>7, <1>18, <2>1 DEF RedeemTx, Arrives
<1>19. CASE SignupInsert(r) \/ SignupFallback(r)
  <2>1. ASSUME NEW u \in User PROVE [req[r] EXCEPT !.user = u] \in RequestState
    BY <1>1 DEF RequestState
  <2>2. ASSUME NEW u \in User, Becomes(r, SignupCreated(req[r], u))
        PROVE  req'[r].pc = "audit"
    BY <1>4, <2>1, <2>2 DEF SignupCreated
  <2>3. req'[r].pc \in {"audit", "signup_fallback"} \/ Return(r)
    BY <1>3, <1>19, <2>2 DEF SignupInsert, SignupFallback, LiveByEmail
  <2>. QED
    BY <1>5, <1>7, <1>19, <2>3 DEF Arrives, Elsewhere
<1>20. CASE VerifyRead(r)
  <2>1. req'[r].pc = "verify_user" \/ Return(r)
    BY <1>1, <1>2, <1>20 DEF VerifyRead, RequestState
  <2>. QED
    BY <1>5, <1>7, <1>20, <2>1 DEF Arrives
<1>21. CASE VerifyUser(r)
  BY <1>3, <1>5, <1>7, <1>21 DEF VerifyUser, Arrives
<1>22. CASE LoginRead(r)
  <2>1. req'[r].pc = "login_port" \/ (req'[r].pc = "audit" /\ req'[r].then = "idle")
    BY <1>1, <1>2, <1>4, <1>22 DEF LoginRead, RequestState
  <2>. QED
    BY <1>22, <2>1 DEF Arrives
<1>23. CASE LoginPort(r)
  <2>1. req'[r].pc = "mint" \/ (req'[r].pc = "audit" /\ req'[r].then = "idle")
    BY <1>1, <1>3, <1>4, <1>23 DEF LoginPort
  <2>. QED
    BY <1>23, <2>1 DEF Arrives
<1>. QED
  BY <1>9, <1>10, <1>11, <1>13, <1>14, <1>15, <1>16, <1>17, <1>18, <1>19, <1>20, <1>21,
     <1>22, <1>23 DEF Step, Continue

-----------------------------------------------------------------------------
(* What a call holds.                                                      *)

(* The principal a call is about to act for is one; a bearer call's is the *)
(* owner of its token.                                                     *)
Holds(s) ==
    /\ \/ s.pc \in {"login_port", "mint"}
       \/ s.pc = "audit" /\ s.then = "mint"
       => s.user \in User
    /\ s.pc \in {"verify_user", "rotate_tx", "granted"} =>
         /\ s.token \in Token
         /\ tokens[s.token].status # "absent"
         /\ s.user = tokens[s.token].user

(* Not vouched for when the first SELECT ran, the principal is revoked, and*)
(* the second SELECT will say so.                                          *)
Vouches(s) ==
    /\ s.pc = "verify_user" => s.vouched \/ users[s.user].status = "revoked"
    /\ s.pc \in {"rotate_tx", "granted"} => s.vouched

TokensOwned == \A t \in Token : tokens[t].status # "absent" => tokens[t].user \in User

BearerInv ==
    /\ TokensOwned
    /\ \A r \in Request : Holds(req[r]) /\ Vouches(req[r])

LEMMA TokensOwnedStep ==
    ASSUME TypeInv, BearerInv, [Next]_vars PROVE TokensOwned'
<1> SUFFICES ASSUME NEW t \in Token, tokens'[t].status # "absent"
             PROVE  tokens'[t].user \in User
  BY DEF TokensOwned
<1>1. CASE tokens[t].status # "absent"
  BY <1>1, TokenLife DEF BearerInv, TokensOwned, TypeInv
<1>2. CASE tokens[t].status = "absent"
  <2>1. tokens' # tokens
    BY <1>2
  <2>2. ASSUME NEW r \in Request, MintBearer(r) PROVE tokens'[t].user \in User
    <3>1. req[r].user \in User
      BY <2>2 DEF BearerInv, Holds, MintBearer, At
    <3>. QED
      BY <1>2, <2>2, <3>1 DEF MintBearer, ActiveTokenRow, TypeInv, TypeOK
  <2>3. ASSUME NEW r \in Request, RotateTx(r) PROVE tokens'[t].user \in User
    <3> DEFINE old == req[r].token
    <3>1. old \in Token /\ req[r].user = tokens[old].user
      BY <2>3 DEF BearerInv, Holds, RotateTx, At
    <3>2. PICK new \in Token :
             /\ Active(old)
             /\ tokens' = [tokens EXCEPT ![old] = Superseded(old, new),
                                 ![new] = ActiveTokenRow(req[r].user, tokens[old].line)]
      BY <2>1, <2>3 DEF RotateTx, Rotatable
    <3>3. t # old
      BY <1>2, <3>2 DEF Active
    <3>4. t = new
      BY <1>2, <3>2, <3>3 DEF TypeInv, TypeOK
    <3>5. tokens[old].user \in User
      BY <3>1, <3>2 DEF BearerInv, TokensOwned, Active
    <3>. QED
      BY <3>1, <3>2, <3>4, <3>5 DEF ActiveTokenRow, TypeInv, TypeOK
  <2>4. ASSUME NEW r \in Request, RevokeBearer(r) \/ BearersWrite(r) PROVE FALSE
    BY <1>2, <2>4 DEF RevokeBearer, BearersWrite, StillActive, Active, TypeInv, TypeOK
  <2>. QED
    BY <2>1, <2>2, <2>3, <2>4, TokenSteps
<1>. QED
  BY <1>1, <1>2

(* A call that does not move keeps what it holds: nothing it rests on is   *)
(* ever taken back.                                                        *)
LEMMA HoldsStays ==
    ASSUME TypeInv, BearerInv, [Next]_vars, NEW r \in Request, SameCall(r)
    PROVE  Holds(req[r])' /\ Vouches(req[r])'
<1> DEFINE s == req[r]  t == req[r].token
<1>1. Holds(s) /\ Vouches(s)
  BY DEF BearerInv
<1>2. ASSUME s.pc \in {"verify_user", "rotate_tx", "granted"}
      PROVE  /\ t \in Token /\ s.user = tokens[t].user /\ s.user \in User
             /\ tokens'[t].status # "absent" /\ tokens'[t].user = tokens[t].user
  BY <1>1, <1>2, TokenLife DEF Holds, BearerInv, TokensOwned, TypeInv
<1>3. Holds(req[r])'
  BY <1>1, <1>2 DEF Holds, SameCall
<1>4. Vouches(req[r])'
  BY <1>1, <1>2, UserLife DEF Vouches, SameCall, TypeInv
<1>. QED
  BY <1>3, <1>4

LEMMA HoldsArrived ==
    ASSUME TypeInv, BearerInv, NEW r \in Request, Step(r)
    PROVE  Holds(req[r])' /\ Vouches(req[r])'
<1>1. Arrives(r)
  BY StepArrives
<1>2. req \in [Request -> RequestState] /\ req[r] \in RequestState /\ Holds(req[r])
      /\ Vouches(req[r])
  BY DEF TypeInv, TypeOK, BearerInv
<1>3. CASE req'[r].pc = "login_port"
  <2>4. ASSUME NEW row, Becomes(r, ThenAudit(req[r], row, "idle")) PROVE FALSE
    BY <1>2, <1>3, <2>4 DEF Becomes, ThenAudit, RequestState
  <2>1. PICK u \in LiveByEmail(req[r].email) : req' = [req EXCEPT ![r] =
             IF users[u].status = "active" THEN [req[r] EXCEPT !.pc = "login_port", !.user = u]
             ELSE ThenAudit(req[r], Row("login_refused", u, None, None), "idle")]
    BY <1>1, <1>3, <2>4 DEF Arrives, LoginRead, Becomes
  <2>2. u \in User
    BY DEF LiveByEmail
  <2>3. req'[r].user = u
    <3>1. CASE users[u].status = "active"
      BY <1>2, <2>1, <3>1 DEF RequestState
    <3>2. CASE users[u].status # "active"
      <4>1. req'[r].pc = "audit"
        BY <1>2, <2>1, <3>2 DEF ThenAudit, RequestState
      <4>. QED
        BY <1>3, <4>1
    <3>. QED
      BY <3>1, <3>2
  <2>. QED
    BY <1>3, <2>2, <2>3 DEF Holds, Vouches
<1>4. CASE req'[r].pc = "verify_user"
  <2> DEFINE t == req[r].token
  <2>1. VerifyRead(r)
    BY <1>1, <1>4 DEF Arrives
  <2>2. ~TokenRefused(t) /\ req' = [req EXCEPT ![r] = [req[r] EXCEPT !.pc = "verify_user",
                    !.user = tokens[t].user, !.vouched = ActivePrincipal(tokens[t].user)]]
    BY <1>2, <1>4, <2>1, RowsTyped DEF VerifyRead, Return, Becomes
  <2>3. /\ req'[r].token = t /\ req'[r].user = tokens[t].user
        /\ req'[r].vouched = ActivePrincipal(tokens[t].user)
    BY <1>2, <2>2 DEF RequestState
  <2>4. t \in Token
    BY <2>1, ReqTyped DEF Owned, VerifyRead, At
  <2>5. tokens[t].status # "absent" /\ tokens[t].user \in User /\ Live(tokens[t].user)
    BY <2>2, <2>4 DEF TokenRefused, Active, BearerInv, TokensOwned
  <2>6. users[tokens[t].user].status \in {"active", "revoked"}
    BY <2>5 DEF Live, TypeInv, TypeOK, UserRow
  <2>7. tokens' = tokens /\ users' = users
    BY <2>1 DEF VerifyRead, tables
  <2>8. Holds(req[r])'
    BY <1>4, <2>3, <2>4, <2>5, <2>7 DEF Holds
  <2>9. req'[r].vouched \/ users'[req'[r].user].status = "revoked"
    BY <2>3, <2>5, <2>6, <2>7 DEF ActivePrincipal
  <2>. QED
    BY <1>4, <2>8, <2>9 DEF Vouches
<1>5. CASE req'[r].pc \in {"rotate_tx", "granted"}
  <2>1. VerifyUser(r)
    BY <1>1, <1>5 DEF Arrives
  <2>2. /\ req'[r].token = req[r].token /\ req'[r].user = req[r].user
        /\ req'[r].vouched = req[r].vouched
        /\ ActivePrincipal(req[r].user)
    BY <1>2, <1>5, <2>1, RowsTyped DEF VerifyUser, Return, Becomes, Goto, RequestState
  <2>3. /\ req[r].token \in Token /\ tokens[req[r].token].status # "absent"
        /\ req[r].user = tokens[req[r].token].user
        /\ req[r].vouched \/ users[req[r].user].status = "revoked"
    BY <1>2, <2>1 DEF VerifyUser, At, Holds, Vouches
  <2>4. tokens' = tokens
    BY <2>1 DEF VerifyUser, tables
  <2>. QED
    BY <1>5, <2>2, <2>3, <2>4 DEF Holds, Vouches, ActivePrincipal
<1>6. CASE req'[r].pc = "mint"
  <2>1. req'[r].user = req[r].user /\ req[r].user \in User
    <3>1. CASE LoginPort(r)
      BY <1>2, <1>6, <3>1 DEF LoginPort, Goto, Becomes, ThenAudit, At, Holds, RequestState
    <3>2. CASE WriteAudit(r)
      <4>1. req' = [req EXCEPT ![r] =
                      [req[r] EXCEPT !.pc = req[r].then, !.row = None, !.then = "idle"]]
        BY <1>2, <1>6, <3>2, RowsTyped DEF WriteAudit, Becomes
      <4>2. req'[r].user = req[r].user /\ req[r].then = "mint" /\ req[r].pc = "audit"
        BY <1>2, <1>6, <3>2, <4>1 DEF WriteAudit, At, RequestState
      <4>. QED
        BY <1>2, <4>2 DEF Holds
    <3>. QED
      BY <1>1, <1>6, <3>1, <3>2 DEF Arrives
  <2>. QED
    BY <1>6, <2>1 DEF Holds, Vouches
<1>7. CASE req'[r].pc = "audit" /\ req'[r].then = "mint"
  <2>1. ASSUME NEW u \in User, NEW row,
               Becomes(r, ThenAudit([req[r] EXCEPT !.user = u], row, "mint"))
        PROVE  req'[r].user \in User
    BY <1>2, <2>1 DEF Becomes, ThenAudit, RequestState
  <2>2. ~Return(r)
    BY <1>2, <1>7, RowsTyped DEF Return, Becomes
  <2>3. ASSUME RedeemTx(r) PROVE req'[r].user \in User
    BY <2>1, <2>2, <2>3 DEF RedeemTx
  <2>4. ASSUME SignupInsert(r) PROVE req'[r].user \in User
    <3>1. ~Goto(r, "signup_fallback")
      BY <1>2, <1>7 DEF Goto, RequestState
    <3>. QED
      BY <2>1, <2>4, <3>1 DEF SignupInsert, SignupCreated
  <2>5. ASSUME SignupFallback(r) PROVE req'[r].user \in User
    BY <2>1, <2>2, <2>5 DEF SignupFallback, SignupCreated, LiveByEmail
  <2>6. req'[r].user \in User
    BY <1>1, <1>7, <2>3, <2>4, <2>5 DEF Arrives
  <2>. QED
    BY <1>7, <2>6 DEF Holds, Vouches
<1>. QED
  BY <1>3, <1>4, <1>5, <1>6, <1>7 DEF Holds, Vouches

(* What a bearer call holds, for every instance.                           *)
LEMMA BearerInvariant == Spec => []BearerInv
<1>1. Init => BearerInv
  BY RowsTyped DEF Init, BearerInv, TokensOwned, NoToken, Holds, Vouches
<1>2. TypeInv /\ BearerInv /\ [Next]_vars => BearerInv'
  <2> SUFFICES ASSUME TypeInv, BearerInv, [Next]_vars PROVE BearerInv'
    OBVIOUS
  <2>1. ASSUME NEW r \in Request PROVE Holds(req[r])' /\ Vouches(req[r])'
    <3>1. CASE \E q \in Request : Step(q)
      BY <3>1, HoldsStays, HoldsArrived, OthersKeep
    <3>2. CASE Expire \/ SoftDelete \/ Restore \/ UNCHANGED vars
      <4>1. SameCall(r)
        BY <3>2, WorldKeeps DEF SameCall
      <4>. QED
        BY <4>1, HoldsStays
    <3>. QED
      BY <3>1, <3>2 DEF Next
  <2>. QED
    BY <2>1, TokensOwnedStep DEF BearerInv
<1>. QED
  BY <1>1, <1>2, TypeInvariant, PTL DEF Spec

(* What verify_bearer grants was good at one instant, for every instance:  *)
(* when its first SELECT ran, token and principal were both live.          *)
THEOREM GrantedAtOneInstantHolds == Spec => []GrantedAtOneInstant
<1>1. BearerInv => GrantedAtOneInstant
  BY DEF BearerInv, Vouches, GrantedAtOneInstant, At
<1>. QED
  BY <1>1, BearerInvariant, PTL

-----------------------------------------------------------------------------
(* The chains of rotations.  RotationLinks is inductive once a call about  *)
(* to rotate is known to hold the principal of the token it presents.      *)

LEMMA RotationLinksStep ==
    ASSUME TypeInv, BearerInv, RotationLinks, [Next]_vars PROVE RotationLinks'
<1>0. \A t \in Token : tokens[t] \in TokenRow /\ t # None
  BY NoneAssumption DEF TypeInv, TypeOK
<1>1. CASE UNCHANGED tokens
  BY <1>1 DEF RotationLinks
(* A fresh row is nobody's successor.                                      *)
<1>2. \A n \in Token : FreshToken(n) => \A s \in Token : tokens[s].rotated_to # n
  BY DEF RotationLinks, FreshToken
<1>3. ASSUME NEW r \in Request, MintBearer(r) PROVE RotationLinks'
  <2>1. PICK n \in Token : /\ FreshToken(n)
                           /\ tokens' = [tokens EXCEPT ![n] = ActiveTokenRow(req[r].user, n)]
    BY <1>3 DEF MintBearer
  <2>2. /\ tokens'[n].status = "active" /\ tokens'[n].rotated_to = None
        /\ \A s \in Token : s # n => tokens'[s] = tokens[s]
    BY <2>1 DEF ActiveTokenRow, TypeInv, TypeOK
  <2>. QED
    BY <1>0, <1>2, <2>1, <2>2 DEF RotationLinks, FreshToken
<1>4. ASSUME NEW r \in Request, RotateTx(r), tokens' # tokens PROVE RotationLinks'
  <2> DEFINE old == req[r].token
  <2>1. old \in Token /\ req[r].user = tokens[old].user
    BY <1>4 DEF BearerInv, Holds, RotateTx, At
  <2>2. PICK new \in Token :
           /\ Active(old)
           /\ FreshToken(new)
           /\ tokens' = [tokens EXCEPT ![old] = Superseded(old, new),
                               ![new] = ActiveTokenRow(req[r].user, tokens[old].line)]
    BY <1>4 DEF RotateTx, Rotatable
  <2>3. new # old
    BY <2>2 DEF Active, FreshToken
  <2>4. /\ tokens'[new].status = "active" /\ tokens'[new].rotated_to = None
        /\ tokens'[new].user = tokens[old].user /\ tokens'[new].line = tokens[old].line
    BY <2>1, <2>2, <2>3 DEF ActiveTokenRow, TypeInv, TypeOK
  <2>5. /\ tokens'[old].status = "rotated" /\ tokens'[old].rotated_to = new
        /\ tokens'[old].user = tokens[old].user /\ tokens'[old].line = tokens[old].line
    <3>1. tokens'[old] = Superseded(old, new)
      BY <2>1, <2>2, <2>3 DEF TypeInv, TypeOK
    <3>. QED
      BY <1>0, <2>1, <3>1 DEF Superseded, TokenRow
  <2>6. \A s \in Token : s \notin {old, new} => tokens'[s] = tokens[s]
    BY <2>2 DEF TypeInv, TypeOK
  <2>7. \A s \in Token : tokens[s].rotated_to # new
    BY <1>2, <2>2
  <2>8. ASSUME NEW s \in Token
        PROVE  /\ tokens'[s].status = "rotated" <=> tokens'[s].rotated_to # None
               /\ \A n \in Token : tokens'[s].rotated_to = n =>
                    /\ tokens'[n].status # "absent"
                    /\ tokens'[n].user = tokens'[s].user
                    /\ tokens'[n].line = tokens'[s].line
                    /\ \A q \in Token : tokens'[q].rotated_to = n => q = s
    <3>1. CASE s = old
      BY <1>0, <2>2, <2>3, <2>4, <2>5, <2>6, <2>7, <3>1
    <3>2. CASE s = new
      BY <1>0, <2>4, <3>2
    <3>3. CASE s \notin {old, new}
      <4>1. tokens'[s] = tokens[s] /\ tokens[s].rotated_to # new
        BY <2>6, <2>7, <3>3
      <4>2. tokens'[s].status = "rotated" <=> tokens'[s].rotated_to # None
        BY <4>1 DEF RotationLinks
      <4>3. ASSUME NEW n \in Token, tokens'[s].rotated_to = n
            PROVE  /\ tokens'[n].status # "absent"
                   /\ tokens'[n].user = tokens'[s].user
                   /\ tokens'[n].line = tokens'[s].line
                   /\ \A q \in Token : tokens'[q].rotated_to = n => q = s
        <5>1. n # new /\ tokens[s].rotated_to = n
          BY <4>1, <4>3
        <5>2. /\ tokens[n].status # "absent" /\ tokens[n].user = tokens[s].user
              /\ tokens[n].line = tokens[s].line
              /\ \A q \in Token : tokens[q].rotated_to = n => q = s
          BY <5>1 DEF RotationLinks
        <5>3. /\ tokens'[n].status # "absent" /\ tokens'[n].user = tokens[n].user
              /\ tokens'[n].line = tokens[n].line
          BY <5>2, TokenLife DEF TypeInv
        <5>4. \A q \in Token : tokens'[q].rotated_to = n => q = s
          BY <1>0, <2>4, <2>5, <2>6, <5>1, <5>2
        <5>. QED
          BY <4>1, <5>2, <5>3, <5>4
      <4>. QED
        BY <4>2, <4>3
    <3>. QED
      BY <3>1, <3>2, <3>3
  <2>. QED
    BY <2>8 DEF RotationLinks
<1>5. ASSUME NEW r \in Request, RevokeBearer(r) \/ BearersWrite(r) PROVE RotationLinks'
  <2>1. \A s \in Token : \/ tokens'[s] = tokens[s]
                         \/ Active(s) /\ tokens'[s] = [tokens[s] EXCEPT !.status = "revoked"]
    BY <1>5 DEF RevokeBearer, BearersWrite, StillActive, Active, TypeInv, TypeOK
  <2>2. \A s \in Token :
           /\ tokens'[s].user = tokens[s].user /\ tokens'[s].line = tokens[s].line
           /\ tokens'[s].rotated_to = tokens[s].rotated_to
           /\ tokens'[s].status = "rotated" <=> tokens[s].status = "rotated"
           /\ tokens'[s].status = "absent" <=> tokens[s].status = "absent"
    <3> TAKE s \in Token
    <3>1. CASE tokens'[s] = tokens[s]
      BY <3>1
    <3>2. CASE Active(s) /\ tokens'[s] = [tokens[s] EXCEPT !.status = "revoked"]
      <4>1. /\ tokens'[s].user = tokens[s].user /\ tokens'[s].line = tokens[s].line
            /\ tokens'[s].rotated_to = tokens[s].rotated_to
            /\ tokens'[s].status = "revoked"
        BY <1>0, <3>2 DEF TokenRow
      <4>. QED
        BY <3>2, <4>1 DEF Active
    <3>. QED
      BY <2>1, <3>1, <3>2
  <2>. QED
    BY <2>2 DEF RotationLinks
<1>. QED
  BY <1>1, <1>3, <1>4, <1>5, TokenSteps

(* A rotated credential names its one successor, of the same principal and *)
(* the same sign-in, for every instance and however rotations race.        *)
THEOREM RotationLinksHolds == Spec => []RotationLinks
<1>1. Init => RotationLinks
  BY NoneAssumption DEF Init, RotationLinks, NoToken
<1>2. TypeInv /\ BearerInv /\ RotationLinks /\ [Next]_vars => RotationLinks'
  BY RotationLinksStep
<1>. QED
  BY <1>1, <1>2, TypeInvariant, BearerInvariant, PTL DEF Spec

-----------------------------------------------------------------------------
(* What a bearer call asks about: the token it presents is a row, its verb *)
(* is one of the two that ask, and only one of them is granted.            *)

Asks(s) ==
    /\ s.pc \in {"verify_read", "verify_user"} => s.verb \in {"verify", "rotate"}
    /\ s.pc = "granted" => s.verb = "verify"

AskInv ==
    /\ \A t \in sent \cap Token : tokens[t].status # "absent"
    /\ \A r \in Request : /\ Asks(req[r])
                          /\ req[r].token \in Token => tokens[req[r].token].status # "absent"

(* The steps that give a call a token, or ask about it.                    *)
LEMMA StepAsks ==
    ASSUME TypeInv, NEW r \in Request, Step(r)
    PROVE  /\ req'[r].token \in {req[r].token, None}
              \/ BeginVerify(r) \/ MintBearer(r) \/ RotateTx(r)
           /\ req'[r].pc = "verify_read" => BeginVerify(r)
<1>1. req \in [Request -> RequestState] /\ req[r] \in RequestState
  BY DEF TypeInv, TypeOK
<1>2. ASSUME NEW s, Becomes(r, s) PROVE req'[r] = s
  BY <1>1, <1>2 DEF Becomes
<1>3. ASSUME NEW pc, Goto(r, pc) PROVE req'[r].token = req[r].token /\ req'[r].pc = pc
  BY <1>1, <1>3 DEF Goto, RequestState
<1> DEFINE Quiet(s) == s.token \in {req[r].token, None} /\ s.pc # "verify_read"
<1>4. Idle \in RequestState /\ Quiet(Idle)
  BY RowsTyped DEF Idle
<1>5. ASSUME NEW s \in RequestState, s.token \in {req[r].token, None}, NEW row, NEW then,
             Becomes(r, ThenAudit(s, row, then))
      PROVE  Quiet(req'[r])
  BY <1>2, <1>5 DEF ThenAudit, RequestState
<1>6. Return(r) => Quiet(req'[r])
  BY <1>2, <1>4 DEF Return
<1>7. ASSUME NEW u, u \in User PROVE [req[r] EXCEPT !.user = u] \in RequestState
  BY <1>1, <1>7 DEF RequestState
<1>8. [req[r] EXCEPT !.seen = {}] \in RequestState
  BY <1>1 DEF RequestState
<1>9. CASE Start(r)
  <2>1. CASE MintInvite(r) \/ RevokeInvite(r) \/ RevokeBearer(r)
    <3>1. \A i \in Invite : /\ [Idle EXCEPT !.verb = "mint_invite", !.invite = i] \in RequestState
                            /\ [Idle EXCEPT !.verb = "mint_invite", !.invite = i].token = None
      BY <1>4 DEF Idle, RequestState, AllVerbs
    <3>2. \A verb \in AllVerbs : /\ [Idle EXCEPT !.verb = verb] \in RequestState
                                 /\ [Idle EXCEPT !.verb = verb].token = None
      BY <1>4 DEF Idle, RequestState
    <3>3. "revoke_invite" \in AllVerbs /\ "revoke_bearer" \in AllVerbs
      BY DEF AllVerbs
    <3>. QED
      BY <1>5, <2>1, <3>1, <3>2, <3>3 DEF MintInvite, RevokeInvite, RevokeBearer
  <2>2. CASE SetSignupPolicy(r)
    BY <1>1, <2>2 DEF SetSignupPolicy, Idle, ThenAudit
  <2>3. ASSUME NEW s, Becomes(r, s), s.token = None, s.pc # "verify_read" PROVE Quiet(req'[r])
    BY <1>2, <2>3
  <2>5. CASE BeginRevokePending(r) \/ SweepExpiredRead(r)
    BY <2>3, <2>5 DEF BeginRevokePending, SweepExpiredRead, Idle
  <2>6. CASE BeginRedeem(r)
    BY <2>3, <2>6 DEF BeginRedeem, Idle
  <2>7. CASE RevokeAccess(r)
    BY <2>3, <2>7 DEF RevokeAccess, RevokeFlip, Idle
  <2>8. CASE BeginLogin(r) \/ BeginSignup(r)
    BY <2>3, <2>8 DEF BeginLogin, BeginSignup, Idle
  <2>4. CASE BeginVerify(r)
    BY <2>4
  <2>. QED
    BY <1>9, <2>1, <2>2, <2>4, <2>5, <2>6, <2>7, <2>8 DEF Start
<1>10. CASE Fail(r) \/ Deliver(r) \/ EndGranted(r) \/ SweepExpiredWrite(r)
  BY <1>6, <1>10 DEF Fail, Deliver, EndGranted, SweepExpiredWrite
<1>11. CASE WriteAudit(r)
  <2>1. "verify_read" \notin After
    BY DEF After
  <2>2. Quiet([req[r] EXCEPT !.pc = req[r].then, !.row = None, !.then = "idle"])
    BY <1>1, <2>1 DEF RequestState
  <2>. QED
    BY <1>2, <1>4, <1>11, <2>2 DEF WriteAudit
<1>12. CASE MintBearer(r) \/ RotateTx(r)
  <2>1. req'[r].pc # "verify_read"
    <3>1. ASSUME NEW t \in Token, NEW row, NEW then,
                 Becomes(r, ThenAudit([req[r] EXCEPT !.token = t], row, then))
          PROVE  req'[r].pc # "verify_read"
      BY <1>1, <1>2, <3>1 DEF ThenAudit, RequestState
    <3>2. CASE MintBearer(r)
      BY <3>1, <3>2 DEF MintBearer
    <3>3. CASE RotateTx(r)
      BY <1>6, <3>1, <3>3 DEF RotateTx
    <3>. QED
      BY <1>12, <3>2, <3>3
  <2>. QED
    BY <1>12, <2>1
<1>13. CASE InvitesWrite(r) \/ BearersWrite(r)
  <2>1. Becomes(r, [[req[r] EXCEPT !.seen = {}] EXCEPT !.pc = "invites_read"]) => Quiet(req'[r])
    BY <1>1, <1>2 DEF RequestState
  <2>2. [req[r] EXCEPT !.seen = {}].token = req[r].token
    BY <1>1 DEF RequestState
  <2>3. Becomes(r, Idle) => Quiet(req'[r])
    BY <1>2, <1>4
  <2>4. CASE InvitesWrite(r)
    <3>1. CASE Return(r)
      BY <1>6, <3>1
    <3>2. CASE Becomes(r, IF StillPending(r) = {} THEN Idle
                          ELSE ThenAudit([req[r] EXCEPT !.seen = {}],
                                         Row("invite_revoked", None, None, None), "idle"))
      <4>1. CASE Becomes(r, Idle)
        BY <2>3, <4>1
      <4>2. CASE Becomes(r, ThenAudit([req[r] EXCEPT !.seen = {}],
                                      Row("invite_revoked", None, None, None), "idle"))
        BY <1>5, <1>8, <2>2, <4>2
      <4>. QED
        BY <3>2, <4>1, <4>2
    <3>. QED
      BY <2>4, <3>1, <3>2 DEF InvitesWrite
  <2>5. CASE BearersWrite(r)
    BY <1>5, <1>8, <2>1, <2>2, <2>5 DEF BearersWrite
  <2>. QED
    BY <1>13, <2>4, <2>5
<1>14. CASE InvitesRead(r) \/ BearersRead(r) \/ RedeemRead(r) \/ VerifyRead(r)
  <2>1. \A S : Quiet([req[r] EXCEPT !.pc = "invites_write", !.seen = S])
               /\ Quiet([req[r] EXCEPT !.pc = "bearers_write", !.seen = S])
    BY <1>1 DEF RequestState
  <2>2. Quiet([req[r] EXCEPT !.pc = "redeem_tx", !.vouched = TRUE])
    BY <1>1 DEF RequestState
  <2>3. \A u, v : Quiet([req[r] EXCEPT !.pc = "verify_user", !.user = u, !.vouched = v])
    BY <1>1 DEF RequestState
  <2>. QED
    <3>1. CASE InvitesRead(r) \/ BearersRead(r)
      BY <1>2, <2>1, <3>1 DEF InvitesRead, BearersRead
    <3>2. CASE RedeemRead(r)
      BY <1>2, <1>6, <2>2, <3>2 DEF RedeemRead
    <3>3. CASE VerifyRead(r)
      <4>1. CASE Return(r)
        BY <1>6, <4>1
      <4>2. CASE ~Return(r)
        <5>1. Becomes(r, [req[r] EXCEPT !.pc = "verify_user",
                            !.user = tokens[req[r].token].user,
                            !.vouched = ActivePrincipal(tokens[req[r].token].user)])
          BY <3>3, <4>2 DEF VerifyRead
        <5>2. PICK u, v : req'[r] = [req[r] EXCEPT !.pc = "verify_user", !.user = u, !.vouched = v]
          BY <1>2, <5>1
        <5>3. Quiet(req'[r])
          BY <2>3, <5>2
        <5>. QED
          BY <5>3
      <4>. QED
        BY <4>1, <4>2
    <3>. QED
      BY <1>14, <3>1, <3>2, <3>3
<1>15. CASE VerifyUser(r) \/ LoginAudit(r) \/ LoginPort(r) \/ SignupPort(r)
  BY <1>1, <1>3, <1>5, <1>6, <1>15 DEF VerifyUser, LoginAudit, LoginPort, SignupPort
<1>16. CASE LoginRead(r) \/ SignupPolicy(r) \/ SignupRead(r)
  <2>1. \A u : Quiet([req[r] EXCEPT !.pc = "login_port", !.user = u])
    BY <1>1 DEF RequestState
  <2>2. Quiet([req[r] EXCEPT !.pc = "signup_read"])
        /\ Quiet([req[r] EXCEPT !.verb = "login", !.pc = "login_read"])
    BY <1>1 DEF RequestState
  <2>3. ASSUME NEW s, Becomes(r, s), \/ Quiet(s) \/ \E row : s = ThenAudit(req[r], row, "idle")
        PROVE  Quiet(req'[r])
    BY <1>1, <1>2, <1>5, <2>3
  <2>4. CASE LoginRead(r)
    <3>1. ASSUME NEW u \in LiveByEmail(req[r].email),
                 Becomes(r, IF users[u].status = "active"
                     THEN [req[r] EXCEPT !.pc = "login_port", !.user = u]
                     ELSE ThenAudit(req[r], Row("login_refused", u, None, None), "idle"))
          PROVE  Quiet(req'[r])
      BY <2>1, <2>3, <3>1
    <3>. QED
      BY <2>3, <2>4, <3>1 DEF LoginRead
  <2>5. CASE SignupPolicy(r)
    BY <2>2, <2>3, <2>5 DEF SignupPolicy
  <2>6. CASE SignupRead(r)
    <3>1. Goto(r, "signup_port") => Quiet(req'[r])
      BY <1>3
    <3>2. Becomes(r, Idle) => Quiet(req'[r])
      BY <1>2, <1>4
    <3>3. Becomes(r, [req[r] EXCEPT !.verb = "login", !.pc = "login_read"]) => Quiet(req'[r])
      BY <1>2, <2>2
    <3>. QED
      BY <2>6, <3>1, <3>2, <3>3 DEF SignupRead
  <2>. QED
    BY <1>16, <2>4, <2>5, <2>6
<1>17. CASE RedeemTx(r) \/ SignupInsert(r) \/ SignupFallback(r)
  <2>1. \A u : [req[r] EXCEPT !.user = u].token = req[r].token
    BY <1>1 DEF RequestState
  <2>2. ASSUME NEW u \in User, NEW row, NEW then,
               Becomes(r, ThenAudit([req[r] EXCEPT !.user = u], row, then))
        PROVE  Quiet(req'[r])
    BY <1>5, <1>7, <2>1, <2>2
  <2>3. CASE RedeemTx(r)
    BY <1>6, <2>2, <2>3 DEF RedeemTx
  <2>4. CASE SignupInsert(r) \/ SignupFallback(r)
    <3>1. Goto(r, "signup_fallback") => Quiet(req'[r])
      BY <1>3
    <3>2. ASSUME NEW u \in User, Becomes(r, SignupCreated(req[r], u)) PROVE Quiet(req'[r])
      BY <2>2, <3>2 DEF SignupCreated
    <3>. QED
      BY <1>6, <2>4, <3>1, <3>2 DEF SignupInsert, SignupFallback, LiveByEmail
  <2>. QED
    BY <1>17, <2>3, <2>4
<1>. QED
  BY <1>9, <1>10, <1>11, <1>12, <1>13, <1>14, <1>15, <1>16, <1>17 DEF Step, Continue

LEMMA SentStep ==
    ASSUME TypeInv, [Next]_vars, sent' # sent PROVE \E r \in Request : Deliver(r)
<1>1. ASSUME NEW r \in Request, Start(r) PROVE UNCHANGED sent
  BY <1>1 DEF Start, MintInvite, RevokeInvite, BeginRevokePending, SweepExpiredRead,
     BeginRedeem, BeginVerify, RevokeBearer, RevokeAccess, RevokeFlip, BeginLogin, BeginSignup,
     SetSignupPolicy
<1>2. ASSUME NEW r \in Request, Continue(r), ~Deliver(r) PROVE UNCHANGED sent
  BY <1>2 DEF Continue, WriteAudit, MintBearer, InvitesRead, InvitesWrite, SweepExpiredWrite,
     RedeemRead, RedeemTx, VerifyRead, VerifyUser, EndGranted, RotateTx, BearersRead,
     BearersWrite, LoginRead, LoginPort, LoginAudit, SignupPolicy, SignupRead, SignupPort,
     SignupInsert, SignupFallback
<1>3. ASSUME NEW r \in Request, Fail(r) PROVE UNCHANGED sent
  BY <1>3 DEF Fail
<1>4. Expire \/ SoftDelete \/ Restore \/ UNCHANGED vars => UNCHANGED sent
  BY DEF Expire, SoftDelete, Restore, vars
<1>. QED
  BY <1>1, <1>2, <1>3, <1>4 DEF Next, Step

(* The trail is appended to.                                               *)
LEMMA AuditGrows ==
    ASSUME [Next]_vars PROVE audit \subseteq audit'
<1>1. ASSUME NEW r \in Request, Start(r) PROVE UNCHANGED audit
  BY <1>1 DEF Start, MintInvite, RevokeInvite, BeginRevokePending, SweepExpiredRead,
     BeginRedeem, BeginVerify, RevokeBearer, RevokeAccess, RevokeFlip, BeginLogin, BeginSignup,
     SetSignupPolicy
<1>2. ASSUME NEW r \in Request, WriteAudit(r) \/ LoginAudit(r) PROVE audit \subseteq audit'
  BY <1>2 DEF WriteAudit, LoginAudit
<1>3. ASSUME NEW r \in Request, Continue(r), ~(WriteAudit(r) \/ LoginAudit(r))
      PROVE  UNCHANGED audit
  BY <1>3 DEF Continue, Deliver, MintBearer, InvitesRead, InvitesWrite, SweepExpiredWrite,
     RedeemRead, RedeemTx, VerifyRead, VerifyUser, EndGranted, RotateTx, BearersRead,
     BearersWrite, LoginRead, LoginPort, SignupPolicy, SignupRead, SignupPort,
     SignupInsert, SignupFallback
<1>4. ASSUME NEW r \in Request, Fail(r) PROVE UNCHANGED audit
  BY <1>4 DEF Fail
<1>5. Expire \/ SoftDelete \/ Restore \/ UNCHANGED vars => UNCHANGED audit
  BY DEF Expire, SoftDelete, Restore, vars
<1>. QED
  BY <1>1, <1>2, <1>3, <1>4, <1>5 DEF Next, Step

LEMMA AskStep ==
    ASSUME TypeInv, AskInv, [Next]_vars PROVE AskInv'
<1>1. \A t \in Token : tokens[t].status # "absent" => tokens'[t].status # "absent"
  BY TokenLife DEF TypeInv
<1>2. ASSUME NEW t \in sent' \cap Token PROVE tokens'[t].status # "absent"
  <2>1. CASE t \in sent
    BY <1>1, <1>2, <2>1 DEF AskInv
  <2>2. CASE t \notin sent
    <3>1. PICK r \in Request : Deliver(r)
      BY <1>2, <2>2, SentStep
    <3>2. t \in {req[r].token, req[r].invite}
      BY <1>2, <2>2, <3>1 DEF Deliver
    <3>3. t # req[r].invite
      BY <1>2, ReqTyped, IdAssumption, NoneAssumption
    <3>. QED
      BY <1>1, <1>2, <3>2, <3>3 DEF AskInv
  <2>. QED
    BY <2>1, <2>2
<1>3. ASSUME NEW r \in Request, SameCall(r)
      PROVE  /\ Asks(req'[r])
             /\ req'[r].token \in Token => tokens'[req'[r].token].status # "absent"
  BY <1>1, <1>3 DEF AskInv, Asks, SameCall
<1>4. ASSUME NEW r \in Request, Step(r)
      PROVE  /\ Asks(req'[r])
             /\ req'[r].token \in Token => tokens'[req'[r].token].status # "absent"
  <2>1. req \in [Request -> RequestState] /\ req[r] \in RequestState
    BY DEF TypeInv, TypeOK
  <2>2. req'[r].pc = "verify_read" => req'[r].verb \in {"verify", "rotate"}
    <3>1. BeginVerify(r) => req'[r].verb \in {"verify", "rotate"}
      BY <2>1 DEF BeginVerify, Becomes, Idle
    <3>. QED
      BY <1>4, <3>1, StepAsks
  <2>3. req'[r].pc = "verify_user" => req'[r].verb = req[r].verb /\ req[r].pc = "verify_read"
    <3>1. ASSUME VerifyRead(r), req'[r].pc = "verify_user"
          PROVE  req'[r].verb = req[r].verb /\ req[r].pc = "verify_read"
      <4>1. ~Return(r)
        BY <2>1, <3>1 DEF Return, Becomes, Idle
      <4>2. Becomes(r, [req[r] EXCEPT !.pc = "verify_user",
                          !.user = tokens[req[r].token].user,
                          !.vouched = ActivePrincipal(tokens[req[r].token].user)])
        BY <3>1, <4>1 DEF VerifyRead
      <4>3. PICK u, v : Becomes(r, [req[r] EXCEPT !.pc = "verify_user", !.user = u, !.vouched = v])
        BY <4>2
      <4>4. req'[r].verb = req[r].verb
        BY <2>1, <4>3 DEF Becomes, RequestState
      <4>. QED
        BY <3>1, <4>4 DEF VerifyRead, At
    <3>. QED
      BY <1>4, <3>1, StepArrives DEF Arrives
  <2>4. req'[r].pc = "granted" =>
          req'[r].verb = req[r].verb /\ req[r].verb # "rotate" /\ req[r].pc = "verify_user"
    <3>1. ASSUME VerifyUser(r), req'[r].pc = "granted"
          PROVE  req'[r].verb = req[r].verb /\ req[r].verb # "rotate" /\ req[r].pc = "verify_user"
      BY <2>1, <3>1, RowsTyped DEF VerifyUser, Return, Becomes, Goto, At, RequestState
    <3>. QED
      BY <1>4, <3>1, StepArrives DEF Arrives
  <2>5. Asks(req'[r])
    BY <2>2, <2>3, <2>4 DEF AskInv, Asks
  <2>6. CASE req'[r].token \in {req[r].token, None}
    BY <1>1, <2>5, <2>6, NoneAssumption DEF AskInv
  <2>7. CASE BeginVerify(r)
    <3>1. PICK t \in sent \cap Token, verb \in {"verify", "rotate"} :
             Becomes(r, [Idle EXCEPT !.verb = verb, !.pc = "verify_read", !.token = t,
                                     !.doomed = DeadToken(t)])
      BY <2>7 DEF BeginVerify
    <3>2. req'[r].token = t
      BY <2>1, <3>1 DEF Becomes, Idle
    <3>. QED
      BY <1>1, <2>5, <3>2 DEF AskInv
  <2>8. CASE MintBearer(r)
    <3>1. PICK t \in Token :
            /\ tokens' = [tokens EXCEPT ![t] = ActiveTokenRow(req[r].user, t)]
            /\ Becomes(r, ThenAudit([req[r] EXCEPT !.token = t],
                               Row("bearer_minted", req[r].user, None, t),
                               IF req[r].verb = "login" THEN "login_audit" ELSE "deliver"))
      BY <2>8 DEF MintBearer
    <3>2. req'[r].token = t
      BY <2>1, <3>1 DEF Becomes, ThenAudit, RequestState
    <3>3. tokens'[t].status = "active"
      BY <3>1 DEF ActiveTokenRow, TypeInv, TypeOK
    <3>. QED
      BY <2>5, <3>2, <3>3
  <2>9. CASE RotateTx(r)
    <3>1. CASE Return(r)
      <4>1. req'[r] = Idle
        BY <2>1, <3>1 DEF Return, Becomes
      <4>. QED
        BY <2>5, <4>1, NoneAssumption DEF Idle
    <3>2. CASE ~Return(r)
      <4>1. PICK new \in Token :
              /\ tokens' = [tokens EXCEPT ![req[r].token] = Superseded(req[r].token, new),
                    ![new] = ActiveTokenRow(req[r].user, tokens[req[r].token].line)]
              /\ Becomes(r, ThenAudit([req[r] EXCEPT !.token = new],
                       Row("bearer_rotated", req[r].user, None, req[r].token), "deliver"))
        BY <2>9, <3>2 DEF RotateTx
      <4>2. req'[r].token = new
        BY <2>1, <4>1 DEF Becomes, ThenAudit, RequestState
      <4>3. tokens'[new].status = "active"
        BY <4>1 DEF ActiveTokenRow, TypeInv, TypeOK
      <4>. QED
        BY <2>5, <4>2, <4>3
    <3>. QED
      BY <3>1, <3>2
  <2>. QED
    BY <1>4, <2>6, <2>7, <2>8, <2>9, StepAsks
<1>5. ASSUME NEW r \in Request
      PROVE  /\ Asks(req'[r])
             /\ req'[r].token \in Token => tokens'[req'[r].token].status # "absent"
  <2>1. CASE \E q \in Request : Step(q)
    BY <1>3, <1>4, <2>1, OthersKeep
  <2>2. CASE Expire \/ SoftDelete \/ Restore \/ UNCHANGED vars
    BY <1>3, <2>2, WorldKeeps DEF SameCall
  <2>. QED
    BY <2>1, <2>2 DEF Next
<1>. QED
  BY <1>2, <1>5 DEF AskInv, Asks

LEMMA AskInvariant == Spec => []AskInv
<1>1. Init => AskInv
  BY NoneAssumption DEF Init, AskInv, Asks, Idle
<1>2. TypeInv /\ AskInv /\ [Next]_vars => AskInv'
  BY AskStep
<1>. QED
  BY <1>1, <1>2, TypeInvariant, PTL DEF Spec
=============================================================================
