------------------------- MODULE PortalSurfaceProofs -------------------------
(***************************************************************************)
(* Proofs about what is seen of the access core from outside, for every    *)
(* instance.                                                               *)
(*                                                                         *)
(* First, PortalAccess implements PortalPromise: each step of the verbs,   *)
(* the clock and the host's CRUD is one step of the promise or a stutter.  *)
(* Then PortalSurface: its steps are steps of PortalAccess or leave the    *)
(* core alone, so that what is proved of the core, the promise included,   *)
(* holds of the routes behind the bearer check too.                        *)
(***************************************************************************)
EXTENDS PortalSurface, PortalBearerProofs

-----------------------------------------------------------------------------
(* The promise's variables, read off the tables and the calls.             *)
Standings == [u \in User |-> StandingOf(u)]
Credentials == [t \in Token |-> [life |-> LifeOf(t), owner |-> tokens[t].user]]
Claims == [r \in Request |-> ClaimOf(r)]

(* Where a call has a question open.                                       *)
Open == {"verify_read", "verify_user", "rotate_tx", "granted"}

NoQuestion == [stage |-> "none", token |-> None]

-----------------------------------------------------------------------------
(* What the promise needs to know besides BearerInv: a mint is for a       *)
(* principal that exists, and no id expires before it has a row.           *)

Minting(s) == \/ s.pc \in {"login_port", "mint"}
              \/ s.pc = "audit" /\ s.then = "mint"

PromiseInv ==
    /\ \A t \in Token : t \in late => tokens[t].status # "absent"
    /\ \A r \in Request :
        Minting(req[r]) => req[r].user \in User /\ users[req[r].user].status # "absent"

LEMMA LateSteps ==
    ASSUME [Next]_vars, late' # late PROVE Expire
<1>1. ASSUME NEW r \in Request, Start(r) PROVE UNCHANGED late
  BY <1>1 DEF Start, MintInvite, RevokeInvite, BeginRevokePending, SweepExpiredRead,
     BeginRedeem, BeginVerify, RevokeBearer, RevokeAccess, RevokeFlip, BeginLogin, BeginSignup,
     SetSignupPolicy
<1>2. ASSUME NEW r \in Request, Continue(r) PROVE UNCHANGED late
  BY <1>2 DEF Continue, WriteAudit, Deliver, MintBearer, InvitesRead, InvitesWrite,
     SweepExpiredWrite, RedeemRead, RedeemTx, VerifyRead, VerifyUser, EndGranted, RotateTx,
     BearersRead, BearersWrite, LoginRead, LoginPort, LoginAudit, SignupPolicy, SignupRead,
     SignupPort, SignupInsert, SignupFallback
<1>3. ASSUME NEW r \in Request, Fail(r) PROVE UNCHANGED late
  BY <1>3 DEF Fail
<1>4. SoftDelete \/ Restore \/ UNCHANGED vars => UNCHANGED late
  BY DEF SoftDelete, Restore, vars
<1>. QED
  BY <1>1, <1>2, <1>3, <1>4 DEF Next, Step

(* A call that is about to mint has its principal from a statement that    *)
(* found or made the row.                                                  *)
LEMMA MintingArrived ==
    ASSUME TypeInv, PromiseInv, [Next]_vars, NEW r \in Request, Step(r), Minting(req'[r])
    PROVE  req'[r].user \in User /\ users'[req'[r].user].status # "absent"
<1>1. req \in [Request -> RequestState] /\ req[r] \in RequestState
      /\ users \in [User -> UserRow]
  BY DEF TypeInv, TypeOK
<1>2. \A u \in User : users[u].status # "absent" => users'[u].status # "absent"
  BY UserLife DEF TypeInv
<1>3. ASSUME NEW s, Becomes(r, s) PROVE req'[r] = s
  BY <1>1, <1>3 DEF Becomes
<1>4. ~Minting(Idle) /\ \A row : ~Minting(ThenAudit(req[r], row, "idle"))
  BY <1>1 DEF Minting, Idle, ThenAudit, RequestState
<1>5. \A u, row : [req[r] EXCEPT !.user = u].user = u
                  /\ ThenAudit([req[r] EXCEPT !.user = u], row, "mint").user = u
                  /\ [req[r] EXCEPT !.pc = "login_port", !.user = u].user = u
  BY <1>1 DEF RequestState, ThenAudit
<1>6. CASE LoginRead(r)
  <2>1. PICK u \in LiveByEmail(req[r].email) : \E row :
          Becomes(r, IF users[u].status = "active"
                     THEN [req[r] EXCEPT !.pc = "login_port", !.user = u]
                     ELSE ThenAudit(req[r], row, "idle"))
    BY <1>3, <1>4, <1>6 DEF LoginRead
  <2>2. req'[r].user = u
    <3>1. CASE users[u].status = "active"
      BY <1>3, <1>5, <2>1, <3>1
    <3>2. CASE users[u].status # "active"
      BY <1>3, <1>4, <2>1, <3>2
    <3>. QED
      BY <3>1, <3>2
  <2>. QED
    BY <1>2, <2>1, <2>2 DEF LiveByEmail, Live
<1>7. CASE LoginPort(r)
  <2>1. req'[r].user = req[r].user
    BY <1>1, <1>7 DEF LoginPort, Goto, Becomes, ThenAudit, RequestState
  <2>. QED
    <3>1. Minting(req[r])
      <4>1. req[r].pc = "login_port"
        BY <1>7 DEF LoginPort, At
      <4>. QED
        BY <4>1 DEF Minting
    <3>. QED
      BY <1>2, <2>1, <3>1 DEF PromiseInv
<1>8. CASE WriteAudit(r) /\ req'[r].pc = "mint"
  <2>1. req[r].then = "mint" /\ req'[r].user = req[r].user
    <3>1. CASE req[r].then = "idle"
      BY <1>3, <1>8, <3>1 DEF WriteAudit, Idle
    <3>2. CASE req[r].then # "idle"
      <4>1. req'[r] = [req[r] EXCEPT !.pc = req[r].then, !.row = None, !.then = "idle"]
        BY <1>3, <1>8, <3>2 DEF WriteAudit
      <4>. QED
        BY <1>1, <1>8, <4>1 DEF RequestState
    <3>. QED
      BY <3>1, <3>2
  <2>. QED
    BY <1>2, <1>8, <2>1 DEF WriteAudit, At, PromiseInv, Minting
<1>9. CASE RedeemTx(r)
  <2>1. ~Return(r)
    BY <1>3, <1>4 DEF Return
  <2>2. PICK u \in User : \E e, row :
          /\ users' = [users EXCEPT ![u] = ActiveUserRow(e)]
          /\ Becomes(r, ThenAudit([req[r] EXCEPT !.user = u], row, "mint"))
    BY <1>9, <2>1 DEF RedeemTx
  <2>3. req'[r].user = u
    <3>1. PICK row : req'[r] = ThenAudit([req[r] EXCEPT !.user = u], row, "mint")
      BY <1>3, <2>2
    <3>. QED
      BY <1>1, <3>1 DEF ThenAudit, RequestState
  <2>4. users'[u].status = "active"
    BY <1>1, <2>2 DEF ActiveUserRow
  <2>. QED
    BY <2>3, <2>4
<1>10. CASE SignupInsert(r)
  <2>1. ~Goto(r, "signup_fallback")
    BY <1>1 DEF Goto, Minting, RequestState
  <2>2. PICK u \in User : \E e, row :
          /\ users' = [users EXCEPT ![u] = ActiveUserRow(e)]
          /\ Becomes(r, ThenAudit([req[r] EXCEPT !.user = u], row, "mint"))
    BY <1>10, <2>1 DEF SignupInsert, SignupCreated
  <2>3. req'[r].user = u
    <3>1. PICK row : req'[r] = ThenAudit([req[r] EXCEPT !.user = u], row, "mint")
      BY <1>3, <2>2
    <3>. QED
      BY <1>1, <3>1 DEF ThenAudit, RequestState
  <2>4. users'[u].status = "active"
    BY <1>1, <2>2 DEF ActiveUserRow
  <2>. QED
    BY <2>3, <2>4
<1>11. CASE SignupFallback(r)
  <2>1. ~Return(r)
    BY <1>3, <1>4 DEF Return
  <2>2. PICK u \in User : \E row :
          /\ users[u].status # "absent"
          /\ Becomes(r, ThenAudit([req[r] EXCEPT !.user = u], row, "mint"))
    BY <1>11, <2>1 DEF SignupFallback, SignupCreated, LiveByEmail, Live
  <2>3. PICK row : req'[r] = ThenAudit([req[r] EXCEPT !.user = u], row, "mint")
    BY <1>3, <2>2
  <2>4. req'[r].user = u
    BY <1>1, <2>3 DEF ThenAudit, RequestState
  <2>. QED
    BY <1>2, <2>2, <2>4
<1>. QED
  BY <1>6, <1>7, <1>8, <1>9, <1>10, <1>11, StepArrives DEF Minting, Arrives

LEMMA PromiseInvStep ==
    ASSUME TypeInv, PromiseInv, [Next]_vars PROVE PromiseInv'
<1>1. \A t \in Token : tokens[t].status # "absent" => tokens'[t].status # "absent"
  BY TokenLife DEF TypeInv
<1>2. ASSUME NEW t \in Token, t \in late' PROVE tokens'[t].status # "absent"
  <2>1. CASE t \in late
    BY <1>1, <2>1 DEF PromiseInv
  <2>2. CASE t \notin late
    <3>1. Expire
      BY <1>2, <2>2, LateSteps
    <3>2. t \in {x \in Token : Active(x)} \cup {i \in Invite : Pending(i)}
      BY <1>2, <2>2, <3>1 DEF Expire
    <3>. QED
      BY <1>1, <3>2, IdAssumption DEF Active
  <2>. QED
    BY <2>1, <2>2
<1>3. ASSUME NEW r \in Request, SameCall(r)
      PROVE  Minting(req'[r]) =>
                req'[r].user \in User /\ users'[req'[r].user].status # "absent"
  BY <1>3, UserLife DEF SameCall, PromiseInv, Minting, TypeInv
<1>4. ASSUME NEW r \in Request
      PROVE  Minting(req'[r]) =>
                req'[r].user \in User /\ users'[req'[r].user].status # "absent"
  <2>1. CASE \E q \in Request : Step(q)
    BY <1>3, <2>1, OthersKeep, MintingArrived
  <2>2. CASE ~\E q \in Request : Step(q)
    BY <1>3, <2>2, WorldKeeps DEF Next, SameCall
  <2>. QED
    BY <2>1, <2>2
<1>. QED
  BY <1>2, <1>4 DEF PromiseInv

LEMMA PromiseInvariant == Spec => []PromiseInv
<1>1. Init => PromiseInv
  BY DEF Init, PromiseInv, Minting, Idle
<1>2. TypeInv /\ PromiseInv /\ [Next]_vars => PromiseInv'
  BY PromiseInvStep
<1>. QED
  BY <1>1, <1>2, TypeInvariant, PTL DEF Spec

-----------------------------------------------------------------------------
(* The step refinement, over what the promise sees.                        *)

(* A call with no question open has none in the promise.                   *)
LEMMA ClaimNone ==
    ASSUME NEW r \in Request
    PROVE  /\ req[r].pc \notin Open => ClaimOf(r) = NoQuestion
           /\ req'[r].pc \notin Open => ClaimOf(r)' = NoQuestion
  BY DEF ClaimOf, At, Open, NoQuestion

LEMMA ClaimKept ==
    ASSUME NEW q \in Request, SameCall(q) PROVE ClaimOf(q)' = ClaimOf(q)
  BY DEF ClaimOf, At, SameCall

LEMMA ClaimsMove ==
    ASSUME TypeInv, NEW r \in Request, Step(r)
    PROVE  Claims' = [Claims EXCEPT ![r] = ClaimOf(r)']
<1>1. \A q \in Request \ {r} : ClaimOf(q)' = ClaimOf(q)
  BY OthersKeep, ClaimKept
<1>. QED
  BY <1>1 DEF Claims

LEMMA ClaimsStay ==
    ASSUME UNCHANGED req PROVE Claims' = Claims
<1>1. \A q \in Request : ClaimOf(q)' = ClaimOf(q)
  BY ClaimKept DEF SameCall
<1>. QED
  BY <1>1 DEF Claims

LEMMA StandingsStay ==
    ASSUME UNCHANGED users PROVE Standings' = Standings
  BY DEF Standings, StandingOf

LEMMA CredentialsStay ==
    ASSUME UNCHANGED <<tokens, late>> PROVE Credentials' = Credentials
  BY DEF Credentials, LifeOf, Active

(* Which steps leave a question, and which raise or move one.              *)
LEMMA QuestionSteps ==
    ASSUME TypeInv, NEW r \in Request, Step(r)
    PROVE  /\ req[r].pc \in Open =>
                VerifyRead(r) \/ VerifyUser(r) \/ EndGranted(r) \/ RotateTx(r) \/ Fail(r)
           /\ req'[r].pc \in Open => BeginVerify(r) \/ VerifyRead(r) \/ VerifyUser(r)
<1>1. ASSUME Start(r) PROVE req[r].pc = "idle"
  BY <1>1 DEF Start, MintInvite, RevokeInvite, BeginRevokePending, SweepExpiredRead,
     BeginRedeem, BeginVerify, RevokeBearer, RevokeAccess, BeginLogin, BeginSignup,
     SetSignupPolicy, Begin, At
<1>2. ASSUME Continue(r), req[r].pc \in Open
      PROVE  VerifyRead(r) \/ VerifyUser(r) \/ EndGranted(r) \/ RotateTx(r)
  BY <1>2 DEF Open, Continue, WriteAudit, Deliver, MintBearer, InvitesRead, InvitesWrite,
     SweepExpiredWrite, RedeemRead, RedeemTx, BearersRead, BearersWrite, LoginRead, LoginPort,
     LoginAudit, SignupPolicy, SignupRead, SignupPort, SignupInsert, SignupFallback, At
<1>3. req'[r].pc \in Open => BeginVerify(r) \/ VerifyRead(r) \/ VerifyUser(r)
  BY StepAsks, StepArrives DEF Open, Arrives
<1>. QED
  BY <1>1, <1>2, <1>3 DEF Step, Open

(* A step that is none of those leaves every question as it is.            *)
LEMMA NoQuestionMoves ==
    ASSUME TypeInv, NEW r \in Request, Step(r), req[r].pc \notin Open,
           ~(BeginVerify(r) \/ VerifyRead(r) \/ VerifyUser(r))
    PROVE  Claims' = Claims
<1>1. ClaimOf(r)' = ClaimOf(r)
  BY ClaimNone, QuestionSteps
<1>. QED
  BY <1>1, ClaimsMove DEF Claims

-----------------------------------------------------------------------------
(* Calls that ask.                                                         *)

(* The tables stand still while a call asks.                               *)
LEMMA AskTouchesNothing ==
    ASSUME NEW r \in Request,
           BeginVerify(r) \/ VerifyRead(r) \/ VerifyUser(r) \/ EndGranted(r) \/ Fail(r)
    PROVE  Standings' = Standings /\ Credentials' = Credentials
<1>1. UNCHANGED <<users, tokens, late>>
  BY DEF BeginVerify, VerifyRead, VerifyUser, EndGranted, Fail, tables
<1>. QED
  BY <1>1, StandingsStay, CredentialsStay

(* A call that returns closes its question, if it has one.                 *)
LEMMA ReturnCloses ==
    ASSUME TypeInv, NEW r \in Request, Step(r), Return(r),
           Standings' = Standings, Credentials' = Credentials
    PROVE  Promise!Close(r) \/ UNCHANGED <<Standings, Credentials, Claims>>
<1>1. ClaimOf(r)' = NoQuestion
  <2>1. req'[r].pc = "idle"
    BY DEF Return, Becomes, Idle, TypeInv, TypeOK
  <2>. QED
    BY <2>1, ClaimNone DEF Open
<1>2. Claims' = [Claims EXCEPT ![r] = NoQuestion]
  BY <1>1, ClaimsMove
<1>3. CASE Claims[r] = NoQuestion
  BY <1>2, <1>3 DEF Claims
<1>4. CASE Claims[r] # NoQuestion
  BY <1>2, <1>4 DEF Promise!Close, Promise!NoClaim, NoQuestion, Standings, Credentials, Claims
<1>. QED
  BY <1>3, <1>4

LEMMA BeginVerifyAsks ==
    ASSUME TypeInv, AskInv, NEW r \in Request, BeginVerify(r)
    PROVE  \E t \in Token : Promise!Ask(r, t)
<1>1. PICK t \in sent \cap Token, verb \in {"verify", "rotate"} :
         Becomes(r, [Idle EXCEPT !.verb = verb, !.pc = "verify_read", !.token = t,
                                 !.doomed = DeadToken(t)])
  BY DEF BeginVerify
<1>2. req'[r].pc = "verify_read" /\ req'[r].token = t
  BY <1>1 DEF Becomes, Idle, TypeInv, TypeOK
<1>3. ClaimOf(r)' = [stage |-> "asked", token |-> t]
  BY <1>2 DEF ClaimOf, At
<1>4. ClaimOf(r) = NoQuestion
  BY ClaimNone DEF BeginVerify, Begin, At, Open
<1>5. LifeOf(t) # "unborn"
  BY DEF LifeOf, AskInv
<1>6. Claims' = [Claims EXCEPT ![r] = [stage |-> "asked", token |-> t]]
  BY <1>3, ClaimsMove DEF Step, Start
<1>7. Standings' = Standings /\ Credentials' = Credentials
  BY AskTouchesNothing
<1>8. Claims[r] = NoQuestion /\ Credentials[t].life # "unborn"
  BY <1>4, <1>5 DEF Claims, Credentials
<1>. QED
  BY <1>6, <1>7, <1>8 DEF Promise!Ask, Promise!NoClaim, NoQuestion, Standings, Credentials, Claims

LEMMA VerifyReadVouches ==
    ASSUME TypeInv, BearerInv, NEW r \in Request, VerifyRead(r)
    PROVE  \/ Promise!Close(r) \/ Promise!Vouch(r)
           \/ UNCHANGED <<Standings, Credentials, Claims>>
<1> DEFINE t == req[r].token
<1>1. Standings' = Standings /\ Credentials' = Credentials /\ Step(r)
  BY AskTouchesNothing DEF Step, Continue
<1>2. CASE Return(r)
  BY <1>1, <1>2, ReturnCloses
<1>3. CASE ~Return(r)
  <2> DEFINE s == [req[r] EXCEPT !.pc = "verify_user", !.user = tokens[t].user,
                                 !.vouched = ActivePrincipal(tokens[t].user)]
  <2>1. ~TokenRefused(t) /\ req'[r] = s
    BY <1>3 DEF VerifyRead, Becomes, TypeInv, TypeOK
  <2>2. t \in Token /\ req[r] \in RequestState /\ req[r].pc = "verify_read"
    BY ReqTyped DEF VerifyRead, At, Owned
  <2>3. /\ req'[r].pc = "verify_user" /\ req'[r].token = t
        /\ req'[r].vouched = ActivePrincipal(tokens[t].user)
    BY <2>1, <2>2 DEF RequestState
  <2>4. ClaimOf(r) = [stage |-> "asked", token |-> t]
    BY <2>2 DEF ClaimOf, At
  <2>5. Claims' = [Claims EXCEPT ![r] = ClaimOf(r)']
    BY <1>1, ClaimsMove
  <2>6. CASE ActivePrincipal(tokens[t].user)
    <3>1. ClaimOf(r)' = [stage |-> "vouched", token |-> t]
      BY <2>3, <2>6 DEF ClaimOf, At
    <3>2. LifeOf(t) = "live"
      BY <2>1 DEF TokenRefused, LifeOf, Active
    <3>3. tokens[t].user \in User /\ StandingOf(tokens[t].user) = "member"
      BY <2>1, <2>2, <2>6 DEF ActivePrincipal, Live, StandingOf, TokenRefused, Active,
         BearerInv, TokensOwned
    <3>4. /\ Claims[r] = [stage |-> "asked", token |-> t]
          /\ Credentials[t].life = "live" /\ Credentials[t].owner = tokens[t].user
          /\ Standings[tokens[t].user] = "member"
      BY <2>2, <2>4, <3>2, <3>3 DEF Claims, Credentials, Standings
    <3>5. Claims' = [Claims EXCEPT ![r].stage = "vouched"]
      <4>1. [Claims[r] EXCEPT !.stage = "vouched"] = [stage |-> "vouched", token |-> t]
        BY <3>4
      <4>. QED
        BY <2>5, <3>1, <4>1
    <3>6. Promise!Vouch(r)
      BY <1>1, <3>4, <3>5 DEF Promise!Vouch, Standings, Credentials, Claims
    <3>. QED
      BY <3>6
  <2>7. CASE ~ActivePrincipal(tokens[t].user)
    <3>1. ClaimOf(r)' = ClaimOf(r)
      BY <2>3, <2>4, <2>7 DEF ClaimOf, At
    <3>. QED
      BY <1>1, <2>5, <3>1 DEF Claims
  <2>. QED
    BY <2>6, <2>7
<1>. QED
  BY <1>2, <1>3

LEMMA VerifyUserGrants ==
    ASSUME TypeInv, BearerInv, NEW r \in Request, VerifyUser(r)
    PROVE  \/ Promise!Close(r) \/ Promise!Grant(r)
           \/ UNCHANGED <<Standings, Credentials, Claims>>
<1>1. Standings' = Standings /\ Credentials' = Credentials /\ Step(r)
  BY AskTouchesNothing DEF Step, Continue
<1>2. CASE Return(r)
  BY <1>1, <1>2, ReturnCloses
<1>3. CASE ~Return(r)
  <2>1. /\ ActivePrincipal(req[r].user) /\ req[r].pc = "verify_user"
        /\ Goto(r, IF req[r].verb = "rotate" THEN "rotate_tx" ELSE "granted")
    BY <1>3 DEF VerifyUser, At
  <2>2. req[r] \in RequestState /\ req \in [Request -> RequestState]
    BY DEF TypeInv, TypeOK
  <2>3. req'[r].pc \in {"rotate_tx", "granted"} /\ req'[r].token = req[r].token
    BY <2>1, <2>2 DEF Goto, RequestState
  <2>4. req[r].vouched
    BY <2>1 DEF BearerInv, Vouches, ActivePrincipal
  <2>5. ClaimOf(r) = [stage |-> "vouched", token |-> req[r].token]
    BY <2>1, <2>4 DEF ClaimOf, At
  <2>6. ClaimOf(r)' = [stage |-> "granted", token |-> req[r].token]
    BY <2>3 DEF ClaimOf, At
  <2>7. Claims[r] = [stage |-> "vouched", token |-> req[r].token]
    BY <2>5 DEF Claims
  <2>8. Claims' = [Claims EXCEPT ![r].stage = "granted"]
    BY <1>1, <2>6, <2>7, ClaimsMove
  <2>9. Promise!Grant(r)
    BY <1>1, <2>7, <2>8 DEF Promise!Grant, Standings, Credentials, Claims
  <2>. QED
    BY <2>9
<1>. QED
  BY <1>2, <1>3

-----------------------------------------------------------------------------
(* Credentials that come and go.                                           *)

LEMMA LifeKept ==
    ASSUME NEW t \in Token, tokens'[t] = tokens[t], UNCHANGED late
    PROVE  LifeOf(t)' = LifeOf(t)
  BY DEF LifeOf, Active

LEMMA MintIssues ==
    ASSUME TypeInv, PromiseInv, NEW r \in Request, MintBearer(r)
    PROVE  \E t \in Token, u \in User : Promise!Issue(t, u)
<1> DEFINE u == req[r].user
<1>1. PICK t \in Token : /\ FreshToken(t)
                         /\ tokens' = [tokens EXCEPT ![t] = ActiveTokenRow(u, t)]
  BY DEF MintBearer
<1>2. Standings' = Standings /\ UNCHANGED late
  BY StandingsStay DEF MintBearer
<1>3. Claims' = Claims
  BY NoQuestionMoves DEF MintBearer, BeginVerify, Begin, VerifyRead, VerifyUser, At, Open,
     Step, Continue
<1>4. u \in User /\ users[u].status # "absent"
  BY DEF MintBearer, At, PromiseInv, Minting
<1>5. tokens \in [Token -> TokenRow]
  BY DEF TypeInv, TypeOK
<1>6. LifeOf(t) = "unborn" /\ LifeOf(t)' = "live" /\ tokens'[t].user = u
  BY <1>1, <1>2, <1>5 DEF LifeOf, Active, FreshToken, ActiveTokenRow, PromiseInv
<1>7. \A x \in Token \ {t} : LifeOf(x)' = LifeOf(x) /\ tokens'[x].user = tokens[x].user
  BY <1>1, <1>2, <1>5, LifeKept
<1>8. Credentials' = [Credentials EXCEPT ![t] = [life |-> "live", owner |-> u]]
  BY <1>6, <1>7 DEF Credentials
<1>9. Credentials[t].life = "unborn" /\ Standings[u] # "none"
  BY <1>4, <1>6 DEF Credentials, Standings, StandingOf
<1>. QED
  BY <1>2, <1>3, <1>4, <1>8, <1>9 DEF Promise!Issue, Standings, Credentials, Claims

LEMMA RotateExchanges ==
    ASSUME TypeInv, BearerInv, PromiseInv, NEW r \in Request, RotateTx(r)
    PROVE  \/ Promise!Close(r) \/ \E t \in Token : Promise!Exchange(r, t)
           \/ UNCHANGED <<Standings, Credentials, Claims>>
<1>1. Standings' = Standings /\ UNCHANGED late /\ Step(r)
  BY StandingsStay DEF RotateTx, Step, Continue
<1>2. CASE Return(r) /\ UNCHANGED tokens
  BY <1>1, <1>2, ReturnCloses, CredentialsStay
<1>3. CASE ~(Return(r) /\ UNCHANGED tokens)
  <2>0. PICK old \in Token : old = req[r].token
    BY ReqTyped DEF RotateTx, At, Owned
  <2>1. PICK new \in Token :
           /\ Active(old) /\ FreshToken(new)
           /\ tokens' = [tokens EXCEPT ![old] = Superseded(old, new),
                               ![new] = ActiveTokenRow(req[r].user, tokens[old].line)]
           /\ Becomes(r, ThenAudit([req[r] EXCEPT !.token = new],
                               Row("bearer_rotated", req[r].user, None, old), "deliver"))
    BY <1>3, <2>0 DEF RotateTx, Rotatable
  <2>2. /\ req[r].user = tokens[old].user /\ req[r].pc = "rotate_tx" /\ req[r].token = old
        /\ req[r] \in RequestState
    BY <2>0, ReqTyped DEF BearerInv, Holds, RotateTx, At
  <2>3. tokens \in [Token -> TokenRow] /\ old # new
    BY <2>1 DEF TypeInv, TypeOK, Active, FreshToken
  <2>4. /\ tokens'[new] = ActiveTokenRow(req[r].user, tokens[old].line)
        /\ tokens'[old] = Superseded(old, new)
        /\ \A x \in Token \ {old, new} : tokens'[x] = tokens[x]
    BY <2>1, <2>2, <2>3
  <2>5. LifeOf(new) = "unborn" /\ LifeOf(new)' = "live" /\ tokens'[new].user = tokens[old].user
    BY <1>1, <2>1, <2>2, <2>4 DEF LifeOf, Active, FreshToken, ActiveTokenRow, PromiseInv
  <2>6. /\ LifeOf(old) \in {"live", "lapsed"} /\ LifeOf(old)' = "spent"
        /\ tokens'[old].user = tokens[old].user
    <3>1. tokens[old] \in TokenRow /\ tokens[old].status = "active"
      BY <2>1, <2>2, <2>3 DEF Active
    <3>2. tokens'[old].status = "rotated" /\ tokens'[old].user = tokens[old].user
      BY <2>4, <3>1 DEF Superseded, TokenRow
    <3>. QED
      BY <3>1, <3>2 DEF LifeOf, Active
  <2>7. \A x \in Token \ {old, new} : LifeOf(x)' = LifeOf(x) /\ tokens'[x].user = tokens[x].user
    BY <1>1, <2>4, LifeKept
  <2>8. Credentials' = [Credentials EXCEPT ![old].life = "spent",
                              ![new] = [life |-> "live", owner |-> Credentials[old].owner]]
    <3>1. /\ Credentials[old] = [life |-> LifeOf(old), owner |-> tokens[old].user]
          /\ Credentials[old].owner = tokens[old].user
      BY <2>2 DEF Credentials
    <3>2. [Credentials[old] EXCEPT !.life = "spent"]
            = [life |-> "spent", owner |-> tokens[old].user]
      BY <3>1
    <3>3. /\ Credentials'[old] = [life |-> "spent", owner |-> tokens[old].user]
          /\ Credentials'[new] = [life |-> "live", owner |-> tokens[old].user]
          /\ \A x \in Token \ {old, new} : Credentials'[x] = Credentials[x]
      BY <2>2, <2>5, <2>6, <2>7 DEF Credentials
    <3>4. /\ Credentials = [x \in Token |-> Credentials[x]]
          /\ Credentials' = [x \in Token |-> Credentials'[x]]
      BY DEF Credentials
    <3>. QED
      BY <2>2, <2>3, <3>1, <3>2, <3>3, <3>4
  <2>9. ClaimOf(r)' = NoQuestion
    <3>1. req'[r].pc = "audit"
      BY <2>1, <2>2 DEF Becomes, ThenAudit, RequestState, TypeInv, TypeOK
    <3>. QED
      BY <3>1, ClaimNone DEF Open
  <2>10. Claims' = [Claims EXCEPT ![r] = NoQuestion]
    BY <1>1, <2>9, ClaimsMove
  <2>11. ClaimOf(r) = [stage |-> "granted", token |-> old]
    BY <2>2 DEF ClaimOf, At
  <2>12. /\ Claims[r] = [stage |-> "granted", token |-> old]
         /\ Credentials[old].life \in {"live", "lapsed"} /\ Credentials[new].life = "unborn"
    BY <2>2, <2>5, <2>6, <2>11 DEF Claims, Credentials
  <2>13. Promise!Exchange(r, new)
    <3>1. Claims[r].token = old /\ Claims[r].stage = "granted"
      BY <2>12
    <3>2. Credentials' = [Credentials EXCEPT ![Claims[r].token].life = "spent",
                  ![new] = [life |-> "live", owner |-> Credentials[Claims[r].token].owner]]
      BY <2>8, <3>1
    <3>3. Credentials[Claims[r].token].life \in {"live", "lapsed"}
      BY <2>12, <3>1
    <3>. QED
      BY <1>1, <2>10, <2>12, <3>1, <3>2, <3>3 DEF Promise!Exchange, Promise!Unspent,
         Promise!NoClaim, NoQuestion, Standings, Credentials, Claims
  <2>. QED
    BY <2>13
<1>. QED
  BY <1>2, <1>3

(* Any set of active rows revoked by one statement.                        *)
LEMMA RevokingSpends ==
    ASSUME TypeInv, NEW S \in SUBSET Token, \A t \in S : Active(t),
           tokens' = [t \in Token |-> IF t \in S THEN [tokens[t] EXCEPT !.status = "revoked"]
                                                 ELSE tokens[t]],
           UNCHANGED late, Standings' = Standings, Claims' = Claims
    PROVE  Promise!Spend(S)
<1>1. tokens \in [Token -> TokenRow]
  BY DEF TypeInv, TypeOK
<1>2. ASSUME NEW t \in S
      PROVE  /\ LifeOf(t) \in {"live", "lapsed"} /\ LifeOf(t)' = "spent"
             /\ tokens'[t].user = tokens[t].user
  <2>1. tokens'[t] = [tokens[t] EXCEPT !.status = "revoked"]
    BY <1>2
  <2>. QED
    BY <1>1, <1>2, <2>1 DEF LifeOf, Active, TokenRow
<1>3. \A t \in Token \ S : LifeOf(t)' = LifeOf(t) /\ tokens'[t].user = tokens[t].user
  BY LifeKept
<1>4. Credentials' = [t \in Token |-> IF t \in S THEN [Credentials[t] EXCEPT !.life = "spent"]
                                                 ELSE Credentials[t]]
  BY <1>2, <1>3 DEF Credentials
<1>5. \A t \in S : Credentials[t].life \in {"live", "lapsed"}
  BY <1>2 DEF Credentials
<1>. QED
  BY <1>4, <1>5 DEF Promise!Spend, Promise!Unspent, Standings, Credentials, Claims

LEMMA RevokeSpends ==
    ASSUME TypeInv, NEW r \in Request, RevokeBearer(r) \/ BearersWrite(r)
    PROVE  \E S \in SUBSET Token : Promise!Spend(S)
<1>1. Standings' = Standings /\ UNCHANGED late
  BY StandingsStay DEF RevokeBearer, BearersWrite
<1>2. CASE RevokeBearer(r)
  <2>1. PICK t \in Token : Active(t) /\ tokens' = [tokens EXCEPT ![t].status = "revoked"]
    BY <1>2 DEF RevokeBearer
  <2>2. ~BeginVerify(r)
    <3>1. req'[r].pc = "audit"
      BY <1>2 DEF RevokeBearer, Becomes, ThenAudit, Idle, TypeInv, TypeOK
    <3>2. BeginVerify(r) => req'[r].pc = "verify_read"
      BY DEF BeginVerify, Becomes, Idle, TypeInv, TypeOK
    <3>. QED
      BY <3>1, <3>2
  <2>3. Claims' = Claims
    BY <1>2, <2>2, NoQuestionMoves DEF RevokeBearer, Begin, VerifyRead, VerifyUser, At, Open,
       Step, Start
  <2>4. tokens' = [x \in Token |-> IF x \in {t} THEN [tokens[x] EXCEPT !.status = "revoked"]
                                                ELSE tokens[x]]
    BY <2>1 DEF TypeInv, TypeOK
  <2>5. Promise!Spend({t})
    BY <1>1, <2>1, <2>3, <2>4, RevokingSpends
  <2>. QED
    BY <2>5
<1>3. CASE BearersWrite(r)
  <2>1. Claims' = Claims
    BY <1>3, NoQuestionMoves DEF BearersWrite, BeginVerify, Begin, VerifyRead, VerifyUser, At,
       Open, Step, Continue
  <2>2. PICK S \in SUBSET Token :
           /\ \A t \in S : Active(t)
           /\ tokens' = [t \in Token |-> IF t \in S THEN [tokens[t] EXCEPT !.status = "revoked"]
                                                 ELSE tokens[t]]
    BY <1>3 DEF BearersWrite, StillActive
  <2>3. Promise!Spend(S)
    BY <1>1, <2>1, <2>2, RevokingSpends
  <2>. QED
    BY <2>3
<1>. QED
  BY <1>2, <1>3

LEMMA ExpireLapses ==
    ASSUME TypeInv, Expire
    PROVE  \/ \E t \in Token : Promise!Lapse(t)
           \/ UNCHANGED <<Standings, Credentials, Claims>>
<1>1. Standings' = Standings /\ Claims' = Claims /\ UNCHANGED tokens
  BY StandingsStay, ClaimsStay DEF Expire, tables
<1>2. PICK x \in {t \in Token : Active(t)} \cup {i \in Invite : Pending(i)} :
         late' = late \cup {x}
  BY DEF Expire
<1>3. \A t \in Token \ {x} : LifeOf(t)' = LifeOf(t)
  BY <1>1, <1>2 DEF LifeOf, Active
<1>4. CASE x \in Token /\ x \notin late
  <2>1. Active(x)
    BY <1>2, <1>4, IdAssumption
  <2>2. LifeOf(x) = "live" /\ LifeOf(x)' = "lapsed"
    BY <1>1, <1>2, <1>4, <2>1 DEF LifeOf, Active
  <2>3. Credentials' = [Credentials EXCEPT ![x].life = "lapsed"] /\ Credentials[x].life = "live"
    BY <1>1, <1>3, <1>4, <2>2 DEF Credentials
  <2>4. Promise!Lapse(x)
    BY <1>1, <2>3 DEF Promise!Lapse, Standings, Credentials, Claims
  <2>. QED
    BY <1>4, <2>4
<1>5. CASE x \notin Token \/ x \in late
  <2>1. \A t \in Token : LifeOf(t)' = LifeOf(t)
    BY <1>1, <1>2, <1>3, <1>5 DEF LifeOf, Active
  <2>. QED
    BY <1>1, <2>1 DEF Credentials
<1>. QED
  BY <1>4, <1>5

-----------------------------------------------------------------------------
(* People who come, go and come back.                                      *)

LEMMA StandingsMove ==
    ASSUME NEW u \in User, \A x \in User \ {u} : users'[x] = users[x]
    PROVE  Standings' = [Standings EXCEPT ![u] = StandingOf(u)']
  BY DEF Standings, StandingOf

LEMMA InsertAdmits ==
    ASSUME TypeInv, NEW r \in Request, RedeemTx(r) \/ SignupInsert(r)
    PROVE  \/ \E u \in User : Promise!Admit(u)
           \/ UNCHANGED <<Standings, Credentials, Claims>>
<1>1. Credentials' = Credentials
  BY CredentialsStay DEF RedeemTx, SignupInsert
<1>2. Claims' = Claims
  BY NoQuestionMoves DEF RedeemTx, SignupInsert, BeginVerify, Begin, VerifyRead, VerifyUser,
     At, Open, Step, Continue
<1>3. CASE UNCHANGED users
  BY <1>1, <1>2, <1>3, StandingsStay
<1>4. CASE ~UNCHANGED users
  <2>1. PICK u \in User : \E e :
           FreshUser(u) /\ users' = [users EXCEPT ![u] = ActiveUserRow(e)]
    BY <1>4 DEF RedeemTx, SignupInsert
  <2>2. users \in [User -> UserRow]
    BY DEF TypeInv, TypeOK
  <2>3. StandingOf(u) = "none" /\ StandingOf(u)' = "member"
    BY <2>1, <2>2 DEF StandingOf, FreshUser, ActiveUserRow
  <2>4. Standings' = [Standings EXCEPT ![u] = "member"] /\ Standings[u] = "none"
    BY <2>1, <2>2, <2>3, StandingsMove DEF Standings
  <2>5. Promise!Admit(u)
    BY <1>1, <1>2, <2>4 DEF Promise!Admit, Promise!Stands, Standings, Credentials, Claims
  <2>. QED
    BY <2>5
<1>. QED
  BY <1>3, <1>4

LEMMA RevokeBars ==
    ASSUME TypeInv, NEW r \in Request, RevokeAccess(r)
    PROVE  \E u \in User : Promise!Bar(u)
<1>1. Credentials' = Credentials
  BY CredentialsStay DEF RevokeAccess, RevokeFlip
<1>2. PICK u \in User : /\ Revocable(u)
                        /\ users' = [users EXCEPT ![u].status = "revoked"]
                        /\ Becomes(r, [Idle EXCEPT !.verb = "revoke_access",
                              !.pc = "bearers_read", !.user = u, !.email = users[u].email])
  BY DEF RevokeAccess, RevokeFlip
<1>3. users \in [User -> UserRow]
  BY DEF TypeInv, TypeOK
<1>4. ~BeginVerify(r)
  <2>1. req'[r].pc = "bearers_read"
    BY <1>2 DEF Becomes, Idle, TypeInv, TypeOK
  <2>2. BeginVerify(r) => req'[r].pc = "verify_read"
    BY DEF BeginVerify, Becomes, Idle, TypeInv, TypeOK
  <2>. QED
    BY <2>1, <2>2
<1>5. Claims' = Claims
  BY <1>4, NoQuestionMoves DEF RevokeAccess, Begin, VerifyRead, VerifyUser, At, Open, Step, Start
<1>6. StandingOf(u) = "member" /\ StandingOf(u)' = "barred"
  <2>1. users[u] \in UserRow /\ users'[u] = [users[u] EXCEPT !.status = "revoked"]
    BY <1>2, <1>3
  <2>2. users'[u].status = "revoked"
    BY <2>1 DEF UserRow
  <2>. QED
    BY <1>2, <2>2 DEF StandingOf, Revocable, Live
<1>7. Standings' = [Standings EXCEPT ![u] = "barred"] /\ Standings[u] = "member"
  BY <1>2, <1>3, <1>6, StandingsMove DEF Standings
<1>8. Promise!Bar(u)
  BY <1>1, <1>5, <1>7 DEF Promise!Bar, Promise!Stands, Standings, Credentials, Claims
<1>. QED
  BY <1>8

(* A revoked principal stays barred while archived, and when restored.     *)
LEMMA ArchiveMoves ==
    ASSUME TypeInv, SoftDelete \/ Restore
    PROVE  \/ \E u \in User : Promise!Archive(u) \/ Promise!Restore(u)
           \/ UNCHANGED <<Standings, Credentials, Claims>>
<1>1. Credentials' = Credentials /\ Claims' = Claims
  BY CredentialsStay, ClaimsStay DEF SoftDelete, Restore
<1>2. users \in [User -> UserRow]
  BY DEF TypeInv, TypeOK
<1>3. ASSUME NEW u \in User, NEW d \in BOOLEAN, users' = [users EXCEPT ![u].deleted = d]
      PROVE  /\ users'[u].status = users[u].status /\ users'[u].deleted = d
             /\ \A x \in User \ {u} : users'[x] = users[x]
  <2>1. users[u] \in UserRow /\ users'[u] = [users[u] EXCEPT !.deleted = d]
    BY <1>2, <1>3
  <2>. QED
    BY <1>2, <1>3, <2>1 DEF UserRow
<1>4. ASSUME NEW u \in User, StandingOf(u)' = StandingOf(u),
             \A x \in User \ {u} : users'[x] = users[x]
      PROVE  Standings' = Standings
  BY <1>4, StandingsMove DEF Standings
<1>5. CASE SoftDelete
  <2>1. PICK u \in User : Live(u) /\ users' = [users EXCEPT ![u].deleted = TRUE]
    BY <1>5 DEF SoftDelete
  <2>2. /\ users'[u].status = users[u].status /\ users'[u].deleted = TRUE
        /\ \A x \in User \ {u} : users'[x] = users[x]
    BY <1>3, <2>1
  <2>3. CASE users[u].status = "revoked"
    <3>1. StandingOf(u)' = StandingOf(u)
      BY <2>2, <2>3 DEF StandingOf
    <3>. QED
      BY <1>1, <1>4, <2>2, <3>1
  <2>4. CASE users[u].status # "revoked"
    <3>1. StandingOf(u) = "member" /\ StandingOf(u)' = "away"
      BY <2>1, <2>2, <2>4 DEF StandingOf, Live
    <3>2. Standings' = [Standings EXCEPT ![u] = "away"] /\ Standings[u] = "member"
      BY <2>2, <3>1, StandingsMove DEF Standings
    <3>3. Promise!Archive(u)
      BY <1>1, <3>2 DEF Promise!Archive, Promise!Stands, Standings, Credentials, Claims
    <3>. QED
      BY <3>3
  <2>. QED
    BY <2>3, <2>4
<1>6. CASE Restore
  <2>1. PICK u \in User : users[u].deleted /\ users' = [users EXCEPT ![u].deleted = FALSE]
    BY <1>6 DEF Restore
  <2>2. /\ users'[u].status = users[u].status /\ users'[u].deleted = FALSE
        /\ \A x \in User \ {u} : users'[x] = users[x]
    BY <1>3, <2>1
  <2>3. CASE users[u].status \in {"absent", "revoked"}
    <3>1. StandingOf(u)' = StandingOf(u)
      BY <2>2, <2>3 DEF StandingOf
    <3>. QED
      BY <1>1, <1>4, <2>2, <3>1
  <2>4. CASE users[u].status \notin {"absent", "revoked"}
    <3>1. StandingOf(u) = "away" /\ StandingOf(u)' = "member"
      BY <2>1, <2>2, <2>4 DEF StandingOf
    <3>2. Standings' = [Standings EXCEPT ![u] = "member"] /\ Standings[u] = "away"
      BY <2>2, <3>1, StandingsMove DEF Standings
    <3>3. Promise!Restore(u)
      BY <1>1, <3>2 DEF Promise!Restore, Promise!Stands, Standings, Credentials, Claims
    <3>. QED
      BY <3>3
  <2>. QED
    BY <2>3, <2>4
<1>. QED
  BY <1>5, <1>6

-----------------------------------------------------------------------------
LEMMA PromiseStep ==
    ASSUME TypeInv, BearerInv, AskInv, PromiseInv, [Next]_vars
    PROVE  Promise!Next \/ UNCHANGED <<Standings, Credentials, Claims>>
<1>1. CASE \E r \in Request : BeginVerify(r) \/ VerifyRead(r) \/ VerifyUser(r)
  BY <1>1, BeginVerifyAsks, VerifyReadVouches, VerifyUserGrants DEF Promise!Next
<1>2. CASE \E r \in Request : EndGranted(r) \/ Fail(r)
  BY <1>2, AskTouchesNothing, ReturnCloses DEF Promise!Next, Step, Continue, EndGranted, Fail
<1>3. CASE \E r \in Request : MintBearer(r) \/ RotateTx(r)
  BY <1>3, MintIssues, RotateExchanges DEF Promise!Next
<1>4. CASE \E r \in Request : RevokeBearer(r) \/ BearersWrite(r)
  BY <1>4, RevokeSpends DEF Promise!Next
<1>5. CASE \E r \in Request : RedeemTx(r) \/ SignupInsert(r) \/ RevokeAccess(r)
  BY <1>5, InsertAdmits, RevokeBars DEF Promise!Next
<1>6. CASE Expire \/ SoftDelete \/ Restore
  BY <1>6, ExpireLapses, ArchiveMoves DEF Promise!Next
(* The rest writes none of the tables the promise is about, and no         *)
(* question is open in it.                                                 *)
<1>7. CASE /\ ~\E r \in Request : BeginVerify(r) \/ VerifyRead(r) \/ VerifyUser(r)
           /\ ~\E r \in Request : EndGranted(r) \/ Fail(r)
           /\ ~\E r \in Request : MintBearer(r) \/ RotateTx(r)
           /\ ~\E r \in Request : RevokeBearer(r) \/ BearersWrite(r)
           /\ ~\E r \in Request : RedeemTx(r) \/ SignupInsert(r) \/ RevokeAccess(r)
           /\ ~(Expire \/ SoftDelete \/ Restore)
  <2>1. UNCHANGED <<users, tokens, late>>
    BY <1>7, UserSteps, TokenSteps, LateSteps
  <2>2. Standings' = Standings /\ Credentials' = Credentials
    BY <2>1, StandingsStay, CredentialsStay
  <2>3. ASSUME NEW r \in Request, Step(r) PROVE Claims' = Claims
    BY <1>7, <2>3, QuestionSteps, NoQuestionMoves
  <2>4. UNCHANGED vars => Claims' = Claims
    BY ClaimsStay DEF vars
  <2>. QED
    BY <1>7, <2>2, <2>3, <2>4 DEF Next
<1>. QED
  BY <1>1, <1>2, <1>3, <1>4, <1>5, <1>6, <1>7

(* The access core keeps the promise to the host, for every instance:      *)
(* whatever its statements, races, sweeps and stops do, what a caller is   *)
(* granted, and what becomes of people and credentials, are steps of the   *)
(* promise.                                                                *)
THEOREM AccessKeepsPromise == Spec => KeepsPromise
<1>1. Init => Promise!Init
  BY DEF Init, Promise!Init, Promise!NoClaim, StandingOf, LifeOf, Active, ClaimOf, At, Idle,
     NoUser, NoToken
<1>2. TypeInv /\ BearerInv /\ AskInv /\ PromiseInv /\ [Next]_vars => [Promise!Next]_Promise!vars
  BY PromiseStep DEF Promise!vars, Standings, Credentials, Claims
<1>. QED
  BY <1>1, <1>2, TypeInvariant, BearerInvariant, AskInvariant, PromiseInvariant, PTL
     DEF Spec, KeepsPromise, Promise!Spec

-----------------------------------------------------------------------------
LEMMA SurfaceStep == [SNext]_svars => [Next]_vars
<1>1. ASSUME NEW r \in Request, Elsewhere(r) PROVE Next
  BY <1>1 DEF Elsewhere, Next
<1>2. ASSUME NEW r \in Request, AnswerAtOnce(r) \/ Respond(r) \/ Stop(r) PROVE Next
  BY <1>2 DEF AnswerAtOnce, Respond, Stop, Next, Step, Continue
<1>3. ASSUME NEW r \in Request, UpdateMyDetails(r) \/ UpdateView(r) PROVE UNCHANGED vars
  BY <1>3 DEF UpdateMyDetails, UpdateView
<1>4. World => Next
  BY DEF World, Next
<1>5. UNCHANGED svars => UNCHANGED vars
  BY DEF svars
<1>. QED
  BY <1>1, <1>2, <1>3, <1>4, <1>5 DEF SNext, Route

(* The routes behind the bearer check do to the core what its calls may do *)
(* and nothing else, for every instance.                                   *)
THEOREM SurfaceImplementsAccess == SSpec => Spec
<1>1. SInit => Init
  BY DEF SInit
<1>. QED
  BY <1>1, SurfaceStep, PTL DEF SSpec, Spec

(* Whatever the routes behind the bearer check do, the host sees nothing   *)
(* that the promise does not allow, and links keep their laws: one holder  *)
(* of an address, one successor of a rotated link, no grant that was not   *)
(* right at one instant, and no way back from a dead link.                 *)
THEOREM SurfaceKeepsPromise ==
    SSpec => /\ KeepsPromise
             /\ []OneHolder /\ []RotationLinks /\ []GrantedAtOneInstant
             /\ DeadForever
  BY SurfaceImplementsAccess, AccessKeepsPromise, OneHolderHolds, RotationLinksHolds,
     GrantedAtOneInstantHolds, DeathIsFinal

-----------------------------------------------------------------------------
(* Type correctness.                                                       *)

SurfaceTyped ==
    /\ record \in [User -> Record]
    /\ desk \in [Request -> DeskState]

LEMMA SurfaceRows ==
    /\ NoDesk \in DeskState /\ NoDesk.stage = "none" /\ NoDesk.patch = NoColumn
    /\ NoColumn \in Columns /\ \A c \in Column : NoColumn[c] = None
    /\ SurfaceTyped => \A u \in User : View(u) \in Record \cup {None}
    /\ SurfaceTyped => \A u \in User, p \in Columns :
         /\ Patched(u, p) \in Columns
         /\ Written(u, p) \in Record
         /\ Written(u, p).by = u
         /\ \A c \in Column : Written(u, p).columns[c]
                               = IF p[c] = None THEN record[u].columns[c] ELSE p[c]
<1>1. NoColumn \in Columns /\ \A c \in Column : NoColumn[c] = None
  BY DEF NoColumn, Columns
<1>2. NoDesk \in DeskState /\ NoDesk.stage = "none" /\ NoDesk.patch = NoColumn
  BY <1>1 DEF NoDesk, DeskState
<1>3. ASSUME SurfaceTyped, NEW u \in User PROVE View(u) \in Record \cup {None}
  BY <1>3 DEF SurfaceTyped, View
<1>4. ASSUME SurfaceTyped, NEW u \in User, NEW p \in Columns
      PROVE  /\ Patched(u, p) \in Columns
             /\ Written(u, p) \in Record
             /\ Written(u, p).by = u
             /\ \A c \in Column : Written(u, p).columns[c]
                                   = IF p[c] = None THEN record[u].columns[c] ELSE p[c]
  <2>1. record[u].columns \in Columns
    BY <1>4 DEF SurfaceTyped, Record
  <2>2. ASSUME NEW c \in Column
        PROVE  (IF p[c] = None THEN record[u].columns[c] ELSE p[c]) \in Value \cup {None}
    BY <2>1 DEF Columns
  <2>3. Patched(u, p) \in Columns
    BY <2>2 DEF Patched, Columns
  <2>. QED
    BY <2>3 DEF Written, Record, Patched
<1>. QED
  BY <1>1, <1>2, <1>3, <1>4

LEMMA ServedUser ==
    ASSUME BearerInv, NEW r \in Request, At(r, "granted")
    PROVE  /\ req[r].user \in User
           /\ req[r].user = tokens[req[r].token].user
           /\ req[r].token \in Token /\ tokens[req[r].token].status # "absent"
  BY DEF BearerInv, Holds, TokensOwned, At

(* What an UPDATE leaves of the desks: its own, and those it wrote over.   *)
LEMMA UpdateDesks ==
    ASSUME SurfaceTyped, BearerInv, NEW r \in Request, UpdateMyDetails(r)
    PROVE  \E p \in Columns :
             /\ req[r].user \in User
             /\ record' = [record EXCEPT ![req[r].user] = Written(req[r].user, p)]
             /\ desk' \in [Request -> DeskState]
             /\ desk'[r] = [desk[r] EXCEPT !.stage = "written", !.patch = p]
             /\ \A q \in Request \ {r} :
                  desk'[q] = IF desk[q].stage = "written" /\ req[q].user = req[r].user
                             THEN [desk[q] EXCEPT !.over = @ \cup {c \in Column : p[c] # None}]
                             ELSE desk[q]
<1>1. req[r].user \in User
  BY ServedUser DEF UpdateMyDetails, Served
<1>2. PICK p \in Columns :
        /\ record' = [record EXCEPT ![req[r].user] = Written(req[r].user, p)]
        /\ desk' = [q \in Request |->
                      IF q = r THEN [desk[r] EXCEPT !.stage = "written", !.patch = p]
                      ELSE IF desk[q].stage = "written" /\ req[q].user = req[r].user
                           THEN [desk[q] EXCEPT !.over = @ \cup {c \in Column : p[c] # None}]
                           ELSE desk[q]]
  BY DEF UpdateMyDetails, Patches
<1>3. [desk[r] EXCEPT !.stage = "written", !.patch = p] \in DeskState
  BY DEF SurfaceTyped, DeskState
<1>4. ASSUME NEW q \in Request
      PROVE  [desk[q] EXCEPT !.over = @ \cup {c \in Column : p[c] # None}] \in DeskState
  BY DEF SurfaceTyped, DeskState
<1>5. desk' \in [Request -> DeskState]
  BY <1>2, <1>3, <1>4 DEF SurfaceTyped
<1>. QED
  BY <1>1, <1>2, <1>5

LEMMA SurfaceTypeStep ==
    ASSUME TypeInv, BearerInv, SurfaceTyped, [SNext]_svars PROVE SurfaceTyped'
<1>1. ASSUME NEW r \in Request, AnswerAtOnce(r) \/ Respond(r) \/ Stop(r) PROVE SurfaceTyped'
  BY <1>1, SurfaceRows DEF AnswerAtOnce, Respond, Stop, SurfaceTyped
<1>2. ASSUME NEW r \in Request, UpdateMyDetails(r) PROVE SurfaceTyped'
  <2>1. PICK p \in Columns :
          /\ req[r].user \in User
          /\ record' = [record EXCEPT ![req[r].user] = Written(req[r].user, p)]
          /\ desk' \in [Request -> DeskState]
    BY <1>2, UpdateDesks
  <2>2. Written(req[r].user, p) \in Record
    BY <2>1, SurfaceRows
  <2>. QED
    BY <2>1, <2>2 DEF SurfaceTyped
<1>3. ASSUME NEW r \in Request, UpdateView(r) PROVE SurfaceTyped'
  <2>1. View(req[r].user) \in Record \cup {None}
    BY <1>3, ServedUser, SurfaceRows DEF UpdateView
  <2>2. [desk[r] EXCEPT !.stage = "viewed", !.view = View(req[r].user)] \in DeskState
    BY <2>1 DEF SurfaceTyped, DeskState
  <2>3. desk' = [desk EXCEPT ![r] =
                   [desk[r] EXCEPT !.stage = "viewed", !.view = View(req[r].user)]]
    BY <1>3 DEF UpdateView, SurfaceTyped
  <2>. QED
    BY <1>3, <2>2, <2>3 DEF UpdateView, SurfaceTyped
<1>4. ASSUME (\E r \in Request : Elsewhere(r)) \/ World \/ UNCHANGED svars PROVE SurfaceTyped'
  BY <1>4 DEF Elsewhere, World, svars, SurfaceTyped
<1>. QED
  BY <1>1, <1>2, <1>3, <1>4 DEF SNext, Route

LEMMA SurfaceInvariants == SSpec => [](TypeInv /\ BearerInv /\ SurfaceTyped)
<1>1. SInit /\ TypeInv => SurfaceTyped
  <2>1. NoDesk \in DeskState /\ NoColumn \in Columns
    BY SurfaceRows
  <2>. QED
    BY <2>1 DEF SInit, SurfaceTyped, Record
<1>2. TypeInv /\ BearerInv /\ SurfaceTyped /\ [SNext]_svars => SurfaceTyped'
  BY SurfaceTypeStep
<1>. QED
  BY <1>1, <1>2, SurfaceImplementsAccess, TypeInvariant, BearerInvariant, PTL DEF SSpec

(* The type invariant of the surface, for every instance.                  *)
THEOREM SurfaceTypeCorrect == SSpec => []STypeOK
<1>1. TypeInv /\ SurfaceTyped => STypeOK
  BY DEF TypeInv, SurfaceTyped, STypeOK
<1>. QED
  BY <1>1, SurfaceInvariants, PTL

-----------------------------------------------------------------------------
(* Own live writes.                                                        *)

LEMMA RecordStep ==
    ASSUME [SNext]_svars, record' # record PROVE \E r \in Request : UpdateMyDetails(r)
  BY DEF SNext, Route, Elsewhere, AnswerAtOnce, UpdateView, Respond, Stop, World, svars

(* A principal's record is written only while they are live and active and *)
(* through a link of theirs, for every instance: the bearer check names    *)
(* the principal, the UPDATE's own condition decides.                      *)
THEOREM OwnLiveWritesHold == SSpec => OwnLiveWrites
<1> DEFINE Own == \A u \in User : record'[u] # record[u] =>
         /\ ActivePrincipal(u)
         /\ record'[u].by = u
         /\ \E r \in Request : /\ desk[r].stage = "none" /\ desk'[r].stage = "written"
                               /\ tokens[req[r].token].user = u
<1>1. BearerInv /\ SurfaceTyped /\ [SNext]_svars => Own
  <2> SUFFICES ASSUME BearerInv, SurfaceTyped, [SNext]_svars,
                      NEW u \in User, record'[u] # record[u]
               PROVE  /\ ActivePrincipal(u)
                      /\ record'[u].by = u
                      /\ \E r \in Request :
                           /\ desk[r].stage = "none" /\ desk'[r].stage = "written"
                           /\ tokens[req[r].token].user = u
    OBVIOUS
  <2>1. PICK r \in Request : UpdateMyDetails(r)
    BY RecordStep
  <2>2. PICK p \in Columns :
          /\ req[r].user \in User
          /\ record' = [record EXCEPT ![req[r].user] = Written(req[r].user, p)]
          /\ desk'[r] = [desk[r] EXCEPT !.stage = "written", !.patch = p]
    BY <2>1, UpdateDesks
  <2>3. u = req[r].user
    BY <2>2 DEF SurfaceTyped
  <2>4. record'[u].by = u
    BY <2>2, <2>3, SurfaceRows DEF SurfaceTyped
  <2>5. ActivePrincipal(u)
    BY <2>1, <2>3 DEF UpdateMyDetails, Writable
  <2>6. desk[r].stage = "none" /\ desk'[r].stage = "written"
    BY <2>1, <2>2 DEF UpdateMyDetails, Served, SurfaceTyped, DeskState
  <2>7. tokens[req[r].token].user = u
    BY <2>1, <2>3, ServedUser DEF UpdateMyDetails, Served
  <2>. QED
    BY <2>4, <2>5, <2>6, <2>7
<1>2. BearerInv /\ SurfaceTyped /\ [SNext]_svars => [Own]_svars
  BY <1>1
<1>. QED
  BY <1>2, SurfaceInvariants, PTL DEF SSpec, OwnLiveWrites

-----------------------------------------------------------------------------
(* Racing updates.  From its UPDATE to its second SELECT the columns that  *)
(* a route's patch set are what the record holds, unless somebody wrote    *)
(* over them.  A route is behind its bearer check only while its call is.  *)

DeskInv == \A r \in Request : desk[r].stage # "none" => req[r].pc = "granted"

Lasts(r) ==
    desk[r].stage = "written" => \A c \in Column :
        \/ desk[r].patch[c] = None
        \/ c \in desk[r].over
        \/ record[req[r].user].columns[c] = desk[r].patch[c]

Shows(r) ==
    desk[r].stage = "viewed" => \A c \in Column :
        \/ desk[r].patch[c] = None
        \/ desk[r].view = None
        \/ desk[r].view.columns[c] = desk[r].patch[c]
        \/ c \in desk[r].over

ViewInv == DeskInv /\ \A r \in Request : Lasts(r) /\ Shows(r)

LEMMA ViewKept ==
    ASSUME ViewInv, NEW q \in Request, SameCall(q), desk'[q] = desk[q], record' = record
    PROVE  /\ desk'[q].stage # "none" => req'[q].pc = "granted"
           /\ Lasts(q)' /\ Shows(q)'
<1>1. desk[q].stage # "none" =>
        req'[q].user = req[q].user /\ req'[q].pc = req[q].pc /\ req[q].pc = "granted"
  BY DEF SameCall, ViewInv, DeskInv
<1>. QED
  BY <1>1 DEF ViewInv, Lasts, Shows

LEMMA ViewStep ==
    ASSUME TypeInv, BearerInv, SurfaceTyped, ViewInv, [SNext]_svars PROVE ViewInv'
<1> DEFINE Fine(q) == /\ desk'[q].stage # "none" => req'[q].pc = "granted"
                      /\ Lasts(q)' /\ Shows(q)'
<1>1. ASSUME NEW q \in Request, desk'[q].stage = "none" PROVE Fine(q)
  BY <1>1 DEF Lasts, Shows
<1>2. NoDesk.stage = "none"
  BY DEF NoDesk
<1>3. ASSUME NEW r \in Request, Elsewhere(r) \/ AnswerAtOnce(r) \/ Respond(r) \/ Stop(r),
             NEW q \in Request
      PROVE  Fine(q)
  <2>1. Step(r) /\ record' = record
    BY <1>3 DEF Elsewhere, AnswerAtOnce, Respond, Stop, Step, Continue
  <2>2. CASE q # r
    <3>1. desk'[q] = desk[q]
      BY <1>3, <2>2 DEF Elsewhere, AnswerAtOnce, Respond, Stop, SurfaceTyped
    <3>. QED
      BY <2>1, <2>2, <3>1, OthersKeep, ViewKept
  <2>3. CASE q = r
    <3>1. CASE Elsewhere(r)
      <4>1. desk[r].stage = "none"
        BY <3>1 DEF Elsewhere, At, ViewInv, DeskInv
      <4>2. desk'[r].stage = "none"
        BY <3>1, <4>1 DEF Elsewhere
      <4>. QED
        BY <1>1, <2>3, <4>2
    <3>2. CASE AnswerAtOnce(r) \/ Respond(r) \/ Stop(r)
      <4>1. desk'[r].stage = "none"
        BY <1>2, <3>2 DEF AnswerAtOnce, Respond, Stop, SurfaceTyped
      <4>. QED
        BY <1>1, <2>3, <4>1
    <3>. QED
      BY <1>3, <3>1, <3>2
  <2>. QED
    BY <2>2, <2>3
<1>4. ASSUME NEW r \in Request, UpdateMyDetails(r), NEW q \in Request PROVE Fine(q)
  <2> DEFINE u == req[r].user
  <2>1. PICK p \in Columns :
          /\ u \in User
          /\ record' = [record EXCEPT ![u] = Written(u, p)]
          /\ desk'[r] = [desk[r] EXCEPT !.stage = "written", !.patch = p]
          /\ \A x \in Request \ {r} :
               desk'[x] = IF desk[x].stage = "written" /\ req[x].user = u
                          THEN [desk[x] EXCEPT !.over = @ \cup {c \in Column : p[c] # None}]
                          ELSE desk[x]
    BY <1>4, UpdateDesks
  <2>2. req' = req /\ req[r].pc = "granted"
    BY <1>4 DEF UpdateMyDetails, Served, At, vars
  <2>3. /\ \A v \in User \ {u} : record'[v] = record[v]
        /\ \A c \in Column : record'[u].columns[c]
                               = IF p[c] = None THEN record[u].columns[c] ELSE p[c]
    BY <2>1, SurfaceRows DEF SurfaceTyped
  <2>4. CASE q = r
    <3>1. desk'[r].stage = "written" /\ desk'[r].patch = p
      BY <2>1 DEF SurfaceTyped, DeskState
    <3>. QED
      BY <2>2, <2>3, <2>4, <3>1 DEF Lasts, Shows
  <2>5. CASE q # r /\ desk[q].stage = "written" /\ req[q].user = u
    <3>1. /\ desk'[q].stage = "written" /\ desk'[q].patch = desk[q].patch
          /\ desk'[q].over = desk[q].over \cup {c \in Column : p[c] # None}
      BY <2>1, <2>5 DEF SurfaceTyped, DeskState
    <3>2. \A c \in Column : \/ desk[q].patch[c] = None
                            \/ c \in desk[q].over
                            \/ record[u].columns[c] = desk[q].patch[c]
      BY <2>5 DEF ViewInv, Lasts
    <3>. QED
      BY <2>2, <2>3, <2>5, <3>1, <3>2 DEF Lasts, Shows, ViewInv, DeskInv
  <2>6. CASE q # r /\ ~(desk[q].stage = "written" /\ req[q].user = u)
    <3>1. desk'[q] = desk[q]
      BY <2>1, <2>6
    <3>2. desk[q].stage = "written" => record'[req[q].user] = record[req[q].user]
      <4>1. desk[q].stage = "written" => req[q].user \in User /\ req[q].user # u
        BY <2>6, ServedUser DEF ViewInv, DeskInv, At
      <4>. QED
        BY <2>3, <4>1
    <3>. QED
      BY <2>2, <3>1, <3>2 DEF ViewInv, DeskInv, Lasts, Shows
  <2>. QED
    BY <2>4, <2>5, <2>6
<1>5. ASSUME NEW r \in Request, UpdateView(r), NEW q \in Request PROVE Fine(q)
  <2>1. req' = req /\ record' = record /\ req[r].pc = "granted"
    BY <1>5 DEF UpdateView, At, vars
  <2>2. CASE q # r
    <3>1. desk'[q] = desk[q]
      BY <1>5, <2>2 DEF UpdateView, SurfaceTyped
    <3>. QED
      BY <2>1, <3>1, ViewKept DEF SameCall
  <2>3. CASE q = r
    <3>1. /\ desk'[r].stage = "viewed" /\ desk'[r].view = View(req[r].user)
          /\ desk'[r].patch = desk[r].patch /\ desk'[r].over = desk[r].over
      BY <1>5 DEF UpdateView, SurfaceTyped, DeskState
    <3>2. \A c \in Column : \/ desk[r].patch[c] = None
                            \/ c \in desk[r].over
                            \/ record[req[r].user].columns[c] = desk[r].patch[c]
      BY <1>5 DEF UpdateView, ViewInv, Lasts
    <3>. QED
      BY <2>1, <2>3, <3>1, <3>2 DEF Lasts, Shows, View
  <2>. QED
    BY <2>2, <2>3
<1>6. ASSUME World \/ UNCHANGED svars, NEW q \in Request PROVE Fine(q)
  <2>1. UNCHANGED <<req, desk, record>>
    BY <1>6, WorldKeeps DEF World, svars, vars
  <2>. QED
    BY <2>1, ViewKept DEF SameCall
<1>. QED
  BY <1>3, <1>4, <1>5, <1>6 DEF SNext, Route, ViewInv, DeskInv

(* update_my_details answers, in each column it wrote, its own value or    *)
(* what somebody wrote after it, for every instance: the second SELECT     *)
(* never shows what the UPDATE replaced, and an update of other columns    *)
(* leaves its own alone.                                                   *)
THEOREM ViewCurrentHolds == SSpec => []ViewCurrent
<1>1. SInit => ViewInv
  BY DEF SInit, NoDesk, ViewInv, DeskInv, Lasts, Shows
<1>2. TypeInv /\ BearerInv /\ SurfaceTyped /\ ViewInv /\ [SNext]_svars => ViewInv'
  BY ViewStep
<1>3. ViewInv => ViewCurrent
  BY DEF ViewInv, Shows, ViewCurrent
<1>. QED
  BY <1>1, <1>2, <1>3, SurfaceInvariants, PTL DEF SSpec
=============================================================================
