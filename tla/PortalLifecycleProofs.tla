------------------------ MODULE PortalLifecycleProofs ------------------------
(***************************************************************************)
(* Proofs about PortalLifecycle, for every instance: sapiens, the bus and  *)
(* the handler do to the access core only what its own steps do, and the   *)
(* handler's revocations are audited once, only when swept, and only of    *)
(* persons who have left.                                                  *)
(***************************************************************************)
EXTENDS PortalLifecycle, PortalVerbProofs, FiniteSetTheorems

-----------------------------------------------------------------------------
(* What the handler holds in a slot.                                       *)

LifecycleTyped ==
    /\ person \in [Person -> {"unknown", "employed", "inactive", "gone"}]
    /\ bus \subseteq Envelope
    /\ linked \in [User -> Person \cup {None}]
    /\ handler \in [Request -> HandlerState]
    /\ trail \in [TrailRow -> Nat]
    /\ replays \in 0..MaxReplays

(* Until its revoke_access flips, the handler has no call open in its      *)
(* slot.                                                                   *)
Quiet == \A r \in Request : handler[r].pc \in {"stamp", "audit", "lookup", "revoke"} => At(r, "idle")

LifecycleInv == TypeInv /\ LifecycleTyped /\ Quiet

LEMMA NoWorkFields == NoWork \in HandlerState /\ NoWork.pc = "idle"
  BY DEF NoWork, HandlerState

LEMMA HandlerShape ==
    ASSUME NEW w \in HandlerState
    PROVE  /\ w.pc \in {"idle", "stamp", "audit", "lookup", "revoke", "sweeping"}
           /\ w.pc # "idle" => w.envelope \in Envelope
           /\ w.user \in User \cup {None}
           /\ w.pc \in {"revoke", "sweeping"} => w.user \in User
  BY DEF HandlerState, NoWork

LEMMA EnvelopeFields ==
    ASSUME NEW e \in Envelope PROVE e.type \in {"created"} \cup Gone /\ e.person \in Person
  BY DEF Envelope

(* The handler goes on in a slot, to a statement that the type allows.     *)
Ahead(s, pc, e, u) == s \in HandlerState /\ s.pc = pc /\ s.envelope = e /\ s.user = u

LEMMA GoesOn ==
    ASSUME NEW w \in HandlerState, w.pc # "idle"
    PROVE  /\ \A u \in User \cup {None} :
                Ahead([w EXCEPT !.pc = "audit", !.user = u], "audit", w.envelope, u)
           /\ Ahead([w EXCEPT !.pc = "audit"], "audit", w.envelope, w.user)
           /\ \A u \in User :
                Ahead([w EXCEPT !.pc = "revoke", !.user = u], "revoke", w.envelope, u)
           /\ w.user \in User =>
                Ahead([w EXCEPT !.pc = "sweeping"], "sweeping", w.envelope, w.user)
<1>1. w \in [pc : {"stamp", "audit", "lookup", "revoke", "sweeping"}, envelope : Envelope,
            user : User \cup {None}]
  BY DEF HandlerState, NoWork
<1>2. ASSUME NEW u \in User \cup {None}
      PROVE  Ahead([w EXCEPT !.pc = "audit", !.user = u], "audit", w.envelope, u)
  BY <1>1, <1>2 DEF Ahead, HandlerState
<1>3. Ahead([w EXCEPT !.pc = "audit"], "audit", w.envelope, w.user)
  BY <1>1 DEF Ahead, HandlerState
<1>4. ASSUME NEW u \in User
      PROVE  Ahead([w EXCEPT !.pc = "revoke", !.user = u], "revoke", w.envelope, u)
  BY <1>1, <1>4 DEF Ahead, HandlerState
<1>5. ASSUME w.user \in User PROVE Ahead([w EXCEPT !.pc = "sweeping"], "sweeping", w.envelope, w.user)
  BY <1>1, <1>5 DEF Ahead, HandlerState
<1>. QED
  BY <1>2, <1>3, <1>4, <1>5

LEMMA Worked ==
    ASSUME LifecycleTyped, NEW r \in Request, NEW w \in HandlerState, Work(r, w)
    PROVE  /\ handler' \in [Request -> HandlerState] /\ handler'[r] = w
           /\ \A q \in Request : q # r => handler'[q] = handler[q]
  BY DEF LifecycleTyped, Work

-----------------------------------------------------------------------------
(* The handler's moves, each with the slot it moves in.                    *)

(* What a step of the handler makes of its slot's work.                    *)
Moved(r, w) ==
    /\ w \in HandlerState /\ handler'[r] = w
    /\ \A q \in Request : q # r => handler'[q] = handler[q]

LEMMA DispatchMoves ==
    ASSUME LifecycleTyped, NEW r \in Request, Dispatch(r)
    PROVE  \E w \in HandlerState :
             /\ Moved(r, w) /\ w.envelope \in bus /\ bus' = bus \ {w.envelope}
             /\ w.pc = IF w.envelope.type = "created" THEN "stamp" ELSE "lookup"
             /\ w.user = None
<1>1. PICK e \in bus : /\ bus' = bus \ {e}
                       /\ Work(r, [pc |-> IF e.type = "created" THEN "stamp" ELSE "lookup",
                                   envelope |-> e, user |-> None])
  BY DEF Dispatch
<1>2. PICK pc : pc = IF e.type = "created" THEN "stamp" ELSE "lookup"
  OBVIOUS
<1>3. PICK w : w = [pc |-> pc, envelope |-> e, user |-> None]
  OBVIOUS
<1>4. w \in HandlerState /\ w.envelope = e /\ w.pc = pc /\ w.user = None
  BY <1>1, <1>2, <1>3 DEF HandlerState, LifecycleTyped
<1>. QED
  BY <1>1, <1>2, <1>3, <1>4, Worked DEF Moved

LEMMA StampMoves ==
    ASSUME LifecycleTyped, NEW r \in Request, Stamp(r)
    PROVE  \E w \in HandlerState :
             /\ Moved(r, w) /\ w.pc = "audit" /\ w.envelope = handler[r].envelope
             /\ \/ linked' = linked
                \/ /\ w.user \in User /\ linked[w.user] = None
                   /\ linked' = [linked EXCEPT ![w.user] = w.envelope.person]
<1>1. PICK h \in HandlerState : h = handler[r] /\ h.pc # "idle"
  BY DEF LifecycleTyped, Stamp, Working
<1>2. ASSUME Work(r, [h EXCEPT !.pc = "audit"])
      PROVE  \E w \in HandlerState : Moved(r, w) /\ w.pc = "audit" /\ w.envelope = h.envelope
  <2>1. PICK w : w = [h EXCEPT !.pc = "audit"]
    OBVIOUS
  <2>2. w \in HandlerState /\ w.pc = "audit" /\ w.envelope = h.envelope
    BY <1>1, <2>1, GoesOn DEF Ahead
  <2>3. Moved(r, w)
    BY <1>2, <2>1, <2>2, Worked DEF Moved
  <2>. QED
    BY <2>2, <2>3
<1>3. ASSUME NEW u \in Stampable(h.envelope.person),
             linked' = [linked EXCEPT ![u] = h.envelope.person],
             Work(r, [h EXCEPT !.pc = "audit", !.user = u])
      PROVE  \E w \in HandlerState :
               /\ Moved(r, w) /\ w.pc = "audit" /\ w.envelope = h.envelope
               /\ w.user \in User /\ linked[w.user] = None
               /\ linked' = [linked EXCEPT ![w.user] = w.envelope.person]
  <2>1. u \in User /\ linked[u] = None
    BY <1>3 DEF Stampable, LiveByEmail
  <2>2. PICK w : w = [h EXCEPT !.pc = "audit", !.user = u]
    OBVIOUS
  <2>3. w \in HandlerState /\ w.pc = "audit" /\ w.user = u /\ w.envelope = h.envelope
    BY <1>1, <2>1, <2>2, GoesOn DEF Ahead
  <2>4. Moved(r, w)
    BY <1>3, <2>2, <2>3, Worked DEF Moved
  <2>. QED
    BY <1>3, <2>1, <2>3, <2>4
<1>. QED
  BY <1>1, <1>2, <1>3 DEF Stamp

LEMMA LookupMoves ==
    ASSUME LifecycleTyped, NEW r \in Request, Lookup(r)
    PROVE  \/ Moved(r, NoWork)
           \/ \E w \in HandlerState :
                /\ Moved(r, w) /\ w.pc = "revoke" /\ w.envelope = handler[r].envelope
                /\ w.user \in User /\ linked[w.user] = w.envelope.person
<1>1. PICK h \in HandlerState : h = handler[r] /\ h.pc # "idle"
  BY DEF LifecycleTyped, Lookup, Working
<1>2. CASE Work(r, NoWork)
  BY <1>2, Worked, NoWorkFields DEF Moved
<1>3. ASSUME NEW u \in LinkedTo(h.envelope.person), Work(r, [h EXCEPT !.pc = "revoke", !.user = u])
      PROVE  \E w \in HandlerState :
                /\ Moved(r, w) /\ w.pc = "revoke" /\ w.envelope = h.envelope
                /\ w.user \in User /\ linked[w.user] = w.envelope.person
  <2>1. u \in User /\ linked[u] = h.envelope.person
    BY <1>3 DEF LinkedTo
  <2>2. PICK w : w = [h EXCEPT !.pc = "revoke", !.user = u]
    OBVIOUS
  <2>3. w \in HandlerState /\ w.pc = "revoke" /\ w.user = u /\ w.envelope = h.envelope
    BY <1>1, <2>1, <2>2, GoesOn DEF Ahead
  <2>4. Moved(r, w)
    BY <1>3, <2>2, <2>3, Worked DEF Moved
  <2>. QED
    BY <2>1, <2>3, <2>4
<1>. QED
  BY <1>1, <1>2, <1>3 DEF Lookup

LEMMA RevokeMoves ==
    ASSUME LifecycleTyped, NEW r \in Request, Revoke(r)
    PROVE  \/ Moved(r, NoWork) /\ UNCHANGED vars
           \/ /\ RevokeFlip(r, handler[r].user)
              /\ \E w \in HandlerState :
                   /\ Moved(r, w) /\ w.pc = "sweeping" /\ w.envelope = handler[r].envelope
                   /\ w.user = handler[r].user
<1>1. PICK h \in HandlerState : h = handler[r] /\ h.pc = "revoke"
  BY DEF LifecycleTyped, Revoke, Working
<1>2. ASSUME Work(r, [h EXCEPT !.pc = "sweeping"])
      PROVE  \E w \in HandlerState : /\ Moved(r, w) /\ w.pc = "sweeping"
                                     /\ w.envelope = h.envelope /\ w.user = h.user
  <2>1. PICK w : w = [h EXCEPT !.pc = "sweeping"]
    OBVIOUS
  <2>2. w \in HandlerState /\ w.pc = "sweeping" /\ w.user = h.user /\ w.envelope = h.envelope
    BY <1>1, <2>1, GoesOn, HandlerShape DEF Ahead
  <2>3. Moved(r, w)
    BY <1>2, <2>1, <2>2, Worked DEF Moved
  <2>. QED
    BY <2>2, <2>3
<1>3. Work(r, NoWork) => Moved(r, NoWork)
  BY Worked, NoWorkFields DEF Moved
<1>. QED
  BY <1>1, <1>2, <1>3 DEF Revoke

LEMMA EndMoves ==
    ASSUME LifecycleTyped, NEW r \in Request, HandlerStops(r) \/ AuditCreated(r) \/ AuditRevoked(r)
    PROVE  Moved(r, NoWork)
  BY Worked, NoWorkFields DEF HandlerStops, AuditCreated, AuditRevoked, Moved

LEMMA RowAdded ==
    ASSUME LifecycleTyped, NEW event \in TrailEvent, NEW p \in Person, NEW u \in User \cup {None},
           AddRow(event, p, u)
    PROVE  LET row == [event |-> event, person |-> p, user |-> u] IN
             /\ row \in TrailRow
             /\ trail' = [trail EXCEPT ![row] = trail[row] + 1]
             /\ trail' \in [TrailRow -> Nat]
             /\ trail'[row] = trail[row] + 1
             /\ \A other \in TrailRow : other # row => trail'[other] = trail[other]
<1>1. PICK row : row = [event |-> event, person |-> p, user |-> u]
  OBVIOUS
<1>2. row \in TrailRow
  BY <1>1 DEF TrailRow
<1>3. trail \in [TrailRow -> Nat] /\ trail' = [trail EXCEPT ![row] = trail[row] + 1]
  BY <1>1 DEF LifecycleTyped, AddRow
<1>. QED
  BY <1>1, <1>2, <1>3

(* The row that ends each arm.                                             *)
LEMMA CreatedRow ==
    ASSUME LifecycleTyped, NEW r \in Request, AuditCreated(r)
    PROVE  \E event \in TrailEvent, p \in Person, u \in User \cup {None} :
             /\ event # "lifecycle_access_revoked" /\ p = handler[r].envelope.person
             /\ AddRow(event, p, u)
<1>1. PICK event : event = IF handler[r].user = None THEN "onboarding_no_invitation"
                           ELSE "onboarding_linked"
  OBVIOUS
<1>2. AddRow(event, handler[r].envelope.person, handler[r].user)
  BY <1>1 DEF AuditCreated
<1>3. event \in TrailEvent /\ event # "lifecycle_access_revoked"
  BY <1>1 DEF TrailEvent
<1>4. handler[r].envelope.person \in Person /\ handler[r].user \in User \cup {None}
  BY HandlerShape, EnvelopeFields DEF LifecycleTyped, AuditCreated, Working
<1>. QED
  BY <1>2, <1>3, <1>4

LEMMA RevokedRow ==
    ASSUME LifecycleTyped, NEW r \in Request, AuditRevoked(r)
    PROVE  /\ handler[r].envelope.person \in Person /\ handler[r].user \in User
           /\ AddRow("lifecycle_access_revoked", handler[r].envelope.person, handler[r].user)
           /\ "lifecycle_access_revoked" \in TrailEvent
<1>1. handler[r].envelope.person \in Person /\ handler[r].user \in User
  BY HandlerShape, EnvelopeFields DEF LifecycleTyped, AuditRevoked, Working
<1>. QED
  BY <1>1 DEF AuditRevoked, TrailEvent

LEMMA Published ==
    ASSUME LifecycleTyped, NEW p \in Person, Created(p) \/ Deactivated(p) \/ Deleted(p)
    PROVE  \E e \in Envelope :
             /\ e.person = p
             /\ bus' = bus \cup {e}
             /\ person' \in [Person -> {"unknown", "employed", "inactive", "gone"}]
             /\ \A q \in Person : q # p => person'[q] = person[q]
             /\ e.type = "created" => person[p] = "unknown" /\ person'[p] = "employed"
             /\ e.type \in Gone => person[p] # "unknown" /\ person'[p] \in {"inactive", "gone"}
             /\ UNCHANGED <<vars, linked, handler, trail, replays>>
<1>1. person \in [Person -> {"unknown", "employed", "inactive", "gone"}]
  BY DEF LifecycleTyped
<1>2. ASSUME NEW type \in {"created"} \cup Gone
      PROVE  \E e \in Envelope : e = [type |-> type, person |-> p] /\ e.type = type /\ e.person = p
  <2>1. PICK e : e = [type |-> type, person |-> p]
    OBVIOUS
  <2>. QED
    BY <2>1 DEF Envelope
<1>3. CASE Created(p)
  <2>1. PICK e \in Envelope : /\ e = [type |-> "created", person |-> p]
                              /\ e.type = "created" /\ e.person = p
    BY <1>2
  <2>. QED
    BY <1>1, <1>3, <2>1 DEF Created, Publish, Gone
<1>4. CASE Deactivated(p)
  <2>1. PICK e \in Envelope : /\ e = [type |-> "deactivated", person |-> p]
                              /\ e.type = "deactivated" /\ e.person = p
    BY <1>2 DEF Gone
  <2>. QED
    BY <1>1, <1>4, <2>1 DEF Deactivated, Publish, Gone
<1>5. CASE Deleted(p)
  <2>1. PICK e \in Envelope : /\ e = [type |-> "deleted", person |-> p]
                              /\ e.type = "deleted" /\ e.person = p
    BY <1>2 DEF Gone
  <2>. QED
    BY <1>1, <1>5, <2>1 DEF Deleted, Publish, Gone
<1>. QED
  BY <1>3, <1>4, <1>5

-----------------------------------------------------------------------------
(* Types.                                                                  *)

LEMMA LifecycleTypedStep == ASSUME LifecycleTyped, [LNext]_lvars PROVE LifecycleTyped'
<1>1. CASE Core \/ UNCHANGED lvars
  BY <1>1 DEF Core, lifecycle, lvars, LifecycleTyped
<1>2. ASSUME NEW p \in Person, Created(p) \/ Deactivated(p) \/ Deleted(p) PROVE LifecycleTyped'
  <2>1. PICK e \in Envelope :
          /\ bus' = bus \cup {e}
          /\ person' \in [Person -> {"unknown", "employed", "inactive", "gone"}]
          /\ UNCHANGED <<vars, linked, handler, trail, replays>>
    BY <1>2, Published
  <2>. QED
    BY <2>1 DEF LifecycleTyped
<1>3. ASSUME NEW r \in Request, Dispatch(r) PROVE LifecycleTyped'
  <2>1. handler' \in [Request -> HandlerState] /\ bus' \subseteq bus
    <3>1. PICK w \in HandlerState : Moved(r, w) /\ bus' = bus \ {w.envelope}
      BY <1>3, DispatchMoves
    <3>. QED
      BY <1>3, <3>1 DEF Moved, Dispatch, Work, LifecycleTyped
  <2>. QED
    BY <1>3, <2>1 DEF Dispatch, LifecycleTyped
<1>4. ASSUME NEW r \in Request, Redeliver(r) PROVE LifecycleTyped'
  <2>1. handler[r].envelope \in Envelope
    BY <1>4, HandlerShape DEF Redeliver, Working, LifecycleTyped
  <2>. QED
    BY <1>4, <2>1, MaxReplaysAssumption DEF Redeliver, LifecycleTyped
<1>5. ASSUME NEW r \in Request, HandlerStops(r) PROVE LifecycleTyped'
  <2>1. handler[r].envelope \in Envelope
    BY <1>5, HandlerShape DEF HandlerStops, Working, LifecycleTyped
  <2>2. handler' \in [Request -> HandlerState]
    BY <1>5, NoWorkFields DEF HandlerStops, Work, LifecycleTyped
  <2>. QED
    BY <1>5, <2>1, <2>2, MaxReplaysAssumption DEF HandlerStops, Returned, LifecycleTyped
<1>6. ASSUME NEW r \in Request, Stamp(r) PROVE LifecycleTyped'
  <2>1. PICK w \in HandlerState :
          /\ Moved(r, w)
          /\ w.envelope = handler[r].envelope
          /\ \/ linked' = linked
             \/ w.user \in User /\ linked' = [linked EXCEPT ![w.user] = w.envelope.person]
    BY <1>6, StampMoves
  <2>2. w.envelope.person \in Person
    BY <1>6, <2>1, HandlerShape, EnvelopeFields DEF Stamp, Working, LifecycleTyped
  <2>3. handler' \in [Request -> HandlerState]
    BY <1>6, <2>1 DEF Stamp, Work, Moved, LifecycleTyped
  <2>. QED
    BY <1>6, <2>1, <2>2, <2>3 DEF Stamp, LifecycleTyped
<1>7. ASSUME NEW r \in Request, AuditCreated(r) \/ AuditRevoked(r) PROVE LifecycleTyped'
  <2>1. handler' \in [Request -> HandlerState]
    BY <1>7, NoWorkFields DEF AuditCreated, AuditRevoked, Work, LifecycleTyped
  <2>2. trail' \in [TrailRow -> Nat]
    BY <1>7, CreatedRow, RevokedRow, RowAdded
  <2>. QED
    BY <1>7, <2>1, <2>2 DEF AuditCreated, AuditRevoked, LifecycleTyped
<1>8. ASSUME NEW r \in Request, Lookup(r) \/ Revoke(r) PROVE LifecycleTyped'
  <2>1. \E w \in HandlerState : Moved(r, w)
    BY <1>8, LookupMoves, RevokeMoves, NoWorkFields
  <2>2. handler' \in [Request -> HandlerState]
    BY <1>8, <2>1 DEF Lookup, Revoke, Work, Moved, LifecycleTyped
  <2>. QED
    BY <1>8, <2>2 DEF Lookup, Revoke, LifecycleTyped
<1>. QED
  BY <1>1, <1>2, <1>3, <1>4, <1>5, <1>6, <1>7, <1>8 DEF LNext, Handle

-----------------------------------------------------------------------------
(* The handler's slot is free until its flip, and its flip is the core's.  *)

LEMMA CoreSteps ==
    ASSUME Core
    PROVE  /\ UNCHANGED lifecycle
           /\ \/ \E r \in Request : \/ Continue(r) /\ ~At(r, "idle")
                                    \/ /\ Working(r, "idle")
                                       /\ \/ Fail(r)
                                          \/ Start(r) /\ (OfficersRevoke \/ ~RevokeAccess(r))
              \/ Expire \/ SoftDelete \/ Restore
<1>1. ASSUME NEW r \in Request, Continue(r) PROVE ~At(r, "idle")
  BY <1>1 DEF Continue, WriteAudit, Deliver, MintBearer, InvitesRead, InvitesWrite,
     SweepExpiredWrite, RedeemRead, RedeemTx, VerifyRead, VerifyUser, EndGranted, RotateTx,
     BearersRead, BearersWrite, LoginRead, LoginPort, LoginAudit, SignupPolicy, SignupRead,
     SignupPort, SignupInsert, SignupFallback, At
<1>. QED
  BY <1>1 DEF Core

LEMMA FlipIsRevokeAccess ==
    ASSUME LifecycleInv, NEW r \in Request, Working(r, "revoke"), RevokeFlip(r, handler[r].user)
    PROVE  RevokeAccess(r)
<1>1. At(r, "idle") /\ handler[r].user \in User
  BY HandlerShape DEF LifecycleInv, LifecycleTyped, Quiet, Working
<1>. QED
  BY <1>1, RevokeAssumption DEF RevokeAccess, Begin

LEMMA LifecycleStep == ASSUME LifecycleInv, [LNext]_lvars PROVE [Next]_vars
<1>1. CASE Core
  BY <1>1, CoreSteps DEF Next, Step
<1>2. ASSUME NEW p \in Person, Created(p) \/ Deactivated(p) \/ Deleted(p) PROVE UNCHANGED vars
  BY <1>2 DEF Created, Deactivated, Deleted, Publish
<1>3. ASSUME NEW r \in Request, Dispatch(r) \/ Redeliver(r) \/ Stamp(r) \/ AuditCreated(r)
                                \/ Lookup(r) \/ AuditRevoked(r)
      PROVE  UNCHANGED vars
  BY <1>3 DEF Dispatch, Redeliver, Stamp, AuditCreated, Lookup, AuditRevoked
<1>4. ASSUME NEW r \in Request, HandlerStops(r) PROVE [Next]_vars
  BY <1>4 DEF HandlerStops, Next, Step
<1>5. ASSUME NEW r \in Request, Revoke(r) PROVE [Next]_vars
  <2>1. RevokeFlip(r, handler[r].user) => Next
    BY <1>5, FlipIsRevokeAccess DEF Revoke, Next, Step, Start
  <2>. QED
    BY <1>5, <2>1 DEF Revoke
<1>6. UNCHANGED lvars => UNCHANGED vars
  BY DEF lvars, vars
<1>. QED
  BY <1>1, <1>2, <1>3, <1>4, <1>5, <1>6 DEF LNext, Handle

LEMMA QuietStep == ASSUME LifecycleInv, [LNext]_lvars PROVE Quiet'
<1>1. LifecycleTyped /\ Quiet /\ TypeInv
  BY DEF LifecycleInv
<1>2. ASSUME NEW r \in Request, NEW w \in HandlerState, Moved(r, w),
             w.pc \in {"stamp", "audit", "lookup", "revoke"} => At(r, "idle"), UNCHANGED vars
      PROVE  Quiet'
  BY <1>1, <1>2 DEF Moved, Quiet, At, vars
<1>3. CASE Core
  <2>1. ASSUME NEW r \in Request, Step(r), NEW q \in Request, q # r, At(q, "idle")
        PROVE  At(q, "idle")'
    BY <1>1, <2>1, OthersKeep DEF SameCall, At
  <2>2. ASSUME Expire \/ SoftDelete \/ Restore PROVE req' = req
    BY <2>2, WorldKeeps
  <2>3. handler' = handler
    BY <1>3, CoreSteps DEF lifecycle
  <2>. QED
    BY <1>1, <1>3, <2>1, <2>2, <2>3, CoreSteps DEF Step, Quiet, Working, At
<1>4. ASSUME NEW p \in Person, Created(p) \/ Deactivated(p) \/ Deleted(p) PROVE Quiet'
  BY <1>1, <1>4 DEF Created, Deactivated, Deleted, Publish, Quiet, At, vars
<1>5. ASSUME NEW r \in Request, Dispatch(r) PROVE Quiet'
  BY <1>1, <1>2, <1>5, DispatchMoves DEF Dispatch
<1>6. ASSUME NEW r \in Request, Redeliver(r) PROVE Quiet'
  BY <1>1, <1>6 DEF Redeliver, Quiet, At, vars
<1>7. ASSUME NEW r \in Request, HandlerStops(r) PROVE Quiet'
  <2>1. Moved(r, NoWork)
    BY <1>1, <1>7, EndMoves
  <2>2. CASE UNCHANGED vars
    BY <1>2, <2>1, <2>2, NoWorkFields
  <2>3. CASE Fail(r)
    BY <1>1, <2>1, <2>3, NoWorkFields, OthersKeep DEF Moved, Quiet, Step, SameCall, At
  <2>. QED
    BY <1>7, <2>2, <2>3 DEF HandlerStops
<1>8. ASSUME NEW r \in Request, Stamp(r) PROVE Quiet'
  BY <1>1, <1>2, <1>8, StampMoves DEF Stamp, Working, Quiet
<1>9. ASSUME NEW r \in Request, AuditCreated(r) \/ AuditRevoked(r) PROVE Quiet'
  BY <1>1, <1>2, <1>9, EndMoves, NoWorkFields DEF AuditCreated, AuditRevoked
<1>10. ASSUME NEW r \in Request, Lookup(r) PROVE Quiet'
  BY <1>1, <1>2, <1>10, LookupMoves, NoWorkFields DEF Lookup, Working, Quiet
<1>11. ASSUME NEW r \in Request, Revoke(r) PROVE Quiet'
  <2>1. ASSUME RevokeFlip(r, handler[r].user), NEW w \in HandlerState, Moved(r, w),
               w.pc = "sweeping"
        PROVE  Quiet'
    <3>1. Step(r)
      BY <1>11, <2>1, FlipIsRevokeAccess DEF Revoke, Step, Start
    <3>. QED
      BY <1>1, <2>1, <3>1, OthersKeep DEF Moved, Quiet, SameCall, At
  <2>. QED
    BY <1>1, <1>2, <1>11, <2>1, RevokeMoves, NoWorkFields
<1>12. CASE UNCHANGED lvars
  BY <1>1, <1>12 DEF lvars, Quiet, At
<1>. QED
  BY <1>3, <1>4, <1>5, <1>6, <1>7, <1>8, <1>9, <1>10, <1>11, <1>12 DEF LNext, Handle

LEMMA LifecycleInvStep == LifecycleInv /\ [LNext]_lvars => LifecycleInv'
  BY TypeNext, LifecycleStep, LifecycleTypedStep, QuietStep DEF LifecycleInv

LEMMA LifecycleInvariant == LSpec => []LifecycleInv
<1>1. LInit => LifecycleTyped
  BY NoWorkFields, MaxReplaysAssumption DEF LInit, LifecycleTyped
<1>2. LInit => Quiet
  BY NoWorkFields DEF LInit, Quiet
<1>3. LInit => LifecycleInv
  BY <1>1, <1>2, TypeInit DEF LInit, LifecycleInv
<1>. QED
  BY <1>3, LifecycleInvStep, PTL DEF LSpec

(* Sapiens, the bus, the handler and its stops do to the access core what  *)
(* the core's own calls and failures may do, for every instance: the       *)
(* revoke_access that the handler calls in its slot is the verb itself,    *)
(* begun in a slot with no call open.                                      *)
THEOREM LifecycleImplementsAccess == LSpec => Spec
<1>1. LInit => Init
  BY DEF LInit
<1>. QED
  BY <1>1, LifecycleStep, LifecycleInvariant, PTL DEF LSpec, Spec

-----------------------------------------------------------------------------
(* What no step undoes: a link, a settled revocation, a row on the trail;  *)
(* and which steps begin what.                                             *)

LEMMA LinkStays ==
    ASSUME LifecycleInv, [LNext]_lvars, NEW u \in User, linked[u] # None
    PROVE  linked'[u] = linked[u]
<1>1. ASSUME NEW r \in Request, Stamp(r) PROVE linked'[u] = linked[u]
  <2>1. linked \in [User -> Person \cup {None}]
    BY DEF LifecycleInv, LifecycleTyped
  <2>2. \/ linked' = linked
        \/ \E v \in User : /\ linked[v] = None
                           /\ \E x : linked' = [linked EXCEPT ![v] = x]
    BY <1>1, StampMoves DEF LifecycleInv
  <2>. QED
    BY <2>1, <2>2
<1>2. linked' = linked \/ \E r \in Request : Stamp(r)
  BY DEF LNext, Handle, Core, lifecycle, Created, Deactivated, Deleted, Publish, Dispatch,
     Redeliver, HandlerStops, AuditCreated, Lookup, Revoke, AuditRevoked, lvars
<1>. QED
  BY <1>1, <1>2

LEMMA SettledGrows == ASSUME [Next]_vars PROVE settled \subseteq settled'
  BY HistorySteps DEF InvitesWrite

LEMMA SlotSteps ==
    ASSUME LifecycleInv, [LNext]_lvars, NEW r \in Request
    PROVE  \/ handler'[r] = handler[r]
           \/ Dispatch(r) \/ HandlerStops(r) \/ Handle(r)
<1>1. LifecycleTyped
  BY DEF LifecycleInv
<1>2. ASSUME NEW q \in Request, Dispatch(q) \/ HandlerStops(q) \/ Handle(q), q # r
      PROVE  handler'[r] = handler[r]
  BY <1>1, <1>2 DEF Dispatch, HandlerStops, Handle, Stamp, AuditCreated, Lookup, Revoke,
     AuditRevoked, Work, LifecycleTyped
<1>3. ASSUME NEW q \in Request, Redeliver(q) PROVE handler' = handler
  BY <1>3 DEF Redeliver
<1>4. ASSUME NEW p \in Person, Created(p) \/ Deactivated(p) \/ Deleted(p) PROVE handler' = handler
  BY <1>4 DEF Created, Deactivated, Deleted, Publish
<1>5. Core \/ UNCHANGED lvars => handler' = handler
  BY DEF Core, lifecycle, lvars
<1>. QED
  BY <1>2, <1>3, <1>4, <1>5 DEF LNext

(* Who is about to revoke has just found its principal; who sweeps has     *)
(* just flipped it.                                                        *)
LEMMA RevokerSteps ==
    ASSUME LifecycleInv, [LNext]_lvars, NEW r \in Request, handler'[r] # handler[r]
    PROVE  /\ handler'[r].pc \in {"idle", "stamp", "audit", "lookup", "revoke", "sweeping"}
           /\ handler'[r].pc = "lookup" => Dispatch(r)
           /\ handler'[r].pc = "revoke" =>
                /\ handler[r].pc = "lookup" /\ handler'[r].envelope = handler[r].envelope
                /\ handler'[r].user \in User /\ linked' = linked
                /\ linked[handler'[r].user] = handler'[r].envelope.person
           /\ handler'[r].pc = "sweeping" =>
                /\ Revoke(r) /\ RevokeFlip(r, handler[r].user)
                /\ handler[r].pc = "revoke" /\ handler'[r].envelope = handler[r].envelope
                /\ handler'[r].user = handler[r].user /\ linked' = linked
<1>1. LifecycleTyped
  BY DEF LifecycleInv
<1>2. CASE Dispatch(r)
  BY <1>1, <1>2, DispatchMoves DEF Moved
<1>3. CASE HandlerStops(r) \/ AuditCreated(r) \/ AuditRevoked(r)
  BY <1>1, <1>3, EndMoves, NoWorkFields DEF Moved
<1>4. CASE Stamp(r)
  BY <1>1, <1>4, StampMoves DEF Moved
<1>5. CASE Lookup(r)
  BY <1>1, <1>5, LookupMoves, NoWorkFields DEF Moved, Lookup, Working
<1>6. CASE Revoke(r)
  BY <1>1, <1>6, RevokeMoves, NoWorkFields DEF Moved, Revoke, Working
<1>. QED
  BY <1>2, <1>3, <1>4, <1>5, <1>6, SlotSteps DEF Handle

LEMMA RevokedRowSteps ==
    ASSUME LifecycleInv, [LNext]_lvars, NEW p \in Person, NEW u \in User
    PROVE  /\ RevokedRows(p, u) \in Nat
           /\ \/ RevokedRows(p, u)' = RevokedRows(p, u)
              \/ /\ RevokedRows(p, u)' = RevokedRows(p, u) + 1
                 /\ \E r \in Request : /\ AuditRevoked(r) /\ handler[r].user = u
                                       /\ handler[r].envelope.person = p
<1>1. LifecycleTyped
  BY DEF LifecycleInv
<1>2. PICK row : row = [event |-> "lifecycle_access_revoked", person |-> p, user |-> u]
  OBVIOUS
<1>3. row \in TrailRow /\ row.event = "lifecycle_access_revoked" /\ row.person = p /\ row.user = u
  BY <1>2 DEF TrailRow, TrailEvent
<1>4. RevokedRows(p, u) = trail[row] /\ RevokedRows(p, u)' = trail'[row]
  BY <1>2 DEF RevokedRows
<1>5. trail[row] \in Nat
  BY <1>1, <1>3 DEF LifecycleTyped
<1>6. ASSUME NEW event \in TrailEvent, NEW q \in Person, NEW v \in User \cup {None},
             AddRow(event, q, v)
      PROVE  \/ trail'[row] = trail[row]
             \/ /\ trail'[row] = trail[row] + 1
                /\ event = "lifecycle_access_revoked" /\ q = p /\ v = u
  <2>1. PICK other : other = [event |-> event, person |-> q, user |-> v]
    OBVIOUS
  <2>2. other.event = event /\ other.person = q /\ other.user = v
    BY <2>1
  <2>3. /\ trail'[other] = trail[other] + 1
        /\ \A x \in TrailRow : x # other => trail'[x] = trail[x]
    BY <1>1, <1>6, <2>1, RowAdded
  <2>. QED
    BY <1>3, <2>2, <2>3
<1>7. ASSUME NEW r \in Request, AuditCreated(r) PROVE trail'[row] = trail[row]
  BY <1>1, <1>6, <1>7, CreatedRow
<1>8. ASSUME NEW r \in Request, AuditRevoked(r)
      PROVE  \/ trail'[row] = trail[row]
             \/ /\ trail'[row] = trail[row] + 1
                /\ handler[r].user = u /\ handler[r].envelope.person = p
  BY <1>1, <1>6, <1>8, RevokedRow
<1>9. trail' = trail \/ \E r \in Request : AuditCreated(r) \/ AuditRevoked(r)
  BY DEF LNext, Handle, Core, lifecycle, Created, Deactivated, Deleted, Publish, Dispatch,
     Redeliver, HandlerStops, Stamp, Lookup, Revoke, lvars
<1>. QED
  BY <1>4, <1>5, <1>7, <1>8, <1>9

(* A revocation goes on to the end of its sweeps.                          *)
LEMMA RevocationGoesOn ==
    ASSUME TypeInv, TrailInv, NEW r \in Request, Continue(r), req[r].verb = "revoke_access"
    PROVE  \/ req'[r].verb = "revoke_access" /\ req'[r].user = req[r].user
           \/ At(r, "idle")' /\ req[r].user \in settled'
<1>1. req \in [Request -> RequestState] /\ req[r] \in RequestState
  BY DEF TypeInv, TypeOK
<1>2. ASSUME NEW s, Becomes(r, s) PROVE req'[r] = s
  BY <1>1, <1>2 DEF Becomes
<1>3. /\ req[r].pc \in {"bearers_read", "bearers_write", "invites_read", "invites_write", "audit"}
      /\ req[r].pc = "audit" => req[r].then = "invites_read"
  BY DEF TrailInv, Tells, Revoker
<1>4. CASE BearersRead(r) \/ InvitesRead(r)
  <2>1. PICK pc, S : req'[r] = [req[r] EXCEPT !.pc = pc, !.seen = S]
    BY <1>2, <1>4 DEF BearersRead, InvitesRead
  <2>. QED
    BY <1>1, <2>1 DEF RequestState
<1>5. CASE BearersWrite(r)
  <2>1. PICK s : s = [req[r] EXCEPT !.seen = {}]
    OBVIOUS
  <2>2. \/ req'[r] = [s EXCEPT !.pc = "invites_read"]
        \/ \E row : req'[r] = ThenAudit(s, row, "invites_read")
    BY <1>2, <1>5, <2>1 DEF BearersWrite
  <2>3. s \in RequestState /\ s.user = req[r].user /\ s.verb = "revoke_access"
    BY <1>1, <2>1 DEF RequestState
  <2>. QED
    BY <2>2, <2>3 DEF ThenAudit, RequestState
<1>6. CASE WriteAudit(r)
  <2>1. req'[r] = [req[r] EXCEPT !.pc = "invites_read", !.row = None, !.then = "idle"]
    BY <1>2, <1>3, <1>6 DEF WriteAudit, At
  <2>. QED
    BY <1>1, <2>1 DEF RequestState
<1>7. CASE InvitesWrite(r)
  <2>1. req'[r] = Idle /\ settled' = settled \cup {req[r].user}
    BY <1>2, <1>7 DEF InvitesWrite, Return
  <2>. QED
    BY <2>1 DEF Idle, At
<1>. QED
  BY <1>3, <1>4, <1>5, <1>6, <1>7 DEF Continue, Deliver, MintBearer,
     SweepExpiredWrite, RedeemRead, RedeemTx, VerifyRead, VerifyUser, EndGranted, RotateTx,
     LoginRead, LoginPort, LoginAudit, SignupPolicy, SignupRead,
     SignupPort, SignupInsert, SignupFallback, At

-----------------------------------------------------------------------------
(* The revocations of the handler.  Who is about to revoke holds the       *)
(* principal linked to its person.  Who sweeps has flipped it, alone, and  *)
(* has its call still open or settled; until it has audited there is no    *)
(* row, and afterwards there is one, of the person the principal is linked *)
(* to for good.                                                            *)

Sweeps(r, u) == handler[r].pc = "sweeping" /\ handler[r].user = u

Holder(r) ==
    handler[r].pc \in {"revoke", "sweeping"} =>
        linked[handler[r].user] = handler[r].envelope.person

CallOpen(r, u) == req[r].verb = "revoke_access" /\ req[r].user = u
CallSettled(r, u) == At(r, "idle") /\ u \in settled

SweepSound(r, u) ==
    Sweeps(r, u) =>
        /\ users[u].status = "revoked"
        /\ CallOpen(r, u) \/ CallSettled(r, u)
        /\ \A p \in Person : RevokedRows(p, u) = 0
        /\ \A q \in Request : Sweeps(q, u) => q = r

RowSound(p, u) ==
    /\ RevokedRows(p, u) <= 1
    /\ RevokedRows(p, u) > 0 => /\ linked[u] = p
                                /\ users[u].status = "revoked" /\ u \in settled

RevokeInv ==
    /\ \A r \in Request : Holder(r)
    /\ \A r \in Request, u \in User : SweepSound(r, u)
    /\ \A p \in Person, u \in User : RowSound(p, u)

LEMMA HandlerUser ==
    ASSUME LifecycleInv, NEW r \in Request, handler[r].pc # "idle"
    PROVE  /\ handler[r].envelope.person \in Person /\ handler[r].envelope.person # None
           /\ handler[r].pc \in {"revoke", "sweeping"} => handler[r].user \in User
  BY HandlerShape, EnvelopeFields, PersonAssumption DEF LifecycleInv, LifecycleTyped

LEMMA HolderStep ==
    ASSUME LifecycleInv, RevokeInv, [LNext]_lvars, NEW r \in Request PROVE Holder(r)'
<1>1. ASSUME handler'[r].user \in User, linked[handler'[r].user] = handler'[r].envelope.person,
             handler'[r].envelope.person # None
      PROVE  linked'[handler'[r].user] = handler'[r].envelope.person
  BY <1>1, LinkStays
<1>2. CASE handler'[r] = handler[r]
  BY <1>1, <1>2, HandlerUser DEF RevokeInv, Holder
<1>3. CASE handler'[r] # handler[r]
  BY <1>3, RevokerSteps, HandlerUser DEF RevokeInv, Holder
<1>. QED
  BY <1>2, <1>3

(* The call of revoke_access in a slot that sweeps.                        *)
LEMMA CallKept ==
    ASSUME LifecycleInv, TrailInv, RevokeInv, [LNext]_lvars, NEW r \in Request, NEW u \in User,
           Sweeps(r, u), handler'[r] = handler[r]
    PROVE  (CallOpen(r, u) \/ CallSettled(r, u))'
<1>1. [Next]_vars /\ TypeInv /\ LifecycleTyped
  BY LifecycleStep DEF LifecycleInv
<1>2. CallOpen(r, u) \/ CallSettled(r, u)
  BY DEF RevokeInv, SweepSound
<1>3. ASSUME req'[r].verb = req[r].verb, req'[r].user = req[r].user, req'[r].pc = req[r].pc
      PROVE  (CallOpen(r, u) \/ CallSettled(r, u))'
  BY <1>1, <1>2, <1>3, SettledGrows DEF CallOpen, CallSettled, At
<1>4. ASSUME NEW q \in Request, Step(q), q # r PROVE (CallOpen(r, u) \/ CallSettled(r, u))'
  BY <1>1, <1>3, <1>4, OthersKeep DEF SameCall
<1>5. UNCHANGED req => (CallOpen(r, u) \/ CallSettled(r, u))'
  BY <1>3
<1>6. CASE Core
  <2>1. ASSUME Continue(r), ~At(r, "idle") PROVE (CallOpen(r, u) \/ CallSettled(r, u))'
    BY <1>1, <1>2, <2>1, RevocationGoesOn DEF CallOpen, CallSettled
  <2>2. ~Working(r, "idle")
    BY DEF Sweeps, Working
  <2>3. Expire \/ SoftDelete \/ Restore => UNCHANGED req
    BY WorldKeeps
  <2>. QED
    BY <1>4, <1>5, <1>6, <2>1, <2>2, <2>3, CoreSteps DEF Step
<1>7. ASSUME NEW q \in Request, HandlerStops(q) PROVE (CallOpen(r, u) \/ CallSettled(r, u))'
  <2>1. q # r
    BY <1>1, <1>7, EndMoves, NoWorkFields DEF Moved, Sweeps
  <2>. QED
    BY <1>4, <1>5, <1>7, <2>1 DEF HandlerStops, Step, vars
<1>8. ASSUME NEW q \in Request, Revoke(q) PROVE (CallOpen(r, u) \/ CallSettled(r, u))'
  <2>1. q # r
    BY <1>8 DEF Revoke, Working, Sweeps
  <2>2. RevokeFlip(q, handler[q].user) => Step(q)
    BY <1>8, FlipIsRevokeAccess DEF Revoke, Step, Start
  <2>. QED
    BY <1>4, <1>5, <1>8, <2>1, <2>2 DEF Revoke, vars
<1>9. ASSUME NEW q \in Request, Dispatch(q) \/ Redeliver(q) \/ Stamp(q) \/ AuditCreated(q)
                                \/ Lookup(q) \/ AuditRevoked(q)
      PROVE  UNCHANGED req
  BY <1>9 DEF Dispatch, Redeliver, Stamp, AuditCreated, Lookup, AuditRevoked, vars
<1>10. ASSUME NEW p \in Person, Created(p) \/ Deactivated(p) \/ Deleted(p) PROVE UNCHANGED req
  BY <1>10 DEF Created, Deactivated, Deleted, Publish, vars
<1>11. UNCHANGED lvars => UNCHANGED req
  BY DEF lvars
<1>. QED
  BY <1>5, <1>6, <1>7, <1>8, <1>9, <1>10, <1>11 DEF LNext, Handle

LEMMA FlipFacts ==
    ASSUME TypeInv, NEW r \in Request, NEW u \in User, RevokeFlip(r, u)
    PROVE  /\ users[u].status # "revoked" /\ users'[u].status = "revoked"
           /\ CallOpen(r, u)'
<1>1. req' = [req EXCEPT ![r] = [Idle EXCEPT !.verb = "revoke_access", !.pc = "bearers_read",
                                             !.user = u, !.email = users[u].email]]
  BY DEF RevokeFlip, Becomes
<1>2. CallOpen(r, u)'
  BY <1>1 DEF CallOpen, Idle, TypeInv, TypeOK
<1>3. users[u].status # "revoked" /\ users'[u].status = "revoked"
  BY DEF RevokeFlip, Revocable, TypeInv, TypeOK, UserRow
<1>. QED
  BY <1>2, <1>3

LEMMA SweepSoundStep ==
    ASSUME LifecycleInv, TrailInv, RevokeInv, [LNext]_lvars, NEW r \in Request, NEW u \in User,
           Sweeps(r, u)'
    PROVE  SweepSound(r, u)'
<1>1. [Next]_vars /\ TypeInv
  BY LifecycleStep DEF LifecycleInv
<1>2. CASE handler'[r] = handler[r]
  <2>1. Sweeps(r, u)
    BY <1>2 DEF Sweeps
  <2>2. /\ users[u].status = "revoked"
        /\ \A p \in Person : RevokedRows(p, u) = 0
        /\ \A q \in Request : Sweeps(q, u) => q = r
    BY <2>1 DEF RevokeInv, SweepSound
  <2>3. users'[u].status = "revoked"
    BY <1>1, <2>2, UserLife DEF TypeInv
  <2>4. ASSUME NEW p \in Person PROVE RevokedRows(p, u)' = 0
    <3>1. ASSUME NEW q \in Request, AuditRevoked(q), handler[q].user = u PROVE FALSE
      <4>1. q = r
        BY <2>2, <3>1 DEF AuditRevoked, Working, Sweeps
      <4>. QED
        BY <2>1, <1>2, <3>1, <4>1, EndMoves, NoWorkFields DEF Moved, LifecycleInv, Sweeps
    <3>. QED
      BY <2>2, <3>1, RevokedRowSteps
  <2>5. ASSUME NEW q \in Request, Sweeps(q, u)' PROVE q = r
    <3>1. CASE handler'[q] = handler[q]
      BY <2>2, <2>5, <3>1 DEF Sweeps
    <3>2. CASE handler'[q] # handler[q]
      BY <1>1, <2>2, <2>5, <3>2, RevokerSteps, FlipFacts DEF Sweeps
    <3>. QED
      BY <3>1, <3>2
  <2>. QED
    BY <1>2, <2>1, <2>3, <2>4, <2>5, CallKept DEF SweepSound
<1>3. CASE handler'[r] # handler[r]
  <2>1. /\ Revoke(r) /\ RevokeFlip(r, u) /\ handler[r].pc = "revoke"
    BY <1>3, RevokerSteps DEF Sweeps
  <2>2. users[u].status # "revoked" /\ users'[u].status = "revoked" /\ CallOpen(r, u)'
    BY <1>1, <2>1, FlipFacts
  <2>3. ASSUME NEW p \in Person PROVE RevokedRows(p, u)' = 0
    <3>1. RevokedRows(p, u) = 0
      BY <2>2, RevokedRowSteps DEF RevokeInv, RowSound
    <3>2. trail' = trail
      BY <2>1 DEF Revoke
    <3>. QED
      BY <3>1, <3>2 DEF RevokedRows
  <2>4. ASSUME NEW q \in Request, Sweeps(q, u)' PROVE q = r
    <3>1. CASE handler'[q] = handler[q]
      BY <2>2, <2>4, <3>1 DEF RevokeInv, SweepSound, Sweeps
    <3>2. CASE handler'[q] # handler[q]
      <4>1. handler' = [handler EXCEPT ![r] = handler'[r]]
        BY <2>1 DEF Revoke, Work, LifecycleInv, LifecycleTyped
      <4>. QED
        BY <3>2, <4>1 DEF LifecycleInv, LifecycleTyped
    <3>. QED
      BY <3>1, <3>2
  <2>. QED
    BY <2>2, <2>3, <2>4 DEF SweepSound
<1>. QED
  BY <1>2, <1>3

LEMMA RowSoundStep ==
    ASSUME LifecycleInv, TrailInv, RevokeInv, [LNext]_lvars, NEW p \in Person, NEW u \in User
    PROVE  RowSound(p, u)'
<1>1. [Next]_vars /\ TypeInv
  BY LifecycleStep DEF LifecycleInv
<1>2. RowSound(p, u) /\ RevokedRows(p, u) \in Nat
  BY RevokedRowSteps DEF RevokeInv
<1>3. /\ users[u].status = "revoked" => users'[u].status = "revoked"
      /\ u \in settled => u \in settled'
      /\ linked[u] = p => linked'[u] = p
  BY <1>1, UserLife, SettledGrows, LinkStays, PersonAssumption DEF TypeInv
<1>4. CASE RevokedRows(p, u)' = RevokedRows(p, u)
  BY <1>2, <1>3, <1>4 DEF RowSound
<1>5. ASSUME NEW r \in Request, AuditRevoked(r), handler[r].user = u,
             handler[r].envelope.person = p, RevokedRows(p, u)' = RevokedRows(p, u) + 1
      PROVE  RowSound(p, u)'
  <2>1. Sweeps(r, u) /\ At(r, "idle")
    BY <1>5 DEF AuditRevoked, Working, Sweeps
  <2>2. /\ users[u].status = "revoked" /\ RevokedRows(p, u) = 0
        /\ CallOpen(r, u) \/ CallSettled(r, u)
        /\ linked[u] = p
    BY <1>5, <2>1 DEF RevokeInv, SweepSound, Holder, Sweeps
  <2>3. u \in settled
    <3>1. CallOpen(r, u) => ~At(r, "idle")
      BY DEF TrailInv, Tells, Revoker, CallOpen, At
    <3>. QED
      BY <2>1, <2>2, <3>1 DEF CallSettled
  <2>. QED
    BY <1>3, <1>5, <2>2, <2>3 DEF RowSound
<1>. QED
  BY <1>4, <1>5, RevokedRowSteps

LEMMA RevokeInvariant == LSpec => []RevokeInv
<1>1. LInit => RevokeInv
  <2>1. ASSUME LInit, NEW p \in Person, NEW u \in User PROVE RevokedRows(p, u) = 0
    <3>1. [event |-> "lifecycle_access_revoked", person |-> p, user |-> u] \in TrailRow
      BY DEF TrailRow, TrailEvent
    <3>. QED
      BY <2>1, <3>1 DEF LInit, RevokedRows
  <2>2. ASSUME LInit, NEW r \in Request PROVE handler[r].pc = "idle"
    BY <2>2, NoWorkFields DEF LInit
  <2>. QED
    BY <2>1, <2>2 DEF RevokeInv, Holder, SweepSound, Sweeps, RowSound
<1>2. LifecycleInv /\ TrailInv /\ RevokeInv /\ [LNext]_lvars => RevokeInv'
  <2>1. ASSUME LifecycleInv, TrailInv, RevokeInv, [LNext]_lvars, NEW r \in Request, NEW u \in User
        PROVE  SweepSound(r, u)'
    BY <2>1, SweepSoundStep DEF SweepSound
  <2>. QED
    BY <2>1, HolderStep, RowSoundStep DEF RevokeInv
<1>. QED
  BY <1>1, <1>2, LifecycleInvariant, LifecycleImplementsAccess, TrailInvariant, PTL DEF LSpec

(* However many envelopes announce a departure, however often each is      *)
(* delivered, whatever the handler's stops and the officers' own calls of  *)
(* revoke_access: for every instance on_user_gone audits the revocation of *)
(* a principal at most once, and of one person.                            *)
THEOREM RevocationAuditedOnceHolds == LSpec => []RevocationAuditedOnce
<1>1. RevokeInv => RevocationAuditedOnce
  BY DEF RevokeInv, RowSound, RevocationAuditedOnce
<1>. QED
  BY <1>1, RevokeInvariant, PTL

(* The row that on_user_gone writes after revoke_access says no more than  *)
(* was done, for every instance: the principal is revoked, the verb has    *)
(* returned Ok(true), and no bearer that was due is active.                *)
THEOREM RevokedRowMeansSweptHolds == LSpec => []RevokedRowMeansSwept
<1>1. TypeInv /\ SweepReachesAll /\ RevokeInv => RevokedRowMeansSwept
  BY DEF TypeInv, TypeOK, SweepReachesAll, RevokeInv, RowSound, RevokedRowMeansSwept
<1>. QED
  BY <1>1, RevokeInvariant, LifecycleImplementsAccess, TypeInvariant, SweepReachesAllHolds, PTL

-----------------------------------------------------------------------------
(* Whom the handler revokes.  An envelope of departure, on the bus or in   *)
(* work, speaks of a person who has left, and nobody who has left comes    *)
(* back.                                                                   *)

HasLeft(p) == person[p] \in {"inactive", "gone"}

GoneInv ==
    /\ \A e \in bus : e.type \in Gone => HasLeft(e.person)
    /\ \A r \in Request : handler[r].pc # "idle" /\ handler[r].envelope.type \in Gone =>
                            HasLeft(handler[r].envelope.person)
    /\ \A r \in Request : handler[r].pc \in {"lookup", "revoke", "sweeping"} =>
                            handler[r].envelope.type \in Gone

RevokedLeft ==
    ~OfficersRevoke => \A u \in User : users[u].status = "revoked" =>
        linked[u] # None /\ HasLeft(linked[u])

LEMMA LeftForGood ==
    ASSUME LifecycleInv, [LNext]_lvars, NEW p \in Person, HasLeft(p) PROVE HasLeft(p)'
<1>1. ASSUME NEW q \in Person, Created(q) \/ Deactivated(q) \/ Deleted(q) PROVE HasLeft(p)'
  BY <1>1 DEF Created, Deactivated, Deleted, Publish, HasLeft, LifecycleInv, LifecycleTyped
<1>2. person' = person \/ \E q \in Person : Created(q) \/ Deactivated(q) \/ Deleted(q)
  BY DEF LNext, Handle, Core, lifecycle, Dispatch, Redeliver, HandlerStops, Stamp,
     AuditCreated, Lookup, Revoke, AuditRevoked, lvars
<1>. QED
  BY <1>1, <1>2 DEF HasLeft

(* The work of a slot keeps its envelope to its end.                       *)
LEMMA WorkKept ==
    ASSUME LifecycleInv, [LNext]_lvars, NEW r \in Request, handler'[r].pc # "idle"
    PROVE  \/ /\ Dispatch(r) /\ handler'[r].envelope \in bus
              /\ handler'[r].pc = IF handler'[r].envelope.type = "created" THEN "stamp" ELSE "lookup"
           \/ handler[r].pc # "idle" /\ handler'[r].envelope = handler[r].envelope
<1>1. LifecycleTyped
  BY DEF LifecycleInv
<1>2. CASE Dispatch(r)
  BY <1>1, <1>2, DispatchMoves DEF Moved
<1>3. CASE HandlerStops(r) \/ AuditCreated(r) \/ AuditRevoked(r)
  BY <1>1, <1>3, EndMoves, NoWorkFields DEF Moved
<1>4. CASE Stamp(r)
  BY <1>1, <1>4, StampMoves DEF Moved, Stamp, Working
<1>5. CASE Lookup(r)
  BY <1>1, <1>5, LookupMoves, NoWorkFields DEF Moved, Lookup, Working
<1>6. CASE Revoke(r)
  BY <1>1, <1>6, RevokeMoves, NoWorkFields DEF Moved, Revoke, Working
<1>. QED
  BY <1>2, <1>3, <1>4, <1>5, <1>6, SlotSteps DEF Handle

LEMMA GoneStep == ASSUME LifecycleInv, GoneInv, [LNext]_lvars PROVE GoneInv'
<1>1. LifecycleTyped
  BY DEF LifecycleInv
<1>2. ASSUME NEW e \in bus', e.type \in Gone PROVE HasLeft(e.person)'
  <2>1. CASE e \in bus
    BY <1>1, <1>2, <2>1, LeftForGood, EnvelopeFields DEF GoneInv, LifecycleTyped
  <2>2. ASSUME NEW r \in Request, Redeliver(r) \/ HandlerStops(r), e \notin bus
        PROVE  HasLeft(e.person)'
    <3>1. e = handler[r].envelope /\ handler[r].pc # "idle"
      BY <1>2, <2>2 DEF Redeliver, HandlerStops, Returned, Working
    <3>. QED
      BY <1>2, <3>1, LeftForGood, HandlerUser DEF GoneInv
  <2>3. ASSUME NEW p \in Person, Created(p) \/ Deactivated(p) \/ Deleted(p), e \notin bus
        PROVE  HasLeft(e.person)'
    <3>1. PICK f \in Envelope : /\ f.person = p /\ bus' = bus \cup {f}
                                /\ f.type \in Gone => person'[p] \in {"inactive", "gone"}
      BY <1>1, <2>3, Published
    <3>. QED
      BY <1>2, <2>3, <3>1 DEF HasLeft
  <2>4. \/ bus' \subseteq bus
        \/ \E r \in Request : Redeliver(r) \/ HandlerStops(r)
        \/ \E p \in Person : Created(p) \/ Deactivated(p) \/ Deleted(p)
    BY DEF LNext, Handle, Core, lifecycle, Dispatch, Stamp, AuditCreated, Lookup, Revoke,
       AuditRevoked, lvars
  <2>. QED
    BY <2>1, <2>2, <2>3, <2>4
<1>3. ASSUME NEW r \in Request, handler'[r].pc # "idle", handler'[r].envelope.type \in Gone
      PROVE  person'[handler'[r].envelope.person] \in {"inactive", "gone"}
  <2>1. PICK e \in Envelope : e = handler'[r].envelope
    BY <1>1, <1>3, LifecycleTypedStep, HandlerShape DEF LifecycleTyped
  <2>2. HasLeft(e.person)
    BY <1>3, <2>1, WorkKept DEF GoneInv
  <2>. QED
    BY <2>1, <2>2, LeftForGood, EnvelopeFields DEF HasLeft
<1>4. ASSUME NEW r \in Request, handler'[r].pc \in {"lookup", "revoke", "sweeping"}
      PROVE  handler'[r].envelope.type \in Gone
  <2>1. CASE handler'[r] = handler[r]
    BY <1>4, <2>1 DEF GoneInv
  <2>2. CASE handler'[r] # handler[r]
    <3>1. CASE Dispatch(r)
      <4>1. /\ handler'[r].envelope \in Envelope
            /\ handler'[r].pc = IF handler'[r].envelope.type = "created" THEN "stamp" ELSE "lookup"
        BY <1>1, <3>1, DispatchMoves DEF Moved, LifecycleTyped
      <4>. QED
        BY <1>4, <4>1, EnvelopeFields
    <3>2. CASE ~Dispatch(r)
      BY <1>4, <2>2, <3>2, RevokerSteps DEF GoneInv
    <3>. QED
      BY <3>1, <3>2
  <2>. QED
    BY <2>1, <2>2
<1>. QED
  BY <1>2, <1>3, <1>4 DEF GoneInv, HasLeft

(* Nobody is newly revoked but by a flip, the handler's when no officer    *)
(* revokes.                                                                *)
LEMMA NewlyRevoked ==
    ASSUME LifecycleInv, [LNext]_lvars, ~OfficersRevoke, NEW u \in User,
           users[u].status # "revoked", users'[u].status = "revoked"
    PROVE  \E r \in Request : Revoke(r) /\ handler[r].user = u
<1>1. TypeOK /\ users \in [User -> UserRow] /\ users' # users
  BY DEF LifecycleInv, TypeInv, TypeOK
<1>2. ASSUME NEW r \in Request, RedeemTx(r) \/ SignupInsert(r) PROVE FALSE
  <2>1. PICK v, e : users' = users \/ users' = [users EXCEPT ![v] = ActiveUserRow(e)]
    BY <1>2 DEF RedeemTx, SignupInsert
  <2>. QED
    BY <1>1, <2>1 DEF ActiveUserRow
<1>3. ASSUME SoftDelete \/ Restore PROVE FALSE
  <2>1. PICK v, b : users' = [users EXCEPT ![v].deleted = b]
    BY <1>3 DEF SoftDelete, Restore
  <2>2. users'[u].status = users[u].status
    BY <1>1, <2>1 DEF UserRow
  <2>. QED
    BY <2>2
<1>4. ~Core
  <2>1. ~Expire
    BY <1>1 DEF Expire, tables
  <2>. QED
    BY <1>1, <1>2, <1>3, <2>1, UserCalls, CoreSteps
<1>5. ASSUME NEW r \in Request, Revoke(r) PROVE handler[r].user = u
  BY <1>1, <1>5 DEF Revoke, RevokeFlip, vars
<1>6. ASSUME NEW r \in Request, HandlerStops(r) PROVE FALSE
  BY <1>1, <1>6, UserCalls DEF HandlerStops, vars
<1>7. ASSUME NEW r \in Request, Dispatch(r) \/ Redeliver(r) \/ Stamp(r) \/ AuditCreated(r)
                                \/ Lookup(r) \/ AuditRevoked(r)
      PROVE  FALSE
  BY <1>1, <1>7 DEF Dispatch, Redeliver, Stamp, AuditCreated, Lookup, AuditRevoked, vars
<1>8. ASSUME NEW p \in Person, Created(p) \/ Deactivated(p) \/ Deleted(p) PROVE FALSE
  BY <1>1, <1>8 DEF Created, Deactivated, Deleted, Publish, vars
<1>9. ~UNCHANGED lvars
  BY <1>1 DEF lvars
<1>. QED
  BY <1>4, <1>5, <1>6, <1>7, <1>8, <1>9 DEF LNext, Handle

LEMMA RevokedLeftStep ==
    ASSUME LifecycleInv, RevokeInv, GoneInv, RevokedLeft, [LNext]_lvars PROVE RevokedLeft'
<1>. SUFFICES ASSUME ~OfficersRevoke, NEW u \in User, users'[u].status = "revoked"
              PROVE  linked'[u] # None /\ person'[linked'[u]] \in {"inactive", "gone"}
  BY DEF RevokedLeft, HasLeft
<1>1. linked[u] \in Person \cup {None}
  BY DEF LifecycleInv, LifecycleTyped
<1>2. linked[u] # None /\ HasLeft(linked[u])
  <2>1. CASE users[u].status = "revoked"
    BY <2>1 DEF RevokedLeft
  <2>2. CASE users[u].status # "revoked"
    <3>1. PICK r \in Request : Revoke(r) /\ handler[r].user = u
      BY <2>2, NewlyRevoked
    <3>2. handler[r].pc = "revoke"
      BY <3>1 DEF Revoke, Working
    <3>. QED
      BY <3>1, <3>2, HandlerUser DEF RevokeInv, Holder, GoneInv
  <2>. QED
    BY <2>1, <2>2
<1>. QED
  BY <1>1, <1>2, LinkStays, LeftForGood DEF HasLeft

(* on_user_gone searches by the stamped sapiens_user_id and never by       *)
(* email: where no officer calls revoke_access, for every instance, a      *)
(* revoked principal is linked to a person who has left, whoever else      *)
(* shared their email and in whichever order the envelopes came.           *)
THEOREM RevokedOnlyIfGoneHolds == LSpec => []RevokedOnlyIfGone
<1>1. LInit => GoneInv /\ RevokedLeft
  <2>1. LInit => GoneInv
    BY NoWorkFields DEF LInit, GoneInv
  <2>2. LInit => RevokedLeft
    BY DEF LInit, Init, NoUser, RevokedLeft
  <2>. QED
    BY <2>1, <2>2
<1>2. RevokedLeft => RevokedOnlyIfGone
  BY DEF RevokedLeft, HasLeft, RevokedOnlyIfGone
<1>. QED
  BY <1>1, <1>2, GoneStep, RevokedLeftStep, LifecycleInvariant, RevokeInvariant, PTL DEF LSpec

-----------------------------------------------------------------------------
(* How many rows the trail can hold.  A person's one created envelope is   *)
(* on the bus, in the slots that handle it, or has been audited; each copy *)
(* beyond the first came with a redelivery or a stop of the handler.  The  *)
(* row of a revocation is bounded by RowSound.                             *)

CreatedOf(p) == [type |-> "created", person |-> p]

Mine(w, p) == w.pc # "idle" /\ w.envelope = CreatedOf(p)
Share(w, p) == IF Mine(w, p) THEN 1 ELSE 0

Handling(p) == {r \in Request : Mine(handler[r], p)}
OnBus(p) == IF CreatedOf(p) \in bus THEN 1 ELSE 0
Copies(p) == Cardinality(Handling(p)) + OnBus(p)

Quota(p) == IF person[p] = "unknown" THEN 0 ELSE 1 + replays

Onboarding(row) == row.event # "lifecycle_access_revoked"

Counted(p) ==
    /\ IsFiniteSet(Handling(p))
    /\ Copies(p) <= Quota(p)
    /\ \A row \in TrailRow : Onboarding(row) /\ row.person = p => trail[row] + Copies(p) <= Quota(p)

CountInv ==
    /\ \A p \in Person : Counted(p)
    /\ \A r \in Request : handler[r].pc \in {"stamp", "audit"} => handler[r].envelope.type = "created"
    /\ \A row \in TrailRow : ~Onboarding(row) /\ row.user = None => trail[row] = 0

LEMMA CopiesTyped ==
    ASSUME LifecycleTyped, NEW p \in Person, IsFiniteSet(Handling(p))
    PROVE  /\ Cardinality(Handling(p)) \in Nat /\ OnBus(p) \in {0, 1} /\ Copies(p) \in Nat
           /\ Quota(p) \in Nat /\ replays \in Nat
           /\ \A row \in TrailRow : trail[row] \in Nat
<1>1. Cardinality(Handling(p)) \in Nat
  BY FS_CardinalityType
<1>. QED
  BY <1>1, MaxReplaysAssumption DEF OnBus, Copies, Quota, LifecycleTyped

LEMMA HandlingMoves ==
    ASSUME LifecycleTyped, NEW p \in Person, IsFiniteSet(Handling(p)),
           NEW r \in Request, NEW w, Moved(r, w)
    PROVE  /\ IsFiniteSet(Handling(p)')
           /\ Cardinality(Handling(p)') \in Nat
           /\ Cardinality(Handling(p)') + Share(handler[r], p)
                = Cardinality(Handling(p)) + Share(w, p)
<1>1. Cardinality(Handling(p)) \in Nat
  BY FS_CardinalityType
<1>2. r \in Handling(p) <=> Mine(handler[r], p)
  BY DEF Handling
<1>3. CASE Mine(w, p)
  <2>1. Handling(p)' = Handling(p) \cup {r}
    BY <1>3 DEF Handling, Moved
  <2>. QED
    BY <1>1, <1>2, <1>3, <2>1, FS_AddElement DEF Share
<1>4. CASE ~Mine(w, p)
  <2>1. Handling(p)' = Handling(p) \ {r}
    BY <1>4 DEF Handling, Moved
  <2>2. /\ IsFiniteSet(Handling(p)')
        /\ Cardinality(Handling(p)') = IF r \in Handling(p) THEN Cardinality(Handling(p)) - 1
                                                           ELSE Cardinality(Handling(p))
    BY <2>1, FS_RemoveElement
  <2>3. Cardinality(Handling(p)') \in Nat
    BY <2>2, FS_CardinalityType
  <2>. QED
    BY <1>1, <1>2, <1>4, <2>2, <2>3 DEF Share
<1>. QED
  BY <1>3, <1>4

LEMMA HandledIsCopy ==
    ASSUME LifecycleTyped, NEW p \in Person, IsFiniteSet(Handling(p)),
           NEW r \in Request, Mine(handler[r], p)
    PROVE  Copies(p) >= 1
<1>1. r \in Handling(p)
  BY DEF Handling
<1>2. Cardinality(Handling(p)) # 0
  BY <1>1, FS_EmptySet
<1>. QED
  BY <1>2, CopiesTyped DEF Copies

LEMMA NoWorkShare == \A p : Share(NoWork, p) = 0
  BY NoWorkFields DEF Share, Mine

LEMMA CopiesMove ==
    ASSUME LifecycleTyped, NEW p \in Person, IsFiniteSet(Handling(p)),
           NEW r \in Request, NEW w, Moved(r, w),
           OnBus(p)' + Share(w, p) <= OnBus(p) + Share(handler[r], p)
    PROVE  IsFiniteSet(Handling(p)') /\ Copies(p)' \in Nat /\ Copies(p)' <= Copies(p)
<1>1. /\ IsFiniteSet(Handling(p)') /\ Cardinality(Handling(p)') \in Nat
      /\ Cardinality(Handling(p)') + Share(handler[r], p)
           = Cardinality(Handling(p)) + Share(w, p)
  BY HandlingMoves
<1>2. OnBus(p)' \in {0, 1} /\ Share(w, p) \in {0, 1} /\ Share(handler[r], p) \in {0, 1}
  BY DEF OnBus, Share
<1>3. Cardinality(Handling(p)) \in Nat /\ OnBus(p) \in {0, 1}
  BY CopiesTyped
<1>4. Copies(p)' = Cardinality(Handling(p)') + OnBus(p)'
      /\ Copies(p) = Cardinality(Handling(p)) + OnBus(p)
  BY DEF Copies
<1>. QED
  BY <1>1, <1>2, <1>3, <1>4

LEMMA CopiesStay ==
    ASSUME LifecycleTyped, NEW p \in Person, IsFiniteSet(Handling(p)), handler' = handler
    PROVE  /\ IsFiniteSet(Handling(p)') /\ Copies(p)' \in Nat
           /\ Copies(p)' = Cardinality(Handling(p)) + OnBus(p)'
<1>1. Handling(p)' = Handling(p)
  BY DEF Handling
<1>2. OnBus(p)' \in {0, 1} /\ Cardinality(Handling(p)) \in Nat
  BY CopiesTyped DEF OnBus
<1>3. Copies(p)' = Cardinality(Handling(p)') + OnBus(p)'
  BY DEF Copies
<1>. QED
  BY <1>1, <1>2, <1>3

(* Nothing new is counted of a person whom sapiens knows no less of.       *)
LEMMA CountedKept ==
    ASSUME LifecycleTyped, NEW p \in Person, Counted(p), IsFiniteSet(Handling(p)'),
           Copies(p)' \in Nat, Copies(p)' <= Copies(p),
           person'[p] = "unknown" => person[p] = "unknown",
           replays' \in {replays, replays + 1},
           \A row \in TrailRow : Onboarding(row) /\ row.person = p => trail'[row] = trail[row]
    PROVE  Counted(p)'
<1>1. /\ Copies(p) \in Nat /\ Quota(p) \in Nat /\ replays \in Nat
      /\ \A row \in TrailRow : trail[row] \in Nat
  BY CopiesTyped DEF Counted
<1>2. Quota(p) <= Quota(p)' /\ Quota(p)' \in Nat
  <2>1. replays' \in Nat /\ replays <= replays'
    BY <1>1
  <2>2. /\ person[p] = "unknown" => Quota(p) = 0
        /\ person[p] # "unknown" => Quota(p) = 1 + replays
        /\ person'[p] = "unknown" => Quota(p)' = 0
        /\ person'[p] # "unknown" => Quota(p)' = 1 + replays'
    BY DEF Quota
  <2>. QED
    BY <1>1, <2>1, <2>2
<1>3. Copies(p)' <= Quota(p)'
  BY <1>1, <1>2 DEF Counted
<1>4. ASSUME NEW row \in TrailRow, Onboarding(row), row.person = p
      PROVE  trail'[row] + Copies(p)' <= Quota(p)'
  <2>1. trail[row] + Copies(p) <= Quota(p) /\ trail'[row] = trail[row] /\ trail[row] \in Nat
    BY <1>1, <1>4 DEF Counted
  <2>. QED
    BY <1>1, <1>2, <2>1
<1>. QED
  BY <1>3, <1>4 DEF Counted, Onboarding

LEMMA EnvelopeOf ==
    ASSUME NEW e \in Envelope, NEW p \in Person
    PROVE  e = CreatedOf(p) <=> e.type = "created" /\ e.person = p
  BY DEF Envelope, CreatedOf

(* The first publication of a person is the one that counts them.          *)
LEMMA CountedPublished ==
    ASSUME LifecycleTyped, NEW p \in Person, Counted(p), NEW q \in Person,
           Created(q) \/ Deactivated(q) \/ Deleted(q)
    PROVE  Counted(p)'
<1>1. PICK e \in Envelope :
        /\ e.person = q /\ bus' = bus \cup {e}
        /\ \A o \in Person : o # q => person'[o] = person[o]
        /\ e.type = "created" => person[q] = "unknown" /\ person'[q] = "employed"
        /\ e.type \in Gone => person[q] # "unknown" /\ person'[q] \in {"inactive", "gone"}
        /\ UNCHANGED <<vars, linked, handler, trail, replays>>
  BY Published
<1>2. /\ IsFiniteSet(Handling(p)') /\ Copies(p)' \in Nat
      /\ Copies(p)' = Cardinality(Handling(p)) + OnBus(p)'
  BY <1>1, CopiesStay DEF Counted
<1>3. e.type \in {"created"} \cup Gone
  BY EnvelopeFields
<1>4. CASE e = CreatedOf(p)
  <2>1. e.type = "created" /\ q = p
    BY <1>1, <1>4, EnvelopeOf
  <2>2. Quota(p) = 0
    BY <1>1, <2>1 DEF Quota
  <2>3. Copies(p) = 0 /\ Cardinality(Handling(p)) = 0
    BY <2>2, CopiesTyped DEF Counted, Copies
  <2>4. Copies(p)' <= 1
    BY <1>2, <2>3 DEF OnBus
  <2>5. Quota(p)' = 1 + replays /\ replays \in Nat
    BY <1>1, <2>1, CopiesTyped DEF Quota, Counted
  <2>6. ASSUME NEW row \in TrailRow, Onboarding(row), row.person = p
        PROVE  trail'[row] + Copies(p)' <= Quota(p)'
    <3>1. trail[row] + Copies(p) <= Quota(p) /\ trail[row] \in Nat
      BY <2>6, CopiesTyped DEF Counted
    <3>2. trail[row] = 0
      BY <2>2, <2>3, <3>1
    <3>. QED
      BY <1>1, <1>2, <2>4, <2>5, <3>2
  <2>. QED
    BY <1>2, <2>4, <2>5, <2>6 DEF Counted, Onboarding
<1>5. CASE e # CreatedOf(p)
  <2>1. OnBus(p)' = OnBus(p)
    BY <1>1, <1>5 DEF OnBus
  <2>2. Copies(p)' <= Copies(p)
    BY <1>2, <2>1, CopiesTyped DEF Copies, Counted
  <2>3. person'[p] = "unknown" => person[p] = "unknown"
    BY <1>1, <1>3 DEF Gone
  <2>. QED
    BY <1>1, <1>2, <2>2, <2>3, CountedKept
<1>. QED
  BY <1>4, <1>5

(* A redelivery makes one more copy, and is counted.                       *)
LEMMA CountedRedelivered ==
    ASSUME LifecycleTyped, NEW p \in Person, Counted(p), NEW r \in Request, Redeliver(r)
    PROVE  Counted(p)'
<1>1. /\ handler' = handler /\ person' = person /\ trail' = trail /\ replays' = replays + 1
      /\ bus' = bus \cup {handler[r].envelope} /\ handler[r].pc # "idle"
  BY DEF Redeliver, Working
<1>2. /\ IsFiniteSet(Handling(p)') /\ Copies(p)' \in Nat
      /\ Copies(p)' = Cardinality(Handling(p)) + OnBus(p)'
  BY <1>1, CopiesStay DEF Counted
<1>3. CASE handler[r].envelope = CreatedOf(p)
  <2>1. Copies(p) >= 1
    BY <1>1, <1>3, HandledIsCopy DEF Mine, Counted
  <2>2. /\ Copies(p) \in Nat /\ Quota(p) \in Nat /\ replays \in Nat
        /\ OnBus(p) \in {0, 1} /\ Cardinality(Handling(p)) \in Nat
        /\ \A row \in TrailRow : trail[row] \in Nat
    BY CopiesTyped DEF Counted
  <2>3. Quota(p)' = Quota(p) + 1
    BY <1>1, <2>1, <2>2 DEF Counted, Quota
  <2>4. Copies(p)' <= Copies(p) + 1
    BY <1>2, <2>2 DEF Copies, OnBus
  <2>5. ASSUME NEW row \in TrailRow, Onboarding(row), row.person = p
        PROVE  trail'[row] + Copies(p)' <= Quota(p)'
    <3>1. trail[row] + Copies(p) <= Quota(p) /\ trail[row] \in Nat /\ trail'[row] = trail[row]
      BY <1>1, <2>2, <2>5 DEF Counted
    <3>. QED
      BY <1>2, <2>2, <2>3, <2>4, <3>1
  <2>6. Copies(p)' <= Quota(p)'
    BY <1>2, <2>2, <2>3, <2>4 DEF Counted
  <2>. QED
    BY <1>2, <2>5, <2>6 DEF Counted, Onboarding
<1>4. CASE handler[r].envelope # CreatedOf(p)
  <2>1. OnBus(p)' = OnBus(p)
    BY <1>1, <1>4 DEF OnBus
  <2>2. Copies(p)' <= Copies(p)
    BY <1>2, <2>1, CopiesTyped DEF Copies, Counted
  <2>. QED
    BY <1>1, <1>2, <2>2, CountedKept
<1>. QED
  BY <1>3, <1>4

LEMMA CountedAudited ==
    ASSUME LifecycleTyped, CountInv, NEW p \in Person, NEW r \in Request, AuditCreated(r)
    PROVE  Counted(p)'
<1>1. /\ handler[r].pc = "audit" /\ handler[r].envelope \in Envelope
      /\ handler[r].envelope.type = "created"
  BY HandlerShape DEF AuditCreated, Working, LifecycleTyped, CountInv
<1>2. Counted(p) /\ Moved(r, NoWork)
  BY EndMoves DEF CountInv
<1>3. bus' = bus /\ person' = person /\ replays' = replays
  BY DEF AuditCreated
<1>4. PICK event \in TrailEvent, u \in User \cup {None} :
        /\ event # "lifecycle_access_revoked"
        /\ AddRow(event, handler[r].envelope.person, u)
  BY CreatedRow
<1>5. PICK added \in TrailRow :
        /\ added.person = handler[r].envelope.person
        /\ trail'[added] = trail[added] + 1
        /\ \A row \in TrailRow : row # added => trail'[row] = trail[row]
  <2>1. PICK added : added = [event |-> event, person |-> handler[r].envelope.person, user |-> u]
    OBVIOUS
  <2>2. handler[r].envelope.person \in Person /\ added.person = handler[r].envelope.person
    BY <1>1, <2>1, EnvelopeFields
  <2>. QED
    BY <1>4, <2>1, <2>2, RowAdded
<1>6. OnBus(p)' = OnBus(p) /\ Quota(p)' = Quota(p)
  BY <1>3 DEF OnBus, Quota
<1>7. /\ IsFiniteSet(Handling(p)') /\ Cardinality(Handling(p)') \in Nat
      /\ Cardinality(Handling(p)') + Share(handler[r], p) = Cardinality(Handling(p))
  BY <1>2, HandlingMoves, NoWorkShare, CopiesTyped DEF Counted
<1>8. /\ Copies(p) \in Nat /\ Quota(p) \in Nat /\ replays \in Nat
      /\ OnBus(p) \in {0, 1} /\ Cardinality(Handling(p)) \in Nat
      /\ \A row \in TrailRow : trail[row] \in Nat
  BY <1>2, CopiesTyped DEF Counted
<1>9. Copies(p)' \in Nat /\ Copies(p)' + Share(handler[r], p) = Copies(p)
  BY <1>6, <1>7, <1>8 DEF Copies, Share
<1>10. CASE handler[r].envelope.person = p
  <2>1. Share(handler[r], p) = 1
    BY <1>1, <1>10, EnvelopeOf DEF Share, Mine
  <2>2. ASSUME NEW row \in TrailRow, Onboarding(row), row.person = p
        PROVE  trail'[row] + Copies(p)' <= Quota(p)'
    <3>1. trail[row] + Copies(p) <= Quota(p) /\ trail[row] \in Nat
      BY <1>2, <1>8, <2>2 DEF Counted
    <3>2. trail'[row] = trail[row] \/ trail'[row] = trail[row] + 1
      BY <1>5
    <3>. QED
      BY <1>6, <1>8, <1>9, <2>1, <3>1, <3>2
  <2>3. Copies(p)' <= Quota(p)'
    BY <1>2, <1>6, <1>8, <1>9, <2>1 DEF Counted
  <2>. QED
    BY <1>7, <2>2, <2>3 DEF Counted, Onboarding
<1>11. CASE handler[r].envelope.person # p
  <2>1. Copies(p)' <= Copies(p)
    BY <1>8, <1>9 DEF Share
  <2>2. \A row \in TrailRow : row.person = p => trail'[row] = trail[row]
    BY <1>5, <1>11
  <2>. QED
    BY <1>2, <1>3, <1>7, <1>9, <2>1, <2>2, CountedKept
<1>. QED
  BY <1>10, <1>11

(* The other steps of the handler hand a copy on or drop it.               *)
LEMMA CountedHandled ==
    ASSUME LifecycleInv, CountInv, GoneInv, [LNext]_lvars, NEW p \in Person, NEW r \in Request,
           Dispatch(r) \/ HandlerStops(r) \/ Stamp(r) \/ Lookup(r) \/ Revoke(r) \/ AuditRevoked(r)
    PROVE  Counted(p)'
<1>1. LifecycleTyped /\ Counted(p)
  BY DEF LifecycleInv, CountInv
<1>2. ASSUME NEW w, Moved(r, w), OnBus(p)' + Share(w, p) <= OnBus(p) + Share(handler[r], p)
      PROVE  IsFiniteSet(Handling(p)') /\ Copies(p)' \in Nat /\ Copies(p)' <= Copies(p)
  BY <1>1, <1>2, CopiesMove DEF Counted
<1>3. IsFiniteSet(Handling(p)') /\ Copies(p)' \in Nat /\ Copies(p)' <= Copies(p)
  <2>1. CASE Dispatch(r)
    <3>1. PICK w \in HandlerState : /\ Moved(r, w) /\ w.envelope \in bus
                                    /\ bus' = bus \ {w.envelope}
                                    /\ w.pc = IF w.envelope.type = "created" THEN "stamp"
                                              ELSE "lookup"
      BY <1>1, <2>1, DispatchMoves
    <3>2. OnBus(p)' + Share(w, p) <= OnBus(p)
      BY <3>1 DEF OnBus, Share, Mine
    <3>3. Share(handler[r], p) = 0
      BY <2>1 DEF Dispatch, Working, Share, Mine
    <3>4. OnBus(p)' + Share(w, p) <= OnBus(p) + Share(handler[r], p)
      BY <3>2, <3>3 DEF OnBus, Share
    <3>. QED
      BY <1>2, <3>1, <3>4
  <2>2. CASE HandlerStops(r)
    <3>1. OnBus(p)' <= OnBus(p) + Share(handler[r], p)
      BY <2>2 DEF HandlerStops, Returned, Working, OnBus, Share, Mine
    <3>2. OnBus(p)' + Share(NoWork, p) <= OnBus(p) + Share(handler[r], p)
      BY <3>1, NoWorkShare DEF OnBus
    <3>. QED
      BY <1>1, <1>2, <2>2, <3>2, EndMoves
  <2>3. ASSUME NEW w, Moved(r, w), Share(w, p) <= Share(handler[r], p), bus' = bus
        PROVE  IsFiniteSet(Handling(p)') /\ Copies(p)' \in Nat /\ Copies(p)' <= Copies(p)
    BY <1>2, <2>3 DEF OnBus, Share
  <2>4. Share(NoWork, p) <= Share(handler[r], p)
    BY NoWorkShare DEF Share
  <2>5. ASSUME NEW w, w.envelope = handler[r].envelope, handler[r].pc # "idle"
        PROVE  Share(w, p) <= Share(handler[r], p)
    BY <2>5 DEF Share, Mine
  <2>6. CASE Stamp(r)
    BY <1>1, <2>3, <2>5, <2>6, StampMoves DEF Stamp, Working
  <2>7. CASE Lookup(r)
    BY <1>1, <2>3, <2>4, <2>5, <2>7, LookupMoves DEF Lookup, Working
  <2>8. CASE Revoke(r)
    BY <1>1, <2>3, <2>4, <2>5, <2>8, RevokeMoves DEF Revoke, Working
  <2>9. CASE AuditRevoked(r)
    BY <1>1, <2>3, <2>4, <2>9, EndMoves DEF AuditRevoked
  <2>. QED
    BY <2>1, <2>2, <2>6, <2>7, <2>8, <2>9
<1>4. person' = person /\ replays' \in {replays, replays + 1}
  BY DEF Dispatch, HandlerStops, Stamp, Lookup, Revoke, AuditRevoked
<1>5. ASSUME NEW row \in TrailRow, Onboarding(row) PROVE trail'[row] = trail[row]
  <2>1. CASE AuditRevoked(r)
    <3>1. PICK added : added = [event |-> "lifecycle_access_revoked",
                                person |-> handler[r].envelope.person, user |-> handler[r].user]
      OBVIOUS
    <3>2. row # added
      BY <1>5, <3>1 DEF Onboarding
    <3>. QED
      BY <1>1, <1>5, <2>1, <3>1, <3>2, RevokedRow, RowAdded
  <2>2. CASE ~AuditRevoked(r)
    BY <2>2 DEF Dispatch, HandlerStops, Stamp, Lookup, Revoke
  <2>. QED
    BY <2>1, <2>2
<1>. QED
  BY <1>1, <1>3, <1>4, <1>5, CountedKept

LEMMA CountedStep ==
    ASSUME LifecycleInv, GoneInv, CountInv, [LNext]_lvars, NEW p \in Person PROVE Counted(p)'
<1>1. LifecycleTyped /\ Counted(p)
  BY DEF LifecycleInv, CountInv
<1>2. CASE Core \/ UNCHANGED lvars
  <2>1. UNCHANGED lifecycle
    BY <1>2 DEF Core, lifecycle, lvars
  <2>. QED
    BY <1>1, <2>1 DEF lifecycle, Counted, Handling, Copies, OnBus, Quota, Onboarding
<1>3. ASSUME NEW q \in Person, Created(q) \/ Deactivated(q) \/ Deleted(q) PROVE Counted(p)'
  BY <1>1, <1>3, CountedPublished
<1>4. ASSUME NEW r \in Request, Redeliver(r) PROVE Counted(p)'
  BY <1>1, <1>4, CountedRedelivered
<1>5. ASSUME NEW r \in Request, AuditCreated(r) PROVE Counted(p)'
  BY <1>1, <1>5, CountedAudited
<1>6. ASSUME NEW r \in Request, Dispatch(r) \/ HandlerStops(r) \/ Stamp(r) \/ Lookup(r)
                                \/ Revoke(r) \/ AuditRevoked(r)
      PROVE  Counted(p)'
  BY <1>6, CountedHandled
<1>. QED
  BY <1>2, <1>3, <1>4, <1>5, <1>6 DEF LNext, Handle

LEMMA CountStep == ASSUME LifecycleInv, GoneInv, CountInv, [LNext]_lvars PROVE CountInv'
<1>1. LifecycleTyped
  BY DEF LifecycleInv
<1>2. ASSUME NEW r \in Request, handler'[r].pc \in {"stamp", "audit"}
      PROVE  handler'[r].envelope.type = "created"
  <2>1. CASE handler'[r] = handler[r]
    BY <1>2, <2>1 DEF CountInv
  <2>2. CASE Dispatch(r)
    BY <1>1, <1>2, <2>2, DispatchMoves DEF Moved
  <2>3. CASE Stamp(r)
    <3>1. handler[r].envelope.type = "created"
      BY <2>3, Zenon DEF CountInv, Stamp, Working
    <3>2. handler'[r].envelope = handler[r].envelope
      BY <1>1, <2>3, StampMoves DEF Moved
    <3>. QED
      BY <3>1, <3>2
  <2>4. CASE HandlerStops(r) \/ AuditCreated(r) \/ AuditRevoked(r)
    BY <1>1, <1>2, <2>4, EndMoves, NoWorkFields DEF Moved
  <2>5. CASE Lookup(r) \/ Revoke(r)
    BY <1>1, <1>2, <2>5, LookupMoves, RevokeMoves, NoWorkFields DEF Moved
  <2>. QED
    BY <2>1, <2>2, <2>3, <2>4, <2>5, SlotSteps DEF Handle
<1>3. ASSUME NEW row \in TrailRow, ~Onboarding(row), row.user = None PROVE trail'[row] = 0
  <2>1. trail[row] = 0
    BY <1>3 DEF CountInv
  <2>2. ASSUME NEW r \in Request, AuditCreated(r) PROVE trail'[row] = trail[row]
    <3>1. PICK event \in TrailEvent, q \in Person, u \in User \cup {None} :
            event # "lifecycle_access_revoked" /\ AddRow(event, q, u)
      BY <1>1, <2>2, CreatedRow
    <3>2. PICK added : added = [event |-> event, person |-> q, user |-> u]
      OBVIOUS
    <3>3. row # added
      BY <1>3, <3>1, <3>2 DEF Onboarding
    <3>. QED
      BY <1>1, <3>1, <3>2, <3>3, RowAdded
  <2>3. ASSUME NEW r \in Request, AuditRevoked(r) PROVE trail'[row] = trail[row]
    <3>1. PICK added : added = [event |-> "lifecycle_access_revoked",
                                person |-> handler[r].envelope.person, user |-> handler[r].user]
      OBVIOUS
    <3>2. handler[r].user \in User
      BY <1>1, <2>3, RevokedRow
    <3>3. row # added
      BY <1>3, <3>1, <3>2, NoneAssumption
    <3>. QED
      BY <1>1, <2>3, <3>1, <3>3, RevokedRow, RowAdded
  <2>4. trail' = trail \/ \E r \in Request : AuditCreated(r) \/ AuditRevoked(r)
    BY DEF LNext, Handle, Core, lifecycle, Created, Deactivated, Deleted, Publish, Dispatch,
       Redeliver, HandlerStops, Stamp, Lookup, Revoke, lvars
  <2>. QED
    BY <2>1, <2>2, <2>3, <2>4
<1>. QED
  BY <1>2, <1>3, CountedStep DEF CountInv, Onboarding

LEMMA CountInit == LInit => CountInv
<1>. SUFFICES ASSUME LInit PROVE CountInv
  OBVIOUS
<1>1. \A row \in TrailRow : trail[row] = 0
  BY DEF LInit
<1>2. \A r \in Request : handler[r].pc = "idle"
  BY NoWorkFields DEF LInit
<1>3. ASSUME NEW p \in Person PROVE Counted(p)
  <2>1. Handling(p) = {}
    BY <1>2 DEF Handling, Mine
  <2>2. Cardinality(Handling(p)) = 0 /\ IsFiniteSet(Handling(p))
    BY <2>1, FS_EmptySet
  <2>3. OnBus(p) = 0 /\ Quota(p) = 0
    BY DEF LInit, OnBus, Quota
  <2>. QED
    BY <1>1, <2>2, <2>3 DEF Counted, Copies
<1>. QED
  BY <1>1, <1>2, <1>3 DEF CountInv

(* The lifecycle's state has its type, for every instance.  The handler    *)
(* is in no slot where its call could be another's, and the trail stays    *)
(* bounded by the redeliveries: one onboarding row for each copy of a      *)
(* person's created envelope, one row for a principal's revocation.        *)
THEOREM LifecycleTypeCorrect == LSpec => []LTypeOK
<1>1. LifecycleInv /\ RevokeInv /\ CountInv => LTypeOK
  <2>. SUFFICES ASSUME LifecycleInv, RevokeInv, CountInv PROVE LTypeOK
    OBVIOUS
  <2>1. TypeOK /\ LifecycleTyped
    BY DEF LifecycleInv, TypeInv
  <2>2. ASSUME NEW row \in TrailRow PROVE trail[row] \in 0..(1 + MaxReplays)
    <3>1. /\ row.event \in TrailEvent /\ row.person \in Person /\ row.user \in User \cup {None}
          /\ row = [event |-> row.event, person |-> row.person, user |-> row.user]
      BY DEF TrailRow
    <3>2. trail[row] \in Nat
      BY <2>1 DEF LifecycleTyped
    <3>3. trail[row] <= 1 + MaxReplays
      <4>1. CASE Onboarding(row)
        <5>1. PICK p \in Person : p = row.person
          BY <3>1
        <5>2. Counted(p)
          BY DEF CountInv
        <5>3. Copies(p) \in Nat /\ Quota(p) \in Nat /\ trail[row] + Copies(p) <= Quota(p)
          BY <2>1, <4>1, <5>1, <5>2, CopiesTyped DEF Counted
        <5>4. replays \in 0..MaxReplays /\ Quota(p) \in {0, 1 + replays}
          BY <2>1 DEF LifecycleTyped, Quota
        <5>. QED
          BY <3>2, <5>3, <5>4, MaxReplaysAssumption
      <4>2. CASE ~Onboarding(row) /\ row.user = None
        BY <4>2, MaxReplaysAssumption DEF CountInv
      <4>3. CASE ~Onboarding(row) /\ row.user \in User
        <5>1. trail[row] = RevokedRows(row.person, row.user)
          BY <3>1, <4>3 DEF Onboarding, RevokedRows
        <5>2. RowSound(row.person, row.user)
          BY <3>1, <4>3 DEF RevokeInv
        <5>3. trail[row] <= 1
          BY <5>1, <5>2 DEF RowSound
        <5>. QED
          BY <3>2, <5>3, MaxReplaysAssumption
      <4>. QED
        BY <3>1, <4>1, <4>2, <4>3
    <3>. QED
      BY <3>2, <3>3, MaxReplaysAssumption
  <2>3. trail \in [TrailRow -> 0..(1 + MaxReplays)]
    BY <2>1, <2>2 DEF LifecycleTyped
  <2>. QED
    BY <2>1, <2>3 DEF LTypeOK, LifecycleTyped
<1>2. LInit => GoneInv
  BY NoWorkFields DEF LInit, GoneInv
<1>. QED
  BY <1>1, <1>2, CountInit, CountStep, GoneStep, LifecycleInvariant, RevokeInvariant, PTL
     DEF LSpec

=============================================================================
