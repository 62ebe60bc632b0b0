--------------------------- MODULE PortalLifecycle --------------------------
(***************************************************************************)
(* The sapiens lifecycle subscription (lifecycle_handler) on top of the    *)
(* access core.  Sapiens, the host's user directory, publishes what        *)
(* happens to a person; the host's bus delivers each envelope at least     *)
(* once and in any order; the handler stamps the person on the portal      *)
(* principal of that email, or revokes the principal linked to them.       *)
(*                                                                         *)
(* The handler works in a request slot of PortalAccess: the revoke_access  *)
(* it calls is that module's, statement by statement, in the same slot.    *)
(***************************************************************************)
EXTENDS PortalAccess

CONSTANTS
    Person,         \* sapiens user ids
    EmailOf,        \* the normalized email of each person's payload
    OfficersRevoke, \* whether officers call revoke_access too, beside the handler
    MaxReplays      \* redeliveries and stops of the handler (a bound of the model)

ASSUME EmailOfAssumption == EmailOf \in [Person -> Email]
ASSUME MaxReplaysAssumption == MaxReplays \in Nat
ASSUME PersonAssumption == None \notin Person
ASSUME RevokeAssumption == "revoke_access" \in Verb /\ OfficersRevoke \in BOOLEAN

VARIABLES
    person,   \* what sapiens has published about each person
    bus,      \* envelopes on their way
    linked,   \* portal_users.sapiens_user_id
    handler,  \* what the handler does in each request slot
    trail,    \* how many rows of each kind the handler has audited
    replays   \* redeliveries and stops so far

lifecycle == <<person, bus, linked, handler, trail, replays>>
lvars == <<users, tokens, invites, open, audit, late, sent, req, faults, due, settled,
           person, bus, linked, handler, trail, replays>>

-----------------------------------------------------------------------------
Gone == {"deactivated", "deleted"}   \* anonymized takes the same arm as deleted

Envelope == [type : {"created"} \cup Gone, person : Person]

TrailEvent == {"onboarding_linked", "onboarding_no_invitation", "lifecycle_access_revoked"}
TrailRow == [event : TrailEvent, person : Person, user : User \cup {None}]

NoWork == [pc |-> "idle", envelope |-> None, user |-> None]

HandlerState ==
    [pc : {"stamp", "audit", "lookup"}, envelope : Envelope, user : User \cup {None}]
        \cup [pc : {"revoke", "sweeping"}, envelope : Envelope, user : User]
        \cup {NoWork}

LTypeOK ==
    /\ TypeOK
    /\ person \in [Person -> {"unknown", "employed", "inactive", "gone"}]
    /\ bus \subseteq Envelope
    /\ linked \in [User -> Person \cup {None}]
    /\ handler \in [Request -> HandlerState]
    /\ trail \in [TrailRow -> 0..(1 + MaxReplays)]
    /\ replays \in 0..MaxReplays

LInit ==
    /\ Init
    /\ person = [p \in Person |-> "unknown"]
    /\ bus = {}
    /\ linked = [u \in User |-> None]
    /\ handler = [r \in Request |-> NoWork]
    /\ trail = [row \in TrailRow |-> 0]
    /\ replays = 0

-----------------------------------------------------------------------------
(* Sapiens and the bus.                                                    *)

Publish(type, p, from, to) ==
    /\ person[p] \in from
    /\ person' = [person EXCEPT ![p] = to]
    /\ bus' = bus \cup {[type |-> type, person |-> p]}
    /\ UNCHANGED <<vars, linked, handler, trail, replays>>

Created(p) == Publish("created", p, {"unknown"}, "employed")
Deactivated(p) == Publish("deactivated", p, {"employed"}, "inactive")
Deleted(p) == Publish("deleted", p, {"employed", "inactive"}, "gone")

Working(r, pc) == handler[r].pc = pc
Work(r, w) == handler' = [handler EXCEPT ![r] = w]

Dispatch(r) ==
    /\ Working(r, "idle") /\ At(r, "idle")
    /\ \E e \in bus :
        /\ bus' = bus \ {e}
        /\ Work(r, [pc |-> IF e.type = "created" THEN "stamp" ELSE "lookup",
                    envelope |-> e, user |-> None])
    /\ UNCHANGED <<vars, person, linked, trail, replays>>

(* The bus has not seen the handler's Ok, in time or at all.               *)
Redeliver(r) ==
    /\ ~Working(r, "idle")
    /\ replays < MaxReplays
    /\ replays' = replays + 1
    /\ bus' = bus \cup {handler[r].envelope}
    /\ UNCHANGED <<vars, person, linked, handler, trail>>

(* The handler's Err, or its silence, leaves the envelope with the bus.    *)
(* Slip: a failed handling answered Ok. *)
ReturnedAcked(r) == bus
Returned(r) == bus \cup {handler[r].envelope}

(* The handler stops: inside the call of revoke_access (a Fail of that     *)
(* call) or at another await.  The envelope was not acknowledged.          *)
HandlerStops(r) ==
    /\ ~Working(r, "idle")
    /\ \/ Fail(r) /\ replays' = replays
       \/ /\ At(r, "idle") /\ replays < MaxReplays
          /\ replays' = replays + 1
          /\ UNCHANGED vars
    /\ bus' = Returned(r)
    /\ Work(r, NoWork)
    /\ UNCHANGED <<person, linked, trail>>

-----------------------------------------------------------------------------
(* on_created.                                                             *)

Stampable(p) == {u \in LiveByEmail(EmailOf[p]) : linked[u] = None}

Stamp(r) ==
    LET p == handler[r].envelope.person IN
    /\ Working(r, "stamp")
    /\ \/ /\ Stampable(p) = {}
          /\ Work(r, [handler[r] EXCEPT !.pc = "audit"])
          /\ UNCHANGED linked
       \/ \E u \in Stampable(p) :
          /\ linked' = [linked EXCEPT ![u] = p]
          /\ Work(r, [handler[r] EXCEPT !.pc = "audit", !.user = u])
    /\ UNCHANGED <<vars, person, bus, trail, replays>>

AddRow(event, p, u) ==
    trail' = [trail EXCEPT ![[event |-> event, person |-> p, user |-> u]] = @ + 1]

AuditCreated(r) ==
    LET w == handler[r] IN
    /\ Working(r, "audit")
    /\ AddRow(IF w.user = None THEN "onboarding_no_invitation" ELSE "onboarding_linked",
              w.envelope.person, w.user)
    /\ Work(r, NoWork)
    /\ UNCHANGED <<vars, person, bus, linked, replays>>

-----------------------------------------------------------------------------
(* on_user_gone.                                                           *)

(* Slip: the principal searched by the person's email. *)
LinkedToByEmail(p) == LiveByEmail(EmailOf[p])
LinkedTo(p) == {u \in User : Live(u) /\ linked[u] = p}

(* Slip: the search is taken to have found somebody. *)
LookupFound(r) ==
    LET p == handler[r].envelope.person IN
    /\ Working(r, "lookup")
    /\ \E u \in LinkedTo(p) \cup {None} :
        (LinkedTo(p) = {} \/ u # None)
            /\ Work(r, [handler[r] EXCEPT !.pc = "revoke", !.user = u])
    /\ UNCHANGED <<vars, person, bus, linked, trail, replays>>

Lookup(r) ==
    LET p == handler[r].envelope.person IN
    /\ Working(r, "lookup")
    /\ \/ LinkedTo(p) = {} /\ Work(r, NoWork)
       \/ \E u \in LinkedTo(p) : Work(r, [handler[r] EXCEPT !.pc = "revoke", !.user = u])
    /\ UNCHANGED <<vars, person, bus, linked, trail, replays>>

(* The call of revoke_access: it flips and goes on to its sweeps, or there *)
(* is nothing to flip and the handler returns Ok at once.                  *)
Revoke(r) ==
    LET u == handler[r].user IN
    /\ Working(r, "revoke")
    /\ \/ RevokeFlip(r, u) /\ Work(r, [handler[r] EXCEPT !.pc = "sweeping"])
       \/ ~Revocable(u) /\ Work(r, NoWork) /\ UNCHANGED vars
    /\ UNCHANGED <<person, bus, linked, trail, replays>>

(* Slip: the revocation audited as soon as it is flipped. *)
AuditRevokedEarly(r) ==
    /\ Working(r, "sweeping")
    /\ AddRow("lifecycle_access_revoked", handler[r].envelope.person, handler[r].user)
    /\ Work(r, NoWork)
    /\ UNCHANGED <<vars, person, bus, linked, replays>>

(* revoke_access has returned Ok(true).                                    *)
AuditRevoked(r) ==
    /\ Working(r, "sweeping") /\ At(r, "idle")
    /\ AddRow("lifecycle_access_revoked", handler[r].envelope.person, handler[r].user)
    /\ Work(r, NoWork)
    /\ UNCHANGED <<vars, person, bus, linked, replays>>

-----------------------------------------------------------------------------
Handle(r) == Stamp(r) \/ AuditCreated(r) \/ Lookup(r) \/ Revoke(r) \/ AuditRevoked(r)

(* The core's own steps.  A slot the handler works in starts no verb, and  *)
(* its stops are HandlerStops.                                             *)
Core ==
    /\ \/ \E r \in Request :
           \/ Continue(r)
           \/ /\ Working(r, "idle")
              /\ \/ Fail(r)
                 \/ Start(r) /\ (OfficersRevoke \/ ~RevokeAccess(r))
       \/ Expire \/ SoftDelete \/ Restore
    /\ UNCHANGED lifecycle

LNext ==
    \/ Core
    \/ \E p \in Person : Created(p) \/ Deactivated(p) \/ Deleted(p)
    \/ \E r \in Request : Dispatch(r) \/ Redeliver(r) \/ HandlerStops(r) \/ Handle(r)

(* The runtime polls every call that can go on, and the bus delivers every *)
(* envelope it holds: some slot is free for it again and again.            *)
Fairness ==
    /\ \A r \in Request : WF_lvars(Handle(r))
    /\ \A r \in Request : WF_lvars(Continue(r) /\ UNCHANGED lifecycle)
    /\ SF_lvars(\E r \in Request : Dispatch(r))

LSpec == LInit /\ [][LNext]_lvars /\ Fairness

-----------------------------------------------------------------------------
(* Safety.                                                                 *)

RevokedRows(p, u) ==
    trail[[event |-> "lifecycle_access_revoked", person |-> p, user |-> u]]

(* However many envelopes announce a departure, and however often each is  *)
(* delivered, the revocation of a principal is audited once.               *)
RevocationAuditedOnce ==
    \A u \in User, p, q \in Person :
        /\ RevokedRows(p, u) <= 1
        /\ RevokedRows(p, u) > 0 /\ RevokedRows(q, u) > 0 => p = q

(* The audited revocation is a complete one: the row is written after both *)
(* sweeps, by a call that was not stopped between them.                    *)
RevokedRowMeansSwept ==
    \A u \in User, p \in Person : RevokedRows(p, u) > 0 =>
        /\ users[u].status = "revoked" /\ u \in settled
        /\ \A x \in due[u] : x \in Token => tokens[x].status # "active"

(* The handler revokes nobody whose own person is still employed, also     *)
(* when another person with the same email leaves.                         *)
RevokedOnlyIfGone ==
    ~OfficersRevoke => \A u \in User : users[u].status = "revoked" =>
        linked[u] # None /\ person[linked[u]] \in {"inactive", "gone"}

-----------------------------------------------------------------------------
(* Liveness.                                                               *)

(* A live principal whose person has left, and whose envelope is still to  *)
(* come, is revoked in the end, through redeliveries and stops of the      *)
(* handler (or is archived first).                                         *)
GoneIsRevoked ==
    \A u \in User, p \in Person :
        (Live(u) /\ linked[u] = p /\ \E e \in bus : e.type \in Gone /\ e.person = p)
            ~> (users[u].status = "revoked" \/ users[u].deleted)

-----------------------------------------------------------------------------
(* What SPEC.md and a comment say and the code does not do.                *)

(* "replays perform nothing and audit nothing new": no second envelope     *)
(* audits that a person has no principal while they are linked to one.     *)
ReplayAuditsNothing ==
    [][\A p \in Person :
         LET row == [event |-> "onboarding_no_invitation", person |-> p, user |-> None] IN
         trail'[row] > trail[row] => LinkedTo(p) = {}]_lvars

(* "performed edge already audited, nothing left to do": when the handler  *)
(* finds its principal revoked already, and no other call is on it, the    *)
(* revocation is on the trail.  (Runs in which no officer revokes.)        *)
PerformedEdgeAudited ==
    [][\A r \in Request :
         LET u == handler[r].user IN
         /\ Revoke(r) /\ Live(u) /\ ~Revocable(u)
         /\ \A q \in Request : ~(Working(q, "sweeping") /\ handler[q].user = u)
         => \E p \in Person : RevokedRows(p, u) > 0]_lvars
=============================================================================
