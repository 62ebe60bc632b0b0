----------------------------- MODULE MCAdmission -----------------------------
(***************************************************************************)
(* PortalAccess on four instances in one run: "invitations" has two        *)
(* addresses, two invitations, an officer's verbs on them and a call that  *)
(* stops half way; "signup" sets the open signup and the kill switch       *)
(* against a redemption of the same address; "unreadable" has signups that *)
(* stop, or do not get to read the switch; "member" has a principal who    *)
(* signs in, presents a link and is revoked, for the trail of it.  "ages"  *)
(* is whether links expire and rows are archived.  Each is a bound on the  *)
(* states that are looked at, and the run covers those within any of them. *)
(***************************************************************************)
EXTENDS PortalAccess, FiniteSets, TLC

Symmetry == Permutations(Email) \cup Permutations(User) \cup Permutations(Token)
                \cup Permutations(Invite) \cup Permutations(Request)

Invitations ==
    [calls |-> {"mint_invite", "redeem", "revoke_invite", "revoke_pending_for_email",
                "sweep_expired", "revoke_bearer"},
     events |-> {"invite_minted", "invite_redeemed", "invite_revoked", "bearer_minted",
                 "bearer_revoked"},
     decided |-> {"redeemed", "revoked", "expired"},
     emails |-> 2, invites |-> 2, faults |-> 1, opens |-> FALSE,
     ages |-> TRUE]

(* A signup for an address that is held goes on as a login. *)
Signup ==
    [calls |-> {"mint_invite", "redeem", "signup", "login", "set_signup_policy"},
     events |-> Event \ {"invite_revoked", "bearer_revoked"},
     decided |-> {"redeemed"},
     emails |-> 1, invites |-> 1, faults |-> 0, opens |-> TRUE,
     ages |-> TRUE]

(* Signups alone, whose calls stop and whose policy cannot be read. *)
Unreadable ==
    [calls |-> {"signup", "login", "set_signup_policy"},
     events |-> Event \ {"invite_minted"},
     decided |-> {},
     emails |-> 1, invites |-> 0, faults |-> 1, opens |-> TRUE,
     ages |-> FALSE]

(* One link: a second, and with it a rotation that succeeds, is left to    *)
(* the run of PortalSurface.                                               *)
Member ==
    [calls |-> {"mint_invite", "redeem", "login", "verify", "rotate", "revoke_access"},
     events |-> Event,
     decided |-> {"redeemed"},
     emails |-> 1, invites |-> 1, faults |-> 0, opens |-> FALSE,
     ages |-> FALSE]

(* The addresses that the next state has heard of. *)
Heard == ({users'[u].email : u \in User} \cup {invites'[i].email : i \in Invite}
            \cup {req'[r].email : r \in Request}) \ {None}

Within(s) ==
    /\ \A r \in Request : req'[r].verb \in s.calls \cup {None}
    /\ \A a \in audit' : a.event \in s.events
    /\ \A i \in Invite : invites'[i].status \in s.decided \cup {"absent", "pending"}
    /\ Cardinality(Heard) <= s.emails
    /\ Cardinality({i \in Invite : invites'[i].status # "absent"}) <= s.invites
    /\ faults' <= s.faults
    /\ open' => s.opens
    /\ ~s.ages => late' = {} /\ \A u \in User : ~users'[u].deleted

Bound == Within(Invitations) \/ Within(Signup) \/ Within(Unreadable) \/ Within(Member)
=============================================================================
