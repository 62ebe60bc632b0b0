--------------------------- MODULE MCPortalSurface ---------------------------
(***************************************************************************)
(* PortalSurface on three instances in one run: "rotation" has three       *)
(* tokens; "details" has two, the principal's own record and a principal   *)
(* who is archived and restored; "revocation" has two, which expire, and a *)
(* call that stops half way.  Each is a bound on the states that are       *)
(* looked at, and the run covers those within any of them.  Every id is    *)
(* drawn fresh by the code, and ids and values are compared for equality   *)
(* only, so those of each kind are symmetric.                              *)
(***************************************************************************)
EXTENDS PortalSurface, FiniteSets, TLC

Symmetry == Permutations(Email) \cup Permutations(User) \cup Permutations(Token)
                \cup Permutations(Invite) \cup Permutations(Request) \cup Permutations(Value)
                \cup Permutations(Column)

Within(s) ==
    /\ Cardinality({t \in Token : tokens'[t].status # "absent"}) <= s.tokens
    /\ faults' <= s.faults
    /\ late' \subseteq s.late
    /\ ~s.archives => \A u \in User : ~users'[u].deleted
    /\ ~s.patches => \A u \in User : record'[u].columns = NoColumn

Rotation == [tokens |-> 3, faults |-> 0, late |-> {}, archives |-> FALSE, patches |-> FALSE]
Details == [tokens |-> 2, faults |-> 0, late |-> {}, archives |-> TRUE, patches |-> TRUE]
Revocation == [tokens |-> 2, faults |-> 1, late |-> Token, archives |-> FALSE, patches |-> FALSE]

Bound == Within(Rotation) \/ Within(Details) \/ Within(Revocation)
=============================================================================
