--------------------------- MODULE MCPortalAccess ---------------------------
(***************************************************************************)
(* Instances of PortalAccess for TLC.  Every id is drawn fresh by the code *)
(* and compared for equality only, so the ids of each kind are symmetric.  *)
(***************************************************************************)
EXTENDS PortalAccess, TLC

Symmetry == Permutations(Email) \cup Permutations(User) \cup Permutations(Token)
                \cup Permutations(Invite) \cup Permutations(Request)
=============================================================================
