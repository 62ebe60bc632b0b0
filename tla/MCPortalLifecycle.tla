------------------------- MODULE MCPortalLifecycle --------------------------
(***************************************************************************)
(* Instances of PortalLifecycle for TLC.  Every person has the first email *)
(* of the instance, the worst case for the two arms' searches.             *)
(***************************************************************************)
EXTENDS PortalLifecycle, TLC

SameEmail == [p \in Person |-> CHOOSE e \in Email : TRUE]

(* Safety runs only: every id is compared for equality alone. *)
Symmetry == Permutations(User) \cup Permutations(Token) \cup Permutations(Invite)
                \cup Permutations(Request) \cup Permutations(Person)
=============================================================================
