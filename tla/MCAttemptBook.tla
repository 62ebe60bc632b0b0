--------------------------- MODULE MCAttemptBook ----------------------------
(***************************************************************************)
(* Instances of AttemptBook for TLC.  The thresholds are scaled down; what *)
(* matters is kept: the base is longer than the spacing and the cap is     *)
(* reached within a run.                                                   *)
(***************************************************************************)
EXTENDS AttemptBook, TLC

Symmetry == Permutations(Identity) \cup Permutations(Ip) \cup Permutations(Request)
=============================================================================
