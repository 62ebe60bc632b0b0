---------------------------- MODULE MCPortalOffice ----------------------------
(***************************************************************************)
(* Instances of PortalOffice for TLC.                                      *)
(***************************************************************************)
EXTENDS PortalOffice
=============================================================================
