---------------------------- MODULE MCDmSession ----------------------------
(* Instances of DmSession for TLC. *)
EXTENDS DmSession
=============================================================================
