------------------------------ MODULE MCLsmMap ------------------------------
(***************************************************************************)
(* Instances of LsmMap for TLC.                                            *)
(***************************************************************************)
EXTENDS LsmMap
=============================================================================
