----------------------------- MODULE MCReceivers -----------------------------
(***************************************************************************)
(* Receivers on small instances for TLC.                                   *)
(***************************************************************************)
EXTENDS Receivers

CONSTANTS ada, ben

=============================================================================
