--------------------------- MODULE MCEgressOutput ---------------------------
(***************************************************************************)
(* EgressOutput on small instances for TLC.                                *)
(***************************************************************************)
EXTENDS EgressOutput

\* What the user may choose as the video of an output.
AnySource == {"none", "input", "program"}
OwnSource == {"input"}
Program   == {"program"}
=============================================================================
