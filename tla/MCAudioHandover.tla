--------------------------- MODULE MCAudioHandover ---------------------------
(***************************************************************************)
(* AudioHandover with a buffer of a few frames for TLC.                    *)
(***************************************************************************)
EXTENDS AudioHandover

Sizes == {1, 3}
=============================================================================
