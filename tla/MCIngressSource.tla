--------------------------- MODULE MCIngressSource ---------------------------
(***************************************************************************)
(* IngressSource on small instances for TLC.                               *)
(***************************************************************************)
EXTENDS IngressSource

CONSTANTS a, b, c

Perms == Permutations(Sources)

One   == {1 .. 1}
Short == {1 .. 1, 1 .. 2}
Wide  == {1 .. 2, 2 .. 3}
=============================================================================
