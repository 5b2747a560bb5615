-------------------------- MODULE MCRequestInvoker --------------------------
(***************************************************************************)
(* RequestInvoker for TLC.  The requests of one kind are interchangeable,  *)
(* so the safety runs may identify states that differ by a permutation.    *)
(***************************************************************************)
EXTENDS RequestInvoker
LOCAL INSTANCE TLC

HttpSymmetry == Permutations(Http)
=============================================================================
