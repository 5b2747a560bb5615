--------------------------- MODULE MCOutputSettings ---------------------------
(***************************************************************************)
(* OutputSettings on small instances for TLC.                              *)
(***************************************************************************)
EXTENDS OutputSettings

Two      == {"x264", "nvenc"}
Hardware == <<"amf", "nvenc">>
Low      == [e \in {"x264"} |-> 2]
Entered  == {4}
Narrow   == {[min |-> 2, max |-> 3], [min |-> 3, max |-> 5]}
One      == {"camera"}
=============================================================================
