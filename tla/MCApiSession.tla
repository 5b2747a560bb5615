---------------------------- MODULE MCApiSession ----------------------------
(***************************************************************************)
(* ApiSession on small instances for TLC.                                  *)
(***************************************************************************)
EXTENDS ApiSession

\* The reply to a status that is sent after a reconnection is the one answer nobody
\* asks for again.
AllButStatus == {"account", "open", "put", "refresh", "delete"}
=============================================================================
