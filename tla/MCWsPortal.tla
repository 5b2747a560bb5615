----------------------------- MODULE MCWsPortal -----------------------------
(***************************************************************************)
(* WsPortal on small instances for TLC.                                    *)
(***************************************************************************)
EXTENDS WsPortal

CONSTANTS p, q

\* Portals with and without a facility view, all of the same subscriptions.
Hosting == [subs : {Absent}, hosted : BOOLEAN]

\* Portals that ask for high-volume events, and that do not.
Asking == [subs : {{"general"}, {"general", "volume"}}, hosted : {TRUE}]
=============================================================================
