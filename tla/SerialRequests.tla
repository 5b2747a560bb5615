--------------------------- MODULE SerialRequests ---------------------------
(***************************************************************************)
(* What RequestSequencer promises to its callers ("This class introduces   *)
(* sequencial invocation of requests"): requests are invoked one at a      *)
(* time, in the order they were handed over, and each of them is answered. *)
(* No invokers, no signals: only the order in which work is done.          *)
(***************************************************************************)
EXTENDS Naturals, Sequences

CONSTANT Requests

VARIABLES
  pending,   \* requests handed over and not invoked yet, oldest first
  running,   \* the requests on the wire: at most one
  served     \* the requests whose reply was delivered

vars == <<pending, running, served>>

Queued(r) == \E i \in DOMAIN pending : pending[i] = r

Init ==
  /\ pending = <<>>
  /\ running = {}
  /\ served  = {}

\* A caller hands over r: on the wire at once if there is nothing to wait for.
Submit(r) ==
  /\ r \notin served \cup running
  /\ ~ Queued(r)
  /\ \/ /\ pending = <<>> /\ running = {}
        /\ running' = {r}
        /\ UNCHANGED pending
     \/ /\ pending' = Append(pending, r)
        /\ UNCHANGED running
  /\ UNCHANGED served

\* The oldest request goes on the wire, which is free.
Start ==
  /\ running = {} /\ pending # <<>>
  /\ running' = {Head(pending)}
  /\ pending' = Tail(pending)
  /\ UNCHANGED served

\* The reply (or the error, or the timeout) of the request on the wire.
Finish ==
  /\ running # {}
  /\ running' = {}
  /\ served' = served \cup running
  /\ UNCHANGED pending

Next == (\E r \in Requests : Submit(r)) \/ Start \/ Finish

\* What may happen, and what must.
Safety == Init /\ [][Next]_vars
Spec   == Safety /\ WF_vars(Start) /\ WF_vars(Finish)

=============================================================================
