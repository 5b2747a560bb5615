--------------------------- MODULE RequestInvoker ---------------------------
(***************************************************************************)
(* RequestSequencer and RequestInvoker (src/src/request-invoker.cpp): the  *)
(* queue every REST call of the plugin goes through.                       *)
(*                                                                         *)
(* There is no loop that takes requests off the queue.  A caller that      *)
(* finds the queue occupied connects a lambda to the `finished' signal of  *)
(* its last element, and the emission of that signal starts the next       *)
(* request.  A token refresh is queued the same way, but it ends when the  *)
(* OAuth client (external) emits refreshFinished, a signal every waiting   *)
(* refresh invoker is connected to from the moment it was created.         *)
(*                                                                         *)
(* All of it runs on Qt's main thread.  One event (a reply, a timer) runs  *)
(* to completion: the callbacks it still has to run are `agenda', and      *)
(* nothing else may happen while it is not empty.                          *)
(***************************************************************************)
EXTENDS Naturals, Sequences, SequencesExt

CONSTANTS
  Http,            \* invokers of get/post/put/deleteResource on the shared sequencer
  Refresh,         \* invokers of refresh() on the shared sequencer
  Parallel,        \* invokers made with a private sequencer ("Parallel invocation")
  RefreshOverlap   \* may refresh() be called while an earlier one is unfinished?

ASSUME InvokersAreDistinct ==
  /\ Http \cap Refresh = {} /\ Http \cap Parallel = {} /\ Refresh \cap Parallel = {}
  /\ RefreshOverlap \in BOOLEAN

Sequential == Http \cup Refresh
Invokers   == Sequential \cup Parallel

VARIABLES
  requestQueue,  \* RequestSequencer::requestQueue
  phase,         \* the life of each invoker
  chained,       \* the lambdas other invokers connected to `finished' of this one
  listeners,     \* invokers connected to refreshFinished, in connection order
  refreshing,    \* client->refresh() calls not answered yet
  agenda,        \* callbacks the current event still has to run, innermost first
  crashed        \* a callback used a deleted invoker and the process died

vars == <<requestQueue, phase, chained, listeners, refreshing, agenda, crashed>>

Phases == {"unborn", "queued", "inflight", "finished"}

\* The callbacks: a queued lambda, a caller's handler of `finished', the slot
\* onO2RefreshFinished of a listener.
InvokeOf(n)  == [call |-> "invoke",  of |-> n]
HandlerOf(r) == [call |-> "handler", of |-> r]
SlotOf(r)    == [call |-> "slot",    of |-> r]
Callbacks    == [call : {"invoke", "handler", "slot"}, of : Invokers]

Idle      == agenda = <<>>
Doing(c)  == agenda # <<>> /\ Head(agenda) = c
\* Code that may create requests runs in an event of its own or in a handler.
MayQueue  == Idle \/ \E r \in Invokers : Doing(HandlerOf(r))
InFlight   == {r \in Invokers : phase[r] = "inflight"}
Unfinished == {r \in Invokers : phase[r] \in {"queued", "inflight"}}

\* The first lambda only, as if `finished' were connected single-shot (mutant).
FollowersFirstOnly(r) ==
  [i \in DOMAIN chained[r] \cap {1} |-> InvokeOf(chained[r][i])]

\* The callbacks connected to the `finished' signal of r, in connection order.
Followers(r) == [i \in DOMAIN chained[r] |-> InvokeOf(chained[r][i])]

\* QList::removeOne; an invoker is in the queue once (QueueIsUnfinished).
PositionOf(s, e) == CHOOSE i \in DOMAIN s : s[i] = e
RemoveOne(s, e)  == IF \E i \in DOMAIN s : s[i] = e
                    THEN RemoveAt(s, PositionOf(s, e)) ELSE s

Init ==
  /\ requestQueue = <<>>
  /\ phase = [r \in Invokers |-> "unborn"]
  /\ chained = [r \in Invokers |-> <<>>]
  /\ listeners = <<>>
  /\ refreshing = 0
  /\ agenda = <<>>
  /\ crashed = FALSE

-----------------------------------------------------------------------------
\* Mutants: what plausible slips in the operations below would make of them.

\* The new request is put in front of the waiting ones.
QueuePrepend(r) ==
  /\ requestQueue' = <<r>> \o requestQueue
  /\ IF requestQueue = <<>>
     THEN /\ phase' = [phase EXCEPT ![r] = "inflight"]
          /\ refreshing' = IF r \in Refresh THEN refreshing + 1 ELSE refreshing
          /\ UNCHANGED chained
     ELSE /\ phase' = [phase EXCEPT ![r] = "queued"]
          /\ chained' = [chained EXCEPT ![requestQueue[Len(requestQueue)]] = Append(@, r)]
          /\ UNCHANGED refreshing

\* connect(requestQueue.first(), ...) in place of last().
QueueChainToFirst(r) ==
  /\ requestQueue' = Append(requestQueue, r)
  /\ IF requestQueue = <<>>
     THEN /\ phase' = [phase EXCEPT ![r] = "inflight"]
          /\ refreshing' = IF r \in Refresh THEN refreshing + 1 ELSE refreshing
          /\ UNCHANGED chained
     ELSE /\ phase' = [phase EXCEPT ![r] = "queued"]
          /\ chained' = [chained EXCEPT ![requestQueue[1]] = Append(@, r)]
          /\ UNCHANGED refreshing

\* The early return after invoking is missing: the request chains to itself.
QueueNoReturn(r) ==
  IF requestQueue = <<>>
  THEN /\ requestQueue' = <<r, r>>
       /\ phase' = [phase EXCEPT ![r] = "inflight"]
       /\ refreshing' = IF r \in Refresh THEN refreshing + 1 ELSE refreshing
       /\ chained' = [chained EXCEPT ![r] = Append(@, r)]
  ELSE /\ requestQueue' = Append(requestQueue, r)
       /\ phase' = [phase EXCEPT ![r] = "queued"]
       /\ chained' = [chained EXCEPT ![requestQueue[Len(requestQueue)]] = Append(@, r)]
       /\ UNCHANGED refreshing

\* onO2RefreshFinished forgets removeOne.
RunSlotNoRemove(r) ==
  /\ Doing(SlotOf(r))
  /\ phase' = [phase EXCEPT ![r] = "finished"]
  /\ agenda' = Followers(r) \o Tail(agenda)
  /\ UNCHANGED <<requestQueue, chained, listeners, refreshing, crashed>>

\* onO2RefreshFinished forgets to emit finished.
RunSlotNoEmit(r) ==
  /\ Doing(SlotOf(r))
  /\ requestQueue' = RemoveOne(requestQueue, r)
  /\ phase' = [phase EXCEPT ![r] = "finished"]
  /\ agenda' = Tail(agenda)
  /\ UNCHANGED <<chained, listeners, refreshing, crashed>>

-----------------------------------------------------------------------------

\* RequestInvoker::queue: with an empty queue the request is invoked at once,
\* otherwise when the last one in the queue emits finished.
Queue(r) ==
  /\ requestQueue' = Append(requestQueue, r)
  /\ IF requestQueue = <<>>
     THEN /\ phase' = [phase EXCEPT ![r] = "inflight"]
          /\ refreshing' = IF r \in Refresh THEN refreshing + 1 ELSE refreshing
          /\ UNCHANGED chained
     ELSE /\ phase' = [phase EXCEPT ![r] = "queued"]
          /\ chained' = [chained EXCEPT ![requestQueue[Len(requestQueue)]] = Append(@, r)]
          /\ UNCHANGED refreshing

\* A get/post/put/deleteResource on the shared sequencer.
Submit(r) ==
  /\ phase[r] = "unborn" /\ MayQueue
  /\ Queue(r)
  /\ UNCHANGED <<listeners, agenda, crashed>>

\* refresh(): it listens to refreshFinished from now on, invoked or not.
SubmitRefresh(r) ==
  /\ phase[r] = "unborn" /\ Idle
  /\ RefreshOverlap \/ listeners = <<>>
  /\ listeners' = Append(listeners, r)
  /\ Queue(r)
  /\ UNCHANGED <<agenda, crashed>>

\* A request with a sequencer of its own finds an empty queue.
SubmitParallel(r) ==
  /\ phase[r] = "unborn" /\ MayQueue
  /\ phase' = [phase EXCEPT ![r] = "inflight"]
  /\ UNCHANGED <<requestQueue, chained, listeners, refreshing, agenda, crashed>>

-----------------------------------------------------------------------------

\* onRequestorFinished: a reply, an error or the requestor's timeout.  The
\* caller's handler was connected before any later request chained itself.
Reply(r) ==
  /\ Idle
  /\ phase[r] = "inflight"
  /\ requestQueue' = RemoveOne(requestQueue, r)
  /\ phase' = [phase EXCEPT ![r] = "finished"]
  /\ agenda' = <<HandlerOf(r)>> \o Followers(r)
  /\ UNCHANGED <<chained, listeners, refreshing, crashed>>

\* The OAuth client emits refreshFinished: every connected slot will run.
RefreshReply ==
  /\ Idle
  /\ refreshing > 0
  /\ refreshing' = refreshing - 1
  /\ agenda' = [i \in DOMAIN listeners |-> SlotOf(listeners[i])]
  /\ listeners' = <<>>
  /\ UNCHANGED <<requestQueue, phase, chained, crashed>>

\* onO2RefreshFinished of one listener.
RunSlot(r) ==
  /\ Doing(SlotOf(r))
  /\ requestQueue' = RemoveOne(requestQueue, r)
  /\ phase' = [phase EXCEPT ![r] = "finished"]
  /\ agenda' = Followers(r) \o Tail(agenda)
  /\ UNCHANGED <<chained, listeners, refreshing, crashed>>

\* The lambda of a queued invoker.
RunInvoke(n) ==
  /\ Doing(InvokeOf(n))
  /\ phase[n] # "finished"
  /\ phase' = [phase EXCEPT ![n] = "inflight"]
  /\ refreshing' = IF n \in Refresh THEN refreshing + 1 ELSE refreshing
  /\ agenda' = Tail(agenda)
  /\ UNCHANGED <<requestQueue, chained, listeners, crashed>>

\* The lambda of an invoker that finished before its turn and was deleted: it
\* reads freed memory.  Either the old contents are still there and
\* client->refresh() is called once more, or the process dies.
RunDangling(n) ==
  /\ Doing(InvokeOf(n))
  /\ phase[n] = "finished"
  /\ \/ refreshing' = refreshing + 1 /\ UNCHANGED crashed
     \/ crashed' = TRUE /\ UNCHANGED refreshing
  /\ agenda' = Tail(agenda)
  /\ UNCHANGED <<requestQueue, phase, chained, listeners>>

\* The caller's handler returns (what it queued is Submit, while it runs).
RunHandler(r) ==
  /\ Doing(HandlerOf(r))
  /\ agenda' = Tail(agenda)
  /\ UNCHANGED <<requestQueue, phase, chained, listeners, refreshing, crashed>>

RunCallback ==
  \E r \in Invokers : RunSlot(r) \/ RunInvoke(r) \/ RunDangling(r) \/ RunHandler(r)

Next ==
  /\ ~ crashed
  /\ \/ \E r \in Http : Submit(r)
     \/ \E r \in Refresh : SubmitRefresh(r)
     \/ \E r \in Parallel : SubmitParallel(r)
     \/ \E r \in Http \cup Parallel : Reply(r)
     \/ RefreshReply
     \/ RunCallback

\* Every request is answered (the requestor gives up after
\* DEFAULT_TIMEOUT_MSECS), and an event's callbacks are run to the end.
Fairness ==
  /\ \A r \in Http \cup Parallel : WF_vars(~ crashed /\ Reply(r))
  /\ WF_vars(~ crashed /\ RefreshReply)
  /\ WF_vars(~ crashed /\ RunCallback)

Spec     == Init /\ [][Next]_vars
FairSpec == Spec /\ Fairness

-----------------------------------------------------------------------------

\* Every variable has the shape the code gives it.
TypeOK ==
  /\ requestQueue \in Seq(Sequential)
  /\ phase \in [Invokers -> Phases]
  /\ chained \in [Invokers -> Seq(Sequential)]
  /\ listeners \in Seq(Refresh)
  /\ refreshing \in Nat
  /\ agenda \in Seq(Callbacks)
  /\ crashed \in BOOLEAN

\* "Sequential invocation": of the requests that share the sequencer, refreshes
\* included, at most one is outstanding, and it is the oldest in the queue.
SequentialInvocation ==
  /\ \A r, s \in Sequential \cap InFlight : r = s
  /\ \A r \in Sequential \cap InFlight : requestQueue # <<>> /\ requestQueue[1] = r
  /\ refreshing > 0 => refreshing = 1 /\ Sequential \cap InFlight \subseteq Refresh

\* No request is forgotten in the queue: whoever waits is connected to an
\* invoker that has not emitted finished yet, or is about to be invoked.  This
\* holds however replies, handlers and overlapping refreshes interleave.
NoLostWakeup ==
  \A n \in Invokers : phase[n] = "queued" =>
    \/ InvokeOf(n) \in Range(agenda)
    \/ \E p \in Unfinished : n \in Range(chained[p])

\* A request leaves the queue exactly when it is finished, and a finished one
\* never comes back: the queue holds the unfinished requests.
QueueIsUnfinished == Range(requestQueue) = Unfinished \cap Sequential

\* An ordinary request goes on the wire once: the lambda of one that already
\* ran is not connected anywhere that will still emit.
InvokedOnce ==
  \A n \in Http : phase[n] \in {"inflight", "finished"} =>
    /\ InvokeOf(n) \notin Range(agenda)
    /\ \A p \in Unfinished : n \notin Range(chained[p])

\* Every request that was queued is answered in the end.
EveryRequestServed ==
  \A r \in Invokers : phase[r] = "queued" ~> phase[r] = "finished" \/ crashed

\* The abstract queue, its front on the wire or not.
Serial == INSTANCE SerialRequests WITH
  Requests <- Sequential,
  pending  <- IF Sequential \cap InFlight = {} THEN requestQueue ELSE Tail(requestQueue),
  running  <- Sequential \cap InFlight,
  served   <- {r \in Sequential : phase[r] = "finished"}

\* Without overlapping refreshes the chain of signals is a serial FIFO queue
\* that serves every request.
ImplementsSerialRequests == Serial!Spec

=============================================================================
