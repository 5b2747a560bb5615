----------------------------- MODULE ApiSession -----------------------------
(***************************************************************************)
(* The session of SRCLinkApiClient: login and logout, the OAuth token, the *)
(* calls that open a session, and SRCLinkWebSocketClient, over which the   *)
(* service tells of every later change (src/src/api-client.cpp,            *)
(* src/src/api-websocket.cpp).                                             *)
(*                                                                         *)
(* A session opens with a chain: the account is requested, its answer      *)
(* makes the client put its uplink, and the end of that PUT, whatever it   *)
(* is, starts the websocket.  The O2 client (external) emits               *)
(* linkingSucceeded for a login, for an unlink and for every refreshed     *)
(* token, and one slot serves all three.  It tells the first login by the  *)
(* account info being empty.                                               *)
(*                                                                         *)
(* REST calls go one at a time through the sequencer (module               *)
(* RequestInvoker); only the DELETE of a logout goes out beside it.  Each  *)
(* call is processed by the service, and its answer arrives later.         *)
(***************************************************************************)
EXTENDS Naturals, Sequences, SequencesExt, FiniteSets

CONSTANTS
  Failing,        \* the kinds of calls that may fail
  CalmLogout,     \* do logouts happen only with nothing else going on?
  RefreshUnlinks, \* may a refused refresh unlink the client?
  Ordered,        \* do answers and pushes arrive in the order they were sent?
  MaxRev,         \* revisions the uplink goes through at the service
  MaxCalls,       \* calls waiting in the sequencer
  MaxFaults       \* drops, expiries and logins

Kinds == {"account", "open", "put", "status", "refresh"}

ASSUME SessionConstants ==
  /\ Failing \subseteq Kinds \cup {"delete"}
  /\ CalmLogout \in BOOLEAN /\ RefreshUnlinks \in BOOLEAN /\ Ordered \in BOOLEAN
  /\ MaxRev \in Nat /\ MaxCalls \in Nat /\ MaxFaults \in Nat

VARIABLES
  linked,      \* O2::linked, and whether there is a refresh token
  token,       \* the access token as the service sees it: "none", "valid", "expired"
  timer,       \* tokenRefreshTimer is running
  calls,       \* the sequencer's queue: the first call is in flight
  answer,      \* the answer to it under way
  deletion,    \* the DELETE of the uplink beside the queue
  leaving,     \* what the DELETE is for: "no", "logout", "exit" (terminating)
  started,     \* SRCLinkWebSocketClient::started
  again,       \* its reconnectCount > 0
  socket,      \* "closed", "opening", "open", "ready", "aborted", "closing"
  subscribed,  \* the service pushes the changes of the uplink on this connection
  asked,       \* history: at its last "ready" the client asked for the uplink
  inbox,       \* pushes under way: the revisions of the uplink they tell of
  account,     \* accountInfo is not empty
  uplink,      \* the revision of the client's uplink, 0 when it is empty
  serverUplink,  \* the uplink at the service, 0 when there is none
  revisions,   \* revisions made so far
  faults,      \* drops, expiries and logins so far
  stable       \* nothing fails or expires any more, and the user waits

authVars   == <<linked, token, timer>>
callVars   == <<calls, answer>>
exitVars   == <<deletion, leaving>>
socketVars == <<started, again, socket, subscribed, asked, inbox>>
dataVars   == <<account, uplink>>
serverVars == <<serverUplink, revisions>>
envVars    == <<faults, stable>>
vars == <<authVars, callVars, exitVars, socketVars, dataVars, serverVars, envVars>>

NoAnswer == [due |-> FALSE, ok |-> FALSE, rev |-> 0]
Ok(r)    == [due |-> TRUE, ok |-> TRUE, rev |-> r]
Refused  == [due |-> TRUE, ok |-> FALSE, rev |-> 0]

\* QWebSocket::isValid(): messages can be sent.
IsValid == socket \in {"open", "ready", "aborted"}

\* Under CalmLogout nothing happens between a logout and its unlink.
Undisturbed == CalmLogout => leaving # "logout"

\* The constructor: the token is refreshed if it is about to expire, else the chain
\* begins and the timer is set.
Init ==
  /\ linked \in BOOLEAN
  /\ token \in IF linked THEN {"valid", "expired"} ELSE {"none"}
  /\ timer = (token = "valid")
  /\ calls = IF token = "valid" THEN <<"account">> ELSE <<"refresh">>
  /\ answer = NoAnswer
  /\ deletion = "none" /\ leaving = "no"
  /\ started = FALSE /\ again = FALSE /\ socket = "closed"
  /\ subscribed = FALSE /\ asked = FALSE /\ inbox = <<>>
  /\ account = FALSE /\ uplink = 0
  /\ serverUplink = 0 /\ revisions = 0
  /\ faults = 0 /\ stable = FALSE

-----------------------------------------------------------------------------
(* The slots of the O2 client.                                               *)

\* linkingSucceeded with a link: the chain begins unless the account is known.
LinkedSlot(queue) == IF account THEN queue ELSE Append(queue, "account")

\* refreshFinished is heard by every refresh in the queue, those that wait for their turn
\* included: they all end.  What is queued behind one that waited starts beside what is on
\* the wire; calls that go out side by side are taken here one by one in any order.
RefreshFinished(queue) ==
  {[i \in DOMAIN order |-> queue[order[i]]] :
     order \in {o \in SetToSeqs({i \in DOMAIN queue : queue[i] # "refresh"}) :
                  \A m, n \in DOMAIN o :
                    m < n => \/ o[m] < o[n]
                             \/ \E k \in o[n] .. o[m] : queue[k] = "refresh"}}

\* unlink(), and linkingSucceeded without a link: the websocket stops, all online
\* resources are cleared.  The timer goes on.  stop() begins to close the connection.
Unlink ==
  /\ linked' = FALSE /\ token' = "none"
  /\ started' = FALSE /\ again' = again
  /\ socket' = IF started THEN "closing" ELSE socket
  /\ subscribed' = FALSE /\ asked' = FALSE /\ inbox' = <<>>
  /\ account' = FALSE /\ uplink' = 0

\* The user logs in in the browser.  A fresh token is not scheduled for a refresh.
Login ==
  /\ ~linked /\ leaving = "no" /\ ~stable /\ faults < MaxFaults
  /\ CalmLogout => calls = <<>>
  /\ linked' = TRUE /\ token' = "valid" /\ faults' = faults + 1
  /\ calls' = LinkedSlot(calls)
  /\ UNCHANGED <<timer, answer, exitVars, socketVars, dataVars, serverVars, stable>>

\* logout(): the DELETE goes out at once, whatever waits in the sequencer.
Logout ==
  /\ linked /\ leaving = "no" /\ ~stable
  /\ CalmLogout => calls = <<>>
  /\ leaving' = "logout" /\ deletion' = "sent"
  /\ UNCHANGED <<authVars, callVars, socketVars, dataVars, serverVars, envVars>>

\* terminate(): from now on the answers to PUTs are ignored.
Terminate ==
  /\ leaving = "no" /\ ~stable
  /\ leaving' = "exit"
  /\ deletion' = IF linked THEN "sent" ELSE "none"
  /\ uplink' = 0
  /\ UNCHANGED <<authVars, callVars, socketVars, account, serverVars, envVars>>

DeleteProcessed ==
  /\ deletion = "sent"
  /\ \/ /\ token = "valid"
        /\ serverUplink' = 0 /\ deletion' = "done"
     \/ /\ token # "valid" \/ ("delete" \in Failing /\ ~stable)
        /\ serverUplink' = serverUplink /\ deletion' = "failed"
  /\ UNCHANGED <<authVars, callVars, leaving, socketVars, dataVars, revisions, envVars>>

\* The answer to the DELETE: the uplink is dropped on success; a logout unlinks
\* whatever the answer was.
DeleteAnswered ==
  /\ deletion \in {"done", "failed"}
  /\ deletion' = "none"
  /\ leaving' = IF leaving = "logout" THEN "no" ELSE leaving
  /\ IF leaving = "logout" THEN Unlink
     ELSE /\ uplink' = IF deletion = "done" THEN 0 ELSE uplink
          /\ subscribed' = (subscribed /\ ~(deletion = "done" /\ started /\ IsValid))
          /\ UNCHANGED <<linked, token, started, again, socket, asked, inbox, account>>
  /\ UNCHANGED <<timer, callVars, serverVars, envVars>>

-----------------------------------------------------------------------------
(* REST calls.                                                               *)

\* The token expires at the service; the timer is set to a minute before that.
TokenExpires ==
  /\ Undisturbed
  /\ token = "valid" /\ ~stable /\ faults < MaxFaults
  /\ token' = "expired" /\ faults' = faults + 1
  /\ UNCHANGED <<linked, timer, callVars, exitVars, socketVars, dataVars, serverVars, stable>>

TimerFires ==
  /\ Undisturbed
  /\ timer /\ ~stable /\ Len(calls) < MaxCalls
  /\ timer' = FALSE
  /\ calls' = Append(calls, "refresh")
  /\ UNCHANGED <<linked, token, answer, exitVars, socketVars, dataVars, serverVars, envVars>>

\* putUplink because the user chose another receiver, or a license became valid.
Put ==
  /\ linked /\ leaving = "no" /\ ~stable
  /\ Len(calls) < MaxCalls
  /\ calls' = Append(calls, "put")
  /\ UNCHANGED <<authVars, answer, exitVars, socketVars, dataVars, serverVars, envVars>>

\* The service handles the first call of the queue (external).
CallProcessed ==
  /\ Undisturbed
  /\ calls # <<>> /\ ~answer.due
  /\ \/ /\ Head(calls) = "refresh" /\ linked
        /\ token' = "valid" /\ answer' = Ok(0)
        /\ UNCHANGED serverVars
     \/ /\ Head(calls) = "account" /\ token = "valid"
        /\ answer' = Ok(0)
        /\ UNCHANGED <<token, serverVars>>
     \/ /\ Head(calls) = "status" /\ token = "valid" /\ serverUplink # 0
        /\ answer' = Ok(serverUplink)
        /\ UNCHANGED <<token, serverVars>>
     \/ /\ Head(calls) \in {"open", "put"} /\ token = "valid" /\ revisions < MaxRev
        /\ revisions' = revisions + 1
        /\ serverUplink' = revisions'
        /\ answer' = Ok(revisions')
        /\ UNCHANGED token
     \/ /\ \/ Head(calls) \in Failing /\ ~stable
           \/ ~linked
           \/ Head(calls) = "status" /\ serverUplink = 0
           \/ Head(calls) \in {"open", "put"} /\ revisions = MaxRev
        /\ answer' = Refused
        /\ UNCHANGED <<token, serverVars>>
  /\ UNCHANGED <<linked, timer, calls, exitVars, socketVars, dataVars, envVars>>

\* A call with an expired token is repeated with a new one by O2's requestor
\* (external), whose refresh ends in the same slots as those of the queue.
CallRetries ==
  /\ Undisturbed
  /\ calls # <<>> /\ ~answer.due /\ Head(calls) # "refresh"
  /\ linked /\ token = "expired"
  /\ token' = "valid" /\ timer' = TRUE
  /\ calls' \in RefreshFinished(LinkedSlot(calls))
  /\ UNCHANGED <<linked, answer, exitVars, socketVars, dataVars, serverVars, envVars>>

\* Under Ordered an answer does not overtake the pushes sent before it.
MayAnswer(kind) ==
  /\ Undisturbed
  /\ answer.due /\ Head(calls) = kind
  /\ Ordered /\ answer.rev # 0 => \A i \in DOMAIN inbox : inbox[i] >= answer.rev

\* Success: linkingSucceeded again, then the timer.  A refused refresh is not
\* scheduled again, and may unlink the client (external).
RefreshAnswered ==
  /\ MayAnswer("refresh")
  /\ answer' = NoAnswer
  /\ \/ /\ answer.ok
        /\ timer' = (timer \/ linked)
        /\ calls' \in RefreshFinished(IF linked THEN LinkedSlot(calls) ELSE calls)
        /\ UNCHANGED <<linked, token, socketVars, dataVars>>
     \/ /\ ~answer.ok
        /\ calls' \in RefreshFinished(calls) /\ timer' = timer
        /\ UNCHANGED <<linked, token, socketVars, dataVars>>
     \/ /\ ~answer.ok /\ RefreshUnlinks
        /\ calls' \in RefreshFinished(calls) /\ timer' = timer
        /\ Unlink
  /\ UNCHANGED <<exitVars, serverVars, envVars>>

\* requestAccountInfo: the chain goes on with the PUT, if there is still a token.
AccountAnswered ==
  /\ MayAnswer("account")
  /\ answer' = NoAnswer
  /\ account' = (account \/ answer.ok)
  /\ calls' = IF answer.ok /\ linked THEN Append(Tail(calls), "open") ELSE Tail(calls)
  /\ UNCHANGED <<authVars, exitVars, socketVars, uplink, serverVars, envVars>>

\* The uplink of a reply replaces the client's, unless the plugin is terminating.
Accepted == answer.ok /\ leaving # "exit"

\* The PUT whose end starts the websocket only when it succeeded (mutant).
OpenAnsweredStrictly ==
  /\ MayAnswer("open")
  /\ calls' = Tail(calls) /\ answer' = NoAnswer
  /\ uplink' = IF Accepted THEN answer.rev ELSE uplink
  /\ subscribed' = (subscribed \/ (Accepted /\ started /\ IsValid))
  /\ IF started \/ ~answer.ok THEN UNCHANGED <<started, again, socket>>
     ELSE started' = TRUE /\ again' = FALSE /\ socket' = "opening"
  /\ UNCHANGED <<authVars, exitVars, asked, inbox, account, serverVars, envVars>>

\* The chain's PUT: websocket->start() follows it, even if it failed.
OpenAnswered ==
  /\ MayAnswer("open")
  /\ calls' = Tail(calls) /\ answer' = NoAnswer
  /\ uplink' = IF Accepted THEN answer.rev ELSE uplink
  /\ subscribed' = (subscribed \/ (Accepted /\ started /\ IsValid))
  /\ IF started THEN UNCHANGED <<started, again, socket>>
     ELSE started' = TRUE /\ again' = FALSE /\ socket' = "opening"
  /\ UNCHANGED <<authVars, exitVars, asked, inbox, account, serverVars, envVars>>

\* putUplink subscribes to what it has put, as far as the socket is valid.
PutAnswered ==
  /\ MayAnswer("put")
  /\ calls' = Tail(calls) /\ answer' = NoAnswer
  /\ uplink' = IF Accepted THEN answer.rev ELSE uplink
  /\ subscribed' = (subscribed \/ (Accepted /\ started /\ IsValid))
  /\ UNCHANGED <<authVars, exitVars, started, again, socket, asked, inbox, account, serverVars,
                 envVars>>

StatusAnswered ==
  /\ MayAnswer("status")
  /\ calls' = Tail(calls) /\ answer' = NoAnswer
  /\ uplink' = IF Accepted THEN answer.rev ELSE uplink
  /\ UNCHANGED <<authVars, exitVars, socketVars, account, serverVars, envVars>>

-----------------------------------------------------------------------------
(* The websocket.                                                            *)

SocketOpens ==
  /\ Undisturbed
  /\ socket = "opening"
  /\ socket' = "open"
  /\ UNCHANGED <<authVars, callVars, exitVars, started, again, subscribed, asked, inbox, dataVars,
                 serverVars, envVars>>

\* onWebSocketReady that leaves the uplink to the calls after a reconnection (mutant).
SocketReadyTrusting ==
  /\ Undisturbed
  /\ socket = "open" /\ token = "valid" /\ Len(calls) < MaxCalls
  /\ socket' = "ready" /\ subscribed' = ~again /\ asked' = (~again \/ uplink # 0)
  /\ inbox' = IF ~again /\ serverUplink # 0 THEN Append(inbox, serverUplink) ELSE inbox
  /\ calls' = IF again /\ uplink # 0 THEN Append(calls, "status") ELSE calls
  /\ UNCHANGED <<authVars, answer, exitVars, started, again, dataVars, serverVars, envVars>>

\* onWebSocketReady that does not send the status again (mutant).
SocketReadySilent ==
  /\ Undisturbed
  /\ socket = "open" /\ token = "valid" /\ Len(calls) < MaxCalls
  /\ socket' = "ready" /\ subscribed' = TRUE /\ asked' = (~again \/ uplink # 0)
  /\ inbox' = IF ~again /\ serverUplink # 0 THEN Append(inbox, serverUplink) ELSE inbox
  /\ UNCHANGED <<authVars, callVars, exitVars, started, again, dataVars, serverVars, envVars>>

\* The service says "ready": the client subscribes to the uplink, with its initial
\* data only the first time; after a reconnection the reply to its status brings it,
\* which is sent only by a client that has an uplink.
SocketReady ==
  /\ Undisturbed
  /\ socket = "open" /\ token = "valid" /\ Len(calls) < MaxCalls
  /\ socket' = "ready" /\ subscribed' = TRUE /\ asked' = (~again \/ uplink # 0)
  /\ inbox' = IF ~again /\ serverUplink # 0 THEN Append(inbox, serverUplink) ELSE inbox
  /\ calls' = IF again /\ uplink # 0 THEN Append(calls, "status") ELSE calls
  /\ UNCHANGED <<authVars, answer, exitVars, started, again, dataVars, serverVars, envVars>>

\* "aborted" that is only logged (mutant).
SocketAbortsSilently ==
  /\ Undisturbed
  /\ socket \in {"open", "ready"} /\ token # "valid"
  /\ socket' = "aborted"
  /\ UNCHANGED <<authVars, callVars, exitVars, started, again, subscribed, asked, inbox, dataVars,
                 serverVars, envVars>>

\* "aborted": not-authorized or token-expired.  The client refreshes its token.
SocketAborts ==
  /\ Undisturbed
  /\ socket \in {"open", "ready"} /\ token # "valid" /\ Len(calls) < MaxCalls
  /\ socket' = "aborted"
  /\ calls' = Append(calls, "refresh")
  /\ UNCHANGED <<authVars, answer, exitVars, started, again, subscribed, asked, inbox, dataVars,
                 serverVars, envVars>>

\* onDisconnected: at once a new connection, for as long as the client is started.
Reconnect ==
  /\ socket' = IF started THEN "opening" ELSE "closed"
  /\ again' = (again \/ started)
  /\ subscribed' = FALSE /\ asked' = FALSE /\ inbox' = <<>>
  /\ UNCHANGED <<authVars, callVars, exitVars, started, dataVars, serverVars>>

SocketDrops ==
  /\ Undisturbed
  /\ socket \in {"opening", "open", "ready"} /\ ~stable /\ faults < MaxFaults
  /\ Reconnect
  /\ faults' = faults + 1 /\ stable' = stable

\* The service closes a connection it has aborted (external).
AbortedCloses ==
  /\ Undisturbed
  /\ socket = "aborted"
  /\ Reconnect
  /\ UNCHANGED envVars

\* The connection that stop() has begun to close is closed, unless start() has opened a new
\* one in the meantime: QWebSocket::open lets go of the old one (external).
StoppedCloses ==
  /\ socket = "closing"
  /\ Reconnect
  /\ UNCHANGED envVars

\* The uplink changes at the service: it is allocated, connected, or moved (external).
ServerChanges ==
  /\ Undisturbed
  /\ serverUplink # 0 /\ revisions < MaxRev /\ ~stable
  /\ revisions' = revisions + 1 /\ serverUplink' = revisions'
  /\ inbox' = IF subscribed /\ socket = "ready" THEN Append(inbox, serverUplink') ELSE inbox
  /\ UNCHANGED <<authVars, callVars, exitVars, started, again, socket, subscribed, asked, dataVars,
                 envVars>>

\* A push changes its part of the uplink; the parts are not told apart here.
PushArrives ==
  /\ Undisturbed
  /\ inbox # <<>>
  /\ Ordered /\ answer.rev # 0 => answer.rev >= Head(inbox)
  /\ uplink' = Head(inbox) /\ inbox' = Tail(inbox)
  /\ UNCHANGED <<authVars, callVars, exitVars, started, again, socket, subscribed, asked, account,
                 serverVars, envVars>>

Settle ==
  /\ ~stable /\ leaving = "no"
  /\ stable' = TRUE
  /\ UNCHANGED <<authVars, callVars, exitVars, socketVars, dataVars, serverVars, faults>>

Next ==
  \/ Login \/ Logout \/ Terminate \/ DeleteProcessed \/ DeleteAnswered
  \/ TokenExpires \/ TimerFires \/ Put \/ CallProcessed \/ CallRetries
  \/ RefreshAnswered \/ AccountAnswered \/ OpenAnswered \/ PutAnswered \/ StatusAnswered
  \/ SocketOpens \/ SocketReady \/ SocketAborts \/ SocketDrops \/ AbortedCloses
  \/ StoppedCloses
  \/ ServerChanges \/ PushArrives \/ Settle

\* Calls are answered (they time out otherwise), a settled service
\* accepts connections, says "ready" or "aborted", and delivers what it has sent.
Fairness ==
  /\ WF_vars(DeleteProcessed) /\ WF_vars(DeleteAnswered) /\ WF_vars(CallProcessed)
  /\ WF_vars(CallRetries)
  /\ WF_vars(RefreshAnswered) /\ WF_vars(AccountAnswered) /\ WF_vars(OpenAnswered)
  /\ WF_vars(PutAnswered) /\ WF_vars(StatusAnswered)
  /\ WF_vars(SocketOpens) /\ WF_vars(SocketReady) /\ WF_vars(SocketAborts)
  /\ WF_vars(AbortedCloses) /\ WF_vars(PushArrives)

Spec == Init /\ [][Next]_vars /\ Fairness

-----------------------------------------------------------------------------
(* Properties.                                                               *)

TypeOK ==
  /\ linked \in BOOLEAN /\ token \in {"none", "valid", "expired"} /\ timer \in BOOLEAN
  /\ calls \in Seq(Kinds) /\ answer \in [due : BOOLEAN, ok : BOOLEAN, rev : 0 .. MaxRev]
  /\ deletion \in {"none", "sent", "done", "failed"} /\ leaving \in {"no", "logout", "exit"}
  /\ started \in BOOLEAN /\ again \in BOOLEAN
  /\ socket \in {"closed", "opening", "open", "ready", "aborted", "closing"}
  /\ subscribed \in BOOLEAN /\ asked \in BOOLEAN /\ inbox \in Seq(1 .. MaxRev)
  /\ account \in BOOLEAN /\ uplink \in 0 .. MaxRev
  /\ serverUplink \in 0 .. MaxRev /\ revisions \in 0 .. MaxRev
  /\ faults \in 0 .. MaxFaults /\ stable \in BOOLEAN

\* A client that has an uplink and a working connection is told of its changes:
\* a subscription is never lost between a reconnection, a PUT and a DELETE
\* (onWebSocketReady, putUplink; subscribe() does nothing without a connection).
SubscribedWhenKnown == leaving # "exit" /\ socket = "ready" /\ uplink # 0 => subscribed

\* A login begins the chain of calls that brings the session up (the test for an
\* empty accountInfo in onO2LinkingSucceeded).
FirstTimeAfterLogin ==
  [][~linked /\ linked' => \E i \in DOMAIN calls' : calls'[i] = "account"]_vars

\* What the client shows of its uplink catches up with the service, after any number
\* of reconnections, PUTs and changes made while the connection was down, if it was
\* known when the connection came up again, or asked for.
UplinkFollows ==
  (stable /\ socket = "ready" /\ uplink # 0 /\ asked)
    ~> (uplink = serverUplink \/ socket # "ready" \/ uplink = 0)

\* A session that has its account comes up, and comes up again after any drop or
\* expired token: in the end the websocket is ready.
SessionRecovers == (stable /\ linked /\ account) ~> (socket = "ready" \/ ~linked)

\* An expired token is renewed, even with no refresh scheduled: the service aborts
\* the connection, and that makes the client refresh (onWebSocketAborted).
TokenRenewed ==
  (stable /\ linked /\ started /\ token = "expired") ~> token # "expired"
=============================================================================
