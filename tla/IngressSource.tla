---------------------------- MODULE IngressSource ----------------------------
(***************************************************************************)
(* IngressLinkSource (src/src/sources/ingress-link-source.cpp): the host's *)
(* side of a link.  Every source takes a UDP port from the range the user  *)
(* has set, registers a downlink with the server, and has a decoder listen *)
(* to the connection the server makes of it.                               *)
(*                                                                         *)
(* The sources share the ApiClient: its ports, its map of downlinks, and   *)
(* its queue of requests, one of which is on the wire (SerialRequests).    *)
(* The server tells of a connection in the answers and over the websocket. *)
(* Everything runs on Qt's main thread, so an event handler is one step.   *)
(***************************************************************************)
EXTENDS Integers, FiniteSets, Sequences, SequencesExt

CONSTANTS
  Sources,       \* the uuids of the OBS sources
  Ranges,        \* port ranges the user may set
  Selections,    \* may stage, seat and source be selected, may they not?
  RelayChoices,  \* values of the setting `relay'
  MaxRevision,   \* bound on the revisions
  MaxQueue,      \* bound on the requests queued, for everything but a reconnection
  MaxInbox,      \* bound on the messages under way when the server acts
  Allocations,   \* may the server allocate a guest at once, may it not?
  Failures,      \* may requests fail and the websocket go down?
  Ordered,       \* do answers and pushes arrive in the order they were sent in?
  LoggedIn,      \* may the plugin be logged in when it starts, may it not?
  Logouts,       \* may the user log in and out?
  Dangling       \* do the handlers that no destructor disconnects run on what is left
                 \* of a source (undefined behaviour), or does nothing come of them?

ASSUME BoundsAreNatural == MaxRevision \in Nat \ {0} /\ MaxQueue \in Nat /\ MaxInbox \in Nat
ASSUME RangesArePorts == \A R \in Ranges : R \subseteq Nat \ {0} /\ IsFiniteSet(R)
ASSUME SourcesAreFinite == IsFiniteSet(Sources)
ASSUME ChoicesAreLegal ==
  /\ Selections \subseteq BOOLEAN /\ RelayChoices \subseteq BOOLEAN /\ Allocations \subseteq BOOLEAN /\ LoggedIn \subseteq BOOLEAN
  /\ Failures \in BOOLEAN /\ Ordered \in BOOLEAN /\ Logouts \in BOOLEAN /\ Dangling \in BOOLEAN

VARIABLES
  src,         \* the members of each IngressLinkSource, and its decoder's input
  range,       \* settings: ingress ports min .. max
  usedPorts,   \* ApiClient
  downlinks,   \* ApiClient: the sources that are keys of the map
  linked,      \* ApiClient: is there a token?
  queue,       \* the requests about downlinks, the first one is on the wire
  token,       \* was the one on the wire sent with a token?
  parallel,    \* the DELETE a destroyed source has sent beside the queue
  refreshing,  \* sources that ingressRefreshNeeded or licenseChanged has still to reach
  record,      \* server: the connection it keeps for each source
  subs,        \* server: subscriptions
  up,          \* is the websocket ready?
  again,       \* has it been so before (since start)?
  inbox,       \* messages the server has sent
  unserved,    \* history: sources whose last answer was a failure
  unsent,      \* history: sources that have sent no request since what they ask for changed
  unheard      \* history: sources that may have missed a change of their record

api  == <<usedPorts, downlinks, linked>>
srv  == <<record, subs>>
net  == <<queue, token, parallel, inbox, up, again>>
hist == <<unserved, unsent, unheard>>
vars == <<src, range, api, refreshing, srv, net, hist>>

\* A connection: is a guest allocated to it, its revision, the passphrase the
\* server has generated, the port the guest sends to.
Keys    == 1 .. MaxInbox + MaxQueue + 5
NoPort  == 0
NoConnection == [alloc |-> FALSE, rev |-> 0, key |-> 0, port |-> NoPort]
Ports   == (UNION Ranges) \cup {NoPort}
Connections ==
  [alloc : BOOLEAN, rev : 0 .. MaxRevision, key : Keys, port : Ports] \cup {NoConnection}

Source == [
  life   : {"new", "live", "leaving", "gone"},
  wanted : BOOLEAN,         \* connRequest: are stage, seat and source selected?
  relay  : BOOLEAN,         \* connRequest
  port   : Ports,           \* connRequest
  asked  : 0 .. MaxRevision,  \* connRequest.revision
  rev    : 0 .. MaxRevision,  \* revision
  connection : Connections,
  input  : Connections ]    \* the connection the decoder was set up for, if any

Requests == [kind : {"PUT", "STATUS", "DELETE"}, of : Sources, rev : 0 .. MaxRevision, port : Ports]
Messages == [type : {"answer", "push"}, of : Sources, ok : BOOLEAN, con : Connections]

NewSource ==
  [life |-> "new", wanted |-> FALSE, relay |-> FALSE, port |-> NoPort, asked |-> 0, rev |-> 0,
   connection |-> NoConnection, input |-> NoConnection]
Present(o) == src[o].life \in {"live", "leaving"}
Idle == refreshing = {}

\* The sources whose lambdas connected to ingressRefreshNeeded and licenseChanged run.
Reached == {o \in Sources : Present(o) \/ (Dangling /\ src[o].life = "gone")}

-----------------------------------------------------------------------------
\* Mutants of the operations below.

\* The revision of a connection is not looked at.
ReconnectionIgnoresRevision(s, c) ==
  s.connection.alloc # c.alloc \/ s.connection.key # c.key

\* The selection is not looked at.
RegistrableUnselected(s) == s.port # NoPort \/ s.relay

\* A new request goes ahead of those that wait.
QueuedAhead(q, r) == IF q = <<>> THEN <<r>> ELSE <<Head(q), r>> \o Tail(q)

\* getFreePort stops one short of the end of the range.
IsFreePortShort(p, used) ==
  LET free == {q \in range \ used : q + 1 \in range}
  IN IF free = {} THEN p = NoPort ELSE p \in free /\ \A q \in free : p <= q

\* releasePort forgets the port.
ReleasedNever(p) == {}

-----------------------------------------------------------------------------
\* The decoder.

\* createDecoderSettings: the input is empty until a guest is allocated.
Input(c) == IF c.alloc THEN c ELSE NoConnection

\* resetDecoder; destroyCallback has dropped the decoder.
Reset(s, c) == [s EXCEPT !.connection = c, !.input = IF s.life = "live" THEN Input(c) ELSE NoConnection]

\* onDownlinkReady
ReconnectionNeeded(s, c) ==
  s.connection.alloc # c.alloc \/ s.rev < c.rev \/ s.connection.key # c.key
DownlinkReady(s, c) ==
  IF ReconnectionNeeded(s, c) THEN Reset([s EXCEPT !.rev = c.rev], c)
  ELSE [s EXCEPT !.connection = c]

\* A signal reaches source o, if there is one.
Told(o, t) == src' = IF Present(o) THEN [src EXCEPT ![o] = t] ELSE src

-----------------------------------------------------------------------------
\* Requests.

Pending(o) == \E i \in DOMAIN queue : queue[i].of = o /\ queue[i].kind # "STATUS"

\* putConnection
Registrable(s) == (s.port # NoPort \/ s.relay) /\ s.wanted
ConnectionRequest(o, s) ==
  [kind |-> IF Registrable(s) THEN "PUT" ELSE "DELETE", of |-> o, rev |-> s.asked, port |-> s.port]
StatusRequest(o) == [kind |-> "STATUS", of |-> o, rev |-> 0, port |-> NoPort]
Queued(q, r) == Append(q, r)
PutConnection(o, s) ==
  /\ IF linked THEN queue' = Queued(queue, ConnectionRequest(o, s)) /\ unsent' = unsent \ {o}
     ELSE UNCHANGED queue /\ unsent' = unsent \cup {o}
  /\ UNCHANGED unserved

\* putConnection of all the sources in S, in whatever order they were connected.
PutConnections(S) ==
  /\ \E list \in SetToSeqs(S) :
       queue' = queue \o [i \in DOMAIN list |-> ConnectionRequest(list[i], src[list[i]])]
  /\ unsent' = unsent \ S

\* getFreePort
IsFreePort(p, used) ==
  LET free == range \ used IN IF free = {} THEN p = NoPort ELSE p \in free /\ \A q \in free : p <= q

\* releasePort
Released(p) == {p}
Kept(s) == usedPorts \ Released(s.port)
Taken(p) == {p} \ {NoPort}

\* captureSettings, then putConnection; the stream id is new each time, so that
\* the request always differs from the one before.
Capture(o, s, wanted, relay) ==
  \E p \in Ports :
    LET kept == Kept(s)
        t == [s EXCEPT !.life = IF @ = "new" THEN "live" ELSE @, !.wanted = wanted, !.relay = relay,
                       !.rev = @ + 1, !.asked = s.rev + 1, !.port = p]
    IN /\ IF relay THEN p = NoPort ELSE IsFreePort(p, kept)
       /\ usedPorts' = kept \cup Taken(p)
       /\ src' = [src EXCEPT ![o] = t]
       /\ PutConnection(o, t)

-----------------------------------------------------------------------------
\* OBS and the user.

Room == Len(queue) < MaxQueue

\* The constructor.
Create(o) ==
  /\ Idle /\ Room /\ src[o].life = "new"
  /\ \E wanted \in Selections, relay \in RelayChoices : Capture(o, src[o], wanted, relay)
  /\ UNCHANGED <<range, downlinks, linked, refreshing, srv, token, parallel, inbox, up, again, unheard>>

\* onSettingsUpdate
Update(o) ==
  /\ Idle /\ Room /\ src[o].life = "live" /\ src[o].rev < MaxRevision
  /\ \E wanted \in Selections, relay \in RelayChoices : Capture(o, src[o], wanted, relay)
  /\ UNCHANGED <<range, downlinks, linked, refreshing, srv, token, parallel, inbox, up, again, unheard>>

\* The settings dialog is accepted, or the license becomes valid: all sources
\* capture their settings again, one after the other and before anything else.
RefreshIngress ==
  /\ Idle /\ Len(queue) + Cardinality(Reached) <= MaxQueue
  /\ \A o \in Reached : src[o].rev < MaxRevision
  /\ range' \in Ranges
  /\ refreshing' = Reached
  /\ UNCHANGED <<src, api, srv, net, hist>>

\* reactivate; a source that is leaving, or is gone, has lost its settings.
Reactivate(o) ==
  /\ o \in refreshing
  /\ IF src[o].life = "live" THEN Capture(o, src[o], src[o].wanted, src[o].relay)
     ELSE Capture(o, src[o], FALSE, FALSE)
  /\ refreshing' = refreshing \ {o}
  /\ UNCHANGED <<range, downlinks, linked, srv, token, parallel, inbox, up, again, unheard>>

\* destroyCallback, and later the destructor.
DestroyCallback(o) ==
  /\ Idle /\ src[o].life = "live"
  /\ src' = [src EXCEPT ![o].life = "leaving", ![o].input = NoConnection]
  /\ UNCHANGED <<range, api, refreshing, srv, net, hist>>

Remains(s) == [IF Dangling THEN s ELSE NewSource EXCEPT !.life = "gone"]
Destroy(o) ==
  /\ Idle /\ src[o].life = "leaving"
  /\ src' = [src EXCEPT ![o] = Remains(@)]
  /\ usedPorts' = Kept(src[o])
  /\ parallel' = IF linked THEN [parallel EXCEPT ![o] = "sent"] ELSE parallel
  /\ UNCHANGED <<range, downlinks, linked, refreshing, srv, queue, token, inbox, up, again, hist>>

-----------------------------------------------------------------------------
\* The ApiClient.

Unconnected == {o \in Sources : Present(o) /\ src[o].connection = NoConnection}

\* onStagesReady: of the sources without a connection some find what they
\* have selected.
StagesReady ==
  /\ Idle /\ linked
  /\ \E S \in SUBSET {o \in Unconnected : src[o].wanted} :
       S # {} /\ Len(queue) + Cardinality(S) <= MaxQueue /\ PutConnections(S)
  /\ UNCHANGED <<src, range, api, refreshing, srv, token, parallel, inbox, up, again, unserved, unheard>>

\* onLoginSucceeded, upon a login or a refreshed token.
LoginSucceeded ==
  /\ Idle /\ Len(queue) + Cardinality(Unconnected) <= MaxQueue
  /\ linked \/ Logouts
  /\ linked' = TRUE
  /\ PutConnections(Unconnected)
  /\ UNCHANGED <<src, range, usedPorts, downlinks, refreshing, srv, token, parallel, inbox, up, again, unserved, unheard>>

\* The answer that is under way, if there is one: one request is on the wire.
IsAnswer(m) == m.type = "answer"
Answers(q) ==
  LET A == {m \in ToSet(q) : IsAnswer(m)} IN IF A = {} THEN <<>> ELSE <<CHOOSE m \in A : TRUE>>
Subscribers(S) == subs' = S /\ UNCHANGED record

\* logout: the websocket stops, the downlinks are forgotten.  An answer that is
\* still to come may be older than the news that are lost.
LogoutSucceeded ==
  /\ Idle /\ Logouts /\ linked
  /\ linked' = FALSE /\ downlinks' = {}
  /\ src' = [o \in Sources |-> IF Present(o) THEN Reset(src[o], NoConnection) ELSE src[o]]
  /\ up' = FALSE /\ again' = FALSE /\ subs' = {}
  /\ inbox' = Answers(inbox)
  /\ unheard' = unheard \cup {m.of : m \in ToSet(inbox)}
  /\ UNCHANGED <<range, usedPorts, refreshing, queue, token, parallel, record, unserved, unsent>>

\* The websocket goes down and what it carries is lost.  Only the sources in the
\* map will be asked about again; and an answer may be older than the lost news.
Disconnected ==
  /\ Failures /\ up
  /\ up' = FALSE /\ subs' = {}
  /\ inbox' = Answers(inbox)
  /\ unheard' = unheard \cup {m.of : m \in {n \in ToSet(inbox) : IsAnswer(n) \/ n.of \notin downlinks}}
  /\ UNCHANGED <<src, range, api, refreshing, record, queue, token, parallel, again, unserved, unsent>>

\* onWebSocketReady: the first connection may have failed before.
WebSocketReady ==
  /\ Idle /\ linked /\ ~ up
  /\ up' = TRUE /\ again' = TRUE
  /\ subs' = downlinks
  /\ \E reconnect \in (IF again THEN {TRUE} ELSE {FALSE, Failures}), list \in SetToSeqs(downlinks) :
       queue' = IF reconnect THEN queue \o [i \in DOMAIN list |-> StatusRequest(list[i])] ELSE queue
  /\ Len(queue) + Cardinality(downlinks) <= MaxQueue
  /\ UNCHANGED <<src, range, api, refreshing, record, token, parallel, inbox, hist>>

\* The requestor's answer arrives: the lambdas of putDownlink, putDownlinkStatus
\* and deleteDownlink, and what the source makes of their signals.
Answered(r, m) ==
  LET o == r.of IN
  \/ /\ r.kind # "DELETE" /\ m.ok
     /\ downlinks' = downlinks \cup {o}
     /\ Subscribers(IF r.kind = "PUT" /\ up THEN subs \cup {o} ELSE subs)
     /\ Told(o, DownlinkReady(src[o], m.con))
  \/ /\ r.kind # "DELETE" /\ ~ m.ok
     /\ Told(o, Reset(src[o], NoConnection))
     /\ UNCHANGED <<downlinks, srv>>
  \/ /\ r.kind = "DELETE" /\ m.ok
     /\ downlinks' = downlinks \ {o}
     /\ Subscribers(IF up THEN subs \ {o} ELSE subs)
     /\ IF o \in downlinks THEN Told(o, Reset(src[o], NoConnection)) ELSE UNCHANGED src
  \/ /\ r.kind = "DELETE" /\ ~ m.ok
     /\ UNCHANGED <<src, downlinks, srv>>

\* onWebSocketDataChanged/Removed "downlink.connections"
Pushed(m) ==
  \/ /\ m.con # NoConnection
     /\ downlinks' = downlinks \cup {m.of}
     /\ Told(m.of, DownlinkReady(src[m.of], m.con))
     /\ UNCHANGED srv
  \/ /\ m.con = NoConnection
     /\ downlinks' = downlinks \ {m.of}
     /\ IF m.of \in downlinks THEN Told(m.of, Reset(src[m.of], NoConnection)) ELSE UNCHANGED src
     /\ UNCHANGED srv

\* A message arrives: the next one, or the next of its channel.
Receive(i) ==
  LET m == inbox[i] IN
  /\ Idle
  /\ \A j \in 1 .. i - 1 : ~ Ordered /\ inbox[j].type # m.type
  /\ inbox' = RemoveAt(inbox, i)
  /\ IF m.type = "push" THEN Pushed(m) /\ UNCHANGED <<queue, token, hist>>
     ELSE /\ queue' = Tail(queue) /\ token' = (linked \/ Len(queue) = 1)
          /\ Answered(Head(queue), m)
          /\ unserved' = IF Head(queue).kind = "STATUS" THEN unserved
                         ELSE IF m.ok THEN unserved \ {m.of} ELSE unserved \cup {m.of}
          /\ unheard' = IF m.ok THEN unheard ELSE unheard \cup {m.of}
          /\ UNCHANGED unsent
  /\ UNCHANGED <<range, usedPorts, linked, refreshing, parallel, up, again>>

\* The answer to the DELETE of a source that is gone.
ParallelAnswered(o) ==
  /\ Idle /\ parallel[o] \in {"done", "failed"}
  /\ parallel' = [parallel EXCEPT ![o] = "none"]
  /\ IF parallel[o] = "done"
     THEN downlinks' = downlinks \ {o} /\ Subscribers(IF up THEN subs \ {o} ELSE subs)
     ELSE UNCHANGED <<downlinks, srv>>
  /\ UNCHANGED <<src, range, usedPorts, linked, refreshing, queue, token, inbox, up, again, hist>>

-----------------------------------------------------------------------------
\* The server (not in this repository).

Answer(o, ok, c) == [type |-> "answer", of |-> o, ok |-> ok, con |-> c]
Push(o, c)       == [type |-> "push", of |-> o, ok |-> TRUE, con |-> c]

\* The server tells who has subscribed to o.
News(o, c) == IF o \in subs /\ c # record[o] THEN <<Push(o, c)>> ELSE <<>>

\* A passphrase that is not in use for o.
InUse(o) == {record[o].key, src[o].connection.key, src[o].input.key}
              \cup {inbox[i].con.key : i \in {j \in DOMAIN inbox : inbox[j].of = o}}
NewKey(o) == CHOOSE k \in Keys : k \notin InUse(o)

\* What may become of the record by request r.
Effects(r) ==
  CASE r.kind = "PUT" -> [alloc : Allocations, rev : {r.rev}, key : {NewKey(r.of)}, port : {r.port}]
    [] r.kind = "DELETE" -> {NoConnection}
    [] r.kind = "STATUS" -> {record[r.of]}

\* The request on the wire is served, or fails with or without effect; without a
\* token it is refused.
Serve ==
  /\ queue # <<>> /\ Len(inbox) <= MaxInbox
  /\ \A i \in DOMAIN inbox : inbox[i].type = "push"
  /\ LET r == Head(queue) o == r.of IN
       \/ /\ token /\ (r.kind = "STATUS" => record[o] # NoConnection)
          /\ \E c \in Effects(r), ok \in {TRUE, ~ Failures} :
               /\ record' = [record EXCEPT ![o] = c]
               /\ inbox' = inbox \o News(o, c) \o <<Answer(o, ok, IF ok THEN c ELSE NoConnection)>>
               /\ unheard' = IF r.kind # "DELETE" /\ ok THEN unheard \ {o} ELSE unheard
       \/ /\ Failures \/ ~ token \/ (r.kind = "STATUS" /\ record[o] = NoConnection)
          /\ inbox' = Append(inbox, Answer(o, FALSE, NoConnection))
          /\ UNCHANGED <<record, unheard>>
  /\ UNCHANGED <<src, range, api, refreshing, subs, queue, token, parallel, up, again, unserved, unsent>>

ServeParallel(o) ==
  /\ parallel[o] = "sent"
  /\ \/ /\ record' = [record EXCEPT ![o] = NoConnection]
        /\ inbox' = inbox \o News(o, NoConnection)
        /\ \E result \in {"done"} \cup (IF Failures THEN {"failed"} ELSE {}) : parallel' = [parallel EXCEPT ![o] = result]
     \/ Failures /\ parallel' = [parallel EXCEPT ![o] = "failed"] /\ UNCHANGED <<record, inbox>>
  /\ UNCHANGED <<src, range, api, refreshing, subs, queue, token, up, again, hist>>

\* A guest comes or goes, the connection is revised, or it is removed.
Changes(c) ==
  {[c EXCEPT !.alloc = ~ c.alloc], NoConnection}
    \cup {[c EXCEPT !.rev = r] : r \in {c.rev + 1} \cap (0 .. MaxRevision)}
ServerChanges(o) ==
  /\ record[o] # NoConnection /\ Len(inbox) < MaxInbox
  /\ \E c \in Changes(record[o]) :
       record' = [record EXCEPT ![o] = c] /\ inbox' = inbox \o News(o, c)
  /\ unheard' = IF o \in subs THEN unheard ELSE unheard \cup {o}
  /\ UNCHANGED <<src, range, api, refreshing, subs, queue, token, parallel, up, again, unserved, unsent>>

-----------------------------------------------------------------------------

Init ==
  /\ src = [o \in Sources |-> NewSource]
  /\ range \in Ranges
  /\ usedPorts = {} /\ downlinks = {} /\ linked \in LoggedIn
  /\ queue = <<>> /\ token = TRUE /\ parallel = [o \in Sources |-> "none"] /\ refreshing = {}
  /\ record = [o \in Sources |-> NoConnection] /\ subs = {}
  /\ up = FALSE /\ again = FALSE /\ inbox = <<>>
  /\ unserved = {} /\ unsent = {} /\ unheard = {}

Next ==
  \/ \E o \in Sources :
       \/ Create(o) \/ Update(o) \/ Reactivate(o) \/ DestroyCallback(o) \/ Destroy(o)
       \/ ParallelAnswered(o) \/ ServeParallel(o) \/ ServerChanges(o)
  \/ RefreshIngress \/ StagesReady \/ LoginSucceeded \/ LogoutSucceeded
  \/ Disconnected \/ WebSocketReady \/ Serve
  \/ \E i \in DOMAIN inbox : Receive(i)

Spec == Init /\ [][Next]_vars

-----------------------------------------------------------------------------

TypeOK ==
  /\ src \in [Sources -> Source]
  /\ range \in Ranges /\ usedPorts \subseteq Ports \ {NoPort} /\ downlinks \subseteq Sources
  /\ linked \in BOOLEAN /\ token \in BOOLEAN /\ up \in BOOLEAN /\ again \in BOOLEAN
  /\ queue \in Seq(Requests) /\ inbox \in Seq(Messages)
  /\ parallel \in [Sources -> {"none", "sent", "done", "failed"}]
  /\ record \in [Sources -> Connections]
  /\ refreshing \subseteq Sources /\ subs \subseteq Sources
  /\ unserved \subseteq Sources /\ unsent \subseteq Sources /\ unheard \subseteq Sources

\* A port is taken as long as exactly one source has it: none is given to two
\* sources, and none is lost when sources are set up anew or destroyed.
PortsExact ==
  /\ usedPorts = {src[o].port : o \in {p \in Sources : Present(p)}} \ {NoPort}
  /\ \A o, p \in Sources :
       o # p /\ Present(o) /\ Present(p) /\ src[o].port # NoPort => src[o].port # src[p].port

\* A source that is set up gets a port if the range has as many as there are
\* sources, whatever ports the sources had before and from whatever range.
EnoughPorts ==
  [][\A o \in Sources :
       /\ Create(o) \/ Update(o) \/ Reactivate(o)
       /\ Cardinality(range) >= Cardinality({p \in Sources : Present(p)} \cup {o})
       => src'[o].port # NoPort \/ src'[o].relay]_vars

\* Nothing about o is under way.
Settled(o) ==
  /\ src[o].life = "live" /\ Idle
  /\ \A i \in DOMAIN queue : queue[i].of # o
  /\ \A i \in DOMAIN inbox : inbox[i].of # o

\* The decoder plays what the connection says, although most of the changes of a
\* connection do not touch it: unless a request is still to be answered, or was not
\* served, the revision and the passphrase give away all that matters.
DecoderPlaysConnection ==
  \A o \in Sources :
    src[o].life = "live" /\ ~ Pending(o) /\ o \notin unserved \cup unsent => src[o].input = Input(src[o].connection)

\* When all has arrived the source has the connection the server keeps for it,
\* and the server has one only for what is selected, at the port that is taken.
FollowsServer ==
  \A o \in Sources :
    Settled(o) /\ linked /\ up /\ o \notin unserved \cup unsent \cup unheard =>
      /\ src[o].connection = record[o]
      /\ record[o] # NoConnection => src[o].wanted /\ record[o].port = src[o].port

\* "Unregister connection if no stage/seat/source selected": the server does not keep
\* a connection for a source that has nothing selected, when all has arrived.
Unregistered ==
  \A o \in Sources : Settled(o) /\ linked /\ up /\ ~ src[o].wanted => record[o] = NoConnection

\* No two decoders listen at the same port, although a port is given back, and taken
\* by another source, long before the decoder that listens to it is told to leave:
\* the queue answers the request that moves it before the other source's.
DecodersApart ==
  \A o, p \in Sources \ (unserved \cup unsent) :
    o # p /\ src[o].input.port # NoPort => src[o].input.port # src[p].input.port
=============================================================================
