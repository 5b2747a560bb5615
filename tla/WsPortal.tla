------------------------------ MODULE WsPortal ------------------------------
(***************************************************************************)
(* WsPortalClient, WsPortalEventHandler and WsPortalDock: the relay that   *)
(* lets a remote controller talk to obs-websocket through a portal of the  *)
(* service (src/src/ws-portal/, src/src/UI/ws-portal-dock.cpp).            *)
(*                                                                         *)
(* The ApiClient keeps the list of portals the service pushes.  Two slots  *)
(* hear of every change of the list, in this order because the dock makes  *)
(* the client before it connects itself: the client, which looks up the    *)
(* portal of the setting and starts if it is stopped; and the dock, which  *)
(* refills its combobox, and restarts the client when the selection, and   *)
(* with it the setting, is no longer the same.  The client keeps what the  *)
(* last list said of its portal: a socket is made for the host of its      *)
(* facility view, which the schema lets a portal be without.               *)
(*                                                                         *)
(* OBS threads hand events over: they look at the client without a lock    *)
(* and post the message to the main thread, which sends it on whatever     *)
(* socket there is by then.  All the rest runs on Qt's main thread.        *)
(***************************************************************************)
EXTENDS Integers, Sequences, SequencesExt, FiniteSets

CONSTANTS
  Portals,        \* the portals the service may have
  Forms,          \* what a portal may look like: its subscriptions, and has it a host?
  Absent,         \* a portal without "event_subscriptions"
  Nobody,         \* no portal: a removed one, an empty WsPortal, an empty id
  NoneItem,       \* the combobox's first item, whose id is "none"
  MaxChanges,     \* changes of the portals at the service
  MaxSends        \* messages posted to the main thread

\* The classes of events a portal may subscribe to.
Intents == {"general", "volume"}

ASSUME PortalConstants ==
  /\ Forms \subseteq [subs : (SUBSET Intents) \cup {Absent}, hosted : BOOLEAN]
  /\ (\A m \in SUBSET Intents : m # Absent) /\ \A form \in Forms : form # Nobody
  /\ Nobody \notin Portals /\ NoneItem \notin Portals /\ Nobody # NoneItem
  /\ IsFiniteSet(Portals)
  /\ MaxChanges \in Nat /\ MaxSends \in Nat

VARIABLES
  linked,      \* SRCLinkApiClient::isLoggedIn
  feed,        \* the API's websocket: "never" ready since the login, "up", "down"
  server,      \* the form of each portal at the service, or Nobody
  known,       \* the portals it has or has had, and the setting's: ids are not reused
  changes,     \* how often the service changed its portals
  inbox,       \* pushes under way on the API's websocket, oldest first
  wsPortals,   \* SRCLinkApiClient::wsPortals, as `server'
  items,       \* the portals in the combobox; {} also when the box is empty
  current,     \* currentData() of the combobox: Nobody when the box is empty
  wsPortalId,  \* the setting "ws_portal.id"
  status,      \* WsPortalClient::status is ACTIVE
  wsPortal,    \* the id of WsPortalClient::wsPortal, or Nobody
  details,     \* its form, or Nobody
  socket,      \* WsPortalClient::client: "none", "closed", "opening", "open", or "null":
               \* open() was called without one, and the process is gone
  peer,        \* the portal named in the URL and the one whose host it is, or Nobody
  label,       \* the status label of the dock
  volumeRefs,  \* the event handler's count of links that want high-volume events
  relaying,    \* an OBS thread is inside sendEvent, past its checks
  outbox,      \* the calls of `send' posted to the main thread
  alive,       \* the client exists
  stable       \* the service, the network and the user have settled down

apiVars    == <<linked, feed, server, known, changes, inbox, wsPortals>>
boxVars    == <<items, current, wsPortalId>>
clientVars == <<status, wsPortal, details, socket, peer, label, volumeRefs>>
relayVars  == <<relaying, outbox>>
vars == <<apiVars, boxVars, clientVars, relayVars, alive, stable>>

NoPeer == [id |-> Nobody, host |-> Nobody]
Quiet  == [for |-> Nobody, held |-> FALSE]

\* Both a portal that has been removed and one without "event_subscriptions".
Unasked(form) == form = Nobody \/ form.subs = Absent

\* What sendEvent lets through: all but the high-volume events, or what is asked for.
Wanted(form) == IF Unasked(form) THEN Intents \ {"volume"} ELSE form.subs
\* getEventSubscriptions() of an absent value is 0, and no high-volume intent.
Volume(form) == IF ~Unasked(form) /\ "volume" \in form.subs THEN 1 ELSE 0

\* The last push of the initial data is the one that is not `continuous' (external).
Push(portal, form, continuous) ==
  [portal |-> portal, form |-> form, continuous |-> continuous]

Found(list, id) == id \in Portals /\ list[id] # Nobody
Find(list, id)  == IF Found(list, id) THEN id ELSE Nobody
FormOf(list, id) == IF Found(list, id) THEN list[id] ELSE Nobody

\* The plugin's process runs, and the client exists.
Running == alive /\ socket # "null"

Init ==
  /\ linked = FALSE /\ feed = "never"
  /\ server \in [Portals -> Forms \cup {Nobody}] /\ changes = 0
  /\ inbox = <<>> /\ wsPortals = [p \in Portals |-> Nobody]
  /\ items = {} /\ current = Nobody
  /\ wsPortalId \in Portals \cup {Nobody}
  /\ known = {p \in Portals : server[p] # Nobody \/ p = wsPortalId}
  /\ status = FALSE /\ wsPortal = Nobody /\ details = Nobody
  /\ socket = "none" /\ peer = NoPeer /\ label = "Unlinked"
  /\ volumeRefs = 0
  /\ relaying = Quiet /\ outbox = <<>>
  /\ alive = TRUE /\ stable = FALSE

-----------------------------------------------------------------------------
(* The client.  One event may stop and start it: its state is a record while *)
(* the event runs, and the actions assign the record's fields at the end.    *)

Client == [status |-> status, wsPortal |-> wsPortal, details |-> details,
           socket |-> socket, peer |-> peer, label |-> label, refs |-> volumeRefs]

SetClient(c) ==
  /\ status' = c.status /\ wsPortal' = c.wsPortal /\ details' = c.details
  /\ socket' = c.socket /\ peer' = c.peer /\ label' = c.label
  /\ volumeRefs' = c.refs

\* open(): nothing while a connection is up; else createWsSocket, which destroys the old
\* socket and makes one for the host of wsPortal.  For a portal without a facility view it
\* returns before it does either: there is no client to open, or it is the last one, now
\* with a URL of no host.
Open(c, id) ==
  CASE c.socket = "open" -> c
    [] c.socket # "open" /\ c.details.hosted ->
         [c EXCEPT !.socket = "opening", !.peer = [id |-> id, host |-> c.wsPortal]]
    [] c.socket = "none" /\ ~c.details.hosted -> [c EXCEPT !.socket = "null"]
    [] OTHER -> [c EXCEPT !.socket = "opening", !.peer = [id |-> id, host |-> Nobody]]

Start(c, id, list) ==
  IF c.status \/ id = Nobody THEN c
  ELSE LET found == [c EXCEPT !.wsPortal = Find(list, id), !.details = FormOf(list, id)]
       IN  IF found.wsPortal = Nobody THEN found
           ELSE [Open([found EXCEPT !.status = TRUE], id)
                   EXCEPT !.refs = @ + Volume(found.details)]

\* stop() that does not tell the dock (mutant).
StopSilently(c) ==
  IF ~c.status THEN c
  ELSE [c EXCEPT !.status = FALSE, !.socket = "none", !.peer = NoPeer,
                 !.refs = @ - Volume(c.details), !.wsPortal = Nobody, !.details = Nobody]

\* The dock hears `disconnected' and shows "Unlinked".  An empty wsPortal has no
\* subscriptions to give back, whatever was subscribed when it was started.
Stop(c) ==
  IF ~c.status THEN c
  ELSE [c EXCEPT !.status = FALSE, !.socket = "none", !.peer = NoPeer,
                 !.refs = @ - Volume(c.details), !.wsPortal = Nobody,
                 !.details = Nobody, !.label = "Unlinked"]

\* A restart that keeps an open connection for the next portal (mutant).
RestartInPlace(c, id, list) ==
  IF c.socket = "open" /\ Found(list, id)
  THEN [c EXCEPT !.wsPortal = id, !.details = list[id], !.peer = [id |-> id, host |-> id]]
  ELSE Start(Stop(c), id, list)

Restart(c, id, list) == Start(Stop(c), id, list)

\* A slot that looks the portal up and leaves it at that (mutant).
OnPortalsLookup(c, list) ==
  [c EXCEPT !.wsPortal = Find(list, wsPortalId), !.details = FormOf(list, wsPortalId)]

\* The client's slot for a new list.
OnPortals(c, list) ==
  LET c1 == [c EXCEPT !.wsPortal = Find(list, wsPortalId), !.details = FormOf(list, wsPortalId)]
  IN  IF c1.wsPortal # Nobody /\ ~c1.status THEN Start(c1, wsPortalId, list) ELSE c1

-----------------------------------------------------------------------------
(* The dock's combobox.                                                      *)

\* The selection a new list leaves: the shown one, at first the setting's; an
\* id that is not there falls back to the first item, an empty box has none.
Selected(list) ==
  LET wanted == IF current = Nobody THEN wsPortalId ELSE current
  IN  IF \A p \in Portals : list[p] = Nobody THEN Nobody
      ELSE IF Found(list, wanted) THEN wanted ELSE NoneItem

\* The setting takes the new selection and the client keeps its portal (mutant).
ChangedWithoutRestart(sel, list, c) ==
  [id |-> Find(list, sel), client |-> c]

\* onActiveWsPortalChanged: "none" is no portal, so the setting becomes empty.
ActiveChanged(sel, list, c) ==
  [id |-> Find(list, sel),
   client |-> IF wsPortalId # Find(list, sel) THEN Restart(c, Find(list, sel), list) ELSE c]

\* wsPortalsReady(list): the client's slot, then the dock's.
PortalsReady(list) ==
  LET c1  == OnPortals(Client, list)
      sel == Selected(list)
      out == IF current # sel THEN ActiveChanged(sel, list, c1)
             ELSE [id |-> wsPortalId, client |-> c1]
  IN  /\ items' = {p \in Portals : list[p] # Nobody}
      /\ current' = sel
      /\ wsPortalId' = out.id
      /\ SetClient(out.client)

-----------------------------------------------------------------------------
(* The API session, as far as the portals notice it.                         *)

Login ==
  /\ Running /\ ~linked /\ ~stable
  /\ linked' = TRUE /\ feed' = "never"
  /\ UNCHANGED <<server, known, changes, inbox, wsPortals, boxVars, clientVars, relayVars,
                 alive, stable>>

\* clearOnlineResources empties the list without a signal; logoutSucceeded stops
\* the client and then clears the box, whose change empties the setting.
Logout ==
  /\ Running /\ linked /\ ~stable
  /\ linked' = FALSE /\ feed' = "never" /\ inbox' = <<>>
  /\ wsPortals' = [p \in Portals |-> Nobody]
  /\ items' = {} /\ current' = Nobody
  /\ LET stopped == Stop(Client)
         out == ActiveChanged(Nobody, wsPortals', stopped)
     IN  IF current # Nobody
         THEN wsPortalId' = out.id /\ SetClient(out.client)
         ELSE wsPortalId' = wsPortalId /\ SetClient(stopped)
  /\ UNCHANGED <<server, known, changes, relayVars, alive, stable>>

\* onWebSocketReady subscribes to the portals, with their initial data; the
\* client starts on the first `ready' of a session only.
ApiReady ==
  /\ Running /\ linked /\ feed # "up"
  /\ feed' = "up"
  /\ \E order \in SetToSeqs({p \in Portals : server[p] # Nobody}) :
       inbox' = [i \in DOMAIN order |-> Push(order[i], server[order[i]], i < Len(order))]
  /\ IF feed = "never" THEN SetClient(Start(Client, wsPortalId, wsPortals))
                       ELSE UNCHANGED clientVars
  /\ UNCHANGED <<linked, server, known, changes, wsPortals, boxVars, relayVars, alive, stable>>

ApiDropped ==
  /\ Running /\ linked /\ feed = "up" /\ ~stable
  /\ feed' = "down" /\ inbox' = <<>>
  /\ UNCHANGED <<linked, server, known, changes, wsPortals, boxVars, clientVars, relayVars,
                 alive, stable>>

\* The service makes, changes or removes a portal (external).
ServerChanges(p) ==
  /\ ~stable /\ changes < MaxChanges /\ (p \in known => server[p] # Nobody)
  /\ changes' = changes + 1 /\ known' = known \cup {p}
  /\ \E form \in (Forms \cup {Nobody}) \ {server[p]} : server' = [server EXCEPT ![p] = form]
  /\ inbox' = IF feed = "up" THEN Append(inbox, Push(p, server'[p], FALSE)) ELSE inbox
  /\ UNCHANGED <<linked, feed, wsPortals, boxVars, clientVars, relayVars, alive, stable>>

\* A handler that signals every push of a series (mutant).
PushSignalled ==
  /\ Running /\ linked /\ feed = "up" /\ inbox # <<>>
  /\ wsPortals' = [wsPortals EXCEPT ![Head(inbox).portal] = Head(inbox).form]
  /\ PortalsReady(wsPortals')
  /\ inbox' = Tail(inbox)
  /\ UNCHANGED <<linked, feed, server, known, changes, relayVars, alive, stable>>

\* A push reaches the ApiClient.  `continuous' blocks the signals, so nobody hears of
\* it; nor is the removal of a portal signalled that the list does not hold.
PushArrives ==
  /\ Running /\ linked /\ feed = "up" /\ inbox # <<>>
  /\ LET push == Head(inbox)
     IN  /\ wsPortals' = [wsPortals EXCEPT ![push.portal] = push.form]
         /\ IF push.continuous \/ (push.form = Nobody /\ wsPortals[push.portal] = Nobody)
            THEN UNCHANGED <<boxVars, clientVars>>
            ELSE PortalsReady(wsPortals')
  /\ inbox' = Tail(inbox)
  /\ UNCHANGED <<linked, feed, server, known, changes, relayVars, alive, stable>>

-----------------------------------------------------------------------------
(* The user and the portal's socket.                                         *)

UserSelects(sel) ==
  /\ Running /\ ~stable /\ current # Nobody /\ sel \in items \cup {NoneItem} /\ sel # current
  /\ current' = sel
  /\ LET out == ActiveChanged(sel, wsPortals, Client)
     IN  wsPortalId' = out.id /\ SetClient(out.client)
  /\ UNCHANGED <<apiVars, items, relayVars, alive, stable>>

\* Posted calls run before the event loop looks at the network again.  Nobody answers at
\* a URL without a host (external).
Connected ==
  /\ Running /\ socket = "opening" /\ peer.host # Nobody /\ outbox = <<>>
  /\ socket' = "open" /\ label' = "Linked"
  /\ UNCHANGED <<apiVars, boxVars, status, wsPortal, details, peer, volumeRefs, relayVars,
                 alive, stable>>

\* onDisconnected, of a connection that was up or of an attempt that failed: opened
\* again at once, for as long as a portal is set.
Reopen(c) ==
  IF c.status /\ wsPortalId # Nobody
  THEN [Open([c EXCEPT !.socket = "closed"], wsPortalId) EXCEPT !.label = "Retrying"]
  ELSE [c EXCEPT !.socket = "closed"]

Disconnected ==
  /\ Running /\ socket \in {"opening", "open"} /\ (~stable \/ peer.host = Nobody)
  /\ SetClient(Reopen(Client))
  /\ UNCHANGED <<apiVars, boxVars, relayVars, alive, stable>>

\* processRequest for each request of a batch; haltOnFailure drops the failed one
\* and the rest, and an answer obs-websocket does not give is left out.
RepliesOf(results, halt) ==
  LET bad  == {i \in DOMAIN results : results[i] # "ok"}
      upto == IF halt /\ bad # {}
              THEN (CHOOSE i \in bad : \A j \in bad : i <= j) - 1 ELSE Len(results)
  IN  SelectSeq(SubSeq(results, 1, upto), LAMBDA r : r # "empty")

\* A request, or a batch of them, from a peer of the portal: the answer is posted,
\* and only if there is something to answer.
Request(results, halt) ==
  /\ Running /\ socket = "open" /\ Len(outbox) < MaxSends
  /\ outbox' = IF status /\ RepliesOf(results, halt) # <<>>
               THEN Append(outbox, [reply |-> TRUE, for |-> peer.id]) ELSE outbox
  /\ UNCHANGED <<apiVars, boxVars, clientVars, relaying, alive, stable>>

\* broadcastEvent holds the handler's mutex while sendEvent checks and posts.
RelayBegins(intent) ==
  /\ Running /\ ~relaying.held /\ ~stable
  /\ status /\ intent \in Wanted(details)
  /\ relaying' = [for |-> wsPortal, held |-> TRUE]
  /\ UNCHANGED <<apiVars, boxVars, clientVars, outbox, alive, stable>>

RelayEnds ==
  /\ Running /\ relaying.held /\ Len(outbox) < MaxSends
  /\ outbox' = Append(outbox, [reply |-> FALSE, for |-> relaying.for])
  /\ relaying' = Quiet
  /\ UNCHANGED <<apiVars, boxVars, clientVars, alive, stable>>

\* send(): on the socket of the moment; lost when there is none or it is not open.
SendRuns ==
  /\ Running /\ outbox # <<>>
  /\ outbox' = Tail(outbox)
  /\ UNCHANGED <<apiVars, boxVars, clientVars, relaying, alive, stable>>

\* ~WsPortalClient: unregisterEventCallback waits for the mutex of the broadcast,
\* then the posted calls go with the object.
Destroy ==
  /\ Running /\ ~stable /\ ~relaying.held
  /\ alive' = FALSE /\ outbox' = <<>>
  /\ SetClient(Stop(Client))
  /\ UNCHANGED <<apiVars, boxVars, relaying, stable>>

Settle ==
  /\ ~stable /\ alive
  /\ stable' = TRUE
  /\ UNCHANGED <<apiVars, boxVars, clientVars, relayVars, alive>>

Next ==
  \/ Login \/ Logout \/ ApiReady \/ ApiDropped \/ PushArrives
  \/ \E p \in Portals : ServerChanges(p)
  \/ \E sel \in Portals \cup {NoneItem} : UserSelects(sel)
  \/ Connected \/ Disconnected
  \/ \E results \in {<<"ok">>, <<"failed", "ok">>}, halt \in BOOLEAN : Request(results, halt)
  \/ \E intent \in Intents : RelayBegins(intent)
  \/ RelayEnds \/ SendRuns
  \/ Destroy \/ Settle

\* The main thread's event loop runs what is due; a settled service accepts the
\* connections it is asked for and sends the pushes it owes; an attempt at no host fails.
Fairness ==
  /\ WF_vars(ApiReady) /\ WF_vars(Connected) /\ WF_vars(SendRuns) /\ WF_vars(RelayEnds)
  /\ WF_vars(PushArrives) /\ WF_vars(peer.host = Nobody /\ Disconnected)

Spec == Init /\ [][Next]_vars /\ Fairness

-----------------------------------------------------------------------------
(* Properties.                                                               *)

TypeOK ==
  /\ linked \in BOOLEAN /\ feed \in {"never", "up", "down"}
  /\ server \in [Portals -> Forms \cup {Nobody}] /\ known \subseteq Portals
  /\ changes \in 0 .. MaxChanges
  /\ inbox \in Seq([portal : Portals, form : Forms \cup {Nobody}, continuous : BOOLEAN])
  /\ wsPortals \in [Portals -> Forms \cup {Nobody}]
  /\ items \subseteq Portals /\ current \in Portals \cup {NoneItem, Nobody}
  /\ wsPortalId \in Portals \cup {Nobody}
  /\ status \in BOOLEAN /\ wsPortal \in Portals \cup {Nobody}
  /\ details \in Forms \cup {Nobody}
  /\ socket \in {"none", "closed", "opening", "open", "null"}
  /\ peer \in [id : Portals \cup {Nobody}, host : Portals \cup {Nobody}]
  /\ label \in {"Unlinked", "Linked", "Retrying"}
  /\ volumeRefs \in Int
  /\ relaying \in [for : Portals \cup {Nobody}, held : BOOLEAN]
  /\ outbox \in Seq([reply : BOOLEAN, for : Portals \cup {Nobody}])
  /\ alive \in BOOLEAN /\ stable \in BOOLEAN

\* However lists, selections, logouts and lost connections interleave, a running client
\* has a socket for the portal of the setting, and a connection only at the host which
\* that portal had when it was opened; an attempt may be at no host, where the list has
\* told of a portal without a facility view.  A stopped client has no socket, and the
\* process ends for want of one only at a portal without facility view (start, stop,
\* open and the two slots of wsPortalsReady).
SocketOfSelection ==
  /\ status => /\ linked /\ wsPortalId # Nobody /\ wsPortal = wsPortalId
               /\ \/ /\ socket \in {"opening", "open"} /\ peer.id = wsPortalId
                     /\ peer.host = wsPortalId \/ (peer.host = Nobody /\ socket = "opening")
                  \/ socket = "null" /\ ~details.hosted
  /\ ~status => socket = "none"

\* The dock says "Linked" exactly while the relay is connected, and "Retrying"
\* only while it tries to (the slots of connected, disconnected, reconnecting).
LabelTruthful ==
  /\ label = "Linked" <=> socket = "open"
  /\ label = "Retrying" => socket = "opening"

\* The answer to a request never goes out to another portal than the one that
\* asked: it is posted, and the selection may change before it is sent (sendMessage).
RepliesToTheirPortal ==
  socket = "open" => \A i \in DOMAIN outbox : outbox[i].reply => outbox[i].for = peer.id

\* What the code says of the event handler: it gives the links the high-volume events
\* that obs-websocket does not broadcast, for which a running client whose portal asks
\* for them has to be counted.
HighVolumeServed == Running /\ status /\ Volume(details) = 1 => volumeRefs > 0

\* Each portal the schema takes for valid can be opened: there is a socket to call.
NoNullClient == socket # "null"

\* The setting outlives the start and every reconnection: it is given up only by the
\* user, a logout, or the removal of the portal, never because the list is still
\* incomplete (blockSignals in onWebSocketDataChanged and the dock's fallback).
SettingKept ==
  [][wsPortalId' # wsPortalId
       => \/ wsPortalId = Nobody \/ ~linked' \/ server[wsPortalId] = Nobody
          \/ \E sel \in items \cup {NoneItem} : UserSelects(sel)]_vars

\* A user who has picked a portal that has a facility view at the service, and logged in,
\* is connected to it in the end, whatever was lost, removed, changed or selected before
\* things settled, and wherever attempts were made before the list was up to date; unless
\* the process has met its end (NoNullClient).
PortalServed ==
  \A p \in Portals :
    (stable /\ linked /\ wsPortalId = p /\ server[p] # Nobody /\ server[p].hosted)
      ~> ((socket = "open" /\ peer.id = p) \/ wsPortalId # p \/ socket = "null")

=============================================================================
