# SRC-Link in TLA+

SRC-Link is an OBS Studio plugin.  A *host* receives video over SRT from *guests*; a server
(control panel, REST API and websocket) brings them together.  A guest's plugin has an **uplink**:
the stage it takes part in, and for each source of the stage a connection to stream to.  A host's
plugin has **downlinks**: OBS sources that listen for a guest's stream.  This directory holds
specifications of the plugin's control logic, the configurations with which TLC checks them, and
proofs checked by TLAPS.  Paths below are relative to the repository (`src/…` is its `src/`
directory).

## Inventory

Nearly everything runs on Qt's main thread: an event handler (timer, network reply, websocket
message, click) runs to completion, and what is hard lies in what happens *between* two handlers of
one conversation.  The exceptions are OBS's audio and graphics threads.

| Component | State | Operations | Talks to | Hard part |
|---|---|---|---|---|
| `RequestSequencer`, `RequestInvoker` (`src/request-invoker.cpp`) | queue of invokers; `finished` connections | `get…customRequest`, `refresh`, replies | O2 (OAuth client), every caller in `ApiClient` | no dispatcher, only a chain of signals; one `refreshFinished` completes all waiting refreshes |
| `EgressLinkOutput` (`src/outputs/egress-link-output.cpp`) | two statuses, OBS objects, settings and their revisions, connection, time of last attempt | monitoring timer, `start`, `stop`, `update`, `setSourceUuid`, `setVisible`, `onUplinkReady` | `ApiClient`, libobs, widget | failures and changes at any point of a state machine of eight statuses |
| `ApiClient` (`src/api-client.cpp`) | account, uplink, downlinks, stages, portals, status counters, used ports, refresh timer | REST calls and their replies, websocket pushes, login/logout, `syncUplinkStatus`, `getFreePort` | sequencer, websocket, outputs, sources, docks | replies and pushes that overtake each other, state of an earlier session |
| `SRCLinkWebSocketClient` (`src/api-websocket.cpp`) | `started`, `reconnectCount`, socket | `start`, `stop`, `subscribe`, messages | server, `ApiClient` | reconnection; stop and start before `disconnected` |
| `IngressLinkSource` (`src/sources/ingress-link-source.cpp`) | request, connection, revision, decoder | settings updates, `putConnection`, `onDownlinkReady`, `onStagesReady`, re-login | `ApiClient`, libobs | PUT and DELETE on different paths, ports, revisions made on both sides |
| audio hand-over (`src/outputs/audio-source.cpp`, `src/sources/audio-capture.cpp`, `SourceAudioThread` in `src/sources/ingress-link-source.cpp`) | a buffer of chunks, a frame count, `active` | push and pop on different threads, creation, stop and destruction | OBS's capture and mixer threads | bounded buffer, activation and destruction during traffic |
| `WsPortalClient`, `WsPortalEventHandler` (`src/ws-portal/`) | socket, portal, subscriptions, a count of links that want high-volume events | `start`, `stop`, `restart`, `onWsPortalsReady`, requests, `sendEvent` | obs-websocket, portal server, `ApiClient`, OBS's threads | a list that changes, a selection that changes, and a socket that drops, in any order; answers and events posted between threads |
| `WsPortalDock` (`src/UI/ws-portal-dock.cpp`) | combobox, setting, status label | a list, a selection, login, logout | `WsPortalClient`, `ApiClient` | two slots of one signal, each reading what the other writes |
| `EgressLinkDock` (`src/UI/egress-link-dock.cpp`) | combobox of participants, connection widgets, picture | lists, selections, uplinks, pictures | `ApiClient`, outputs | four copies of the choice of a receiver |
| `OutputDialog`, connection widget (`src/UI/output-dialog.cpp`, `src/UI/egress-link-connection-widget.cpp`) | a copy of an output's settings, lists of sources | show, edit, accept; source, eye | output, libobs, properties view | three copies of the settings with two layers each, rewritten by callbacks |
| settings store, schema, utils | maps, typed views, pure helpers | – | – | defaults, absent values |
| plugin-main, image renderer | – | registration, drawing | – | – |

What makes each correct:

- **Sequencer.** Requests of one sequencer are on the wire one at a time and in order; none is
  forgotten in the queue, none is sent twice; every one is answered.
- **Output.** The status says what the pipeline is; a wanted output gets on the air, on the
  connection offered last, and an unwanted one gets off it; changes of settings take effect; a
  recording is not cut for nothing; references on OBS sources are balanced.
- **Uplink status.** The counters equal what the outputs are doing, and the server is told.
- **Session.** After any drop, failed call and expired token a session comes up again; a client that
  knows its uplink is subscribed to it and catches up with the server.
- **Downlink.** The server has a downlink exactly for the sources that want one, with the port the
  source holds; no two sources hold a port; the decoder listens with the parameters of the
  connection in force; a destroyed source leaves nothing behind.
- **Audio.** The frame count is the number of frames in the buffer; a block of the mixer is filled
  without a gap; frames come in order, none twice, none left behind.
- **Portals.** A running client serves the portal of the setting; answers go to who asked; the label
  tells the truth; the setting survives an incomplete list.
- **Receiver.** Box and setting come apart by nothing but a code, and the server follows the setting;
  a saved receiver survives an incomplete list; the picture belongs to the selection.
- **Output settings.** No choice of encoder, eye or source is lost by a crash, and the dialog undoes
  none that was made beside it; the encoder keeps the
  limits of the connection.

`PROJECT.json` lists the hazards at their lines and the properties aimed at each.

## Modules

### `SerialRequests`: what a sequencer promises

The abstract queue: requests handed over wait in `pending`, at most one is in `running`, answered
ones are in `served`.  It knows nothing of invokers or signals.  `Safety` is what it may do, `Spec`
adds that every request is answered.

### `RequestInvoker`: how it is done

| Model | Code |
|---|---|
| `requestQueue` | `RequestSequencer::requestQueue` |
| `phase[r]` | created and queued; `createRequestor()->…` or `client->refresh()` called; `finished` emitted and `deleteLater` called |
| `chained[p]` | lambdas connected to `p`'s `finished` by `queue()` |
| `listeners` | invokers connected to the OAuth client's `refreshFinished` |
| `refreshing` | refreshes the OAuth client has not answered |
| `agenda` | the callbacks of the current event that still have to run, as Qt would call them: depth first, in connection order |
| `Submit`, `SubmitRefresh`, `SubmitParallel` | a REST call of `ApiClient`, `refresh()`, a call with a sequencer of its own |
| `Reply`, `RefreshReply`, `RunSlot` | `onRequestorFinished`, the client's `refreshFinished`, `onO2RefreshFinished` |
| `RunInvoke`, `RunHandler` | the lambda made in `queue()`, the caller's handler of `finished` (which may queue more) |
| `RunDangling` | that lambda after its invoker was deleted: it reads freed memory, so it either works as before or kills the process |

Emission is not atomic: between two callbacks a handler may submit new requests, as the code's
handlers do.  `RefreshOverlap` says whether `refresh()` may be called while one is unfinished; the
code allows it (the expiry timer and `onWebSocketAborted`), and setting it `FALSE` shows what holds
as long as it does not happen.

### `EgressOutput`: outputs, their widgets and the uplink's status

One record `out[o]` per source name of the stage holds the members of the output and of what OBS
runs for it.  The rest is the part of `ApiClient` (`activeOutputs`, `standByOutputs`,
`uplinkStatus`, the uplink's `stage` and `offered` connections), the dock's posted deletions
(`leaving`) and the environment (`interlock`, `input`, `unstable`).

| Model | Code |
|---|---|
| `status`, `recording` | `status`, `recordingStatus` |
| `pipe` | which of `source`, `videoEncoder`/`audioEncoder`, `streamingOutput`, `recordingOutput` are not null |
| `net`, `file` | what OBS does with the two outputs: `net = "live"` is `obs_output_active(streamingOutput)` |
| `using`, `dirty` | `activeSourceUuid`, `activeSettingsRev # storedSettingsRev` |
| `age` | time since `connectionAttemptingAt`, in the bands the code compares it with; any band at first, since the member is not initialised |
| `showing` | a ledger of `obs_source_inc_showing` and `dec_showing` calls |
| `Tick` and its disjuncts `Monitor…` | `onMonitoringTimerTimeout`, branch by branch |
| `Start`, `Stop`, `Destroyed`, `Put` | `start()`, `stop()`, `destroyPipeline()`, `setStatus()` |
| `Announce` | the slots of `uplinkReady`: `updateConnections` of the dock and `onUplinkReady` of each output |
| `Destroy` | `~EgressLinkOutput`, by `deleteLater` or `qDeleteAll` |

`setStatus` may be called several times in one handler; the counters only depend on the status
before and after, so `Put` counts those (`Destroyed` to `INACTIVE` and on to `ACTIVATING` is one
`Put`).  In unstable times (`unstable`) any call into OBS may fail, connections and files may be
lost, and OBS may stop the outputs for a change of the scene collection.  `interlock` is the value
of the condition the interlock type selects.  The reduction of revisions to `dirty` is exact:
`storedSettingsRev` only grows and `activeSettingsRev` is only ever set to it.

Abstractions: encoder choice, bitrates, sizes and file names; statistics and screenshots; audio.
The PUT of a status is its effect (`uplinkStatus`, the value last sent).  Connections are an id
and a revision.

### `IngressSource`: sources, their ports, their connections

One record `src[o]` holds the members of an `IngressLinkSource` and what its decoder was last set up
for.  The other variables are the part of `ApiClient` the sources share (`usedPorts`, `downlinks`,
the queue of requests), the websocket, and the server, which is modelled from how the code uses it.

| Model | Code |
|---|---|
| `life` | constructed; `destroyCallback` called (`leaving`); destructor run (`gone`) |
| `wanted`, `relay`, `port`, `asked` | `connRequest`: is a stage, seat and source selected, relay, port, revision |
| `rev`, `connection`, `input` | `revision`, `connection`, the connection `createDecoderSettings` last made an input of |
| `linked`, `token` | is there a refresh token (`CHECK_CLIENT_TOKEN`); was the request on the wire sent with one |
| `queue`, `parallel` | requests of the sequencer about downlinks, the first one on the wire; the DELETE of the destructor, which has a sequencer of its own |
| `up`, `again`, `subs` | is the websocket ready, has it been so since `start()` (`reconnectCount`), downlinks subscribed to |
| `Capture` | `captureSettings` and `putConnection`: give the port back, take another, ask for the connection |
| `Create`, `Update`, `Reactivate` | the three callers of it |
| `RefreshIngress` | the signals `ingressRefreshNeeded` and `licenseChanged`: all sources capture their settings within one event (`refreshing` are those still to do; nothing else happens meanwhile) |
| `Receive` | an answer (`Answered`) or a push (`Pushed`) with all it signals |
| `Serve`, `ServeParallel`, `ServerChanges` | the server |

The stream id is generated anew in every `captureSettings`, so the test "some changes" always
succeeds and the revision always grows there.  Stage, seat and source names are one Boolean, and
`onStagesReady` may find the names of any of the sources or not.  A passphrase is a number the
server makes fresh for every PUT.

Assumptions about what is outside: a connection carries the revision and the port of the PUT that
made it; the server tells subscribers of every change, those made by requests included; sources are
created on the main thread.  `Ordered` says that answers and pushes arrive in the order they were
sent in: the code does nothing to ensure it, and without it a late answer overwrites a newer push
(`src/api-client.cpp:607`, `DecoderPlaysConnection` and `FollowsServer` then fail).  The passing runs
take it as given.

`Dangling` is about undefined behaviour: two lambdas of the constructor outlive the source
(`IngressDangling.cfg`).  `TRUE` lets them run on what is left of the object, one of the outcomes of reading freed
memory; `FALSE` is the program in which nothing comes of them.

`unserved`, `unsent` and `unheard` are history variables for the premises of properties.  `unserved`:
the sources whose last answer was a failure.  `unsent`: the sources that have sent no request since
what they ask for changed, for they were not logged in.  `unheard`: the sources that may have missed a
change, since nobody was subscribed or a message for them was lost with the connection.  The first two
must be told apart: an answer to an earlier request that is still on its way after a logout settles
that request, and not what the source has asked for since.

### `ApiSession`: login, token, websocket

| Model | Code |
|---|---|
| `linked`, `token`, `timer` | `O2::linked`; the access token as the service sees it; `tokenRefreshTimer` is running |
| `calls`, `answer` | the sequencer's queue, its first call on the wire, the answer to it on its way |
| `deletion`, `leaving` | the DELETE of `logout()` or `terminate()`, which goes out beside the queue |
| `started`, `again`, `socket` | `started` and `reconnectCount > 0` of `SRCLinkWebSocketClient`; its connection |
| `subscribed`, `inbox` | the uplink's subscription at the service; pushes on their way |
| `account`, `uplink` | `accountInfo` is not empty; the revision of the client's uplink, 0 when it is empty |
| `LinkedSlot`, `Unlink` | `onO2LinkingSucceeded` with and without a link: one slot for logins, refreshed tokens and unlinks |
| `AccountAnswered`, `OpenAnswered` | the chain of a session: account, PUT of the uplink, `websocket->start()` |
| `SocketReady`, `SocketAborts`, `Reconnect` | `onWebSocketReady`, `onWebSocketAborted`, `onDisconnected` |

The queue of `RequestInvoker` is a sequence here: that it is one, as long as refreshes do not overlap,
is what `ImplementsSerialRequests` shows.  Where they overlap, one `refreshFinished` ends every refresh
in the queue (`RefreshFinished`), and a call that waited behind one of them starts beside the call on
the wire; the model takes calls that are out side by side one after the other, in any order.  The
refresh of O2 that still runs for a refresh already ended is left out here; `RequestInvoker` has it.
`Unlink` only begins to close the connection, which is `closing` until `StoppedCloses`; a session
begun meanwhile may start the client again, which opens a new connection in its place.  `asked` is a history variable.  O2 and the service are external: a call with an expired
token is repeated by O2's requestor (`CallRetries`), and the service aborts the connection of an
expired token.

### `WsPortal`: the relay for obs-websocket

| Model | Code |
|---|---|
| `server`, `wsPortals` | for each portal its form at the service and in the `ApiClient`'s list: the events it asks for, and whether it has a facility view; `Nobody` if there is no such portal |
| `status`, `wsPortal`, `details` | members of `WsPortalClient`; `details` is the form of `wsPortal` |
| `socket`, `peer` | its `QWebSocket`, and what it was opened for: the portal named in the URL and the one whose host it has. `"null"` is `open()` on a null client, the end of the process |
| `items`, `current`, `label` | the dock's combobox and status label |
| `wsPortalId` | the setting `ws_portal.id` |
| `volumeRefs` | the event handler's reference count for high-volume events |
| `known` | history: portals there are or were, so that an id is not used for another one |
| `outbox`, `relaying` | calls of `send` posted to the main thread; an OBS thread inside `sendEvent` |
| `OnPortals`, then `ActiveChanged` | the client's slot for a new list, then the dock's |
| `Start`, `Stop`, `Restart`, `Reopen` | operators on the client's record, since one event may run several of them |
| `Open` | `open()` with `createWsSocket()` and its early return: for a portal without facility view the old socket is opened again at no host, or there is none to open |

### `Receivers`: the choice of a receiver

`current` is what the combobox shows, `participantId` the setting, `calls` the PUTs and codes in the
sequencer, `granted` what the service has made of them.  `Selected` and `ActiveChanged` are the dock's
two slots; `RedeemAnswered` is the redeemed code, which changes the setting from outside the dock.
Nothing hinders a selection while a code is under way, nor a code while a receiver is selected (the
button is hidden while the uplink has a stage, but the dialog may be open when it gets one), so the
model has no such guard either.  A code makes one participant or none (`Made`).  Pictures (`pictureId`, `picture`, `pictures`) are
downloads that end in any order.

### `OutputSettings`: an output's settings

`live`, `file` and `dialog` are the output's `obs_data`, its file and the dialog's copy, each with
values and defaults (`Get`, `Apply` and `Over` say what libobs does with the two layers).
`EncoderChanged` is the callback of the encoder property, and `Reloaded` all callbacks, which run on
the output's own settings whenever the dialog is shown or a source comes or goes.  `Recreate` is the
end of OBS, in whatever way, and the next start from the file.  When an output starts and stops is
the matter of `EgressOutput`; here `Start` may come at any time.

### `AudioHandover`: one buffer, two threads

A frame is its number, a chunk an interval of them and an offset.  `PushBegins`/`PushEnds` are the
two halves of the capture callback (the test of `active` is made before the mutex is taken);
`ThreadPops` is a turn of `SourceAudioThread`, `PullBegins`/`PullChunk` are `popAudio`, which holds
the mutex throughout.  `stage` and `thread` are the life of the object: `active` has any value at
first, since no constructor sets it.

### `MC…` modules, `…_proofs`

Each `MC…` module adds the values and symmetry sets of the instances; each `…_proofs` module holds
the theorems about the module it is named after.

## Runs

| Run | Bounds | Question |
|---|---|---|
| `requests_serial` | 3 requests, 2 refreshes that do not overlap, 1 parallel | does the chain implement `SerialRequests`, liveness included? |
| `requests_overlap` | 3 requests, 2 refreshes | what is left when refreshes overlap? |
| `refresh_breaks_sequence` | same | violation: requests are not sequential any more |
| `egress_pipeline` | 1 output, 1 connection id, all sources, recording or not, logouts | do status, pipeline, references and counters agree? is a recording cut for a reason only? |
| `egress_streams` | 1 output, 2 connection ids with 2 revisions | does it stream when it may, on the connection offered? is the server told? |
| `ingress_ports` | 2 sources, ranges of 1 and 2 ports, always selected, logged in, no failures | has each port one holder? are as many ports as sources enough? do two decoders ever listen to one port? |
| `ingress_decoder` | 1 source, 2 revisions, 2 requests and 3 messages under way, failures, logouts | do source and decoder follow the server? |
| `session` | 3 revisions, 2 calls, 2 faults, every call may fail but the PUT of the status | is a known uplink subscribed to and up to date? does the session come up again? is an expired token renewed? |
| `portal_relay` | 2 portals with or without a facility view, 2 changes, 1 posted message | does the relay serve the portal of the setting, answer who asked, and get there in the end? |
| `receivers` | 2 participants, 1 change, 2 calls, 2 faults | do box and setting come apart by a code only? does the server follow the setting? is a saved receiver kept? |
| `output_settings` | 2 encoders, 1 source, 2 edits, 2 connections or revisions, 1 change of sources, 1 restart | is a choice of encoder, eye or source lost or undone, or the bitrate outside the limits? |
| `audio` | a buffer of 5 frames, blocks of 2, chunks of 1 and 3, 10 frames | is the count the content, and the block without a gap? is everything handed over? |

**Why these bounds are enough.** A queued invoker only knows its predecessor, so three requests give
every neighbourhood: one on the wire, one waiting, one queued by a handler in between; two refreshes
are the two triggers the code has. An output only interacts with others through two integer counters
and the stage, so everything else about it is explored with one; that the counters are exact, and
the server told, with any number of outputs is proved. Two connection ids with two revisions tell a
replaced connection from a revised one. A source interacts with the server through its own
connection alone, so `ingress_decoder` has one source and everything the network can do; sources
interact through ports and the queue, so `ingress_ports` has two of them, and at times a single
port, and leaves failures out. That ports are exact and enough for any number of sources and any
ranges is proved. `MaxRevision` bounds changes of settings, `MaxQueue` requests waiting, `MaxInbox`
what the server sends ahead (an answer comes on top of it): a PUT, the push it causes and one change
more cover the crossings of a request with news, since a longer queue only repeats them.
`MaxShowing` bounds the changes a user makes only in that no further change is made while the ledger
has leaked that much (the leak is a divergence below; without the bound the ledger grows
for ever).

In `session`, three revisions tell a stale answer from a stale push and from the state before both;
two calls let one wait behind another, and a drop together with an expiry are the two faults that
interact. In `portal_relay` two portals are the one served and another one, and one posted message
is enough for a selection to change under it; two changes make a portal that loses its facility view
and gets it back, or one made after another has gone. In `receivers` the two participants are the
chosen one and the one that is chosen next, or the one shown and the one that a code adds; with one
change beside the codes either of them ends (what is true with more of them is proved). In `output_settings` the
two encoders are one with a preset and one without, one restart follows any state the edits reach,
and the entered bitrate (4) is above one pair of limits and within the other, the default (3)
within both, the preset's (2) below one of them. In
`audio` the sizes have no common divisor, a chunk spans a block and blocks span chunks, and ten
frames overflow the buffer; the same facts are proved for any sizes.

**Premises of the runs.** `session` takes the service to order answers and pushes (`Ordered`),
nothing to happen between a logout and its unlink (`CalmLogout`), and the PUT of the status that
follows a reconnection to be answered (its reply is the only news nobody asks for again).
"Divergences" says what happens without these. `portal_relay` and `receivers` restrict neither the
user nor the service; that ids of portals and participants are not used again is a fact about the
service's database. In `portal_relay` all portals ask for the same events, which its properties do
not look at; `PortalVolume.cfg` is about those.

**Fairness.**  `RequestInvoker`: each request is answered, since O2's requestor gives up after
`DEFAULT_TIMEOUT_MSECS` (`src/request-invoker.hpp:28`), and a running event handler goes on (weak
fairness of `Reply`, `RefreshReply`, `RunCallback`).  `EgressOutput`: the monitoring timer keeps
firing and posted deletions are carried out (weak fairness, Qt's event loop); a connection that is
tried again and again comes up in the end (strong fairness of `Connected`, since each restart
interrupts the attempt before).  Nothing is assumed of the user, the server, or of OBS in unstable
times: the liveness properties have what they need as premises (`<>[]`).
`ApiSession`, `WsPortal` and `Receivers`: weak fairness of what the event loop runs and of answers
to calls and connections (each call has a timeout; a client that is started opens a new socket at
once), and an action `Settle`, after which nothing fails, expires, or is clicked: the liveness
properties speak of settled states, since the code promises nothing to a user whose network never
holds.  `AudioHandover`: threads are scheduled and destructors go through (weak fairness), captures
and stops are not forced.

## Findings

One disagreement between code and comment is a run of its own, `refresh_breaks_sequence`:
`src/request-invoker.cpp:174`.  All invokers of `refresh()` listen to the same `refreshFinished`, so
the first reply also finishes the ones that are still waiting; the request chained behind them
starts beside the one on the wire.  Their own turn comes when they are deleted already
(`RunDangling`).

## Divergences kept beside the runs

The following are also behaviour of the code that somebody would not expect.  Each has a
configuration of its own, which TLC is expected to refuse; they are kept as regression checks for
the day the code is changed, and are not among the runs of `PROJECT.json`.

| Configuration (module) | Property refused | What happens |
|---|---|---|
| `EgressReleases.cfg` (`MCEgressOutput`) | `ReferencesReleased` | A change of settings takes a streaming output through `CHANGING`, in which `destroyPipeline` (`src/outputs/egress-link-output.cpp:1288`) neither gives back the reference taken by `startStreaming` nor calls `obs_output_stop`. |
| `EgressLogout.cfg` (`MCEgressOutput`) | `StatusReported` | `uplinkStatus` outlives the session, because `syncUplinkStatus` does nothing while the uplink is empty (`src/api-client.cpp:335`); the next `putUplink` sends it. |
| `EgressAlwaysOff.cfg` (`MCEgressOutput`) | `RecordingStops` | An output in status `ERROR` is never stopped by the interlock (`src/outputs/egress-link-output.cpp:1421`), and its recording may be running. |
| `IngressDangling.cfg` (`MCIngressSource`) | `EnoughPorts` | The lambdas for `licenseChanged` and `ingressRefreshNeeded` (`src/sources/ingress-link-source.cpp:104`) have no context object, so they run for sources that were destroyed. `EgressLinkOutput` does it right (`src/outputs/egress-link-output.cpp:153`). |
| `IngressLogout.cfg` (`MCIngressSource`) | `Unregistered` | A late answer makes a logged-out source believe that it is connected; `onLoginSucceeded` (line 714) then skips it, and a selection taken back meanwhile stays registered. |
| `SessionRelogin.cfg` (`MCApiSession`) | `FirstTimeAfterLogin` | A call of the session before is answered after the unlink and makes the account known again; the next login takes itself for a refreshed token (`src/api-client.cpp:988`) and begins no chain: no PUT, no websocket. |
| `ReceiverActivated.cfg` (`MCReceivers`) | `ActivatedIsCurrent` | "Change current participant to activated one" (`src/api-client.cpp:861`) changes the setting only: the box keeps a receiver that was selected before the code's answer came (`src/UI/egress-link-dock.cpp:192`).  From then on the dock shows one receiver and the uplink goes to another; and when the one shown ends, the box falls back to "none" and erases the setting, although its receiver still exists. |
| `PortalVolume.cfg` (`MCWsPortal`) | `HighVolumeServed` | The event handler made for the high-volume events that obs-websocket does not broadcast (`src/ws-portal/ws-portal-client.cpp:72`) counts by what a portal says when it is started and stopped, but the portal of a running client is replaced by every push (line 210).  One that comes to ask for these events while it is served gets none, and leaves the count off by one after the next stop (line 183). |
| `PortalHostless.cfg` (`MCWsPortal`) | `NoNullClient` | A portal without a facility view is valid (`src/schema.hpp:1447`).  `createWsSocket` logs it and returns (`src/ws-portal/ws-portal-client.cpp:90`), `open()` goes on (line 146): with a null client if this is the first start, or with the old socket, once more, at a URL without a host. |
| `OutputPresets.cfg` (`MCOutputSettings`) | `EnteredKept` | The encoder's callback loads the low-latency preset into the settings it is given (`src/outputs/egress-link-output.cpp:370`), and the dialog's reload gives it the output's own (`src/UI/output-dialog.cpp:42`): whenever the dialog is shown, or a source comes or goes, a bitrate the user has entered is replaced by the preset's, without being saved. |

Changing a constant of a passing run shows more: `Ordered = FALSE` (a late answer overwrites a newer
push, in `session` and `ingress_decoder`).

## Proofs

A theorem holds for every value of the constants that satisfies its hypotheses and the named
assumptions of its module (finite sets of outputs and sources, numbers that are numbers, kinds of
invokers that are disjoint).  The bounds of the runs are constants too, so they bound nothing here.
The hypotheses are the premises of the runs, each for a reason the code gives:

| Hypothesis | Used by | Without it |
|---|---|---|
| `~ RefreshOverlap` | `RequestsAreSequential`, `ChainIsSerialQueue` | false: finding `refresh_breaks_sequence` |
| no logouts (`~ Logouts` of `EgressOutput`) | `UplinkStatusIsReported` | false: `EgressLogout.cfg` |
| `~ Dangling` | `PortsAreExact`, `SourcesGetPorts` (and `DecodersStayApart`, which rests on the first) | false: `IngressDangling.cfg` |
| `Ordered` | `DecodersPlay`, `ServerFollowed` | false: a late answer overwrites a newer push |
| `Ordered` and `~ Logouts` of `IngressSource` | `DecodersStayApart` | not known: TLC found no violation in the small instances it went through, but the argument needs that requests are carried out and heard of in the order of the captures |

None of the invariants below is inductive by itself.  For each the
strengthening was first checked by TLC on the run of its component.

`RequestInvoker_proofs` (any sets of requests): `TypeCorrect`, `QueueExact` (the queue is exactly the
unfinished requests), `NoWakeupIsLost`, `RequestsAreSequential`, `RequestsGoOutOnce` and
`ChainIsSerialQueue`.  `IInv` says: the queue has no duplicates and is the set of unfinished
sequential requests; the lambda of a waiting request is connected to exactly the invoker in front of
it, or is on the agenda; an agenda consists of a handler or slots followed by lambdas; slots only
occur for listeners.  For sequentiality the overlap is excluded, which makes `listeners` a sequence of
at most one, so a slot finishes the head of the queue and nothing else (`SInv`).  That no request goes
out twice holds with overlaps too: `OInv` follows the lambda of a request, which is connected to at
most one invoker or on the agenda once, and is on it only when the invoker it waited for has emitted.
`ChainIsSerialQueue` is the safety part of the refinement of `SerialRequests`: under the mapping
`pending`, `running`, `served` every action is a step of the abstract queue or none.

`EgressOutput_proofs` (any finite set of outputs): `OutputTypes` (`TypeOK`), `CountersAreExact`
(`CountersExact`) and, if nobody logs out, `UplinkStatusIsReported` (`StatusReported`).  The counters
are cardinalities of sets that one step changes in at most one element; the lemma `CountChanges` says
what that does to a cardinality and is used by every action through `Put`.  `StatusTellsPipeline`
(`StatusMeansPipeline`), `ReferencesBalanced` (`NeverOverReleased`) and `RecordingsAreKept`
(`RecordingCutForAReason`) rest on one invariant, `Coherent` of each output: beside the pipeline it
knows that the ledger of references is at least what the output holds (it may be more: the leak of
`EgressReleases.cfg`), and that an output that stands by uses the source of its settings, unless these
have changed.  There is a lemma for each operation (`Start`, `Stop`, `Destroyed`, the branches of
`Tick`), stated for a record, so that other outputs need no argument.

`IngressSource_proofs` (any finite set of sources, any finite ranges, any number of requests and
messages under way, failures, drops, logouts and the server's own changes):

- `PortsAreExact` (`PortsExact`) and `SourcesGetPorts` (`EnoughPorts`), under `~ Dangling`.
  `PortsExact` becomes inductive with `Shape`: a source that is not present has no port, and only
  sources that are present are refreshed.  All but three kinds of steps leave the ports alone
  (`SamePorts`); for `captureSettings` the lemma `KeptAreOthers` says that what is left of `usedPorts`
  after the release is exactly what the other sources hold.  `SourcesGetPorts` then counts: the other
  sources hold fewer ports than there are sources, so the range has one left.
- `TypeCorrect` (`TypeOK`), with `Wire`: at most one answer is under way, it answers the first request
  of the queue, and carries the port that one asked for.
- `DecodersPlay` (`DecoderPlaysConnection`), under `Ordered`.  The decoder is left alone if the
  revision has not grown and the passphrase is the same.  `Trail` says why that is enough: along the
  way from server to source each connection is the one before it or a later one, so what is not newer
  by revision or passphrase is the same.
- `ServerFollowed` (`FollowsServer`), under `Ordered`.  `Asked`: the last request under way about a
  source asks for its selection at its port; if there is none, the server has carried that request
  out, unless it was not served.  `Fresh`: nothing is known of a source that is being made.  `Hears`:
  the last message under way for a source tells what the server has, and if there is none the source
  has it.
- `DecodersStayApart` (`DecodersApart`), under `Ordered`, `~ Logouts` and `~ Dangling`.  What a source
  may come to listen at are the ports of its connection, of the server's record and of the messages for
  it (`Holds`).  `Claims` follows a port that changes hands: if p holds the port that o asks for or has
  got, p has asked for another one before o asked (`AsksAfter`, `GetsAfter`), so p hears of its new
  port first; two sources that both have been served hold different ports (`HoldApart`), and a source's
  last request is for the port it has (`HoldsOwn`).  `Answering` says that an answer brings no port but
  the one asked for, `Tuned` that the decoder listens at the port of the connection.  Since the ports of
  two sources differ (`PortsExact`), so do those of two that have heard of theirs.

`AudioHandover_proofs` proves, for chunks, blocks and a buffer of any size: `HandoverTypes`
(`TypeOK`), `BufferCount` (`CountExact`), `BlocksAreFilled` (`BlockUnbroken`) and `FramesInOrder` (no
frame is handed over twice or out of order).  The invariant is the description of the buffer as a
stream (`Stream`): a push and the two kinds of pops are lemmas about streams, and what ties them to
the threads (`Lives`) is that a block is being filled only while the mixer may hold the mutex.

`ApiSession_proofs` proves `SessionTypes` (`TypeOK`) and `KnownUplinkIsSubscribed`
(`SubscribedWhenKnown`), for any bounds, any calls that fail and any order of answers and pushes.  The
strengthening `Orderly` says that a ready connection is subscribed unless the plugin terminates, that
a DELETE is under way only for a reason, and that a connection exists only for a started client or is
closing, so that an unlink ends it.  `RefreshFinishedType`: the order the calls are taken in after an
overlap is one of the calls of the queue.

`WsPortal_proofs` (any finite set of portals, any forms they may take): `ServesTheSetting`
(`SocketOfSelection`) and `LabelTellsTruth` (`LabelTruthful`), with portals made, changed and removed at
any time.  `IInv` says what list, box and setting know of each other: with a list in the box the
setting is the portal selected, and a running client serves it (`Serves`: by a socket for it, at its
host once it is connected, or not any more, for want of a facility view); lemmas about the client's
record (`StopClient`, `OpenClient`, `StartClient`, `RestartClient`…) carry it through the events that
run several operations.  `RepliesFindTheirPortal` (`RepliesToTheirPortal`) adds `Posted`: what waits for
the main thread is for the portal of the socket, since no socket opens before all that was posted is
sent or lost.  `SettingSurvives` (`SettingKept`) adds `History`: every portal that the service, the list,
a push or the setting names is one there is or was, so that none comes back that has ended; and
`Complete`: the portal of the setting is in
the list, or still among the pushes of a list that has not been signalled, as long as the service has
it.

`Receivers_proofs` (any finite set of participants): `ReceiversTypes` (`TypeOK`),
`LatePicturesIgnored` (`PictureMatches`), `BoxShowsSetting` (`ShownIsSetting`) and `ReceiverSurvives`
(`ReceiverKept`), with selections, lists and codes in any order.  `StepResult` says what an event makes
of box, setting and picture, whichever slots it runs: the lemmas `…Result` show it for each action, and
the box and the label follow from it.  For the receiver, `Covered` says that the saved one is in the
list, or still among the pushes of a list that has not been signalled, as long as it is known to the
service; `News` that a removal pushed is final, `Redeemed` that what a code made is known.

`OutputSettings_proofs` (any encoders, presets, bitrates, limits and sources): `BitrateWithinLimits`
(`WithinLimits`), where the invariant is that every layer of every copy that has a bitrate has a number
there; `ChoicesSurvive` (`ChoicesDurable`) and `ControlsSurvive` (`ControlsKept`).  For these
`FileAgrees` says that the file has what the output's own settings have, whoever changed them last, and
`DialogAgrees` that an open dialog's copy agrees in what has a control beside it; `Shape` keeps the
layers apart: a default of the source would hide a loss.

What the proofs changed.  Four things that TLC had accepted within its bounds were not true beyond
them:

- `FollowsServer` and its relatives had one history variable for two things, `unserved` and `unsent`;
  with three requests waiting and a logout an old answer settled what had not been asked for.
- `unheard` did not have the sources whose messages are lost with a connection while nobody was
  subscribed to them (three messages under way).
- In `Receivers` the service (external) let a participant that was made by a code, and had ended
  before the code was answered, come back; ids are not reused (`Spent`).  `ReceiverKept` failed for
  two changes.
- `ControlsKept` excused a source that is missing; it need not be excused, so the property is
  stronger now.

Only model-checked: all liveness properties, and with them the fairness part of the refinement of
`SerialRequests` (the prover has no ENABLED).

## Plan

What is left, in order:

1. Proofs: what a settled state looks like, as the safety part of `PortalServed`,
   `ServerFollowsSetting` and `SessionRecovers` (when nothing is under way, the goal is reached).
2. `IngressSource` over an abstract port allocator (refinement); liveness of a source that wants a
   connection, under the server's and the event loop's fairness.
3. A host and a guest together: `IngressSource` and `EgressOutput` with one server, where the
   revision of a connection is made on both sides.
4. `ApiSession` with two clients of its signals, to see what an output or a source notices of a
   session that comes up again.

## Not modelled

- **User interface**: layout, icons, texts, the dock's guidance with its errors and the stage it shows,
  the account's picture and name, the addresses shown of a portal; the widgets of the properties view (copied from OBS) beyond the fact that a control writes
  to the view's settings and calls the property's callback; the Qt wrappers.
- **Data**: the JSON schema (validity of an answer is whether it fails), names of stages and seats,
  encoder settings but the bitrate, file names, SRT addresses, passphrases.
- **Media**: rendering, image renderer, samples and timestamps.  The capture's framing assumes that
  each channel of a chunk has a plane: for a missing one `pushAudio` writes nothing while the readers
  count a plane (`src/sources/audio-capture.cpp`), which the intervals of `AudioHandover` do not
  show.
- **Arithmetic of the refresh timer** (`src/api-client.cpp:245`): its interval wraps, so the model
  lets the timer fire at any moment, and a token expire before it does.
- **OBS, O2, Qt, obs-websocket and the service** are modelled from how the code uses them.
- Registration with OBS, build, packaging, the configuration of the media server: no behaviour of
  the plugin.
- How many calls O2 has under way for one refresh, and threads inside O2 and Qt.
