---------------------------- MODULE EgressOutput ----------------------------
(***************************************************************************)
(* EgressLinkOutput (src/src/outputs/egress-link-output.cpp): the guest's  *)
(* side of a link.  Every output encodes one local source and streams it   *)
(* to the connection the server offers for it, records it, or stands by.   *)
(* A monitoring timer drives each output; the outputs share the ApiClient, *)
(* which counts them to tell the server the status of the uplink.          *)
(*                                                                         *)
(* Everything runs on Qt's main thread, so an event handler is one step.   *)
(* OBS itself (does an output start, stay up, get through to its server),  *)
(* the user and the server are the environment.                            *)
(***************************************************************************)
EXTENDS Integers, FiniteSets

CONSTANTS
  Outputs,           \* names of the stage's sources, one output each
  Ids,               \* ids of the connections the server may offer
  MaxRevision,       \* bound on the revisions of a connection
  SourceChoices,     \* sources the user may select
  RecordingChoices,  \* values of the `recording' setting
  MaxShowing,        \* bound on the ledger `showing', for the user's changes
  Logouts            \* may the user log out?

ASSUME BoundsAreNatural == MaxRevision \in Nat \ {0} /\ MaxShowing \in Nat
ASSUME OutputsAreFinite == IsFiniteSet(Outputs)
ASSUME ChoicesAreLegal ==
  /\ SourceChoices \subseteq {"none", "program", "input"}
  /\ RecordingChoices \subseteq BOOLEAN
  /\ Logouts \in BOOLEAN

VARIABLES
  out,             \* the members of each EgressLinkOutput, and what OBS holds for it
  activeOutputs,   \* ApiClient: outputs being activated, active or reconnecting
  standByOutputs,  \* ApiClient: outputs standing by
  uplinkStatus,    \* ApiClient: the status last sent to the server
  uplink,          \* ApiClient: is the uplink known?
  stage,           \* outputs the uplink's stage asks for
  offered,         \* the uplink's connection for each output
  latest,          \* revision the server has reached for each connection id
  silenced,        \* has the uplink changed with signals blocked, and more is to come?
  leaving,         \* outputs whose deletion is posted, or under way
  interlock,       \* does the interlock ask the outputs to run?
  input,           \* the state of the local OBS source
  unstable         \* may OBS or the network fail, or OBS stop the outputs?

api  == <<activeOutputs, standByOutputs, uplinkStatus>>
srv  == <<uplink, stage, offered, latest, silenced, leaving>>
env  == <<interlock, input, unstable>>
vars == <<out, api, srv, env>>

Statuses == {"INACTIVE", "STAND_BY", "ACTIVATING", "ACTIVE", "ERROR", "DISABLED",
             "RECONNECTING", "CHANGING"}
RecordingStatuses == {"INACTIVE", "ACTIVATING", "ACTIVE", "ERROR"}

NoId         == "no id"
NoConnection == [id |-> NoId, rev |-> 0]
Connections  == [id : Ids, rev : 1 .. MaxRevision] \cup {NoConnection}

\* How long ago connectionAttemptingAt was, as a tick of the monitoring timer
\* finds it: from StartDelay on more than OUTPUT_START_DELAY_MSECS, at RetryDelay
\* more than OUTPUT_RETRY_TIMEOUT_MSECS.  The member is not initialised.
StartDelay == 2
RetryDelay == 3
Ages == 0 .. RetryDelay
Output == [
  exists    : BOOLEAN,
  status    : Statuses,
  recording : RecordingStatuses,
  pipe      : SUBSET {"source", "encoders", "streaming", "recording"},
  net       : {"off", "connecting", "live"},  \* what OBS does with streamingOutput
  file      : BOOLEAN,                        \* is recordingOutput active in OBS?
  connection : Connections,
  src       : {"none", "program", "input"},   \* setting source_uuid
  visible   : BOOLEAN,                        \* setting
  record    : BOOLEAN,                        \* setting `recording'
  using     : {"none", "program", "input"},   \* activeSourceUuid
  dirty     : BOOLEAN,                        \* activeSettingsRev # storedSettingsRev
  age       : Ages,
  showing   : Int ]                           \* inc_showing minus dec_showing calls

Num(b) == IF b THEN 1 ELSE 0

\* What a call into OBS may return: it fails only in unstable times.
Outcomes == IF unstable THEN BOOLEAN ELSE {TRUE}

\* References to the source the members account for.
Held(s) ==
  IF "source" \notin s.pipe THEN 0
  ELSE 1 + Num(s.recording = "ACTIVE") + Num(s.status \in {"ACTIVE", "RECONNECTING"})

CountsStandBy(st) == st = "STAND_BY"

-----------------------------------------------------------------------------
\* Mutants of the operations below.

\* setStatus does not give up the count of a reconnecting output.
LeavesActiveNotReconnecting(st) == st \in {"ACTIVATING", "ACTIVE"}

\* destroyPipeline takes the recording's reference off whatever its status.
ReleasesUnguarded(s) ==
  IF "source" \notin s.pipe THEN 0
  ELSE 1 + Num("recording" \in s.pipe) + Num(s.status \in {"ACTIVE", "RECONNECTING"})

\* The pipeline is rebuilt by every poll for a connection.
ReconstructAlways(s, c) == TRUE

\* The pipeline is kept when only the settings have changed.
ReconstructIgnoresSettings(s, c) ==
  \/ c = NoConnection /\ s.status # "STAND_BY"
  \/ c # NoConnection /\ s.status # "ACTIVE"

\* The eye icon is not looked at.
EnabledIgnoresEye(s) == s.src # "none"

\* The poll of the connection is gone.
MonitorStandByIdles(o, s) ==
  /\ s.status = "STAND_BY" /\ s.recording # "ACTIVATING" /\ s.age = RetryDelay /\ interlock
  /\ out' = [out EXCEPT ![o] = s] /\ UNCHANGED api

\* destroyPipeline leaves the recording's status.
DestroyedKeepsRecording(s, st) ==
  [s EXCEPT !.status = st, !.pipe = {}, !.net = "off", !.file = FALSE, !.using = "none", !.showing = 0]

\* stop() does not sync the uplink's status.
StopUnsynced(o, s) ==
  /\ out' = [out EXCEPT ![o] = [s EXCEPT !.status = "INACTIVE", !.recording = "INACTIVE", !.pipe = {},
                                         !.net = "off", !.file = FALSE, !.using = "none"]]
  /\ activeOutputs' = activeOutputs - Num(out[o].status \in {"ACTIVATING", "ACTIVE", "RECONNECTING"})
  /\ standByOutputs' = standByOutputs - Num(out[o].status = "STAND_BY")
  /\ UNCHANGED uplinkStatus

\* uplinkReady is compared by id alone.
SeesUplinkById(s, c) ==
  IF s.connection.id # c.id THEN [s EXCEPT !.connection = c, !.dirty = TRUE] ELSE s

-----------------------------------------------------------------------------

\* A tick may come late, when the main thread is busy with other things.
Later(age) == IF age = RetryDelay THEN {age} ELSE age + 1 .. RetryDelay

\* setStatus: which counter a status takes off when left, and puts on when entered.
LeavesActive(st)  == st \in {"ACTIVATING", "ACTIVE", "RECONNECTING"}
EntersActive(st)  == st \in {"ACTIVATING", "ACTIVE", "RECONNECTING"}

\* The members of output o become t; the statuses it went through add up.
Put(o, t) ==
  /\ out' = [out EXCEPT ![o] = t]
  /\ activeOutputs' = activeOutputs - Num(LeavesActive(out[o].status)) + Num(EntersActive(t.status))
  /\ standByOutputs' = standByOutputs - Num(CountsStandBy(out[o].status)) + Num(CountsStandBy(t.status))

\* syncUplinkStatus, called when a handler is done with its output.
StatusOf(a, b) == IF a > 0 THEN "active" ELSE IF b > 0 THEN "standby" ELSE "inactive"
Synced == uplinkStatus' = IF uplink THEN StatusOf(activeOutputs', standByOutputs') ELSE uplinkStatus

\* destroyPipeline: what is taken off the source, and what is left.
Releases(s) ==
  IF "source" \notin s.pipe THEN 0
  ELSE 1 + Num("recording" \in s.pipe /\ s.recording = "ACTIVE")
         + Num("streaming" \in s.pipe /\ s.status \in {"ACTIVE", "RECONNECTING"})
Destroyed(s, st) ==
  [s EXCEPT !.status = st, !.recording = "INACTIVE", !.pipe = {}, !.net = "off", !.file = FALSE,
            !.using = "none", !.showing = @ - Releases(s)]

\* updateSourceList of the connection widget, which keeps the selected source
\* if OBS still has it and selects "None" otherwise.
SourceListed(s) ==
  IF s.src = "input" /\ input = "gone" THEN [s EXCEPT !.src = "none", !.dirty = TRUE] ELSE s

\* setStatus(ERROR): the widget reacts to it.
Failed(s) == SourceListed([s EXCEPT !.status = "ERROR"])

\* stop()
Stop(o, s) == Put(o, Destroyed(s, "INACTIVE")) /\ Synced

-----------------------------------------------------------------------------
\* start(): one disjunct per way out of it.

Enabled(s) == s.src # "none" /\ s.visible

\* goStandBy, goActive, another source or other settings.
Reconstruct(s, c) ==
  \/ c = NoConnection /\ s.status # "STAND_BY"
  \/ c # NoConnection /\ s.status # "ACTIVE"
  \/ s.src # s.using
  \/ s.dirty

SourceFails(s, c) == Reconstruct(s, c) /\ s.src = "input" /\ input # "ok"

\* retrieveConnection, and destroyPipeline and createSource if called for.
Prepared(s, c) ==
  IF ~ Reconstruct(s, c) THEN [s EXCEPT !.connection = c]
  ELSE [Destroyed(s, IF c = NoConnection THEN "STAND_BY" ELSE "INACTIVE") EXCEPT
          !.connection = c,
          !.using = s.src,
          !.dirty = FALSE,
          !.pipe = IF s.src = "input" THEN {"source"} ELSE {},
          !.showing = @ + Num(s.src = "input")]

\* createStreamingOutput and createRecordingOutput, then the statuses.
Built(s, c, streams, records) ==
  LET p == Prepared(s, c)
      pipe == p.pipe \cup {"encoders"} \cup (IF c # NoConnection /\ streams THEN {"streaming"} ELSE {})
                     \cup (IF s.record /\ records THEN {"recording"} ELSE {})
      q == [p EXCEPT !.pipe = pipe,
              !.recording = IF Reconstruct(s, c) /\ "recording" \in pipe THEN "ACTIVATING"
                            ELSE IF s.record /\ "recording" \notin pipe THEN "ERROR" ELSE @]
  IN IF c # NoConnection /\ "streaming" \notin pipe THEN Failed(q)
     ELSE IF Reconstruct(s, c) /\ "streaming" \in pipe THEN [q EXCEPT !.status = "ACTIVATING", !.age = 0]
     ELSE q

Start(o, s) ==
  LET c == offered[o] IN
  /\ \/ ~ Enabled(s) /\ Put(o, Destroyed(s, "DISABLED"))
     \/ Enabled(s) /\ SourceFails(s, c) /\ Put(o, Failed([Destroyed(s, "INACTIVE") EXCEPT !.connection = c]))
     \/ /\ Enabled(s) /\ ~ SourceFails(s, c)
        /\ \/ c = NoConnection /\ ~ s.record /\ Put(o, Prepared(s, c))
           \* no video, unknown protocol, no encoder
           \/ (c # NoConnection \/ s.record) /\ unstable /\ Put(o, Failed(Prepared(s, c)))
           \/ /\ (c # NoConnection \/ s.record)
              /\ \E streams, records \in Outcomes :
                   Put(o, Built(s, c, streams, records))
  /\ Synced

-----------------------------------------------------------------------------
\* onMonitoringTimerTimeout: one disjunct per branch, in the code's order.  The
\* tick finds the members s (out[o], StartDelay and RetryDelay seen from now).

Activating(s) == s.status = "ACTIVATING" \/ s.recording = "ACTIVATING"
Inactive(s)   == s.status \notin {"ACTIVE", "STAND_BY", "RECONNECTING"}

MonitorChanging(o, s) == s.status = "CHANGING" /\ Start(o, s)

\* startStreaming: obs_output_start succeeds or not.
StreamingStarted(s, ok) ==
  IF s.status # "ACTIVATING" THEN s
  ELSE IF ok THEN [s EXCEPT !.status = "ACTIVE", !.net = "connecting", !.age = 0,
                            !.showing = @ + Num("source" \in s.pipe)]
  ELSE Failed([s EXCEPT !.age = 0])

\* startRecording
RecordingStarted(s, ok) ==
  IF s.recording # "ACTIVATING" THEN s
  ELSE IF ok THEN [s EXCEPT !.recording = "ACTIVE", !.file = TRUE, !.showing = @ + Num("source" \in s.pipe)]
  ELSE [s EXCEPT !.recording = "ERROR"]

MonitorActivating(o, s) ==
  /\ s.status # "CHANGING" /\ Activating(s)
  /\ \/ s.age < StartDelay /\ Put(o, s) /\ UNCHANGED uplinkStatus
     \/ /\ s.age >= StartDelay
        /\ \E streams, records \in Outcomes :
             Put(o, RecordingStarted(StreamingStarted(s, streams), records))
        /\ IF s.status = "ACTIVATING" THEN Synced ELSE UNCHANGED uplinkStatus

MonitorInactive(o, s) ==
  /\ s.status # "CHANGING" /\ ~ Activating(s) /\ Inactive(s)
  /\ IF interlock THEN Start(o, s) ELSE Put(o, s) /\ UNCHANGED uplinkStatus

Running(s) == ~ Activating(s) /\ ~ Inactive(s)

MonitorWaiting(o, s) == Running(s) /\ s.age < RetryDelay /\ Put(o, s) /\ UNCHANGED uplinkStatus

MonitorInterlock(o, s) == Running(s) /\ s.age = RetryDelay /\ ~ interlock /\ Stop(o, s)

\* "Periodic check the uplink connection is available and activate"
MonitorStandBy(o, s) ==
  Running(s) /\ s.age = RetryDelay /\ interlock /\ s.status = "STAND_BY" /\ Start(o, s)

Streaming(s) == Running(s) /\ s.age = RetryDelay /\ interlock /\ s.status # "STAND_BY"

\* "Do it next turn to avoid crashing"; obs_output_reconnecting is never true,
\* the outputs are created with OUTPUT_MAX_RETRIES 0.
MonitorSettings(o, s) ==
  Streaming(s) /\ s.dirty /\ Put(o, [s EXCEPT !.status = "CHANGING"]) /\ UNCHANGED uplinkStatus

\* restartRecording, when OBS has lost the file.
Rerecorded(s, ok) == IF s.recording = "ACTIVE" /\ ~ s.file THEN [s EXCEPT !.file = ok] ELSE s

\* restartStreaming
MonitorRestart(o, s) ==
  /\ Streaming(s) /\ ~ s.dirty /\ s.net # "live"
  /\ \E streams, records \in Outcomes :
       LET t == [Rerecorded(s, records) EXCEPT !.age = 0]
          IN Put(o, IF streams THEN [t EXCEPT !.status = "RECONNECTING", !.net = "connecting"]
                               ELSE [t EXCEPT !.net = "off"])
  /\ UNCHANGED uplinkStatus

\* Reconnected, and still there.
MonitorAlive(o, s) ==
  /\ Streaming(s) /\ ~ s.dirty /\ s.net = "live"
  /\ \E records \in Outcomes :
       LET t == [Rerecorded(s, records) EXCEPT !.status = "ACTIVE"]
          IN IF "source" \in s.pipe /\ input = "gone" THEN Stop(o, t)
             ELSE Put(o, t) /\ UNCHANGED uplinkStatus

Tick(o) ==
  /\ out[o].exists /\ leaving = {}
  /\ \E age \in Later(out[o].age) : LET s == [out[o] EXCEPT !.age = age] IN
       \/ MonitorChanging(o, s) \/ MonitorActivating(o, s) \/ MonitorInactive(o, s)
       \/ MonitorWaiting(o, s) \/ MonitorInterlock(o, s) \/ MonitorStandBy(o, s)
       \/ MonitorSettings(o, s) \/ MonitorRestart(o, s) \/ MonitorAlive(o, s)
  /\ UNCHANGED <<srv, env>>

-----------------------------------------------------------------------------
\* The user, through the dock and the widgets.

Ready(o) == out[o].exists /\ leaving = {}
Changing(o, t) == /\ out[o].showing < MaxShowing
                  /\ out' = [out EXCEPT ![o] = [t EXCEPT !.dirty = TRUE]]
                  /\ UNCHANGED <<api, srv, env>>

\* setSourceUuid
SetSourceUuid(o) == /\ Ready(o)
                    /\ \E v \in SourceChoices : v # out[o].src /\ Changing(o, [out[o] EXCEPT !.src = v])
\* setVisible
SetVisible(o) == Ready(o) /\ \E v \in BOOLEAN : Changing(o, [out[o] EXCEPT !.visible = v])
\* update, from the output dialog
Update(o) == Ready(o) /\ \E v \in RecordingChoices : Changing(o, [out[o] EXCEPT !.record = v])

\* OBS creates or destroys some source: the widget lists them again.
UpdateSourceList(o) ==
  /\ Ready(o) /\ SourceListed(out[o]) # out[o]
  /\ out' = [out EXCEPT ![o] = SourceListed(out[o])]
  /\ UNCHANGED <<api, srv, env>>

\* onOBSFrontendEvent: scripting shutdown or a change of the scene collection.
FrontendStop(o) == unstable /\ Ready(o) /\ Stop(o, out[o]) /\ UNCHANGED <<srv, env>>

-----------------------------------------------------------------------------
\* The ApiClient and the dock.

\* onUplinkReady
SeesUplink(s, c) ==
  IF s.connection.id # c.id \/ s.connection.rev < c.rev
  THEN [s EXCEPT !.connection = c, !.dirty = TRUE] ELSE s

\* A new widget and its output; the settings come from the file.
Created(s) ==
  SourceListed([s EXCEPT !.exists = TRUE, !.dirty = TRUE, !.connection = NoConnection])

\* uplinkReady is emitted: updateConnections of the dock creates outputs and
\* posts the deletion of others, the outputs look at their connection.
Announce ==
  /\ out' = [o \in Outputs |->
       IF out[o].exists THEN SeesUplink(out[o], offered'[o])
       ELSE IF o \in stage' THEN Created(out[o]) ELSE out[o]]
  /\ leaving' = {o \in Outputs : out[o].exists /\ o \notin stage'}

\* onWebSocketDataChanged/Removed "uplink.connections": signals are blocked
\* while the server says that more is to come.
ConnectionChanged(o, continuous) ==
  /\ leaving = {} /\ uplink
  /\ out[o].showing < MaxShowing
  /\ \/ /\ offered[o] # NoConnection
        /\ offered' = [offered EXCEPT ![o] = NoConnection]
        /\ UNCHANGED latest
     \/ \E i \in Ids, r \in 1 .. MaxRevision :
          /\ r >= latest[i] /\ \A p \in Outputs \ {o} : offered[p].id # i
          /\ offered' = [offered EXCEPT ![o] = [id |-> i, rev |-> r]]
          /\ latest' = [latest EXCEPT ![i] = r]
  /\ UNCHANGED stage
  /\ silenced' = continuous
  /\ IF continuous THEN UNCHANGED <<out, leaving>> ELSE Announce
  /\ UNCHANGED <<api, uplink, env>>

\* The stage asks for some outputs: in putUplink's reply, which replaces all that
\* is known of the uplink, or in "uplink.stages", which leaves the connections.
StageChanged ==
  /\ leaving = {}
  /\ uplink' = TRUE
  /\ \E S \in SUBSET Outputs :
       /\ stage' = S
       /\ \/ offered' = [o \in Outputs |-> IF o \in S THEN offered[o] ELSE NoConnection]
          \/ UNCHANGED offered
  /\ silenced' = FALSE
  /\ Announce
  /\ UNCHANGED <<api, latest, env>>

\* ~EgressLinkOutput, which stops the output.
Destroy(o) ==
  /\ o \in leaving
  /\ leaving' = leaving \ {o}
  /\ Put(o, [Destroyed(out[o], "INACTIVE") EXCEPT !.exists = FALSE])
  /\ Synced
  /\ UNCHANGED <<uplink, stage, offered, latest, silenced, env>>

\* onUplinkFailed: putting the uplink or its status failed, all widgets go.
UplinkFailed ==
  /\ leaving = {} /\ uplink
  /\ leaving' = {o \in Outputs : out[o].exists}
  /\ UNCHANGED <<out, api, uplink, stage, offered, latest, silenced, env>>

\* logout: the uplink is deleted, onO2LinkingSucceeded clears what is known of
\* it and the dock posts the deletion of its widgets.
LoggedOut ==
  /\ Logouts /\ leaving = {} /\ uplink
  /\ uplink' = FALSE
  /\ offered' = [o \in Outputs |-> NoConnection]
  /\ stage' = {}
  /\ silenced' = FALSE
  /\ leaving' = {o \in Outputs : out[o].exists}
  /\ UNCHANGED <<out, api, latest, env>>

-----------------------------------------------------------------------------
\* OBS and the world.

\* The connection of a started output comes up, or goes down.
Connected(o) ==
  /\ out[o].net = "connecting"
  /\ out' = [out EXCEPT ![o].net = "live"]
  /\ UNCHANGED <<api, srv, env>>
Disconnected(o) ==
  /\ unstable /\ out[o].net # "off"
  /\ out' = [out EXCEPT ![o].net = "off"]
  /\ UNCHANGED <<api, srv, env>>
FileLost(o) ==
  /\ unstable /\ out[o].file
  /\ out' = [out EXCEPT ![o].file = FALSE]
  /\ UNCHANGED <<api, srv, env>>

Environment ==
  \/ interlock' = ~ interlock /\ UNCHANGED <<input, unstable>>
  \/ "input" \in SourceChoices /\ input' \in {"ok", "invisible", "gone"} /\ UNCHANGED <<interlock, unstable>>
  \/ unstable' = ~ unstable /\ UNCHANGED <<interlock, input>>

-----------------------------------------------------------------------------

Init ==
  /\ out \in [Outputs -> [
       exists : {FALSE}, status : {"INACTIVE"}, recording : {"INACTIVE"}, pipe : {{}},
       net : {"off"}, file : {FALSE}, connection : {NoConnection}, src : SourceChoices,
       visible : {TRUE}, record : RecordingChoices, using : {"none"}, dirty : {FALSE},
       age : Ages, showing : {0}]]
  /\ activeOutputs = 0 /\ standByOutputs = 0 /\ uplinkStatus = "inactive"
  /\ uplink = FALSE /\ stage = {} /\ leaving = {} /\ silenced = FALSE
  /\ offered = [o \in Outputs |-> NoConnection]
  /\ latest = [i \in Ids |-> 1]
  /\ interlock \in BOOLEAN /\ input = "ok" /\ unstable \in BOOLEAN

Next ==
  \/ \E o \in Outputs :
       \/ Tick(o)
       \/ SetSourceUuid(o) \/ SetVisible(o) \/ Update(o) \/ UpdateSourceList(o)
       \/ FrontendStop(o) \/ Destroy(o)
       \/ \E continuous \in BOOLEAN : ConnectionChanged(o, continuous)
       \/ Connected(o) \/ Disconnected(o) \/ FileLost(o)
  \/ StageChanged \/ UplinkFailed \/ LoggedOut
  \/ Environment /\ UNCHANGED <<out, api, srv>>

\* The timer keeps firing and posted deletions are carried out.  About the
\* network it is assumed that a connection tried again and again comes up.
Fairness ==
  \A o \in Outputs :
    WF_vars(Tick(o)) /\ WF_vars(Destroy(o)) /\ SF_vars(Connected(o))

Spec     == Init /\ [][Next]_vars
FairSpec == Spec /\ Fairness

-----------------------------------------------------------------------------

\* Every variable has the shape the code gives it.
TypeOK ==
  /\ out \in [Outputs -> Output]
  /\ activeOutputs \in Int /\ standByOutputs \in Int
  /\ uplinkStatus \in {"active", "standby", "inactive"}
  /\ uplink \in BOOLEAN /\ silenced \in BOOLEAN /\ stage \subseteq Outputs /\ leaving \subseteq Outputs
  /\ offered \in [Outputs -> Connections]
  /\ latest \in [Ids -> 1 .. MaxRevision]
  /\ interlock \in BOOLEAN /\ input \in {"ok", "invisible", "gone"} /\ unstable \in BOOLEAN

\* The counters the outputs share are exact: every way into and out of a status
\* is counted once, whichever output takes it and however it fails on the way.
CountersExact ==
  /\ activeOutputs = Cardinality({o \in Outputs : EntersActive(out[o].status)})
  /\ standByOutputs = Cardinality({o \in Outputs : CountsStandBy(out[o].status)})

\* Between two events the server has been told the status the outputs add up
\* to, except while a change of settings is under way.
StatusReported ==
  uplink /\ (\A o \in Outputs : out[o].status # "CHANGING")
    => uplinkStatus = StatusOf(activeOutputs, standByOutputs)

\* The status says what the pipeline is: an output with an attempt to stream
\* under way has all it needs, and nothing is on the air or on disk behind the
\* user's back.
StatusMeansPipeline ==
  \A o \in Outputs : LET s == out[o] IN
    /\ s.status \in {"ACTIVATING", "ACTIVE", "RECONNECTING", "CHANGING"} =>
         {"encoders", "streaming"} \subseteq s.pipe
    /\ s.recording \in {"ACTIVATING", "ACTIVE"} => {"encoders", "recording"} \subseteq s.pipe
    /\ s.net # "off" => s.status \in {"ACTIVE", "RECONNECTING", "CHANGING"}
    /\ s.file => s.recording = "ACTIVE"
    /\ s.using = "input" <=> "source" \in s.pipe

\* The source is never released more often than it was taken.
NeverOverReleased ==
  \A o \in Outputs : out[o].showing >= Held(out[o])

\* A recording that is running is only cut off by a stop, a change of settings,
\* a connection that arrives while standing by, or a stream that failed.
RecordingCutForAReason ==
  [][\A o \in Outputs :
       out[o].recording = "ACTIVE" /\ out'[o].recording # "ACTIVE" /\ out'[o].status # "INACTIVE" =>
         \/ out[o].status \in {"CHANGING", "ERROR"}
         \/ out[o].status = "STAND_BY" /\ (out[o].dirty \/ offered[o] # NoConnection)]_vars

\* What an output needs to run.
Usable(o) ==
  /\ out[o].exists /\ out[o].visible /\ ~ unstable
  /\ out[o].src = "program" \/ (out[o].src = "input" /\ input = "ok")

\* An output that is allowed to stream and offered a connection streams, however
\* often its settings and its connection change in between.
StreamsWhenWanted ==
  \A o \in Outputs :
    <>[](Usable(o) /\ interlock /\ offered[o] # NoConnection) => []<>(out[o].net = "live")

\* What it is set up for in the end is the connection the server offers, not one
\* that has been replaced or revised since.
FollowsOffer ==
  \A o \in Outputs : \A c \in Connections \ {NoConnection} :
    <>[](Usable(o) /\ interlock /\ offered[o] = c /\ ~ silenced)
      => []<>(EntersActive(out[o].status) /\ ~ out[o].dirty /\ out[o].connection = c)

\* A change of settings gets applied.
ChangesApplied ==
  \A o \in Outputs : <>[](Usable(o) /\ interlock) => []<>(~ out[o].dirty)

\* An output that is not wanted any more goes off the air and stays off it.
GoesOffAir ==
  \A o \in Outputs :
    /\ <>[](~ interlock) => <>[](out[o].net = "off")
    /\ <>[](~ out[o].visible) => <>[](out[o].net = "off")

\* Same for its recording.
RecordingStops ==
  \A o \in Outputs : <>[](~ interlock) => <>[](~ out[o].file)

\* A destroyed pipeline holds nothing of its source.
ReferencesReleased ==
  \A o \in Outputs : "source" \notin out[o].pipe => out[o].showing = 0
=============================================================================
