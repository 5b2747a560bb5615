------------------------- MODULE EgressOutput_proofs -------------------------
(***************************************************************************)
(* Proofs about EgressOutput, for any finite set of outputs.               *)
(***************************************************************************)
EXTENDS EgressOutput, FiniteSetTheorems, TLAPS

Sources == {"none", "program", "input"}

LEMMA NumType == \A b \in BOOLEAN : Num(b) \in {0, 1}
BY DEF Num

LEMMA ZeroAge == 0 \in Ages
BY DEF Ages, RetryDelay

LEMMA OfferTypes == NoConnection \in Connections /\ StatusOf(0, 0) = "inactive"
BY DEF Connections, StatusOf

-----------------------------------------------------------------------------
\* The operators on one output give outputs, with the status they are meant to
\* give.

LEMMA DestroyedType ==
  ASSUME NEW s \in Output, NEW st \in Statuses
  PROVE  /\ Destroyed(s, st) \in Output
         /\ Destroyed(s, st).status = st
         /\ Destroyed(s, st).src = s.src
         /\ Destroyed(s, st).record = s.record
<1> DEFINE n == s.showing - Releases(s)
           t == [s EXCEPT !.status = st, !.recording = "INACTIVE", !.pipe = {}, !.net = "off"]
           u == [t EXCEPT !.file = FALSE, !.using = "none", !.showing = n]
<1>1. Releases(s) \in Int
  BY DEF Releases, Num, Output
<1>2. n \in Int
  BY <1>1 DEF Output
<1> HIDE DEF n
<1>3. t \in Output /\ t.status = st /\ t.src = s.src /\ t.record = s.record
  BY DEF Output, RecordingStatuses
<1>4. Destroyed(s, st) = u
  BY DEF Destroyed, n
<1> HIDE DEF t
<1>5. u \in Output /\ u.status = t.status /\ u.src = t.src /\ u.record = t.record
  BY <1>2, <1>3 DEF Output
<1> QED
  BY <1>3, <1>4, <1>5

LEMMA SourceListedType ==
  ASSUME NEW s \in Output
  PROVE  SourceListed(s) \in Output /\ SourceListed(s).status = s.status
BY ZenonT(60) DEF SourceListed, Output

LEMMA FailedType ==
  ASSUME NEW s \in Output
  PROVE  Failed(s) \in Output /\ Failed(s).status = "ERROR"
<1> DEFINE t == [s EXCEPT !.status = "ERROR"]
<1>1. t \in Output /\ t.status = "ERROR"
  BY DEF Output, Statuses
<1> HIDE DEF t
<1>2. SourceListed(t) \in Output /\ SourceListed(t).status = "ERROR"
  BY <1>1, SourceListedType
<1> QED
  BY <1>2 DEF t, Failed

LEMMA PreparedType ==
  ASSUME NEW s \in Output, NEW c \in Connections
  PROVE  Prepared(s, c) \in Output
<1>1. CASE ~ Reconstruct(s, c)
  BY <1>1 DEF Prepared, Output
<1>2. CASE Reconstruct(s, c)
  <2> DEFINE st == IF c = NoConnection THEN "STAND_BY" ELSE "INACTIVE"
             d == Destroyed(s, st)
  <2>1. st \in Statuses
    BY DEF Statuses
  <2>2. d \in Output
    BY <2>1, DestroyedType
  <2>3. Prepared(s, c) = [d EXCEPT !.connection = c,
                            !.using = s.src,
                            !.dirty = FALSE,
                            !.pipe = IF s.src = "input" THEN {"source"} ELSE {},
                            !.showing = @ + Num(s.src = "input")]
    BY <1>2 DEF Prepared
  <2> DEFINE n == d.showing + Num(s.src = "input")
             p == IF s.src = "input" THEN {"source"} ELSE {}
             t == [d EXCEPT !.connection = c, !.using = s.src, !.dirty = FALSE]
  <2> HIDE DEF d
  <2>4. n \in Int /\ p \in SUBSET {"source", "encoders", "streaming", "recording"}
    BY <2>2 DEF Output, Num
  <2>5. t \in Output /\ t.showing = d.showing
    BY <2>2 DEF Output
  <2>6. Prepared(s, c) = [t EXCEPT !.pipe = p, !.showing = n]
    BY <2>3
  <2> HIDE DEF n, p, t
  <2> QED
    BY <2>4, <2>5, <2>6, ZenonT(60) DEF Output
<1> QED
  BY <1>1, <1>2

LEMMA BuiltType ==
  ASSUME NEW s \in Output, NEW c \in Connections, NEW streams \in BOOLEAN, NEW records \in BOOLEAN
  PROVE  Built(s, c, streams, records) \in Output
<1> DEFINE p == Prepared(s, c)
           pipe == p.pipe \cup {"encoders"} \cup (IF c # NoConnection /\ streams THEN {"streaming"} ELSE {})
                     \cup (IF s.record /\ records THEN {"recording"} ELSE {})
           rec == IF Reconstruct(s, c) /\ "recording" \in pipe THEN "ACTIVATING"
                  ELSE IF s.record /\ "recording" \notin pipe THEN "ERROR" ELSE p.recording
           q == [p EXCEPT !.pipe = pipe, !.recording = rec]
<1>1. p \in Output
  BY PreparedType
<1>2. pipe \in SUBSET {"source", "encoders", "streaming", "recording"}
  BY <1>1 DEF Output
<1>3. rec \in RecordingStatuses
  BY <1>1 DEF Output, RecordingStatuses
<1>4. Built(s, c, streams, records) =
        IF c # NoConnection /\ "streaming" \notin pipe THEN Failed(q)
        ELSE IF Reconstruct(s, c) /\ "streaming" \in pipe THEN [q EXCEPT !.status = "ACTIVATING", !.age = 0]
        ELSE q
  BY DEF Built
<1> HIDE DEF p, pipe, rec
<1>5. q \in Output
  BY <1>1, <1>2, <1>3 DEF Output
<1> HIDE DEF q
<1>6. [q EXCEPT !.status = "ACTIVATING", !.age = 0] \in Output
  BY <1>5, ZeroAge DEF Output, Statuses
<1> QED
  BY <1>4, <1>5, <1>6, FailedType

LEMMA StartedTypes ==
  ASSUME NEW s \in Output, NEW ok \in BOOLEAN
  PROVE  /\ StreamingStarted(s, ok) \in Output
         /\ s.status # "ACTIVATING" => StreamingStarted(s, ok) = s
         /\ RecordingStarted(s, ok) \in Output
         /\ RecordingStarted(s, ok).status = s.status
         /\ Rerecorded(s, ok) \in Output
         /\ Rerecorded(s, ok).status = s.status
<1> DEFINE n == s.showing + Num("source" \in s.pipe)
           a == [s EXCEPT !.age = 0]
           b == [s EXCEPT !.status = "ACTIVE", !.net = "connecting"]
           c == [b EXCEPT !.age = 0, !.showing = n]
<1>1. n \in Int
  BY DEF Output, Num
<1>2. [s EXCEPT !.status = "ACTIVE", !.net = "connecting", !.age = 0,
                !.showing = @ + Num("source" \in s.pipe)] = c
  OBVIOUS
<1> HIDE DEF n
<1>3. a \in Output
  BY ZeroAge DEF Output
<1>4. b \in Output
  BY DEF Output, Statuses
<1>9. c \in Output
  BY <1>1, <1>4, ZeroAge DEF Output
<1>5. Failed(a) \in Output
  BY <1>3, FailedType
<1>6. StreamingStarted(s, ok) \in Output
  BY <1>2, <1>5, <1>9 DEF StreamingStarted
<1>7. RecordingStarted(s, ok) \in Output /\ RecordingStarted(s, ok).status = s.status
  <2>1. [s EXCEPT !.recording = "ACTIVE", !.file = TRUE, !.showing = n] \in Output
    BY <1>1 DEF Output, RecordingStatuses
  <2>2. [s EXCEPT !.recording = "ERROR"] \in Output
    BY DEF Output, RecordingStatuses
  <2>3. /\ [s EXCEPT !.recording = "ACTIVE", !.file = TRUE, !.showing = n].status = s.status
        /\ [s EXCEPT !.recording = "ERROR"].status = s.status
    BY DEF Output
  <2> QED
    BY <2>1, <2>2, <2>3 DEF RecordingStarted, n
<1>8. Rerecorded(s, ok) \in Output /\ Rerecorded(s, ok).status = s.status
  BY DEF Rerecorded, Output
<1> QED
  BY <1>6, <1>7, <1>8 DEF StreamingStarted

-----------------------------------------------------------------------------
\* The steps of an output: one output becomes t, and either the status of the
\* uplink is synced or nothing that counts has changed, except that the output
\* begins to change its settings.

Quiet(o, t) ==
  \/ t.status = "CHANGING"
  \/ /\ out[o].status # "CHANGING"
     /\ EntersActive(t.status) <=> EntersActive(out[o].status)
     /\ CountsStandBy(t.status) <=> CountsStandBy(out[o].status)

OutputStep(o, t) == Put(o, t) /\ (Synced \/ (Quiet(o, t) /\ UNCHANGED uplinkStatus))

\* The steps of everybody else, which leave the statuses alone.
Still ==
  /\ UNCHANGED api
  /\ out' \in [Outputs -> Output]
  /\ \A o \in Outputs : out'[o].status = out[o].status

LEMMA StopStep ==
  ASSUME NEW o \in Outputs, NEW s \in Output, Stop(o, s)
  PROVE  \E t \in Output : Put(o, t) /\ Synced
<1>1. "INACTIVE" \in Statuses
  BY DEF Statuses
<1> QED
  BY <1>1, DestroyedType DEF Stop

LEMMA StartStep ==
  ASSUME TypeOK, NEW o \in Outputs, NEW s \in Output, Start(o, s)
  PROVE  \E t \in Output : Put(o, t) /\ Synced
<1> DEFINE c == offered[o]
<1>1. c \in Connections
  BY DEF TypeOK
<1>2. Destroyed(s, "DISABLED") \in Output
  BY DestroyedType DEF Statuses
<1>3. Failed([Destroyed(s, "INACTIVE") EXCEPT !.connection = c]) \in Output
  <2> DEFINE d == Destroyed(s, "INACTIVE")
  <2>1. d \in Output
    BY DestroyedType DEF Statuses
  <2> HIDE DEF d
  <2>2. [d EXCEPT !.connection = c] \in Output
    BY <1>1, <2>1 DEF Output
  <2> QED
    BY <2>2, FailedType DEF d
<1>4. Prepared(s, c) \in Output /\ Failed(Prepared(s, c)) \in Output
  BY <1>1, PreparedType, FailedType
<1>5. \A streams, records \in Outcomes : Built(s, c, streams, records) \in Output
  BY <1>1, BuiltType DEF Outcomes
<1> QED
  BY <1>2, <1>3, <1>4, <1>5 DEF Start

LEMMA LaterType == \A age \in Ages : Later(age) \subseteq Ages
BY DEF Later, Ages, RetryDelay

LEMMA TickStep ==
  ASSUME TypeOK, NEW o \in Outputs, Tick(o)
  PROVE  \E t \in Output : OutputStep(o, t)
<1>1. out[o] \in Output /\ out[o].age \in Ages
  BY DEF TypeOK, Output
<1>2. PICK age \in Later(out[o].age) : LET s == [out[o] EXCEPT !.age = age] IN
       \/ MonitorChanging(o, s) \/ MonitorActivating(o, s) \/ MonitorInactive(o, s)
       \/ MonitorWaiting(o, s) \/ MonitorInterlock(o, s) \/ MonitorStandBy(o, s)
       \/ MonitorSettings(o, s) \/ MonitorRestart(o, s) \/ MonitorAlive(o, s)
  BY DEF Tick
<1> DEFINE s == [out[o] EXCEPT !.age = age]
<1>3. s \in Output /\ s.status = out[o].status
  <2>1. age \in Ages
    BY <1>1, <1>2, LaterType
  <2> QED
    BY <1>1, <2>1 DEF Output
<1>4. \/ MonitorChanging(o, s) \/ MonitorActivating(o, s) \/ MonitorInactive(o, s)
      \/ MonitorWaiting(o, s) \/ MonitorInterlock(o, s) \/ MonitorStandBy(o, s)
      \/ MonitorSettings(o, s) \/ MonitorRestart(o, s) \/ MonitorAlive(o, s)
  BY <1>2
<1> HIDE DEF s
<1>5. ASSUME Start(o, s) PROVE \E t \in Output : OutputStep(o, t)
  BY <1>3, <1>5, StartStep DEF OutputStep
<1>6. ASSUME Put(o, s), UNCHANGED uplinkStatus, s.status # "CHANGING"
      PROVE  \E t \in Output : OutputStep(o, t)
  BY <1>3, <1>6 DEF OutputStep, Quiet
<1>7. CASE MonitorChanging(o, s)
  BY <1>5, <1>7 DEF MonitorChanging
<1>8. CASE MonitorActivating(o, s)
  <2>1. CASE s.age < StartDelay
    <3>1. s.age \in 0 .. 3
      BY <1>3 DEF Output, Ages, RetryDelay
    <3>2. ~ (s.age >= StartDelay)
      BY <2>1, <3>1 DEF StartDelay
    <3> QED
      BY <1>6, <1>8, <3>2 DEF MonitorActivating
  <2>2. CASE ~ (s.age < StartDelay)
    <3>1. PICK streams \in Outcomes, records \in Outcomes :
            Put(o, RecordingStarted(StreamingStarted(s, streams), records))
      BY <1>8, <2>2 DEF MonitorActivating
    <3> DEFINE a == StreamingStarted(s, streams)
               t == RecordingStarted(a, records)
    <3>2. streams \in BOOLEAN /\ records \in BOOLEAN
      BY DEF Outcomes
    <3>3. a \in Output /\ (s.status # "ACTIVATING" => a = s)
      BY <1>3, <3>2, StartedTypes
    <3>4. t \in Output /\ t.status = a.status
      BY <3>2, <3>3, StartedTypes
    <3>5. IF s.status = "ACTIVATING" THEN Synced ELSE UNCHANGED uplinkStatus
      BY <1>8, <2>2 DEF MonitorActivating
    <3> QED
      BY <1>3, <1>8, <3>1, <3>3, <3>4, <3>5 DEF OutputStep, Quiet, MonitorActivating
  <2> QED
    BY <2>1, <2>2
<1>9. CASE MonitorInactive(o, s)
  BY <1>5, <1>6, <1>9 DEF MonitorInactive
<1>10. CASE MonitorWaiting(o, s)
  BY <1>6, <1>10 DEF MonitorWaiting, Running, Inactive
<1>11. CASE MonitorInterlock(o, s)
  BY <1>3, <1>11, StopStep DEF MonitorInterlock, OutputStep
<1>12. CASE MonitorStandBy(o, s)
  BY <1>5, <1>12 DEF MonitorStandBy
<1>13. CASE MonitorSettings(o, s)
  <2>1. [s EXCEPT !.status = "CHANGING"] \in Output /\ [s EXCEPT !.status = "CHANGING"].status = "CHANGING"
    BY <1>3 DEF Output, Statuses
  <2> QED
    BY <1>13, <2>1 DEF MonitorSettings, OutputStep, Quiet
<1>14. CASE MonitorRestart(o, s)
  <2>1. PICK streams \in Outcomes, records \in Outcomes :
          LET t == [Rerecorded(s, records) EXCEPT !.age = 0]
          IN Put(o, IF streams THEN [t EXCEPT !.status = "RECONNECTING", !.net = "connecting"]
                               ELSE [t EXCEPT !.net = "off"])
    BY <1>14 DEF MonitorRestart
  <2> DEFINE r == Rerecorded(s, records)
             t == [r EXCEPT !.age = 0]
             u == IF streams THEN [t EXCEPT !.status = "RECONNECTING", !.net = "connecting"]
                             ELSE [t EXCEPT !.net = "off"]
  <2>2. r \in Output /\ r.status = s.status
    BY <1>3, StartedTypes DEF Outcomes
  <2>3. s.status \in {"ACTIVE", "RECONNECTING"}
    BY <1>14 DEF MonitorRestart, Streaming, Running, Inactive
  <2> HIDE DEF r
  <2>4. t \in Output /\ t.status = s.status
    BY <2>2, ZeroAge DEF Output
  <2>5. Put(o, u)
    BY <2>1 DEF r
  <2> HIDE DEF t
  <2>6. u \in Output /\ (u.status = "RECONNECTING" \/ u.status = s.status)
    BY <2>4 DEF Output, Statuses
  <2> QED
    BY <1>3, <1>14, <2>3, <2>5, <2>6 DEF MonitorRestart, OutputStep, Quiet, EntersActive, CountsStandBy
<1>15. CASE MonitorAlive(o, s)
  <2>1. PICK records \in Outcomes :
          LET t == [Rerecorded(s, records) EXCEPT !.status = "ACTIVE"]
          IN IF "source" \in s.pipe /\ input = "gone" THEN Stop(o, t)
             ELSE Put(o, t) /\ UNCHANGED uplinkStatus
    BY <1>15 DEF MonitorAlive
  <2> DEFINE r == Rerecorded(s, records)
             t == [r EXCEPT !.status = "ACTIVE"]
  <2>2. r \in Output
    BY <1>3, StartedTypes DEF Outcomes
  <2>3. s.status \in {"ACTIVE", "RECONNECTING"}
    BY <1>15 DEF MonitorAlive, Streaming, Running, Inactive
  <2> HIDE DEF r
  <2>4. t \in Output /\ t.status = "ACTIVE"
    BY <2>2 DEF Output, Statuses
  <2>5. Stop(o, t) \/ (Put(o, t) /\ UNCHANGED uplinkStatus)
    BY <2>1 DEF r
  <2> HIDE DEF t
  <2>6. CASE Stop(o, t)
    BY <2>4, <2>6, StopStep DEF OutputStep
  <2>7. CASE Put(o, t) /\ UNCHANGED uplinkStatus
    BY <1>3, <2>3, <2>4, <2>7 DEF OutputStep, Quiet, EntersActive, CountsStandBy
  <2> QED
    BY <2>5, <2>6, <2>7
<1> QED
  BY <1>4, <1>7, <1>8, <1>9, <1>10, <1>11, <1>12, <1>13, <1>14, <1>15

-----------------------------------------------------------------------------
\* The steps that leave the statuses alone.

LEMMA OneStill ==
  ASSUME TypeOK, NEW o \in Outputs, NEW t \in Output, t.status = out[o].status,
         out' = [out EXCEPT ![o] = t], UNCHANGED api
  PROVE  Still
BY DEF Still, TypeOK

LEMMA UserStill ==
  ASSUME TypeOK, NEW o \in Outputs,
         SetSourceUuid(o) \/ SetVisible(o) \/ Update(o) \/ UpdateSourceList(o)
  PROVE  /\ Still
         /\ out[o].exists /\ UNCHANGED <<srv, env>>
<1>1. out[o] \in Output
  BY DEF TypeOK
<1>2. ASSUME NEW t \in Output, t.status = out[o].status, Changing(o, t)
      PROVE  Still /\ UNCHANGED <<srv, env>>
  <2>1. [t EXCEPT !.dirty = TRUE] \in Output /\ [t EXCEPT !.dirty = TRUE].status = t.status
    BY DEF Output
  <2> QED
    BY <1>2, <2>1, OneStill DEF Changing
<1>3. CASE SetSourceUuid(o)
  <2>1. PICK v \in SourceChoices : Changing(o, [out[o] EXCEPT !.src = v])
    BY <1>3 DEF SetSourceUuid
  <2>2. [out[o] EXCEPT !.src = v] \in Output /\ [out[o] EXCEPT !.src = v].status = out[o].status
    BY <1>1, ChoicesAreLegal DEF Output
  <2> QED
    BY <1>2, <1>3, <2>1, <2>2 DEF SetSourceUuid, Ready
<1>4. CASE SetVisible(o)
  <2>1. PICK v \in BOOLEAN : Changing(o, [out[o] EXCEPT !.visible = v])
    BY <1>4 DEF SetVisible
  <2>2. [out[o] EXCEPT !.visible = v] \in Output /\ [out[o] EXCEPT !.visible = v].status = out[o].status
    BY <1>1 DEF Output
  <2> QED
    BY <1>2, <1>4, <2>1, <2>2 DEF SetVisible, Ready
<1>5. CASE Update(o)
  <2>1. PICK v \in RecordingChoices : Changing(o, [out[o] EXCEPT !.record = v])
    BY <1>5 DEF Update
  <2>2. [out[o] EXCEPT !.record = v] \in Output /\ [out[o] EXCEPT !.record = v].status = out[o].status
    BY <1>1, ChoicesAreLegal DEF Output
  <2> QED
    BY <1>2, <1>5, <2>1, <2>2 DEF Update, Ready
<1>6. CASE UpdateSourceList(o)
  BY <1>1, <1>6, SourceListedType, OneStill DEF UpdateSourceList, Ready
<1> QED
  BY <1>3, <1>4, <1>5, <1>6

LEMMA WorldStill ==
  ASSUME TypeOK, NEW o \in Outputs, Connected(o) \/ Disconnected(o) \/ FileLost(o)
  PROVE  /\ Still /\ UNCHANGED <<srv, env>>
         /\ \A p \in Outputs : out'[p].exists = out[p].exists
<1>1. out \in [Outputs -> Output] /\ out[o] \in Output
  BY DEF TypeOK
<1>2. ASSUME NEW t \in Output, t.status = out[o].status, t.exists = out[o].exists,
             out' = [out EXCEPT ![o] = t], UNCHANGED <<api, srv, env>>
      PROVE  /\ Still /\ UNCHANGED <<srv, env>>
             /\ \A p \in Outputs : out'[p].exists = out[p].exists
  BY <1>1, <1>2, OneStill
<1>3. CASE Connected(o)
  <2> DEFINE t == [out[o] EXCEPT !.net = "live"]
  <2>1. t \in Output /\ t.status = out[o].status /\ t.exists = out[o].exists
    BY <1>1 DEF Output
  <2>2. out' = [out EXCEPT ![o] = t] /\ UNCHANGED <<api, srv, env>>
    BY <1>3 DEF Connected
  <2> QED
    BY <1>2, <2>1, <2>2
<1>4. CASE Disconnected(o)
  <2> DEFINE t == [out[o] EXCEPT !.net = "off"]
  <2>1. t \in Output /\ t.status = out[o].status /\ t.exists = out[o].exists
    BY <1>1 DEF Output
  <2>2. out' = [out EXCEPT ![o] = t] /\ UNCHANGED <<api, srv, env>>
    BY <1>4 DEF Disconnected
  <2> QED
    BY <1>2, <2>1, <2>2
<1>5. CASE FileLost(o)
  <2> DEFINE t == [out[o] EXCEPT !.file = FALSE]
  <2>1. t \in Output /\ t.status = out[o].status /\ t.exists = out[o].exists
    BY <1>1 DEF Output
  <2>2. out' = [out EXCEPT ![o] = t] /\ UNCHANGED <<api, srv, env>>
    BY <1>5 DEF FileLost
  <2> QED
    BY <1>2, <2>1, <2>2
<1> QED
  BY <1>3, <1>4, <1>5

LEMMA AnnounceStill ==
  ASSUME TypeOK, Announce, UNCHANGED api, offered' \in [Outputs -> Connections]
  PROVE  Still /\ leaving' \subseteq Outputs
<1>1. ASSUME NEW s \in Output, NEW c \in Connections
      PROVE  /\ SeesUplink(s, c) \in Output /\ SeesUplink(s, c).status = s.status
             /\ Created(s) \in Output /\ Created(s).status = s.status
  <2>1. SeesUplink(s, c) \in Output /\ SeesUplink(s, c).status = s.status
    BY ZenonT(60) DEF SeesUplink, Output
  <2> DEFINE t == [s EXCEPT !.exists = TRUE, !.dirty = TRUE, !.connection = NoConnection]
  <2>2. t \in Output /\ t.status = s.status
    BY OfferTypes DEF Output
  <2>3. Created(s) = SourceListed(t)
    BY DEF Created
  <2> HIDE DEF t
  <2> QED
    BY <2>1, <2>2, <2>3, SourceListedType
<1>2. out \in [Outputs -> Output]
  BY DEF TypeOK
<1>3. out' = [o \in Outputs |->
       IF out[o].exists THEN SeesUplink(out[o], offered'[o])
       ELSE IF o \in stage' THEN Created(out[o]) ELSE out[o]]
  BY DEF Announce
<1>4. \A o \in Outputs : out'[o] \in Output /\ out'[o].status = out[o].status
  BY <1>1, <1>2, <1>3
<1> QED
  BY <1>3, <1>4 DEF Announce, Still

-----------------------------------------------------------------------------
\* Type correctness.

LEMMA InitTypeOK == Init => TypeOK
<1> SUFFICES ASSUME Init PROVE TypeOK
  OBVIOUS
<1>1. out \in [Outputs -> Output]
  <2> DEFINE Fresh0 == [
       exists : {FALSE}, status : {"INACTIVE"}, recording : {"INACTIVE"}, pipe : {{}},
       net : {"off"}, file : {FALSE}, connection : {NoConnection}, src : SourceChoices,
       visible : {TRUE}, record : RecordingChoices, using : {"none"}, dirty : {FALSE},
       age : Ages, showing : {0}]
  <2>1. out \in [Outputs -> Fresh0]
    BY DEF Init
  <2>2. ASSUME NEW r \in Fresh0 PROVE r \in Output
    <3>1. r.status \in Statuses /\ r.recording \in RecordingStatuses
      BY DEF Statuses, RecordingStatuses
    <3>2. r.connection \in Connections
      BY OfferTypes
    <3>3. r.src \in {"none", "program", "input"} /\ r.record \in BOOLEAN
      BY ChoicesAreLegal
    <3>4. r.exists \in BOOLEAN /\ r.file \in BOOLEAN /\ r.visible \in BOOLEAN /\ r.dirty \in BOOLEAN
      OBVIOUS
    <3>6. r.pipe \in SUBSET {"source", "encoders", "streaming", "recording"}
      OBVIOUS
    <3>7. r.net \in {"off", "connecting", "live"} /\ r.using \in {"none", "program", "input"}
      OBVIOUS
    <3>8. r.age \in Ages /\ r.showing \in Int
      OBVIOUS
    <3>5. r = [exists |-> r.exists, status |-> r.status, recording |-> r.recording, pipe |-> r.pipe,
               net |-> r.net, file |-> r.file, connection |-> r.connection, src |-> r.src,
               visible |-> r.visible, record |-> r.record, using |-> r.using, dirty |-> r.dirty,
               age |-> r.age, showing |-> r.showing]
      OBVIOUS
    <3> HIDE DEF Fresh0
    <3> QED
      BY <3>1, <3>2, <3>3, <3>4, <3>5, <3>6, <3>7, <3>8 DEF Output
  <2> HIDE DEF Fresh0
  <2> QED
    BY <2>1, <2>2
<1>2. offered \in [Outputs -> Connections]
  BY OfferTypes DEF Init
<1>3. latest \in [Ids -> 1 .. MaxRevision]
  <2>1. 1 \in 1 .. MaxRevision
    BY BoundsAreNatural
  <2> QED
    BY <2>1 DEF Init
<1>4. activeOutputs \in Int /\ standByOutputs \in Int
  BY DEF Init
<1>5. uplinkStatus \in {"active", "standby", "inactive"} /\ stage \subseteq Outputs /\ leaving \subseteq Outputs
  BY DEF Init
<1>6. uplink \in BOOLEAN /\ silenced \in BOOLEAN
  BY DEF Init
<1>7. interlock \in BOOLEAN /\ input \in {"ok", "invisible", "gone"} /\ unstable \in BOOLEAN
  BY DEF Init
<1> HIDE DEF Init
<1> QED
  BY <1>1, <1>2, <1>3, <1>4, <1>5, <1>6, <1>7, Zenon DEF TypeOK

LEMMA StatusOfType == \A a, b : StatusOf(a, b) \in {"active", "standby", "inactive"}
BY DEF StatusOf

LEMMA PutType ==
  ASSUME TypeOK, NEW o \in Outputs, NEW t \in Output, Put(o, t), Synced \/ UNCHANGED uplinkStatus
  PROVE  /\ out' \in [Outputs -> Output]
         /\ activeOutputs' \in Int /\ standByOutputs' \in Int
         /\ uplinkStatus' \in {"active", "standby", "inactive"}
<1>1. out' \in [Outputs -> Output]
  BY DEF Put, TypeOK
<1>2. activeOutputs' \in Int /\ standByOutputs' \in Int
  BY DEF Put, Num, TypeOK
<1>3. uplinkStatus' \in {"active", "standby", "inactive"}
  BY StatusOfType DEF Synced, TypeOK
<1> QED
  BY <1>1, <1>2, <1>3

\* What a step of one output does, whichever it is: out, the counters and the
\* status of the uplink keep their types, and nothing else changes.
LEMMA TickType == ASSUME TypeOK, NEW o \in Outputs, Tick(o) PROVE TypeOK'
<1>1. PICK t \in Output : OutputStep(o, t)
  BY TickStep
<1>2. UNCHANGED <<srv, env>>
  BY DEF Tick
<1> QED
  BY <1>1, <1>2, PutType DEF OutputStep, TypeOK, srv, env

LEMMA DestroyStep ==
  ASSUME TypeOK, NEW o \in Outputs, Destroy(o)
  PROVE  \E t \in Output : Put(o, t) /\ Synced
<1> DEFINE d == Destroyed(out[o], "INACTIVE")
           t == [d EXCEPT !.exists = FALSE]
<1>1. d \in Output
  BY DestroyedType DEF TypeOK, Statuses
<1>2. Put(o, t) /\ Synced
  BY DEF Destroy
<1> HIDE DEF d
<1>3. t \in Output
  BY <1>1 DEF Output
<1> QED
  BY <1>2, <1>3

LEMMA ConnectionChangedStill ==
  ASSUME TypeOK, NEW o \in Outputs, NEW continuous \in BOOLEAN, ConnectionChanged(o, continuous)
  PROVE  TypeOK' /\ Still
<1>1. /\ offered' \in [Outputs -> Connections]
      /\ latest' \in [Ids -> 1 .. MaxRevision]
  <2>1. \A i \in Ids, r \in 1 .. MaxRevision : [id |-> i, rev |-> r] \in Connections
    BY DEF Connections
  <2> QED
    BY <2>1, OfferTypes DEF ConnectionChanged, TypeOK
<1>2. UNCHANGED <<api, uplink, stage, env>> /\ silenced' \in BOOLEAN
  BY DEF ConnectionChanged
<1>3. Still /\ leaving' \subseteq Outputs
  <2>1. CASE continuous
    BY <1>2, <2>1 DEF ConnectionChanged, Still, TypeOK
  <2>2. CASE ~ continuous
    BY <1>1, <1>2, <2>2, AnnounceStill DEF ConnectionChanged
  <2> QED
    BY <2>1, <2>2
<1> QED
  BY <1>1, <1>2, <1>3 DEF TypeOK, Still, api, env

LEMMA StageChangedStill ==
  ASSUME TypeOK, StageChanged
  PROVE  TypeOK' /\ Still /\ uplink'
<1>1. /\ offered' \in [Outputs -> Connections]
      /\ stage' \subseteq Outputs
  BY OfferTypes DEF StageChanged, TypeOK
<1>2. UNCHANGED <<api, latest, env>> /\ silenced' = FALSE /\ uplink' = TRUE /\ Announce
  BY DEF StageChanged
<1>3. Still /\ leaving' \subseteq Outputs
  BY <1>1, <1>2, AnnounceStill
<1> QED
  BY <1>1, <1>2, <1>3 DEF TypeOK, Still, api, env

LEMMA OthersStill ==
  ASSUME TypeOK, UplinkFailed \/ LoggedOut \/ (Environment /\ UNCHANGED <<out, api, srv>>)
                   \/ UNCHANGED vars
  PROVE  TypeOK' /\ Still
<1>1. CASE UplinkFailed
  BY <1>1 DEF UplinkFailed, TypeOK, Still, api, env
<1>2. CASE LoggedOut
  BY <1>2, OfferTypes DEF LoggedOut, TypeOK, Still, api, env
<1>3. CASE Environment /\ UNCHANGED <<out, api, srv>>
  BY <1>3 DEF Environment, TypeOK, Still, api, srv
<1>4. CASE UNCHANGED vars
  BY <1>4 DEF vars, TypeOK, Still, api, srv, env
<1> QED
  BY <1>1, <1>2, <1>3, <1>4

LEMMA StillType ==
  ASSUME TypeOK, Still, UNCHANGED <<srv, env>>
  PROVE  TypeOK'
BY DEF Still, TypeOK, api, srv, env

LEMMA FrontendStopStep ==
  ASSUME TypeOK, NEW o \in Outputs, FrontendStop(o)
  PROVE  /\ \E t \in Output : Put(o, t) /\ Synced
         /\ out[o].exists /\ UNCHANGED <<srv, env>>
BY StopStep DEF FrontendStop, Ready, TypeOK

\* Every step is a step of one output or leaves the statuses alone.
LEMMA TypeInductive == TypeOK /\ [Next]_vars => TypeOK'
<1> SUFFICES ASSUME TypeOK, [Next]_vars PROVE TypeOK'
  OBVIOUS
<1>1. ASSUME NEW o \in Outputs, Tick(o) PROVE TypeOK'
  BY <1>1, TickType
<1>2. ASSUME NEW o \in Outputs,
             SetSourceUuid(o) \/ SetVisible(o) \/ Update(o) \/ UpdateSourceList(o)
      PROVE  TypeOK'
  BY <1>2, UserStill, StillType
<1>3. ASSUME NEW o \in Outputs, FrontendStop(o) PROVE TypeOK'
  <2>1. PICK t \in Output : Put(o, t) /\ Synced
    BY <1>3, FrontendStopStep
  <2>2. UNCHANGED <<srv, env>>
    BY <1>3, FrontendStopStep
  <2> QED
    BY <2>1, <2>2, PutType DEF TypeOK, srv, env
<1>4. ASSUME NEW o \in Outputs, Destroy(o) PROVE TypeOK'
  <2>1. PICK t \in Output : Put(o, t) /\ Synced
    BY <1>4, DestroyStep
  <2>2. UNCHANGED <<uplink, stage, offered, latest, silenced, env>> /\ leaving' \subseteq Outputs
    BY <1>4 DEF Destroy, TypeOK
  <2> QED
    BY <2>1, <2>2, PutType DEF TypeOK, env
<1>5. ASSUME NEW o \in Outputs, Connected(o) \/ Disconnected(o) \/ FileLost(o) PROVE TypeOK'
  BY <1>5, WorldStill, StillType
<1> QED
  BY <1>1, <1>2, <1>3, <1>4, <1>5, ConnectionChangedStill, StageChangedStill, OthersStill DEF Next

\* Every variable always has the shape the code gives it.
THEOREM OutputTypes == Spec => []TypeOK
BY InitTypeOK, TypeInductive, PTL DEF Spec

-----------------------------------------------------------------------------
\* The counters.

LEMMA CountChanges ==
  ASSUME NEW A \in SUBSET Outputs, NEW B \in SUBSET Outputs, NEW o \in Outputs, A \ {o} = B \ {o}
  PROVE  Cardinality(B) = Cardinality(A) - Num(o \in A) + Num(o \in B)
<1> DEFINE C == A \ {o}
<1>1. IsFiniteSet(A) /\ IsFiniteSet(B) /\ IsFiniteSet(C)
  BY OutputsAreFinite, FS_Subset
<1>2. Cardinality(A) \in Nat /\ Cardinality(B) \in Nat /\ Cardinality(C) \in Nat
  BY <1>1, FS_CardinalityType
<1>3. ASSUME NEW D \in SUBSET Outputs, D \ {o} = C
      PROVE  Cardinality(D) = Cardinality(C) + Num(o \in D)
  <2>1. IsFiniteSet(D)
    BY OutputsAreFinite, FS_Subset
  <2>2. Cardinality(D) \in Nat
    BY <2>1, FS_CardinalityType
  <2>3. CASE o \in D
    <3>1. Cardinality(C) = Cardinality(D) - 1
      BY <1>3, <2>1, <2>3, FS_RemoveElement
    <3> QED
      BY <1>2, <2>2, <2>3, <3>1 DEF Num
  <2>4. CASE o \notin D
    <3>1. C = D
      BY <1>3, <2>4
    <3> QED
      BY <1>2, <2>4, <3>1 DEF Num
  <2> QED
    BY <2>3, <2>4
<1>4. Cardinality(A) = Cardinality(C) + Num(o \in A)
  BY <1>3
<1>5. Cardinality(B) = Cardinality(C) + Num(o \in B)
  BY <1>3
<1>6. Num(o \in A) \in {0, 1} /\ Num(o \in B) \in {0, 1}
  BY DEF Num
<1> QED
  BY <1>2, <1>4, <1>5, <1>6

\* setStatus keeps the counts, whatever the statuses are.
LEMMA PutCounts ==
  ASSUME TypeOK, CountersExact, NEW o \in Outputs, NEW t \in Output, Put(o, t)
  PROVE  CountersExact'
<1> DEFINE A == {p \in Outputs : EntersActive(out[p].status)}
           B == {p \in Outputs : EntersActive(out'[p].status)}
           C == {p \in Outputs : CountsStandBy(out[p].status)}
           D == {p \in Outputs : CountsStandBy(out'[p].status)}
<1>1. /\ out'[o] = t
      /\ \A p \in Outputs \ {o} : out'[p] = out[p]
  BY DEF Put, TypeOK
<1>2. /\ A \ {o} = B \ {o} /\ (o \in A <=> EntersActive(out[o].status))
      /\ (o \in B <=> EntersActive(t.status))
      /\ C \ {o} = D \ {o} /\ (o \in C <=> CountsStandBy(out[o].status))
      /\ (o \in D <=> CountsStandBy(t.status))
  BY <1>1
<1>3. /\ activeOutputs' = activeOutputs - Num(EntersActive(out[o].status)) + Num(EntersActive(t.status))
      /\ standByOutputs' = standByOutputs - Num(CountsStandBy(out[o].status)) + Num(CountsStandBy(t.status))
  BY DEF Put, EntersActive, LeavesActive
<1>4. activeOutputs = Cardinality(A) /\ standByOutputs = Cardinality(C)
  BY DEF CountersExact
<1> HIDE DEF A, B, C, D
<1>5. A \in SUBSET Outputs /\ B \in SUBSET Outputs /\ C \in SUBSET Outputs /\ D \in SUBSET Outputs
  BY DEF A, B, C, D
<1>6. /\ Cardinality(B) = Cardinality(A) - Num(o \in A) + Num(o \in B)
      /\ Cardinality(D) = Cardinality(C) - Num(o \in C) + Num(o \in D)
  BY <1>2, <1>5, CountChanges
<1>7. /\ Num(o \in A) = Num(EntersActive(out[o].status)) /\ Num(o \in B) = Num(EntersActive(t.status))
      /\ Num(o \in C) = Num(CountsStandBy(out[o].status)) /\ Num(o \in D) = Num(CountsStandBy(t.status))
  BY <1>2, Zenon DEF Num
<1>8. activeOutputs' = Cardinality(B) /\ standByOutputs' = Cardinality(D)
  BY <1>3, <1>4, <1>6, <1>7, Zenon
<1> QED
  BY <1>8 DEF CountersExact, B, D

LEMMA StillCounts ==
  ASSUME CountersExact, Still
  PROVE  CountersExact'
<1>1. /\ {p \in Outputs : EntersActive(out'[p].status)} = {p \in Outputs : EntersActive(out[p].status)}
      /\ {p \in Outputs : CountsStandBy(out'[p].status)} = {p \in Outputs : CountsStandBy(out[p].status)}
  BY DEF Still
<1> QED
  BY <1>1 DEF CountersExact, Still, api

LEMMA InitCounts == Init => CountersExact
<1> SUFFICES ASSUME Init PROVE CountersExact
  OBVIOUS
<1>1. \A o \in Outputs : out[o].status = "INACTIVE"
  BY DEF Init
<1>2. /\ {o \in Outputs : EntersActive(out[o].status)} = {}
      /\ {o \in Outputs : CountsStandBy(out[o].status)} = {}
  BY <1>1 DEF EntersActive, CountsStandBy
<1>3. activeOutputs = 0 /\ standByOutputs = 0
  BY DEF Init
<1> QED
  BY <1>2, <1>3, FS_EmptySet DEF CountersExact

\* Every step either puts one output or leaves the statuses alone.
LEMMA StepShape ==
  ASSUME TypeOK, [Next]_vars
  PROVE  \/ \E o \in Outputs, t \in Output :
              /\ out[o].exists \/ leaving # {}
              /\ uplink' = uplink
              /\ OutputStep(o, t)
         \/ Still
<1>1. ASSUME NEW o \in Outputs, Tick(o)
      PROVE  \E t \in Output : OutputStep(o, t) /\ out[o].exists /\ uplink' = uplink
  BY <1>1, TickStep DEF Tick, srv
<1>2. ASSUME NEW o \in Outputs, FrontendStop(o)
      PROVE  \E t \in Output : OutputStep(o, t) /\ out[o].exists /\ uplink' = uplink
  BY <1>2, FrontendStopStep DEF OutputStep, srv
<1>3. ASSUME NEW o \in Outputs, Destroy(o)
      PROVE  \E t \in Output : OutputStep(o, t) /\ leaving # {} /\ uplink' = uplink
  BY <1>3, DestroyStep DEF OutputStep, Destroy
<1> QED
  BY <1>1, <1>2, <1>3, UserStill, WorldStill, ConnectionChangedStill, StageChangedStill, OthersStill
  DEF Next

\* The counters the outputs share are exact: setStatus counts every way into and
\* out of a status once, for any number of outputs.
THEOREM CountersAreExact == Spec => []CountersExact
<1>1. TypeOK /\ CountersExact /\ [Next]_vars => CountersExact'
  BY StepShape, PutCounts, StillCounts DEF OutputStep
<1> QED
  BY <1>1, InitCounts, OutputTypes, PTL DEF Spec

-----------------------------------------------------------------------------
\* The status of the uplink, if nobody logs out.

\* Until the uplink is known there is no output to count.
Fresh ==
  ~ uplink =>
    /\ leaving = {} /\ uplinkStatus = "inactive"
    /\ \A o \in Outputs : ~ out[o].exists /\ out[o].status = "INACTIVE"

LEMMA FreshCounts ==
  ASSUME CountersExact, Fresh, ~ uplink
  PROVE  activeOutputs = 0 /\ standByOutputs = 0 /\ uplinkStatus = "inactive"
<1>1. /\ {o \in Outputs : EntersActive(out[o].status)} = {}
      /\ {o \in Outputs : CountsStandBy(out[o].status)} = {}
  BY DEF Fresh, EntersActive, CountsStandBy
<1> QED
  BY <1>1, FS_EmptySet DEF CountersExact, Fresh

\* Steps that find the uplink unknown and leave it so start no output.
LEMMA FreshInductive ==
  ASSUME TypeOK, Fresh, ~ Logouts, [Next]_vars
  PROVE  Fresh'
<1> SUFFICES ASSUME ~ uplink' PROVE Fresh'
  BY DEF Fresh
<1>1. CASE uplink
  <2>1. ASSUME NEW o \in Outputs, Tick(o) \/ SetSourceUuid(o) \/ SetVisible(o) \/ Update(o)
                  \/ UpdateSourceList(o) \/ FrontendStop(o) \/ Connected(o) \/ Disconnected(o) \/ FileLost(o)
        PROVE  uplink' = uplink
    BY <2>1 DEF Tick, SetSourceUuid, SetVisible, Update, UpdateSourceList, FrontendStop, Connected,
                Disconnected, FileLost, Changing, srv
  <2>2. ASSUME NEW o \in Outputs, Destroy(o) \/ \E c \in BOOLEAN : ConnectionChanged(o, c)
        PROVE  uplink' = uplink
    BY <2>2 DEF Destroy, ConnectionChanged
  <2>3. ASSUME StageChanged \/ UplinkFailed \/ (Environment /\ UNCHANGED <<out, api, srv>>) \/ UNCHANGED vars
        PROVE  uplink' = uplink
    BY <1>1, <2>3 DEF StageChanged, UplinkFailed, srv, vars
  <2> QED
    BY <1>1, <2>1, <2>2, <2>3 DEF Next, LoggedOut
<1>2. CASE ~ uplink
  <2>1. /\ leaving = {} /\ uplinkStatus = "inactive"
        /\ \A o \in Outputs : ~ out[o].exists /\ out[o].status = "INACTIVE"
    BY <1>2 DEF Fresh
  <2>2. ASSUME NEW o \in Outputs, Connected(o) \/ Disconnected(o) \/ FileLost(o)
        PROVE  Fresh'
    BY <2>1, <2>2, WorldStill DEF Fresh, Still, srv, api
  <2>3. ASSUME NEW o \in Outputs
        PROVE  /\ ~ Tick(o) /\ ~ SetSourceUuid(o) /\ ~ SetVisible(o) /\ ~ Update(o)
               /\ ~ UpdateSourceList(o) /\ ~ FrontendStop(o) /\ ~ Destroy(o)
    BY <2>1 DEF Tick, SetSourceUuid, SetVisible, Update, UpdateSourceList, FrontendStop, Destroy, Ready
  <2>4. ~ StageChanged /\ ~ UplinkFailed /\ ~ LoggedOut
        /\ \A o \in Outputs, c \in BOOLEAN : ~ ConnectionChanged(o, c)
    BY <1>2 DEF StageChanged, UplinkFailed, LoggedOut, ConnectionChanged
  <2>5. ASSUME (Environment /\ UNCHANGED <<out, api, srv>>) \/ UNCHANGED vars
        PROVE  Fresh'
    BY <2>1, <2>5 DEF Fresh, srv, api, vars
  <2> QED
    BY <2>2, <2>3, <2>4, <2>5 DEF Next
<1> QED
  BY <1>1, <1>2

\* A step of an output syncs the uplink's status, or changes no counter.
LEMMA OutputStepReports ==
  ASSUME TypeOK, StatusReported, uplink' = uplink, NEW o \in Outputs, NEW t \in Output, OutputStep(o, t)
  PROVE  StatusReported'
<1> SUFFICES ASSUME uplink', \A p \in Outputs : out'[p].status # "CHANGING"
             PROVE  uplinkStatus' = StatusOf(activeOutputs', standByOutputs')
  BY DEF StatusReported
<1>1. /\ out'[o] = t
      /\ \A p \in Outputs \ {o} : out'[p] = out[p]
  BY DEF OutputStep, Put, TypeOK
<1>2. CASE Synced
  BY <1>2 DEF Synced
<1>3. CASE Quiet(o, t) /\ UNCHANGED uplinkStatus
  <2>1. /\ out[o].status # "CHANGING"
        /\ EntersActive(t.status) <=> EntersActive(out[o].status)
        /\ CountsStandBy(t.status) <=> CountsStandBy(out[o].status)
    BY <1>1, <1>3 DEF Quiet
  <2>2. uplinkStatus = StatusOf(activeOutputs, standByOutputs)
    BY <1>1, <2>1 DEF StatusReported
  <2>3. /\ activeOutputs' = activeOutputs - Num(EntersActive(out[o].status)) + Num(EntersActive(t.status))
        /\ standByOutputs' = standByOutputs - Num(CountsStandBy(out[o].status)) + Num(CountsStandBy(t.status))
    BY DEF OutputStep, Put, EntersActive, LeavesActive
  <2>4. /\ Num(EntersActive(out[o].status)) = Num(EntersActive(t.status))
        /\ Num(CountsStandBy(out[o].status)) = Num(CountsStandBy(t.status))
    BY <2>1, Zenon DEF Num
  <2>5. \A n \in Int, b \in BOOLEAN : n - Num(b) + Num(b) = n
    BY DEF Num
  <2>6. activeOutputs' = activeOutputs /\ standByOutputs' = standByOutputs
    <3>1. /\ EntersActive(t.status) \in BOOLEAN /\ CountsStandBy(t.status) \in BOOLEAN
          /\ activeOutputs \in Int /\ standByOutputs \in Int
      BY DEF TypeOK, EntersActive, CountsStandBy
    <3> QED
      BY <2>3, <2>4, <2>5, <3>1, Zenon
  <2> QED
    BY <1>3, <2>2, <2>6
<1> QED
  BY <1>2, <1>3 DEF OutputStep

\* Between two events the server has been told the status the outputs add up to,
\* unless a change of settings is under way, as long as nobody logs out.
THEOREM UplinkStatusIsReported == ASSUME ~ Logouts PROVE Spec => []StatusReported
<1> DEFINE Inv == Fresh /\ StatusReported
<1>1. Init => Inv
  BY DEF Init, Fresh, StatusReported
<1>2. TypeOK /\ CountersExact /\ Inv /\ [Next]_vars => Inv'
  <2> SUFFICES ASSUME TypeOK, CountersExact, Fresh, StatusReported, [Next]_vars
               PROVE  StatusReported'
    BY FreshInductive
  <2>1. ASSUME NEW o \in Outputs, NEW t \in Output, uplink' = uplink, OutputStep(o, t)
        PROVE  StatusReported'
    BY <2>1, OutputStepReports
  <2>2. CASE Still
    <3> SUFFICES ASSUME uplink', \A p \in Outputs : out'[p].status # "CHANGING"
                 PROVE  uplinkStatus' = StatusOf(activeOutputs', standByOutputs')
      BY DEF StatusReported
    <3>1. CASE uplink
      BY <2>2, <3>1 DEF Still, StatusReported, api
    <3>2. CASE ~ uplink
      BY <2>2, <3>2, FreshCounts, OfferTypes DEF Still, api
    <3> QED
      BY <3>1, <3>2
  <2> QED
    BY <2>1, <2>2, StepShape
<1> QED
  BY <1>1, <1>2, OutputTypes, CountersAreExact, PTL DEF Spec

-----------------------------------------------------------------------------
\* The pipeline of an output.  What the members of an output say of each other
\* is kept by every operation on it, whatever the other outputs do.

\* StatusMeansPipeline, of one output.
PipelineMatches(s) ==
  /\ s.status \in {"ACTIVATING", "ACTIVE", "RECONNECTING", "CHANGING"} =>
       {"encoders", "streaming"} \subseteq s.pipe
  /\ s.recording \in {"ACTIVATING", "ACTIVE"} => {"encoders", "recording"} \subseteq s.pipe
  /\ s.net # "off" => s.status \in {"ACTIVE", "RECONNECTING", "CHANGING"}
  /\ s.file => s.recording = "ACTIVE"
  /\ s.using = "input" <=> "source" \in s.pipe

\* An output that stands by and has nothing to apply is set up for the source
\* that is selected; one that is off records nothing.
StandsByAsSet(s) ==
  /\ s.recording \in {"ACTIVATING", "ACTIVE"} => s.status \notin {"INACTIVE", "DISABLED"}
  /\ s.status = "STAND_BY" /\ ~ s.dirty => s.using = s.src /\ Enabled(s)

Coherent(s) == PipelineMatches(s) /\ s.showing >= Held(s) /\ StandsByAsSet(s)

AllCoherent == \A o \in Outputs : Coherent(out[o])

\* The members Coherent looks at, but for those of the settings.
SamePipeline(s, t) ==
  /\ t.status = s.status /\ t.recording = s.recording /\ t.pipe = s.pipe
  /\ t.net = s.net /\ t.file = s.file /\ t.using = s.using /\ t.showing = s.showing
SameSettings(s, t) ==
  /\ t.src = s.src /\ t.visible = s.visible /\ t.record = s.record /\ t.dirty = s.dirty

LEMMA SameIsCoherent ==
  ASSUME NEW s, NEW t, Coherent(s), SamePipeline(s, t), t.dirty \/ SameSettings(s, t)
  PROVE  Coherent(t)
<1>1. Held(t) = Held(s)
  BY DEF Held, SamePipeline
<1>2. PipelineMatches(t) /\ t.showing >= Held(t)
  BY <1>1 DEF Coherent, PipelineMatches, SamePipeline
<1>3. StandsByAsSet(t)
  BY DEF Coherent, StandsByAsSet, SamePipeline, SameSettings, Enabled
<1> QED
  BY <1>2, <1>3 DEF Coherent

LEMMA HeldBounds ==
  ASSUME NEW s \in Output
  PROVE  /\ s.showing \in Int /\ Held(s) \in 0 .. 3 /\ Releases(s) \in 0 .. 3
         /\ Releases(s) <= Held(s)
         /\ "source" \notin s.pipe => Held(s) = 0
<1>1. s.showing \in Int
  BY DEF Output
<1>2. /\ Num(s.recording = "ACTIVE") \in {0, 1}
      /\ Num(s.status \in {"ACTIVE", "RECONNECTING"}) \in {0, 1}
      /\ Num("recording" \in s.pipe /\ s.recording = "ACTIVE") \in {0, 1}
      /\ Num("streaming" \in s.pipe /\ s.status \in {"ACTIVE", "RECONNECTING"}) \in {0, 1}
      /\ Num("recording" \in s.pipe /\ s.recording = "ACTIVE") <= Num(s.recording = "ACTIVE")
      /\ Num("streaming" \in s.pipe /\ s.status \in {"ACTIVE", "RECONNECTING"})
           <= Num(s.status \in {"ACTIVE", "RECONNECTING"})
  BY DEF Num
<1> QED
  BY <1>1, <1>2 DEF Held, Releases

LEMMA DestroyedMembers ==
  ASSUME NEW s \in Output, NEW st \in Statuses
  PROVE  LET d == Destroyed(s, st) IN
           /\ d.status = st /\ d.recording = "INACTIVE" /\ d.pipe = {} /\ d.net = "off"
           /\ d.file = FALSE /\ d.using = "none" /\ d.showing = s.showing - Releases(s)
           /\ d.src = s.src /\ d.visible = s.visible /\ d.record = s.record /\ d.dirty = s.dirty
<1> DEFINE n == s.showing - Releases(s)
           t == [s EXCEPT !.status = st, !.recording = "INACTIVE", !.pipe = {}, !.net = "off"]
           u == [t EXCEPT !.file = FALSE, !.using = "none", !.showing = n]
<1> HIDE DEF n
<1>1. /\ t.status = st /\ t.recording = "INACTIVE" /\ t.pipe = {} /\ t.net = "off"
      /\ t.src = s.src /\ t.visible = s.visible /\ t.record = s.record /\ t.dirty = s.dirty
      /\ t \in Output
  BY DEF Output, RecordingStatuses
<1>2. Destroyed(s, st) = u
  BY DEF Destroyed, n
<1> HIDE DEF t
<1>3. /\ u.status = t.status /\ u.recording = t.recording /\ u.pipe = t.pipe /\ u.net = t.net
      /\ u.file = FALSE /\ u.using = "none" /\ u.showing = n
      /\ u.src = t.src /\ u.visible = t.visible /\ u.record = t.record /\ u.dirty = t.dirty
  BY <1>1 DEF Output
<1> HIDE DEF u
<1> QED
  BY <1>1, <1>2, <1>3 DEF n

\* Tearing down never takes more off the source than was put on it.
LEMMA DestroyedCoherent ==
  ASSUME NEW s \in Output, Coherent(s), NEW st \in {"INACTIVE", "DISABLED"}
  PROVE  Coherent(Destroyed(s, st)) /\ Destroyed(s, st).net = "off"
<1> DEFINE d == Destroyed(s, st)
<1>1. st \in Statuses
  BY DEF Statuses
<1>2. /\ d.status = st /\ d.recording = "INACTIVE" /\ d.pipe = {} /\ d.net = "off"
      /\ d.file = FALSE /\ d.using = "none" /\ d.showing = s.showing - Releases(s)
  BY <1>1, DestroyedMembers
<1> HIDE DEF d
<1>3. Held(d) = 0
  BY <1>2 DEF Held
<1>4. d.showing >= Held(d)
  BY <1>2, <1>3, HeldBounds DEF Coherent
<1>5. PipelineMatches(d) /\ StandsByAsSet(d)
  BY <1>2 DEF PipelineMatches, StandsByAsSet
<1> QED
  BY <1>2, <1>4, <1>5 DEF Coherent, d

LEMMA SourceListedMembers ==
  ASSUME NEW s \in Output
  PROVE  LET t == SourceListed(s) IN
           /\ SamePipeline(s, t) /\ t.record = s.record
           /\ t.dirty \/ SameSettings(s, t)
<1>1. [s EXCEPT !.src = "none", !.dirty = TRUE].dirty = TRUE
  BY DEF Output
<1>2. LET t == [s EXCEPT !.src = "none", !.dirty = TRUE] IN SamePipeline(s, t) /\ t.record = s.record
  BY DEF Output, SamePipeline
<1> QED
  BY <1>1, <1>2 DEF SourceListed, SamePipeline, SameSettings

LEMMA FailedCoherent ==
  ASSUME NEW s \in Output, Coherent(s), s.net = "off"
  PROVE  Coherent(Failed(s)) /\ Failed(s).recording = s.recording
<1> DEFINE t == [s EXCEPT !.status = "ERROR"]
<1>1. /\ t \in Output /\ t.status = "ERROR" /\ t.recording = s.recording /\ t.pipe = s.pipe
      /\ t.net = s.net /\ t.file = s.file /\ t.using = s.using /\ t.showing = s.showing
  BY DEF Output, Statuses
<1>2. Failed(s) = SourceListed(t)
  BY DEF Failed
<1> HIDE DEF t
<1>3. PipelineMatches(t) /\ StandsByAsSet(t)
  BY <1>1 DEF Coherent, PipelineMatches, StandsByAsSet
<1>4. Held(t) <= Held(s)
  <2>1. Num(t.status \in {"ACTIVE", "RECONNECTING"}) = 0
    BY <1>1 DEF Num
  <2>2. Num(s.status \in {"ACTIVE", "RECONNECTING"}) \in {0, 1} /\ Num(s.recording = "ACTIVE") \in {0, 1}
    BY DEF Num
  <2> QED
    BY <1>1, <2>1, <2>2 DEF Held
<1>5. Coherent(t)
  BY <1>1, <1>3, <1>4, HeldBounds DEF Coherent
<1> QED
  BY <1>1, <1>2, <1>5, SourceListedMembers, SameIsCoherent DEF SamePipeline

\* start() is never called on an output that is active or reconnecting.
MayStart(s) == s.status \notin {"ACTIVATING", "ACTIVE", "RECONNECTING"}

\* Without a reason to reconstruct the output stands by and has no connection.
LEMMA KeptStandsBy ==
  ASSUME NEW s, NEW c, MayStart(s), ~ Reconstruct(s, c)
  PROVE  c = NoConnection /\ s.status = "STAND_BY" /\ ~ s.dirty /\ s.src = s.using
BY DEF Reconstruct, MayStart

LEMMA PreparedMembers ==
  ASSUME NEW s \in Output, NEW c \in Connections, Reconstruct(s, c)
  PROVE  LET p == Prepared(s, c) IN
           /\ p.status = IF c = NoConnection THEN "STAND_BY" ELSE "INACTIVE"
           /\ p.recording = "INACTIVE" /\ p.net = "off" /\ p.file = FALSE
           /\ p.pipe = IF s.src = "input" THEN {"source"} ELSE {}
           /\ p.using = s.src /\ p.dirty = FALSE
           /\ p.src = s.src /\ p.visible = s.visible /\ p.record = s.record
           /\ p.showing = s.showing - Releases(s) + Num(s.src = "input")
<1> DEFINE st == IF c = NoConnection THEN "STAND_BY" ELSE "INACTIVE"
           d == Destroyed(s, st)
           q == IF s.src = "input" THEN {"source"} ELSE {}
           n == d.showing + Num(s.src = "input")
           t == [d EXCEPT !.connection = c, !.using = s.src, !.dirty = FALSE]
<1>1. st \in Statuses
  BY DEF Statuses
<1> HIDE DEF st
<1>2. /\ d.status = st /\ d.recording = "INACTIVE" /\ d.net = "off" /\ d.file = FALSE
      /\ d.showing = s.showing - Releases(s)
      /\ d.src = s.src /\ d.visible = s.visible /\ d.record = s.record
  BY <1>1, DestroyedMembers, ZenonT(60)
<1>7. d \in Output
  BY <1>1, DestroyedType
<1>3. Prepared(s, c) = [d EXCEPT !.connection = c, !.using = s.src, !.dirty = FALSE,
                          !.pipe = IF s.src = "input" THEN {"source"} ELSE {},
                          !.showing = @ + Num(s.src = "input")]
  BY DEF Prepared, st
<1> HIDE DEF d
<1>4. /\ t \in Output /\ t.status = d.status /\ t.recording = d.recording /\ t.net = d.net /\ t.file = d.file
      /\ t.showing = d.showing /\ t.using = s.src /\ t.dirty = FALSE
      /\ t.src = d.src /\ t.visible = d.visible /\ t.record = d.record
  BY <1>7 DEF Output
<1>5. Prepared(s, c) = [t EXCEPT !.pipe = q, !.showing = n]
  BY <1>3
<1> DEFINE u == [t EXCEPT !.pipe = q, !.showing = n]
<1> HIDE DEF t, q, n
<1>6. /\ u.status = t.status /\ u.recording = t.recording /\ u.net = t.net /\ u.file = t.file
      /\ u.showing = n /\ u.using = t.using /\ u.dirty = t.dirty /\ u.pipe = q
      /\ u.src = t.src /\ u.visible = t.visible /\ u.record = t.record
  BY <1>4 DEF Output
<1> HIDE DEF u
<1> QED
  BY <1>2, <1>4, <1>5, <1>6 DEF u, q, n, st

LEMMA PreparedCoherent ==
  ASSUME NEW s \in Output, NEW c \in Connections, Coherent(s), Enabled(s), MayStart(s)
  PROVE  /\ Coherent(Prepared(s, c)) /\ Prepared(s, c).net = "off"
         /\ ~ Reconstruct(s, c) => SamePipeline(s, Prepared(s, c)) /\ SameSettings(s, Prepared(s, c))
<1> DEFINE p == Prepared(s, c)
<1>1. CASE Reconstruct(s, c)
  <2>1. /\ p.status = IF c = NoConnection THEN "STAND_BY" ELSE "INACTIVE"
        /\ p.recording = "INACTIVE" /\ p.net = "off" /\ p.file = FALSE
        /\ p.pipe = IF s.src = "input" THEN {"source"} ELSE {}
        /\ p.using = s.src /\ p.dirty = FALSE
        /\ p.src = s.src /\ p.visible = s.visible
        /\ p.showing = s.showing - Releases(s) + Num(s.src = "input")
    BY <1>1, PreparedMembers, ZenonT(60)
  <2> HIDE DEF p
  <2>2. PipelineMatches(p)
    BY <2>1 DEF PipelineMatches
  <2>3. StandsByAsSet(p)
    BY <2>1 DEF StandsByAsSet, Enabled
  <2>4. Held(p) = Num(s.src = "input") /\ Num(s.src = "input") \in {0, 1}
    BY <2>1 DEF Held, Num
  <2>5. p.showing >= Held(p)
    BY <2>1, <2>4, HeldBounds DEF Coherent
  <2> QED
    BY <1>1, <2>1, <2>2, <2>3, <2>5 DEF Coherent, p
<1>2. CASE ~ Reconstruct(s, c)
  <2>1. p = [s EXCEPT !.connection = c]
    BY <1>2 DEF Prepared
  <2>2. SamePipeline(s, p) /\ SameSettings(s, p)
    BY <2>1 DEF SamePipeline, SameSettings, Output
  <2>3. s.net = "off"
    BY <1>2, KeptStandsBy DEF Coherent, PipelineMatches
  <2> QED
    BY <2>2, <2>3, SameIsCoherent DEF SamePipeline
<1> QED
  BY <1>1, <1>2

LEMMA BuiltCoherent ==
  ASSUME NEW s \in Output, NEW c \in Connections, NEW streams \in BOOLEAN, NEW records \in BOOLEAN,
         Coherent(s), Enabled(s), MayStart(s)
  PROVE  /\ Coherent(Built(s, c, streams, records))
         /\ ~ Reconstruct(s, c) /\ s.recording = "ACTIVE"
              => Built(s, c, streams, records).recording = "ACTIVE"
<1> DEFINE p == Prepared(s, c)
           pipe == p.pipe \cup {"encoders"} \cup (IF c # NoConnection /\ streams THEN {"streaming"} ELSE {})
                     \cup (IF s.record /\ records THEN {"recording"} ELSE {})
           rec == IF Reconstruct(s, c) /\ "recording" \in pipe THEN "ACTIVATING"
                  ELSE IF s.record /\ "recording" \notin pipe THEN "ERROR" ELSE p.recording
           q == [p EXCEPT !.pipe = pipe, !.recording = rec]
           a == [q EXCEPT !.status = "ACTIVATING", !.age = 0]
<1>5. ASSUME Reconstruct(s, c)
      PROVE  /\ p.status = IF c = NoConnection THEN "STAND_BY" ELSE "INACTIVE"
             /\ p.recording = "INACTIVE" /\ "streaming" \notin p.pipe
             /\ p.src = s.src /\ p.visible = s.visible /\ p.using = s.src
  <2>1. /\ p.status = IF c = NoConnection THEN "STAND_BY" ELSE "INACTIVE"
        /\ p.recording = "INACTIVE" /\ p.pipe = IF s.src = "input" THEN {"source"} ELSE {}
        /\ p.src = s.src /\ p.visible = s.visible /\ p.using = s.src
    BY <1>5, PreparedMembers
  <2> QED
    BY <2>1
<1>1. p \in Output /\ Coherent(p) /\ p.net = "off"
  BY PreparedType, PreparedCoherent
<1>2. /\ pipe \in SUBSET {"source", "encoders", "streaming", "recording"}
      /\ p.pipe \subseteq pipe /\ "encoders" \in pipe
      /\ "source" \in pipe <=> "source" \in p.pipe
  BY <1>1 DEF Output
<1>3. /\ rec \in RecordingStatuses
      /\ rec \in {"ACTIVATING", "ACTIVE"} => "recording" \in pipe
      /\ rec = "ACTIVE" <=> p.recording = "ACTIVE"
  <2>1. p.recording \in RecordingStatuses
    BY <1>1 DEF Output
  <2>2. p.recording \in {"ACTIVATING", "ACTIVE"} => "recording" \in pipe
    BY <1>1, <1>2 DEF Coherent, PipelineMatches
  <2>3. Reconstruct(s, c) => p.recording = "INACTIVE"
    BY <1>5
  <2> HIDE DEF p, pipe
  <2> QED
    BY <2>1, <2>2, <2>3 DEF RecordingStatuses
<1>4. ~ Reconstruct(s, c) => p.recording = s.recording /\ c = NoConnection
  BY PreparedCoherent, KeptStandsBy DEF SamePipeline
<1>6. Built(s, c, streams, records) =
        IF c # NoConnection /\ "streaming" \notin pipe THEN Failed(q)
        ELSE IF Reconstruct(s, c) /\ "streaming" \in pipe THEN a ELSE q
  BY DEF Built
<1>7. "streaming" \in pipe /\ Reconstruct(s, c) => c # NoConnection
  BY <1>5
<1>8. Enabled(p) /\ p.using = p.src
  <2>1. CASE Reconstruct(s, c)
    BY <1>5, <2>1 DEF Enabled
  <2>2. CASE ~ Reconstruct(s, c)
    BY <2>2, PreparedCoherent, KeptStandsBy DEF Enabled, SamePipeline, SameSettings
  <2> QED
    BY <2>1, <2>2
<1>20. ~ Reconstruct(s, c) => p.status = "STAND_BY"
  BY PreparedCoherent, KeptStandsBy DEF SamePipeline
<1> HIDE DEF p, pipe, rec
<1>9. /\ q \in Output /\ q.pipe = pipe /\ q.recording = rec
      /\ q.status = p.status /\ q.net = p.net /\ q.file = p.file /\ q.using = p.using
      /\ q.showing = p.showing /\ q.src = p.src /\ q.visible = p.visible /\ q.dirty = p.dirty
  BY <1>1, <1>2, <1>3 DEF Output
<1> HIDE DEF q
<1>10. Held(q) = Held(p)
  BY <1>2, <1>3, <1>9 DEF Held
<1>11. q.showing >= Held(q)
  BY <1>1, <1>9, <1>10 DEF Coherent
<1>12. PipelineMatches(q)
  BY <1>1, <1>2, <1>3, <1>9 DEF Coherent, PipelineMatches
<1>13. CASE c # NoConnection /\ "streaming" \notin pipe
  \* a recording is begun although the output is off: the status follows at once
  <2> DEFINE e == [q EXCEPT !.status = "ERROR"]
  <2>1. /\ e \in Output /\ e.status = "ERROR" /\ e.recording = q.recording /\ e.pipe = q.pipe
        /\ e.net = q.net /\ e.file = q.file /\ e.using = q.using /\ e.showing = q.showing
    BY <1>9 DEF Output, Statuses
  <2>2. Failed(q) = SourceListed(e)
    BY DEF Failed
  <2> HIDE DEF e
  <2>3. q.status = "INACTIVE"
    BY <1>4, <1>5, <1>9, <1>13
  <2>4. PipelineMatches(e) /\ StandsByAsSet(e)
    BY <1>1, <1>9, <1>12, <2>1, <2>3 DEF PipelineMatches, StandsByAsSet
  <2>5. Held(e) = Held(q)
    BY <2>1, <2>3 DEF Held
  <2>6. Coherent(e)
    BY <1>11, <2>1, <2>4, <2>5 DEF Coherent
  <2>7. Coherent(Failed(q))
    BY <2>1, <2>2, <2>6, SourceListedMembers, SameIsCoherent
  <2> QED
    BY <1>4, <1>6, <1>13, <2>7
<1>14. CASE ~ (c # NoConnection /\ "streaming" \notin pipe) /\ Reconstruct(s, c) /\ "streaming" \in pipe
  <2>1. /\ a.status = "ACTIVATING" /\ a.recording = q.recording /\ a.pipe = q.pipe
        /\ a.net = q.net /\ a.file = q.file /\ a.using = q.using /\ a.showing = q.showing
    BY <1>9 DEF Output
  <2>2. q.status = "INACTIVE"
    BY <1>5, <1>7, <1>9, <1>14
  <2> HIDE DEF a
  <2>3. PipelineMatches(a) /\ StandsByAsSet(a)
    BY <1>1, <1>2, <1>9, <1>12, <1>14, <2>1, <2>2 DEF PipelineMatches, StandsByAsSet
  <2>4. Held(a) = Held(q)
    BY <2>1, <2>2 DEF Held
  <2> QED
    BY <1>6, <1>11, <1>14, <2>1, <2>3, <2>4 DEF Coherent
<1>15. CASE ~ (c # NoConnection /\ "streaming" \notin pipe) /\ ~ (Reconstruct(s, c) /\ "streaming" \in pipe)
  <2>1. c = NoConnection /\ q.status = "STAND_BY"
    BY <1>4, <1>5, <1>9, <1>15, <1>20
  <2>2. StandsByAsSet(q)
    BY <1>8, <1>9, <2>1 DEF StandsByAsSet, Enabled
  <2> QED
    BY <1>3, <1>4, <1>6, <1>9, <1>11, <1>12, <1>15, <2>2 DEF Coherent
<1> QED
  BY <1>13, <1>14, <1>15

LEMMA StreamingStartedCoherent ==
  ASSUME NEW s \in Output, NEW ok \in BOOLEAN, Coherent(s)
  PROVE  LET t == StreamingStarted(s, ok) IN Coherent(t) /\ t.recording = s.recording
<1> DEFINE n == s.showing + Num("source" \in s.pipe)
           a == [s EXCEPT !.age = 0]
           b == [s EXCEPT !.status = "ACTIVE", !.net = "connecting"]
           c == [b EXCEPT !.age = 0, !.showing = n]
<1>1. CASE s.status # "ACTIVATING"
  BY <1>1 DEF StreamingStarted
<1>2. CASE s.status = "ACTIVATING" /\ ~ ok
  <2>1. StreamingStarted(s, ok) = Failed(a)
    BY <1>2 DEF StreamingStarted
  <2>2. a \in Output /\ SamePipeline(s, a) /\ SameSettings(s, a)
    BY ZeroAge DEF Output, SamePipeline, SameSettings
  <2>3. s.net = "off"
    BY <1>2 DEF Coherent, PipelineMatches
  <2> HIDE DEF a
  <2>4. Coherent(a) /\ a.net = "off" /\ a.recording = s.recording
    BY <2>2, <2>3, SameIsCoherent DEF SamePipeline
  <2> QED
    BY <2>1, <2>2, <2>4, FailedCoherent
<1>3. CASE s.status = "ACTIVATING" /\ ok
  <2>1. StreamingStarted(s, ok) = c
    BY <1>3 DEF StreamingStarted
  <2>2. /\ b \in Output /\ b.status = "ACTIVE" /\ b.net = "connecting" /\ b.recording = s.recording
        /\ b.pipe = s.pipe /\ b.file = s.file /\ b.using = s.using
    BY DEF Output, Statuses
  <2> HIDE DEF b, n
  <2>3. /\ c.status = b.status /\ c.net = b.net /\ c.recording = b.recording
        /\ c.pipe = b.pipe /\ c.file = b.file /\ c.using = b.using /\ c.showing = n
    BY <2>2, ZeroAge DEF Output
  <2> HIDE DEF c
  <2>4. PipelineMatches(c)
    BY <1>3, <2>2, <2>3 DEF Coherent, PipelineMatches
  <2>5. StandsByAsSet(c)
    BY <2>2, <2>3 DEF StandsByAsSet
  <2>6. Held(c) <= Held(s) + Num("source" \in s.pipe)
    <3>1. /\ Num(c.status \in {"ACTIVE", "RECONNECTING"}) = 1
          /\ Num(s.status \in {"ACTIVE", "RECONNECTING"}) = 0
          /\ Num(s.recording = "ACTIVE") \in {0, 1}
      BY <1>3, <2>2, <2>3 DEF Num
    <3> QED
      BY <2>2, <2>3, <3>1 DEF Held, Num
  <2>7. c.showing >= Held(c)
    <3>1. Held(c) \in Int
      <4>1. Num(c.recording = "ACTIVE") \in {0, 1} /\ Num(c.status \in {"ACTIVE", "RECONNECTING"}) \in {0, 1}
        BY DEF Num
      <4> QED
        BY <4>1 DEF Held
    <3>2. Num("source" \in s.pipe) \in {0, 1} /\ s.showing >= Held(s)
      BY DEF Num, Coherent
    <3> QED
      BY <2>3, <2>6, <3>1, <3>2, HeldBounds DEF n
  <2> QED
    BY <2>1, <2>2, <2>3, <2>4, <2>5, <2>7 DEF Coherent
<1> QED
  BY <1>1, <1>2, <1>3

LEMMA RecordingStartedCoherent ==
  ASSUME NEW s \in Output, NEW ok \in BOOLEAN, Coherent(s)
  PROVE  LET t == RecordingStarted(s, ok) IN
           /\ Coherent(t)
           /\ s.recording = "ACTIVE" => t.recording = "ACTIVE"
<1> DEFINE n == s.showing + Num("source" \in s.pipe)
           a == [s EXCEPT !.recording = "ACTIVE", !.file = TRUE, !.showing = n]
           e == [s EXCEPT !.recording = "ERROR"]
<1>1. CASE s.recording # "ACTIVATING"
  BY <1>1 DEF RecordingStarted
<1>2. CASE s.recording = "ACTIVATING" /\ ~ ok
  <2>1. RecordingStarted(s, ok) = e
    BY <1>2 DEF RecordingStarted
  <2>2. /\ e.status = s.status /\ e.recording = "ERROR" /\ e.pipe = s.pipe /\ e.net = s.net
        /\ e.file = s.file /\ e.using = s.using /\ e.showing = s.showing
        /\ e.src = s.src /\ e.visible = s.visible /\ e.dirty = s.dirty
    BY DEF Output
  <2> HIDE DEF e
  <2>3. PipelineMatches(e) /\ StandsByAsSet(e)
    BY <1>2, <2>2 DEF Coherent, PipelineMatches, StandsByAsSet, Enabled
  <2>4. Held(e) = Held(s)
    BY <1>2, <2>2 DEF Held, Num
  <2> QED
    BY <1>2, <2>1, <2>2, <2>3, <2>4 DEF Coherent
<1>3. CASE s.recording = "ACTIVATING" /\ ok
  <2>1. RecordingStarted(s, ok) = a
    BY <1>3 DEF RecordingStarted
  <2> HIDE DEF n
  <2>2. /\ a.status = s.status /\ a.recording = "ACTIVE" /\ a.pipe = s.pipe /\ a.net = s.net
        /\ a.file = TRUE /\ a.using = s.using /\ a.showing = n
        /\ a.src = s.src /\ a.visible = s.visible /\ a.dirty = s.dirty
    BY DEF Output
  <2> HIDE DEF a
  <2>3. PipelineMatches(a) /\ StandsByAsSet(a)
    BY <1>3, <2>2 DEF Coherent, PipelineMatches, StandsByAsSet, Enabled
  <2>4. Held(a) <= Held(s) + Num("source" \in s.pipe) /\ Held(a) \in Int
    <3>1. /\ Num(a.recording = "ACTIVE") = 1 /\ Num(s.recording = "ACTIVE") = 0
          /\ Num(s.status \in {"ACTIVE", "RECONNECTING"}) \in {0, 1}
      BY <1>3, <2>2 DEF Num
    <3> QED
      BY <2>2, <3>1 DEF Held, Num
  <2>5. a.showing >= Held(a)
    <3>1. Num("source" \in s.pipe) \in {0, 1} /\ s.showing >= Held(s)
      BY DEF Num, Coherent
    <3> QED
      BY <2>2, <2>4, <3>1, HeldBounds DEF n
  <2> QED
    BY <2>1, <2>2, <2>3, <2>5 DEF Coherent
<1> QED
  BY <1>1, <1>2, <1>3

LEMMA RerecordedCoherent ==
  ASSUME NEW s \in Output, NEW ok \in BOOLEAN, Coherent(s)
  PROVE  LET t == Rerecorded(s, ok) IN
           Coherent(t) /\ t.recording = s.recording /\ t.pipe = s.pipe /\ t.net = s.net
<1>1. CASE ~ (s.recording = "ACTIVE" /\ ~ s.file)
  <2>1. Rerecorded(s, ok) = s
    BY <1>1 DEF Rerecorded
  <2> QED
    BY <2>1
<1>2. CASE s.recording = "ACTIVE" /\ ~ s.file
  <2> DEFINE t == [s EXCEPT !.file = ok]
  <2>1. Rerecorded(s, ok) = t
    BY <1>2 DEF Rerecorded
  <2>2. /\ t.status = s.status /\ t.recording = s.recording /\ t.pipe = s.pipe /\ t.net = s.net
        /\ t.using = s.using /\ t.showing = s.showing
        /\ t.src = s.src /\ t.visible = s.visible /\ t.dirty = s.dirty
    BY DEF Output
  <2> HIDE DEF t
  <2>3. PipelineMatches(t) /\ StandsByAsSet(t)
    BY <1>2, <2>2 DEF Coherent, PipelineMatches, StandsByAsSet, Enabled
  <2>4. Held(t) = Held(s)
    BY <2>2 DEF Held
  <2> QED
    BY <2>1, <2>2, <2>3, <2>4 DEF Coherent
<1> QED
  BY <1>1, <1>2

\* A change of status among those of an output that is on the air.
LEMMA OnAirCoherent ==
  ASSUME NEW s \in Output, Coherent(s), s.status \in {"ACTIVE", "RECONNECTING"},
         NEW t, t.status \in {"ACTIVE", "RECONNECTING", "CHANGING"},
         t.recording = s.recording, t.pipe = s.pipe, t.file = s.file, t.using = s.using,
         t.showing = s.showing
  PROVE  Coherent(t)
<1>1. PipelineMatches(t) /\ StandsByAsSet(t)
  BY DEF Coherent, PipelineMatches, StandsByAsSet
<1>2. Held(t) <= Held(s) /\ Held(t) \in Int
  <2>1. /\ Num(s.status \in {"ACTIVE", "RECONNECTING"}) = 1
        /\ Num(t.status \in {"ACTIVE", "RECONNECTING"}) \in {0, 1}
        /\ Num(s.recording = "ACTIVE") \in {0, 1}
    BY DEF Num
  <2> QED
    BY <2>1 DEF Held
<1> QED
  BY <1>1, <1>2, HeldBounds DEF Coherent

-----------------------------------------------------------------------------
\* The actions: output o becomes t.

\* RecordingCutForAReason, of the output o seen as s when it becomes t.
CutForAReason(o, s, t) ==
  s.recording = "ACTIVE" /\ t.recording # "ACTIVE" /\ t.status # "INACTIVE" =>
    \/ s.status \in {"CHANGING", "ERROR"}
    \/ s.status = "STAND_BY" /\ (s.dirty \/ offered[o] # NoConnection)

CoherentPut(o, s) == \E t \in Output : Put(o, t) /\ Coherent(t) /\ CutForAReason(o, s, t)

LEMMA StopCoherent ==
  ASSUME NEW o \in Outputs, NEW s \in Output, Coherent(s), Stop(o, s), NEW r
  PROVE  CoherentPut(o, r)
<1> DEFINE d == Destroyed(s, "INACTIVE")
<1>1. d \in Output /\ Coherent(d) /\ d.status = "INACTIVE"
  BY DestroyedType, DestroyedCoherent DEF Statuses
<1> QED
  BY <1>1 DEF Stop, CoherentPut, CutForAReason

\* start() cuts a recording only if it reconstructs the pipeline.
LEMMA StartCoherent ==
  ASSUME TypeOK, NEW o \in Outputs, NEW s \in Output, Coherent(s), MayStart(s), Start(o, s)
  PROVE  CoherentPut(o, s)
<1> DEFINE c == offered[o]
           Uncut == /\ s.recording = "ACTIVE" /\ s.status \notin {"CHANGING", "ERROR"}
                    /\ ~ (s.status = "STAND_BY" /\ (s.dirty \/ c # NoConnection))
<1>1. c \in Connections
  BY DEF TypeOK
<1>2. Uncut => Enabled(s) /\ ~ Reconstruct(s, c)
  <2>1. SUFFICES ASSUME Uncut PROVE Enabled(s) /\ ~ Reconstruct(s, c)
    OBVIOUS
  <2>2. s.status = "STAND_BY"
    BY <2>1 DEF Coherent, StandsByAsSet, MayStart, Output, Statuses
  <2>3. ~ s.dirty /\ c = NoConnection
    BY <2>1, <2>2
  <2> QED
    BY <2>2, <2>3 DEF Coherent, StandsByAsSet, Reconstruct
<1>3. ASSUME NEW t \in Output, Put(o, t), Coherent(t), Uncut => t.recording = "ACTIVE"
      PROVE  CoherentPut(o, s)
  BY <1>3 DEF CoherentPut, CutForAReason
<1>4. CASE ~ Enabled(s) /\ Put(o, Destroyed(s, "DISABLED"))
  <2>1. Destroyed(s, "DISABLED") \in Output /\ Coherent(Destroyed(s, "DISABLED"))
    BY DestroyedType, DestroyedCoherent DEF Statuses
  <2> QED
    BY <1>2, <1>3, <1>4, <2>1
<1>5. CASE SourceFails(s, c) /\ Put(o, Failed([Destroyed(s, "INACTIVE") EXCEPT !.connection = c]))
  <2> DEFINE d == Destroyed(s, "INACTIVE")
             t == [d EXCEPT !.connection = c]
  <2>1. d \in Output /\ Coherent(d) /\ d.net = "off"
    BY DestroyedType, DestroyedCoherent DEF Statuses
  <2> HIDE DEF d
  <2>2. t \in Output /\ SamePipeline(d, t) /\ SameSettings(d, t)
    BY <1>1, <2>1 DEF Output, SamePipeline, SameSettings
  <2> HIDE DEF t
  <2>3. Coherent(t) /\ t.net = "off"
    BY <2>1, <2>2, SameIsCoherent DEF SamePipeline
  <2>4. Failed(t) \in Output /\ Coherent(Failed(t))
    BY <2>2, <2>3, FailedType, FailedCoherent
  <2>5. Put(o, Failed(t))
    BY <1>5 DEF t, d
  <2> QED
    BY <1>2, <1>3, <1>5, <2>4, <2>5 DEF SourceFails
<1>6. CASE Enabled(s) /\ Put(o, Prepared(s, c))
  <2>1. Prepared(s, c) \in Output /\ Coherent(Prepared(s, c))
    BY <1>1, <1>6, PreparedType, PreparedCoherent
  <2>2. Uncut => Prepared(s, c).recording = "ACTIVE"
    BY <1>1, <1>2, <1>6, PreparedCoherent DEF SamePipeline
  <2> QED
    BY <1>3, <1>6, <2>1, <2>2
<1>7. CASE Enabled(s) /\ Put(o, Failed(Prepared(s, c)))
  <2> DEFINE p == Prepared(s, c)
  <2>1. p \in Output /\ Coherent(p) /\ p.net = "off"
    BY <1>1, <1>7, PreparedType, PreparedCoherent
  <2>2. Uncut => p.recording = "ACTIVE"
    BY <1>1, <1>2, <1>7, PreparedCoherent DEF SamePipeline
  <2>3. Put(o, Failed(p))
    BY <1>7
  <2> HIDE DEF p
  <2>4. Failed(p) \in Output /\ Coherent(Failed(p)) /\ Failed(p).recording = p.recording
    BY <2>1, FailedType, FailedCoherent
  <2> QED
    BY <1>3, <2>2, <2>3, <2>4
<1>8. CASE Enabled(s) /\ \E streams, records \in Outcomes : Put(o, Built(s, c, streams, records))
  <2>1. PICK streams \in Outcomes, records \in Outcomes : Put(o, Built(s, c, streams, records))
    BY <1>8
  <2> DEFINE t == Built(s, c, streams, records)
  <2>2. streams \in BOOLEAN /\ records \in BOOLEAN
    BY DEF Outcomes
  <2>3. t \in Output
    BY <1>1, <2>2, BuiltType
  <2>4. Coherent(t) /\ (~ Reconstruct(s, c) /\ s.recording = "ACTIVE" => t.recording = "ACTIVE")
    BY <1>1, <1>8, <2>2, BuiltCoherent
  <2> QED
    BY <1>2, <1>3, <2>1, <2>3, <2>4
<1> QED
  BY <1>4, <1>5, <1>6, <1>7, <1>8 DEF Start

LEMMA TickCoherent ==
  ASSUME TypeOK, NEW o \in Outputs, Coherent(out[o]), Tick(o)
  PROVE  CoherentPut(o, out[o])
<1>1. out[o] \in Output /\ out[o].age \in Ages
  BY DEF TypeOK, Output
<1>2. PICK age \in Later(out[o].age) : LET s == [out[o] EXCEPT !.age = age] IN
       \/ MonitorChanging(o, s) \/ MonitorActivating(o, s) \/ MonitorInactive(o, s)
       \/ MonitorWaiting(o, s) \/ MonitorInterlock(o, s) \/ MonitorStandBy(o, s)
       \/ MonitorSettings(o, s) \/ MonitorRestart(o, s) \/ MonitorAlive(o, s)
  BY DEF Tick
<1> DEFINE s == [out[o] EXCEPT !.age = age]
<1>3. s \in Output /\ SamePipeline(out[o], s) /\ SameSettings(out[o], s)
  <2>1. age \in Ages
    BY <1>1, <1>2, LaterType
  <2> QED
    BY <1>1, <2>1 DEF Output, SamePipeline, SameSettings
<1>4. \/ MonitorChanging(o, s) \/ MonitorActivating(o, s) \/ MonitorInactive(o, s)
      \/ MonitorWaiting(o, s) \/ MonitorInterlock(o, s) \/ MonitorStandBy(o, s)
      \/ MonitorSettings(o, s) \/ MonitorRestart(o, s) \/ MonitorAlive(o, s)
  BY <1>2
<1> HIDE DEF s
<1>5. Coherent(s)
  BY <1>3, SameIsCoherent
<1>6. SUFFICES CoherentPut(o, s)
  BY <1>3 DEF CoherentPut, CutForAReason, SamePipeline, SameSettings
<1>7. ASSUME NEW t \in Output, Put(o, t), Coherent(t), s.recording = "ACTIVE" => t.recording = "ACTIVE"
      PROVE  CoherentPut(o, s)
  BY <1>7 DEF CoherentPut, CutForAReason
<1>8. Put(o, s) => CoherentPut(o, s)
  BY <1>3, <1>5, <1>7
<1>9. Start(o, s) /\ MayStart(s) => CoherentPut(o, s)
  BY <1>3, <1>5, StartCoherent
<1>10. CASE MonitorChanging(o, s)
  BY <1>9, <1>10 DEF MonitorChanging, MayStart
<1>11. CASE MonitorActivating(o, s)
  <2>1. CASE Put(o, s)
    BY <1>8, <2>1
  <2>2. CASE \E streams, records \in Outcomes :
               Put(o, RecordingStarted(StreamingStarted(s, streams), records))
    <3>1. PICK streams \in Outcomes, records \in Outcomes :
            Put(o, RecordingStarted(StreamingStarted(s, streams), records))
      BY <2>2
    <3> DEFINE a == StreamingStarted(s, streams)
               t == RecordingStarted(a, records)
    <3>2. streams \in BOOLEAN /\ records \in BOOLEAN
      BY DEF Outcomes
    <3>3. a \in Output
      BY <1>3, <3>2, StartedTypes
    <3>4. Coherent(a) /\ a.recording = s.recording
      BY <1>3, <1>5, <3>2, StreamingStartedCoherent
    <3> HIDE DEF a
    <3>5. t \in Output
      BY <3>2, <3>3, StartedTypes
    <3>6. Coherent(t) /\ (a.recording = "ACTIVE" => t.recording = "ACTIVE")
      BY <3>2, <3>3, <3>4, RecordingStartedCoherent
    <3>7. Put(o, t)
      BY <3>1 DEF a
    <3> QED
      BY <1>7, <3>4, <3>5, <3>6, <3>7
  <2> QED
    BY <1>11, <2>1, <2>2 DEF MonitorActivating
<1>12. CASE MonitorInactive(o, s)
  BY <1>8, <1>9, <1>12 DEF MonitorInactive, MayStart, Activating, Inactive
<1>13. CASE MonitorWaiting(o, s)
  BY <1>8, <1>13 DEF MonitorWaiting
<1>14. CASE MonitorInterlock(o, s)
  BY <1>3, <1>5, <1>14, StopCoherent DEF MonitorInterlock
<1>15. CASE MonitorStandBy(o, s)
  BY <1>9, <1>15 DEF MonitorStandBy, MayStart
<1>16. CASE MonitorSettings(o, s)
  <2> DEFINE t == [s EXCEPT !.status = "CHANGING"]
  <2>1. /\ t \in Output /\ t.status = "CHANGING" /\ t.recording = s.recording /\ t.pipe = s.pipe
        /\ t.file = s.file /\ t.using = s.using /\ t.showing = s.showing
    BY <1>3 DEF Output, Statuses
  <2>2. s.status \in {"ACTIVE", "RECONNECTING"} /\ Put(o, t)
    BY <1>16 DEF MonitorSettings, Streaming, Running, Inactive
  <2> HIDE DEF t
  <2>3. Coherent(t)
    BY <1>3, <1>5, <2>1, <2>2, OnAirCoherent
  <2> QED
    BY <1>7, <2>1, <2>2, <2>3
<1>17. CASE MonitorRestart(o, s)
  <2>1. PICK streams \in Outcomes, records \in Outcomes :
          LET t == [Rerecorded(s, records) EXCEPT !.age = 0]
          IN Put(o, IF streams THEN [t EXCEPT !.status = "RECONNECTING", !.net = "connecting"]
                               ELSE [t EXCEPT !.net = "off"])
    BY <1>17, Zenon DEF MonitorRestart
  <2> DEFINE r == Rerecorded(s, records)
             t == [r EXCEPT !.age = 0]
             u == [t EXCEPT !.status = "RECONNECTING", !.net = "connecting"]
             v == [t EXCEPT !.net = "off"]
  <2>2. records \in BOOLEAN
    BY DEF Outcomes
  <2>3. r \in Output /\ r.status = s.status
    BY <1>3, <2>2, StartedTypes
  <2>4. Coherent(r) /\ r.recording = s.recording
    BY <1>3, <1>5, <2>2, RerecordedCoherent
  <2>5. s.status \in {"ACTIVE", "RECONNECTING"}
    BY <1>17 DEF MonitorRestart, Streaming, Running, Inactive
  <2> HIDE DEF r
  <2>6. t \in Output /\ t.status = s.status /\ t.recording = r.recording /\ t.pipe = r.pipe
        /\ t.file = r.file /\ t.using = r.using /\ t.showing = r.showing
    BY <2>3, ZeroAge DEF Output
  <2>7. Put(o, u) \/ Put(o, v)
    BY <2>1 DEF r
  <2> HIDE DEF t
  <2>8. /\ u \in Output /\ u.status = "RECONNECTING" /\ u.recording = t.recording /\ u.pipe = t.pipe
        /\ u.file = t.file /\ u.using = t.using /\ u.showing = t.showing
    BY <2>6 DEF Output, Statuses
  <2>9. /\ v \in Output /\ v.status = t.status /\ v.recording = t.recording /\ v.pipe = t.pipe
        /\ v.file = t.file /\ v.using = t.using /\ v.showing = t.showing
    BY <2>6 DEF Output
  <2> HIDE DEF u, v
  <2>10. Coherent(u)
    BY <2>3, <2>4, <2>5, <2>6, <2>8, OnAirCoherent
  <2>11. Coherent(v)
    BY <2>3, <2>4, <2>5, <2>6, <2>9, OnAirCoherent
  <2> QED
    BY <1>7, <2>4, <2>6, <2>7, <2>8, <2>9, <2>10, <2>11
<1>18. CASE MonitorAlive(o, s)
  <2>1. PICK records \in Outcomes :
          LET t == [Rerecorded(s, records) EXCEPT !.status = "ACTIVE"]
          IN IF "source" \in s.pipe /\ input = "gone" THEN Stop(o, t)
             ELSE Put(o, t) /\ UNCHANGED uplinkStatus
    BY <1>18 DEF MonitorAlive
  <2> DEFINE r == Rerecorded(s, records)
             t == [r EXCEPT !.status = "ACTIVE"]
  <2>2. records \in BOOLEAN
    BY DEF Outcomes
  <2>3. r \in Output /\ r.status = s.status
    BY <1>3, <2>2, StartedTypes
  <2>4. Coherent(r) /\ r.recording = s.recording
    BY <1>3, <1>5, <2>2, RerecordedCoherent
  <2>5. s.status \in {"ACTIVE", "RECONNECTING"}
    BY <1>18 DEF MonitorAlive, Streaming, Running, Inactive
  <2> HIDE DEF r
  <2>6. t \in Output /\ t.status = "ACTIVE" /\ t.recording = r.recording /\ t.pipe = r.pipe
        /\ t.file = r.file /\ t.using = r.using /\ t.showing = r.showing
    BY <2>3 DEF Output, Statuses
  <2>7. Stop(o, t) \/ Put(o, t)
    BY <2>1 DEF r
  <2> HIDE DEF t
  <2>8. Coherent(t)
    BY <2>3, <2>4, <2>5, <2>6, OnAirCoherent
  <2> QED
    BY <1>7, <2>4, <2>6, <2>7, <2>8, StopCoherent
<1> QED
  BY <1>4, <1>10, <1>11, <1>12, <1>13, <1>14, <1>15, <1>16, <1>17, <1>18

\* Every step either makes one output another coherent one, or leaves all
\* coherent and the recordings alone.
CoherentStill ==
  AllCoherent' /\ \A o \in Outputs : out'[o].recording = out[o].recording

LEMMA OneCoherent ==
  ASSUME TypeOK, AllCoherent, NEW o \in Outputs, NEW t, Coherent(t), t.recording = out[o].recording,
         out' = [out EXCEPT ![o] = t]
  PROVE  CoherentStill
BY DEF CoherentStill, AllCoherent, TypeOK

LEMMA UserCoherent ==
  ASSUME TypeOK, AllCoherent, NEW o \in Outputs,
         SetSourceUuid(o) \/ SetVisible(o) \/ Update(o) \/ UpdateSourceList(o)
  PROVE  CoherentStill
<1>1. out[o] \in Output /\ Coherent(out[o])
  BY DEF TypeOK, AllCoherent
<1>2. ASSUME NEW t \in Output, SamePipeline(out[o], t), Changing(o, t)
      PROVE  CoherentStill
  <2> DEFINE u == [t EXCEPT !.dirty = TRUE]
  <2>1. u.dirty = TRUE /\ SamePipeline(t, u)
    BY <1>2 DEF Output, SamePipeline
  <2>2. out' = [out EXCEPT ![o] = u]
    BY <1>2 DEF Changing
  <2> HIDE DEF u
  <2>3. SamePipeline(out[o], u)
    BY <1>2, <2>1 DEF SamePipeline
  <2>4. Coherent(u) /\ u.recording = out[o].recording
    BY <1>1, <2>1, <2>3, SameIsCoherent DEF SamePipeline
  <2> QED
    BY <2>2, <2>4, OneCoherent
<1>3. CASE SetSourceUuid(o)
  <2>1. PICK v \in SourceChoices : Changing(o, [out[o] EXCEPT !.src = v])
    BY <1>3 DEF SetSourceUuid
  <2>2. [out[o] EXCEPT !.src = v] \in Output /\ SamePipeline(out[o], [out[o] EXCEPT !.src = v])
    BY <1>1, ChoicesAreLegal DEF Output, SamePipeline
  <2> QED
    BY <1>2, <2>1, <2>2
<1>4. CASE SetVisible(o)
  <2>1. PICK v \in BOOLEAN : Changing(o, [out[o] EXCEPT !.visible = v])
    BY <1>4 DEF SetVisible
  <2>2. [out[o] EXCEPT !.visible = v] \in Output /\ SamePipeline(out[o], [out[o] EXCEPT !.visible = v])
    BY <1>1 DEF Output, SamePipeline
  <2> QED
    BY <1>2, <2>1, <2>2
<1>5. CASE Update(o)
  <2>1. PICK v \in RecordingChoices : Changing(o, [out[o] EXCEPT !.record = v])
    BY <1>5 DEF Update
  <2>2. [out[o] EXCEPT !.record = v] \in Output /\ SamePipeline(out[o], [out[o] EXCEPT !.record = v])
    BY <1>1, ChoicesAreLegal DEF Output, SamePipeline
  <2> QED
    BY <1>2, <2>1, <2>2
<1>6. CASE UpdateSourceList(o)
  <2>1. Coherent(SourceListed(out[o])) /\ SourceListed(out[o]).recording = out[o].recording
    BY <1>1, SourceListedMembers, SameIsCoherent DEF SamePipeline
  <2> QED
    BY <1>6, <2>1, OneCoherent DEF UpdateSourceList
<1> QED
  BY <1>3, <1>4, <1>5, <1>6

LEMMA WorldCoherent ==
  ASSUME TypeOK, AllCoherent, NEW o \in Outputs, Connected(o) \/ Disconnected(o) \/ FileLost(o)
  PROVE  CoherentStill
<1>1. out[o] \in Output /\ Coherent(out[o])
  BY DEF TypeOK, AllCoherent
<1>2. ASSUME NEW n \in {"live", "off"}, n = "off" \/ out[o].net # "off",
             out' = [out EXCEPT ![o].net = n]
      PROVE  CoherentStill
  <2> DEFINE t == [out[o] EXCEPT !.net = n]
  <2>1. /\ t.status = out[o].status /\ t.recording = out[o].recording /\ t.pipe = out[o].pipe
        /\ t.net = n /\ t.file = out[o].file /\ t.using = out[o].using /\ t.showing = out[o].showing
        /\ SameSettings(out[o], t)
    BY <1>1 DEF Output, SameSettings
  <2>2. out' = [out EXCEPT ![o] = t]
    BY <1>2
  <2> HIDE DEF t
  <2>3. PipelineMatches(t) /\ Held(t) = Held(out[o])
    BY <1>1, <1>2, <2>1 DEF Coherent, PipelineMatches, Held
  <2>4. StandsByAsSet(t)
    BY <1>1, <2>1 DEF Coherent, StandsByAsSet, SameSettings, Enabled
  <2> QED
    BY <1>1, <2>1, <2>2, <2>3, <2>4, OneCoherent DEF Coherent
<1>3. CASE FileLost(o)
  <2> DEFINE t == [out[o] EXCEPT !.file = FALSE]
  <2>1. /\ t.status = out[o].status /\ t.recording = out[o].recording /\ t.pipe = out[o].pipe
        /\ t.net = out[o].net /\ t.file = FALSE /\ t.using = out[o].using
        /\ t.showing = out[o].showing /\ SameSettings(out[o], t)
    BY <1>1 DEF Output, SameSettings
  <2>2. out' = [out EXCEPT ![o] = t]
    BY <1>3 DEF FileLost
  <2> HIDE DEF t
  <2>3. PipelineMatches(t) /\ Held(t) = Held(out[o])
    BY <1>1, <2>1 DEF Coherent, PipelineMatches, Held
  <2>4. StandsByAsSet(t)
    BY <1>1, <2>1 DEF Coherent, StandsByAsSet, SameSettings, Enabled
  <2> QED
    BY <1>1, <2>1, <2>2, <2>3, <2>4, OneCoherent DEF Coherent
<1>4. CASE Connected(o)
  BY <1>2, <1>4 DEF Connected
<1>5. CASE Disconnected(o)
  BY <1>2, <1>5 DEF Disconnected
<1> QED
  BY <1>3, <1>4, <1>5

LEMMA AnnounceCoherent ==
  ASSUME TypeOK, AllCoherent, Announce
  PROVE  CoherentStill
<1>1. ASSUME NEW s \in Output, Coherent(s), NEW c
      PROVE  /\ Coherent(SeesUplink(s, c)) /\ SeesUplink(s, c).recording = s.recording
             /\ Coherent(Created(s)) /\ Created(s).recording = s.recording
  <2> DEFINE u == [s EXCEPT !.connection = c, !.dirty = TRUE]
             t == [s EXCEPT !.exists = TRUE, !.dirty = TRUE, !.connection = NoConnection]
  <2>1. u.dirty = TRUE /\ SamePipeline(s, u)
    BY DEF Output, SamePipeline
  <2>2. t \in Output /\ t.dirty = TRUE /\ SamePipeline(s, t)
    BY OfferTypes DEF Output, SamePipeline
  <2>3. /\ SeesUplink(s, c) = u \/ SeesUplink(s, c) = s
        /\ Created(s) = SourceListed(t)
    BY DEF SeesUplink, Created
  <2> HIDE DEF u, t
  <2>4. Coherent(u) /\ u.recording = s.recording
    BY <1>1, <2>1, SameIsCoherent DEF SamePipeline
  <2>5. Coherent(t) /\ t.recording = s.recording
    BY <1>1, <2>2, SameIsCoherent DEF SamePipeline
  <2>6. Coherent(SourceListed(t)) /\ SourceListed(t).recording = t.recording
    BY <2>2, <2>5, SourceListedMembers, SameIsCoherent DEF SamePipeline
  <2> QED
    BY <1>1, <2>3, <2>4, <2>5, <2>6
<1>2. out' = [o \in Outputs |->
       IF out[o].exists THEN SeesUplink(out[o], offered'[o])
       ELSE IF o \in stage' THEN Created(out[o]) ELSE out[o]]
  BY DEF Announce
<1>3. \A o \in Outputs : out[o] \in Output /\ Coherent(out[o])
  BY DEF TypeOK, AllCoherent
<1>4. \A o \in Outputs : Coherent(out'[o]) /\ out'[o].recording = out[o].recording
  BY <1>1, <1>2, <1>3
<1> QED
  BY <1>4 DEF CoherentStill, AllCoherent

LEMMA DestroyCoherent ==
  ASSUME TypeOK, AllCoherent, NEW o \in Outputs, Destroy(o)
  PROVE  CoherentPut(o, out[o])
<1> DEFINE d == Destroyed(out[o], "INACTIVE")
           t == [d EXCEPT !.exists = FALSE]
<1>1. out[o] \in Output /\ Coherent(out[o])
  BY DEF TypeOK, AllCoherent
<1>2. d \in Output /\ Coherent(d) /\ d.status = "INACTIVE"
  BY <1>1, DestroyedType, DestroyedCoherent DEF Statuses
<1>3. Put(o, t)
  BY DEF Destroy
<1> HIDE DEF d
<1>4. t \in Output /\ SamePipeline(d, t) /\ SameSettings(d, t)
  BY <1>2 DEF Output, SamePipeline, SameSettings
<1> HIDE DEF t
<1>5. Coherent(t) /\ t.status = "INACTIVE"
  BY <1>2, <1>4, SameIsCoherent DEF SamePipeline
<1> QED
  BY <1>3, <1>4, <1>5 DEF CoherentPut, CutForAReason

LEMMA CoherentSteps ==
  ASSUME TypeOK, AllCoherent, [Next]_vars
  PROVE  (\E o \in Outputs : CoherentPut(o, out[o])) \/ CoherentStill
<1>1. ASSUME NEW o \in Outputs, Tick(o) PROVE CoherentPut(o, out[o])
  BY <1>1, TickCoherent DEF AllCoherent
<1>2. ASSUME NEW o \in Outputs, FrontendStop(o) PROVE CoherentPut(o, out[o])
  BY <1>2, StopCoherent DEF FrontendStop, AllCoherent, TypeOK
<1>3. ASSUME NEW o \in Outputs, Destroy(o) PROVE CoherentPut(o, out[o])
  BY <1>3, DestroyCoherent
<1>4. ASSUME NEW o \in Outputs, NEW continuous \in BOOLEAN, ConnectionChanged(o, continuous)
      PROVE  CoherentStill
  <2>1. CASE continuous
    BY <1>4, <2>1 DEF ConnectionChanged, CoherentStill, AllCoherent
  <2>2. CASE ~ continuous
    BY <1>4, <2>2, AnnounceCoherent DEF ConnectionChanged
  <2> QED
    BY <2>1, <2>2
<1>5. ASSUME StageChanged PROVE CoherentStill
  BY <1>5, AnnounceCoherent DEF StageChanged
<1>6. ASSUME UplinkFailed \/ LoggedOut \/ (Environment /\ UNCHANGED <<out, api, srv>>) \/ UNCHANGED vars
      PROVE  CoherentStill
  <2>1. out' = out
    BY <1>6 DEF UplinkFailed, LoggedOut, vars
  <2> QED
    BY <2>1 DEF CoherentStill, AllCoherent
<1> QED
  BY <1>1, <1>2, <1>3, <1>4, <1>5, <1>6, UserCoherent, WorldCoherent DEF Next

LEMMA PutKeepsOthers ==
  ASSUME TypeOK, AllCoherent, NEW o \in Outputs, CoherentPut(o, out[o])
  PROVE  /\ AllCoherent' /\ CutForAReason(o, out[o], out'[o])
         /\ \A p \in Outputs \ {o} : out'[p] = out[p]
BY DEF CoherentPut, Put, AllCoherent, TypeOK

LEMMA InitCoherent == Init => AllCoherent
<1> SUFFICES ASSUME Init, NEW o \in Outputs PROVE Coherent(out[o])
  BY DEF AllCoherent
<1> DEFINE s == out[o]
<1>1. /\ s.status = "INACTIVE" /\ s.recording = "INACTIVE" /\ s.pipe = {} /\ s.net = "off"
      /\ s.file = FALSE /\ s.using = "none" /\ s.showing = 0
  BY DEF Init
<1> HIDE DEF s
<1>2. PipelineMatches(s) /\ StandsByAsSet(s) /\ Held(s) = 0
  BY <1>1 DEF PipelineMatches, StandsByAsSet, Held
<1> QED
  BY <1>1, <1>2 DEF Coherent, s

\* The inductive invariant of the pipelines: each output's status, pipeline and
\* ledger of references agree, with any number of outputs and however OBS, the
\* user and the server interleave.
THEOREM PipelinesCoherent == Spec => []AllCoherent
<1>1. TypeOK /\ AllCoherent /\ [Next]_vars => AllCoherent'
  BY CoherentSteps, PutKeepsOthers DEF CoherentStill
<1> QED
  BY <1>1, InitCoherent, OutputTypes, PTL DEF Spec

\* The status of an output says what its pipeline is.
THEOREM StatusTellsPipeline == Spec => []StatusMeansPipeline
<1>1. AllCoherent => StatusMeansPipeline
  BY DEF AllCoherent, Coherent, PipelineMatches, StatusMeansPipeline
<1> QED
  BY <1>1, PipelinesCoherent, PTL

\* destroyPipeline never takes off a reference that start() or the starting of
\* an output has not put on the source.
THEOREM ReferencesBalanced == Spec => []NeverOverReleased
<1>1. AllCoherent => NeverOverReleased
  BY DEF AllCoherent, Coherent, NeverOverReleased
<1> QED
  BY <1>1, PipelinesCoherent, PTL

\* A running recording is cut only by a stop, a change of settings, a connection
\* that arrives while standing by, or a stream that failed.
THEOREM RecordingsAreKept == Spec => RecordingCutForAReason
<1> DEFINE Kept == \A o \in Outputs :
       out[o].recording = "ACTIVE" /\ out'[o].recording # "ACTIVE" /\ out'[o].status # "INACTIVE" =>
         \/ out[o].status \in {"CHANGING", "ERROR"}
         \/ out[o].status = "STAND_BY" /\ (out[o].dirty \/ offered[o] # NoConnection)
<1>1. TypeOK /\ AllCoherent /\ [Next]_vars => [Kept]_vars
  <2> SUFFICES ASSUME TypeOK, AllCoherent, [Next]_vars PROVE Kept
    OBVIOUS
  <2>1. CASE CoherentStill
    BY <2>1 DEF CoherentStill
  <2>2. ASSUME NEW o \in Outputs, CoherentPut(o, out[o]) PROVE Kept
    BY <2>2, PutKeepsOthers DEF CutForAReason
  <2> QED
    BY <2>1, <2>2, CoherentSteps
<1>2. Spec => [][Kept]_vars
  BY <1>1, OutputTypes, PipelinesCoherent, PTL DEF Spec
<1> QED
  BY <1>2 DEF RecordingCutForAReason

=============================================================================
