---------------------------- MODULE OutputSettings ----------------------------
(***************************************************************************)
(* The settings of an EgressLinkOutput: the copy the output works with,    *)
(* the file it is saved to, the copy OutputDialog edits, and what the      *)
(* pipeline's encoder is made from (src/src/outputs/egress-link-output.cpp,*)
(* src/src/UI/output-dialog.cpp, applyDefaults of src/src/utils.hpp).      *)
(*                                                                         *)
(* An obs_data has two layers: values, and the defaults that show where    *)
(* there is no value.  Saving and obs_data_apply look at values only.      *)
(*                                                                         *)
(* Of all keys four are told apart: "encoder" (video_encoder), which the   *)
(* dialog edits; "bitrate", for those that encoder defaults, preset files  *)
(* and the dialog give; "source" (source_uuid) and "eye" (visible), which  *)
(* have their own controls beside the dialog but are in its copy as well.  *)
(*                                                                         *)
(* When start() runs is the matter of module EgressOutput: here it may run *)
(* at any time.                                                            *)
(***************************************************************************)
EXTENDS Naturals, Sequences, SequencesExt

CONSTANTS
  Encoders,        \* the encoders OBS has
  Software,        \* OUTPUT_DEFAULT_VIDEO_ENCODER
  Priority,        \* priorityHardwardEncoders, the preferred ones last
  Presets,         \* the bitrate in the preset file, for the encoders that have one
  DefaultBitrate,  \* the bitrate among the encoders' defaults
  Bitrates,        \* what the user may enter
  Limits,          \* limits of a connection, [min, max]
  Sources,         \* the sources OBS may have
  MaxEdits,        \* changes of the settings
  MaxOffers,       \* connections and revisions the server offers
  MaxChanges,      \* sources made or destroyed
  MaxRestarts      \* ends of OBS or of the output's widget

ASSUME SettingsConstants ==
  /\ Software \in Encoders
  /\ Priority \in Seq(STRING) /\ DOMAIN Presets \subseteq Encoders
  /\ \A e \in DOMAIN Presets : Presets[e] \in Nat
  /\ \A l \in Limits : l.min \in Nat /\ l.max \in Nat
  /\ DefaultBitrate \in Nat /\ Bitrates \subseteq Nat
  /\ MaxEdits \in Nat /\ MaxOffers \in Nat /\ MaxChanges \in Nat /\ MaxRestarts \in Nat

VARIABLES
  prefer,      \* the setting "egress.preferHardwareEncoder" of the plugin
  live,        \* EgressLinkOutput::settings
  file,        \* the output's json file
  dialog,      \* the settings of OutputDialog's view
  open,        \* the dialog is shown; it is modal
  present,     \* the sources OBS has
  posted,      \* calls posted to the main thread: reloadProperties, updateSourceList
  offered,     \* the uplink's connection for the output
  connection,  \* EgressLinkOutput::connection
  dirty,       \* storedSettingsRev # activeSettingsRev
  encoder,     \* the videoEncoder, made for a connection
  edits, changes, restarts

copies  == <<live, file, dialog>>
stream  == <<offered, connection, encoder>>
world   == <<prefer, present, posted>>
counts  == <<edits, changes, restarts>>
vars == <<copies, open, dirty, stream, world, counts>>

NoSource     == ""
NoFile       == <<>>
NoConnection == [id |-> 0, rev |-> 0]
NoEncoder    == [bitrate |-> 0, for |-> NoConnection]

-----------------------------------------------------------------------------
(* obs_data.                                                                 *)

\* The entries of f, and those of g for the other keys.
Over(f, g) == [key \in DOMAIN f \cup DOMAIN g |-> IF key \in DOMAIN f THEN f[key] ELSE g[key]]

\* obs_data_get_*: a value, else a default, else nothing (external).
Get(data, key) ==
  IF key \in DOMAIN data.values THEN data.values[key]
  ELSE IF key \in DOMAIN data.defaults THEN data.defaults[key] ELSE NoSource
\* obs_data_apply (external).
Apply(data, values) == [data EXCEPT !.values = Over(values, @)]

EncoderDefaults == [bitrate |-> DefaultBitrate]
PresetOf(e)     == IF e \in DOMAIN Presets THEN [bitrate |-> Presets[e]] ELSE <<>>

\* getDefaults: the hardware encoder of the highest priority, if one is preferred.
DefaultEncoder(hardware) ==
  LET ranked == SelectSeq(Priority, LAMBDA e : e \in Encoders)
  IN  IF hardware /\ ranked # <<>> THEN Last(ranked) ELSE Software

Defaults(hardware) == 
  Over(EncoderDefaults, [encoder |-> DefaultEncoder(hardware), eye |-> TRUE])

\* applyDefaults
WithDefaults(data, defaults) == [data EXCEPT !.defaults = Over(defaults, @)]

\* The callback for a changed video encoder: the encoder's defaults become defaults,
\* what its preset file holds becomes values.
EncoderChanged(data) ==
  Apply(WithDefaults(data, EncoderDefaults), PresetOf(Get(data, "encoder")))

\* getProperties and obs_properties_apply_settings call the callbacks of all
\* properties; the others change what can be seen, edited and picked only.
Reloaded(data) == EncoderChanged(data)

\* loadSettings: defaults become values, then the default encoder's preset, then the file.
Loaded(hardware, saved) ==
  LET defaults == Defaults(hardware)
      preset   == PresetOf(DefaultEncoder(hardware))
  IN  [values |-> Over(saved, Over(preset, defaults)), defaults |-> defaults]

\* The copy the dialog is made with.
DialogOf(data, hardware) == Apply([values |-> <<>>, defaults |-> Defaults(hardware)], data.values)

Saved == file' = live'.values /\ dirty' = TRUE

\* updateSourceList: a source OBS does not have any more gives way to "None".
Missing(source) == source \in Sources \ present
ListSources ==
  IF Missing(Get(live, "source"))
  THEN live' = Apply(live, [source |-> NoSource]) /\ Saved
  ELSE UNCHANGED <<live, file, dirty>>

Init ==
  /\ prefer \in BOOLEAN /\ present = Sources
  /\ file = NoFile /\ live = Loaded(prefer, NoFile)
  /\ dialog = DialogOf(live, prefer) /\ open = FALSE /\ posted = {"reload"}
  /\ offered = NoConnection /\ connection = NoConnection
  /\ dirty = FALSE /\ encoder = NoEncoder
  /\ edits = 0 /\ changes = 0 /\ restarts = 0

-----------------------------------------------------------------------------
(* The controls of the connection widget.                                    *)

SetSource(s) ==
  /\ ~open /\ edits < MaxEdits
  /\ s # Get(live, "source") /\ s \in present \cup {NoSource, "program"}
  /\ live' = Apply(live, [source |-> s]) /\ Saved
  /\ edits' = edits + 1
  /\ UNCHANGED <<dialog, open, stream, world, changes, restarts>>

\* A change of the eye that is not saved (mutant).
SetVisibleUnsaved ==
  /\ ~open /\ edits < MaxEdits
  /\ live' = Apply(live, [eye |-> ~Get(live, "eye")])
  /\ dirty' = TRUE /\ edits' = edits + 1
  /\ UNCHANGED <<file, dialog, open, stream, world, changes, restarts>>

SetVisible ==
  /\ ~open /\ edits < MaxEdits
  /\ live' = Apply(live, [eye |-> ~Get(live, "eye")]) /\ Saved
  /\ edits' = edits + 1
  /\ UNCHANGED <<dialog, open, stream, world, changes, restarts>>

\* "egress.preferHardwareEncoder" in the settings dialog.
SetPrefer ==
  /\ ~open /\ edits < MaxEdits
  /\ prefer' = ~prefer /\ edits' = edits + 1
  /\ UNCHANGED <<copies, open, dirty, stream, present, posted, changes, restarts>>

-----------------------------------------------------------------------------
(* The dialog.                                                               *)

\* A dialog that is shown with what it has (mutant).
ShowStale ==
  /\ ~open
  /\ open' = TRUE /\ live' = Reloaded(live) /\ dialog' = dialog
  /\ UNCHANGED <<file, dirty, stream, world, counts>>

\* showEvent.  The properties are made for the output's settings, and it is these the
\* callbacks work on; then the dialog's copy takes their values.
Show ==
  /\ ~open
  /\ open' = TRUE /\ live' = Reloaded(live)
  /\ dialog' = Apply(dialog, live'.values)
  /\ UNCHANGED <<file, dirty, stream, world, counts>>

\* A control of the dialog edits its copy at once (shared/properties-view).
EditEncoder(e) ==
  /\ open /\ e # Get(dialog, "encoder")
  /\ dialog' = EncoderChanged(Apply(dialog, [encoder |-> e]))
  /\ UNCHANGED <<live, file, open, dirty, stream, world, counts>>

EditBitrate(b) ==
  /\ open /\ b # Get(dialog, "bitrate")
  /\ dialog' = Apply(dialog, [bitrate |-> b])
  /\ UNCHANGED <<live, file, open, dirty, stream, world, counts>>

\* onAccept: update() applies the copy's defaults as values, then its values.
Accept ==
  /\ open /\ edits < MaxEdits
  /\ live' = Apply(live, Over(dialog.values, dialog.defaults)) /\ Saved
  /\ open' = FALSE /\ edits' = edits + 1
  /\ UNCHANGED <<dialog, stream, world, changes, restarts>>

Cancel ==
  /\ open
  /\ open' = FALSE
  /\ UNCHANGED <<copies, dirty, stream, world, counts>>

-----------------------------------------------------------------------------
(* OBS.                                                                      *)

\* OBS makes or destroys a source, perhaps on another thread: the dialog and the
\* widget are told by posted calls.
SourcesChange(s) ==
  /\ changes < MaxChanges
  /\ changes' = changes + 1
  /\ present' = IF s \in present THEN present \ {s} ELSE present \cup {s}
  /\ posted' = posted \cup {"reload", "list"}
  /\ UNCHANGED <<copies, open, dirty, stream, prefer, edits, restarts>>

ReloadProperties ==
  /\ "reload" \in posted
  /\ posted' = posted \ {"reload"}
  /\ live' = Reloaded(live)
  /\ UNCHANGED <<file, dialog, open, dirty, stream, prefer, present, counts>>

UpdateSourceList ==
  /\ "list" \in posted /\ "reload" \notin posted
  /\ posted' = posted \ {"list"}
  /\ ListSources
  /\ UNCHANGED <<dialog, open, stream, prefer, present, counts>>

\* OBS ends, in whatever way, or the output's widget goes; a new output and a new
\* dialog are made from the file, and the new widget lists the sources.
Recreate ==
  /\ restarts < MaxRestarts
  /\ restarts' = restarts + 1
  /\ LET made == Loaded(prefer, file)
         kept == IF Missing(Get(made, "source")) THEN Apply(made, [source |-> NoSource]) ELSE made
     IN  /\ dialog' = DialogOf(made, prefer)
         /\ live' = kept
         /\ file' = IF kept # made THEN kept.values ELSE file
         /\ dirty' = (file # NoFile)
  /\ open' = FALSE /\ posted' = {"reload"}
  /\ encoder' = NoEncoder /\ connection' = NoConnection
  /\ UNCHANGED <<offered, prefer, present, edits, changes>>

-----------------------------------------------------------------------------
(* The connection and the encoder.                                           *)

\* The server offers a connection, a revision of it, or none.  A handler that waits
\* for the rest of a series is told of it later, or of a newer one (external).
ServerOffers(c) ==
  /\ c # NoConnection =>
       /\ c.id + c.rev <= MaxOffers + 1
       /\ \/ c.id = offered.id /\ c.rev = offered.rev + 1
          \/ c.id # offered.id /\ c.id > connection.id /\ c.rev = 1
  /\ c # offered
  /\ offered' = c
  /\ UNCHANGED <<copies, open, dirty, connection, encoder, world, counts>>

\* A slot that compares the ids only (mutant).
UplinkReadyById ==
  /\ connection # offered
  /\ IF connection.id # offered.id
     THEN connection' = offered /\ dirty' = TRUE
     ELSE connection' = offered /\ UNCHANGED dirty
  /\ UNCHANGED <<copies, open, offered, encoder, world, counts>>

\* onUplinkReady
UplinkReady ==
  /\ connection.id # offered.id \/ connection.rev < offered.rev
  /\ connection' = offered /\ dirty' = TRUE
  /\ UNCHANGED <<copies, open, offered, encoder, world, counts>>

\* The limit of createEgressSettings.
LimitedBitrate(bitrate, c) ==
  IF bitrate > c.max THEN c.max ELSE IF bitrate < c.min THEN c.min ELSE bitrate

\* createEgressSettings, for a protocol it knows: the server's address, the stream id
\* and the key are not told apart.
EgressSettings(c) == [bitrate |-> LimitedBitrate(Get(live, "bitrate"), c), for |-> c]

\* start(), up to the video encoder.  It gives up without a source, with a hidden one
\* (DISABLED), with one that is missing (ERROR, which lists the sources), without a
\* connection (STAND_BY) and with an unknown protocol (ERROR).
Start ==
  /\ dirty \/ encoder = NoEncoder
  /\ LET source == Get(live, "source")
     IN  \/ /\ source = NoSource \/ ~Get(live, "eye")
            /\ encoder # NoEncoder /\ encoder' = NoEncoder
            /\ UNCHANGED <<live, file, dirty, connection>>
         \/ /\ Missing(source) /\ Get(live, "eye")
            /\ encoder' = NoEncoder /\ connection' = offered
            /\ ListSources
         \/ /\ source # NoSource /\ Get(live, "eye") /\ ~Missing(source)
            /\ connection' = offered /\ dirty' = FALSE
            /\ \/ /\ offered # NoConnection
                  /\ encoder' = EgressSettings(offered)
               \/ encoder' = NoEncoder
            /\ UNCHANGED <<live, file>>
  /\ UNCHANGED <<dialog, open, offered, world, counts>>

Offers == {NoConnection} \cup
  {[id |-> i, rev |-> r, min |-> l.min, max |-> l.max] :
     i \in 1 .. MaxOffers, r \in 1 .. MaxOffers, l \in Limits}

Next ==
  \/ \E s \in Sources \cup {NoSource, "program"} : SetSource(s)
  \/ SetVisible \/ SetPrefer
  \/ Show \/ Accept \/ Cancel
  \/ \E e \in Encoders : EditEncoder(e)
  \/ \E b \in Bitrates : EditBitrate(b)
  \/ \E s \in Sources : SourcesChange(s)
  \/ ReloadProperties \/ UpdateSourceList \/ Recreate
  \/ \E c \in Offers : ServerOffers(c)
  \/ UplinkReady \/ Start

Spec == Init /\ [][Next]_vars

-----------------------------------------------------------------------------
(* Properties.                                                               *)

Keys == {"encoder", "bitrate", "source", "eye"}

TypeOK ==
  /\ prefer \in BOOLEAN /\ open \in BOOLEAN /\ dirty \in BOOLEAN
  /\ \A data \in {live, dialog} :
       Keys \subseteq DOMAIN data.values \cup DOMAIN data.defaults \cup {"source"}
  /\ present \subseteq Sources /\ posted \subseteq {"reload", "list"}
  /\ offered \in Offers /\ connection \in Offers
  /\ encoder.bitrate \in Nat /\ encoder.for \in Offers

\* The user's choice of the encoder, of the eye and of the source is there again after a
\* restart or a crash at any moment, whatever was going on in the dialog: every change is
\* saved with all there is.  Not so the bitrate: the dialog may put the preset of another
\* encoder in its place and save that (OutputPresets.cfg).
ChoicesDurable ==
  [][Recreate /\ file # NoFile =>
       /\ \A key \in {"encoder", "eye"} : Get(live', key) = Get(live, key)
       /\ Missing(Get(live, "source")) \/ Get(live', "source") = Get(live, "source")]_vars

\* Pressing OK in the dialog does not undo what the widget's own controls have set,
\* although they are in the dialog's copy (showEvent takes the values over); only a source
\* that went away meanwhile comes back.
ControlsKept ==
  [][Accept => /\ Get(live', "eye") = Get(live, "eye")
               /\ Get(live, "source") \in {NoSource, Get(live', "source")}]_vars

\* An output whose settings are not out of date encodes within the limits of the
\* connection it knows of, after any revisions and edits.
WithinLimits ==
  encoder # NoEncoder /\ ~dirty /\ connection # NoConnection
    => \/ connection.min > connection.max
       \/ encoder.bitrate \in connection.min .. connection.max

\* What was entered in the dialog is what the output works with, until the user
\* enters something else ("Neccessary to apply default settings": and no more).
EnteredKept ==
  [][Get(live', "bitrate") # Get(live, "bitrate") => Accept]_vars
=============================================================================
