------------------------ MODULE OutputSettings_proofs ------------------------
(***************************************************************************)
(* Proofs about OutputSettings, for any encoders, presets, bitrates,       *)
(* sources and limits: the bitrate of an output that is up to date is one  *)
(* its connection allows, and neither a restart nor the dialog takes back  *)
(* what was set.                                                           *)
(***************************************************************************)
EXTENDS OutputSettings, TLAPS

\* A layer of an obs_data in which a bitrate, if there is one, is a number.
Numeric(f) == "bitrate" \in DOMAIN f => f["bitrate"] \in Nat

\* An obs_data that has a value for the bitrate.
Data(d) ==
  /\ d = [values |-> d.values, defaults |-> d.defaults]
  /\ "bitrate" \in DOMAIN d.values
  /\ Numeric(d.values) /\ Numeric(d.defaults)

IInv ==
  /\ Data(live) /\ Data(dialog) /\ Numeric(file)
  /\ offered \in Offers /\ connection \in Offers
  /\ WithinLimits

-----------------------------------------------------------------------------
(* obs_data.                                                                 *)

LEMMA Layers ==
  ASSUME NEW f, NEW g
  PROVE  /\ DOMAIN Over(f, g) = DOMAIN f \cup DOMAIN g
         /\ Numeric(f) /\ Numeric(g) => Numeric(Over(f, g))
BY DEF Over, Numeric

LEMMA NumericLayers ==
  /\ Numeric(<<>>)
  /\ \A s : Numeric([source |-> s]) /\ Numeric([eye |-> s]) /\ Numeric([encoder |-> s])
  /\ \A b \in Nat : Numeric([bitrate |-> b])
BY DEF Numeric

LEMMA PresetNumeric == ASSUME NEW e PROVE Numeric(PresetOf(e))
BY SettingsConstants, NumericLayers DEF PresetOf

LEMMA ApplyData ==
  ASSUME NEW d, Data(d), NEW v, Numeric(v)
  PROVE  /\ Data(Apply(d, v)) /\ Apply(d, v).values = Over(v, d.values)
         /\ Apply(d, v).defaults = d.defaults
<1> DEFINE x == Over(v, d.values)
           a == [d EXCEPT !.values = x]
<1>1. Numeric(x) /\ "bitrate" \in DOMAIN x
  BY Layers DEF Data
<1> HIDE DEF x
<1>2. a = [values |-> x, defaults |-> d.defaults]
  BY DEF Data
<1>3. a.values = x /\ a.defaults = d.defaults
  BY <1>2
<1> HIDE DEF a
<1>4. Data(a)
  BY <1>1, <1>2, <1>3 DEF Data
<1> QED
  BY <1>3, <1>4 DEF Apply, a, x

LEMMA WithDefaultsData ==
  ASSUME NEW d, Data(d), NEW v, Numeric(v)
  PROVE  Data(WithDefaults(d, v))
<1> DEFINE x == Over(v, d.defaults)
           a == [d EXCEPT !.defaults = x]
<1>1. Numeric(x)
  BY Layers DEF Data
<1> HIDE DEF x
<1>2. a = [values |-> d.values, defaults |-> x]
  BY DEF Data
<1>3. a.values = d.values /\ a.defaults = x
  BY <1>2
<1> HIDE DEF a
<1>4. Data(a)
  BY <1>1, <1>2, <1>3 DEF Data
<1> QED
  BY <1>4 DEF WithDefaults, a, x

LEMMA DefaultsNumeric ==
  ASSUME NEW hardware
  PROVE  /\ Numeric(EncoderDefaults) /\ Numeric(Defaults(hardware))
         /\ "bitrate" \in DOMAIN Defaults(hardware)
<1>1. Numeric(EncoderDefaults) /\ DOMAIN EncoderDefaults = {"bitrate"}
  BY SettingsConstants, NumericLayers DEF EncoderDefaults
<1> DEFINE g == [encoder |-> DefaultEncoder(hardware), eye |-> TRUE]
<1>2. Numeric(g)
  BY DEF Numeric
<1>3. Defaults(hardware) = Over(EncoderDefaults, g)
  BY DEF Defaults
<1> HIDE DEF g
<1>4. DOMAIN Over(EncoderDefaults, g) = {"bitrate"} \cup DOMAIN g
  BY <1>1, Layers
<1>5. Numeric(Over(EncoderDefaults, g))
  BY <1>1, <1>2, Layers
<1> QED
  BY <1>1, <1>3, <1>4, <1>5

LEMMA EncoderChangedData == ASSUME NEW d, Data(d) PROVE Data(EncoderChanged(d))
<1>1. Data(WithDefaults(d, EncoderDefaults))
  BY WithDefaultsData, DefaultsNumeric
<1> QED
  BY <1>1, PresetNumeric, ApplyData DEF EncoderChanged

LEMMA LoadedData ==
  ASSUME NEW hardware, NEW saved, Numeric(saved)
  PROVE  Data(Loaded(hardware, saved))
<1> DEFINE defaults == Defaults(hardware)
           preset   == PresetOf(DefaultEncoder(hardware))
           values   == Over(saved, Over(preset, defaults))
<1>1. Numeric(defaults) /\ "bitrate" \in DOMAIN defaults /\ Numeric(preset)
  BY DefaultsNumeric, PresetNumeric
<1> HIDE DEF defaults, preset
<1>2. Numeric(values) /\ "bitrate" \in DOMAIN values
  <2> DEFINE under == Over(preset, defaults)
  <2>1. Numeric(under)
    BY <1>1, Layers
  <2>2. DOMAIN under = DOMAIN preset \cup DOMAIN defaults
    BY Layers
  <2>3. "bitrate" \in DOMAIN under
    BY <1>1, <2>2
  <2> HIDE DEF under
  <2>4. Numeric(Over(saved, under))
    BY <2>1, Layers
  <2>5. DOMAIN Over(saved, under) = DOMAIN saved \cup DOMAIN under
    BY Layers
  <2> QED
    BY <2>3, <2>4, <2>5 DEF under
<1> HIDE DEF values
<1>3. Data([values |-> values, defaults |-> defaults])
  BY <1>1, <1>2 DEF Data
<1> QED
  BY <1>3 DEF Loaded, values, preset, defaults

LEMMA DialogData ==
  ASSUME NEW hardware, NEW d, Data(d)
  PROVE  Data(DialogOf(d, hardware))
<1> DEFINE e == [values |-> <<>>, defaults |-> Defaults(hardware)]
           x == Over(d.values, <<>>)
           a == [e EXCEPT !.values = x]
<1>1. Numeric(x) /\ "bitrate" \in DOMAIN x
  BY Layers, NumericLayers DEF Data
<1> HIDE DEF x
<1>2. a = [values |-> x, defaults |-> Defaults(hardware)]
  OBVIOUS
<1>3. a.values = x /\ a.defaults = Defaults(hardware)
  BY <1>2
<1> HIDE DEF a
<1>4. Data(a)
  BY <1>1, <1>2, <1>3, DefaultsNumeric DEF Data
<1>5. DialogOf(d, hardware) = a
  BY DEF DialogOf, Apply, a, x
<1> QED
  BY <1>4, <1>5

LEMMA BitrateIsNumber == ASSUME NEW d, Data(d) PROVE Get(d, "bitrate") \in Nat
BY DEF Data, Numeric, Get

-----------------------------------------------------------------------------
(* The invariant.                                                            *)

LEMMA InitIInv == Init => IInv
<1> SUFFICES ASSUME Init PROVE IInv
  OBVIOUS
<1>1. Numeric(NoFile)
  BY NumericLayers DEF NoFile
<1>2. Data(live)
  BY <1>1, LoadedData DEF Init
<1>3. Data(dialog)
  BY <1>2, DialogData DEF Init
<1> QED
  BY <1>1, <1>2, <1>3 DEF Init, IInv, Offers, WithinLimits

\* Listing the sources changes a value that is no bitrate.
LEMMA ListSourcesData ==
  ASSUME IInv, ListSources
  PROVE  Data(live') /\ Numeric(file')
<1>1. Data(Apply(live, [source |-> NoSource]))
  BY ApplyData, NumericLayers DEF IInv
<1> QED
  BY <1>1 DEF ListSources, Saved, IInv, Data

\* An encoder made for a connection keeps to its limits.
LEMMA EncoderWithinLimits ==
  ASSUME NEW c \in Offers, c # NoConnection, Data(live)
  PROVE  LET b == EgressSettings(c).bitrate IN c.min > c.max \/ b \in c.min .. c.max
<1>1. c.min \in Nat /\ c.max \in Nat
  BY SettingsConstants DEF Offers
<1>2. Get(live, "bitrate") \in Nat
  BY BitrateIsNumber
<1>3. EgressSettings(c).bitrate = LimitedBitrate(Get(live, "bitrate"), c)
  BY DEF EgressSettings
<1> QED
  BY <1>1, <1>2, <1>3 DEF LimitedBitrate

\* The steps that touch neither the encoder nor what it is made for.
LEMMA SameStream ==
  ASSUME IInv, Data(live'), Data(dialog'), Numeric(file'), UNCHANGED stream,
         dirty' = dirty \/ dirty' = TRUE
  PROVE  IInv'
BY DEF IInv, stream, WithinLimits

LEMMA EditStep ==
  ASSUME IInv,
         \/ \E s \in Sources \cup {NoSource, "program"} : SetSource(s)
         \/ SetVisible \/ SetPrefer
  PROVE  IInv'
<1>1. CASE SetPrefer
  BY <1>1, SameStream DEF SetPrefer, copies, IInv
<1>2. ASSUME NEW v, Numeric(v), live' = Apply(live, v), file' = live'.values, dirty' = TRUE,
             dialog' = dialog, UNCHANGED stream
      PROVE  IInv'
  <2>1. Data(live')
    BY <1>2, ApplyData DEF IInv
  <2> QED
    BY <1>2, <2>1, SameStream DEF IInv, Data
<1>3. CASE SetVisible
  BY <1>2, <1>3, NumericLayers DEF SetVisible, Saved
<1>4. ASSUME NEW s, SetSource(s) PROVE IInv'
  BY <1>2, <1>4, NumericLayers DEF SetSource, Saved
<1> QED
  BY <1>1, <1>3, <1>4

LEMMA DialogStep ==
  ASSUME IInv,
         \/ Show \/ Accept \/ Cancel
         \/ \E e \in Encoders : EditEncoder(e)
         \/ \E b \in Bitrates : EditBitrate(b)
  PROVE  IInv'
<1>1. CASE Show
  <2>1. Data(live')
    BY <1>1, EncoderChangedData DEF Show, Reloaded, IInv
  <2>2. Data(dialog')
    BY <1>1, <2>1, ApplyData DEF Show, IInv, Data
  <2> QED
    BY <1>1, <2>1, <2>2, SameStream DEF Show, IInv
<1>2. CASE Accept
  <2>1. Numeric(Over(dialog.values, dialog.defaults))
    BY Layers DEF IInv, Data
  <2>2. Data(live')
    BY <1>2, <2>1, ApplyData DEF Accept, IInv
  <2> QED
    BY <1>2, <2>2, SameStream DEF Accept, Saved, IInv, Data
<1>3. CASE Cancel
  BY <1>3, SameStream DEF Cancel, copies, IInv
<1>4. ASSUME NEW e \in Encoders, EditEncoder(e) PROVE IInv'
  <2>1. Data(Apply(dialog, [encoder |-> e]))
    BY ApplyData, NumericLayers DEF IInv
  <2>2. Data(dialog')
    BY <1>4, <2>1, EncoderChangedData DEF EditEncoder
  <2> QED
    BY <1>4, <2>2, SameStream DEF EditEncoder, IInv
<1>5. ASSUME NEW b \in Bitrates, EditBitrate(b) PROVE IInv'
  <2>1. Numeric([bitrate |-> b])
    BY SettingsConstants, NumericLayers
  <2>2. Data(dialog')
    BY <1>5, <2>1, ApplyData DEF EditBitrate, IInv
  <2> QED
    BY <1>5, <2>2, SameStream DEF EditBitrate, IInv
<1> QED
  BY <1>1, <1>2, <1>3, <1>4, <1>5

LEMMA HostStep ==
  ASSUME IInv,
         \/ \E s \in Sources : SourcesChange(s)
         \/ ReloadProperties \/ UpdateSourceList \/ Recreate
  PROVE  IInv'
<1>1. ASSUME NEW s, SourcesChange(s) PROVE IInv'
  BY <1>1, SameStream DEF SourcesChange, copies, IInv
<1>2. CASE ReloadProperties
  <2>1. Data(live')
    BY <1>2, EncoderChangedData DEF ReloadProperties, Reloaded, IInv
  <2> QED
    BY <1>2, <2>1, SameStream DEF ReloadProperties, IInv
<1>3. CASE UpdateSourceList
  <2>1. Data(live') /\ Numeric(file')
    BY <1>3, ListSourcesData DEF UpdateSourceList
  <2>2. dirty' = dirty \/ dirty' = TRUE
    BY <1>3 DEF UpdateSourceList, ListSources, Saved
  <2> QED
    BY <1>3, <2>1, <2>2, SameStream DEF UpdateSourceList, IInv
<1>4. CASE Recreate
  <2> DEFINE made == Loaded(prefer, file)
             kept == IF Missing(Get(made, "source")) THEN Apply(made, [source |-> NoSource]) ELSE made
  <2>1. Data(made)
    BY LoadedData DEF IInv
  <2>2. Data(kept)
    BY <2>1, ApplyData, NumericLayers
  <2>3. /\ dialog' = DialogOf(made, prefer) /\ live' = kept
        /\ file' = (IF kept # made THEN kept.values ELSE file)
        /\ encoder' = NoEncoder /\ connection' = NoConnection /\ offered' = offered
    BY <1>4 DEF Recreate
  <2> HIDE DEF made, kept
  <2>4. Data(dialog') /\ Data(live') /\ Numeric(file')
    BY <2>1, <2>2, <2>3, DialogData DEF IInv, Data
  <2> QED
    BY <2>3, <2>4 DEF IInv, Offers, WithinLimits
<1> QED
  BY <1>1, <1>2, <1>3, <1>4

LEMMA StartStep == IInv /\ Start => IInv'
<1> SUFFICES ASSUME IInv, Start PROVE IInv'
  OBVIOUS
<1>1. Data(live') /\ Numeric(file') /\ dialog' = dialog /\ offered' = offered
  BY ListSourcesData DEF Start, IInv
<1>2. connection' = connection \/ connection' = offered
  BY DEF Start
<1>3. WithinLimits'
  <2>1. CASE encoder' = NoEncoder
    BY <2>1 DEF WithinLimits
  <2>2. CASE /\ connection' = offered /\ offered # NoConnection
             /\ encoder' = EgressSettings(offered)
    <3>1. LET b == EgressSettings(offered).bitrate
          IN  offered.min > offered.max \/ b \in offered.min .. offered.max
      BY <2>2, EncoderWithinLimits DEF IInv
    <3> QED
      BY <2>2, <3>1 DEF WithinLimits
  <2> QED
    BY <2>1, <2>2 DEF Start
<1> QED
  BY <1>1, <1>2, <1>3 DEF IInv

LEMMA StepIInv == IInv /\ [Next]_vars => IInv'
<1> SUFFICES ASSUME IInv, [Next]_vars PROVE IInv'
  OBVIOUS
<1>1. CASE UNCHANGED vars
  BY <1>1, SameStream DEF vars, copies, IInv
<1>2. ASSUME NEW c \in Offers, ServerOffers(c) PROVE IInv'
  BY <1>2 DEF ServerOffers, copies, IInv, WithinLimits
<1>3. CASE UplinkReady
  BY <1>3 DEF UplinkReady, copies, IInv, WithinLimits
<1> QED
  BY <1>1, <1>2, <1>3, EditStep, DialogStep, HostStep, StartStep DEF Next

-----------------------------------------------------------------------------
(* Theorems.                                                                 *)

\* All copies have a bitrate at any time, so that start() never limits an undefined one.
THEOREM SettingsInvariant == Spec => []IInv
BY InitIInv, StepIInv, PTL DEF Spec

\* An output that is up to date with a connection encodes within its limits, whatever
\* was entered, read from a file or from a preset (createEgressSettings).
THEOREM BitrateWithinLimits == Spec => []WithinLimits
<1>1. IInv => WithinLimits
  BY DEF IInv
<1> QED
  BY <1>1, SettingsInvariant, PTL

-----------------------------------------------------------------------------
(* What is not a bitrate.                                                    *)

\* The keys neither presets nor the encoder's defaults have.
Own == {"encoder", "eye", "source"}

\* Two layers that agree on them.
Same(f, g) ==
  \A key \in Own : (key \in DOMAIN f <=> key \in DOMAIN g) /\ (key \in DOMAIN f => f[key] = g[key])

\* Of an obs_data: all but the source have a value, and that has no default.
Shape(d) == "source" \notin DOMAIN d.defaults /\ {"encoder", "eye"} \subseteq DOMAIN d.values

\* A file is what the output works with, so far as it is not given by presets.
FileAgrees == file # NoFile => Same(file, live.values)

\* The copy of an open dialog has what the controls beside it have set.
DialogAgrees ==
  open => /\ "eye" \in DOMAIN dialog.values /\ dialog.values["eye"] = live.values["eye"]
          /\ Get(live, "source") # NoSource =>
               "source" \in DOMAIN dialog.values /\ dialog.values["source"] = live.values["source"]

DInv == IInv /\ Shape(live) /\ FileAgrees /\ DialogAgrees

LEMMA OverAt ==
  ASSUME NEW f, NEW g
  PROVE  /\ \A key \in DOMAIN f : Over(f, g)[key] = f[key]
         /\ \A key \in DOMAIN g : key \notin DOMAIN f => Over(f, g)[key] = g[key]
         /\ \A key : key \in DOMAIN Over(f, g) <=> key \in DOMAIN f \/ key \in DOMAIN g
BY DEF Over

LEMMA SameLayers ==
  /\ \A f : Same(f, f)
  /\ \A f, g : Same(f, g) => Same(g, f)
  /\ \A f, g, h : Same(f, g) /\ Same(g, h) => Same(f, h)
BY DEF Same

\* The presets have only bitrates, and so have the encoder's defaults.
LEMMA PresetKeys ==
  /\ \A e : DOMAIN PresetOf(e) \subseteq {"bitrate"}
  /\ DOMAIN EncoderDefaults = {"bitrate"}
<1>1. ASSUME NEW e PROVE DOMAIN PresetOf(e) \subseteq {"bitrate"}
  BY DEF PresetOf
<1>2. DOMAIN EncoderDefaults = {"bitrate"}
  BY DEF EncoderDefaults
<1> QED
  BY <1>1, <1>2

LEMMA DefaultKeys ==
  ASSUME NEW hardware
  PROVE  DOMAIN Defaults(hardware) = {"bitrate", "encoder", "eye"}
<1> DEFINE g == [encoder |-> DefaultEncoder(hardware), eye |-> TRUE]
<1>1. DOMAIN g = {"encoder", "eye"} /\ Defaults(hardware) = Over(EncoderDefaults, g)
  BY DEF Defaults
<1> HIDE DEF g
<1>2. DOMAIN Over(EncoderDefaults, g) = {"bitrate"} \cup DOMAIN g
  BY PresetKeys, Layers
<1> QED
  BY <1>1, <1>2

\* Values under other keys leave these as they are.
LEMMA OverSame ==
  ASSUME NEW f, NEW g, DOMAIN f \subseteq {"bitrate"}
  PROVE  Same(Over(f, g), g)
<1> SUFFICES ASSUME NEW key \in Own
             PROVE  /\ key \in DOMAIN Over(f, g) <=> key \in DOMAIN g
                    /\ key \in DOMAIN Over(f, g) => Over(f, g)[key] = g[key]
  BY DEF Same
<1>1. key \notin DOMAIN f
  BY DEF Own
<1> QED
  BY <1>1, OverAt

LEMMA WithDefaultsLayers ==
  ASSUME NEW d, Data(d), NEW v
  PROVE  WithDefaults(d, v).values = d.values /\ WithDefaults(d, v).defaults = Over(v, d.defaults)
<1> DEFINE x == Over(v, d.defaults)
<1> HIDE DEF x
<1>1. [d EXCEPT !.defaults = x] = [values |-> d.values, defaults |-> x]
  BY DEF Data
<1> QED
  BY <1>1 DEF WithDefaults, x

LEMMA ReloadedSame ==
  ASSUME NEW d, Data(d)
  PROVE  /\ Data(EncoderChanged(d)) /\ Same(EncoderChanged(d).values, d.values)
         /\ Shape(d) => Shape(EncoderChanged(d))
<1> DEFINE w == WithDefaults(d, EncoderDefaults)
           p == PresetOf(Get(d, "encoder"))
<1>1. Data(w) /\ w.values = d.values /\ w.defaults = Over(EncoderDefaults, d.defaults)
  BY WithDefaultsData, WithDefaultsLayers, DefaultsNumeric
<1> HIDE DEF w
<1>2. Numeric(p) /\ DOMAIN p \subseteq {"bitrate"}
  BY PresetNumeric, PresetKeys
<1> HIDE DEF p
<1>3. Data(Apply(w, p)) /\ Apply(w, p).values = Over(p, d.values) /\ Apply(w, p).defaults = w.defaults
  BY <1>1, <1>2, ApplyData
<1>4. EncoderChanged(d) = Apply(w, p)
  BY DEF EncoderChanged, w, p
<1>5. Same(Over(p, d.values), d.values)
  BY <1>2, OverSame
<1>6. "source" \in DOMAIN w.defaults => "source" \in DOMAIN d.defaults
  BY <1>1, OverAt, PresetKeys
<1> QED
  BY <1>3, <1>4, <1>5, <1>6 DEF Shape, Same, Own

\* What is read of these keys, from values alone.
LEMMA GetOwn ==
  ASSUME NEW d, Shape(d)
  PROVE  /\ \A key \in {"encoder", "eye"} : Get(d, key) = d.values[key]
         /\ Get(d, "source") = IF "source" \in DOMAIN d.values THEN d.values["source"] ELSE NoSource
BY DEF Shape, Get

LEMMA GetSame ==
  ASSUME NEW d, NEW e, Shape(d), Shape(e), Same(d.values, e.values)
  PROVE  \A key \in Own : Get(d, key) = Get(e, key)
BY GetOwn DEF Same, Own, Shape

\* A setting of the controls or the dialog is saved, all of it.
LEMMA AppliedShape ==
  ASSUME NEW d, Data(d), Shape(d), NEW v, Numeric(v)
  PROVE  /\ Data(Apply(d, v)) /\ Shape(Apply(d, v)) /\ Apply(d, v).values = Over(v, d.values)
         /\ Apply(d, v).defaults = d.defaults
<1>1. Data(Apply(d, v)) /\ Apply(d, v).values = Over(v, d.values) /\ Apply(d, v).defaults = d.defaults
  BY ApplyData
<1> QED
  BY <1>1, OverAt DEF Shape

\* A new output has what was saved, and defaults for the rest.
LEMMA LoadedShape ==
  ASSUME NEW hardware, NEW saved, Numeric(saved)
  PROVE  LET made == Loaded(hardware, saved)
         IN  /\ Data(made) /\ Shape(made)
             /\ {"encoder", "eye"} \subseteq DOMAIN saved => Same(made.values, saved)
<1> DEFINE defaults == Defaults(hardware)
           preset   == PresetOf(DefaultEncoder(hardware))
           under    == Over(preset, defaults)
           values   == Over(saved, under)
           made     == Loaded(hardware, saved)
<1>1. Data(made)
  BY LoadedData
<1>2. made = [values |-> values, defaults |-> defaults]
  BY DEF Loaded
<1>3. DOMAIN defaults = {"bitrate", "encoder", "eye"} /\ DOMAIN preset \subseteq {"bitrate"}
  BY DefaultKeys, PresetKeys
<1> HIDE DEF made, defaults, preset
<1>4. DOMAIN under = {"bitrate", "encoder", "eye"}
  BY <1>3, Layers
<1> HIDE DEF under
<1>5. /\ \A key : key \in DOMAIN values <=> key \in DOMAIN saved \/ key \in DOMAIN under
      /\ \A key \in DOMAIN saved : values[key] = saved[key]
  BY OverAt
<1> HIDE DEF values
<1>6. made.values = values /\ made.defaults = defaults
  BY <1>2
<1>7. Shape(made)
  BY <1>3, <1>4, <1>5, <1>6 DEF Shape
<1>8. {"encoder", "eye"} \subseteq DOMAIN saved => Same(values, saved)
  BY <1>4, <1>5 DEF Same, Own
<1> QED
  BY <1>1, <1>6, <1>7, <1>8 DEF made

LEMMA InitDInv == Init => DInv
<1> SUFFICES ASSUME Init PROVE DInv
  OBVIOUS
<1>1. Shape(live)
  BY NumericLayers, LoadedShape DEF Init, NoFile
<1> QED
  BY <1>1, InitIInv DEF Init, DInv, FileAgrees, DialogAgrees

\* What is saved is what the output works with.
LEMMA SavedAgrees ==
  ASSUME Saved PROVE FileAgrees'
BY SameLayers DEF Saved, FileAgrees

\* The steps that set neither of these keys.
LEMMA SameOwn ==
  ASSUME DInv, Shape(live'), Same(live'.values, live.values), file' = file \/ Saved,
         open' => open /\ Same(dialog'.values, dialog.values)
  PROVE  Shape(live)' /\ FileAgrees' /\ DialogAgrees'
<1>1. FileAgrees'
  <2>1. CASE file' = file
    BY <2>1, SameLayers DEF DInv, FileAgrees
  <2> QED
    BY <2>1, SavedAgrees
<1>2. ASSUME open' PROVE DialogAgrees'
  <2>1. open /\ Same(dialog'.values, dialog.values)
    BY <1>2
  <2>2. Get(live', "source") = Get(live, "source")
    BY GetSame DEF DInv, Own
  <2>3. /\ "eye" \in DOMAIN dialog.values /\ dialog.values["eye"] = live.values["eye"]
        /\ Get(live, "source") # NoSource =>
             "source" \in DOMAIN dialog.values /\ dialog.values["source"] = live.values["source"]
    BY <2>1 DEF DInv, DialogAgrees
  <2>4. Get(live, "source") # NoSource => "source" \in DOMAIN live.values
    BY GetOwn DEF DInv
  <2>5. /\ "eye" \in DOMAIN dialog'.values /\ dialog'.values["eye"] = dialog.values["eye"]
        /\ live'.values["eye"] = live.values["eye"]
        /\ "source" \in DOMAIN dialog.values =>
             "source" \in DOMAIN dialog'.values /\ dialog'.values["source"] = dialog.values["source"]
        /\ "source" \in DOMAIN live.values => live'.values["source"] = live.values["source"]
    BY <2>1, <2>3 DEF Same, Own, DInv, Shape
  <2> QED
    BY <2>2, <2>3, <2>4, <2>5 DEF DialogAgrees
<1> QED
  BY <1>1, <1>2 DEF DialogAgrees

\* A list of sources that lost the output's one.
LEMMA ListSourcesAgrees ==
  ASSUME DInv, ListSources, UNCHANGED <<dialog, open>>
  PROVE  Shape(live)' /\ FileAgrees' /\ DialogAgrees'
<1>1. CASE UNCHANGED <<live, file>>
  BY <1>1, SameOwn, SameLayers DEF DInv
<1>2. CASE live' = Apply(live, [source |-> NoSource]) /\ Saved
  <2> DEFINE v == [source |-> NoSource]
  <2>1. Numeric(v) /\ DOMAIN v = {"source"} /\ v["source"] = NoSource
    BY NumericLayers
  <2> HIDE DEF v
  <2>2. Shape(live') /\ live'.values = Over(v, live.values)
    BY <1>2, <2>1, AppliedShape DEF DInv, IInv, v
  <2>3. live'.values["source"] = NoSource /\ "source" \in DOMAIN live'.values
    BY <2>1, <2>2, OverAt
  <2>4. live'.values["eye"] = live.values["eye"]
    BY <2>1, <2>2, OverAt DEF DInv, Shape
  <2>5. Get(live', "source") = NoSource
    BY <2>2, <2>3, GetOwn
  <2> QED
    BY <1>2, <2>2, <2>4, <2>5, SavedAgrees DEF DInv, DialogAgrees
<1> QED
  BY <1>1, <1>2 DEF ListSources

LEMMA DialogStepAgrees ==
  ASSUME DInv,
         \/ Show \/ Accept \/ Cancel
         \/ \E e \in Encoders : EditEncoder(e)
         \/ \E b \in Bitrates : EditBitrate(b)
  PROVE  Shape(live)' /\ FileAgrees' /\ DialogAgrees'
<1>0. Data(live) /\ Data(dialog) /\ Shape(live)
  BY DEF DInv, IInv
<1>1. CASE Show
  <2>1. live' = EncoderChanged(live) /\ dialog' = Apply(dialog, live'.values) /\ file' = file
    BY <1>1 DEF Show, Reloaded
  <2>2. Data(live') /\ Same(live'.values, live.values) /\ Shape(live')
    BY <1>0, <2>1, ReloadedSame
  <2>3. FileAgrees'
    BY <2>1, <2>2, SameLayers DEF DInv, FileAgrees
  <2>4. dialog'.values = Over(live'.values, dialog.values)
    BY <1>0, <2>1, <2>2, ApplyData DEF Data
  <2>5. \A key \in DOMAIN live'.values : key \in DOMAIN dialog'.values /\ dialog'.values[key] = live'.values[key]
    BY <2>4, OverAt
  <2>6. Get(live', "source") # NoSource => "source" \in DOMAIN live'.values
    BY <2>2, GetOwn
  <2>7. DialogAgrees'
    BY <2>2, <2>5, <2>6 DEF DialogAgrees, Shape
  <2> QED
    BY <2>2, <2>3, <2>7
<1>2. CASE Accept
  <2>1. Numeric(Over(dialog.values, dialog.defaults))
    BY <1>0, Layers DEF Data
  <2>2. Shape(live')
    BY <1>0, <1>2, <2>1, AppliedShape DEF Accept
  <2> QED
    BY <1>2, <2>2, SavedAgrees DEF Accept, DialogAgrees
<1>3. CASE Cancel
  BY <1>0, <1>3, SameLayers, SameOwn DEF Cancel, copies
<1>4. ASSUME NEW e \in Encoders, EditEncoder(e)
      PROVE  Shape(live)' /\ FileAgrees' /\ DialogAgrees'
  <2> DEFINE v == [encoder |-> e]
             d == Apply(dialog, v)
  <2>1. Numeric(v) /\ DOMAIN v = {"encoder"}
    BY NumericLayers
  <2> HIDE DEF v
  <2>2. Data(d) /\ d.values = Over(v, dialog.values)
    BY <1>0, <2>1, ApplyData
  <2> HIDE DEF d
  <2>3. dialog' = EncoderChanged(d) /\ UNCHANGED <<live, file, open>>
    BY <1>4 DEF EditEncoder, d, v
  <2>4. Same(dialog'.values, d.values)
    BY <2>2, <2>3, ReloadedSame
  <2>5. \A key \in {"eye", "source"} : /\ key \in DOMAIN dialog'.values <=> key \in DOMAIN dialog.values
                                       /\ key \in DOMAIN dialog.values => dialog'.values[key] = dialog.values[key]
    BY <2>1, <2>2, <2>4, OverAt DEF Same, Own
  <2>6. DialogAgrees'
    BY <2>3, <2>5 DEF DInv, DialogAgrees
  <2> QED
    BY <1>0, <2>3, <2>6 DEF DInv, FileAgrees
<1>5. ASSUME NEW b \in Bitrates, EditBitrate(b)
      PROVE  Shape(live)' /\ FileAgrees' /\ DialogAgrees'
  <2> DEFINE v == [bitrate |-> b]
  <2>1. Numeric(v) /\ DOMAIN v = {"bitrate"}
    BY SettingsConstants, NumericLayers
  <2> HIDE DEF v
  <2>2. dialog' = Apply(dialog, v) /\ UNCHANGED <<live, file, open>>
    BY <1>5 DEF EditBitrate, v
  <2>3. dialog'.values = Over(v, dialog.values)
    BY <1>0, <2>1, <2>2, ApplyData
  <2>4. Same(dialog'.values, dialog.values)
    BY <2>1, <2>3, OverSame
  <2> QED
    BY <1>0, <2>2, <2>4, SameLayers, SameOwn
<1> QED
  BY <1>1, <1>2, <1>3, <1>4, <1>5

\* A new output: what the file has, but for a source that is gone.
LEMMA RecreatedKeeps ==
  ASSUME DInv, Recreate
  PROVE  /\ Shape(live)' /\ FileAgrees' /\ ~open'
         /\ file # NoFile =>
              /\ \A key \in {"encoder", "eye"} : Get(live', key) = Get(live, key)
              /\ Missing(Get(live, "source")) \/ Get(live', "source") = Get(live, "source")
<1> DEFINE made == Loaded(prefer, file)
           v    == [source |-> NoSource]
           gone == Missing(Get(made, "source"))
           kept == IF gone THEN Apply(made, v) ELSE made
<1>1. live' = kept /\ file' = (IF kept # made THEN kept.values ELSE file) /\ open' = FALSE
  BY DEF Recreate
<1>2. Data(made) /\ Shape(made) /\ ({"encoder", "eye"} \subseteq DOMAIN file => Same(made.values, file))
  BY LoadedShape DEF DInv, IInv
<1> HIDE DEF made
<1>3. Numeric(v) /\ DOMAIN v = {"source"}
  BY NumericLayers
<1> HIDE DEF v
<1>4. gone => Data(kept) /\ Shape(kept) /\ kept.values = Over(v, made.values)
  BY <1>2, <1>3, AppliedShape
<1>5. ~gone => kept = made
  OBVIOUS
<1> HIDE DEF kept
<1>6. Shape(live')
  BY <1>1, <1>2, <1>4, <1>5
<1>7. ASSUME file # NoFile
      PROVE  Same(made.values, file) /\ Same(made.values, live.values)
  <2>1. Same(file, live.values)
    BY <1>7 DEF DInv, FileAgrees
  <2>2. {"encoder", "eye"} \subseteq DOMAIN file
    BY <2>1 DEF Same, Own, DInv, Shape
  <2> QED
    BY <1>2, <2>1, <2>2, SameLayers
<1>8. FileAgrees'
  <2>1. CASE kept # made
    BY <1>1, <2>1, SameLayers DEF FileAgrees
  <2>2. CASE kept = made
    BY <1>1, <1>7, <2>2, SameLayers DEF FileAgrees
  <2> QED
    BY <2>1, <2>2
<1>9. ASSUME file # NoFile
      PROVE  /\ \A key \in {"encoder", "eye"} : Get(live', key) = Get(live, key)
             /\ Missing(Get(live, "source")) \/ Get(live', "source") = Get(live, "source")
  <2>1. \A key \in Own : Get(made, key) = Get(live, key)
    BY <1>2, <1>7, <1>9, GetSame DEF DInv
  <2>2. CASE ~gone
    BY <1>1, <1>5, <2>1, <2>2 DEF Own
  <2>3. CASE gone
    <3>1. \A key \in {"encoder", "eye"} : kept.values[key] = made.values[key]
      BY <1>2, <1>3, <1>4, <2>3, OverAt DEF Shape
    <3>2. \A key \in {"encoder", "eye"} : Get(kept, key) = Get(made, key)
      BY <1>2, <1>4, <2>3, <3>1, GetOwn
    <3>3. Missing(Get(live, "source"))
      BY <2>1, <2>3 DEF Own
    <3> QED
      BY <1>1, <2>1, <3>2, <3>3 DEF Own
  <2> QED
    BY <2>2, <2>3
<1> QED
  BY <1>1, <1>6, <1>8, <1>9

LEMMA StepDInv == DInv /\ [Next]_vars => DInv'
<1> SUFFICES ASSUME DInv, [Next]_vars PROVE Shape(live)' /\ FileAgrees' /\ DialogAgrees'
  BY StepIInv DEF DInv
<1>0. Data(live) /\ Shape(live)
  BY DEF DInv, IInv
<1>1. ASSUME NEW v, Numeric(v), live' = Apply(live, v), Saved, ~open, open' = open
      PROVE  Shape(live)' /\ FileAgrees' /\ DialogAgrees'
  BY <1>0, <1>1, AppliedShape, SavedAgrees DEF DialogAgrees
<1>2. ASSUME NEW s \in Sources \cup {NoSource, "program"}, SetSource(s)
      PROVE  Shape(live)' /\ FileAgrees' /\ DialogAgrees'
  BY <1>1, <1>2, NumericLayers DEF SetSource
<1>3. CASE SetVisible
  BY <1>1, <1>3, NumericLayers DEF SetVisible
<1>4. CASE ReloadProperties
  <2>1. live' = EncoderChanged(live) /\ UNCHANGED <<file, dialog, open>>
    BY <1>4 DEF ReloadProperties, Reloaded
  <2>2. Shape(live') /\ Same(live'.values, live.values)
    BY <1>0, <2>1, ReloadedSame
  <2> QED
    BY <2>1, <2>2, SameLayers, SameOwn
<1>5. CASE UpdateSourceList
  BY <1>5, ListSourcesAgrees DEF UpdateSourceList
<1>6. CASE Start
  <2>1. UNCHANGED <<dialog, open>> /\ (ListSources \/ UNCHANGED <<live, file>>)
    BY <1>6 DEF Start
  <2> QED
    BY <1>0, <2>1, ListSourcesAgrees, SameLayers, SameOwn
<1>7. CASE Recreate
  BY <1>7, RecreatedKeeps DEF DialogAgrees
<1>8. ASSUME \/ UNCHANGED vars \/ SetPrefer \/ UplinkReady
             \/ \E s \in Sources : SourcesChange(s)
             \/ \E c \in Offers : ServerOffers(c)
      PROVE  Shape(live)' /\ FileAgrees' /\ DialogAgrees'
  <2>1. UNCHANGED <<live, file, dialog, open>>
    BY <1>8 DEF vars, copies, SetPrefer, UplinkReady, SourcesChange, ServerOffers
  <2> QED
    BY <1>0, <2>1, SameLayers, SameOwn
<1> QED
  BY <1>2, <1>3, <1>4, <1>5, <1>6, <1>7, <1>8, DialogStepAgrees DEF Next

\* saveSettings, loadSettings and the dialog's copy: whatever the dialog, OBS and start() were
\* at when OBS ended, what the user had chosen is there again, but for a source that is gone.
THEOREM ChoicesSurvive == Spec => ChoicesDurable
<1> DEFINE Kept == Recreate /\ file # NoFile =>
                     /\ \A key \in {"encoder", "eye"} : Get(live', key) = Get(live, key)
                     /\ Missing(Get(live, "source")) \/ Get(live', "source") = Get(live, "source")
<1>1. DInv /\ [Next]_vars => [Kept]_vars
  BY RecreatedKeeps
<1>2. Init /\ [][Next]_vars => [][Kept]_vars
  <2> HIDE DEF Kept
  <2> QED
    BY <1>1, InitDInv, StepDInv, PTL
<1> QED
  BY <1>2 DEF Spec, ChoicesDurable

\* showEvent and onAccept: the dialog's copy never takes back what the controls beside it
\* have set, at whatever moment it was opened and whatever was reloaded meanwhile.
THEOREM ControlsSurvive == Spec => ControlsKept
<1> DEFINE Kept == Accept => /\ Get(live', "eye") = Get(live, "eye")
                             /\ Get(live, "source") \in {NoSource, Get(live', "source")}
<1>1. DInv /\ [Next]_vars => [Kept]_vars
  <2> SUFFICES ASSUME DInv, Accept
               PROVE  /\ Get(live', "eye") = Get(live, "eye")
                      /\ Get(live, "source") \in {NoSource, Get(live', "source")}
    OBVIOUS
  <2> DEFINE v == Over(dialog.values, dialog.defaults)
  <2>1. Data(live) /\ Data(dialog) /\ Shape(live)
    BY DEF DInv, IInv
  <2>2. Numeric(v) /\ \A key \in DOMAIN dialog.values : key \in DOMAIN v /\ v[key] = dialog.values[key]
    <3>1. Numeric(v)
      BY <2>1, Layers DEF Data
    <3>2. \A key \in DOMAIN dialog.values : key \in DOMAIN v /\ v[key] = dialog.values[key]
      BY OverAt
    <3> QED
      BY <3>1, <3>2
  <2>3. live' = Apply(live, v)
    BY DEF Accept
  <2> HIDE DEF v
  <2>4. Shape(live') /\ live'.values = Over(v, live.values)
    BY <2>1, <2>2, <2>3, AppliedShape
  <2>5. \A key \in DOMAIN dialog.values : key \in DOMAIN live'.values /\ live'.values[key] = dialog.values[key]
    BY <2>2, <2>4, OverAt
  <2>6. DialogAgrees /\ open
    BY DEF DInv, Accept
  <2>7. live'.values["eye"] = live.values["eye"]
    BY <2>5, <2>6 DEF DialogAgrees
  <2>8. Get(live, "source") # NoSource =>
          "source" \in DOMAIN live'.values /\ live'.values["source"] = live.values["source"]
    BY <2>5, <2>6 DEF DialogAgrees
  <2> QED
    BY <2>1, <2>4, <2>7, <2>8, GetOwn
<1>2. Init /\ [][Next]_vars => [][Kept]_vars
  <2> HIDE DEF Kept
  <2> QED
    BY <1>1, InitDInv, StepDInv, PTL
<1> QED
  BY <1>2 DEF Spec, ControlsKept

=============================================================================
