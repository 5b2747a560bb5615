------------------------ MODULE IngressSource_proofs ------------------------
(***************************************************************************)
(* Proofs about IngressSource, for any finite set of sources and any       *)
(* finite port ranges.  What is said of ports assumes ~ Dangling: the      *)
(* lambdas that outlive a source take ports for nobody.  What is said of a *)
(* source's requests and decoder assumes Ordered: answers and pushes that  *)
(* overtake each other leave an older connection (module IngressSource).   *)
(* That no two decoders listen at one port assumes both, and that nobody   *)
(* logs out.                                                               *)
(***************************************************************************)
EXTENDS IngressSource, FiniteSetTheorems, SequenceTheorems, TLAPS

Lives == {"new", "live", "leaving", "gone"}

\* What the ports depend on of the shape of the state: a source has a port only
\* while it is present, and only sources that are present are refreshed.
Shape ==
  /\ DOMAIN src = Sources
  /\ \A o \in Sources :
       /\ DOMAIN src[o] = DOMAIN NewSource
       /\ src[o].life \in Lives
       /\ src[o].port \in Nat
       /\ ~ Present(o) => src[o].port = NoPort
  /\ range \in Ranges
  /\ \A o \in refreshing : o \in Sources /\ Present(o)

PortsInv == Shape /\ PortsExact

\* The ports of the sources other than o.
OfOthers(o) == {src[q].port : q \in {r \in Sources : Present(r) /\ r # o}} \ {NoPort}

\* A step that gives no source another port, and none comes or goes.
SamePorts ==
  /\ DOMAIN src' = Sources
  /\ \A o \in Sources :
       /\ DOMAIN src'[o] = DOMAIN src[o]
       /\ src'[o].port = src[o].port
       /\ src'[o].life \in Lives
       /\ Present(o)' <=> Present(o)

LEMMA SamePortsKeep ==
  ASSUME PortsInv, SamePorts, usedPorts' = usedPorts, range' \in Ranges,
         \A o \in refreshing' : o \in Sources /\ Present(o)
  PROVE  PortsInv'
<1>1. Shape'
  BY DEF PortsInv, Shape, SamePorts
<1>2. {src'[o].port : o \in {p \in Sources : Present(p)'}} = {src[o].port : o \in {p \in Sources : Present(p)}}
  BY DEF SamePorts
<1>3. \A o, p \in Sources :
        o # p /\ Present(o)' /\ Present(p)' /\ src'[o].port # NoPort => src'[o].port # src'[p].port
  BY DEF SamePorts, PortsInv, PortsExact
<1> QED BY <1>1, <1>2, <1>3 DEF PortsInv, PortsExact

-----------------------------------------------------------------------------
\* What becomes of a source that hears of its connection.

\* resetDecoder and onDownlinkReady leave the port and the life of a source alone.
LEMMA ResetKeeps ==
  ASSUME NEW s, NEW c, DOMAIN s = DOMAIN NewSource
  PROVE  /\ DOMAIN Reset(s, c) = DOMAIN s
         /\ Reset(s, c).port = s.port
         /\ Reset(s, c).life = s.life
BY DEF Reset, NewSource

LEMMA DownlinkReadyKeeps ==
  ASSUME NEW s, NEW c, DOMAIN s = DOMAIN NewSource
  PROVE  /\ DOMAIN DownlinkReady(s, c) = DOMAIN s
         /\ DownlinkReady(s, c).port = s.port
         /\ DownlinkReady(s, c).life = s.life
<1> DEFINE r == [s EXCEPT !.rev = c.rev]
<1>1. DOMAIN r = DOMAIN s /\ r.port = s.port /\ r.life = s.life
  BY DEF NewSource
<1>2. DOMAIN [s EXCEPT !.connection = c] = DOMAIN s
      /\ [s EXCEPT !.connection = c].port = s.port /\ [s EXCEPT !.connection = c].life = s.life
  BY DEF NewSource
<1>3. DOMAIN Reset(r, c) = DOMAIN r /\ Reset(r, c).port = r.port /\ Reset(r, c).life = r.life
  BY <1>1, ResetKeeps
<1> QED BY <1>1, <1>2, <1>3 DEF DownlinkReady

LEMMA ToldKeeps ==
  ASSUME Shape, NEW o, NEW t, Told(o, t),
         o \in Sources => /\ DOMAIN t = DOMAIN src[o]
                          /\ t.port = src[o].port
                          /\ t.life = src[o].life
  PROVE  SamePorts
BY DEF Told, SamePorts, Shape, Present

LEMMA UnchangedKeeps ==
  ASSUME Shape, UNCHANGED src
  PROVE  SamePorts
BY DEF SamePorts, Shape, Present

LEMMA ToldReset ==
  ASSUME Shape, NEW o, NEW c, Told(o, Reset(src[o], c))
  PROVE  SamePorts
<1>1. o \in Sources => DOMAIN src[o] = DOMAIN NewSource
  BY DEF Shape
<1> QED BY <1>1, ToldKeeps, ResetKeeps

LEMMA ToldDownlinkReady ==
  ASSUME Shape, NEW o, NEW c, Told(o, DownlinkReady(src[o], c))
  PROVE  SamePorts
<1>1. o \in Sources => DOMAIN src[o] = DOMAIN NewSource
  BY DEF Shape
<1> QED BY <1>1, ToldKeeps, DownlinkReadyKeeps

\* Whatever the ApiClient is told, no port is moved.
LEMMA AnsweredKeeps ==
  ASSUME Shape, NEW r, NEW m, Answered(r, m)
  PROVE  SamePorts
<1> DEFINE o == r.of
<1>1. CASE Told(o, DownlinkReady(src[o], m.con))
  BY <1>1, ToldDownlinkReady
<1>2. CASE Told(o, Reset(src[o], NoConnection))
  BY <1>2, ToldReset
<1>3. CASE UNCHANGED src
  BY <1>3, UnchangedKeeps
<1>4. \/ Told(o, DownlinkReady(src[o], m.con))
      \/ Told(o, Reset(src[o], NoConnection))
      \/ UNCHANGED src
  <2> HIDE DEF o
  <2> QED BY Zenon DEF Answered, o
<1> QED BY <1>1, <1>2, <1>3, <1>4

LEMMA PushedKeeps ==
  ASSUME Shape, NEW m, Pushed(m)
  PROVE  SamePorts
<1>1. CASE Told(m.of, DownlinkReady(src[m.of], m.con))
  BY <1>1, ToldDownlinkReady
<1>2. CASE Told(m.of, Reset(src[m.of], NoConnection))
  BY <1>2, ToldReset
<1>3. CASE UNCHANGED src
  BY <1>3, UnchangedKeeps
<1>4. \/ Told(m.of, DownlinkReady(src[m.of], m.con))
      \/ Told(m.of, Reset(src[m.of], NoConnection))
      \/ UNCHANGED src
  BY Zenon DEF Pushed
<1> QED BY <1>1, <1>2, <1>3, <1>4

-----------------------------------------------------------------------------
\* captureSettings.

\* Giving back the port of o leaves the ports of the others.
LEMMA KeptAreOthers ==
  ASSUME PortsInv, NEW o \in Sources
  PROVE  Kept(src[o]) = OfOthers(o)
<1>1. ASSUME NEW u \in Kept(src[o])
      PROVE  u \in OfOthers(o)
  <2>1. PICK q \in Sources : Present(q) /\ u = src[q].port /\ u # NoPort
    BY <1>1 DEF Kept, PortsInv, PortsExact
  <2>2. q # o
    BY <1>1, <2>1 DEF Kept, Released
  <2> QED BY <2>1, <2>2 DEF OfOthers
<1>2. ASSUME NEW u \in OfOthers(o)
      PROVE  u \in Kept(src[o])
  <2>1. PICK q \in Sources : Present(q) /\ q # o /\ u = src[q].port /\ u # NoPort
    BY <1>2 DEF OfOthers
  <2>2. u \in usedPorts
    BY <2>1 DEF PortsInv, PortsExact
  <2>3. u # src[o].port
    BY <2>1 DEF PortsInv, PortsExact, Shape
  <2> QED BY <2>2, <2>3 DEF Kept, Released
<1> QED BY <1>1, <1>2

\* A source that captures its settings: its old port is free again, the new one
\* was free or is none.
LEMMA CaptureKeepsPorts ==
  ASSUME PortsInv, NEW o \in Sources, NEW wanted, NEW relay, Capture(o, src[o], wanted, relay),
         src[o].life \in {"new", "live", "leaving"}, range' = range,
         \A q \in refreshing' : q \in Sources /\ (Present(q) \/ q = o)
  PROVE  PortsInv'
<1>1. PICK p \in Ports :
        /\ IF relay THEN p = NoPort ELSE IsFreePort(p, Kept(src[o]))
        /\ usedPorts' = Kept(src[o]) \cup Taken(p)
        /\ src' = [src EXCEPT ![o] =
                    [src[o] EXCEPT !.life = IF @ = "new" THEN "live" ELSE @, !.wanted = wanted,
                       !.relay = relay, !.rev = @ + 1, !.asked = src[o].rev + 1, !.port = p]]
  BY Zenon DEF Capture
<1> DEFINE t == [src[o] EXCEPT !.life = IF @ = "new" THEN "live" ELSE @, !.wanted = wanted,
                   !.relay = relay, !.rev = @ + 1, !.asked = src[o].rev + 1, !.port = p]
<1>2. /\ DOMAIN t = DOMAIN NewSource
      /\ t.port = p
      /\ t.life \in {"live", "leaving"}
  BY DEF PortsInv, Shape, NewSource
<1>3. /\ DOMAIN src' = Sources
      /\ src'[o] = t
      /\ \A q \in Sources : q # o => src'[q] = src[q]
  <2> HIDE DEF t
  <2>1. src' = [src EXCEPT ![o] = t]
    BY <1>1 DEF t
  <2> QED BY <2>1 DEF PortsInv, Shape
<1> HIDE DEF t
<1>4. p \in Nat /\ (p # NoPort => p \notin OfOthers(o))
  <2>1. p \in Nat
    <3>1. CASE p = NoPort
      BY <3>1 DEF NoPort
    <3>2. CASE p \in UNION Ranges
      <4>1. PICK R \in Ranges : p \in R
        BY <3>2
      <4>2. R \subseteq Nat \ {0}
        BY Zenon, RangesArePorts
      <4> QED BY <4>1, <4>2
    <3> QED BY <3>1, <3>2 DEF Ports
  <2>2. CASE relay
    BY <1>1, <2>1, <2>2
  <2>3. CASE ~ relay
    BY <1>1, <2>1, <2>3, KeptAreOthers DEF IsFreePort
  <2> QED BY <2>2, <2>3
<1>5. Present(o)' /\ \A q \in Sources : q # o => (Present(q)' <=> Present(q))
  BY <1>2, <1>3 DEF Present
<1>6. Shape'
  BY <1>2, <1>3, <1>4, <1>5 DEF Shape, PortsInv, Lives
<1>7. usedPorts' = OfOthers(o) \cup ({p} \ {NoPort})
  BY <1>1, KeptAreOthers DEF Taken
<1>8. {src'[q].port : q \in {r \in Sources : Present(r)'}} \ {NoPort} = OfOthers(o) \cup ({p} \ {NoPort})
  BY <1>2, <1>3, <1>5 DEF OfOthers
<1>9. ASSUME NEW q \in Sources, NEW r \in Sources, q # r, Present(q)', Present(r)', src'[q].port # NoPort
      PROVE  src'[q].port # src'[r].port
  <2>1. CASE q = o
    BY <1>9, <2>1, <1>2, <1>3, <1>4, <1>5 DEF OfOthers
  <2>2. CASE r = o
    BY <1>9, <2>2, <1>2, <1>3, <1>4, <1>5 DEF OfOthers
  <2>3. CASE q # o /\ r # o
    BY <1>9, <2>3, <1>3, <1>5 DEF PortsInv, PortsExact
  <2> QED BY <2>1, <2>2, <2>3
<1>10. usedPorts' = {src'[q].port : q \in {r \in Sources : Present(r)'}} \ {NoPort}
  BY <1>7, <1>8
<1>11. PortsExact'
  BY <1>9, <1>10 DEF PortsExact
<1> QED BY <1>6, <1>11 DEF PortsInv

-----------------------------------------------------------------------------
\* The steps.

LEMMA InitPorts == Init => PortsInv
<1> SUFFICES ASSUME Init PROVE PortsInv
  OBVIOUS
<1>1. /\ DOMAIN src = Sources
      /\ \A o \in Sources : src[o] = NewSource
      /\ range \in Ranges /\ refreshing = {} /\ usedPorts = {}
  BY DEF Init
<1>2. NewSource.life = "new" /\ NewSource.port = NoPort
  BY DEF NewSource
<1>3. \A o \in Sources : ~ Present(o)
  BY <1>1, <1>2 DEF Present
<1>4. Shape
  BY <1>1, <1>2, <1>3 DEF Shape, Lives, NoPort
<1>5. {src[o].port : o \in {p \in Sources : Present(p)}} = {}
  BY <1>3
<1> QED BY <1>1, <1>3, <1>4, <1>5 DEF PortsInv, PortsExact

\* The destructor gives back the port of its source, and nobody else's.
LEMMA DestroyKeepsPorts ==
  ASSUME PortsInv, ~ Dangling, NEW o \in Sources, Destroy(o)
  PROVE  PortsInv'
<1> DEFINE t == [NewSource EXCEPT !.life = "gone"]
<1>1. t.port = NoPort /\ t.life = "gone" /\ DOMAIN t = DOMAIN NewSource
  BY DEF NewSource
<1>2. src' = [src EXCEPT ![o] = t]
  BY DEF Destroy, Remains
<1> HIDE DEF t
<1>3. /\ DOMAIN src' = Sources
      /\ src'[o] = t
      /\ \A q \in Sources : q # o => src'[q] = src[q]
  BY <1>2 DEF PortsInv, Shape
<1>4. usedPorts' = OfOthers(o) /\ refreshing' = {} /\ range' = range
  BY KeptAreOthers DEF Destroy, Idle
<1>5. ~ Present(o)' /\ \A q \in Sources : q # o => (Present(q)' <=> Present(q))
  BY <1>1, <1>3 DEF Present
<1>6. Shape'
  BY <1>1, <1>3, <1>4, <1>5 DEF Shape, PortsInv, Lives, NoPort
<1>7. {src'[q].port : q \in {r \in Sources : Present(r)'}} \ {NoPort} = OfOthers(o)
  BY <1>3, <1>5 DEF OfOthers
<1>8. \A q, r \in Sources :
        q # r /\ Present(q)' /\ Present(r)' /\ src'[q].port # NoPort => src'[q].port # src'[r].port
  BY <1>3, <1>5 DEF PortsInv, PortsExact
<1>9. PortsExact'
  BY <1>4, <1>7, <1>8 DEF PortsExact
<1> QED BY <1>6, <1>9 DEF PortsInv

\* A source that OBS lets go of keeps its port until its destructor runs.
LEMMA DestroyCallbackKeepsPorts ==
  ASSUME PortsInv, NEW o \in Sources, DestroyCallback(o)
  PROVE  PortsInv'
<1> DEFINE t == [src[o] EXCEPT !.life = "leaving", !.input = NoConnection]
<1>1. t.port = src[o].port /\ t.life = "leaving" /\ DOMAIN t = DOMAIN src[o]
  BY DEF PortsInv, Shape, NewSource
<1>2. src' = [src EXCEPT ![o] = t]
  BY DEF DestroyCallback, PortsInv, Shape
<1> HIDE DEF t
<1>3. SamePorts
  BY <1>1, <1>2 DEF DestroyCallback, PortsInv, Shape, SamePorts, Present, Lives
<1> QED BY <1>3, SamePortsKeep DEF DestroyCallback, api, Idle, PortsInv, Shape

\* logout: every source that is present is reset.
LEMMA LogoutKeepsPorts ==
  ASSUME PortsInv, LogoutSucceeded
  PROVE  PortsInv'
<1>1. src' = [o \in Sources |-> IF Present(o) THEN Reset(src[o], NoConnection) ELSE src[o]]
  BY DEF LogoutSucceeded
<1>2. \A o \in Sources : DOMAIN src[o] = DOMAIN NewSource
  BY DEF PortsInv, Shape
<1>3. \A o \in Sources : /\ DOMAIN src'[o] = DOMAIN src[o]
                        /\ src'[o].port = src[o].port
                        /\ src'[o].life = src[o].life
  BY <1>1, <1>2, ResetKeeps
<1>4. SamePorts
  BY <1>1, <1>3 DEF SamePorts, Present, PortsInv, Shape
<1> QED BY <1>4, SamePortsKeep DEF LogoutSucceeded, Idle, PortsInv, Shape

\* A message moves no port.
LEMMA ReceiveKeepsPorts ==
  ASSUME PortsInv, NEW i, Receive(i)
  PROVE  PortsInv'
<1>1. Idle /\ UNCHANGED <<range, usedPorts, refreshing>>
  BY Zenon DEF Receive
<1>2. Pushed(inbox[i]) \/ Answered(Head(queue), inbox[i])
  BY Zenon DEF Receive
<1>3. SamePorts
  BY <1>2, PushedKeeps, AnsweredKeeps DEF PortsInv
<1> QED BY <1>1, <1>3, SamePortsKeep DEF Idle, PortsInv, Shape

\* No step gives a port to two sources, or loses one.
LEMMA StepKeepsPorts ==
  ASSUME ~ Dangling, PortsInv, [Next]_vars
  PROVE  PortsInv'
<1> USE DEF PortsInv
<1> DEFINE Same == UNCHANGED <<src, range, usedPorts, refreshing>>
<1>0. CASE Same
  <2>1. \A o \in Sources : Present(o)' <=> Present(o)
    BY <1>0 DEF Present
  <2> QED BY <1>0, <2>1, UnchangedKeeps, SamePortsKeep DEF Shape
<1>1. ASSUME NEW o \in Sources, Create(o) PROVE PortsInv'
  <2>1. /\ src[o].life = "new" /\ refreshing = {} /\ refreshing' = refreshing /\ range' = range
        /\ \E wanted \in Selections, relay \in RelayChoices : Capture(o, src[o], wanted, relay)
    BY <1>1 DEF Create, Idle
  <2> QED BY <2>1, CaptureKeepsPorts
<1>2. ASSUME NEW o \in Sources, Update(o) PROVE PortsInv'
  <2>1. /\ src[o].life = "live" /\ refreshing = {} /\ refreshing' = refreshing /\ range' = range
        /\ \E wanted \in Selections, relay \in RelayChoices : Capture(o, src[o], wanted, relay)
    BY <1>2 DEF Update, Idle
  <2> QED BY <2>1, CaptureKeepsPorts
<1>3. ASSUME NEW o \in Sources, Reactivate(o) PROVE PortsInv'
  <2>1. /\ o \in refreshing /\ refreshing' = refreshing \ {o} /\ range' = range
        /\ \E wanted, relay : Capture(o, src[o], wanted, relay)
    BY <1>3, Zenon DEF Reactivate
  <2>2. src[o].life \in {"new", "live", "leaving"}
    BY <2>1 DEF Shape, Present
  <2>3. \A q \in refreshing' : q \in Sources /\ Present(q)
    BY <2>1 DEF Shape
  <2> QED BY <2>1, <2>2, <2>3, CaptureKeepsPorts
<1>4. ASSUME NEW o \in Sources, DestroyCallback(o) PROVE PortsInv'
  BY <1>4, DestroyCallbackKeepsPorts
<1>5. ASSUME NEW o \in Sources, Destroy(o) PROVE PortsInv'
  BY <1>5, DestroyKeepsPorts
<1>6. CASE RefreshIngress
  <2>1. range' \in Ranges /\ refreshing' = Reached /\ UNCHANGED <<src, usedPorts>>
    BY <1>6 DEF RefreshIngress, api
  <2>2. \A o \in refreshing' : o \in Sources /\ Present(o)
    BY <2>1 DEF Reached
  <2> QED BY <2>1, <2>2, UnchangedKeeps, SamePortsKeep
<1>7. CASE LogoutSucceeded
  BY <1>7, LogoutKeepsPorts
<1>8. ASSUME NEW i, Receive(i) PROVE PortsInv'
  BY <1>8, ReceiveKeepsPorts
<1>9. ASSUME NEW o \in Sources, ParallelAnswered(o) \/ ServeParallel(o) \/ ServerChanges(o) PROVE Same
  BY <1>9, Zenon DEF ParallelAnswered, ServeParallel, ServerChanges, api
<1>10. ASSUME StagesReady \/ LoginSucceeded \/ Disconnected \/ WebSocketReady \/ Serve PROVE Same
  BY <1>10, Zenon DEF StagesReady, LoginSucceeded, Disconnected, WebSocketReady, Serve, api
<1>11. CASE UNCHANGED vars
  BY <1>0, <1>11 DEF vars, api
<1> HIDE DEF Same
<1> QED
  BY Zenon, <1>0, <1>1, <1>2, <1>3, <1>4, <1>5, <1>6, <1>7, <1>8, <1>9, <1>10, <1>11 DEF Next

\* A UDP port is taken from the range as long as exactly one source has it, in spite
\* of sources that are created, set up anew and destroyed, ranges that change, and
\* logouts: unless lambdas of destroyed sources run, getFreePort and releasePort balance.
THEOREM PortsAreExact ==
  ASSUME ~ Dangling
  PROVE  Spec => []PortsExact
<1>1. Init => PortsInv
  BY InitPorts
<1>2. PortsInv /\ [Next]_vars => PortsInv'
  BY StepKeepsPorts
<1>3. PortsInv => PortsExact
  BY DEF PortsInv
<1> QED BY <1>1, <1>2, <1>3, PTL DEF Spec

-----------------------------------------------------------------------------
\* Enough ports.

PresentOthers(o) == {q \in Sources : Present(q) /\ q # o}

\* The other sources have no more ports than there are such sources.
LEMMA OthersAreFew ==
  ASSUME NEW o \in Sources
  PROVE  /\ IsFiniteSet(OfOthers(o)) /\ IsFiniteSet({q \in Sources : Present(q)} \cup {o})
         /\ Cardinality(OfOthers(o)) \in Nat
         /\ Cardinality(OfOthers(o)) < Cardinality({q \in Sources : Present(q)} \cup {o})
<1> DEFINE S == PresentOthers(o)
           A == {q \in Sources : Present(q)} \cup {o}
           T == {src[q].port : q \in S}
           f == [q \in S |-> src[q].port]
<1>1. IsFiniteSet(A) /\ Cardinality(A) \in Nat
  BY SourcesAreFinite, FS_Subset, FS_CardinalityType
<1>2. S = A \ {o} /\ o \in A
  BY DEF PresentOthers
<1>3. IsFiniteSet(S) /\ Cardinality(S) = Cardinality(A) - 1
  BY <1>1, <1>2, FS_RemoveElement, SMTT(40)
<1>4. f \in Surjection(S, T)
  BY DEF Surjection
<1>5. IsFiniteSet(T) /\ Cardinality(T) <= Cardinality(S)
  <2> HIDE DEF S, T, f
  <2> QED BY <1>3, <1>4, FS_Surjection
<1>6. OfOthers(o) \in SUBSET T
  BY DEF OfOthers, PresentOthers
<1>7. /\ IsFiniteSet(OfOthers(o)) /\ Cardinality(OfOthers(o)) <= Cardinality(T)
      /\ Cardinality(OfOthers(o)) \in Nat /\ Cardinality(T) \in Nat /\ Cardinality(S) \in Nat
  <2> HIDE DEF S, T
  <2> QED BY <1>3, <1>5, <1>6, FS_Subset, FS_CardinalityType
<1> HIDE DEF S, T, A
<1>8. Cardinality(OfOthers(o)) < Cardinality(A)
  BY <1>1, <1>3, <1>5, <1>7
<1> QED BY <1>1, <1>7, <1>8 DEF A

LEMMA CaptureGetsPort ==
  ASSUME PortsInv, NEW o \in Sources, NEW wanted, NEW relay, Capture(o, src[o], wanted, relay),
         Cardinality(range) >= Cardinality({p \in Sources : Present(p)} \cup {o})
  PROVE  src'[o].port # NoPort \/ src'[o].relay
<1>1. PICK p \in Ports :
        /\ IF relay THEN p = NoPort ELSE IsFreePort(p, Kept(src[o]))
        /\ src' = [src EXCEPT ![o] =
                    [src[o] EXCEPT !.life = IF @ = "new" THEN "live" ELSE @, !.wanted = wanted,
                       !.relay = relay, !.rev = @ + 1, !.asked = src[o].rev + 1, !.port = p]]
  BY Zenon DEF Capture
<1>2. src'[o].port = p /\ src'[o].relay = relay
  BY <1>1 DEF PortsInv, Shape, NewSource
<1>3. CASE relay
  BY <1>2, <1>3
<1>4. CASE ~ relay
  <2>1. IsFiniteSet(range) /\ range \subseteq Nat \ {0}
    BY RangesArePorts, Zenon DEF PortsInv, Shape
  <2>2. Kept(src[o]) = OfOthers(o)
    BY KeptAreOthers
  <2>3. range \ OfOthers(o) # {}
    <3> SUFFICES ASSUME range \in SUBSET OfOthers(o) PROVE FALSE
      OBVIOUS
    <3>1. Cardinality(range) <= Cardinality(OfOthers(o)) /\ Cardinality(range) \in Nat
      BY <2>1, OthersAreFew, FS_Subset, FS_CardinalityType
    <3>2. Cardinality({q \in Sources : Present(q)} \cup {o}) \in Nat
      BY OthersAreFew, FS_CardinalityType
    <3> QED BY <3>1, <3>2, OthersAreFew
  <2>4. p \in range
    BY <1>1, <1>4, <2>2, <2>3 DEF IsFreePort
  <2> QED BY <1>2, <2>1, <2>4 DEF NoPort
<1> QED BY <1>3, <1>4

\* README.md:102, "The number of ports required is equal to the total number of sources":
\* a source that captures its settings gets a port from a range that has as many,
\* whatever has become of the ports before, unless lambdas of destroyed sources run.
THEOREM SourcesGetPorts ==
  ASSUME ~ Dangling
  PROVE  Spec => EnoughPorts
<1> DEFINE Enough == \A o \in Sources :
       /\ Create(o) \/ Update(o) \/ Reactivate(o)
       /\ Cardinality(range) >= Cardinality({p \in Sources : Present(p)} \cup {o})
       => src'[o].port # NoPort \/ src'[o].relay
<1>1. Init => PortsInv
  BY InitPorts
<1>2. PortsInv /\ [Next]_vars => PortsInv'
  BY StepKeepsPorts
<1>3. ASSUME PortsInv PROVE Enough
  <2> TAKE o \in Sources
  <2> HAVE /\ Create(o) \/ Update(o) \/ Reactivate(o)
           /\ Cardinality(range) >= Cardinality({p \in Sources : Present(p)} \cup {o})
  <2>1. PICK wanted, relay : Capture(o, src[o], wanted, relay)
    BY Zenon DEF Create, Update, Reactivate
  <2>2. src'[o].port # NoPort \/ src'[o].relay
    BY <1>3, <2>1, CaptureGetsPort
  <2> QED BY <2>2
<1> HIDE DEF Enough
<1>4. Spec => [][Enough]_vars
  BY <1>1, <1>2, <1>3, PTL DEF Spec
<1> QED BY <1>4 DEF EnoughPorts, Enough

-----------------------------------------------------------------------------
\* What the messages do to the connection of a source.  First the types.

\* A source that is not created yet has no state, and a refresh is only begun
\* if the revisions of all sources leave room for it.
Typed ==
  /\ TypeOK
  /\ \A o \in Sources : src[o].life = "new" => src[o] = NewSource
  /\ \A o \in refreshing : src[o].rev < MaxRevision

LEMMA ConnectionTypes ==
  /\ NoConnection \in Connections
  /\ NoConnection.key = 0 /\ NoConnection.port = NoPort /\ NoConnection.alloc = FALSE
  /\ \A c \in Connections :
       /\ c.alloc \in BOOLEAN /\ c.rev \in 0 .. MaxRevision /\ c.rev \in Nat /\ c.port \in Ports
       /\ c.key \in Nat /\ (c.key = 0 <=> c = NoConnection) /\ Input(c) \in Connections
  /\ NoPort \in Ports /\ 0 \in 0 .. MaxRevision
<1>1. MaxRevision \in Nat /\ MaxRevision > 0
  BY BoundsAreNatural
<1>2. NoConnection \in Connections /\ NoPort \in Ports /\ 0 \in 0 .. MaxRevision
  BY <1>1 DEF Connections, Ports
<1>3. NoConnection.key = 0 /\ NoConnection.port = NoPort /\ NoConnection.alloc = FALSE
      /\ NoConnection.rev = 0
  BY DEF NoConnection
<1>4. ASSUME NEW c \in Connections
      PROVE  /\ c.alloc \in BOOLEAN /\ c.rev \in 0 .. MaxRevision /\ c.rev \in Nat /\ c.port \in Ports
             /\ c.key \in Nat /\ (c.key = 0 <=> c = NoConnection)
  <2>1. CASE c = NoConnection
    <3>1. c.alloc \in BOOLEAN
      BY <1>3, <2>1
    <3>2. c.rev \in 0 .. MaxRevision /\ c.rev \in Nat /\ c.key \in Nat /\ (c.key = 0 <=> c = NoConnection)
      BY <1>2, <1>3, <2>1
    <3>3. c.port \in Ports
      BY <1>2, <1>3, <2>1, Zenon
    <3> QED
      BY <3>1, <3>2, <3>3
  <2>2. CASE c \in [alloc : BOOLEAN, rev : 0 .. MaxRevision, key : Keys, port : Ports]
    <3>1. c.key \in Nat /\ c.key > 0
      BY <2>2, BoundsAreNatural DEF Keys
    <3> QED
      BY <1>3, <2>2, <3>1
  <2> QED
    BY <2>1, <2>2 DEF Connections
<1> QED
  BY <1>2, <1>3, <1>4 DEF Input

LEMMA SourceTypes ==
  ASSUME NEW s \in Source
  PROVE  /\ s.life \in Lives /\ s.wanted \in BOOLEAN /\ s.relay \in BOOLEAN /\ s.port \in Ports
         /\ s.asked \in 0 .. MaxRevision /\ s.rev \in 0 .. MaxRevision /\ s.rev \in Nat
         /\ s.connection \in Connections /\ s.input \in Connections
BY DEF Source, Lives

LEMMA NewSourceType == NewSource \in Source /\ NewSource.life = "new" /\ NewSource.rev = 0
                       /\ NewSource.connection = NoConnection /\ NewSource.input = NoConnection
BY ConnectionTypes DEF NewSource, Source

\* What Reset makes of a source.
LEMMA ResetFields ==
  ASSUME NEW s \in Source, NEW c \in Connections
  PROVE  /\ Reset(s, c) \in Source
         /\ Reset(s, c).life = s.life /\ Reset(s, c).wanted = s.wanted /\ Reset(s, c).relay = s.relay
         /\ Reset(s, c).port = s.port /\ Reset(s, c).asked = s.asked /\ Reset(s, c).rev = s.rev
         /\ Reset(s, c).connection = c
         /\ Reset(s, c).input = IF s.life = "live" THEN Input(c) ELSE NoConnection
<1> DEFINE i == IF s.life = "live" THEN Input(c) ELSE NoConnection
<1>1. i \in Connections
  BY ConnectionTypes
<1>2. Reset(s, c) = [s EXCEPT !.connection = c, !.input = i]
  BY DEF Reset
<1> HIDE DEF i
<1>3. /\ Reset(s, c) \in Source
      /\ Reset(s, c).life = s.life /\ Reset(s, c).wanted = s.wanted /\ Reset(s, c).relay = s.relay
      /\ Reset(s, c).port = s.port /\ Reset(s, c).asked = s.asked /\ Reset(s, c).rev = s.rev
      /\ Reset(s, c).connection = c /\ Reset(s, c).input = i
  BY <1>1, <1>2 DEF Source
<1> QED
  BY <1>3 DEF i

\* What onDownlinkReady makes of it.
LEMMA DownlinkReadyFields ==
  ASSUME NEW s \in Source, NEW c \in Connections
  PROVE  LET t == DownlinkReady(s, c) IN
         /\ t \in Source
         /\ t.life = s.life /\ t.wanted = s.wanted /\ t.relay = s.relay
         /\ t.port = s.port /\ t.asked = s.asked
         /\ t.connection = c
         /\ t.rev = IF ReconnectionNeeded(s, c) THEN c.rev ELSE s.rev
         /\ t.input = IF ~ ReconnectionNeeded(s, c) THEN s.input
                      ELSE IF s.life = "live" THEN Input(c) ELSE NoConnection
<1> DEFINE r == [s EXCEPT !.rev = c.rev]
           u == [s EXCEPT !.connection = c]
<1>1. /\ r \in Source
      /\ r.life = s.life /\ r.wanted = s.wanted /\ r.relay = s.relay
      /\ r.port = s.port /\ r.asked = s.asked /\ r.rev = c.rev
  BY ConnectionTypes DEF Source
<1>2. /\ u \in Source
      /\ u.life = s.life /\ u.wanted = s.wanted /\ u.relay = s.relay
      /\ u.port = s.port /\ u.asked = s.asked /\ u.rev = s.rev
      /\ u.connection = c /\ u.input = s.input
  BY DEF Source
<1>3. DownlinkReady(s, c) = IF ReconnectionNeeded(s, c) THEN Reset(r, c) ELSE u
  BY DEF DownlinkReady
<1> HIDE DEF r, u
<1> QED
  BY <1>1, <1>2, <1>3, ResetFields

\* What captureSettings makes of it.
Captured(s, wanted, relay, p) ==
  [s EXCEPT !.life = IF @ = "new" THEN "live" ELSE @, !.wanted = wanted, !.relay = relay,
            !.rev = @ + 1, !.asked = s.rev + 1, !.port = p]

LEMMA CapturedFields ==
  ASSUME NEW s \in Source, NEW wanted \in BOOLEAN, NEW relay \in BOOLEAN, NEW p \in Ports,
         s.rev < MaxRevision
  PROVE  LET t == Captured(s, wanted, relay, p) IN
         /\ t \in Source
         /\ t.life = IF s.life = "new" THEN "live" ELSE s.life
         /\ t.port = p /\ t.wanted = wanted /\ t.relay = relay
         /\ t.connection = s.connection /\ t.input = s.input
<1>1. s.rev + 1 \in 0 .. MaxRevision
  BY SourceTypes, BoundsAreNatural
<1>2. s.life \in Lives
  BY SourceTypes
<1> QED
  BY <1>1, <1>2 DEF Captured, Source, Lives

LEMMA RequestTypes ==
  ASSUME NEW o \in Sources, NEW s \in Source
  PROVE  ConnectionRequest(o, s) \in Requests /\ StatusRequest(o) \in Requests
         /\ ConnectionRequest(o, s).of = o /\ StatusRequest(o).of = o
         /\ ConnectionRequest(o, s).port = s.port
         /\ ConnectionRequest(o, s).kind = (IF Registrable(s) THEN "PUT" ELSE "DELETE")
         /\ StatusRequest(o).kind = "STATUS"
BY SourceTypes, ConnectionTypes DEF ConnectionRequest, StatusRequest, Requests

-----------------------------------------------------------------------------
\* What the operations do to the queue.

LEMMA RemoveAtFields ==
  ASSUME NEW S, NEW s \in Seq(S), NEW k \in 1 .. Len(s)
  PROVE  /\ RemoveAt(s, k) \in Seq(S)
         /\ Len(RemoveAt(s, k)) = Len(s) - 1
         /\ \A i \in 1 .. Len(s) - 1 : RemoveAt(s, k)[i] = IF i < k THEN s[i] ELSE s[i + 1]
<1> DEFINE front == SubSeq(s, 1, k - 1)
           back  == SubSeq(s, k + 1, Len(s))
<1>1. k \in 1 .. Len(s) /\ Len(s) \in Nat
  BY LenProperties
<1>2. /\ front \in Seq(S)
      /\ Len(front) = k - 1
      /\ \A i \in 1 .. k - 1 : front[i] = s[i]
  BY <1>1
<1>3. /\ back \in Seq(S)
      /\ Len(back) = Len(s) - k
      /\ \A i \in 1 .. Len(s) - k : back[i] = s[k + i]
  BY <1>1
<1>4. RemoveAt(s, k) = front \o back
  BY DEF RemoveAt
<1> HIDE DEF front, back
<1>5. /\ front \o back \in Seq(S)
      /\ Len(front \o back) = Len(front) + Len(back)
      /\ \A i \in 1 .. Len(front) + Len(back) :
           (front \o back)[i] = IF i <= Len(front) THEN front[i] ELSE back[i - Len(front)]
  BY <1>2, <1>3, ConcatProperties
<1>6. Len(front \o back) = Len(s) - 1
  BY <1>1, <1>2, <1>3, <1>5
<1>7. ASSUME NEW i \in 1 .. Len(s) - 1
      PROVE  (front \o back)[i] = IF i < k THEN s[i] ELSE s[i + 1]
  <2>1. i \in 1 .. Len(front) + Len(back)
    BY <1>1, <1>2, <1>3
  <2>2. CASE i < k
    <3>1. i <= Len(front) /\ i \in 1 .. k - 1
      BY <1>1, <1>2, <2>2
    <3> QED
      BY <1>2, <1>5, <2>1, <2>2, <3>1
  <2>3. CASE ~ (i < k)
    <3> DEFINE j == i - Len(front)
    <3>1. ~ (i <= Len(front)) /\ j \in 1 .. Len(s) - k /\ k + j = i + 1
      BY <1>1, <1>2, <2>3
    <3>2. (front \o back)[i] = back[j]
      BY <1>5, <2>1, <3>1
    <3>3. back[j] = s[k + j]
      BY <1>3, <3>1
    <3> QED
      BY <2>3, <3>1, <3>2, <3>3
  <2> QED
    BY <2>2, <2>3
<1> QED
  BY <1>4, <1>5, <1>6, <1>7

\* A request that registers or unregisters its source.
Registers(r) == r.kind # "STATUS"

\* The queue grows at its end, by requests that say what their sources ask for.
QueueGrows ==
  /\ queue' \in Seq(Requests) /\ Len(queue') \in Nat /\ Len(queue') >= Len(queue)
  /\ \A i \in 1 .. Len(queue) : i \in 1 .. Len(queue') /\ queue'[i] = queue[i]
  /\ \A i \in 1 .. Len(queue') : i > Len(queue) =>
       /\ queue'[i].of \in Sources
       /\ Registers(queue'[i]) => queue'[i] = ConnectionRequest(queue'[i].of, src'[queue'[i].of])

LEMMA ConcatGrows ==
  ASSUME queue \in Seq(Requests), NEW L \in Seq(Requests), queue' = queue \o L,
         \A i \in DOMAIN L : Registers(L[i]) => L[i] = ConnectionRequest(L[i].of, src'[L[i].of])
  PROVE  /\ QueueGrows
         /\ \A i \in DOMAIN L : \E j \in 1 .. Len(queue') : j > Len(queue) /\ queue'[j] = L[i]
         /\ \A j \in 1 .. Len(queue') : j > Len(queue) => \E i \in DOMAIN L : queue'[j] = L[i]
         /\ Len(queue') = Len(queue) + Len(L)
<1>1. /\ Len(queue) \in Nat /\ Len(L) \in Nat
      /\ DOMAIN L = 1 .. Len(L) /\ DOMAIN queue = 1 .. Len(queue)
      /\ \A i \in DOMAIN L : L[i] \in Requests
  BY LenProperties
<1>2. /\ queue' \in Seq(Requests)
      /\ Len(queue') = Len(queue) + Len(L)
      /\ \A i \in 1 .. Len(queue) + Len(L) :
           queue'[i] = IF i <= Len(queue) THEN queue[i] ELSE L[i - Len(queue)]
  BY ConcatProperties
<1>3. \A i \in 1 .. Len(queue) : i \in 1 .. Len(queue') /\ queue'[i] = queue[i]
  BY <1>1, <1>2
<1>4. ASSUME NEW j \in 1 .. Len(queue'), j > Len(queue)
      PROVE  j - Len(queue) \in DOMAIN L /\ queue'[j] = L[j - Len(queue)]
  BY <1>1, <1>2, <1>4
<1>5. ASSUME NEW i \in DOMAIN L
      PROVE  i + Len(queue) \in 1 .. Len(queue') /\ i + Len(queue) > Len(queue)
             /\ queue'[i + Len(queue)] = L[i]
  <2>1. i + Len(queue) \in 1 .. Len(queue') /\ i + Len(queue) > Len(queue)
    BY <1>1, <1>2
  <2>2. (i + Len(queue)) - Len(queue) = i
    BY <1>1
  <2> QED
    BY <1>4, <2>1, <2>2
<1>6. \A r \in Requests : r.of \in Sources
  BY DEF Requests
<1>7. QueueGrows
  BY <1>1, <1>2, <1>3, <1>4, <1>6 DEF QueueGrows
<1> QED
  BY <1>2, <1>4, <1>5, <1>7

\* Who is captured, and how that reaches the queue.
CaptureStep(o) ==
  /\ o \in Sources /\ src' \in [Sources -> Source]
  /\ \A q \in Sources : q # o => src'[q] = src[q]
  /\ src'[o].life = IF src[o].life = "new" THEN "live" ELSE src[o].life
  /\ src'[o].connection = src[o].connection /\ src'[o].input = src[o].input
  /\ usedPorts' \subseteq Ports \ {NoPort}
  /\ \/ /\ linked /\ QueueGrows /\ unsent' = unsent \ {o}
        /\ Len(queue') = Len(queue) + 1 /\ queue'[Len(queue) + 1] = ConnectionRequest(o, src'[o])
     \/ ~ linked /\ UNCHANGED queue /\ unsent' = unsent \cup {o}
  /\ \A q \in refreshing' : q \in refreshing /\ q # o
  /\ UNCHANGED <<range, downlinks, linked, srv, token, parallel, inbox, up, again, unserved, unheard>>

LEMMA CaptureTakesStep ==
  ASSUME Typed, NEW o \in Sources, NEW wanted \in BOOLEAN, NEW relay \in BOOLEAN,
         Capture(o, src[o], wanted, relay), src[o].rev < MaxRevision,
         \A q \in refreshing' : q \in refreshing /\ q # o,
         UNCHANGED <<range, downlinks, linked, srv, token, parallel, inbox, up, again, unheard>>
  PROVE  CaptureStep(o)
<1>0. TypeOK /\ src \in [Sources -> Source] /\ src[o] \in Source /\ queue \in Seq(Requests)
      /\ usedPorts \subseteq Ports \ {NoPort}
  BY DEF Typed, TypeOK
<1>1. PICK p \in Ports :
        /\ usedPorts' = Kept(src[o]) \cup Taken(p)
        /\ src' = [src EXCEPT ![o] = Captured(src[o], wanted, relay, p)]
        /\ PutConnection(o, Captured(src[o], wanted, relay, p))
  BY Zenon DEF Capture, Captured
<1> DEFINE t == Captured(src[o], wanted, relay, p)
<1>2. /\ t \in Source /\ t.life = (IF src[o].life = "new" THEN "live" ELSE src[o].life)
      /\ t.connection = src[o].connection /\ t.input = src[o].input
  BY <1>0, CapturedFields
<1> HIDE DEF t
<1>3. src' \in [Sources -> Source] /\ src'[o] = t /\ \A q \in Sources : q # o => src'[q] = src[q]
  BY <1>0, <1>1, <1>2 DEF t
<1>4. usedPorts' \subseteq Ports \ {NoPort}
  BY <1>0, <1>1 DEF Kept, Taken
<1>5. unserved' = unserved /\ PutConnection(o, t)
  BY <1>1 DEF PutConnection, t
<1>6. CASE linked
  <2> DEFINE r == ConnectionRequest(o, t)
             L == <<r>>
  <2>1. r \in Requests /\ r.of = o
    BY <1>2, RequestTypes
  <2>2. queue' = Append(queue, r) /\ unsent' = unsent \ {o}
    BY <1>5, <1>6 DEF PutConnection, Queued
  <2> HIDE DEF r
  <2>3. L \in Seq(Requests) /\ Len(L) = 1 /\ DOMAIN L = {1} /\ L[1] = r
    BY <2>1
  <2>4. queue' = queue \o L
    BY <1>0, <2>1, <2>2, AppendIsConcat
  <2>5. \A i \in DOMAIN L : L[i] = ConnectionRequest(L[i].of, src'[L[i].of])
    BY <1>3, <2>1, <2>3 DEF r
  <2>6. Len(queue') = Len(queue) + 1 /\ queue'[Len(queue) + 1] = r
    BY <1>0, <2>1, <2>2, AppendProperties
  <2> HIDE DEF L
  <2>7. QueueGrows
    BY <1>0, <2>3, <2>4, <2>5, ConcatGrows
  <2>8. r = ConnectionRequest(o, src'[o])
    BY <1>3 DEF r
  <2> QED
    BY <1>2, <1>3, <1>4, <1>5, <1>6, <2>2, <2>6, <2>7, <2>8 DEF CaptureStep
<1>7. CASE ~ linked
  <2>1. queue' = queue /\ unsent' = unsent \cup {o}
    BY <1>5, <1>7 DEF PutConnection
  <2> QED
    BY <1>2, <1>3, <1>4, <1>5, <1>7, <2>1 DEF CaptureStep
<1> QED
  BY <1>6, <1>7

LEMMA CreateTakesStep ==
  ASSUME Typed, NEW o \in Sources, Create(o)
  PROVE  CaptureStep(o) /\ src[o].life = "new" /\ refreshing = {}
<1>1. PICK wanted \in Selections, relay \in RelayChoices : Capture(o, src[o], wanted, relay)
  BY Zenon DEF Create
<1>2. wanted \in BOOLEAN /\ relay \in BOOLEAN
  BY ChoicesAreLegal
<1>3. src[o].life = "new" /\ src[o].rev < MaxRevision
  BY NewSourceType, BoundsAreNatural DEF Create, Typed
<1>4. refreshing = {} /\ refreshing' = refreshing
      /\ UNCHANGED <<range, downlinks, linked, srv, token, parallel, inbox, up, again, unheard>>
  BY DEF Create, Idle
<1> QED
  BY <1>1, <1>2, <1>3, <1>4, CaptureTakesStep

LEMMA UpdateTakesStep ==
  ASSUME Typed, NEW o \in Sources, Update(o)
  PROVE  CaptureStep(o) /\ src[o].life = "live" /\ refreshing = {}
<1>1. PICK wanted \in Selections, relay \in RelayChoices : Capture(o, src[o], wanted, relay)
  BY Zenon DEF Update
<1>2. wanted \in BOOLEAN /\ relay \in BOOLEAN
  BY ChoicesAreLegal
<1>3. src[o].life = "live" /\ src[o].rev < MaxRevision
  BY DEF Update
<1>4. refreshing = {} /\ refreshing' = refreshing
      /\ UNCHANGED <<range, downlinks, linked, srv, token, parallel, inbox, up, again, unheard>>
  BY DEF Update, Idle
<1> QED
  BY <1>1, <1>2, <1>3, <1>4, CaptureTakesStep

LEMMA ReactivateTakesStep ==
  ASSUME Typed, NEW o \in Sources, Reactivate(o)
  PROVE  CaptureStep(o) /\ o \in refreshing
<1>1. src[o].wanted \in BOOLEAN /\ src[o].relay \in BOOLEAN
  BY SourceTypes DEF Typed, TypeOK
<1>2. PICK wanted \in BOOLEAN, relay \in BOOLEAN : Capture(o, src[o], wanted, relay)
  BY <1>1, Zenon DEF Reactivate
<1>3. o \in refreshing /\ src[o].rev < MaxRevision
  BY DEF Reactivate, Typed
<1>4. refreshing' = refreshing \ {o}
      /\ UNCHANGED <<range, downlinks, linked, srv, token, parallel, inbox, up, again, unheard>>
  BY DEF Reactivate
<1> QED
  BY <1>2, <1>3, <1>4, CaptureTakesStep

\* Every source in S, and nobody else, gets a request of its own.
PutsStep(S) ==
  /\ QueueGrows /\ UNCHANGED src
  /\ \A o \in S : \E j \in 1 .. Len(queue') :
       j > Len(queue) /\ queue'[j].of = o /\ Registers(queue'[j])
  /\ \A j \in 1 .. Len(queue') : j > Len(queue) => queue'[j].of \in S /\ Registers(queue'[j])
  /\ unsent' = unsent \ S

\* A list of all elements of a set has each of them.
LEMMA ListsAreComplete ==
  ASSUME NEW S, IsFiniteSet(S), NEW list \in SetToSeqs(S)
  PROVE  list \in Seq(S) /\ \A e \in S : \E i \in DOMAIN list : list[i] = e
<1> DEFINE n == Cardinality(S)
           D == 1 .. n
<1>1. n \in Nat /\ IsFiniteSet(D) /\ Cardinality(D) = n
  BY FS_CardinalityType, FS_Interval
<1>2. list \in [D -> S] /\ \A i, j \in D : i # j => list[i] # list[j]
  BY DEF SetToSeqs
<1>3. list \in Seq(S)
  BY <1>1, <1>2
<1> HIDE DEF D, n
<1>4. list \in Injection(D, S)
  BY <1>2 DEF Injection, IsInjective
<1>5. list \in Surjection(D, S)
  BY <1>1, <1>4, FS_Injection DEF n
<1> QED
  BY <1>2, <1>3, <1>5 DEF Surjection

LEMMA PutConnectionsTakesStep ==
  ASSUME Typed, NEW S \in SUBSET Sources, PutConnections(S), UNCHANGED src
  PROVE  PutsStep(S)
<1>0. queue \in Seq(Requests) /\ src \in [Sources -> Source]
  BY DEF Typed, TypeOK
<1>1. PICK list \in SetToSeqs(S) :
        queue' = queue \o [i \in DOMAIN list |-> ConnectionRequest(list[i], src[list[i]])]
  BY Zenon DEF PutConnections
<1>2. list \in Seq(S) /\ \A e \in S : \E i \in DOMAIN list : list[i] = e
  BY SourcesAreFinite, FS_Subset, ListsAreComplete
<1> DEFINE L == [i \in DOMAIN list |-> ConnectionRequest(list[i], src[list[i]])]
<1>3. /\ Len(list) \in Nat /\ DOMAIN list = 1 .. Len(list)
      /\ \A i \in DOMAIN list : list[i] \in S
  BY <1>2, LenProperties
<1>4. \A i \in DOMAIN list : /\ L[i] \in Requests /\ L[i].of = list[i] /\ Registers(L[i])
                             /\ L[i] = ConnectionRequest(L[i].of, src'[L[i].of])
  BY <1>0, <1>3, RequestTypes DEF Registers
<1>5. L \in Seq(Requests) /\ DOMAIN L = DOMAIN list
  BY <1>3, <1>4
<1> HIDE DEF L
<1>6. \A i \in DOMAIN L : L[i] = ConnectionRequest(L[i].of, src'[L[i].of])
  BY <1>4, <1>5
<1>7. queue' = queue \o L
  BY <1>1 DEF L
<1>8. /\ QueueGrows
      /\ \A i \in DOMAIN L : \E j \in 1 .. Len(queue') : j > Len(queue) /\ queue'[j] = L[i]
      /\ \A j \in 1 .. Len(queue') : j > Len(queue) => \E i \in DOMAIN L : queue'[j] = L[i]
  BY <1>0, <1>5, <1>6, <1>7, ConcatGrows
<1>9. unsent' = unsent \ S
  BY DEF PutConnections
<1>10. ASSUME NEW o \in S
       PROVE  \E j \in 1 .. Len(queue') : j > Len(queue) /\ queue'[j].of = o /\ Registers(queue'[j])
  <2>1. PICK i \in DOMAIN list : list[i] = o
    BY <1>2
  <2>2. L[i].of = o /\ Registers(L[i]) /\ i \in DOMAIN L
    BY <1>4, <1>5, <2>1
  <2> QED
    BY <1>8, <2>2
<1>11. ASSUME NEW j \in 1 .. Len(queue'), j > Len(queue)
       PROVE  queue'[j].of \in S /\ Registers(queue'[j])
  <2>1. PICK i \in DOMAIN L : queue'[j] = L[i]
    BY <1>8, <1>11
  <2>2. L[i].of \in S /\ Registers(L[i])
    BY <1>3, <1>4, <1>5
  <2> QED
    BY <2>1, <2>2
<1> QED
  BY <1>8, <1>9, <1>10, <1>11, Zenon DEF PutsStep

\* The messages of a sequence that a longer one begins with, and those it adds.
LEMMA ConcatFields ==
  ASSUME NEW S, NEW s \in Seq(S), NEW t \in Seq(S)
  PROVE  /\ s \o t \in Seq(S)
         /\ Len(s) \in Nat /\ Len(t) \in Nat /\ Len(s \o t) = Len(s) + Len(t)
         /\ \A i \in 1 .. Len(s) : i \in 1 .. Len(s \o t) /\ (s \o t)[i] = s[i]
         /\ \A i \in 1 .. Len(s \o t) : i > Len(s) => i - Len(s) \in 1 .. Len(t) /\ (s \o t)[i] = t[i - Len(s)]
<1>1. Len(s) \in Nat /\ Len(t) \in Nat
  BY LenProperties
<1>2. /\ s \o t \in Seq(S)
      /\ Len(s \o t) = Len(s) + Len(t)
      /\ \A i \in 1 .. Len(s) + Len(t) :
           (s \o t)[i] = IF i <= Len(s) THEN s[i] ELSE t[i - Len(s)]
  BY ConcatProperties
<1>3. \A i \in 1 .. Len(s) : i \in 1 .. Len(s) + Len(t) /\ i <= Len(s)
  BY <1>1
<1>4. \A i \in 1 .. Len(s) + Len(t) : i > Len(s) => i - Len(s) \in 1 .. Len(t) /\ ~ (i <= Len(s))
  BY <1>1
<1> QED
  BY <1>1, <1>2, <1>3, <1>4

LEMMA AppendFields ==
  ASSUME NEW S, NEW s \in Seq(S), NEW e \in S
  PROVE  /\ Append(s, e) \in Seq(S) /\ Len(s) \in Nat /\ Len(Append(s, e)) = Len(s) + 1
         /\ Append(s, e)[Len(s) + 1] = e
         /\ \A i \in 1 .. Len(s) : i \in 1 .. Len(Append(s, e)) /\ Append(s, e)[i] = s[i]
<1>1. Append(s, e) \in Seq(S) /\ Len(Append(s, e)) = Len(s) + 1 /\ Append(s, e)[Len(s) + 1] = e
  BY AppendProperties
<1>2. \A i \in 1 .. Len(s) : Append(s, e)[i] = s[i]
  BY AppendProperties
<1>3. Len(s) \in Nat
  BY LenProperties
<1>4. \A i \in 1 .. Len(s) : i \in 1 .. Len(s) + 1
  BY <1>3
<1> QED
  BY <1>1, <1>2, <1>3, <1>4

\* What is put at the end of a sequence: up to one element and another.
Then(s, n, e) == Append(s \o n, e)
Adds(S, s, n, e, t) ==
  /\ t \in Seq(S) /\ Len(s) \in Nat /\ Len(t) \in Nat /\ Len(t) > Len(s) /\ t[Len(t)] = e
  /\ \A i \in 1 .. Len(s) : i \in 1 .. Len(t) /\ t[i] = s[i]
  /\ \A i \in 1 .. Len(t) : i > Len(s) /\ i # Len(t) => Len(n) = 1 /\ t[i] = n[1]

LEMMA NewsAndAnswerFields ==
  ASSUME NEW S, NEW s \in Seq(S), NEW n \in Seq(S), Len(n) \in {0, 1}, NEW e \in S
  PROVE  Adds(S, s, n, e, Then(s, n, e))
<1> DEFINE m == s \o n
           t == Append(m, e)
<1>1. /\ m \in Seq(S)
      /\ Len(s) \in Nat /\ Len(n) \in Nat /\ Len(m) = Len(s) + Len(n)
      /\ \A i \in 1 .. Len(s) : i \in 1 .. Len(m) /\ m[i] = s[i]
      /\ \A i \in 1 .. Len(m) : i > Len(s) => i - Len(s) \in 1 .. Len(n) /\ m[i] = n[i - Len(s)]
  BY ConcatFields
<1> HIDE DEF m
<1>2. /\ t \in Seq(S) /\ Len(m) \in Nat /\ Len(t) = Len(m) + 1 /\ t[Len(m) + 1] = e
      /\ \A i \in 1 .. Len(m) : i \in 1 .. Len(t) /\ t[i] = m[i]
  BY <1>1, AppendFields, SMTT(40)
<1> HIDE DEF t
<1>3. Len(t) \in Nat /\ Len(t) > Len(s) /\ t[Len(t)] = e
  BY <1>1, <1>2
<1>4. \A i \in 1 .. Len(s) : i \in 1 .. Len(t) /\ t[i] = s[i]
  BY <1>1, <1>2
<1>5. ASSUME NEW i \in 1 .. Len(t), i > Len(s), i # Len(t)
      PROVE  Len(n) = 1 /\ t[i] = n[1]
  <2>1. i \in 1 .. Len(m)
    BY <1>1, <1>2, <1>5, SMTT(40)
  <2>2. i - Len(s) \in 1 .. Len(n) /\ t[i] = n[i - Len(s)]
    BY <1>1, <1>2, <1>5, <2>1
  <2>3. Len(n) = 1 /\ i - Len(s) = 1
    BY <1>1, <2>2
  <2> QED
    BY <2>2, <2>3
<1> QED
  BY <1>1, <1>2, <1>3, <1>4, <1>5 DEF t, m, Then, Adds

\* At most one answer is under way, to the request on the wire; it says what has become
\* of the request.
Wire ==
  /\ \A i, j \in DOMAIN inbox : IsAnswer(inbox[i]) /\ IsAnswer(inbox[j]) => i = j
  /\ \A i \in DOMAIN inbox : IsAnswer(inbox[i]) =>
       /\ queue # <<>> /\ inbox[i].of = queue[1].of
       /\ ~ inbox[i].ok \/ queue[1].kind = "DELETE" => inbox[i].con = NoConnection
       /\ inbox[i].ok /\ queue[1].kind # "DELETE" => inbox[i].con # NoConnection
       /\ inbox[i].ok /\ queue[1].kind = "PUT" => inbox[i].con.port = queue[1].port

Base == Typed /\ Wire

LEMMA MessageTypes ==
  ASSUME NEW m \in Messages
  PROVE  /\ m.of \in Sources /\ m.con \in Connections /\ m.ok \in BOOLEAN
         /\ m.type \in {"answer", "push"}
         /\ (IsAnswer(m) <=> m.type # "push")
BY DEF Messages, IsAnswer

LEMMA AnswerTypes ==
  ASSUME NEW o \in Sources, NEW c \in Connections, NEW ok \in BOOLEAN
  PROVE  LET m == Answer(o, ok, c)
         IN m \in Messages /\ IsAnswer(m) /\ m.of = o /\ m.ok = ok /\ m.con = c
BY DEF Answer, Messages, IsAnswer

LEMMA PushTypes ==
  ASSUME NEW o \in Sources, NEW c \in Connections
  PROVE  LET m == Push(o, c)
         IN m \in Messages /\ ~ IsAnswer(m) /\ m.of = o /\ m.ok = TRUE /\ m.con = c
BY DEF Push, Messages, IsAnswer

LEMMA CountTo ==
  ASSUME NEW n \in Nat
  PROVE  IsFiniteSet(1 .. n) /\ Cardinality(1 .. n) = n
<1>1. Cardinality(1 .. n) = IF 1 > n THEN 0 ELSE n - 1 + 1
  BY FS_Interval
<1>2. IsFiniteSet(1 .. n)
  BY FS_Interval
<1> QED
  BY <1>1, <1>2

LEMMA OneMore ==
  ASSUME NEW S, NEW x, IsFiniteSet(S)
  PROVE  IsFiniteSet(S \cup {x}) /\ Cardinality(S \cup {x}) \in Nat /\ Cardinality(S \cup {x}) <= Cardinality(S) + 1
<1>1. Cardinality(S) \in Nat
  BY FS_CardinalityType
<1>2. IsFiniteSet(S \cup {x})
  BY FS_AddElement
<1>3. Cardinality(S \cup {x}) = IF x \in S THEN Cardinality(S) ELSE Cardinality(S) + 1
  BY FS_AddElement
<1> QED
  BY <1>1, <1>2, <1>3

\* With so few messages under way there is a passphrase that is not in use.
LEMMA KeysSuffice ==
  ASSUME Typed, NEW o \in Sources, Len(inbox) <= MaxInbox
  PROVE  NewKey(o) \in Keys /\ NewKey(o) \notin InUse(o)
<1> DEFINE D == {j \in DOMAIN inbox : inbox[j].of = o}
           f == [i \in D |-> inbox[i].con.key]
           K == {inbox[i].con.key : i \in D}
           K1 == K \cup {record[o].key}
           K2 == K1 \cup {src[o].connection.key}
           K3 == K2 \cup {src[o].input.key}
<1>1. /\ DOMAIN inbox = 1 .. Len(inbox) /\ Len(inbox) \in Nat
      /\ MaxInbox \in Nat /\ MaxQueue \in Nat
  BY LenProperties, BoundsAreNatural DEF Typed, TypeOK
<1>2. IsFiniteSet(1 .. Len(inbox)) /\ Cardinality(1 .. Len(inbox)) = Len(inbox)
  BY <1>1, CountTo
<1>3. IsFiniteSet(D) /\ Cardinality(D) <= Len(inbox) /\ Cardinality(D) \in Nat
  <2>1. D \in SUBSET (1 .. Len(inbox))
    BY <1>1
  <2> HIDE DEF D
  <2> QED
    BY <1>2, <2>1, FS_Subset, FS_CardinalityType
<1>4. f \in Surjection(D, K)
  BY DEF Surjection
<1> HIDE DEF D, f, K
<1>5. IsFiniteSet(K) /\ Cardinality(K) <= Cardinality(D) /\ Cardinality(K) \in Nat
  BY <1>3, <1>4, FS_Surjection, FS_CardinalityType
<1>6. IsFiniteSet(K1) /\ Cardinality(K1) <= Cardinality(K) + 1 /\ Cardinality(K1) \in Nat
  BY <1>5, OneMore
<1> HIDE DEF K1
<1>7. IsFiniteSet(K2) /\ Cardinality(K2) <= Cardinality(K1) + 1 /\ Cardinality(K2) \in Nat
  BY <1>6, OneMore
<1> HIDE DEF K2
<1>8. IsFiniteSet(K3) /\ Cardinality(K3) <= Cardinality(K2) + 1 /\ Cardinality(K3) \in Nat
  BY <1>7, OneMore
<1> HIDE DEF K3
<1>9. InUse(o) = K3
  BY DEF InUse, K, K1, K2, K3, D
<1>10. Cardinality(Keys) = MaxInbox + MaxQueue + 5
  <2> DEFINE n == MaxInbox + MaxQueue + 5
  <2>1. n \in Nat
    BY <1>1
  <2> HIDE DEF n
  <2>2. Cardinality(1 .. n) = n
    BY <2>1, CountTo
  <2> QED
    BY <2>2 DEF Keys, n
<1>11. ~ (Keys \subseteq K3)
  <2> SUFFICES ASSUME Keys \in SUBSET K3 PROVE FALSE
    OBVIOUS
  <2>1. Cardinality(Keys) <= Cardinality(K3)
    BY <1>8, FS_Subset
  <2> QED
    BY <1>1, <1>3, <1>5, <1>6, <1>7, <1>8, <1>10, <2>1
<1>12. \E k \in Keys : k \notin InUse(o)
  BY <1>9, <1>11
<1> QED
  BY <1>12 DEF NewKey

-----------------------------------------------------------------------------
\* What the server does.

\* The connection it has for o from now on: the same, none, the one that the request on
\* the wire asks for, or the same with a guest or a revision more or less.
Successor(o, c) ==
  \/ c = record[o] \/ c = NoConnection
  \/ /\ c # NoConnection /\ c.key \notin InUse(o)
     /\ queue # <<>> /\ queue[1].of = o /\ queue[1].kind = "PUT" /\ c.port = queue[1].port
     /\ \A i \in DOMAIN inbox : ~ IsAnswer(inbox[i])
  \/ c # NoConnection /\ c.key = record[o].key /\ c.port = record[o].port /\ record[o].rev <= c.rev

\* It answers the request on the wire, o's.
Answers1(o, c, m) ==
  /\ IsAnswer(m) /\ m.of = o /\ queue # <<>> /\ queue[1].of = o
  /\ \A i \in DOMAIN inbox : ~ IsAnswer(inbox[i])
  /\ m.con = IF m.ok THEN c ELSE NoConnection
  /\ m.ok => /\ queue[1].kind = "PUT" => c # NoConnection /\ c.port = queue[1].port /\ c.key \notin InUse(o)
             /\ queue[1].kind = "DELETE" => c = NoConnection
             /\ queue[1].kind = "STATUS" => c # NoConnection /\ c = record[o]

ServerStep(o, c) ==
  /\ o \in Sources /\ c \in Connections /\ record' = [record EXCEPT ![o] = c]
  /\ Successor(o, c)
  /\ inbox' \in Seq(Messages) /\ Len(inbox) \in Nat /\ Len(inbox') \in Nat /\ Len(inbox') >= Len(inbox)
  /\ \A i \in 1 .. Len(inbox) : i \in 1 .. Len(inbox') /\ inbox'[i] = inbox[i]
  /\ \A i \in 1 .. Len(inbox') : i > Len(inbox) =>
       \/ inbox'[i] = Push(o, c) /\ o \in subs /\ c # record[o]
       \/ i = Len(inbox') /\ Answers1(o, c, inbox'[i])
  /\ o \in subs /\ c # record[o] => Len(inbox') > Len(inbox)
  /\ UNCHANGED <<src, range, usedPorts, downlinks, linked, refreshing, subs, queue, token, up, again,
                 unserved, unsent>>

LEMMA NewsFields ==
  ASSUME Typed, NEW o \in Sources, NEW c \in Connections
  PROVE  /\ News(o, c) \in Seq(Messages) /\ Len(News(o, c)) \in {0, 1}
         /\ Len(News(o, c)) = 1 => News(o, c)[1] = Push(o, c) /\ o \in subs /\ c # record[o]
         /\ o \in subs /\ c # record[o] => Len(News(o, c)) = 1
<1>1. Push(o, c) \in Messages
  BY PushTypes
<1>2. <<Push(o, c)>> \in Seq(Messages) /\ Len(<<Push(o, c)>>) = 1 /\ <<Push(o, c)>>[1] = Push(o, c)
  BY <1>1
<1>3. <<>> \in Seq(Messages) /\ Len(<<>>) = 0
  OBVIOUS
<1>4. CASE o \in subs /\ c # record[o]
  <2>1. News(o, c) = <<Push(o, c)>>
    BY <1>4 DEF News
  <2> QED
    BY <1>2, <1>4, <2>1
<1>5. CASE ~ (o \in subs /\ c # record[o])
  <2>1. News(o, c) = <<>>
    BY <1>5 DEF News
  <2> QED
    BY <1>3, <1>5, <2>1
<1> QED
  BY <1>4, <1>5

\* It tells who has subscribed, and no more.
LEMMA NewsStep ==
  ASSUME Typed, NEW o \in Sources, NEW c \in Connections, Successor(o, c),
         record' = [record EXCEPT ![o] = c], inbox' = inbox \o News(o, c),
         UNCHANGED <<src, range, usedPorts, downlinks, linked, refreshing, subs, queue, token, up, again,
                     unserved, unsent>>
  PROVE  ServerStep(o, c)
<1> DEFINE N == News(o, c)
<1>1. inbox \in Seq(Messages) /\ inbox' = inbox \o N
  BY DEF Typed, TypeOK
<1>2. /\ N \in Seq(Messages) /\ Len(N) \in {0, 1}
      /\ Len(N) = 1 => N[1] = Push(o, c) /\ o \in subs /\ c # record[o]
      /\ o \in subs /\ c # record[o] => Len(N) = 1
  BY NewsFields
<1> HIDE DEF N
<1>3. /\ inbox' \in Seq(Messages)
      /\ Len(inbox) \in Nat /\ Len(N) \in Nat /\ Len(inbox') = Len(inbox) + Len(N)
      /\ \A i \in 1 .. Len(inbox) : i \in 1 .. Len(inbox') /\ inbox'[i] = inbox[i]
      /\ \A i \in 1 .. Len(inbox') : i > Len(inbox) => i - Len(inbox) \in 1 .. Len(N) /\ inbox'[i] = N[i - Len(inbox)]
  BY <1>1, <1>2, ConcatFields
<1>4. ASSUME NEW i \in 1 .. Len(inbox'), i > Len(inbox)
      PROVE  inbox'[i] = Push(o, c) /\ o \in subs /\ c # record[o]
  <2>1. i - Len(inbox) \in 1 .. Len(N) /\ inbox'[i] = N[i - Len(inbox)]
    BY <1>3, <1>4
  <2>2. Len(N) = 1 /\ i - Len(inbox) = 1
    BY <1>2, <1>3, <2>1
  <2> QED
    BY <1>2, <2>1, <2>2
<1>5. Len(inbox') >= Len(inbox) /\ Len(inbox') \in Nat
      /\ (o \in subs /\ c # record[o] => Len(inbox') > Len(inbox))
  BY <1>2, <1>3
<1> QED
  BY <1>3, <1>4, <1>5 DEF ServerStep

\* It tells who has subscribed, then answers.
LEMMA AnswerStep ==
  ASSUME Typed, NEW o \in Sources, NEW c \in Connections, Successor(o, c),
         record' = [record EXCEPT ![o] = c],
         NEW m \in Messages, Answers1(o, c, m), inbox' = inbox \o News(o, c) \o <<m>>,
         UNCHANGED <<src, range, usedPorts, downlinks, linked, refreshing, subs, queue, token, up, again,
                     unserved, unsent>>
  PROVE  ServerStep(o, c) /\ Len(inbox') > Len(inbox) /\ inbox'[Len(inbox')] = m
<1> DEFINE N == News(o, c)
           M == inbox \o N
<1>1. inbox \in Seq(Messages) /\ inbox' = Append(M, m)
  <2>1. N \in Seq(Messages)
    BY NewsFields
  <2>2. M \in Seq(Messages)
    BY <2>1 DEF Typed, TypeOK
  <2> HIDE DEF M
  <2>3. inbox' = M \o <<m>>
    BY DEF M
  <2> QED
    BY <2>2, <2>3, AppendIsConcat DEF Typed, TypeOK
<1>2. /\ N \in Seq(Messages) /\ Len(N) \in {0, 1}
      /\ Len(N) = 1 => N[1] = Push(o, c) /\ o \in subs /\ c # record[o]
  BY NewsFields
<1> HIDE DEF N
<1>3. /\ inbox' \in Seq(Messages) /\ Len(inbox) \in Nat /\ Len(inbox') \in Nat
      /\ Len(inbox') > Len(inbox) /\ inbox'[Len(inbox')] = m
      /\ \A i \in 1 .. Len(inbox) : i \in 1 .. Len(inbox') /\ inbox'[i] = inbox[i]
      /\ \A i \in 1 .. Len(inbox') : i > Len(inbox) /\ i # Len(inbox') => Len(N) = 1 /\ inbox'[i] = N[1]
  <2>1. inbox' = Then(inbox, N, m)
    BY <1>1 DEF Then
  <2>2. Adds(Messages, inbox, N, m, Then(inbox, N, m))
    BY <1>1, <1>2, NewsAndAnswerFields
  <2>3. Adds(Messages, inbox, N, m, inbox')
    BY <2>1, <2>2
  <2> QED
    BY <2>3 DEF Adds
<1>4. \A i \in 1 .. Len(inbox') : i > Len(inbox) =>
        \/ inbox'[i] = Push(o, c) /\ o \in subs /\ c # record[o]
        \/ i = Len(inbox') /\ Answers1(o, c, inbox'[i])
  BY <1>2, <1>3
<1>5. Len(inbox') >= Len(inbox)
  BY <1>3
<1> QED
  BY <1>3, <1>4, <1>5 DEF ServerStep

LEMMA ServeTakesStep ==
  ASSUME Typed, Serve
  PROVE  /\ \E o \in Sources, c \in Connections : ServerStep(o, c) /\ queue[1].of = o
                /\ Len(inbox') > Len(inbox) /\ Answers1(o, c, inbox'[Len(inbox')])
         /\ parallel' = parallel
<1> DEFINE r == Head(queue)
           o == r.of
<1>0. /\ queue # <<>> /\ queue \in Seq(Requests) /\ r = queue[1] /\ r \in Requests
      /\ Len(inbox) <= MaxInbox
      /\ inbox \in Seq(Messages)
  BY SMTT(40) DEF Typed, TypeOK, Serve
<1>1. /\ o \in Sources /\ r.kind \in {"PUT", "STATUS", "DELETE"}
      /\ r.rev \in 0 .. MaxRevision /\ r.port \in Ports
      /\ record[o] \in Connections
  BY <1>0 DEF Requests, Typed, TypeOK
<1>2. \A i \in DOMAIN inbox : ~ IsAnswer(inbox[i])
  BY DEF Serve, IsAnswer
<1>3. UNCHANGED <<src, range, usedPorts, downlinks, linked, refreshing, subs, queue, token, up, again,
                  unserved, unsent, parallel>>
  BY DEF Serve, api
<1>4. NewKey(o) \in Keys /\ NewKey(o) \notin InUse(o)
  BY <1>0, <1>1, KeysSuffice
<1> HIDE DEF r, o
<1>5. \/ \E c \in Effects(r), ok \in {TRUE, ~ Failures} :
             /\ r.kind = "STATUS" => record[o] # NoConnection
             /\ record' = [record EXCEPT ![o] = c]
             /\ inbox' = inbox \o News(o, c) \o <<Answer(o, ok, IF ok THEN c ELSE NoConnection)>>
      \/ inbox' = Append(inbox, Answer(o, FALSE, NoConnection)) /\ record' = record
  BY Zenon DEF Serve, r, o
<1>6. ASSUME NEW c \in Effects(r), NEW ok \in {TRUE, ~ Failures},
             r.kind = "STATUS" => record[o] # NoConnection,
             record' = [record EXCEPT ![o] = c],
             inbox' = inbox \o News(o, c) \o <<Answer(o, ok, IF ok THEN c ELSE NoConnection)>>
      PROVE  \E p \in Sources, d \in Connections : ServerStep(p, d) /\ queue[1].of = p
                /\ Len(inbox') > Len(inbox) /\ Answers1(p, d, inbox'[Len(inbox')])
  <2>1. /\ c \in Connections
        /\ r.kind = "PUT" => c # NoConnection /\ c.port = r.port /\ c.key \notin InUse(o)
        /\ r.kind = "DELETE" => c = NoConnection
        /\ r.kind = "STATUS" => c # NoConnection /\ c = record[o]
    <3>1. CASE r.kind = "PUT"
      <4>1. c \in [alloc : Allocations, rev : {r.rev}, key : {NewKey(r.of)}, port : {r.port}]
        BY <1>6, <3>1 DEF Effects
      <4>2. c \in [alloc : BOOLEAN, rev : 0 .. MaxRevision, key : Keys, port : Ports]
        BY <1>1, <1>4, <4>1, ChoicesAreLegal DEF o
      <4>3. c \in Connections /\ c.key \in Keys
        BY <4>2 DEF Connections
      <4>4. c # NoConnection
        BY <4>3, BoundsAreNatural DEF Keys, NoConnection
      <4> QED
        BY <1>4, <3>1, <4>1, <4>3, <4>4 DEF o
    <3>2. CASE r.kind = "DELETE"
      <4>1. c = NoConnection
        BY <1>6, <3>2 DEF Effects
      <4> QED
        BY <3>2, <4>1, ConnectionTypes
    <3>3. CASE r.kind = "STATUS"
      <4>1. c = record[o]
        BY <1>6, <3>3 DEF Effects, o
      <4> QED
        BY <1>1, <1>6, <3>3, <4>1
    <3> QED
      BY <1>1, <3>1, <3>2, <3>3
  <2>2. Successor(o, c)
    BY <1>0, <1>1, <1>2, <2>1 DEF Successor, o
  <2> DEFINE d == IF ok THEN c ELSE NoConnection
             m == Answer(o, ok, d)
  <2>3. d \in Connections /\ ok \in BOOLEAN
    BY <2>1, ConnectionTypes, ChoicesAreLegal
  <2>4. m \in Messages /\ IsAnswer(m) /\ m.of = o /\ m.ok = ok /\ m.con = d
    BY <1>1, <2>3, AnswerTypes
  <2> HIDE DEF m
  <2>5. m.con = IF m.ok THEN c ELSE NoConnection
    BY <2>4
  <2>6. Answers1(o, c, m)
    BY <1>0, <1>1, <1>2, <2>1, <2>4, <2>5 DEF Answers1, o
  <2>7. inbox' = inbox \o News(o, c) \o <<m>>
    BY <1>6 DEF m
  <2>8. ServerStep(o, c) /\ Len(inbox') > Len(inbox) /\ inbox'[Len(inbox')] = m
    BY <1>1, <1>3, <1>6, <2>1, <2>2, <2>4, <2>6, <2>7, AnswerStep
  <2> QED
    BY <1>0, <1>1, <2>1, <2>6, <2>8 DEF o
<1>7. ASSUME inbox' = Append(inbox, Answer(o, FALSE, NoConnection)), record' = record
      PROVE  \E p \in Sources, d \in Connections : ServerStep(p, d) /\ queue[1].of = p
                /\ Len(inbox') > Len(inbox) /\ Answers1(p, d, inbox'[Len(inbox')])
  <2> DEFINE c == record[o]
             m == Answer(o, FALSE, NoConnection)
  <2>1. m \in Messages /\ IsAnswer(m) /\ m.of = o /\ m.ok = FALSE /\ m.con = NoConnection
    BY <1>1, AnswerTypes, ConnectionTypes
  <2>2. record' = [record EXCEPT ![o] = c]
    BY <1>7 DEF Typed, TypeOK
  <2>3. Successor(o, c)
    BY DEF Successor
  <2> HIDE DEF m
  <2>4. Answers1(o, c, m)
    BY <1>0, <1>2, <2>1 DEF Answers1, o
  <2>5. inbox' \in Seq(Messages) /\ Len(inbox') = Len(inbox) + 1 /\ inbox'[Len(inbox) + 1] = m
        /\ \A i \in 1 .. Len(inbox) : inbox'[i] = inbox[i]
    <3>1. /\ Append(inbox, m) \in Seq(Messages) /\ Len(Append(inbox, m)) = Len(inbox) + 1
          /\ Append(inbox, m)[Len(inbox) + 1] = m
          /\ \A i \in 1 .. Len(inbox) : Append(inbox, m)[i] = inbox[i]
      BY <1>0, <2>1, AppendFields
    <3>2. inbox' = Append(inbox, m)
      BY <1>7 DEF m
    <3> QED
      BY <3>1, <3>2
  <2>6. Len(inbox) \in Nat
    BY <1>0, LenProperties
  <2>7. ServerStep(o, c)
    <3>1. \A i \in 1 .. Len(inbox) : i \in 1 .. Len(inbox') /\ inbox'[i] = inbox[i]
      BY <2>5, <2>6
    <3>2. \A i \in 1 .. Len(inbox') : i > Len(inbox) => i = Len(inbox') /\ Answers1(o, c, inbox'[i])
      BY <2>4, <2>5, <2>6
    <3> QED
      BY <1>1, <1>3, <2>2, <2>3, <2>5, <2>6, <3>1, <3>2 DEF ServerStep
  <2> QED
    BY <1>0, <1>1, <2>4, <2>5, <2>6, <2>7 DEF o
<1> QED
  BY <1>3, <1>5, <1>6, <1>7

LEMMA ServeParallelTakesStep ==
  ASSUME Typed, NEW o \in Sources, ServeParallel(o)
  PROVE  /\ parallel[o] = "sent" /\ UNCHANGED <<unheard>>
         /\ \E x \in {"done", "failed"} : parallel' = [parallel EXCEPT ![o] = x]
         /\ \/ ServerStep(o, NoConnection)
            \/ UNCHANGED <<src, range, usedPorts, downlinks, linked, refreshing, subs, queue, token, up, again,
                           unserved, unsent, record, inbox>>
<1>1. /\ UNCHANGED <<src, range, usedPorts, downlinks, linked, refreshing, subs, queue, token, up, again,
                    unserved, unsent, unheard>>
      /\ parallel[o] = "sent"
  BY DEF ServeParallel, api, hist
<1>2. CASE /\ record' = [record EXCEPT ![o] = NoConnection]
           /\ inbox' = inbox \o News(o, NoConnection)
           /\ \E result \in {"done"} \cup (IF Failures THEN {"failed"} ELSE {}) : parallel' = [parallel EXCEPT ![o] = result]
  <2>1. Successor(o, NoConnection)
    BY DEF Successor
  <2>2. ServerStep(o, NoConnection)
    BY <1>1, <1>2, <2>1, NewsStep, ConnectionTypes
  <2> QED
    BY <1>1, <1>2, <2>2
<1>3. CASE parallel' = [parallel EXCEPT ![o] = "failed"] /\ UNCHANGED <<record, inbox>>
  BY <1>1, <1>3
<1> QED
  BY <1>2, <1>3 DEF ServeParallel

LEMMA ServerChangesTakesStep ==
  ASSUME Typed, NEW o \in Sources, ServerChanges(o)
  PROVE  /\ \E c \in Connections : ServerStep(o, c) /\ c # record[o]
         /\ parallel' = parallel /\ record[o] # NoConnection
         /\ unheard' = IF o \in subs THEN unheard ELSE unheard \cup {o}
<1>1. /\ UNCHANGED <<src, range, usedPorts, downlinks, linked, refreshing, subs, queue, token, up, again,
                    unserved, unsent, parallel>>
      /\ record[o] # NoConnection
      /\ unheard' = IF o \in subs THEN unheard ELSE unheard \cup {o}
  BY DEF ServerChanges, api
<1>2. PICK c \in Changes(record[o]) : record' = [record EXCEPT ![o] = c] /\ inbox' = inbox \o News(o, c)
  BY DEF ServerChanges
<1>3. record[o] \in Connections /\ record[o] \in [alloc : BOOLEAN, rev : 0 .. MaxRevision, key : Keys, port : Ports]
  BY <1>1 DEF Typed, TypeOK, Connections
<1>4. c \in Connections /\ Successor(o, c) /\ c # record[o]
  <2>1. CASE c = [record[o] EXCEPT !.alloc = ~ record[o].alloc]
    <3>1. c \in [alloc : BOOLEAN, rev : 0 .. MaxRevision, key : Keys, port : Ports]
          /\ c.key = record[o].key /\ c.port = record[o].port /\ c.rev = record[o].rev
          /\ c.alloc # record[o].alloc
      BY <1>3, <2>1
    <3>2. c \in Connections
      BY <3>1 DEF Connections
    <3> QED
      BY <1>1, <1>3, <3>1, <3>2, ConnectionTypes DEF Successor
  <2>2. CASE c = NoConnection
    BY <1>1, <2>2, ConnectionTypes DEF Successor
  <2>3. ASSUME NEW r \in {record[o].rev + 1} \cap (0 .. MaxRevision), c = [record[o] EXCEPT !.rev = r]
        PROVE  c \in Connections /\ Successor(o, c) /\ c # record[o]
    <3>1. c \in [alloc : BOOLEAN, rev : 0 .. MaxRevision, key : Keys, port : Ports]
          /\ c.key = record[o].key /\ c.port = record[o].port /\ c.rev = r
      BY <1>3, <2>3
    <3>2. c \in Connections /\ record[o].rev <= c.rev /\ c.rev # record[o].rev
      BY <1>3, <3>1, ConnectionTypes DEF Connections
    <3> QED
      BY <1>1, <1>3, <3>1, <3>2, ConnectionTypes DEF Successor
  <2> QED
    BY <1>2, <2>1, <2>2, <2>3 DEF Changes
<1>5. ServerStep(o, c)
  BY <1>1, <1>2, <1>4, NewsStep
<1> QED
  BY <1>1, <1>4, <1>5

-----------------------------------------------------------------------------
\* What the arrival of a message does.

LEMMA ToldFields ==
  ASSUME src \in [Sources -> Source], NEW o \in Sources, NEW t \in Source, Told(o, t)
  PROVE  /\ src' \in [Sources -> Source] /\ \A q \in Sources : q # o => src'[q] = src[q]
         /\ src'[o] = IF Present(o) THEN t ELSE src[o]
BY DEF Told

\* The queue moves on.
QueueAdvances ==
  /\ queue # <<>> /\ queue' \in Seq(Requests) /\ Len(queue) \in Nat /\ Len(queue') = Len(queue) - 1
  /\ \A i \in 1 .. Len(queue') : i + 1 \in 1 .. Len(queue) /\ queue'[i] = queue[i + 1]

LEMMA TailAdvances ==
  ASSUME queue \in Seq(Requests), queue # <<>>, queue' = Tail(queue)
  PROVE  QueueAdvances
<1>1. Len(queue) \in Nat /\ Len(queue) # 0
  BY LenProperties, EmptySeq
<1>2. Tail(queue) \in Seq(Requests) /\ Len(Tail(queue)) = Len(queue) - 1
  BY <1>1
<1>3. \A i \in 1 .. Len(queue) - 1 : i + 1 \in 1 .. Len(queue) /\ Tail(queue)[i] = queue[i + 1]
  BY <1>1
<1> QED
  BY <1>1, <1>2, <1>3 DEF QueueAdvances

\* What message m makes of the source and the map.
Ready(m) ==
  /\ IsAnswer(m) => m.ok /\ queue[1].kind # "DELETE"
  /\ m.con # NoConnection
  /\ downlinks' = downlinks \cup {m.of}
  /\ src'[m.of] = IF Present(m.of) THEN DownlinkReady(src[m.of], m.con) ELSE src[m.of]
  /\ subs' = IF IsAnswer(m) /\ queue[1].kind = "PUT" /\ up THEN subs \cup {m.of} ELSE subs
RemovedBy(m) ==
  /\ IsAnswer(m) => m.ok /\ queue[1].kind = "DELETE"
  /\ m.con = NoConnection
  /\ downlinks' = downlinks \ {m.of}
  /\ src'[m.of] = IF Present(m.of) /\ m.of \in downlinks THEN Reset(src[m.of], NoConnection) ELSE src[m.of]
  /\ subs' = IF IsAnswer(m) /\ up THEN subs \ {m.of} ELSE subs
FailedBy(m) ==
  /\ IsAnswer(m) /\ ~ m.ok /\ queue[1].kind # "DELETE" /\ m.con = NoConnection
  /\ src'[m.of] = IF Present(m.of) THEN Reset(src[m.of], NoConnection) ELSE src[m.of]
  /\ UNCHANGED <<downlinks, subs>>
IgnoredAfter(m) ==
  /\ IsAnswer(m) /\ ~ m.ok /\ queue[1].kind = "DELETE" /\ m.con = NoConnection
  /\ UNCHANGED <<src, downlinks, subs>>

MessageStep(i) ==
  /\ i \in 1 .. Len(inbox) /\ inbox[i] \in Messages /\ (Ordered => i = 1)
  /\ inbox' \in Seq(Messages) /\ Len(inbox) \in Nat /\ Len(inbox') = Len(inbox) - 1
  /\ \A j \in 1 .. Len(inbox) - 1 : inbox'[j] = IF j < i THEN inbox[j] ELSE inbox[j + 1]
  /\ src' \in [Sources -> Source] /\ \A q \in Sources : q # inbox[i].of => src'[q] = src[q]
  /\ \/ ~ IsAnswer(inbox[i]) /\ UNCHANGED <<queue, token, hist>>
     \/ /\ IsAnswer(inbox[i]) /\ QueueAdvances /\ queue[1].of = inbox[i].of
        /\ token' = (linked \/ Len(queue) = 1)
        /\ unserved' = IF queue[1].kind = "STATUS" THEN unserved
                       ELSE IF inbox[i].ok THEN unserved \ {inbox[i].of} ELSE unserved \cup {inbox[i].of}
        /\ unheard' = IF inbox[i].ok THEN unheard ELSE unheard \cup {inbox[i].of}
        /\ UNCHANGED unsent
  /\ Ready(inbox[i]) \/ RemovedBy(inbox[i]) \/ FailedBy(inbox[i]) \/ IgnoredAfter(inbox[i])
  /\ refreshing = {}
  /\ UNCHANGED <<record, range, usedPorts, linked, refreshing, parallel, up, again>>

LEMMA ReceiveTakesStep ==
  ASSUME Base, NEW i \in DOMAIN inbox, Receive(i)
  PROVE  MessageStep(i)
<1> DEFINE m == inbox[i]
           o == m.of
<1>0. /\ inbox \in Seq(Messages) /\ queue \in Seq(Requests) /\ src \in [Sources -> Source]
      /\ i \in 1 .. Len(inbox) /\ m \in Messages /\ Len(inbox) \in Nat /\ Idle
  <2>1. inbox \in Seq(Messages) /\ queue \in Seq(Requests) /\ src \in [Sources -> Source]
    BY DEF Base, Typed, TypeOK
  <2>2. Idle
    BY DEF Receive
  <2>3. Len(inbox) \in Nat /\ DOMAIN inbox = 1 .. Len(inbox) /\ m \in Messages
    BY <2>1, LenProperties
  <2> QED
    BY <2>1, <2>2, <2>3
<1>1. o \in Sources /\ m.con \in Connections /\ (IsAnswer(m) <=> m.type # "push") /\ m.ok \in BOOLEAN
  BY <1>0, MessageTypes
<1>2. inbox' = RemoveAt(inbox, i)
  BY DEF Receive
<1>3. /\ inbox' \in Seq(Messages)
      /\ Len(inbox') = Len(inbox) - 1
      /\ \A j \in 1 .. Len(inbox) - 1 : inbox'[j] = IF j < i THEN inbox[j] ELSE inbox[j + 1]
  BY <1>0, <1>2, RemoveAtFields
<1>4. Ordered => i = 1
  <2> SUFFICES ASSUME Ordered, i # 1 PROVE FALSE
    OBVIOUS
  <2>1. 1 \in 1 .. i - 1
    BY <1>0
  <2>2. \A j \in 1 .. i - 1 : ~ Ordered
    BY DEF Receive
  <2> QED
    BY <2>1, <2>2
<1>5. UNCHANGED <<range, usedPorts, linked, refreshing, parallel, up, again>>
  BY DEF Receive
<1>6. src[o] \in Source /\ DownlinkReady(src[o], m.con) \in Source /\ Reset(src[o], NoConnection) \in Source
  BY <1>0, <1>1, ResetFields, DownlinkReadyFields, ConnectionTypes
<1>7. CASE m.type = "push"
  <2>1. Pushed(m) /\ UNCHANGED <<queue, token, hist>>
    BY <1>7 DEF Receive
  <2>2. ~ IsAnswer(m) /\ record' = record /\ subs' = subs
    BY <1>1, <1>7, <2>1 DEF Pushed, srv
  <2>3. CASE m.con # NoConnection
    <3>1. downlinks' = downlinks \cup {o} /\ Told(o, DownlinkReady(src[o], m.con))
      BY <2>1, <2>3 DEF Pushed
    <3>2. /\ src' \in [Sources -> Source] /\ \A q \in Sources : q # o => src'[q] = src[q]
          /\ src'[o] = IF Present(o) THEN DownlinkReady(src[o], m.con) ELSE src[o]
      BY <1>0, <1>1, <1>6, <3>1, ToldFields
    <3>3. Ready(m)
      BY <2>2, <2>3, <3>1, <3>2 DEF Ready
    <3> QED
      BY <1>0, <1>3, <1>4, <1>5, <2>1, <2>2, <3>2, <3>3 DEF MessageStep, Idle
  <2>4. CASE m.con = NoConnection
    <3>1. /\ downlinks' = downlinks \ {o}
          /\ IF o \in downlinks THEN Told(o, Reset(src[o], NoConnection)) ELSE UNCHANGED src
      BY <2>1, <2>4 DEF Pushed
    <3>2. /\ src' \in [Sources -> Source] /\ \A q \in Sources : q # o => src'[q] = src[q]
          /\ src'[o] = IF Present(o) /\ o \in downlinks THEN Reset(src[o], NoConnection) ELSE src[o]
      <4>1. CASE o \in downlinks
        BY <1>0, <1>1, <1>6, <3>1, <4>1, ToldFields
      <4>2. CASE o \notin downlinks
        BY <1>0, <3>1, <4>2
      <4> QED
        BY <4>1, <4>2
    <3>3. RemovedBy(m)
      BY <2>2, <2>4, <3>1, <3>2 DEF RemovedBy
    <3> QED
      BY <1>0, <1>3, <1>4, <1>5, <2>1, <2>2, <3>2, <3>3 DEF MessageStep, Idle
  <2> QED
    BY <2>3, <2>4
<1>8. CASE m.type # "push"
  <2> DEFINE r == queue[1]
  <2>1. /\ queue' = Tail(queue) /\ token' = (linked \/ Len(queue) = 1)
        /\ Answered(Head(queue), m)
        /\ unserved' = IF Head(queue).kind = "STATUS" THEN unserved
                       ELSE IF m.ok THEN unserved \ {m.of} ELSE unserved \cup {m.of}
        /\ unheard' = IF m.ok THEN unheard ELSE unheard \cup {m.of}
        /\ UNCHANGED unsent
    BY <1>8 DEF Receive
  <2>2. /\ IsAnswer(m) /\ queue # <<>> /\ o = r.of
        /\ ~ m.ok \/ r.kind = "DELETE" => m.con = NoConnection
        /\ m.ok /\ r.kind # "DELETE" => m.con # NoConnection
    BY <1>1, <1>8 DEF Base, Wire
  <2>3. Head(queue) = r
    BY <1>0, <2>2
  <2>4. QueueAdvances
    BY <1>0, <2>1, <2>2, TailAdvances
  <2>5. Answered(r, m)
    BY <2>1, <2>3, Zenon
  <2>6. /\ \/ ~ IsAnswer(m) /\ UNCHANGED <<queue, token, hist>>
           \/ /\ IsAnswer(m) /\ QueueAdvances /\ r.of = m.of
              /\ token' = (linked \/ Len(queue) = 1)
              /\ unserved' = IF r.kind = "STATUS" THEN unserved
                             ELSE IF m.ok THEN unserved \ {m.of} ELSE unserved \cup {m.of}
              /\ unheard' = IF m.ok THEN unheard ELSE unheard \cup {m.of}
              /\ UNCHANGED unsent
    BY <2>1, <2>2, <2>3, <2>4, Zenon
  <2> HIDE DEF r
  <2>7. record' = record
    BY <2>5 DEF Answered, Subscribers, srv
  <2>8. CASE r.kind # "DELETE" /\ m.ok
    <3>1. /\ downlinks' = downlinks \cup {o}
          /\ subs' = IF r.kind = "PUT" /\ up THEN subs \cup {o} ELSE subs
          /\ Told(o, DownlinkReady(src[o], m.con))
      BY <2>2, <2>5, <2>8 DEF Answered, Subscribers
    <3>2. /\ src' \in [Sources -> Source] /\ \A q \in Sources : q # o => src'[q] = src[q]
          /\ src'[o] = IF Present(o) THEN DownlinkReady(src[o], m.con) ELSE src[o]
      BY <1>0, <1>1, <1>6, <3>1, ToldFields
    <3>3. Ready(m)
      BY <2>2, <2>8, <3>1, <3>2 DEF Ready, r
    <3> QED
      BY <1>0, <1>3, <1>4, <1>5, <2>6, <2>7, <3>2, <3>3 DEF MessageStep, Idle, r
  <2>9. CASE r.kind = "DELETE" /\ m.ok
    <3>1. /\ downlinks' = downlinks \ {o}
          /\ subs' = IF up THEN subs \ {o} ELSE subs
          /\ IF o \in downlinks THEN Told(o, Reset(src[o], NoConnection)) ELSE UNCHANGED src
      BY <2>2, <2>5, <2>9 DEF Answered, Subscribers
    <3>2. /\ src' \in [Sources -> Source] /\ \A q \in Sources : q # o => src'[q] = src[q]
          /\ src'[o] = IF Present(o) /\ o \in downlinks THEN Reset(src[o], NoConnection) ELSE src[o]
      <4>1. CASE o \in downlinks
        BY <1>0, <1>1, <1>6, <3>1, <4>1, ToldFields
      <4>2. CASE o \notin downlinks
        BY <1>0, <3>1, <4>2
      <4> QED
        BY <4>1, <4>2
    <3>3. RemovedBy(m)
      BY <2>2, <2>9, <3>1, <3>2 DEF RemovedBy, r
    <3> QED
      BY <1>0, <1>3, <1>4, <1>5, <2>6, <2>7, <3>2, <3>3 DEF MessageStep, Idle, r
  <2>10. CASE r.kind # "DELETE" /\ ~ m.ok
    <3>1. UNCHANGED <<downlinks, subs>> /\ Told(o, Reset(src[o], NoConnection))
      BY <2>2, <2>5, <2>10 DEF Answered, srv
    <3>2. /\ src' \in [Sources -> Source] /\ \A q \in Sources : q # o => src'[q] = src[q]
          /\ src'[o] = IF Present(o) THEN Reset(src[o], NoConnection) ELSE src[o]
      BY <1>0, <1>1, <1>6, <3>1, ToldFields
    <3>3. FailedBy(m)
      BY <2>2, <2>10, <3>1, <3>2 DEF FailedBy, r
    <3> QED
      BY <1>0, <1>3, <1>4, <1>5, <2>6, <2>7, <3>2, <3>3 DEF MessageStep, Idle, r
  <2>11. CASE r.kind = "DELETE" /\ ~ m.ok
    <3>1. UNCHANGED <<src, downlinks, subs>>
      BY <2>2, <2>5, <2>11 DEF Answered, srv
    <3>2. IgnoredAfter(m)
      BY <2>2, <2>11, <3>1 DEF IgnoredAfter, r
    <3>3. src' \in [Sources -> Source] /\ \A q \in Sources : q # o => src'[q] = src[q]
      BY <1>0, <3>1
    <3> QED
      BY <1>0, <1>3, <1>4, <1>5, <2>6, <2>7, <3>2, <3>3 DEF MessageStep, Idle, r
  <2> QED
    BY <2>8, <2>9, <2>10, <2>11
<1> QED
  BY <1>7, <1>8

\* Of the messages under way only the answer stays, if there is one.
LEMMA AnswersFields ==
  ASSUME inbox \in Seq(Messages), inbox' = Answers(inbox)
  PROVE  /\ inbox' \in Seq(Messages) /\ Len(inbox') \in {0, 1}
         /\ \A i \in DOMAIN inbox' : i = 1 /\ Len(inbox') = 1 /\ IsAnswer(inbox'[i])
                 /\ \E j \in DOMAIN inbox : inbox'[i] = inbox[j]
         /\ \A j \in DOMAIN inbox : IsAnswer(inbox[j]) => Len(inbox') = 1
<1> DEFINE A == {m \in ToSet(inbox) : IsAnswer(m)}
           e == CHOOSE m \in A : TRUE
<1>1. inbox' = IF A = {} THEN <<>> ELSE <<e>>
  BY DEF Answers
<1>2. \A m \in A : IsAnswer(m) /\ m \in Messages /\ \E j \in DOMAIN inbox : m = inbox[j]
  BY DEF ToSet
<1>3. \A j \in DOMAIN inbox : IsAnswer(inbox[j]) => inbox[j] \in A
  BY DEF ToSet
<1>4. A # {} => e \in A
  OBVIOUS
<1> HIDE DEF A, e
<1>5. CASE A = {}
  BY <1>1, <1>3, <1>5
<1>6. CASE A # {}
  <2>1. inbox' = <<e>> /\ e \in Messages
    BY <1>1, <1>2, <1>4, <1>6
  <2>2. inbox' \in Seq(Messages) /\ Len(inbox') = 1 /\ DOMAIN inbox' = {1} /\ inbox'[1] = e
    BY <2>1
  <2> QED
    BY <1>2, <1>4, <1>6, <2>2
<1> QED
  BY <1>5, <1>6

-----------------------------------------------------------------------------
\* The types and the one answer under way are kept.

LEMMA QueueKeepsHead ==
  ASSUME queue \in Seq(Requests), QueueGrows \/ UNCHANGED queue, queue # <<>>
  PROVE  queue' # <<>> /\ queue'[1] = queue[1] /\ 1 \in 1 .. Len(queue) /\ 1 \in 1 .. Len(queue')
<1>1. Len(queue) \in Nat /\ Len(queue) # 0
  BY EmptySeq, LenProperties
<1>2. 1 \in 1 .. Len(queue)
  BY <1>1
<1>3. CASE QueueGrows
  <2>1. queue'[1] = queue[1] /\ 1 \in 1 .. Len(queue') /\ queue' \in Seq(Requests)
    BY <1>2, <1>3 DEF QueueGrows
  <2>2. Len(queue') \in Nat /\ Len(queue') # 0
    BY <2>1, LenProperties
  <2> QED
    BY <1>2, <2>1, <2>2
<1> QED
  BY <1>2, <1>3

LEMMA QueueKeepsWire ==
  ASSUME Wire, queue \in Seq(Requests), QueueGrows \/ UNCHANGED queue, inbox' = inbox
  PROVE  Wire'
<1>1. queue # <<>> => queue' # <<>> /\ queue'[1] = queue[1]
  BY QueueKeepsHead
<1> QED
  BY <1>1 DEF Wire

\* The sources are as they were, or still to be created is none that is not any more.
LEMMA TypedKept ==
  ASSUME Typed, TypeOK', refreshing' \subseteq refreshing,
         \A o \in Sources : src'[o] = src[o] \/ (src'[o].life # "new" /\ src'[o].rev = src[o].rev)
                            \/ (src'[o].life # "new" /\ o \notin refreshing')
  PROVE  Typed'
<1>1. \A o \in Sources : src[o].life = "new" => src[o] = NewSource
  BY DEF Typed
<1>2. \A o \in refreshing : src[o].rev < MaxRevision /\ o \in Sources
  BY DEF Typed, TypeOK
<1>3. \A o \in Sources : src'[o].life = "new" => src'[o] = NewSource
  BY <1>1
<1>4. \A o \in refreshing' : src'[o].rev < MaxRevision
  BY <1>2
<1> QED
  BY <1>3, <1>4 DEF Typed

LEMMA CaptureKeepsBase ==
  ASSUME Base, NEW o, CaptureStep(o)
  PROVE  Base'
<1>1. TypeOK /\ Typed /\ Wire
  BY DEF Base, Typed
<1>2. queue' \in Seq(Requests) /\ unsent' \subseteq Sources
  BY <1>1 DEF CaptureStep, QueueGrows, TypeOK
<1>3. TypeOK'
  BY <1>1, <1>2 DEF TypeOK, CaptureStep, srv
<1>4. src'[o].life # "new"
  BY <1>1, SourceTypes DEF CaptureStep, TypeOK
<1>5. Typed'
  BY <1>1, <1>3, <1>4, TypedKept DEF CaptureStep
<1>6. QueueGrows \/ UNCHANGED queue
  BY DEF CaptureStep
<1>7. queue \in Seq(Requests) /\ inbox' = inbox
  BY <1>1 DEF TypeOK, CaptureStep
<1> QED
  BY <1>1, <1>5, <1>6, <1>7, QueueKeepsWire DEF Base

LEMMA PutsKeepBase ==
  ASSUME Base, NEW S, PutsStep(S), linked' \in BOOLEAN,
         UNCHANGED <<range, usedPorts, downlinks, refreshing, srv, token, parallel, inbox, up, again, unserved,
                     unheard>>
  PROVE  Base'
<1>1. TypeOK /\ Typed /\ Wire
  BY DEF Base, Typed
<1>2. queue' \in Seq(Requests) /\ unsent' \subseteq Sources /\ QueueGrows /\ src' = src
  BY <1>1 DEF PutsStep, QueueGrows, TypeOK
<1>3. TypeOK'
  BY <1>1, <1>2 DEF TypeOK, srv
<1>4. Typed'
  BY <1>1, <1>2, <1>3 DEF Typed
<1>5. queue \in Seq(Requests)
  BY <1>1 DEF TypeOK
<1> QED
  BY <1>1, <1>2, <1>4, <1>5, QueueKeepsWire DEF Base

LEMMA StagesReadyTakesStep ==
  ASSUME Typed, StagesReady
  PROVE  /\ \E S \in SUBSET Unconnected : PutsStep(S)
         /\ refreshing = {} /\ linked
         /\ UNCHANGED <<src, range, usedPorts, downlinks, linked, refreshing, srv, token, parallel, inbox, up, again, unserved,
                     unheard>>
<1>1. PICK S \in SUBSET {o \in Unconnected : src[o].wanted} : PutConnections(S)
  BY DEF StagesReady
<1>2. S \in SUBSET Sources /\ UNCHANGED src
  BY DEF Unconnected, StagesReady
<1>3. PutsStep(S)
  BY <1>1, <1>2, PutConnectionsTakesStep
<1> QED
  BY <1>3 DEF StagesReady, Idle, api

LEMMA LoginTakesStep ==
  ASSUME Typed, LoginSucceeded
  PROVE  /\ PutsStep(Unconnected) /\ refreshing = {} /\ linked' = TRUE /\ (linked \/ Logouts)
         /\ UNCHANGED <<src, range, usedPorts, downlinks, refreshing, srv, token, parallel, inbox, up, again, unserved,
                     unheard>>
<1>1. Unconnected \in SUBSET Sources /\ PutConnections(Unconnected) /\ UNCHANGED src
  BY DEF Unconnected, LoginSucceeded
<1>2. PutsStep(Unconnected)
  BY <1>1, PutConnectionsTakesStep
<1> QED
  BY <1>2 DEF LoginSucceeded, Idle

\* The websocket is ready: the downlinks are asked about, or not.
LEMMA WebSocketReadyTakesStep ==
  ASSUME Typed, WebSocketReady
  PROVE  /\ refreshing = {} /\ linked /\ ~ up /\ up' = TRUE /\ again' = TRUE /\ subs' = downlinks
         /\ \/ UNCHANGED queue /\ ~ again
            \/ /\ QueueGrows
               /\ \A o \in downlinks : \E j \in 1 .. Len(queue') :
                    j > Len(queue) /\ queue'[j].of = o /\ ~ Registers(queue'[j])
               /\ \A j \in 1 .. Len(queue') : j > Len(queue) => queue'[j].of \in downlinks /\ ~ Registers(queue'[j])
         /\ UNCHANGED <<src, range, usedPorts, downlinks, linked, refreshing, record, token, parallel, inbox,
                        unserved, unsent, unheard>>
<1>0. queue \in Seq(Requests) /\ downlinks \in SUBSET Sources
  BY DEF Typed, TypeOK
<1>1. /\ refreshing = {} /\ linked /\ ~ up /\ up' = TRUE /\ again' = TRUE /\ subs' = downlinks
      /\ UNCHANGED <<src, range, usedPorts, downlinks, linked, refreshing, record, token, parallel, inbox,
                     unserved, unsent, unheard>>
  BY DEF WebSocketReady, Idle, api, hist
<1>2. PICK reconnect \in (IF again THEN {TRUE} ELSE {FALSE, Failures}), list \in SetToSeqs(downlinks) :
       queue' = IF reconnect THEN queue \o [i \in DOMAIN list |-> StatusRequest(list[i])] ELSE queue
  BY DEF WebSocketReady
<1>3. CASE ~ reconnect
  BY <1>1, <1>2, <1>3
<1>4. CASE reconnect
  <2> DEFINE L == [i \in DOMAIN list |-> StatusRequest(list[i])]
  <2>1. list \in Seq(downlinks) /\ \A e \in downlinks : \E i \in DOMAIN list : list[i] = e
    BY <1>0, SourcesAreFinite, FS_Subset, ListsAreComplete
  <2>2. /\ Len(list) \in Nat /\ DOMAIN list = 1 .. Len(list)
        /\ \A i \in DOMAIN list : list[i] \in downlinks
    BY <2>1, LenProperties
  <2>3. \A i \in DOMAIN list : L[i] \in Requests /\ L[i].of = list[i] /\ ~ Registers(L[i])
    <3> SUFFICES ASSUME NEW i \in DOMAIN list
                 PROVE  L[i] \in Requests /\ L[i].of = list[i] /\ ~ Registers(L[i])
      OBVIOUS
    <3>1. list[i] \in Sources /\ L[i] = StatusRequest(list[i])
      BY <1>0, <2>2
    <3>2. StatusRequest(list[i]) \in Requests /\ StatusRequest(list[i]).of = list[i]
          /\ StatusRequest(list[i]).kind = "STATUS"
      BY <3>1, ConnectionTypes DEF StatusRequest, Requests
    <3> QED
      BY <3>1, <3>2 DEF Registers
  <2>4. L \in Seq(Requests) /\ DOMAIN L = DOMAIN list
    BY <2>2, <2>3
  <2> HIDE DEF L
  <2>5. \A i \in DOMAIN L : Registers(L[i]) => L[i] = ConnectionRequest(L[i].of, src'[L[i].of])
    BY <2>3, <2>4
  <2>6. queue' = queue \o L
    BY <1>2, <1>4 DEF L
  <2>7. /\ QueueGrows
        /\ \A i \in DOMAIN L : \E j \in 1 .. Len(queue') : j > Len(queue) /\ queue'[j] = L[i]
        /\ \A j \in 1 .. Len(queue') : j > Len(queue) => \E i \in DOMAIN L : queue'[j] = L[i]
    BY <1>0, <2>4, <2>5, <2>6, ConcatGrows
  <2>8. ASSUME NEW o \in downlinks
        PROVE  \E j \in 1 .. Len(queue') : j > Len(queue) /\ queue'[j].of = o /\ ~ Registers(queue'[j])
    <3>1. PICK i \in DOMAIN list : list[i] = o
      BY <2>1
    <3>2. L[i].of = o /\ ~ Registers(L[i]) /\ i \in DOMAIN L
      BY <2>3, <2>4, <3>1
    <3> QED
      BY <2>7, <3>2
  <2>9. ASSUME NEW j \in 1 .. Len(queue'), j > Len(queue)
        PROVE  queue'[j].of \in downlinks /\ ~ Registers(queue'[j])
    <3>1. PICK i \in DOMAIN L : queue'[j] = L[i]
      BY <2>7, <2>9
    <3>2. L[i].of \in downlinks /\ ~ Registers(L[i])
      BY <2>2, <2>3, <2>4
    <3> QED
      BY <3>1, <3>2
  <2> QED
    BY <1>1, <2>7, <2>8, <2>9
<1> QED
  BY <1>3, <1>4

LEMMA WebSocketReadyKeepsBase ==
  ASSUME Base, WebSocketReady
  PROVE  Base'
<1>1. TypeOK /\ Typed /\ Wire /\ queue \in Seq(Requests)
  BY DEF Base, Typed, TypeOK
<1>2. /\ QueueGrows \/ UNCHANGED queue
      /\ up' = TRUE /\ again' = TRUE /\ subs' = downlinks
      /\ UNCHANGED <<src, range, usedPorts, downlinks, linked, refreshing, record, token, parallel, inbox,
                     unserved, unsent, unheard>>
  BY <1>1, WebSocketReadyTakesStep
<1>3. queue' \in Seq(Requests)
  BY <1>1, <1>2 DEF QueueGrows
<1>4. TypeOK'
  BY <1>1, <1>2, <1>3 DEF TypeOK
<1>5. Typed'
  BY <1>1, <1>2, <1>4 DEF Typed
<1> QED
  BY <1>1, <1>2, <1>5, QueueKeepsWire DEF Base

LEMMA ServerKeepsBase ==
  ASSUME Base, NEW o, NEW c, ServerStep(o, c), parallel' \in [Sources -> {"none", "sent", "done", "failed"}],
         unheard' \subseteq Sources
  PROVE  Base'
<1>1. TypeOK /\ Typed /\ Wire
  BY DEF Base, Typed
<1>2. record' \in [Sources -> Connections]
  BY <1>1 DEF ServerStep, TypeOK
<1>3. TypeOK'
  BY <1>1, <1>2 DEF ServerStep, TypeOK
<1>4. Typed'
  BY <1>1, <1>3 DEF Typed, ServerStep
<1>5. DOMAIN inbox = 1 .. Len(inbox) /\ DOMAIN inbox' = 1 .. Len(inbox') /\ Len(inbox) \in Nat /\ Len(inbox') \in Nat
  BY <1>1 DEF TypeOK, ServerStep
<1>6. ASSUME NEW i \in DOMAIN inbox', IsAnswer(inbox'[i])
      PROVE  \/ i \in DOMAIN inbox /\ inbox'[i] = inbox[i]
             \/ i = Len(inbox') /\ Answers1(o, c, inbox'[i])
  <2>1. CASE i \in 1 .. Len(inbox)
    <3>1. \A j \in 1 .. Len(inbox) : inbox'[j] = inbox[j]
      BY DEF ServerStep
    <3> QED
      BY <1>5, <2>1, <3>1
  <2>2. CASE i \notin 1 .. Len(inbox)
    <3>1. i \in 1 .. Len(inbox') /\ i > Len(inbox)
      BY <1>5, <2>2
    <3>2. o \in Sources /\ c \in Connections
      BY DEF ServerStep
    <3>3. ~ IsAnswer(Push(o, c))
      BY <3>2, PushTypes
    <3> QED
      BY <1>6, <3>1, <3>3 DEF ServerStep
  <2> QED
    BY <2>1, <2>2
<1>7. ASSUME NEW i \in DOMAIN inbox', NEW j \in DOMAIN inbox', IsAnswer(inbox'[i]), IsAnswer(inbox'[j])
      PROVE  i = j
  <2>1. CASE i \in DOMAIN inbox /\ inbox'[i] = inbox[i] /\ j \in DOMAIN inbox /\ inbox'[j] = inbox[j]
    BY <1>1, <1>7, <2>1 DEF Wire
  <2>2. CASE i = Len(inbox') /\ Answers1(o, c, inbox'[i])
    BY <1>6, <1>7, <2>2 DEF Answers1
  <2>3. CASE j = Len(inbox') /\ Answers1(o, c, inbox'[j])
    BY <1>6, <1>7, <2>3 DEF Answers1
  <2> QED
    BY <1>6, <1>7, <2>1, <2>2, <2>3
<1>8. ASSUME NEW i \in DOMAIN inbox', IsAnswer(inbox'[i])
      PROVE  LET m == inbox'[i] IN
             /\ queue' # <<>> /\ m.of = queue'[1].of
             /\ ~ m.ok \/ queue'[1].kind = "DELETE" => m.con = NoConnection
             /\ m.ok /\ queue'[1].kind # "DELETE" => m.con # NoConnection
             /\ m.ok /\ queue'[1].kind = "PUT" => m.con.port = queue'[1].port
  <2>0. queue' = queue
    BY DEF ServerStep
  <2>1. CASE i \in DOMAIN inbox /\ inbox'[i] = inbox[i]
    BY <1>1, <1>8, <2>0, <2>1 DEF Wire
  <2>2. CASE Answers1(o, c, inbox'[i])
    <3>1. inbox'[i] \in Messages
      BY <1>8 DEF ServerStep
    <3>2. queue # <<>> => queue[1].kind \in {"PUT", "STATUS", "DELETE"}
      <4>1. queue \in Seq(Requests)
        BY <1>1 DEF TypeOK
      <4>2. queue # <<>> => queue[1] \in Requests
        BY <4>1
      <4> QED
        BY <4>2 DEF Requests
    <3> QED
      BY <2>0, <2>2, <3>1, <3>2 DEF Answers1
  <2> QED
    BY <1>6, <1>8, <2>1, <2>2
<1>9. Wire'
  BY <1>7, <1>8 DEF Wire
<1> QED
  BY <1>4, <1>9 DEF Base

LEMMA MessageKeepsBase ==
  ASSUME Base, NEW i, MessageStep(i)
  PROVE  Base'
<1>1. TypeOK /\ Typed /\ Wire
  BY DEF Base, Typed
<1> DEFINE m == inbox[i]
           o == m.of
<1>2. /\ m \in Messages /\ o \in Sources /\ m.con \in Connections /\ m.ok \in BOOLEAN /\ src[o] \in Source
      /\ queue \in Seq(Requests)
  BY <1>1, MessageTypes DEF MessageStep, TypeOK
<1>3. downlinks' \subseteq Sources /\ subs' \subseteq Sources
  BY <1>1, <1>2 DEF MessageStep, Ready, RemovedBy, FailedBy, IgnoredAfter, TypeOK
<1>4. queue' \in Seq(Requests) /\ token' \in BOOLEAN /\ unserved' \subseteq Sources /\ unsent' \subseteq Sources
      /\ unheard' \subseteq Sources
  <2>1. CASE ~ IsAnswer(m) /\ UNCHANGED <<queue, token, hist>>
    BY <1>1, <2>1 DEF TypeOK, hist
  <2>2. CASE IsAnswer(m) /\ QueueAdvances /\ token' = (linked \/ Len(queue) = 1)
             /\ unserved' = (IF queue[1].kind = "STATUS" THEN unserved
                             ELSE IF m.ok THEN unserved \ {o} ELSE unserved \cup {o})
             /\ unheard' = (IF m.ok THEN unheard ELSE unheard \cup {o})
             /\ UNCHANGED unsent
    BY <1>1, <1>2, <2>2 DEF TypeOK, QueueAdvances
  <2> QED
    BY <2>1, <2>2 DEF MessageStep
<1>5. TypeOK'
  BY <1>1, <1>3, <1>4 DEF TypeOK, MessageStep
<1>6. src'[o] = src[o] \/ (src'[o].life # "new" /\ src[o].life # "new")
  <2>1. Present(o) => src[o].life # "new"
    BY DEF Present
  <2>2. DownlinkReady(src[o], m.con).life = src[o].life
    BY <1>2, DownlinkReadyFields
  <2>3. Reset(src[o], NoConnection).life = src[o].life
    BY <1>2, ResetFields, ConnectionTypes
  <2> QED
    BY <2>1, <2>2, <2>3 DEF MessageStep, Ready, RemovedBy, FailedBy, IgnoredAfter
<1>7. Typed'
  BY <1>1, <1>5, <1>6, TypedKept DEF MessageStep
<1>8. /\ DOMAIN inbox = 1 .. Len(inbox) /\ DOMAIN inbox' = 1 .. Len(inbox')
      /\ Len(inbox) \in Nat /\ Len(inbox') = Len(inbox) - 1 /\ i \in 1 .. Len(inbox)
      /\ \A j \in 1 .. Len(inbox) - 1 : inbox'[j] = IF j < i THEN inbox[j] ELSE inbox[j + 1]
  BY <1>1 DEF MessageStep, TypeOK
<1>9. ASSUME NEW j \in DOMAIN inbox'
      PROVE  \E k \in DOMAIN inbox : inbox'[j] = inbox[k] /\ k = (IF j < i THEN j ELSE j + 1)
  BY <1>8
<1>10. ASSUME ~ IsAnswer(m), UNCHANGED queue
       PROVE  Wire'
  <2>1. ASSUME NEW j \in DOMAIN inbox', NEW k \in DOMAIN inbox', IsAnswer(inbox'[j]), IsAnswer(inbox'[k])
        PROVE  j = k
    <3>1. PICK x \in DOMAIN inbox : inbox'[j] = inbox[x] /\ x = (IF j < i THEN j ELSE j + 1)
      BY <1>9
    <3>2. PICK y \in DOMAIN inbox : inbox'[k] = inbox[y] /\ y = (IF k < i THEN k ELSE k + 1)
      BY <1>9
    <3>3. x = y
      BY <1>1, <2>1, <3>1, <3>2 DEF Wire
    <3> QED
      BY <1>8, <3>1, <3>2, <3>3
  <2>2. ASSUME NEW j \in DOMAIN inbox', IsAnswer(inbox'[j])
        PROVE  LET n == inbox'[j] IN
               /\ queue' # <<>> /\ n.of = queue'[1].of
               /\ ~ n.ok \/ queue'[1].kind = "DELETE" => n.con = NoConnection
               /\ n.ok /\ queue'[1].kind # "DELETE" => n.con # NoConnection
               /\ n.ok /\ queue'[1].kind = "PUT" => n.con.port = queue'[1].port
    <3>1. PICK x \in DOMAIN inbox : inbox'[j] = inbox[x]
      BY <1>9
    <3> QED
      BY <1>1, <1>10, <2>2, <3>1 DEF Wire
  <2> QED
    BY <2>1, <2>2 DEF Wire
<1>11. ASSUME IsAnswer(m)
       PROVE  Wire'
  <2>1. ASSUME NEW j \in DOMAIN inbox', IsAnswer(inbox'[j])
        PROVE  FALSE
    <3>1. PICK x \in DOMAIN inbox : inbox'[j] = inbox[x] /\ x = (IF j < i THEN j ELSE j + 1)
      BY <1>9
    <3>2. x = i
      BY <1>1, <1>8, <1>11, <2>1, <3>1 DEF Wire
    <3> QED
      BY <1>8, <3>1, <3>2
  <2>2. \A j \in DOMAIN inbox' : ~ IsAnswer(inbox'[j])
    BY <2>1
  <2> QED
    BY <2>2 DEF Wire
<1>12. Wire'
  BY <1>10, <1>11 DEF MessageStep
<1> QED
  BY <1>7, <1>12 DEF Base

LEMMA AnswersKeepWire ==
  ASSUME Base, inbox' = Answers(inbox), queue' = queue
  PROVE  Wire' /\ inbox' \in Seq(Messages)
<1>1. inbox \in Seq(Messages) /\ Wire
  BY DEF Base, Typed, TypeOK
<1>2. /\ inbox' \in Seq(Messages)
      /\ \A i \in DOMAIN inbox' : i = 1 /\ \E j \in DOMAIN inbox : inbox'[i] = inbox[j]
  BY <1>1, AnswersFields
<1> QED
  BY <1>1, <1>2 DEF Wire

\* The sources after a logout.
LEMMA LogoutFields ==
  ASSUME Typed, LogoutSucceeded
  PROVE  /\ src' \in [Sources -> Source]
         /\ \A o \in Sources :
              /\ ~ Present(o) => src'[o] = src[o]
              /\ Present(o) => src'[o] = Reset(src[o], NoConnection)
              /\ src'[o].life = src[o].life /\ src'[o].rev = src[o].rev
              /\ src'[o].wanted = src[o].wanted /\ src'[o].relay = src[o].relay /\ src'[o].port = src[o].port
              /\ Present(o) => src'[o].connection = NoConnection /\ src'[o].input = NoConnection
<1>1. src' = [o \in Sources |-> IF Present(o) THEN Reset(src[o], NoConnection) ELSE src[o]]
  BY DEF LogoutSucceeded
<1>2. ASSUME NEW o \in Sources
      PROVE  LET t == Reset(src[o], NoConnection) IN
             /\ t \in Source /\ src[o] \in Source
             /\ t.life = src[o].life /\ t.rev = src[o].rev
             /\ t.wanted = src[o].wanted /\ t.relay = src[o].relay /\ t.port = src[o].port
             /\ t.connection = NoConnection /\ t.input = NoConnection
  <2>1. src[o] \in Source
    BY DEF Typed, TypeOK
  <2>2. Input(NoConnection) = NoConnection
    BY ConnectionTypes DEF Input
  <2> QED
    BY <2>1, <2>2, ResetFields, ConnectionTypes
<1> QED
  BY <1>1, <1>2

LEMMA LogoutKeepsBase ==
  ASSUME Base, LogoutSucceeded
  PROVE  Base'
<1>1. TypeOK /\ Typed /\ Wire
  BY DEF Base, Typed
<1>2. src' \in [Sources -> Source]
      /\ \A o \in Sources : src'[o] = src[o] \/ (src[o].life # "new" /\ src'[o].life = src[o].life /\ src'[o].rev = src[o].rev)
  BY <1>1, LogoutFields DEF Present
<1>3. Wire' /\ inbox' \in Seq(Messages)
  BY AnswersKeepWire DEF LogoutSucceeded
<1>4. unheard' \subseteq Sources
  <2>1. \A m \in ToSet(inbox) : m \in Messages
    BY <1>1 DEF TypeOK, ToSet
  <2>2. \A m \in ToSet(inbox) : m.of \in Sources
    BY <2>1, MessageTypes
  <2> QED
    BY <1>1, <2>2 DEF LogoutSucceeded, TypeOK
<1>5. TypeOK'
  BY <1>1, <1>2, <1>3, <1>4 DEF TypeOK, LogoutSucceeded
<1>6. Typed'
  BY <1>1, <1>2, <1>5, TypedKept DEF LogoutSucceeded
<1> QED
  BY <1>3, <1>6 DEF Base

LEMMA DisconnectedKeepsBase ==
  ASSUME Base, Disconnected
  PROVE  Base'
<1>1. TypeOK /\ Typed /\ Wire
  BY DEF Base, Typed
<1>2. Wire' /\ inbox' \in Seq(Messages)
  BY AnswersKeepWire DEF Disconnected
<1>3. unheard' \subseteq Sources
  <2>1. \A m \in ToSet(inbox) : m \in Messages
    BY <1>1 DEF TypeOK, ToSet
  <2>2. \A m \in ToSet(inbox) : m.of \in Sources
    BY <2>1, MessageTypes
  <2> QED
    BY <1>1, <2>2 DEF Disconnected, TypeOK
<1>4. TypeOK'
  BY <1>1, <1>2, <1>3 DEF TypeOK, Disconnected, api
<1>5. Typed'
  BY <1>1, <1>4 DEF Typed, Disconnected
<1> QED
  BY <1>2, <1>5 DEF Base

LEMMA DestroyFields ==
  ASSUME Typed, NEW o \in Sources, DestroyCallback(o) \/ Destroy(o)
  PROVE  /\ src' \in [Sources -> Source] /\ \A q \in Sources : q # o => src'[q] = src[q]
         /\ src'[o].life # "new" /\ refreshing = {} /\ Present(o)
         /\ DestroyCallback(o) => src'[o].life = "leaving" /\ src[o].life = "live"
                                  /\ src'[o].connection = src[o].connection /\ src'[o].input = NoConnection
         /\ Destroy(o) => src'[o].life = "gone" /\ src[o].life = "leaving"
                          /\ src'[o].connection \in {src[o].connection, NoConnection}
                          /\ src'[o].input \in {src[o].input, NoConnection}
         /\ UNCHANGED <<range, downlinks, linked, refreshing, srv, queue, token, inbox, up, again, hist>>
<1>0. src \in [Sources -> Source] /\ src[o] \in Source
  BY DEF Typed, TypeOK
<1>1. CASE DestroyCallback(o)
  <2> DEFINE t == [src[o] EXCEPT !.life = "leaving", !.input = NoConnection]
  <2>1. t \in Source /\ t.life = "leaving" /\ t.input = NoConnection /\ t.connection = src[o].connection
    BY <1>0, ConnectionTypes DEF Source
  <2>2. src' = [src EXCEPT ![o] = t]
    BY <1>0, <1>1 DEF DestroyCallback
  <2> HIDE DEF t
  <2>3. ~ Destroy(o)
    BY <1>1 DEF DestroyCallback, Destroy
  <2> QED
    BY <1>0, <1>1, <2>1, <2>2, <2>3 DEF DestroyCallback, api, Idle, net, Present
<1>2. CASE Destroy(o)
  <2> DEFINE t == Remains(src[o])
  <2>1. t \in Source /\ t.life = "gone" /\ t.connection \in {src[o].connection, NoConnection}
        /\ t.input \in {src[o].input, NoConnection}
    <3>1. CASE Dangling
      <4>1. t = [src[o] EXCEPT !.life = "gone"]
        BY <3>1 DEF Remains
      <4> QED
        BY <1>0, <4>1 DEF Source
    <3>2. CASE ~ Dangling
      <4>1. t = [NewSource EXCEPT !.life = "gone"]
        BY <3>2 DEF Remains
      <4> QED
        BY <4>1, NewSourceType DEF Source
    <3> QED
      BY <3>1, <3>2
  <2>2. src' = [src EXCEPT ![o] = t]
    BY <1>0, <1>2 DEF Destroy
  <2> HIDE DEF t
  <2>3. ~ DestroyCallback(o)
    BY <1>2 DEF DestroyCallback, Destroy
  <2> QED
    BY <1>0, <1>2, <2>1, <2>2, <2>3 DEF Destroy, Idle, Present
<1> QED
  BY <1>1, <1>2

LEMMA DestroyKeepsBase ==
  ASSUME Base, NEW o \in Sources, DestroyCallback(o) \/ Destroy(o)
  PROVE  Base'
<1>1. TypeOK /\ Typed /\ Wire
  BY DEF Base, Typed
<1>2. /\ src' \in [Sources -> Source] /\ \A q \in Sources : q # o => src'[q] = src[q]
      /\ src'[o].life # "new" /\ refreshing = {}
      /\ UNCHANGED <<range, downlinks, linked, refreshing, srv, queue, token, inbox, up, again, hist>>
  BY <1>1, DestroyFields
<1>3. usedPorts' \subseteq Ports \ {NoPort}
  BY <1>1 DEF DestroyCallback, Destroy, Kept, api, TypeOK
<1>4. parallel' \in [Sources -> {"none", "sent", "done", "failed"}]
  BY <1>1 DEF DestroyCallback, Destroy, net, TypeOK
<1>5. TypeOK'
  BY <1>1, <1>2, <1>3, <1>4 DEF TypeOK, srv, hist
<1>6. Typed'
  BY <1>1, <1>2, <1>5, TypedKept
<1> QED
  BY <1>1, <1>2, <1>6 DEF Base, Wire

LEMMA InitBase == Init => Base
<1> SUFFICES ASSUME Init PROVE Base
  OBVIOUS
<1>1. \A o \in Sources : src[o] = NewSource
  BY DEF Init
<1>2. src \in [Sources -> Source] /\ record \in [Sources -> Connections]
  BY NewSourceType, ConnectionTypes DEF Init
<1>3. range \in Ranges /\ usedPorts = {} /\ downlinks = {} /\ linked \in BOOLEAN /\ queue = <<>> /\ token = TRUE
      /\ refreshing = {} /\ subs = {} /\ up = FALSE /\ again = FALSE /\ inbox = <<>>
      /\ unserved = {} /\ unsent = {} /\ unheard = {}
      /\ parallel \in [Sources -> {"none", "sent", "done", "failed"}]
  BY ChoicesAreLegal DEF Init
<1>4. queue \in Seq(Requests) /\ inbox \in Seq(Messages) /\ DOMAIN inbox = {}
  BY <1>3
<1>5. TypeOK
  BY <1>2, <1>3, <1>4 DEF TypeOK
<1> QED
  BY <1>1, <1>3, <1>4, <1>5 DEF Base, Typed, Wire

LEMMA StepKeepsBase ==
  ASSUME Base, [Next]_vars
  PROVE  Base'
<1>0. Typed /\ TypeOK
  BY DEF Base, Typed
<1>1. ASSUME NEW o \in Sources, Create(o) \/ Update(o) \/ Reactivate(o) PROVE Base'
  BY <1>0, <1>1, CreateTakesStep, UpdateTakesStep, ReactivateTakesStep, CaptureKeepsBase
<1>2. ASSUME NEW o \in Sources, DestroyCallback(o) \/ Destroy(o) PROVE Base'
  BY <1>2, DestroyKeepsBase
<1>3. ASSUME NEW o \in Sources, ParallelAnswered(o) PROVE Base'
  <2>1. UNCHANGED <<src, range, usedPorts, linked, refreshing, queue, token, inbox, up, again, hist, record>>
    BY <1>3 DEF ParallelAnswered, Subscribers, srv
  <2>2. downlinks' \subseteq Sources /\ subs' \subseteq Sources
        /\ parallel' \in [Sources -> {"none", "sent", "done", "failed"}]
    BY <1>0, <1>3 DEF ParallelAnswered, Subscribers, srv, TypeOK
  <2>3. TypeOK'
    BY <1>0, <2>1, <2>2 DEF TypeOK, hist
  <2> QED
    BY <2>1, <2>3 DEF Base, Typed, Wire
<1>4. ASSUME NEW o \in Sources, ServeParallel(o) PROVE Base'
  <2>1. /\ UNCHANGED <<unheard>>
        /\ \E x \in {"done", "failed"} : parallel' = [parallel EXCEPT ![o] = x]
        /\ \/ ServerStep(o, NoConnection)
           \/ UNCHANGED <<src, range, usedPorts, downlinks, linked, refreshing, subs, queue, token, up, again,
                           unserved, unsent, record, inbox>>
    BY <1>0, <1>4, ServeParallelTakesStep
  <2>2. parallel' \in [Sources -> {"none", "sent", "done", "failed"}] /\ unheard' \subseteq Sources
    BY <1>0, <2>1 DEF TypeOK
  <2>3. CASE ServerStep(o, NoConnection)
    BY <2>2, <2>3, ServerKeepsBase
  <2>4. CASE UNCHANGED <<src, range, usedPorts, downlinks, linked, refreshing, subs, queue, token, up, again,
                         unserved, unsent, record, inbox>>
    <3>1. TypeOK'
      BY <1>0, <2>2, <2>4 DEF TypeOK
    <3> QED
      BY <2>4, <3>1 DEF Base, Typed, Wire
  <2> QED
    BY <2>1, <2>3, <2>4
<1>5. ASSUME NEW o \in Sources, ServerChanges(o) PROVE Base'
  <2>1. PICK c \in Connections : ServerStep(o, c)
    BY <1>0, <1>5, ServerChangesTakesStep
  <2>2. parallel' = parallel /\ unheard' = IF o \in subs THEN unheard ELSE unheard \cup {o}
    BY <1>0, <1>5, ServerChangesTakesStep
  <2>3. parallel' \in [Sources -> {"none", "sent", "done", "failed"}] /\ unheard' \subseteq Sources
    BY <1>0, <2>2 DEF TypeOK
  <2> QED
    BY <2>1, <2>3, ServerKeepsBase
<1>6. CASE RefreshIngress
  <2>1. /\ range' \in Ranges /\ refreshing' = Reached /\ UNCHANGED <<src, api, srv, net, hist>>
        /\ \A o \in Reached : src[o].rev < MaxRevision
    BY <1>6 DEF RefreshIngress
  <2>2. TypeOK'
    BY <1>0, <2>1 DEF TypeOK, Reached, api, srv, net, hist
  <2>3. Typed'
    BY <1>0, <2>1, <2>2 DEF Typed
  <2> QED
    BY <2>1, <2>3 DEF Base, Wire, net
<1>7. CASE StagesReady
  <2>1. PICK S \in SUBSET Unconnected : PutsStep(S)
    BY <1>0, <1>7, StagesReadyTakesStep
  <2>2. UNCHANGED <<range, usedPorts, downlinks, linked, refreshing, srv, token, parallel, inbox, up, again, unserved,
                     unheard>>
    BY <1>0, <1>7, StagesReadyTakesStep
  <2> QED
    BY <1>0, <2>1, <2>2, PutsKeepBase DEF TypeOK
<1>8. CASE LoginSucceeded
  <2>1. PutsStep(Unconnected) /\ linked' = TRUE
        /\ UNCHANGED <<range, usedPorts, downlinks, refreshing, srv, token, parallel, inbox, up, again, unserved,
                       unheard>>
    BY <1>0, <1>8, LoginTakesStep
  <2> QED
    BY <2>1, PutsKeepBase
<1>9. CASE LogoutSucceeded
  BY <1>9, LogoutKeepsBase
<1>10. CASE Disconnected
  BY <1>10, DisconnectedKeepsBase
<1>11. CASE WebSocketReady
  BY <1>11, WebSocketReadyKeepsBase
<1>12. CASE Serve
  <2>1. PICK o \in Sources, c \in Connections : ServerStep(o, c)
    BY <1>0, <1>12, ServeTakesStep
  <2>2. parallel' = parallel
    BY <1>12 DEF Serve
  <2>3. unheard' \subseteq unheard
    BY <1>12 DEF Serve
  <2>4. parallel' \in [Sources -> {"none", "sent", "done", "failed"}] /\ unheard' \subseteq Sources
    BY <1>0, <2>2, <2>3 DEF TypeOK
  <2> QED
    BY <2>1, <2>4, ServerKeepsBase
<1>13. ASSUME NEW i \in DOMAIN inbox, Receive(i) PROVE Base'
  BY <1>13, ReceiveTakesStep, MessageKeepsBase
<1>14. CASE UNCHANGED vars
  BY <1>14 DEF Base, Typed, TypeOK, Wire, vars, api, srv, net, hist, Present
<1> QED
  BY Zenon, <1>1, <1>2, <1>3, <1>4, <1>5, <1>6, <1>7, <1>8, <1>9, <1>10, <1>11, <1>12, <1>13, <1>14 DEF Next

\* The state keeps its types: whatever arrives, no source is given a connection that the
\* server cannot have made, and the passphrases never run out.
THEOREM TypeCorrect == Spec => []TypeOK
<1>1. Init => Base
  BY InitBase
<1>2. Base /\ [Next]_vars => Base'
  BY StepKeepsBase
<1>3. Base => TypeOK
  BY DEF Base, Typed
<1> QED
  BY <1>1, <1>2, <1>3, PTL DEF Spec

-----------------------------------------------------------------------------
\* The shapes of a step.

ParallelKept == \A o \in Sources : parallel'[o] # "none" => parallel[o] # "none"
\* A change of the record is reported, or missed, or the source is not there any more.
Reported(o) ==
  /\ \A q \in Sources : q # o => (q \in unheard' <=> q \in unheard)
  /\ o \in unheard' \/ parallel[o] # "none" \/ Len(inbox') > Len(inbox)
Quiet ==
  /\ ParallelKept
  /\ UNCHANGED <<src, downlinks, linked, queue, token, inbox, up, again, record, subs, unserved, unsent, unheard>>
StepShape ==
  \/ \E o \in Sources : CaptureStep(o)
  \/ \E S \in SUBSET Unconnected :
       /\ PutsStep(S) /\ linked' = TRUE /\ (linked \/ S = Unconnected)
       /\ UNCHANGED <<src, downlinks, record, subs, token, parallel, inbox, up, again, unserved, unheard>>
  \/ \E o \in Sources : DestroyCallback(o) \/ Destroy(o)
  \/ \E o \in Sources : ParallelAnswered(o)
  \/ \E o \in Sources, c \in Connections : ServerStep(o, c) /\ ParallelKept /\ Reported(o)
  \/ Quiet
  \/ LogoutSucceeded \/ Disconnected \/ WebSocketReady
  \/ \E i \in DOMAIN inbox : MessageStep(i)

LEMMA StepHasShape ==
  ASSUME Base, [Next]_vars
  PROVE  StepShape
<1>0. Typed /\ TypeOK
  BY DEF Base, Typed
<1>1. ASSUME NEW o \in Sources, Create(o) \/ Update(o) \/ Reactivate(o) PROVE StepShape
  BY <1>0, <1>1, CreateTakesStep, UpdateTakesStep, ReactivateTakesStep DEF StepShape
<1>2. ASSUME NEW o \in Sources, DestroyCallback(o) \/ Destroy(o) \/ ParallelAnswered(o) PROVE StepShape
  BY <1>2 DEF StepShape
<1>3. ASSUME NEW o \in Sources, ServeParallel(o) PROVE StepShape
  <2>1. /\ parallel[o] = "sent" /\ UNCHANGED unheard
        /\ \E x \in {"done", "failed"} : parallel' = [parallel EXCEPT ![o] = x]
        /\ \/ ServerStep(o, NoConnection)
           \/ UNCHANGED <<src, range, usedPorts, downlinks, linked, refreshing, subs, queue, token, up, again,
                           unserved, unsent, record, inbox>>
    BY <1>0, <1>3, ServeParallelTakesStep
  <2>2. ParallelKept
    BY <1>0, <2>1 DEF ParallelKept, TypeOK
  <2>3. Reported(o)
    BY <2>1 DEF Reported
  <2> QED
    BY <2>1, <2>2, <2>3, ConnectionTypes DEF StepShape, Quiet
<1>4. ASSUME NEW o \in Sources, ServerChanges(o) PROVE StepShape
  <2>1. PICK c \in Connections : ServerStep(o, c) /\ c # record[o]
    BY <1>0, <1>4, ServerChangesTakesStep
  <2>2. ParallelKept
    BY <1>0, <1>4, ServerChangesTakesStep DEF ParallelKept
  <2>3. unheard' = IF o \in subs THEN unheard ELSE unheard \cup {o}
    BY <1>0, <1>4, ServerChangesTakesStep
  <2>4. o \in subs => Len(inbox') > Len(inbox)
    BY <2>1 DEF ServerStep
  <2>5. Reported(o)
    BY <2>3, <2>4 DEF Reported
  <2> QED
    BY <2>1, <2>2, <2>5 DEF StepShape
<1>5. CASE RefreshIngress
  BY <1>5 DEF RefreshIngress, StepShape, Quiet, ParallelKept, api, srv, net, hist
<1>6. CASE StagesReady
  <2>1. /\ \E S \in SUBSET Unconnected : PutsStep(S)
        /\ linked' = TRUE /\ linked
        /\ UNCHANGED <<src, downlinks, record, subs, token, parallel, inbox, up, again, unserved, unheard>>
    BY <1>0, <1>6, StagesReadyTakesStep DEF srv, TypeOK
  <2> QED
    BY <2>1 DEF StepShape
<1>7. CASE LoginSucceeded
  <2>1. /\ PutsStep(Unconnected) /\ linked' = TRUE
        /\ UNCHANGED <<src, downlinks, record, subs, token, parallel, inbox, up, again, unserved, unheard>>
    BY <1>0, <1>7, LoginTakesStep DEF srv
  <2> QED
    BY <2>1 DEF StepShape
<1>8. CASE LogoutSucceeded \/ Disconnected \/ WebSocketReady
  BY <1>8 DEF StepShape
<1>9. CASE Serve
  <2>1. PICK o \in Sources, c \in Connections : ServerStep(o, c) /\ queue[1].of = o /\ Len(inbox') > Len(inbox)
    BY <1>0, <1>9, ServeTakesStep
  <2>2. ParallelKept
    BY <1>0, <1>9, ServeTakesStep DEF ParallelKept
  <2>3. queue # <<>> /\ (unheard' = unheard \/ unheard' = unheard \ {Head(queue).of})
    BY <1>9, Zenon DEF Serve
  <2>4. Head(queue) = queue[1]
    BY <1>0, <2>3 DEF TypeOK
  <2>5. Reported(o)
    BY <2>1, <2>3, <2>4 DEF Reported
  <2> QED
    BY <2>1, <2>2, <2>5 DEF StepShape
<1>10. ASSUME NEW i \in DOMAIN inbox, Receive(i) PROVE StepShape
  BY <1>10, ReceiveTakesStep DEF StepShape
<1>11. CASE UNCHANGED vars
  BY <1>11 DEF StepShape, Quiet, ParallelKept, vars, api, srv, net, hist
<1> QED
  BY Zenon, <1>1, <1>2, <1>3, <1>4, <1>5, <1>6, <1>7, <1>8, <1>9, <1>10, <1>11 DEF Next

-----------------------------------------------------------------------------
\* A source has a connection only while the ApiClient knows of its downlink.

Known == \A o \in Sources :
  /\ parallel[o] # "none" => src[o].life = "gone"
  /\ Present(o) /\ o \notin downlinks => src[o].connection = NoConnection /\ src[o].input = NoConnection

LEMMA UnconnectedReset ==
  ASSUME NEW s \in Source
  PROVE  LET t == Reset(s, NoConnection) IN
         t.life = s.life /\ t.connection = NoConnection /\ t.input = NoConnection
<1>1. Input(NoConnection) = NoConnection
  BY ConnectionTypes DEF Input
<1> QED
  BY <1>1, ResetFields, ConnectionTypes

LEMMA MessageKeepsKnown ==
  ASSUME Base, Known, NEW i, MessageStep(i)
  PROVE  Known'
<1> DEFINE m == inbox[i]
           o == m.of
<1>0. src \in [Sources -> Source]
  BY DEF Base, Typed, TypeOK
<1>1. m \in Messages /\ o \in Sources /\ m.con \in Connections /\ src[o] \in Source
  BY <1>0, MessageTypes DEF MessageStep
<1>2. parallel' = parallel /\ \A q \in Sources : q # o => src'[q] = src[q]
  BY DEF MessageStep
<1>3. \A q \in Sources : q # o => (q \in downlinks' <=> q \in downlinks)
  BY DEF MessageStep, Ready, RemovedBy, FailedBy, IgnoredAfter
<1>4. DownlinkReady(src[o], m.con).life = src[o].life
  BY <1>1, DownlinkReadyFields
<1>5. LET t == Reset(src[o], NoConnection)
      IN t.life = src[o].life /\ t.connection = NoConnection /\ t.input = NoConnection
  BY <1>1, UnconnectedReset
<1>6. src'[o].life = src[o].life
      /\ (Present(o) /\ o \notin downlinks' => src'[o].connection = NoConnection /\ src'[o].input = NoConnection)
  <2>1. CASE Ready(m)
    BY <1>4, <2>1 DEF Ready
  <2>2. CASE RemovedBy(m)
    BY <1>1, <1>5, <2>2 DEF RemovedBy, Known
  <2>3. CASE FailedBy(m)
    BY <1>5, <2>3 DEF FailedBy
  <2>4. CASE IgnoredAfter(m)
    BY <1>1, <2>4 DEF IgnoredAfter, Known
  <2> QED
    BY <2>1, <2>2, <2>3, <2>4 DEF MessageStep
<1>7. \A q \in Sources : src'[q].life = src[q].life
  BY <1>2, <1>6
<1> QED
  BY <1>1, <1>2, <1>3, <1>6, <1>7 DEF Known, Present

LEMMA StepKeepsKnown ==
  ASSUME Base, Known, [Next]_vars
  PROVE  Known'
<1>0. Typed /\ TypeOK /\ src \in [Sources -> Source] /\ StepShape
  BY StepHasShape DEF Base, Typed, TypeOK
<1>1. ASSUME NEW o \in Sources, CaptureStep(o) PROVE Known'
  <2>1. /\ parallel' = parallel /\ downlinks' = downlinks
        /\ \A q \in Sources : q # o => src'[q] = src[q]
        /\ src'[o].life = IF src[o].life = "new" THEN "live" ELSE src[o].life
        /\ src'[o].connection = src[o].connection /\ src'[o].input = src[o].input
    BY <1>1 DEF CaptureStep
  <2>2. src[o].life = "new" => src[o].connection = NoConnection /\ src[o].input = NoConnection
    BY <1>0, NewSourceType DEF Typed
  <2> QED
    BY <2>1, <2>2 DEF Known, Present
<1>2. ASSUME NEW o \in Sources, DestroyCallback(o) \/ Destroy(o) PROVE Known'
  <2>1. /\ \A q \in Sources : q # o => src'[q] = src[q]
        /\ DestroyCallback(o) => src'[o].life = "leaving" /\ src[o].life = "live"
                                  /\ src'[o].connection = src[o].connection /\ src'[o].input = NoConnection
        /\ Destroy(o) => src'[o].life = "gone"
        /\ downlinks' = downlinks
    BY <1>0, <1>2, DestroyFields
  <2>2. /\ \A q \in Sources : q # o => parallel'[q] = parallel[q]
        /\ DestroyCallback(o) => parallel' = parallel
    BY <1>0, <1>2 DEF DestroyCallback, Destroy, TypeOK, net
  <2> QED
    BY <1>2, <2>1, <2>2 DEF Known, Present
<1>3. ASSUME NEW o \in Sources, ParallelAnswered(o) PROVE Known'
  <2>1. /\ src' = src /\ parallel[o] # "none" /\ \A q \in Sources : q # o => (q \in downlinks' <=> q \in downlinks)
        /\ \A q \in Sources : parallel'[q] # "none" => parallel[q] # "none"
    BY <1>0, <1>3 DEF ParallelAnswered, TypeOK
  <2> QED
    BY <2>1 DEF Known, Present
<1>4. ASSUME src' = src, downlinks' = downlinks, ParallelKept
      PROVE  Known'
  BY <1>4 DEF Known, Present, ParallelKept
<1>5. CASE LogoutSucceeded
  <2>1. parallel' = parallel /\ \A o \in Sources :
          src'[o].life = src[o].life
          /\ (Present(o) => src'[o].connection = NoConnection /\ src'[o].input = NoConnection)
    BY <1>0, <1>5, LogoutFields DEF LogoutSucceeded
  <2> QED
    BY <2>1 DEF Known, Present
<1>6. ASSUME NEW i, MessageStep(i) PROVE Known'
  BY <1>6, MessageKeepsKnown
<1>7. CASE Disconnected \/ WebSocketReady
  <2>1. src' = src /\ downlinks' = downlinks /\ ParallelKept
    BY <1>7 DEF Disconnected, WebSocketReady, ParallelKept, api
  <2> QED
    BY <1>4, <2>1
<1>8. ASSUME NEW S, PutsStep(S),
             UNCHANGED <<src, downlinks, record, subs, token, parallel, inbox, up, again, unserved, unheard>>
      PROVE Known'
  <2>1. src' = src /\ downlinks' = downlinks /\ ParallelKept
    BY <1>8 DEF ParallelKept
  <2> QED
    BY <1>4, <2>1
<1>9. ASSUME NEW o, NEW c, ServerStep(o, c), ParallelKept PROVE Known'
  <2>1. src' = src /\ downlinks' = downlinks
    BY <1>9 DEF ServerStep
  <2> QED
    BY <1>4, <1>9, <2>1
<1>10. CASE Quiet
  BY <1>4, <1>10 DEF Quiet
<1> QED
  BY Zenon, <1>0, <1>1, <1>2, <1>3, <1>5, <1>6, <1>7, <1>8, <1>9, <1>10 DEF StepShape

LEMMA InitKnown == Init => Known
<1> SUFFICES ASSUME Init PROVE Known
  OBVIOUS
<1>1. \A o \in Sources : src[o] = NewSource /\ parallel[o] = "none"
  BY DEF Init
<1> QED
  BY <1>1, NewSourceType DEF Known, Present

-----------------------------------------------------------------------------
\* In the order they were sent in, the messages about a source trail the record: of the
\* connections with one passphrase, none is followed by one with a lower revision, or with
\* another port.

Trails(x, y) == x.key = y.key /\ x # NoConnection => x.port = y.port /\ x.rev <= y.rev
Trail == \A o \in Sources :
  /\ Trails(src[o].connection, record[o])
  /\ \A i \in DOMAIN inbox : inbox[i].of = o =>
       Trails(inbox[i].con, record[o]) /\ Trails(src[o].connection, inbox[i].con)
  /\ \A i, j \in DOMAIN inbox : inbox[i].of = o /\ inbox[j].of = o /\ i < j => Trails(inbox[i].con, inbox[j].con)

LEMMA TrailsTrivially ==
  ASSUME NEW x \in Connections
  PROVE  Trails(x, NoConnection) /\ Trails(NoConnection, x) /\ Trails(x, x)
BY ConnectionTypes DEF Trails

\* A connection that is in use trails whatever the server makes of the record.
LEMMA SuccessorTrails ==
  ASSUME NEW o \in Sources, NEW c \in Connections, Successor(o, c), record[o] \in Connections,
         NEW x \in Connections, Trails(x, record[o]), x.key \in InUse(o)
  PROVE  Trails(x, c)
<1>1. CASE c = record[o]
  BY <1>1
<1>2. CASE c = NoConnection
  BY <1>2, TrailsTrivially
<1>3. CASE c.key \notin InUse(o)
  BY <1>3 DEF Trails
<1>4. CASE c.key = record[o].key /\ c.port = record[o].port /\ record[o].rev <= c.rev
  BY <1>4, ConnectionTypes DEF Trails
<1> QED
  BY <1>1, <1>2, <1>3, <1>4 DEF Successor

LEMMA ServerKeepsTrail ==
  ASSUME Base, Trail, NEW o, NEW c, ServerStep(o, c)
  PROVE  Trail'
<1>0. /\ src \in [Sources -> Source] /\ record \in [Sources -> Connections] /\ inbox \in Seq(Messages)
      /\ o \in Sources /\ c \in Connections
  BY DEF Base, Typed, TypeOK, ServerStep
<1>1. /\ DOMAIN inbox = 1 .. Len(inbox) /\ DOMAIN inbox' = 1 .. Len(inbox')
      /\ Len(inbox) \in Nat /\ Len(inbox') \in Nat
      /\ \A i \in DOMAIN inbox : inbox[i] \in Messages /\ inbox[i].con \in Connections
  BY <1>0, LenProperties, MessageTypes DEF ServerStep
<1>2. /\ record'[o] = c /\ src' = src /\ \A q \in Sources : q # o => record'[q] = record[q]
  BY <1>0 DEF ServerStep
<1>3. \A i \in DOMAIN inbox : i \in DOMAIN inbox' /\ inbox'[i] = inbox[i]
  BY <1>1 DEF ServerStep
<1>4. ASSUME NEW i \in DOMAIN inbox', i \notin DOMAIN inbox
      PROVE  inbox'[i].of = o /\ inbox'[i].con \in {c, NoConnection}
  <2>1. i \in 1 .. Len(inbox') /\ i > Len(inbox)
    BY <1>1, <1>4
  <2>2. inbox'[i] = Push(o, c) \/ Answers1(o, c, inbox'[i])
    BY <2>1 DEF ServerStep
  <2>3. Push(o, c).of = o /\ Push(o, c).con = c
    BY <1>0, PushTypes
  <2> QED
    BY <2>2, <2>3 DEF Answers1
<1>5. src[o].connection \in Connections /\ record[o] \in Connections /\ Successor(o, c)
      /\ src[o].connection.key \in InUse(o)
  BY <1>0, SourceTypes DEF InUse, ServerStep
<1>6. Trails(src[o].connection, c)
  BY <1>0, <1>5, SuccessorTrails DEF Trail
<1>7. ASSUME NEW i \in DOMAIN inbox, inbox[i].of = o
      PROVE  Trails(inbox[i].con, c)
  <2>1. inbox[i].con.key \in InUse(o)
    BY <1>7 DEF InUse
  <2>2. Trails(inbox[i].con, record[o])
    BY <1>0, <1>7 DEF Trail
  <2> QED
    BY <1>0, <1>1, <1>5, <2>1, <2>2, SuccessorTrails
<1>8. ASSUME NEW q \in Sources
      PROVE  /\ Trails(src'[q].connection, record'[q])
             /\ \A i \in DOMAIN inbox' : inbox'[i].of = q =>
                  Trails(inbox'[i].con, record'[q]) /\ Trails(src'[q].connection, inbox'[i].con)
             /\ \A i, j \in DOMAIN inbox' : inbox'[i].of = q /\ inbox'[j].of = q /\ i < j =>
                  Trails(inbox'[i].con, inbox'[j].con)
  <2>1. CASE q # o
    <3>1. \A i \in DOMAIN inbox' : inbox'[i].of = q => i \in DOMAIN inbox /\ inbox'[i] = inbox[i]
      BY <1>3, <1>4, <2>1
    <3> QED
      BY <1>2, <2>1, <3>1 DEF Trail
  <2>2. CASE q = o
    <3>1. Trails(src'[q].connection, record'[q])
      BY <1>2, <1>6, <2>2
    <3>2. ASSUME NEW i \in DOMAIN inbox', inbox'[i].of = q
          PROVE  Trails(inbox'[i].con, record'[q]) /\ Trails(src'[q].connection, inbox'[i].con)
      <4>1. CASE i \in DOMAIN inbox
        BY <1>0, <1>2, <1>3, <1>7, <2>2, <3>2, <4>1 DEF Trail
      <4>2. CASE i \notin DOMAIN inbox
        <5>1. Trails(c, c) /\ Trails(NoConnection, c) /\ Trails(src[o].connection, NoConnection)
          BY <1>0, <1>5, TrailsTrivially
        <5> QED
          BY <1>2, <1>4, <1>6, <2>2, <4>2, <5>1
      <4> QED
        BY <4>1, <4>2
    <3>3. ASSUME NEW i \in DOMAIN inbox', NEW j \in DOMAIN inbox', inbox'[i].of = q, inbox'[j].of = q, i < j
          PROVE  Trails(inbox'[i].con, inbox'[j].con)
      <4>1. CASE j \in DOMAIN inbox
        <5>1. i \in DOMAIN inbox
          BY <1>1, <3>3, <4>1
        <5> QED
          BY <1>0, <1>3, <2>2, <3>3, <4>1, <5>1 DEF Trail
      <4>2. CASE j \notin DOMAIN inbox /\ i \in DOMAIN inbox
        <5>1. Trails(inbox[i].con, NoConnection)
          BY <1>1, <4>2, TrailsTrivially
        <5> QED
          BY <1>3, <1>4, <1>7, <2>2, <3>3, <4>2, <5>1
      <4>3. CASE j \notin DOMAIN inbox /\ i \notin DOMAIN inbox
        <5>1. Trails(c, c) /\ Trails(NoConnection, c) /\ Trails(c, NoConnection) /\ Trails(NoConnection, NoConnection)
          BY <1>0, TrailsTrivially, ConnectionTypes
        <5> QED
          BY <1>4, <4>3, <5>1
      <4> QED
        BY <4>1, <4>2, <4>3
    <3> QED
      BY <3>1, <3>2, <3>3
  <2> QED
    BY <2>1, <2>2
<1> QED
  BY <1>8 DEF Trail

\* What becomes of the connection when a message arrives.
LEMMA MessageFields ==
  ASSUME Base, NEW i, MessageStep(i)
  PROVE  LET m == inbox[i] IN
         /\ m \in Messages /\ m.of \in Sources /\ m.con \in Connections
         /\ src[m.of] \in Source /\ src'[m.of] \in Source
         /\ src'[m.of].life = src[m.of].life /\ src'[m.of].port = src[m.of].port
         /\ src'[m.of].wanted = src[m.of].wanted /\ src'[m.of].relay = src[m.of].relay
         /\ src'[m.of].connection \in {src[m.of].connection, m.con, NoConnection}
<1> DEFINE m == inbox[i]
           o == m.of
<1>1. m \in Messages /\ o \in Sources /\ m.con \in Connections /\ src[o] \in Source /\ src'[o] \in Source
  BY MessageTypes DEF MessageStep, Base, Typed, TypeOK
<1> DEFINE t == DownlinkReady(src[o], m.con)
           u == Reset(src[o], NoConnection)
<1>2. /\ t.life = src[o].life /\ t.port = src[o].port /\ t.wanted = src[o].wanted /\ t.relay = src[o].relay
      /\ t.connection = m.con
  BY <1>1, DownlinkReadyFields
<1>3. /\ u.life = src[o].life /\ u.port = src[o].port /\ u.wanted = src[o].wanted /\ u.relay = src[o].relay
      /\ u.connection = NoConnection
  BY <1>1, ResetFields, ConnectionTypes
<1> HIDE DEF t, u
<1>4. src'[o] \in {src[o], t, u}
  BY DEF MessageStep, Ready, RemovedBy, FailedBy, IgnoredAfter, t, u
<1> HIDE DEF o, m
<1>5. src'[o].life = src[o].life /\ src'[o].port = src[o].port /\ src'[o].wanted = src[o].wanted
      /\ src'[o].relay = src[o].relay
      /\ src'[o].connection \in {src[o].connection, m.con, NoConnection}
  BY <1>2, <1>3, <1>4
<1> QED
  BY <1>1, <1>5 DEF o, m

\* The messages that remain, when the first has arrived.
LEMMA MessagesMoveOn ==
  ASSUME Base, MessageStep(1)
  PROVE  /\ DOMAIN inbox = 1 .. Len(inbox) /\ DOMAIN inbox' = 1 .. Len(inbox') /\ 1 \in DOMAIN inbox
         /\ Len(inbox) \in Nat /\ Len(inbox') = Len(inbox) - 1
         /\ \A j \in DOMAIN inbox' : j + 1 \in DOMAIN inbox /\ inbox'[j] = inbox[j + 1] /\ j + 1 > 1
         /\ \A j \in DOMAIN inbox : j # 1 => j - 1 \in DOMAIN inbox' /\ inbox'[j - 1] = inbox[j]
<1>1. /\ DOMAIN inbox = 1 .. Len(inbox) /\ DOMAIN inbox' = 1 .. Len(inbox')
      /\ Len(inbox) \in Nat /\ Len(inbox') = Len(inbox) - 1 /\ 1 \in 1 .. Len(inbox)
      /\ \A j \in 1 .. Len(inbox) - 1 : inbox'[j] = IF j < 1 THEN inbox[j] ELSE inbox[j + 1]
  BY DEF MessageStep, Base, Typed, TypeOK
<1>2. ASSUME NEW j \in DOMAIN inbox'
      PROVE  j + 1 \in DOMAIN inbox /\ inbox'[j] = inbox[j + 1] /\ j + 1 > 1
  BY <1>1
<1>3. ASSUME NEW j \in DOMAIN inbox, j # 1
      PROVE  j - 1 \in DOMAIN inbox' /\ inbox'[j - 1] = inbox[j]
  <2>1. j - 1 \in DOMAIN inbox' /\ (j - 1) + 1 = j
    BY <1>1, <1>3
  <2>2. inbox'[j - 1] = inbox[(j - 1) + 1]
    BY <1>2, <2>1
  <2> QED
    BY <2>1, <2>2
<1> QED
  BY <1>1, <1>2, <1>3

LEMMA MessageKeepsTrail ==
  ASSUME Base, Trail, MessageStep(1)
  PROVE  Trail'
<1> DEFINE m == inbox[1]
           o == m.of
<1>1. /\ m \in Messages /\ o \in Sources /\ m.con \in Connections
      /\ src'[o].connection \in {src[o].connection, m.con, NoConnection}
  BY MessageFields
<1>2. \A q \in Sources : q # o => src'[q] = src[q]
  BY DEF MessageStep
<1>3. /\ DOMAIN inbox = 1 .. Len(inbox) /\ DOMAIN inbox' = 1 .. Len(inbox') /\ 1 \in DOMAIN inbox
      /\ Len(inbox) \in Nat /\ Len(inbox') = Len(inbox) - 1
      /\ \A j \in DOMAIN inbox' : j + 1 \in DOMAIN inbox /\ inbox'[j] = inbox[j + 1] /\ j + 1 > 1
  BY MessagesMoveOn, Zenon
<1>4. record' = record
  BY DEF MessageStep
<1>5. /\ \A j \in DOMAIN inbox : inbox[j] \in Messages /\ inbox[j].con \in Connections
      /\ \A q \in Sources : record[q] \in Connections
  BY MessageTypes DEF Base, Typed, TypeOK
<1>6. Trails(src'[o].connection, record[o])
  BY <1>1, <1>3, <1>5, TrailsTrivially DEF Trail
<1>7. ASSUME NEW j \in DOMAIN inbox', inbox'[j].of = o
      PROVE  Trails(src'[o].connection, inbox'[j].con)
  <2>1. j + 1 \in DOMAIN inbox /\ inbox'[j] = inbox[j + 1] /\ 1 < j + 1
    BY <1>3
  <2>2. Trails(src[o].connection, inbox[j + 1].con) /\ Trails(m.con, inbox[j + 1].con)
    BY <1>1, <1>3, <1>7, <2>1 DEF Trail
  <2>3. Trails(NoConnection, inbox[j + 1].con)
    BY <1>5, <2>1, TrailsTrivially
  <2> QED
    BY <1>1, <2>1, <2>2, <2>3
<1>8. ASSUME NEW q \in Sources
      PROVE  /\ Trails(src'[q].connection, record'[q])
             /\ \A j \in DOMAIN inbox' : inbox'[j].of = q =>
                  Trails(inbox'[j].con, record'[q]) /\ Trails(src'[q].connection, inbox'[j].con)
             /\ \A j, k \in DOMAIN inbox' : inbox'[j].of = q /\ inbox'[k].of = q /\ j < k =>
                  Trails(inbox'[j].con, inbox'[k].con)
  <2>1. Trails(src'[q].connection, record'[q])
    BY <1>2, <1>4, <1>6 DEF Trail
  <2>2. ASSUME NEW j \in DOMAIN inbox', inbox'[j].of = q
        PROVE  Trails(inbox'[j].con, record'[q])
    <3>1. j + 1 \in DOMAIN inbox /\ inbox'[j] = inbox[j + 1]
      BY <1>3
    <3> QED
      BY <1>4, <2>2, <3>1 DEF Trail
  <2>3. ASSUME NEW j \in DOMAIN inbox', inbox'[j].of = q
        PROVE  Trails(src'[q].connection, inbox'[j].con)
    <3>1. j + 1 \in DOMAIN inbox /\ inbox'[j] = inbox[j + 1]
      BY <1>3
    <3> QED
      BY <1>2, <1>7, <2>3, <3>1 DEF Trail
  <2>4. ASSUME NEW j \in DOMAIN inbox', NEW k \in DOMAIN inbox', inbox'[j].of = q, inbox'[k].of = q, j < k
        PROVE  Trails(inbox'[j].con, inbox'[k].con)
    <3>1. j + 1 \in DOMAIN inbox /\ inbox'[j] = inbox[j + 1] /\ k + 1 \in DOMAIN inbox /\ inbox'[k] = inbox[k + 1]
      BY <1>3
    <3>2. j + 1 < k + 1
      BY <1>3, <2>4
    <3> QED
      BY <2>4, <3>1, <3>2 DEF Trail
  <2> QED
    BY <2>1, <2>2, <2>3, <2>4
<1> QED
  BY <1>8 DEF Trail

\* The connections stay, or are dropped; the messages stay, or all but one are lost.
LEMMA TrailKept ==
  ASSUME Base, Trail, record' = record,
         \A o \in Sources : src'[o].connection \in {src[o].connection, NoConnection},
         inbox' = inbox \/ inbox' = Answers(inbox)
  PROVE  Trail'
<1>0. /\ inbox \in Seq(Messages) /\ \A q \in Sources : record[q] \in Connections
      /\ \A j \in DOMAIN inbox : inbox[j] \in Messages /\ inbox[j].con \in Connections
  BY MessageTypes DEF Base, Typed, TypeOK
<1>1. \A i \in DOMAIN inbox' : \E j \in DOMAIN inbox : inbox'[i] = inbox[j]
  BY <1>0, AnswersFields
<1>2. \A i, j \in DOMAIN inbox' : i # j => inbox' = inbox
  BY <1>0, AnswersFields
<1>3. ASSUME NEW q \in Sources
      PROVE  /\ Trails(src'[q].connection, record'[q])
             /\ \A j \in DOMAIN inbox' : inbox'[j].of = q =>
                  Trails(inbox'[j].con, record'[q]) /\ Trails(src'[q].connection, inbox'[j].con)
             /\ \A j, k \in DOMAIN inbox' : inbox'[j].of = q /\ inbox'[k].of = q /\ j < k =>
                  Trails(inbox'[j].con, inbox'[k].con)
  <2>1. Trails(src'[q].connection, record'[q])
    BY <1>0, TrailsTrivially DEF Trail
  <2>2. ASSUME NEW j \in DOMAIN inbox', inbox'[j].of = q
        PROVE  Trails(inbox'[j].con, record'[q]) /\ Trails(src'[q].connection, inbox'[j].con)
    <3>1. PICK k \in DOMAIN inbox : inbox'[j] = inbox[k]
      BY <1>1
    <3>2. Trails(NoConnection, inbox[k].con)
      BY <1>0, TrailsTrivially
    <3> QED
      BY <2>2, <3>1, <3>2 DEF Trail
  <2>3. ASSUME NEW j \in DOMAIN inbox', NEW k \in DOMAIN inbox', inbox'[j].of = q, inbox'[k].of = q, j < k
        PROVE  Trails(inbox'[j].con, inbox'[k].con)
    <3>1. CASE inbox' = inbox
      BY <2>3, <3>1 DEF Trail
    <3>2. CASE inbox' = Answers(inbox)
      <4>1. j = 1 /\ k = 1
        BY <1>0, <3>2, AnswersFields
      <4> QED
        BY <2>3, <4>1
    <3> QED
      BY <3>1, <3>2
  <2> QED
    BY <2>1, <2>2, <2>3
<1> QED
  BY <1>3 DEF Trail

LEMMA StepKeepsTrail ==
  ASSUME Ordered, Base, Trail, [Next]_vars
  PROVE  Trail'
<1>0. Typed /\ TypeOK /\ src \in [Sources -> Source] /\ StepShape
  BY StepHasShape DEF Base, Typed, TypeOK
<1>1. ASSUME NEW o \in Sources, CaptureStep(o) PROVE Trail'
  <2>1. \A q \in Sources : src'[q].connection = src[q].connection
    BY <1>1 DEF CaptureStep
  <2> QED
    BY <1>1, <2>1, TrailKept DEF CaptureStep, srv
<1>2. ASSUME NEW o \in Sources, DestroyCallback(o) \/ Destroy(o) PROVE Trail'
  <2>1. /\ \A q \in Sources : q # o => src'[q] = src[q]
        /\ src'[o].connection \in {src[o].connection, NoConnection}
        /\ record' = record /\ inbox' = inbox
    BY <1>0, <1>2, DestroyFields DEF srv
  <2>2. \A q \in Sources : src'[q].connection \in {src[q].connection, NoConnection}
    BY <2>1
  <2> QED
    BY <2>1, <2>2, TrailKept
<1>3. ASSUME NEW o \in Sources, ParallelAnswered(o) PROVE Trail'
  BY <1>3, TrailKept DEF ParallelAnswered, Subscribers, srv
<1>4. CASE LogoutSucceeded
  <2>1. \A o \in Sources : src'[o].connection \in {src[o].connection, NoConnection}
    BY <1>0, <1>4, LogoutFields
  <2> QED
    BY <1>4, <2>1, TrailKept DEF LogoutSucceeded
<1>5. ASSUME NEW i, MessageStep(i) PROVE Trail'
  <2>1. i = 1
    BY <1>5 DEF MessageStep
  <2> QED
    BY <1>5, <2>1, MessageKeepsTrail
<1>6. CASE Disconnected
  BY <1>6, TrailKept DEF Disconnected
<1>7. CASE WebSocketReady
  BY <1>7, TrailKept DEF WebSocketReady
<1>8. ASSUME NEW S, PutsStep(S),
             UNCHANGED <<src, downlinks, record, subs, token, parallel, inbox, up, again, unserved, unheard>>
      PROVE Trail'
  BY <1>8, TrailKept
<1>9. ASSUME NEW o, NEW c, ServerStep(o, c), ParallelKept PROVE Trail'
  BY <1>9, ServerKeepsTrail
<1>10. CASE Quiet
  BY <1>10, TrailKept DEF Quiet
<1> QED
  BY Zenon, <1>0, <1>1, <1>2, <1>3, <1>4, <1>5, <1>6, <1>7, <1>8, <1>9, <1>10 DEF StepShape

LEMMA InitTrail == Init => Trail
<1> SUFFICES ASSUME Init PROVE Trail
  OBVIOUS
<1>1. \A o \in Sources : src[o].connection = NoConnection /\ record[o] = NoConnection
  BY NewSourceType DEF Init
<1>2. DOMAIN inbox = {}
  BY DEF Init
<1> QED
  BY <1>1, <1>2, TrailsTrivially, ConnectionTypes DEF Trail

-----------------------------------------------------------------------------
\* The decoder plays what the connection says.

InSync(s) == s.input = Input(s.connection) /\ (s.connection # NoConnection => s.rev = s.connection.rev)

\* A request that registers or unregisters o waits behind the one on the wire.
Later(o) == \E j \in 2 .. Len(queue) : queue[j].of = o /\ Registers(queue[j])

\* What is captured makes the revision that the source looks for differ from that of the
\* connection; then a request is sent, or is still to be.  The answer to a PUT that tells of
\* a connection that is known already finds the source in sync, or there is another request.
PlaysAt(o) ==
  /\ Pending(o) \/ o \in unserved \cup unsent \/ InSync(src[o])
  /\ \A i \in DOMAIN inbox :
       /\ IsAnswer(inbox[i]) /\ inbox[i].of = o /\ inbox[i].ok /\ queue[1].kind = "PUT"
       /\ src[o].connection.key = inbox[i].con.key
       => InSync(src[o]) \/ o \in unsent \/ Later(o)
Plays == \A o \in Sources : src[o].life = "live" => PlaysAt(o)

LEMMA QueueKeepsPending ==
  ASSUME queue \in Seq(Requests), QueueGrows \/ UNCHANGED queue, NEW o
  PROVE  (Pending(o) => Pending(o)') /\ (Later(o) => Later(o)')
<1>1. DOMAIN queue = 1 .. Len(queue) /\ Len(queue) \in Nat
  BY LenProperties
<1>2. CASE UNCHANGED queue
  BY <1>2 DEF Pending, Later
<1>3. CASE QueueGrows
  <2>1. /\ DOMAIN queue' = 1 .. Len(queue') /\ Len(queue') \in Nat
        /\ \A i \in 1 .. Len(queue) : i \in 1 .. Len(queue') /\ queue'[i] = queue[i]
    BY <1>3, LenProperties DEF QueueGrows
  <2>2. Pending(o) => Pending(o)'
    BY <1>1, <2>1 DEF Pending
  <2>3. Later(o) => Later(o)'
    <3> SUFFICES ASSUME Later(o) PROVE Later(o)'
      OBVIOUS
    <3>1. PICK j \in 2 .. Len(queue) : queue[j].of = o /\ Registers(queue[j])
      BY DEF Later
    <3>2. j \in 1 .. Len(queue)
      BY <3>1
    <3>3. j \in 2 .. Len(queue') /\ queue'[j] = queue[j]
      BY <2>1, <3>1, <3>2
    <3> QED
      BY <3>1, <3>3 DEF Later
  <2> QED
    BY <2>2, <2>3
<1> QED
  BY <1>2, <1>3

\* Nothing happens to o, the answer stays or is lost.
LEMMA PlaysKept ==
  ASSUME Base, NEW o \in Sources, src[o].life = "live" => PlaysAt(o), src'[o] = src[o],
         QueueGrows \/ UNCHANGED queue,
         \A i \in DOMAIN inbox' : IsAnswer(inbox'[i]) => \E j \in DOMAIN inbox : inbox'[i] = inbox[j],
         o \in unserved => o \in unserved', o \in unsent => o \in unsent'
  PROVE  src'[o].life = "live" => PlaysAt(o)'
<1> SUFFICES ASSUME src[o].life = "live" PROVE PlaysAt(o)'
  OBVIOUS
<1>1. (Pending(o) => Pending(o)') /\ (Later(o) => Later(o)')
  BY QueueKeepsPending DEF Base, Typed, TypeOK
<1>2. queue # <<>> => queue'[1] = queue[1]
  BY QueueKeepsHead DEF Base, Typed, TypeOK
<1>3. Pending(o)' \/ o \in unserved' \cup unsent' \/ InSync(src'[o])
  BY <1>1 DEF PlaysAt
<1>4. ASSUME NEW i \in DOMAIN inbox',
             IsAnswer(inbox'[i]) /\ inbox'[i].of = o /\ inbox'[i].ok /\ queue'[1].kind = "PUT",
             src'[o].connection.key = inbox'[i].con.key
      PROVE  InSync(src'[o]) \/ o \in unsent' \/ Later(o)'
  <2>1. PICK j \in DOMAIN inbox : inbox'[i] = inbox[j]
    BY <1>4
  <2>2. queue'[1] = queue[1]
    BY <1>2, <1>4, <2>1 DEF Base, Wire
  <2>3. InSync(src[o]) \/ o \in unsent \/ Later(o)
    BY <1>4, <2>1, <2>2 DEF PlaysAt
  <2> QED
    BY <1>1, <2>3
<1> QED
  BY <1>3, <1>4 DEF PlaysAt

\* A request that is put in the queue is pending, and waits if there is an answer.
LEMMA PutPlays ==
  ASSUME Base, NEW o \in Sources, QueueGrows, inbox' = inbox,
         NEW j \in 1 .. Len(queue'), j > Len(queue), queue'[j].of = o, Registers(queue'[j])
  PROVE  PlaysAt(o)'
<1>1. /\ DOMAIN queue' = 1 .. Len(queue') /\ Len(queue') \in Nat /\ Len(queue) \in Nat
      /\ queue \in Seq(Requests)
  BY LenProperties DEF QueueGrows, Base, Typed, TypeOK
<1>2. Pending(o)'
  BY <1>1 DEF Pending, Registers
<1>3. ASSUME NEW i \in DOMAIN inbox', IsAnswer(inbox'[i])
      PROVE  Later(o)'
  <2>1. queue # <<>>
    BY <1>3 DEF Base, Wire
  <2>2. Len(queue) # 0
    BY <1>1, <2>1, EmptySeq
  <2>3. j \in 2 .. Len(queue')
    BY <1>1, <2>2
  <2> QED
    BY <2>3 DEF Later
<1> QED
  BY <1>2, <1>3 DEF PlaysAt

LEMMA CaptureKeepsPlays ==
  ASSUME Base, Plays, NEW o \in Sources, CaptureStep(o)
  PROVE  Plays'
<1>0. src \in [Sources -> Source] /\ queue \in Seq(Requests) /\ Len(queue) \in Nat
  BY LenProperties DEF Base, Typed, TypeOK
<1>1. PlaysAt(o)'
  <2>1. CASE linked /\ QueueGrows /\ Len(queue') = Len(queue) + 1
             /\ queue'[Len(queue) + 1] = ConnectionRequest(o, src'[o])
    <3>1. src'[o] \in Source
      BY DEF CaptureStep
    <3>2. queue'[Len(queue) + 1].of = o /\ Registers(queue'[Len(queue) + 1])
      BY <2>1, <3>1, RequestTypes DEF Registers
    <3>3. Len(queue) + 1 \in 1 .. Len(queue') /\ Len(queue) + 1 > Len(queue)
      BY <1>0, <2>1
    <3> QED
      BY <2>1, <3>2, <3>3, PutPlays DEF CaptureStep
  <2>2. CASE unsent' = unsent \cup {o}
    BY <2>2 DEF PlaysAt
  <2> QED
    BY <2>1, <2>2 DEF CaptureStep
<1>2. ASSUME NEW q \in Sources, q # o
      PROVE  src'[q].life = "live" => PlaysAt(q)'
  <2>1. /\ src'[q] = src[q] /\ (QueueGrows \/ UNCHANGED queue) /\ inbox' = inbox
        /\ q \in unserved => q \in unserved'
        /\ q \in unsent => q \in unsent'
    BY <1>2 DEF CaptureStep
  <2> QED
    BY <2>1, PlaysKept DEF Plays
<1> QED
  BY <1>1, <1>2 DEF Plays

LEMMA PutsKeepPlays ==
  ASSUME Base, Plays, NEW S, PutsStep(S), UNCHANGED <<inbox, unserved>>
  PROVE  Plays'
<1>1. QueueGrows /\ src' = src /\ unsent' = unsent \ S
  BY DEF PutsStep
<1>2. ASSUME NEW o \in Sources, o \in S
      PROVE  PlaysAt(o)'
  <2>1. PICK j \in 1 .. Len(queue') : j > Len(queue) /\ queue'[j].of = o /\ Registers(queue'[j])
    BY <1>2 DEF PutsStep
  <2> QED
    BY <1>1, <2>1, PutPlays
<1>3. ASSUME NEW o \in Sources, o \notin S
      PROVE  src'[o].life = "live" => PlaysAt(o)'
  BY <1>1, <1>3, PlaysKept DEF Plays
<1> QED
  BY <1>2, <1>3 DEF Plays

LEMMA ServerKeepsPlays ==
  ASSUME Base, Plays, NEW o, NEW c, ServerStep(o, c)
  PROVE  Plays'
<1>0. /\ o \in Sources /\ c \in Connections /\ inbox \in Seq(Messages)
      /\ DOMAIN inbox = 1 .. Len(inbox) /\ DOMAIN inbox' = 1 .. Len(inbox') /\ Len(inbox) \in Nat
      /\ Len(inbox') \in Nat
      /\ UNCHANGED <<src, queue, unserved, unsent>>
  BY DEF ServerStep, Base, Typed, TypeOK
<1>1. ASSUME NEW i \in DOMAIN inbox', IsAnswer(inbox'[i])
      PROVE  (i \in DOMAIN inbox /\ inbox'[i] = inbox[i]) \/ Answers1(o, c, inbox'[i])
  <2>1. \A k \in 1 .. Len(inbox) : inbox'[k] = inbox[k]
    BY DEF ServerStep
  <2>2. CASE i \in DOMAIN inbox
    BY <1>0, <2>1, <2>2
  <2>3. CASE i \notin DOMAIN inbox
    <3>1. i \in 1 .. Len(inbox') /\ i > Len(inbox)
      BY <1>0, <2>3
    <3>2. ~ IsAnswer(Push(o, c))
      BY <1>0, PushTypes
    <3> QED
      BY <1>1, <3>1, <3>2 DEF ServerStep
  <2> QED
    BY <2>2, <2>3
<1>2. ASSUME NEW q \in Sources, src[q].life = "live"
      PROVE  PlaysAt(q)'
  <2>1. Pending(q)' \/ q \in unserved' \cup unsent' \/ InSync(src'[q])
    BY <1>0, <1>2 DEF Plays, PlaysAt, Pending
  <2>2. ASSUME NEW i \in DOMAIN inbox',
               IsAnswer(inbox'[i]) /\ inbox'[i].of = q /\ inbox'[i].ok /\ queue'[1].kind = "PUT",
               src'[q].connection.key = inbox'[i].con.key
        PROVE  InSync(src'[q]) \/ q \in unsent' \/ Later(q)'
    <3>1. CASE i \in DOMAIN inbox /\ inbox'[i] = inbox[i]
      BY <1>0, <1>2, <2>2, <3>1 DEF Plays, PlaysAt, Later
    <3>2. CASE Answers1(o, c, inbox'[i])
      <4>1. q = o /\ inbox'[i].con = c /\ c.key \notin InUse(o)
        BY <1>0, <2>2, <3>2 DEF Answers1
      <4>2. src[o].connection.key \in InUse(o)
        BY DEF InUse
      <4> QED
        BY <1>0, <2>2, <4>1, <4>2
    <3> QED
      BY <1>1, <2>2, <3>1, <3>2
  <2> QED
    BY <2>1, <2>2 DEF PlaysAt
<1> QED
  BY <1>0, <1>2 DEF Plays

\* A source that is reset is in sync.
LEMMA ResetInSync ==
  ASSUME NEW s \in Source, s.life = "live"
  PROVE  InSync(Reset(s, NoConnection))
BY ResetFields, ConnectionTypes DEF InSync

\* So is one that hears of a connection, if it was before or if the connection is another.
LEMMA DownlinkReadyInSync ==
  ASSUME NEW s \in Source, NEW c \in Connections, s.life = "live", c # NoConnection,
         Trails(s.connection, c), InSync(s) \/ s.connection.key # c.key
  PROVE  InSync(DownlinkReady(s, c))
<1> DEFINE t == DownlinkReady(s, c)
<1>1. /\ t.connection = c
      /\ t.rev = IF ReconnectionNeeded(s, c) THEN c.rev ELSE s.rev
      /\ t.input = IF ~ ReconnectionNeeded(s, c) THEN s.input
                      ELSE IF s.life = "live" THEN Input(c) ELSE NoConnection
  BY DownlinkReadyFields
<1> HIDE DEF t
<1>2. CASE ReconnectionNeeded(s, c)
  <2>1. t.input = Input(c) /\ t.rev = c.rev
    BY <1>1, <1>2
  <2> QED
    BY <1>1, <2>1 DEF InSync, t
<1>3. CASE ~ ReconnectionNeeded(s, c)
  <2>1. s.connection.alloc = c.alloc /\ ~ (s.rev < c.rev) /\ s.connection.key = c.key
    BY <1>3 DEF ReconnectionNeeded
  <2>2. s.connection \in Connections /\ s.connection # NoConnection
    BY <2>1, SourceTypes, ConnectionTypes
  <2>3. s.connection.port = c.port /\ s.connection.rev <= c.rev /\ s.rev = s.connection.rev
        /\ s.input = Input(s.connection)
    BY <2>1, <2>2 DEF Trails, InSync
  <2>4. s.connection.rev = c.rev
    <3>1. s.connection.rev \in Nat /\ c.rev \in Nat
      BY <2>2, ConnectionTypes
    <3> QED
      BY <2>1, <2>3, <3>1
  <2>5. s.connection = c
    <3>1. s.connection \in [alloc : BOOLEAN, rev : 0 .. MaxRevision, key : Keys, port : Ports]
          /\ c \in [alloc : BOOLEAN, rev : 0 .. MaxRevision, key : Keys, port : Ports]
      BY <2>2 DEF Connections
    <3> QED
      BY <2>1, <2>3, <2>4, <3>1
  <2>6. t.input = Input(c) /\ t.rev = c.rev
    BY <1>1, <1>3, <2>3, <2>5
  <2> QED
    BY <1>1, <2>6 DEF InSync, t
<1> QED
  BY <1>2, <1>3

\* The queue moves on: what waited is pending.
LEMMA AdvanceKeepsPending ==
  ASSUME queue \in Seq(Requests), QueueAdvances, NEW o
  PROVE  /\ Later(o) => Pending(o)'
         /\ Pending(o) /\ (queue[1].of # o \/ ~ Registers(queue[1])) => Pending(o)'
<1>1. /\ DOMAIN queue = 1 .. Len(queue) /\ Len(queue) \in Nat
      /\ DOMAIN queue' = 1 .. Len(queue') /\ Len(queue') = Len(queue) - 1
      /\ \A i \in 1 .. Len(queue') : queue'[i] = queue[i + 1]
  BY LenProperties DEF QueueAdvances
<1>2. ASSUME NEW j \in 2 .. Len(queue)
      PROVE  j - 1 \in DOMAIN queue' /\ queue'[j - 1] = queue[j]
  <2>1. j - 1 \in 1 .. Len(queue') /\ (j - 1) + 1 = j
    BY <1>1
  <2>2. queue'[j - 1] = queue[(j - 1) + 1]
    BY <1>1, <2>1
  <2> QED
    BY <1>1, <2>1, <2>2
<1>3. Later(o) => Pending(o)'
  BY <1>2 DEF Later, Pending, Registers
<1>4. ASSUME Pending(o), queue[1].of # o \/ ~ Registers(queue[1])
      PROVE  Later(o)
  <2>1. PICK i \in DOMAIN queue : queue[i].of = o /\ queue[i].kind # "STATUS"
    BY <1>4 DEF Pending
  <2>2. i # 1
    BY <1>4, <2>1 DEF Registers
  <2>3. i \in 2 .. Len(queue)
    BY <1>1, <2>1, <2>2
  <2> QED
    BY <2>1, <2>3 DEF Later, Registers
<1> QED
  BY <1>3, <1>4

\* The source the message is about, if it was in sync or finds the connection changed.
LEMMA MessageKeepsSync ==
  ASSUME Base, Known, Trail, MessageStep(1), src[inbox[1].of].life = "live",
         InSync(src[inbox[1].of]) \/ (Ready(inbox[1]) /\ src[inbox[1].of].connection.key # inbox[1].con.key)
         \/ RemovedBy(inbox[1]) \/ FailedBy(inbox[1])
  PROVE  InSync(src'[inbox[1].of])
<1> DEFINE m == inbox[1]
           o == m.of
<1>1. m \in Messages /\ o \in Sources /\ m.con \in Connections /\ src[o] \in Source
  BY MessageFields
<1>2. Present(o)
  BY DEF Present
<1>3. InSync(Reset(src[o], NoConnection))
  BY <1>1, ResetInSync
<1>4. CASE Ready(m)
  <2>1. src'[o] = DownlinkReady(src[o], m.con) /\ m.con # NoConnection
    BY <1>2, <1>4 DEF Ready
  <2>2. Trails(src[o].connection, m.con)
    <3>1. 1 \in DOMAIN inbox
      BY MessagesMoveOn
    <3> QED
      BY <1>1, <3>1 DEF Trail
  <2>3. InSync(src[o]) \/ src[o].connection.key # m.con.key
    BY <1>4 DEF Ready, RemovedBy, FailedBy
  <2> QED
    BY <1>1, <2>1, <2>2, <2>3, DownlinkReadyInSync
<1>5. CASE RemovedBy(m)
  <2>1. CASE o \in downlinks
    BY <1>2, <1>3, <1>5, <2>1 DEF RemovedBy
  <2>2. CASE o \notin downlinks
    <3>1. src'[o] = src[o]
      BY <1>5, <2>2 DEF RemovedBy
    <3>2. src[o].connection = NoConnection /\ src[o].input = NoConnection
      BY <1>1, <1>2, <2>2 DEF Known
    <3> QED
      BY <3>1, <3>2, ConnectionTypes DEF InSync, Input
  <2> QED
    BY <2>1, <2>2
<1>6. CASE FailedBy(m)
  BY <1>2, <1>3, <1>6 DEF FailedBy
<1>7. CASE IgnoredAfter(m)
  BY <1>7 DEF IgnoredAfter, Ready, RemovedBy, FailedBy
<1> QED
  BY <1>4, <1>5, <1>6, <1>7 DEF MessageStep

LEMMA MessageKeepsPlays ==
  ASSUME Base, Known, Trail, Plays, MessageStep(1)
  PROVE  Plays'
<1> DEFINE m == inbox[1]
<1>0. PICK o \in Sources : o = m.of
  BY MessageFields
<1>1. /\ m \in Messages /\ o \in Sources /\ m.con \in Connections /\ src[o] \in Source /\ src'[o].life = src[o].life
      /\ src'[o].connection \in {src[o].connection, m.con, NoConnection}
  BY <1>0, MessageFields
<1>2. /\ \A q \in Sources : q # o => src'[q] = src[q]
      /\ unsent' = unsent
  BY <1>0 DEF MessageStep, hist
<1>3. /\ DOMAIN inbox = 1 .. Len(inbox) /\ DOMAIN inbox' = 1 .. Len(inbox') /\ 1 \in DOMAIN inbox
      /\ \A j \in DOMAIN inbox' : j + 1 \in DOMAIN inbox /\ inbox'[j] = inbox[j + 1] /\ j + 1 > 1
  BY MessagesMoveOn, Zenon
<1>4. queue \in Seq(Requests) /\ Wire
  BY DEF Base, Typed, TypeOK
<1>5. CASE ~ IsAnswer(m) /\ UNCHANGED <<queue, hist>>
  <2>1. ASSUME NEW q \in Sources, q # o
        PROVE  src'[q].life = "live" => PlaysAt(q)'
    <3>1. \A i \in DOMAIN inbox' : IsAnswer(inbox'[i]) => \E j \in DOMAIN inbox : inbox'[i] = inbox[j]
      BY <1>3
    <3>2. src'[q] = src[q] /\ UNCHANGED queue /\ (q \in unserved => q \in unserved') /\ (q \in unsent => q \in unsent')
      BY <1>2, <1>5, <2>1 DEF hist
    <3>3. src[q].life = "live" => PlaysAt(q)
      BY DEF Plays
    <3> QED
      BY <3>1, <3>2, <3>3, PlaysKept
  <2>2. ASSUME src[o].life = "live"
        PROVE  PlaysAt(o)'
    <3>1. Pending(o)' \/ o \in unserved' \cup unsent' \/ InSync(src'[o])
      <4>1. Pending(o) \/ o \in unserved \cup unsent \/ InSync(src[o])
        BY <1>1, <2>2 DEF Plays, PlaysAt
      <4>2. InSync(src[o]) => InSync(src'[o])
        BY <2>2, <1>0, MessageKeepsSync
      <4> QED
        BY <1>5, <4>1, <4>2 DEF Pending, hist
    <3>2. ASSUME NEW i \in DOMAIN inbox',
                 IsAnswer(inbox'[i]) /\ inbox'[i].of = o /\ inbox'[i].ok /\ queue'[1].kind = "PUT",
                 src'[o].connection.key = inbox'[i].con.key
          PROVE  InSync(src'[o]) \/ o \in unsent' \/ Later(o)'
      <4>1. i + 1 \in DOMAIN inbox /\ inbox'[i] = inbox[i + 1] /\ queue' = queue
        BY <1>3, <1>5
      <4>2. CASE src[o].connection.key = inbox'[i].con.key
        <5>1. InSync(src[o]) \/ o \in unsent \/ Later(o)
          BY <1>1, <2>2, <3>2, <4>1, <4>2 DEF Plays, PlaysAt
        <5>2. InSync(src[o]) => InSync(src'[o])
          BY <2>2, <1>0, MessageKeepsSync
        <5>3. Later(o)' <=> Later(o)
          BY <4>1 DEF Later
        <5> QED
          BY <1>2, <5>1, <5>2, <5>3
      <4>3. CASE src[o].connection.key # inbox'[i].con.key
        <5>1. CASE Ready(m)
          <6>1. src'[o].connection = m.con
            BY <1>1, <2>2, <5>1, <1>0, DownlinkReadyFields DEF Ready, Present
          <6>2. src[o].connection.key # m.con.key
            BY <3>2, <4>3, <6>1
          <6> QED
            BY <2>2, <5>1, <6>2, <1>0, MessageKeepsSync
        <5>2. CASE RemovedBy(m) \/ FailedBy(m)
          BY <2>2, <5>2, <1>0, MessageKeepsSync
        <5>3. CASE IgnoredAfter(m)
          BY <1>5, <5>3 DEF IgnoredAfter
        <5> QED
          BY <5>1, <5>2, <5>3 DEF MessageStep
      <4> QED
        BY <4>2, <4>3
    <3> QED
      BY <3>1, <3>2 DEF PlaysAt
  <2> QED
    BY <1>1, <2>1, <2>2 DEF Plays
<1>6. CASE /\ IsAnswer(m) /\ QueueAdvances /\ queue[1].of = o
           /\ unserved' = IF queue[1].kind = "STATUS" THEN unserved
                          ELSE IF m.ok THEN unserved \ {o} ELSE unserved \cup {o}
  <2>1. \A i \in DOMAIN inbox' : ~ IsAnswer(inbox'[i])
    <3> SUFFICES ASSUME NEW i \in DOMAIN inbox', IsAnswer(inbox'[i]) PROVE FALSE
      OBVIOUS
    <3>1. i + 1 \in DOMAIN inbox /\ IsAnswer(inbox[i + 1]) /\ i + 1 # 1
      BY <1>3
    <3> QED
      BY <1>3, <1>4, <1>6, <3>1 DEF Wire
  <2>2. ASSUME NEW q \in Sources, q # o, src[q].life = "live"
        PROVE  Pending(q)' \/ q \in unserved' \cup unsent' \/ InSync(src'[q])
    <3>1. Pending(q) \/ q \in unserved \cup unsent \/ InSync(src[q])
      BY <2>2 DEF Plays, PlaysAt
    <3>2. Pending(q) => Pending(q)'
      BY <1>4, <1>6, <2>2, AdvanceKeepsPending
    <3>3. q \in unserved => q \in unserved'
      BY <1>6, <2>2
    <3> QED
      BY <1>2, <2>2, <3>1, <3>2, <3>3
  <2>3. ASSUME src[o].life = "live"
        PROVE  Pending(o)' \/ o \in unserved' \cup unsent' \/ InSync(src'[o])
    <3>1. CASE queue[1].kind = "STATUS"
      <4>1. Pending(o) \/ o \in unserved \cup unsent \/ InSync(src[o])
        BY <1>1, <2>3 DEF Plays, PlaysAt
      <4>2. Pending(o) => Pending(o)'
        BY <1>4, <1>6, <3>1, AdvanceKeepsPending DEF Registers
      <4>3. InSync(src[o]) => InSync(src'[o])
        BY <2>3, <1>0, MessageKeepsSync
      <4> QED
        BY <1>2, <1>6, <3>1, <4>1, <4>2, <4>3
    <3>2. CASE queue[1].kind # "STATUS" /\ ~ m.ok
      BY <1>6, <3>2
    <3>3. CASE queue[1].kind = "DELETE" /\ m.ok
      <4>1. RemovedBy(m)
        BY <1>6, <3>3 DEF MessageStep, Ready, FailedBy, IgnoredAfter
      <4> QED
        BY <2>3, <4>1, <1>0, MessageKeepsSync
    <3>4. CASE queue[1].kind = "PUT" /\ m.ok
      <4>1. Ready(m)
        BY <1>6, <3>4 DEF MessageStep, RemovedBy, FailedBy, IgnoredAfter
      <4>2. CASE src[o].connection.key # m.con.key
        BY <2>3, <4>1, <4>2, <1>0, MessageKeepsSync
      <4>3. CASE src[o].connection.key = m.con.key
        <5>1. InSync(src[o]) \/ o \in unsent \/ Later(o)
          BY <1>0, <1>1, <1>3, <1>6, <2>3, <3>4, <4>3 DEF Plays, PlaysAt
        <5>2. InSync(src[o]) => InSync(src'[o])
          BY <2>3, <1>0, MessageKeepsSync
        <5>3. Later(o) => Pending(o)'
          BY <1>4, <1>6, AdvanceKeepsPending
        <5> QED
          BY <1>2, <5>1, <5>2, <5>3
      <4> QED
        BY <4>2, <4>3
    <3>5. queue[1].kind \in {"PUT", "STATUS", "DELETE"}
      <4>1. queue[1] \in Requests
        BY <1>4, <1>6 DEF QueueAdvances
      <4> QED
        BY <4>1 DEF Requests
    <3> QED
      BY <3>1, <3>2, <3>3, <3>4, <3>5
  <2>4. ASSUME NEW q \in Sources, src'[q].life = "live"
        PROVE  Pending(q)' \/ q \in unserved' \cup unsent' \/ InSync(src'[q])
    BY <1>1, <1>2, <2>2, <2>3, <2>4
  <2> QED
    BY <2>1, <2>4 DEF Plays, PlaysAt
<1> QED
  BY <1>0, <1>5, <1>6 DEF MessageStep

LEMMA LogoutKeepsPlays ==
  ASSUME Base, Plays, LogoutSucceeded
  PROVE  Plays'
<1>1. ASSUME NEW o \in Sources, src'[o].life = "live"
      PROVE  InSync(src'[o])
  <2>1. Present(o) => src'[o].connection = NoConnection /\ src'[o].input = NoConnection
    BY LogoutFields DEF Base
  <2>2. Present(o)
    BY <1>1, LogoutFields DEF Base, Present
  <2> QED
    BY <2>1, <2>2, ConnectionTypes DEF InSync, Input
<1> QED
  BY <1>1 DEF Plays, PlaysAt

LEMMA StepKeepsPlays ==
  ASSUME Ordered, Base, Known, Trail, Plays, [Next]_vars
  PROVE  Plays'
<1>0. Typed /\ TypeOK /\ inbox \in Seq(Messages) /\ StepShape
  BY StepHasShape DEF Base, Typed, TypeOK
<1>1. ASSUME src' = src, QueueGrows \/ UNCHANGED queue, unserved' = unserved, unsent' = unsent,
             inbox' = inbox \/ inbox' = Answers(inbox)
      PROVE  Plays'
  <2>1. \A i \in DOMAIN inbox' : \E j \in DOMAIN inbox : inbox'[i] = inbox[j]
    BY <1>0, <1>1, AnswersFields
  <2> QED
    BY <1>1, <2>1, PlaysKept DEF Plays
<1>2. ASSUME NEW o \in Sources, CaptureStep(o) PROVE Plays'
  BY <1>2, CaptureKeepsPlays
<1>3. ASSUME NEW o \in Sources, DestroyCallback(o) \/ Destroy(o) PROVE Plays'
  <2>1. /\ \A q \in Sources : q # o => src'[q] = src[q]
        /\ src'[o].life \in {"leaving", "gone"}
        /\ UNCHANGED <<queue, inbox, unserved, unsent>>
    BY <1>0, <1>3, DestroyFields DEF hist
  <2>2. ASSUME NEW q \in Sources, q # o
        PROVE  src'[q].life = "live" => PlaysAt(q)'
    BY <2>1, <2>2, PlaysKept DEF Plays
  <2> QED
    BY <2>1, <2>2 DEF Plays
<1>4. ASSUME NEW o \in Sources, ParallelAnswered(o) PROVE Plays'
  BY <1>1, <1>4 DEF ParallelAnswered, hist
<1>5. CASE LogoutSucceeded
  BY <1>5, LogoutKeepsPlays
<1>6. ASSUME NEW i, MessageStep(i) PROVE Plays'
  <2>1. i = 1
    BY <1>6 DEF MessageStep
  <2> QED
    BY <1>6, <2>1, MessageKeepsPlays
<1>7. CASE Disconnected
  BY <1>1, <1>7 DEF Disconnected
<1>8. CASE WebSocketReady
  <2>1. QueueGrows \/ UNCHANGED queue
    BY <1>0, <1>8, WebSocketReadyTakesStep
  <2> QED
    BY <1>1, <1>8, <2>1 DEF WebSocketReady, hist
<1>9. ASSUME NEW S, PutsStep(S),
             UNCHANGED <<src, downlinks, record, subs, token, parallel, inbox, up, again, unserved, unheard>>
      PROVE Plays'
  BY <1>9, PutsKeepPlays
<1>10. ASSUME NEW o, NEW c, ServerStep(o, c), ParallelKept PROVE Plays'
  BY <1>10, ServerKeepsPlays
<1>11. CASE Quiet
  BY <1>1, <1>11 DEF Quiet
<1> QED
  BY Zenon, <1>0, <1>2, <1>3, <1>4, <1>5, <1>6, <1>7, <1>8, <1>9, <1>10, <1>11 DEF StepShape

LEMMA InitPlays == Init => Plays
<1> SUFFICES ASSUME Init PROVE Plays
  OBVIOUS
<1>1. \A o \in Sources : src[o].life = "new"
  BY NewSourceType DEF Init
<1> QED
  BY <1>1 DEF Plays

\* IngressLinkSource::onDownlinkReady: the decoder is only set up anew when the guest comes
\* or goes, the revision grows or the passphrase differs; yet, if answers and pushes arrive
\* in the order they were sent in, the decoder of every source that has been served plays
\* the connection the source has, at its port and with its passphrase.
THEOREM DecodersPlay ==
  ASSUME Ordered
  PROVE  Spec => []DecoderPlaysConnection
<1> DEFINE IInv == Base /\ Known /\ Trail /\ Plays
<1>1. Init => IInv
  BY InitBase, InitKnown, InitTrail, InitPlays
<1>2. IInv /\ [Next]_vars => IInv'
  BY StepKeepsBase, StepKeepsKnown, StepKeepsTrail, StepKeepsPlays
<1>3. IInv => DecoderPlaysConnection
  BY DEF Plays, PlaysAt, InSync, DecoderPlaysConnection
<1> HIDE DEF IInv
<1> QED
  BY <1>1, <1>2, <1>3, PTL DEF Spec

-----------------------------------------------------------------------------
\* What the server keeps is what the source asks for.

Expected(r, s) == r.kind = (IF Registrable(s) THEN "PUT" ELSE "DELETE") /\ r.port = s.port
LastPut(i, o) ==
  /\ queue[i].of = o /\ Registers(queue[i])
  /\ \A j \in DOMAIN queue : j > i => ~ (queue[j].of = o /\ Registers(queue[j]))

\* A request that was served is what the record shows, until its answer arrives: nobody
\* but the request itself gives a source another connection.
Served ==
  \A i \in DOMAIN inbox : IsAnswer(inbox[i]) /\ inbox[i].ok /\ Registers(queue[1]) =>
    \/ record[inbox[i].of] = NoConnection
    \/ queue[1].kind = "PUT" /\ record[inbox[i].of].port = queue[1].port

\* The last request of a source says what the source asks for; when it was served, so does
\* the record.
AskedAt(o) ==
  /\ o \notin unsent => \A i \in DOMAIN queue : LastPut(i, o) => Expected(queue[i], src[o])
  /\ ~ Pending(o) /\ o \notin unserved \cup unsent =>
       record[o] = NoConnection \/ (Registrable(src[o]) /\ record[o].port = src[o].port)
Asked == Served /\ \A o \in Sources : src[o].life = "live" => AskedAt(o)

SameAsked(s, t) == t.port = s.port /\ t.wanted = s.wanted /\ t.relay = s.relay

LEMMA SameAskedExpected ==
  ASSUME NEW s, NEW t, SameAsked(s, t)
  PROVE  (Registrable(t) <=> Registrable(s)) /\ \A r : Expected(r, t) <=> Expected(r, s)
BY DEF SameAsked, Registrable, Expected

\* The last request of a source that sends none stays the last.
LEMMA GrownQueueAsked ==
  ASSUME queue \in Seq(Requests), QueueGrows \/ UNCHANGED queue, NEW o \in Sources,
         SameAsked(src[o], src'[o]) \/ (\E j \in 1 .. Len(queue') : j > Len(queue) /\ queue'[j].of = o /\ Registers(queue'[j])),
         src'[o] \in Source,
         \/ \A i \in DOMAIN queue : LastPut(i, o) => Expected(queue[i], src[o])
         \/ \E j \in 1 .. Len(queue') : j > Len(queue) /\ queue'[j].of = o /\ Registers(queue'[j]),
         QueueGrows \/ SameAsked(src[o], src'[o])
  PROVE  \A i \in DOMAIN queue' : LastPut(i, o)' => Expected(queue'[i], src'[o])
<1>1. DOMAIN queue = 1 .. Len(queue) /\ Len(queue) \in Nat
  BY LenProperties
<1>2. CASE UNCHANGED queue
  <2>1. SameAsked(src[o], src'[o])
    BY <1>1, <1>2 DEF QueueGrows
  <2>2. \A i \in DOMAIN queue : LastPut(i, o) => Expected(queue[i], src[o])
    BY <1>1, <1>2
  <2>3. ASSUME NEW i \in DOMAIN queue', LastPut(i, o)'
        PROVE  Expected(queue'[i], src'[o])
    <3>1. i \in DOMAIN queue /\ LastPut(i, o) /\ queue'[i] = queue[i]
      BY <1>2, <2>3 DEF LastPut
    <3> QED
      BY <2>1, <2>2, <3>1, SameAskedExpected
  <2> QED
    BY <2>3
<1>3. CASE QueueGrows
  <2>1. /\ DOMAIN queue' = 1 .. Len(queue') /\ Len(queue') \in Nat
        /\ \A i \in 1 .. Len(queue) : i \in 1 .. Len(queue') /\ queue'[i] = queue[i]
        /\ \A i \in 1 .. Len(queue') : i > Len(queue) /\ Registers(queue'[i]) =>
             queue'[i] = ConnectionRequest(queue'[i].of, src'[queue'[i].of])
    BY <1>3, LenProperties DEF QueueGrows
  <2>2. ASSUME NEW i \in DOMAIN queue', LastPut(i, o)'
        PROVE  Expected(queue'[i], src'[o])
    <3>1. /\ queue'[i].of = o /\ Registers(queue'[i])
          /\ \A j \in DOMAIN queue' : j > i => ~ (queue'[j].of = o /\ Registers(queue'[j]))
      BY <2>2 DEF LastPut
    <3>2. CASE i > Len(queue)
      <4>1. queue'[i] = ConnectionRequest(o, src'[o])
        BY <2>1, <3>1, <3>2
      <4> QED
        BY <4>1, RequestTypes DEF Expected
    <3>3. CASE ~ (i > Len(queue))
      <4>1. i \in DOMAIN queue /\ queue'[i] = queue[i]
        BY <1>1, <2>1, <3>3
      <4>2. ~ \E j \in 1 .. Len(queue') : j > Len(queue) /\ queue'[j].of = o /\ Registers(queue'[j])
        BY <1>1, <2>1, <3>1, <3>3
      <4>3. LastPut(i, o)
        BY <1>1, <2>1, <3>1, <4>1 DEF LastPut
      <4> QED
        BY <4>1, <4>2, <4>3, SameAskedExpected
    <3> QED
      BY <3>2, <3>3
  <2> QED
    BY <2>2
<1> QED
  BY <1>2, <1>3

\* A source that asks for the same, whose record stays: its requests wait, or one more does.
LEMMA AskedKept ==
  ASSUME Base, NEW o \in Sources, src[o].life = "live" => AskedAt(o),
         src'[o].life = "live" => src[o].life = "live",
         SameAsked(src[o], src'[o]), src'[o] \in Source, record'[o] = record[o],
         QueueGrows \/ UNCHANGED queue,
         o \in unserved => o \in unserved', o \in unsent => o \in unsent'
  PROVE  src'[o].life = "live" => AskedAt(o)'
<1> SUFFICES ASSUME src'[o].life = "live" PROVE AskedAt(o)'
  OBVIOUS
<1>0. AskedAt(o) /\ queue \in Seq(Requests)
  BY DEF Base, Typed, TypeOK
<1>1. o \notin unsent' => \A i \in DOMAIN queue' : LastPut(i, o)' => Expected(queue'[i], src'[o])
  <2> SUFFICES ASSUME o \notin unsent'
               PROVE  \A i \in DOMAIN queue' : LastPut(i, o)' => Expected(queue'[i], src'[o])
    OBVIOUS
  <2>1. \A i \in DOMAIN queue : LastPut(i, o) => Expected(queue[i], src[o])
    BY <1>0 DEF AskedAt
  <2> QED
    BY <1>0, <2>1, GrownQueueAsked
<1>2. Pending(o) => Pending(o)'
  BY <1>0, QueueKeepsPending
<1>3. Registrable(src'[o]) <=> Registrable(src[o])
  BY SameAskedExpected
<1>4. src'[o].port = src[o].port
  BY DEF SameAsked
<1>5. ~ Pending(o)' /\ o \notin unserved' \cup unsent' =>
       record'[o] = NoConnection \/ (Registrable(src'[o]) /\ record'[o].port = src'[o].port)
  BY <1>0, <1>2, <1>3, <1>4 DEF AskedAt
<1> QED
  BY <1>1, <1>5 DEF AskedAt

\* A source that sends a request.
LEMMA PutAsks ==
  ASSUME Base, NEW o \in Sources, QueueGrows, src'[o] \in Source,
         NEW j \in 1 .. Len(queue'), j > Len(queue), queue'[j].of = o, Registers(queue'[j])
  PROVE  AskedAt(o)'
<1>0. queue \in Seq(Requests) /\ DOMAIN queue' = 1 .. Len(queue')
  BY LenProperties DEF Base, Typed, TypeOK, QueueGrows
<1>1. \A i \in DOMAIN queue' : LastPut(i, o)' => Expected(queue'[i], src'[o])
  BY <1>0, GrownQueueAsked
<1>2. Pending(o)'
  BY <1>0 DEF Pending, Registers
<1> QED
  BY <1>1, <1>2 DEF AskedAt

\* The request on the wire and its answer stay, or the answer is lost.
LEMMA ServedKept ==
  ASSUME Base, Served, QueueGrows \/ UNCHANGED queue, record' = record,
         inbox' = inbox \/ inbox' = Answers(inbox)
  PROVE  Served'
<1>0. inbox \in Seq(Messages) /\ queue \in Seq(Requests) /\ Wire
  BY DEF Base, Typed, TypeOK
<1>1. \A i \in DOMAIN inbox' : \E j \in DOMAIN inbox : inbox'[i] = inbox[j]
  BY <1>0, AnswersFields
<1>2. queue # <<>> => queue'[1] = queue[1]
  BY <1>0, QueueKeepsHead
<1>3. ASSUME NEW i \in DOMAIN inbox', IsAnswer(inbox'[i]) /\ inbox'[i].ok /\ Registers(queue'[1])
      PROVE  \/ record'[inbox'[i].of] = NoConnection
             \/ queue'[1].kind = "PUT" /\ record'[inbox'[i].of].port = queue'[1].port
  <2>1. PICK j \in DOMAIN inbox : inbox'[i] = inbox[j]
    BY <1>1
  <2>2. queue'[1] = queue[1]
    BY <1>0, <1>2, <1>3, <2>1 DEF Wire
  <2> QED
    BY <1>3, <2>1, <2>2 DEF Served
<1> QED
  BY <1>3 DEF Served

LEMMA CaptureKeepsAsked ==
  ASSUME Base, Asked, NEW o \in Sources, CaptureStep(o)
  PROVE  Asked'
<1>0. src' \in [Sources -> Source] /\ (QueueGrows \/ UNCHANGED queue) /\ record' = record /\ inbox' = inbox
      /\ Len(queue) \in Nat
  BY LenProperties DEF CaptureStep, srv, Base, Typed, TypeOK
<1>1. AskedAt(o)'
  <2>1. CASE linked /\ QueueGrows /\ Len(queue') = Len(queue) + 1
             /\ queue'[Len(queue) + 1] = ConnectionRequest(o, src'[o])
    <3>1. queue'[Len(queue) + 1].of = o /\ Registers(queue'[Len(queue) + 1])
      BY <1>0, <2>1, RequestTypes DEF Registers
    <3>2. Len(queue) + 1 \in 1 .. Len(queue') /\ Len(queue) + 1 > Len(queue)
      BY <1>0, <2>1
    <3> QED
      BY <1>0, <2>1, <3>1, <3>2, PutAsks
  <2>2. CASE unsent' = unsent \cup {o}
    BY <2>2 DEF AskedAt
  <2> QED
    BY <2>1, <2>2 DEF CaptureStep
<1>2. ASSUME NEW q \in Sources, q # o
      PROVE  src'[q].life = "live" => AskedAt(q)'
  <2>1. src'[q] = src[q] /\ (q \in unserved => q \in unserved') /\ (q \in unsent => q \in unsent')
    BY <1>2 DEF CaptureStep
  <2>2. SameAsked(src[q], src'[q])
    BY <2>1 DEF SameAsked
  <2> QED
    BY <1>0, <2>1, <2>2, AskedKept DEF Asked
<1>3. Served'
  BY <1>0, ServedKept DEF Asked
<1> QED
  BY <1>1, <1>2, <1>3 DEF Asked

LEMMA PutsKeepAsked ==
  ASSUME Base, Asked, NEW S, PutsStep(S), UNCHANGED <<inbox, unserved, record>>
  PROVE  Asked'
<1>1. QueueGrows /\ src' = src /\ unsent' = unsent \ S /\ src \in [Sources -> Source]
  BY DEF PutsStep, Base, Typed, TypeOK
<1>2. ASSUME NEW o \in Sources, o \in S
      PROVE  AskedAt(o)'
  <2>1. PICK j \in 1 .. Len(queue') : j > Len(queue) /\ queue'[j].of = o /\ Registers(queue'[j])
    BY <1>2 DEF PutsStep
  <2> QED
    BY <1>1, <2>1, PutAsks
<1>3. ASSUME NEW o \in Sources, o \notin S
      PROVE  src'[o].life = "live" => AskedAt(o)'
  <2>1. SameAsked(src[o], src'[o]) /\ src'[o] \in Source
    BY <1>1 DEF SameAsked
  <2>2. (o \in unserved => o \in unserved') /\ (o \in unsent => o \in unsent')
    BY <1>1, <1>3
  <2> QED
    BY <1>1, <2>1, <2>2, AskedKept DEF Asked
<1>4. Served'
  BY <1>1, ServedKept DEF Asked
<1> QED
  BY <1>2, <1>3, <1>4 DEF Asked

\* Only the request on the wire, which is pending, gives a source another connection.
LEMMA ServerKeepsAsked ==
  ASSUME Base, Asked, NEW o, NEW c, ServerStep(o, c)
  PROVE  Asked'
<1>0. /\ o \in Sources /\ c \in Connections /\ inbox \in Seq(Messages) /\ queue \in Seq(Requests)
      /\ DOMAIN inbox = 1 .. Len(inbox) /\ DOMAIN inbox' = 1 .. Len(inbox') /\ Len(inbox) \in Nat
      /\ Len(inbox') \in Nat
      /\ UNCHANGED <<src, queue, unserved, unsent>> /\ Wire
      /\ record'[o] = c /\ \A q \in Sources : q # o => record'[q] = record[q]
      /\ src \in [Sources -> Source]
  BY DEF ServerStep, Base, Typed, TypeOK
<1>1. ASSUME NEW i \in DOMAIN inbox', IsAnswer(inbox'[i])
      PROVE  (i \in DOMAIN inbox /\ inbox'[i] = inbox[i]) \/ Answers1(o, c, inbox'[i])
  <2>1. \A k \in 1 .. Len(inbox) : inbox'[k] = inbox[k]
    BY DEF ServerStep
  <2>2. CASE i \in DOMAIN inbox
    BY <1>0, <2>1, <2>2
  <2>3. CASE i \notin DOMAIN inbox
    <3>1. i \in 1 .. Len(inbox') /\ i > Len(inbox)
      BY <1>0, <2>3
    <3>2. ~ IsAnswer(Push(o, c))
      BY <1>0, PushTypes
    <3> QED
      BY <1>1, <3>1, <3>2 DEF ServerStep
  <2> QED
    BY <2>2, <2>3
<1>2. \/ c = record[o] \/ c = NoConnection
      \/ (c.port = record[o].port /\ record[o] # NoConnection)
      \/ /\ queue # <<>> /\ queue[1].of = o /\ queue[1].kind = "PUT"
         /\ \A i \in DOMAIN inbox : ~ IsAnswer(inbox[i])
  <2>1. c.key = record[o].key /\ c # NoConnection => record[o] # NoConnection
    BY <1>0, ConnectionTypes
  <2>2. Successor(o, c)
    BY DEF ServerStep
  <2> QED
    BY <2>1, <2>2 DEF Successor
<1>3. ASSUME NEW i \in DOMAIN inbox', IsAnswer(inbox'[i]) /\ inbox'[i].ok /\ Registers(queue'[1])
      PROVE  \/ record'[inbox'[i].of] = NoConnection
             \/ queue'[1].kind = "PUT" /\ record'[inbox'[i].of].port = queue'[1].port
  <2>1. CASE i \in DOMAIN inbox /\ inbox'[i] = inbox[i]
    <3>1. \/ record[inbox[i].of] = NoConnection
          \/ queue[1].kind = "PUT" /\ record[inbox[i].of].port = queue[1].port
      BY <1>0, <1>3, <2>1 DEF Asked, Served
    <3>2. inbox[i].of \in Sources
      BY <1>0, <2>1, MessageTypes
    <3> QED
      BY <1>0, <1>2, <1>3, <2>1, <3>1, <3>2
  <2>2. CASE Answers1(o, c, inbox'[i])
    <3>1. queue[1].kind \in {"PUT", "STATUS", "DELETE"}
      <4>1. queue[1] \in Requests
        BY <1>0, <2>2 DEF Answers1
      <4> QED
        BY <4>1 DEF Requests
    <3> QED
      BY <1>0, <1>3, <2>2, <3>1 DEF Answers1, Registers
  <2> QED
    BY <1>1, <1>3, <2>1, <2>2
<1>4. ASSUME NEW q \in Sources, src'[q].life = "live"
      PROVE  AskedAt(q)'
  <2>1. AskedAt(q)
    BY <1>0, <1>4 DEF Asked
  <2>2. CASE record'[q] = record[q]
    BY <1>0, <2>1, <2>2 DEF AskedAt, Pending, LastPut
  <2>3. CASE record'[q] # record[q]
    <3>1. q = o
      BY <1>0, <2>3
    <3>2. ~ Pending(o) => c = NoConnection \/ (c.port = record[o].port /\ record[o] # NoConnection)
      <4> SUFFICES ASSUME ~ Pending(o), queue # <<>>, queue[1].of = o, queue[1].kind = "PUT" PROVE FALSE
        BY <1>0, <1>2, <2>3, <3>1
      <4>1. 1 \in DOMAIN queue
        BY <1>0, EmptySeq
      <4> QED
        BY <4>1 DEF Pending
    <3>3. o \notin unsent => \A i \in DOMAIN queue : LastPut(i, o) => Expected(queue[i], src[o])
      BY <2>1, <3>1 DEF AskedAt
    <3>4. ~ Pending(o) /\ o \notin unserved \cup unsent =>
            c = NoConnection \/ (Registrable(src[o]) /\ c.port = src[o].port)
      BY <2>1, <3>1, <3>2 DEF AskedAt
    <3> QED
      BY <1>0, <3>1, <3>3, <3>4 DEF AskedAt, Pending, LastPut
  <2> QED
    BY <2>2, <2>3
<1>5. Served'
  BY <1>3 DEF Served
<1> QED
  BY <1>4, <1>5 DEF Asked

\* A message arrives.
LEMMA MessageKeepsAsked ==
  ASSUME Base, Asked, MessageStep(1)
  PROVE  Asked'
<1> DEFINE m == inbox[1]
<1>0. PICK o \in Sources : o = m.of
  BY MessageFields
<1>1. /\ src[o] \in Source /\ src'[o] \in Source /\ src'[o].life = src[o].life /\ SameAsked(src[o], src'[o])
  BY <1>0, MessageFields DEF SameAsked
<1>2. /\ \A q \in Sources : q # o => src'[q] = src[q]
      /\ unsent' = unsent /\ record' = record /\ src' \in [Sources -> Source]
  BY <1>0 DEF MessageStep, hist
<1>3. \A q \in Sources : src'[q].life = src[q].life /\ SameAsked(src[q], src'[q]) /\ src'[q] \in Source
  BY <1>1, <1>2 DEF SameAsked
<1>4. /\ DOMAIN inbox = 1 .. Len(inbox) /\ DOMAIN inbox' = 1 .. Len(inbox') /\ 1 \in DOMAIN inbox
      /\ \A j \in DOMAIN inbox' : j + 1 \in DOMAIN inbox /\ inbox'[j] = inbox[j + 1] /\ j + 1 > 1
  BY MessagesMoveOn, Zenon
<1>5. queue \in Seq(Requests) /\ Wire
  BY DEF Base, Typed, TypeOK
<1>6. CASE ~ IsAnswer(m) /\ UNCHANGED <<queue, hist>>
  <2>1. ASSUME NEW q \in Sources
        PROVE  src'[q].life = "live" => AskedAt(q)'
    BY <1>2, <1>3, <1>6, AskedKept DEF Asked, hist
  <2>2. Served'
    BY <1>2, <1>4, <1>6 DEF Asked, Served
  <2> QED
    BY <2>1, <2>2 DEF Asked
<1>7. CASE /\ IsAnswer(m) /\ QueueAdvances /\ queue[1].of = o
           /\ unserved' = IF queue[1].kind = "STATUS" THEN unserved
                          ELSE IF m.ok THEN unserved \ {o} ELSE unserved \cup {o}
  <2>1. \A i \in DOMAIN inbox' : ~ IsAnswer(inbox'[i])
    <3> SUFFICES ASSUME NEW i \in DOMAIN inbox', IsAnswer(inbox'[i]) PROVE FALSE
      OBVIOUS
    <3>1. i + 1 \in DOMAIN inbox /\ IsAnswer(inbox[i + 1]) /\ i + 1 # 1
      BY <1>4
    <3> QED
      BY <1>4, <1>5, <1>7, <3>1 DEF Wire
  <2>2. /\ DOMAIN queue = 1 .. Len(queue) /\ DOMAIN queue' = 1 .. Len(queue') /\ Len(queue) \in Nat
        /\ Len(queue') = Len(queue) - 1 /\ \A i \in 1 .. Len(queue') : queue'[i] = queue[i + 1]
        /\ queue # <<>> /\ 1 \in DOMAIN queue
    BY <1>5, <1>7, LenProperties, EmptySeq DEF QueueAdvances
  <2>3. ASSUME NEW q \in Sources, NEW i \in DOMAIN queue', LastPut(i, q)'
        PROVE  LastPut(i + 1, q) /\ i + 1 \in DOMAIN queue /\ queue'[i] = queue[i + 1]
    <3>1. /\ queue'[i].of = q /\ Registers(queue'[i])
          /\ \A j \in DOMAIN queue' : j > i => ~ (queue'[j].of = q /\ Registers(queue'[j]))
      BY <2>3 DEF LastPut
    <3>2. i + 1 \in DOMAIN queue /\ queue'[i] = queue[i + 1]
      BY <2>2
    <3>3. ASSUME NEW j \in DOMAIN queue, j > i + 1
          PROVE  ~ (queue[j].of = q /\ Registers(queue[j]))
      <4>1. j - 1 \in DOMAIN queue' /\ j - 1 > i /\ (j - 1) + 1 = j
        BY <2>2, <3>3
      <4>2. queue'[j - 1] = queue[(j - 1) + 1]
        BY <2>2, <4>1
      <4> QED
        BY <3>1, <4>1, <4>2
    <3> QED
      BY <3>1, <3>2, <3>3 DEF LastPut
  <2>4. ASSUME NEW q \in Sources, src[q].life = "live", ~ Pending(q)', q \notin unserved' \cup unsent'
        PROVE  record[q] = NoConnection \/ (Registrable(src[q]) /\ record[q].port = src[q].port)
    <3>1. AskedAt(q)
      BY <2>4 DEF Asked
    <3>2. CASE queue[1].of = q /\ Registers(queue[1])
      <4>1. q = o /\ m.ok
        BY <1>1, <1>7, <2>4, <3>2 DEF Registers
      <4>2. LastPut(1, q)
        <5> SUFFICES ASSUME NEW j \in DOMAIN queue, j > 1, queue[j].of = q, Registers(queue[j]) PROVE FALSE
          BY <3>2 DEF LastPut
        <5>1. j \in 2 .. Len(queue)
          BY <2>2
        <5>2. Later(q)
          BY <5>1 DEF Later
        <5> QED
          BY <1>5, <1>7, <2>4, <5>2, AdvanceKeepsPending
      <4>3. Expected(queue[1], src[q])
        BY <1>2, <2>2, <2>4, <3>1, <4>2 DEF AskedAt
      <4>4. record[q] = NoConnection \/ (queue[1].kind = "PUT" /\ record[q].port = queue[1].port)
        BY <1>0, <1>4, <1>7, <3>2, <4>1 DEF Asked, Served
      <4> QED
        BY <4>3, <4>4 DEF Expected
    <3>3. CASE ~ (queue[1].of = q /\ Registers(queue[1]))
      <4>1. ~ Pending(q)
        BY <1>5, <1>7, <2>4, <3>3, AdvanceKeepsPending
      <4>2. q \notin unserved
        BY <1>7, <2>4, <3>3 DEF Registers
      <4> QED
        BY <1>2, <2>4, <3>1, <4>1, <4>2 DEF AskedAt
    <3> QED
      BY <3>2, <3>3
  <2>5. ASSUME NEW q \in Sources, src'[q].life = "live"
        PROVE  AskedAt(q)'
    <3>1. src[q].life = "live" /\ AskedAt(q)
      BY <1>3, <2>5 DEF Asked
    <3>2. \A r : Expected(r, src'[q]) <=> Expected(r, src[q])
      BY <1>3, SameAskedExpected
    <3>3. Registrable(src'[q]) <=> Registrable(src[q])
      BY <1>3, SameAskedExpected
    <3>4. src'[q].port = src[q].port
      BY <1>3 DEF SameAsked
    <3>5. q \notin unsent' => \A i \in DOMAIN queue' : LastPut(i, q)' => Expected(queue'[i], src'[q])
      BY <1>2, <2>3, <3>1, <3>2 DEF AskedAt
    <3>6. ~ Pending(q)' /\ q \notin unserved' \cup unsent' =>
            record'[q] = NoConnection \/ (Registrable(src'[q]) /\ record'[q].port = src'[q].port)
      BY <1>2, <2>4, <3>1, <3>3, <3>4
    <3> QED
      BY <3>5, <3>6 DEF AskedAt
  <2>6. Served'
    BY <2>1 DEF Served
  <2> QED
    BY <2>5, <2>6 DEF Asked
<1> QED
  BY <1>0, <1>6, <1>7 DEF MessageStep

LEMMA StepKeepsAsked ==
  ASSUME Ordered, Base, Asked, [Next]_vars
  PROVE  Asked'
<1>0. Typed /\ TypeOK /\ src \in [Sources -> Source] /\ StepShape
  BY StepHasShape DEF Base, Typed, TypeOK
<1>1. ASSUME \A o \in Sources : /\ src'[o].life = "live" => src[o].life = "live"
                                /\ src'[o].life = "live" => SameAsked(src[o], src'[o])
                                /\ src'[o] \in Source,
             QueueGrows \/ UNCHANGED queue, unserved' = unserved, unsent' = unsent, record' = record,
             inbox' = inbox \/ inbox' = Answers(inbox)
      PROVE  Asked'
  <2>1. Served'
    BY <1>1, ServedKept DEF Asked
  <2>2. ASSUME NEW o \in Sources, src'[o].life = "live"
        PROVE  AskedAt(o)'
    BY <1>1, <2>2, AskedKept DEF Asked
  <2> QED
    BY <2>1, <2>2 DEF Asked
<1>2. \A o \in Sources : SameAsked(src[o], src[o]) /\ src[o] \in Source
  BY <1>0 DEF SameAsked
<1>3. ASSUME NEW o \in Sources, CaptureStep(o) PROVE Asked'
  BY <1>3, CaptureKeepsAsked
<1>4. ASSUME NEW o \in Sources, DestroyCallback(o) \/ Destroy(o) PROVE Asked'
  <2>1. /\ \A q \in Sources : q # o => src'[q] = src[q]
        /\ src'[o].life \in {"leaving", "gone"} /\ src' \in [Sources -> Source]
        /\ UNCHANGED <<queue, inbox, unserved, unsent, record>>
    BY <1>0, <1>4, DestroyFields DEF hist, srv
  <2>2. \A q \in Sources : /\ src'[q].life = "live" => src[q].life = "live"
                           /\ src'[q].life = "live" => SameAsked(src[q], src'[q])
                           /\ src'[q] \in Source
    BY <1>2, <2>1
  <2> QED
    BY <1>1, <2>1, <2>2
<1>5. ASSUME NEW o \in Sources, ParallelAnswered(o) PROVE Asked'
  <2>1. UNCHANGED <<src, queue, inbox, unserved, unsent, record>>
    BY <1>5 DEF ParallelAnswered, hist, Subscribers, srv
  <2> QED
    BY <1>1, <1>2, <2>1
<1>6. CASE LogoutSucceeded
  <2>1. \A q \in Sources : /\ src'[q].life = src[q].life /\ SameAsked(src[q], src'[q])
                           /\ src'[q] \in Source
    BY <1>0, <1>6, LogoutFields DEF SameAsked
  <2> QED
    BY <1>1, <1>6, <2>1 DEF LogoutSucceeded
<1>7. ASSUME NEW i, MessageStep(i) PROVE Asked'
  <2>1. i = 1
    BY <1>7 DEF MessageStep
  <2> QED
    BY <1>7, <2>1, MessageKeepsAsked
<1>8. CASE Disconnected
  BY <1>1, <1>2, <1>8 DEF Disconnected
<1>9. CASE WebSocketReady
  <2>1. QueueGrows \/ UNCHANGED queue
    BY <1>0, <1>9, WebSocketReadyTakesStep
  <2> QED
    BY <1>1, <1>2, <1>9, <2>1 DEF WebSocketReady, hist
<1>10. ASSUME NEW S, PutsStep(S),
             UNCHANGED <<src, downlinks, record, subs, token, parallel, inbox, up, again, unserved, unheard>>
      PROVE Asked'
  BY <1>10, PutsKeepAsked
<1>11. ASSUME NEW o, NEW c, ServerStep(o, c) PROVE Asked'
  BY <1>11, ServerKeepsAsked
<1>12. CASE Quiet
  BY <1>1, <1>2, <1>12 DEF Quiet
<1> QED
  BY Zenon, <1>0, <1>3, <1>4, <1>5, <1>6, <1>7, <1>8, <1>9, <1>10, <1>11, <1>12 DEF StepShape

LEMMA InitAsked == Init => Asked
<1> SUFFICES ASSUME Init PROVE Asked
  OBVIOUS
<1>1. \A o \in Sources : src[o].life = "new"
  BY NewSourceType DEF Init
<1>2. DOMAIN inbox = {}
  BY DEF Init
<1> QED
  BY <1>1, <1>2 DEF Asked, Served

-----------------------------------------------------------------------------
\* Nobody has heard of a source that is still to be created.

Fresh == \A o \in Sources : src[o].life = "new" =>
  /\ record[o] = NoConnection /\ o \notin downlinks
  /\ \A i \in DOMAIN inbox : inbox[i].of # o
  /\ \A i \in DOMAIN queue : queue[i].of # o

LEMMA ServerKeepsFresh ==
  ASSUME Base, Fresh, NEW o, NEW c, ServerStep(o, c)
  PROVE  Fresh'
<1>0. /\ o \in Sources /\ c \in Connections /\ record \in [Sources -> Connections]
      /\ DOMAIN inbox = 1 .. Len(inbox) /\ DOMAIN inbox' = 1 .. Len(inbox') /\ Len(inbox) \in Nat
      /\ Len(inbox') \in Nat /\ queue \in Seq(Requests)
      /\ UNCHANGED <<src, queue, downlinks>>
      /\ record'[o] = c /\ \A q \in Sources : q # o => record'[q] = record[q]
      /\ \A i \in 1 .. Len(inbox) : inbox'[i] = inbox[i]
  BY DEF ServerStep, Base, Typed, TypeOK
<1>1. ASSUME src[o].life = "new"
      PROVE  c = record[o] /\ ~ (queue # <<>> /\ queue[1].of = o)
  <2>1. ~ (queue # <<>> /\ queue[1].of = o)
    <3> SUFFICES ASSUME queue # <<>>, queue[1].of = o PROVE FALSE
      OBVIOUS
    <3>1. 1 \in DOMAIN queue
      BY <1>0, EmptySeq
    <3> QED
      BY <1>0, <1>1, <3>1 DEF Fresh
  <2>2. record[o] = NoConnection
    BY <1>0, <1>1 DEF Fresh
  <2>3. c # NoConnection => c.key # record[o].key
    BY <1>0, <2>2, ConnectionTypes
  <2>4. Successor(o, c)
    BY DEF ServerStep
  <2> QED
    BY <2>1, <2>2, <2>3, <2>4 DEF Successor
<1>2. ASSUME NEW i \in DOMAIN inbox', i \notin DOMAIN inbox
      PROVE  inbox'[i].of = o /\ src[o].life # "new"
  <2>0. i \in 1 .. Len(inbox') /\ i > Len(inbox)
    BY <1>0, <1>2
  <2>1. \/ inbox'[i] = Push(o, c) /\ c # record[o]
        \/ Answers1(o, c, inbox'[i])
    BY <2>0, Zenon DEF ServerStep
  <2>2. Push(o, c).of = o
    BY <1>0, PushTypes
  <2> QED
    BY <1>1, <2>1, <2>2 DEF Answers1
<1> QED
  BY <1>0, <1>1, <1>2 DEF Fresh

LEMMA StepKeepsFresh ==
  ASSUME Base, Known, Fresh, [Next]_vars
  PROVE  Fresh'
<1>0. /\ Typed /\ TypeOK /\ StepShape /\ inbox \in Seq(Messages) /\ queue \in Seq(Requests)
      /\ DOMAIN queue = 1 .. Len(queue) /\ Len(queue) \in Nat /\ downlinks \in SUBSET Sources
  BY StepHasShape, LenProperties DEF Base, Typed, TypeOK
<1>1. ASSUME \A o \in Sources : src'[o].life = "new" =>
               /\ src[o].life = "new"
               /\ o \in downlinks' => o \in downlinks
               /\ \A i \in DOMAIN queue' : queue'[i].of = o => \E j \in DOMAIN queue : queue[j].of = o,
             record' = record,
             \A i \in DOMAIN inbox' : \E j \in DOMAIN inbox : inbox'[i] = inbox[j]
      PROVE  Fresh'
  BY <1>1 DEF Fresh
<1>2. ASSUME QueueGrows, NEW i \in DOMAIN queue'
      PROVE  (i > Len(queue) /\ i \in 1 .. Len(queue')) \/ (i \in DOMAIN queue /\ queue'[i] = queue[i])
  <2>1. DOMAIN queue' = 1 .. Len(queue')
    BY <1>2, LenProperties DEF QueueGrows
  <2>2. i \in 1 .. Len(queue') /\ (i > Len(queue) \/ i \in 1 .. Len(queue))
    BY <1>0, <2>1
  <2> QED
    BY <1>0, <1>2, <2>2 DEF QueueGrows
<1>3. ASSUME NEW o \in Sources, CaptureStep(o) PROVE Fresh'
  <2>1. /\ src'[o].life # "new" /\ \A q \in Sources : q # o => src'[q] = src[q]
        /\ UNCHANGED <<downlinks, record, inbox>>
    BY <1>3 DEF CaptureStep, srv
  <2>2. ASSUME NEW i \in DOMAIN queue', queue'[i].of # o
        PROVE  i \in DOMAIN queue /\ queue[i] = queue'[i]
    <3>1. CASE UNCHANGED queue
      BY <3>1
    <3>2. CASE QueueGrows /\ Len(queue') = Len(queue) + 1
               /\ queue'[Len(queue) + 1] = ConnectionRequest(o, src'[o])
      <4>1. queue'[Len(queue) + 1].of = o
        BY <3>2 DEF ConnectionRequest
      <4>2. i > Len(queue) /\ i \in 1 .. Len(queue') => i = Len(queue) + 1
        BY <1>0, <3>2
      <4> QED
        BY <1>2, <2>2, <3>2, <4>1, <4>2
    <3> QED
      BY <1>3, <3>1, <3>2 DEF CaptureStep
  <2> QED
    BY <1>1, <2>1, <2>2
<1>4. ASSUME NEW S \in SUBSET Unconnected, PutsStep(S),
             UNCHANGED <<src, downlinks, record, subs, token, parallel, inbox, up, again, unserved, unheard>>
      PROVE Fresh'
  <2>1. \A o \in S : src[o].life # "new"
    BY DEF Unconnected, Present
  <2>2. ASSUME NEW i \in DOMAIN queue', queue'[i].of \notin S
        PROVE  i \in DOMAIN queue /\ queue[i] = queue'[i]
    BY <1>2, <1>4, <2>2 DEF PutsStep
  <2> QED
    BY <1>1, <1>4, <2>1, <2>2
<1>5. ASSUME NEW o \in Sources, DestroyCallback(o) \/ Destroy(o) PROVE Fresh'
  <2>1. /\ \A q \in Sources : q # o => src'[q] = src[q]
        /\ src'[o].life # "new" /\ UNCHANGED <<downlinks, queue, inbox, record>>
    BY <1>0, <1>5, DestroyFields DEF srv
  <2> QED
    BY <1>1, <2>1
<1>6. ASSUME NEW o \in Sources, ParallelAnswered(o) PROVE Fresh'
  <2>1. /\ \A q \in downlinks' : q \in downlinks
        /\ UNCHANGED <<src, queue, inbox, record>>
    BY <1>6 DEF ParallelAnswered, Subscribers, srv
  <2> QED
    BY <1>1, <2>1
<1>7. ASSUME NEW o, NEW c, ServerStep(o, c) PROVE Fresh'
  BY <1>7, ServerKeepsFresh
<1>8. CASE Quiet
  BY <1>1, <1>8 DEF Quiet
<1>9. CASE LogoutSucceeded
  <2>1. /\ \A o \in Sources : src'[o].life = src[o].life
        /\ \A i \in DOMAIN inbox' : \E j \in DOMAIN inbox : inbox'[i] = inbox[j]
        /\ downlinks' = {} /\ UNCHANGED <<queue, record>>
    BY <1>0, <1>9, LogoutFields, AnswersFields DEF LogoutSucceeded
  <2> QED
    BY <1>1, <2>1
<1>10. CASE Disconnected
  <2>1. /\ \A i \in DOMAIN inbox' : \E j \in DOMAIN inbox : inbox'[i] = inbox[j]
        /\ UNCHANGED <<src, downlinks, queue, record>>
    BY <1>0, <1>10, AnswersFields DEF Disconnected, api
  <2> QED
    BY <1>1, <2>1
<1>11. CASE WebSocketReady
  <2>1. /\ UNCHANGED <<src, downlinks, record, inbox>>
        /\ \/ UNCHANGED queue
           \/ QueueGrows /\ \A j \in 1 .. Len(queue') : j > Len(queue) => queue'[j].of \in downlinks
    BY <1>0, <1>11, WebSocketReadyTakesStep
  <2>2. ASSUME NEW i \in DOMAIN queue', queue'[i].of \notin downlinks
        PROVE  i \in DOMAIN queue /\ queue[i] = queue'[i]
    BY <1>2, <2>1, <2>2
  <2>3. \A o \in downlinks : src[o].life # "new"
    BY <1>0 DEF Fresh
  <2> QED
    BY <1>1, <2>1, <2>2, <2>3
<1>12. ASSUME NEW i \in DOMAIN inbox, MessageStep(i) PROVE Fresh'
  <2>1. PICK o \in Sources : o = inbox[i].of
    BY <1>12, MessageFields
  <2>2. /\ \A q \in Sources : q # o => src'[q] = src[q]
        /\ src'[o].life = src[o].life /\ src[o].life # "new" /\ record' = record
    BY <1>12, <2>1, MessageFields DEF MessageStep, Fresh
  <2>3. \A q \in Sources : q # o /\ q \in downlinks' => q \in downlinks
    BY <1>12, <2>1 DEF MessageStep, Ready, RemovedBy, FailedBy, IgnoredAfter
  <2>4. ASSUME NEW j \in DOMAIN inbox'
        PROVE  \E k \in DOMAIN inbox : inbox'[j] = inbox[k]
    <3>1. j \in 1 .. Len(inbox) - 1 /\ Len(inbox) \in Nat /\ DOMAIN inbox = 1 .. Len(inbox)
      BY <1>0, <1>12 DEF MessageStep
    <3>2. j \in DOMAIN inbox /\ j + 1 \in DOMAIN inbox
      BY <3>1
    <3>3. inbox'[j] = inbox[j] \/ inbox'[j] = inbox[j + 1]
      BY <1>12, <3>1 DEF MessageStep
    <3> QED
      BY <3>2, <3>3
  <2>5. ASSUME NEW j \in DOMAIN queue'
        PROVE  \E k \in DOMAIN queue : queue'[j] = queue[k]
    <3>1. CASE UNCHANGED queue
      BY <3>1
    <3>2. CASE QueueAdvances
      <4>1. DOMAIN queue' = 1 .. Len(queue')
        BY <3>2, LenProperties DEF QueueAdvances
      <4> QED
        BY <1>0, <3>2, <4>1 DEF QueueAdvances
    <3> QED
      BY <1>12, <3>1, <3>2 DEF MessageStep
  <2> QED
    BY <1>1, <2>2, <2>3, <2>4, <2>5
<1> QED
  BY Zenon, <1>0, <1>3, <1>4, <1>5, <1>6, <1>7, <1>8, <1>9, <1>10, <1>11, <1>12 DEF StepShape

LEMMA InitFresh == Init => Fresh
BY DEF Init, Fresh

-----------------------------------------------------------------------------
\* What the last message about a source says is what the server keeps.

Flag == up => again
Silent(o) == \A i \in DOMAIN inbox : inbox[i].of # o
LastOf(i, o) == inbox[i].of = o /\ \A j \in DOMAIN inbox : j > i => inbox[j].of # o
Good(o) == \A i \in DOMAIN inbox : inbox[i].of = o /\ IsAnswer(inbox[i]) => inbox[i].ok

Heard(o) ==
  /\ Silent(o) => src[o].connection = record[o]
  /\ \A i \in DOMAIN inbox : LastOf(i, o) => inbox[i].con = record[o]
\* Its answer is still to come.
Waiting(o) ==
  \E i \in DOMAIN queue : queue[i].of = o /\ (i = 1 => \A k \in DOMAIN inbox : ~ IsAnswer(inbox[k]))
\* It will be asked for with the next login, or when the websocket is ready again.
Lost(o) ==
  /\ Silent(o)
  /\ \/ ~ linked /\ src[o].connection = NoConnection
     \/ ~ up /\ again /\ o \in downlinks
HeardAt(o) == Good(o) /\ o \notin unheard => Heard(o) \/ Waiting(o) \/ Lost(o)
Hears == \A o \in Sources : src[o].life = "live" => HeardAt(o)

LEMMA GrownQueueWaits ==
  ASSUME Base, QueueGrows \/ UNCHANGED queue, inbox' = inbox, NEW o, Waiting(o)
  PROVE  Waiting(o)'
<1>1. PICK i \in DOMAIN queue : queue[i].of = o /\ (i = 1 => \A k \in DOMAIN inbox : ~ IsAnswer(inbox[k]))
  BY DEF Waiting
<1>2. DOMAIN queue = 1 .. Len(queue) /\ queue \in Seq(Requests)
  BY DEF Base, Typed, TypeOK
<1>3. i \in DOMAIN queue' /\ queue'[i] = queue[i]
  <2>1. CASE QueueGrows
    <3>1. DOMAIN queue' = 1 .. Len(queue')
      BY <2>1, LenProperties DEF QueueGrows
    <3> QED
      BY <1>2, <2>1, <3>1 DEF QueueGrows
  <2> QED
    BY <2>1
<1> QED
  BY <1>1, <1>3 DEF Waiting

\* Nothing is heard of o.
LEMMA HeardKept ==
  ASSUME Base, NEW o \in Sources, HeardAt(o), src'[o].connection = src[o].connection,
         record'[o] = record[o], inbox' = inbox, QueueGrows \/ UNCHANGED queue,
         o \in unheard => o \in unheard', Lost(o) => Lost(o)' \/ Waiting(o)'
  PROVE  HeardAt(o)'
<1>1. Waiting(o) => Waiting(o)'
  BY GrownQueueWaits
<1>2. Good(o)' => Good(o)
  BY DEF Good
<1>3. Heard(o) => Heard(o)'
  BY DEF Heard, Silent, LastOf
<1> QED
  BY <1>1, <1>2, <1>3 DEF HeardAt

\* A request that is put in the queue waits.
LEMMA PutWaits ==
  ASSUME Base, NEW o, QueueGrows, inbox' = inbox,
         NEW j \in 1 .. Len(queue'), j > Len(queue), queue'[j].of = o
  PROVE  Waiting(o)'
<1>1. /\ DOMAIN queue' = 1 .. Len(queue') /\ Len(queue) \in Nat /\ queue \in Seq(Requests)
  BY LenProperties DEF QueueGrows, Base, Typed, TypeOK
<1>2. ASSUME j = 1, NEW k \in DOMAIN inbox', IsAnswer(inbox'[k])
      PROVE  FALSE
  <2>1. queue # <<>>
    BY <1>2 DEF Base, Wire
  <2>2. Len(queue) # 0
    BY <1>1, <2>1, EmptySeq
  <2> QED
    BY <1>1, <1>2, <2>2
<1> QED
  BY <1>1, <1>2 DEF Waiting

LEMMA CaptureKeepsHears ==
  ASSUME Base, Fresh, Hears, NEW o \in Sources, CaptureStep(o)
  PROVE  Hears'
<1>0. /\ QueueGrows \/ UNCHANGED queue
      /\ UNCHANGED <<downlinks, linked, record, inbox, up, again, unheard>>
      /\ \A q \in Sources : src'[q].connection = src[q].connection
      /\ \A q \in Sources : q # o => src'[q] = src[q]
      /\ src'[o].life = IF src[o].life = "new" THEN "live" ELSE src[o].life
      /\ Len(queue) \in Nat
  BY LenProperties DEF CaptureStep, srv, Base, Typed, TypeOK
<1>1. ASSUME NEW q \in Sources, src[q].life = "live"
      PROVE  HeardAt(q)'
  <2>1. Lost(q) => Lost(q)'
    BY <1>0 DEF Lost, Silent
  <2>2. HeardAt(q)
    BY <1>1 DEF Hears
  <2> QED
    BY <1>0, <2>1, <2>2, HeardKept
<1>2. CASE src[o].life = "new"
  <2>1. CASE linked /\ QueueGrows /\ Len(queue') = Len(queue) + 1
             /\ queue'[Len(queue) + 1] = ConnectionRequest(o, src'[o])
    <3>1. queue'[Len(queue) + 1].of = o
      BY <2>1 DEF ConnectionRequest
    <3>2. Len(queue) + 1 \in 1 .. Len(queue') /\ Len(queue) + 1 > Len(queue)
      BY <1>0, <2>1
    <3>3. Waiting(o)'
      BY <1>0, <2>1, <3>1, <3>2, PutWaits
    <3> QED
      BY <1>0, <1>1, <3>3 DEF Hears, HeardAt
  <2>2. CASE ~ linked
    <3>1. Silent(o)
      BY <1>2 DEF Fresh, Silent
    <3>2. src[o].connection = NoConnection
      BY <1>2, NewSourceType DEF Base, Typed, NewSource
    <3>3. Lost(o)'
      BY <1>0, <2>2, <3>1, <3>2 DEF Lost, Silent
    <3> QED
      BY <1>0, <1>1, <3>3 DEF Hears, HeardAt
  <2> QED
    BY <2>1, <2>2 DEF CaptureStep
<1>3. CASE src[o].life # "new"
  BY <1>0, <1>1, <1>3 DEF Hears
<1> QED
  BY <1>2, <1>3

LEMMA PutsKeepHears ==
  ASSUME Base, Hears, NEW S \in SUBSET Unconnected, PutsStep(S), linked' = TRUE, linked \/ S = Unconnected,
         UNCHANGED <<src, downlinks, record, subs, token, parallel, inbox, up, again, unserved, unheard>>
  PROVE  Hears'
<1>1. ASSUME NEW o \in Sources, o \in S
      PROVE  HeardAt(o)'
  <2>1. PICK j \in 1 .. Len(queue') : j > Len(queue) /\ queue'[j].of = o
    BY <1>1 DEF PutsStep
  <2>2. Waiting(o)'
    BY <2>1, PutWaits DEF PutsStep
  <2> QED
    BY <2>2 DEF HeardAt
<1>2. ASSUME NEW o \in Sources, o \notin S, src[o].life = "live"
      PROVE  HeardAt(o)'
  <2>1. ~ linked => src[o].connection # NoConnection
    BY <1>2 DEF Unconnected, Present
  <2>2. Lost(o) => Lost(o)'
    BY <2>1 DEF Lost, Silent
  <2>3. HeardAt(o)
    BY <1>2 DEF Hears
  <2> QED
    BY <2>2, <2>3, HeardKept DEF PutsStep
<1> QED
  BY <1>1, <1>2 DEF Hears

\* What the websocket does not tell, it asks for when it is ready again.
LEMMA WebSocketReadyKeepsHears ==
  ASSUME Base, Hears, WebSocketReady
  PROVE  Hears'
<1>1. /\ linked /\ ~ up
      /\ \/ UNCHANGED queue /\ ~ again
         \/ /\ QueueGrows
            /\ \A o \in downlinks : \E j \in 1 .. Len(queue') : j > Len(queue) /\ queue'[j].of = o
      /\ UNCHANGED <<src, downlinks, linked, record, inbox, unheard>>
  BY WebSocketReadyTakesStep DEF Base
<1>2. ASSUME NEW o \in Sources, src[o].life = "live"
      PROVE  HeardAt(o)'
  <2>1. Lost(o) => Waiting(o)'
    <3> SUFFICES ASSUME Lost(o) PROVE Waiting(o)'
      OBVIOUS
    <3>1. again /\ o \in downlinks
      BY <1>1 DEF Lost
    <3>2. QueueGrows
      BY <1>1, <3>1
    <3>3. PICK j \in 1 .. Len(queue') : j > Len(queue) /\ queue'[j].of = o
      BY <1>1, <3>1
    <3> QED
      BY <1>1, <3>2, <3>3, PutWaits
  <2>2. HeardAt(o)
    BY <1>2 DEF Hears
  <2> QED
    BY <1>1, <2>1, <2>2, HeardKept
<1> QED
  BY <1>1, <1>2 DEF Hears

LEMMA LogoutKeepsHears ==
  ASSUME Base, LogoutSucceeded
  PROVE  Hears'
<1>0. inbox \in Seq(Messages) /\ DOMAIN inbox = 1 .. Len(inbox)
  BY DEF Base, Typed, TypeOK
<1>1. \A i \in DOMAIN inbox' : \E j \in DOMAIN inbox : inbox'[i] = inbox[j]
  BY <1>0, AnswersFields DEF LogoutSucceeded
<1>2. \A j \in DOMAIN inbox : inbox[j].of \in unheard'
  BY DEF LogoutSucceeded, ToSet
<1>3. ASSUME NEW o \in Sources, src'[o].life = "live", o \notin unheard'
      PROVE  Lost(o)'
  <2>1. Silent(o)'
    BY <1>1, <1>2, <1>3 DEF Silent
  <2>2. src'[o].connection = NoConnection
    BY <1>3, LogoutFields DEF Present, Base
  <2> QED
    BY <2>1, <2>2 DEF Lost, LogoutSucceeded
<1> QED
  BY <1>3 DEF Hears, HeardAt

LEMMA DisconnectedKeepsHears ==
  ASSUME Base, Flag, Hears, Disconnected
  PROVE  Hears'
<1>0. /\ inbox \in Seq(Messages) /\ DOMAIN inbox = 1 .. Len(inbox) /\ up
      /\ UNCHANGED <<src, downlinks, linked, record, queue, again>> /\ up' = FALSE
      /\ \A o \in unheard : o \in unheard'
  BY DEF Disconnected, Base, Typed, TypeOK, api
<1>1. \A i \in DOMAIN inbox' : IsAnswer(inbox'[i]) /\ \E j \in DOMAIN inbox : inbox'[i] = inbox[j]
  BY <1>0, AnswersFields DEF Disconnected
<1>2. \A j \in DOMAIN inbox : inbox[j].of \in unheard' \/ (~ IsAnswer(inbox[j]) /\ inbox[j].of \in downlinks)
  BY DEF Disconnected, ToSet
<1>3. ASSUME NEW o \in Sources, src[o].life = "live", o \notin unheard'
      PROVE  Heard(o)' \/ Waiting(o)' \/ Lost(o)'
  <2>1. Silent(o)'
    BY <1>1, <1>2, <1>3 DEF Silent
  <2>2. CASE ~ Silent(o)
    <3>1. o \in downlinks
      BY <1>2, <1>3, <2>2 DEF Silent
    <3> QED
      BY <1>0, <2>1, <3>1 DEF Lost, Flag
  <2>3. CASE Silent(o)
    <3>1. Good(o)
      BY <2>3 DEF Silent, Good
    <3>2. CASE Heard(o)
      BY <1>0, <2>1, <2>3, <3>2 DEF Heard, LastOf, Silent
    <3>3. CASE Waiting(o)
      <4>1. PICK i \in DOMAIN queue : queue[i].of = o /\ (i = 1 => \A k \in DOMAIN inbox : ~ IsAnswer(inbox[k]))
        BY <3>3 DEF Waiting
      <4>2. i = 1 => \A k \in DOMAIN inbox' : ~ IsAnswer(inbox'[k])
        BY <1>1, <4>1
      <4> QED
        BY <1>0, <4>1, <4>2 DEF Waiting
    <3>4. CASE Lost(o)
      BY <1>0, <2>1, <3>4 DEF Lost
    <3> QED
      BY <1>0, <1>3, <3>1, <3>2, <3>3, <3>4 DEF Hears, HeardAt
  <2> QED
    BY <2>2, <2>3
<1> QED
  BY <1>0, <1>3 DEF Hears, HeardAt

\* A change of the record is told by the last message, unless it is missed.
LEMMA ServerKeepsHears ==
  ASSUME Base, Known, Hears, NEW o, NEW c, ServerStep(o, c), ParallelKept, Reported(o)
  PROVE  Hears'
<1>0. /\ o \in Sources /\ c \in Connections
      /\ DOMAIN inbox = 1 .. Len(inbox) /\ DOMAIN inbox' = 1 .. Len(inbox') /\ Len(inbox) \in Nat
      /\ Len(inbox') \in Nat /\ Len(inbox') >= Len(inbox)
      /\ UNCHANGED <<src, queue, downlinks, linked, up, again>>
      /\ record'[o] = c /\ \A q \in Sources : q # o => record'[q] = record[q]
  BY DEF ServerStep, Base, Typed, TypeOK
<1>1. \A i \in DOMAIN inbox : i \in DOMAIN inbox' /\ inbox'[i] = inbox[i]
  <2>1. \A i \in 1 .. Len(inbox) : i \in 1 .. Len(inbox') /\ inbox'[i] = inbox[i]
    BY Zenon DEF ServerStep
  <2> QED
    BY <1>0, <2>1
<1>2. ASSUME NEW i \in DOMAIN inbox', i \notin DOMAIN inbox
      PROVE  /\ inbox'[i].of = o
             /\ IsAnswer(inbox'[i]) => queue[1].of = o
             /\ inbox'[i].con = c \/ (IsAnswer(inbox'[i]) /\ ~ inbox'[i].ok)
  <2>1. i \in 1 .. Len(inbox') /\ i > Len(inbox)
    BY <1>0, <1>2
  <2>2. inbox'[i] = Push(o, c) \/ Answers1(o, c, inbox'[i])
    BY <2>1, Zenon DEF ServerStep
  <2>3. Push(o, c).of = o /\ Push(o, c).con = c /\ ~ IsAnswer(Push(o, c))
    BY <1>0, PushTypes
  <2> QED
    BY <2>2, <2>3 DEF Answers1
<1>3. ASSUME NEW q \in Sources, q # o, src[q].life = "live"
      PROVE  HeardAt(q)'
  <2> SUFFICES ASSUME Good(q)', q \notin unheard' PROVE Heard(q)' \/ Waiting(q)' \/ Lost(q)'
    BY DEF HeardAt
  <2>1. Good(q) /\ q \notin unheard
    BY <1>1, <1>3 DEF Good, Reported
  <2>2. Silent(q) <=> Silent(q)'
    BY <1>1, <1>2, <1>3 DEF Silent
  <2>3. CASE Heard(q)
    <3>1. ASSUME NEW i \in DOMAIN inbox', LastOf(i, q)'
          PROVE  inbox'[i].con = record'[q]
      <4>1. i \in DOMAIN inbox /\ inbox'[i] = inbox[i]
        BY <1>1, <1>2, <1>3, <3>1 DEF LastOf
      <4>2. LastOf(i, q)
        BY <1>1, <3>1, <4>1 DEF LastOf
      <4> QED
        BY <1>0, <1>3, <2>3, <4>1, <4>2 DEF Heard
    <3>2. Silent(q)' => src'[q].connection = record'[q]
      BY <1>0, <1>3, <2>2, <2>3 DEF Heard
    <3> QED
      BY <3>1, <3>2 DEF Heard
  <2>4. CASE Waiting(q)
    <3>1. PICK i \in DOMAIN queue : queue[i].of = q /\ (i = 1 => \A k \in DOMAIN inbox : ~ IsAnswer(inbox[k]))
      BY <2>4 DEF Waiting
    <3>2. ASSUME i = 1, NEW k \in DOMAIN inbox'
          PROVE  ~ IsAnswer(inbox'[k])
      BY <1>1, <1>2, <1>3, <3>1, <3>2
    <3> QED
      BY <1>0, <3>1, <3>2 DEF Waiting
  <2>5. CASE Lost(q)
    BY <1>0, <2>2, <2>5 DEF Lost
  <2> QED
    BY <1>3, <2>1, <2>3, <2>4, <2>5 DEF Hears, HeardAt
<1>4. ASSUME src[o].life = "live"
      PROVE  HeardAt(o)'
  <2> SUFFICES ASSUME Good(o)', o \notin unheard' PROVE Heard(o)'
    BY DEF HeardAt
  <2>1. parallel[o] = "none"
    BY <1>0, <1>4 DEF Known
  <2>2. Len(inbox') > Len(inbox)
    BY <2>1 DEF Reported
  <2> DEFINE n == Len(inbox')
  <2>3. n \in DOMAIN inbox' /\ n \notin DOMAIN inbox /\ \A i \in DOMAIN inbox' : i # n => n > i
    BY <1>0, <2>2
  <2>4. inbox'[n].of = o /\ inbox'[n].con = c
    BY <1>2, <2>3 DEF Good
  <2>5. ~ Silent(o)'
    BY <2>3, <2>4 DEF Silent
  <2>6. \A i \in DOMAIN inbox' : LastOf(i, o)' => i = n
    BY <2>3, <2>4 DEF LastOf
  <2> QED
    BY <1>0, <2>4, <2>5, <2>6 DEF Heard
<1> QED
  BY <1>0, <1>3, <1>4 DEF Hears

\* What has waited waits on, one place further ahead.
LEMMA MessageKeepsWaiting ==
  ASSUME Base, MessageStep(1), NEW q, Waiting(q)
  PROVE  Waiting(q)'
<1>0. /\ DOMAIN inbox = 1 .. Len(inbox) /\ DOMAIN inbox' = 1 .. Len(inbox') /\ 1 \in DOMAIN inbox
      /\ \A j \in DOMAIN inbox' : j + 1 \in DOMAIN inbox /\ inbox'[j] = inbox[j + 1] /\ j + 1 > 1
  BY MessagesMoveOn, Zenon
<1>1. PICK i \in DOMAIN queue : queue[i].of = q /\ (i = 1 => \A k \in DOMAIN inbox : ~ IsAnswer(inbox[k]))
  BY DEF Waiting
<1>2. CASE ~ IsAnswer(inbox[1]) /\ UNCHANGED queue
  <2>1. i = 1 => \A k \in DOMAIN inbox' : ~ IsAnswer(inbox'[k])
    BY <1>0, <1>1
  <2> QED
    BY <1>1, <1>2, <2>1 DEF Waiting
<1>3. CASE IsAnswer(inbox[1]) /\ QueueAdvances
  <2>1. i # 1
    BY <1>0, <1>1, <1>3
  <2>2. /\ DOMAIN queue = 1 .. Len(queue) /\ DOMAIN queue' = 1 .. Len(queue') /\ Len(queue) \in Nat
        /\ Len(queue') = Len(queue) - 1 /\ \A j \in 1 .. Len(queue') : queue'[j] = queue[j + 1]
    BY <1>3, LenProperties DEF QueueAdvances, Base, Typed, TypeOK
  <2>3. i - 1 \in DOMAIN queue' /\ (i - 1) + 1 = i
    BY <2>1, <2>2
  <2>4. queue'[i - 1] = queue[(i - 1) + 1]
    BY <2>2, <2>3
  <2>5. \A k \in DOMAIN inbox' : ~ IsAnswer(inbox'[k])
    <3> SUFFICES ASSUME NEW k \in DOMAIN inbox', IsAnswer(inbox'[k]) PROVE FALSE
      OBVIOUS
    <3>1. k + 1 \in DOMAIN inbox /\ IsAnswer(inbox[k + 1]) /\ k + 1 # 1
      BY <1>0
    <3> QED
      BY <1>0, <1>3, <3>1 DEF Base, Wire
  <2> QED
    BY <1>1, <2>3, <2>4, <2>5 DEF Waiting
<1> QED
  BY <1>2, <1>3 DEF MessageStep

LEMMA MessageKeepsHears ==
  ASSUME Base, Known, Hears, MessageStep(1)
  PROVE  Hears'
<1> DEFINE m == inbox[1]
<1>0. PICK o \in Sources : o = m.of
  BY MessageFields
<1>1. /\ m \in Messages /\ m.con \in Connections /\ src[o] \in Source /\ src'[o].life = src[o].life
  BY <1>0, MessageFields
<1>2. /\ \A q \in Sources : q # o => src'[q] = src[q]
      /\ UNCHANGED <<record, linked, up, again>>
  BY <1>0 DEF MessageStep
<1>3. /\ DOMAIN inbox = 1 .. Len(inbox) /\ DOMAIN inbox' = 1 .. Len(inbox') /\ 1 \in DOMAIN inbox
      /\ \A j \in DOMAIN inbox' : j + 1 \in DOMAIN inbox /\ inbox'[j] = inbox[j + 1] /\ j + 1 > 1
      /\ \A j \in DOMAIN inbox : j # 1 => j - 1 \in DOMAIN inbox' /\ inbox'[j - 1] = inbox[j]
  BY MessagesMoveOn, Zenon
<1>4. \A q \in unheard : q \in unheard'
  BY DEF MessageStep, hist
<1>5. ASSUME NEW q, NEW j \in DOMAIN inbox', LastOf(j, q)'
      PROVE  LastOf(j + 1, q) /\ j + 1 \in DOMAIN inbox /\ inbox'[j] = inbox[j + 1]
  <2>1. j + 1 \in DOMAIN inbox /\ inbox'[j] = inbox[j + 1]
    BY <1>3
  <2>2. ASSUME NEW k \in DOMAIN inbox, k > j + 1
        PROVE  inbox[k].of # q
    <3>1. j \in 1 .. Len(inbox') /\ k \in 1 .. Len(inbox) /\ k # 1 /\ k - 1 > j
      BY <1>3, <2>2
    <3>2. k - 1 \in DOMAIN inbox' /\ inbox'[k - 1] = inbox[k]
      BY <1>3, <3>1
    <3> QED
      BY <1>5, <3>1, <3>2 DEF LastOf
  <2> QED
    BY <1>5, <2>1, <2>2 DEF LastOf
<1>6. ASSUME NEW q \in Sources, q # o, src[q].life = "live"
      PROVE  HeardAt(q)'
  <2> SUFFICES ASSUME Good(q)', q \notin unheard' PROVE Heard(q)' \/ Waiting(q)' \/ Lost(q)'
    BY DEF HeardAt
  <2>1. Good(q) /\ q \notin unheard
    BY <1>0, <1>3, <1>4, <1>6 DEF Good
  <2>2. Silent(q) <=> Silent(q)'
    BY <1>0, <1>3, <1>6 DEF Silent
  <2>3. CASE Heard(q)
    <3>1. \A j \in DOMAIN inbox' : LastOf(j, q)' => inbox'[j].con = record'[q]
      BY <1>2, <1>5, <2>3 DEF Heard
    <3>2. Silent(q)' => src'[q].connection = record'[q]
      BY <1>2, <1>6, <2>2, <2>3 DEF Heard
    <3> QED
      BY <3>1, <3>2 DEF Heard
  <2>4. CASE Waiting(q)
    BY <2>4, MessageKeepsWaiting
  <2>5. CASE Lost(q)
    <3>1. q \in downlinks => q \in downlinks'
      BY <1>0, <1>6 DEF MessageStep, Ready, RemovedBy, FailedBy, IgnoredAfter
    <3> QED
      BY <1>2, <1>6, <2>2, <2>5, <3>1 DEF Lost
  <2> QED
    BY <1>6, <2>1, <2>3, <2>4, <2>5 DEF Hears, HeardAt
<1>7. ASSUME src[o].life = "live"
      PROVE  HeardAt(o)'
  <2> SUFFICES ASSUME Good(o)', o \notin unheard' PROVE Heard(o)' \/ Waiting(o)'
    BY DEF HeardAt
  <2>1. IsAnswer(m) => m.ok
    BY <1>0 DEF MessageStep
  <2>2. Good(o) /\ o \notin unheard
    <3>1. ASSUME NEW i \in DOMAIN inbox, inbox[i].of = o, IsAnswer(inbox[i])
          PROVE  inbox[i].ok
      <4>1. CASE i = 1
        BY <2>1, <3>1, <4>1
      <4>2. CASE i # 1
        BY <1>3, <3>1, <4>2 DEF Good
      <4> QED
        BY <4>1, <4>2
    <3> QED
      BY <1>4, <3>1 DEF Good
  <2>3. ~ Lost(o)
    BY <1>0, <1>3 DEF Lost, Silent
  <2>4. CASE Heard(o)
    <3>1. \A j \in DOMAIN inbox' : LastOf(j, o)' => inbox'[j].con = record'[o]
      BY <1>2, <1>5, <2>4 DEF Heard
    <3>2. ASSUME Silent(o)'
          PROVE  src'[o].connection = record'[o]
      <4>1. LastOf(1, o)
        <5>1. ASSUME NEW k \in DOMAIN inbox, k > 1
              PROVE  inbox[k].of # o
          BY <1>3, <3>2, <5>1 DEF Silent
        <5> QED
          BY <1>0, <5>1 DEF LastOf
      <4>2. m.con = record[o]
        BY <1>3, <2>4, <4>1 DEF Heard
      <4>3. Present(o)
        BY <1>7 DEF Present
      <4>4. src'[o].connection = m.con
        <5>1. CASE Ready(m)
          BY <1>0, <1>1, <4>3, <5>1, DownlinkReadyFields DEF Ready
        <5>2. CASE RemovedBy(m)
          <6>1. CASE o \in downlinks
            BY <1>0, <1>1, <4>3, <5>2, <6>1, UnconnectedReset DEF RemovedBy
          <6>2. CASE o \notin downlinks
            BY <1>0, <4>3, <5>2, <6>2 DEF RemovedBy, Known
          <6> QED
            BY <6>1, <6>2
        <5>3. ~ FailedBy(m) /\ ~ IgnoredAfter(m)
          BY <2>1 DEF FailedBy, IgnoredAfter
        <5> QED
          BY <5>1, <5>2, <5>3 DEF MessageStep
      <4> QED
        BY <1>2, <4>2, <4>4
    <3> QED
      BY <3>1, <3>2 DEF Heard
  <2>5. CASE Waiting(o)
    BY <2>5, MessageKeepsWaiting
  <2> QED
    BY <1>7, <2>2, <2>3, <2>4, <2>5 DEF Hears, HeardAt
<1> QED
  BY <1>1, <1>2, <1>6, <1>7 DEF Hears

LEMMA StepKeepsFlag ==
  ASSUME Base, Flag, [Next]_vars
  PROVE  Flag'
<1>1. StepShape /\ Typed
  BY StepHasShape DEF Base
<1>2. CASE WebSocketReady
  BY <1>1, <1>2, WebSocketReadyTakesStep DEF Flag
<1>3. CASE LogoutSucceeded \/ Disconnected
  BY <1>3 DEF Flag, LogoutSucceeded, Disconnected
<1>4. ASSUME UNCHANGED <<up, again>> PROVE Flag'
  BY <1>4 DEF Flag
<1>5. ASSUME NEW o \in Sources, CaptureStep(o) \/ DestroyCallback(o) \/ Destroy(o) \/ ParallelAnswered(o)
      PROVE  UNCHANGED <<up, again>>
  BY <1>5 DEF CaptureStep, DestroyCallback, Destroy, ParallelAnswered, net
<1>6. ASSUME NEW o \in Sources, NEW c \in Connections, ServerStep(o, c) PROVE UNCHANGED <<up, again>>
  BY <1>6 DEF ServerStep
<1>7. ASSUME NEW i \in DOMAIN inbox, MessageStep(i) PROVE UNCHANGED <<up, again>>
  BY <1>7 DEF MessageStep
<1>8. Quiet => UNCHANGED <<up, again>>
  BY DEF Quiet
<1> QED
  BY <1>1, <1>2, <1>3, <1>4, <1>5, <1>6, <1>7, <1>8 DEF StepShape

LEMMA StepKeepsHears ==
  ASSUME Ordered, Base, Known, Fresh, Flag, Hears, [Next]_vars
  PROVE  Hears'
<1>0. Typed /\ StepShape
  BY StepHasShape DEF Base
<1>1. ASSUME UNCHANGED <<record, inbox, queue, up, again, linked, unheard>>,
             \A o \in Sources : src'[o].life = "live" =>
               src[o].life = "live" /\ src'[o].connection = src[o].connection /\ (o \in downlinks => o \in downlinks')
      PROVE  Hears'
  <2>1. ASSUME NEW o \in Sources, src'[o].life = "live"
        PROVE  HeardAt(o)'
    <3>1. Lost(o) => Lost(o)'
      BY <1>1, <2>1 DEF Lost, Silent
    <3>2. HeardAt(o)
      BY <1>1, <2>1 DEF Hears
    <3> QED
      BY <1>1, <2>1, <3>1, <3>2, HeardKept
  <2> QED
    BY <2>1 DEF Hears
<1>2. ASSUME NEW o \in Sources, CaptureStep(o) PROVE Hears'
  BY <1>2, CaptureKeepsHears
<1>3. ASSUME NEW S \in SUBSET Unconnected, PutsStep(S), linked' = TRUE, linked \/ S = Unconnected,
             UNCHANGED <<src, downlinks, record, subs, token, parallel, inbox, up, again, unserved, unheard>>
      PROVE Hears'
  BY <1>3, PutsKeepHears
<1>4. ASSUME NEW o \in Sources, DestroyCallback(o) \/ Destroy(o) PROVE Hears'
  <2>1. /\ \A q \in Sources : q # o => src'[q] = src[q]
        /\ src'[o].life # "live" /\ UNCHANGED <<downlinks, linked, record, queue, inbox, up, again, unheard>>
    BY <1>0, <1>4, DestroyFields DEF srv, hist
  <2> QED
    BY <1>1, <2>1
<1>5. ASSUME NEW o \in Sources, ParallelAnswered(o) PROVE Hears'
  <2>1. /\ \A q \in downlinks : q # o => q \in downlinks'
        /\ parallel[o] # "none" /\ UNCHANGED <<src, linked, record, queue, inbox, up, again, unheard>>
    BY <1>5 DEF ParallelAnswered, Subscribers, srv, hist
  <2>2. src[o].life # "live"
    BY <2>1 DEF Known
  <2> QED
    BY <1>1, <2>1, <2>2
<1>6. ASSUME NEW o, NEW c, ServerStep(o, c), ParallelKept, Reported(o) PROVE Hears'
  BY <1>6, ServerKeepsHears
<1>7. CASE Quiet
  BY <1>1, <1>7 DEF Quiet
<1>8. CASE LogoutSucceeded
  BY <1>8, LogoutKeepsHears
<1>9. CASE Disconnected
  BY <1>9, DisconnectedKeepsHears
<1>10. CASE WebSocketReady
  BY <1>10, WebSocketReadyKeepsHears
<1>11. ASSUME NEW i, MessageStep(i) PROVE Hears'
  <2>1. i = 1
    BY <1>11 DEF MessageStep
  <2> QED
    BY <1>11, <2>1, MessageKeepsHears
<1> QED
  BY Zenon, <1>0, <1>2, <1>3, <1>4, <1>5, <1>6, <1>7, <1>8, <1>9, <1>10, <1>11 DEF StepShape

\* ApiClient::putDownlink, onWebSocketDataChanged and the rest: if answers and pushes arrive
\* in the order they were sent in, a source about which nothing is under way has the
\* connection the server keeps for it, and that one is for the selection and at the port
\* the source has asked for last - unless a request of it was not served or a change was
\* missed.  Requests of other sources, logins and logouts, a lost websocket and the changes
\* of the server itself do not come in between.
THEOREM ServerFollowed ==
  ASSUME Ordered
  PROVE  Spec => []FollowsServer
<1> DEFINE IInv == Base /\ Known /\ Asked /\ Fresh /\ Flag /\ Hears
<1>1. Init => IInv
  <2>1. Init => Flag
    BY DEF Init, Flag
  <2>2. Init => Hears
    BY NewSourceType DEF Init, Hears
  <2> QED
    BY <2>1, <2>2, InitBase, InitKnown, InitAsked, InitFresh
<1>2. IInv /\ [Next]_vars => IInv'
  BY StepKeepsBase, StepKeepsKnown, StepKeepsAsked, StepKeepsFresh, StepKeepsFlag, StepKeepsHears
<1>3. IInv => FollowsServer
  <2> SUFFICES ASSUME IInv, NEW o \in Sources, Settled(o), linked, up, o \notin unserved \cup unsent \cup unheard
               PROVE  /\ src[o].connection = record[o]
                      /\ record[o] # NoConnection => src[o].wanted /\ record[o].port = src[o].port
    BY DEF FollowsServer
  <2>1. src[o].life = "live" /\ Silent(o) /\ Good(o) /\ ~ Waiting(o) /\ ~ Lost(o) /\ ~ Pending(o)
    BY DEF Settled, Silent, Good, Waiting, Lost, Pending
  <2>2. src[o].connection = record[o]
    BY <2>1 DEF Hears, HeardAt, Heard
  <2>3. record[o] = NoConnection \/ (Registrable(src[o]) /\ record[o].port = src[o].port)
    BY <2>1 DEF Asked, AskedAt
  <2> QED
    BY <2>2, <2>3 DEF Registrable
<1> HIDE DEF IInv
<1> QED
  BY <1>1, <1>2, <1>3, PTL DEF Spec

-----------------------------------------------------------------------------
\* Two decoders never listen at one port.  What a source may come to listen at are the
\* ports of the connections it has, is told of, or is kept at the server for it: it holds
\* them until the answer to a later request.

Young(o) == src[o].life \in {"new", "live"}
Reg(i, o) == queue[i].of = o /\ Registers(queue[i])
Holds(o, x) ==
  \/ x = src[o].connection.port
  \/ x = record[o].port
  \/ \E i \in DOMAIN inbox : inbox[i].of = o /\ x = inbox[i].con.port

\* When o asks for a port, p has asked for another one before.
AsksAfter(o, p) ==
  \A i, j \in DOMAIN queue :
    /\ i < j /\ Reg(i, p) /\ Reg(j, o)
    /\ \A k \in DOMAIN queue : i < k /\ k < j => ~ Reg(k, p)
    => queue[i].port = NoPort \/ queue[i].port # queue[j].port
\* Or has got one.
GetsAfter(o, p) ==
  p \notin unserved =>
    \A j \in DOMAIN queue :
      Reg(j, o) /\ (\A k \in DOMAIN queue : k < j => ~ Reg(k, p)) /\ Holds(p, queue[j].port)
        => queue[j].port = NoPort
HoldApart(o, p) ==
  o \notin unserved /\ p \notin unserved => \A x \in Ports : Holds(o, x) /\ Holds(p, x) => x = NoPort

\* The last request of a source is for the port it has; when it is answered, so is all it holds.
HoldsOwn(o) ==
  /\ \A i \in DOMAIN queue : LastPut(i, o) => queue[i].port = src[o].port
  /\ ~ Pending(o) /\ o \notin unserved => \A x \in Ports : Holds(o, x) => x = NoPort \/ x = src[o].port

Claims ==
  /\ \A o \in Sources : Young(o) => HoldsOwn(o)
  /\ \A o, p \in Sources : o # p /\ Young(o) /\ Young(p) =>
       AsksAfter(o, p) /\ GetsAfter(o, p) /\ HoldApart(o, p)

\* With the answer to a request comes no port but the one that was asked for.
Answering ==
  \A i \in DOMAIN inbox : IsAnswer(inbox[i]) /\ inbox[i].ok /\ Registers(queue[1]) =>
    /\ record[queue[1].of].port \in {NoPort, queue[1].port}
    /\ \A k \in DOMAIN inbox : k >= i /\ inbox[k].of = queue[1].of =>
         inbox[k].con.port \in {NoPort, queue[1].port}

\* The decoder listens at the port of the connection, even if it was set up for an older one.
Tuned == \A o \in Sources :
  src[o].input # NoConnection => src[o].life = "live" /\ src[o].input.port = src[o].connection.port

\* Who never logs in is told of nothing.
Offline == ~ linked =>
  /\ queue = <<>> /\ inbox = <<>> /\ downlinks = {}
  /\ \A o \in Sources : record[o] = NoConnection /\ parallel[o] = "none"

\* A source sends a request that moves it or keeps it.
Sends(o) == \E j \in 1 .. Len(queue') : j > Len(queue) /\ queue'[j].of = o /\ Registers(queue'[j])
\* The request on the wire may give it its port.
AtHead(o, x) == queue # <<>> /\ Reg(1, o) /\ x = queue[1].port

\* The queue grows; new requests are for the ports of now, and no other source moves meanwhile.
\* A source is told of no port but those it holds and the one it asks for on the wire.
LEMMA GrownClaims ==
  ASSUME Base, Claims, PortsInv', src' \in [Sources -> Source], QueueGrows, unserved' = unserved,
         \A o \in Sources : Young(o)' => Young(o),
         \A o \in Sources : Young(o)' => src'[o].port = src[o].port \/ Sends(o),
         \A o, p \in Sources : o # p /\ Sends(o) /\ Young(p)' => src'[p].port = src[p].port,
         \A o \in Sources, x \in Ports : Young(o)' /\ Holds(o, x)' => Holds(o, x) \/ x = NoPort \/ AtHead(o, x)
  PROVE  Claims'
<1>0. /\ queue \in Seq(Requests) /\ DOMAIN queue = 1 .. Len(queue) /\ Len(queue) \in Nat
      /\ queue' \in Seq(Requests) /\ DOMAIN queue' = 1 .. Len(queue') /\ Len(queue') \in Nat
      /\ \A i \in DOMAIN queue' : queue'[i].port \in Ports
  <2>1. queue \in Seq(Requests) /\ queue' \in Seq(Requests)
    BY DEF QueueGrows, Base, Typed, TypeOK
  <2>2. \A r \in Requests : r.port \in Ports
    BY DEF Requests
  <2>3. \A i \in DOMAIN queue' : queue'[i] \in Requests
    BY <2>1, LenProperties
  <2> QED
    BY <2>1, <2>2, <2>3, LenProperties
<1>1. \A i \in DOMAIN queue : i \in DOMAIN queue' /\ queue'[i] = queue[i]
  BY <1>0 DEF QueueGrows
<1>2. \A i \in DOMAIN queue, o \in Sources : Reg(i, o)' <=> Reg(i, o)
  BY <1>1 DEF Reg
<1>3. ASSUME NEW j \in DOMAIN queue', j \notin DOMAIN queue, NEW o \in Sources, Reg(j, o)'
      PROVE  queue'[j].port = src'[o].port /\ Sends(o) /\ \A i \in DOMAIN queue : i < j
  <2>1. j > Len(queue)
    BY <1>0, <1>3
  <2>2. queue'[j] = ConnectionRequest(o, src'[o])
    BY <1>0, <1>3, <2>1 DEF QueueGrows, Reg
  <2> QED
    BY <1>0, <1>3, <2>1, <2>2, RequestTypes DEF Sends, Reg
<1>4. \A o, p \in Sources : o # p /\ Young(o)' /\ Young(p)' =>
        src'[p].port = NoPort \/ src'[p].port # src'[o].port
  BY DEF PortsInv, PortsExact, Shape, Present, Young
<1>5. \A o \in Sources : Pending(o) => Pending(o)'
  BY <1>0, <1>1 DEF Pending
<1>6. \A o \in Sources : (\E i \in DOMAIN queue : Reg(i, o)) => Pending(o)
  BY DEF Reg, Pending, Registers
<1>7. \A o \in Sources : Sends(o) => Pending(o)'
  BY <1>0 DEF Sends, Pending, Registers
<1>8. \A o \in Sources, x \in Ports : AtHead(o, x) => 1 \in DOMAIN queue /\ Reg(1, o) /\ x = queue[1].port
  BY <1>0, EmptySeq DEF AtHead
<1>9. ASSUME NEW o \in Sources, Young(o)'
      PROVE  HoldsOwn(o)'
  <2>0. HoldsOwn(o) /\ Young(o)
    BY <1>9 DEF Claims
  <2>1. ASSUME NEW i \in DOMAIN queue', LastPut(i, o)'
        PROVE  queue'[i].port = src'[o].port
    <3>0. /\ Reg(i, o)'
          /\ \A j \in DOMAIN queue' : j > i => ~ Reg(j, o)'
      BY <2>1 DEF LastPut, Reg
    <3>1. CASE i \notin DOMAIN queue
      BY <1>3, <3>0, <3>1
    <3>2. CASE i \in DOMAIN queue
      <4>1. LastPut(i, o)
        BY <1>1, <1>2, <3>0, <3>2 DEF LastPut, Reg
      <4>2. ~ Sends(o)
        BY <1>0, <3>0, <3>2 DEF Sends, Reg
      <4> QED
        BY <1>1, <1>9, <2>0, <3>2, <4>1, <4>2 DEF HoldsOwn
    <3> QED
      BY <3>1, <3>2
  <2>2. ASSUME ~ Pending(o)', o \notin unserved', NEW x \in Ports, Holds(o, x)'
        PROVE  x = NoPort \/ x = src'[o].port
    <3>1. ~ Pending(o) /\ ~ Sends(o) /\ ~ AtHead(o, x)
      BY <1>5, <1>6, <1>7, <1>8, <2>2
    <3>2. Holds(o, x) \/ x = NoPort
      BY <1>9, <2>2, <3>1
    <3> QED
      BY <1>9, <2>0, <2>2, <3>1, <3>2 DEF HoldsOwn
  <2> QED
    BY <2>1, <2>2 DEF HoldsOwn
<1>10. ASSUME NEW o \in Sources, NEW p \in Sources, o # p, Young(o)', Young(p)'
       PROVE  (AsksAfter(o, p) /\ GetsAfter(o, p) /\ HoldApart(o, p))'
  <2>0. /\ AsksAfter(o, p) /\ GetsAfter(o, p) /\ HoldApart(o, p) /\ GetsAfter(p, o)
        /\ HoldsOwn(p) /\ Young(o) /\ Young(p)
    BY <1>10 DEF Claims
  <2>1. ASSUME NEW i \in DOMAIN queue', NEW j \in DOMAIN queue', i < j, Reg(i, p)', Reg(j, o)',
               \A k \in DOMAIN queue' : i < k /\ k < j => ~ Reg(k, p)'
        PROVE  queue'[i].port = NoPort \/ queue'[i].port # queue'[j].port
    <3>1. CASE j \in DOMAIN queue
      <4>1. i \in DOMAIN queue
        BY <1>0, <2>1, <3>1
      <4>2. \A k \in DOMAIN queue : i < k /\ k < j => ~ Reg(k, p)
        BY <1>1, <1>2, <2>1
      <4> QED
        BY <1>1, <1>2, <2>0, <2>1, <3>1, <4>1, <4>2 DEF AsksAfter
    <3>2. CASE j \notin DOMAIN queue
      <4>1. queue'[j].port = src'[o].port /\ Sends(o) /\ src'[p].port = src[p].port
        BY <1>3, <1>10, <2>1, <3>2
      <4>2. queue'[i].port = src'[p].port
        <5>1. CASE i \notin DOMAIN queue
          BY <1>3, <2>1, <5>1
        <5>2. CASE i \in DOMAIN queue
          <6>1. \A k \in DOMAIN queue : k > i => ~ Reg(k, p)
            BY <1>1, <1>2, <1>3, <2>1, <3>2
          <6>2. LastPut(i, p)
            BY <1>2, <2>1, <5>2, <6>1 DEF LastPut, Reg
          <6> QED
            BY <1>1, <2>0, <4>1, <5>2, <6>2 DEF HoldsOwn
        <5> QED
          BY <5>1, <5>2
      <4> QED
        BY <1>4, <1>10, <4>1, <4>2
    <3> QED
      BY <3>1, <3>2
  <2>2. ASSUME p \notin unserved', NEW j \in DOMAIN queue', Reg(j, o)',
               \A k \in DOMAIN queue' : k < j => ~ Reg(k, p)', Holds(p, queue[j].port)'
        PROVE  queue'[j].port = NoPort
    <3> DEFINE x == queue'[j].port
    <3>0. x \in Ports
      BY <1>0
    <3>1. ~ AtHead(p, x)
      <4>1. CASE j = 1
        BY <1>2, <1>8, <1>10, <2>2, <3>0, <4>1 DEF Reg
      <4>2. CASE j # 1
        <5>1. 1 < j
          BY <1>0, <4>2
        <5> QED
          BY <1>1, <1>2, <1>8, <2>2, <3>0, <5>1
      <4> QED
        BY <4>1, <4>2
    <3>2. Holds(p, x) \/ x = NoPort
      BY <1>10, <2>2, <3>0, <3>1
    <3>3. CASE j \in DOMAIN queue
      <4>1. \A k \in DOMAIN queue : k < j => ~ Reg(k, p)
        BY <1>1, <1>2, <2>2
      <4> QED
        BY <1>1, <1>2, <2>0, <2>2, <3>2, <3>3, <4>1 DEF GetsAfter
    <3>4. CASE j \notin DOMAIN queue
      <4>1. x = src'[o].port /\ Sends(o) /\ src'[p].port = src[p].port
        BY <1>3, <1>10, <2>2, <3>4
      <4>2. ~ Pending(p)
        <5>1. \A k \in DOMAIN queue : ~ Reg(k, p)
          BY <1>1, <1>2, <1>3, <2>2, <3>4
        <5> QED
          BY <5>1 DEF Pending, Reg, Registers
      <4>3. x = NoPort \/ x = src[p].port
        BY <2>0, <2>2, <3>0, <3>2, <4>2 DEF HoldsOwn
      <4> QED
        BY <1>4, <1>10, <4>1, <4>3
    <3> QED
      BY <3>3, <3>4
  <2>3. ASSUME o \notin unserved', p \notin unserved', NEW x \in Ports, Holds(o, x)', Holds(p, x)'
        PROVE  x = NoPort
    <3>1. /\ Holds(o, x) \/ x = NoPort \/ AtHead(o, x)
          /\ Holds(p, x) \/ x = NoPort \/ AtHead(p, x)
      BY <1>10, <2>3
    <3>2. ASSUME AtHead(o, x), Holds(p, x)
          PROVE  x = NoPort
      <4>1. 1 \in DOMAIN queue /\ Reg(1, o) /\ x = queue[1].port
        BY <1>8, <3>2
      <4>2. \A k \in DOMAIN queue : ~ (k < 1)
        BY <1>0
      <4> QED
        BY <2>0, <2>3, <3>2, <4>1, <4>2 DEF GetsAfter
    <3>3. ASSUME AtHead(p, x), Holds(o, x)
          PROVE  x = NoPort
      <4>1. 1 \in DOMAIN queue /\ Reg(1, p) /\ x = queue[1].port
        BY <1>8, <3>3
      <4>2. \A k \in DOMAIN queue : ~ (k < 1)
        BY <1>0
      <4> QED
        BY <2>0, <2>3, <3>3, <4>1, <4>2 DEF GetsAfter
    <3>4. ~ (AtHead(o, x) /\ AtHead(p, x))
      BY <1>10 DEF AtHead, Reg
    <3> QED
      BY <2>0, <2>3, <3>1, <3>2, <3>3, <3>4 DEF HoldApart
  <2> QED
    BY <2>1, <2>2, <2>3 DEF AsksAfter, GetsAfter, HoldApart
<1> QED
  BY <1>9, <1>10 DEF Claims

\* The request on the wire is answered.  If it is served, its source holds nothing any more
\* but the port it was for.
LEMMA AdvancedClaims ==
  ASSUME Base, Claims, QueueAdvances,
         \A o \in Sources : src'[o].life = src[o].life /\ src'[o].port = src[o].port,
         \A o \in Sources, x \in Ports : Holds(o, x)' => Holds(o, x) \/ x = NoPort,
         \A o \in Sources : Young(o) /\ o \notin unserved' =>
           \/ o \notin unserved /\ ~ Reg(1, o)
           \/ Reg(1, o) /\ \A x \in Ports : Holds(o, x)' => x = NoPort \/ x = queue[1].port
  PROVE  Claims'
<1>0. /\ DOMAIN queue = 1 .. Len(queue) /\ Len(queue) \in Nat /\ 1 \in DOMAIN queue
      /\ DOMAIN queue' = 1 .. Len(queue') /\ Len(queue') = Len(queue) - 1
      /\ \A i \in DOMAIN queue' : queue'[i].port \in Ports
  <2>1. queue \in Seq(Requests) /\ queue' \in Seq(Requests) /\ queue # <<>>
    BY DEF QueueAdvances, Base, Typed, TypeOK
  <2>2. \A r \in Requests : r.port \in Ports
    BY DEF Requests
  <2>3. \A i \in DOMAIN queue' : queue'[i] \in Requests
    BY <2>1, LenProperties
  <2>4. Len(queue) # 0
    BY <2>1, EmptySeq
  <2> QED
    BY <2>1, <2>2, <2>3, <2>4, LenProperties DEF QueueAdvances
<1>1. \A i \in DOMAIN queue' : i + 1 \in DOMAIN queue /\ queue'[i] = queue[i + 1] /\ i + 1 # 1
  BY <1>0 DEF QueueAdvances
<1>2. \A i \in DOMAIN queue' : \A o : Reg(i, o)' <=> Reg(i + 1, o)
  BY <1>1 DEF Reg
<1>3. ASSUME NEW k \in DOMAIN queue, k # 1
      PROVE  k - 1 \in DOMAIN queue' /\ \A o : Reg(k - 1, o)' <=> Reg(k, o)
  <2>1. k - 1 \in DOMAIN queue' /\ (k - 1) + 1 = k
    BY <1>0, <1>3
  <2>2. \A o : Reg(k - 1, o)' <=> Reg((k - 1) + 1, o)
    BY <1>2, <2>1
  <2> QED
    BY <2>1, <2>2
<1>4. \A o \in Sources : Young(o)' => Young(o)
  BY DEF Young
<1>5. ASSUME NEW o \in Sources, ~ Pending(o)', ~ Reg(1, o)
      PROVE  ~ Pending(o)
  <2>1. \A i \in DOMAIN queue' : ~ Reg(i, o)'
    BY <1>5 DEF Pending, Reg, Registers
  <2>2. \A k \in DOMAIN queue : ~ Reg(k, o)
    BY <1>3, <1>5, <2>1
  <2> QED
    BY <2>2 DEF Pending, Reg, Registers
<1>6. ASSUME NEW o \in Sources, Young(o)'
      PROVE  HoldsOwn(o)'
  <2>0. HoldsOwn(o)
    BY <1>4, <1>6 DEF Claims
  <2>1. ASSUME NEW i \in DOMAIN queue', LastPut(i, o)'
        PROVE  queue'[i].port = src'[o].port
    <3>1. Reg(i + 1, o) /\ i + 1 \in DOMAIN queue /\ queue'[i] = queue[i + 1]
      BY <1>1, <1>2, <2>1 DEF LastPut, Reg
    <3>2. ASSUME NEW k \in DOMAIN queue, k > i + 1
          PROVE  ~ Reg(k, o)
      <4>1. k # 1 /\ k - 1 > i
        BY <1>0, <3>2
      <4>2. k - 1 \in DOMAIN queue' /\ (Reg(k - 1, o)' <=> Reg(k, o))
        BY <1>3, <4>1
      <4> QED
        BY <2>1, <4>1, <4>2 DEF LastPut, Reg
    <3>3. LastPut(i + 1, o)
      BY <3>1, <3>2 DEF LastPut, Reg
    <3> QED
      BY <2>0, <3>1, <3>3 DEF HoldsOwn
  <2>2. ASSUME ~ Pending(o)', o \notin unserved', NEW x \in Ports, Holds(o, x)'
        PROVE  x = NoPort \/ x = src'[o].port
    <3>1. CASE o \notin unserved /\ ~ Reg(1, o)
      <4>1. ~ Pending(o)
        BY <1>5, <2>2, <3>1
      <4> QED
        BY <2>0, <2>2, <3>1, <4>1 DEF HoldsOwn
    <3>2. CASE Reg(1, o) /\ (x = NoPort \/ x = queue[1].port)
      <4>1. ASSUME NEW k \in DOMAIN queue, k > 1
            PROVE  ~ Reg(k, o)
        <5>1. k - 1 \in DOMAIN queue' /\ (Reg(k - 1, o)' <=> Reg(k, o))
          BY <1>0, <1>3, <4>1
        <5> QED
          BY <2>2, <5>1 DEF Pending, Reg, Registers
      <4>2. LastPut(1, o)
        BY <3>2, <4>1 DEF LastPut, Reg
      <4> QED
        BY <1>0, <2>0, <3>2, <4>2 DEF HoldsOwn
    <3> QED
      BY <1>4, <1>6, <2>2, <3>1, <3>2
  <2> QED
    BY <2>1, <2>2 DEF HoldsOwn
<1>7. ASSUME NEW o \in Sources, NEW p \in Sources, o # p, Young(o)', Young(p)'
      PROVE  (AsksAfter(o, p) /\ GetsAfter(o, p) /\ HoldApart(o, p))'
  <2>0. /\ AsksAfter(o, p) /\ GetsAfter(o, p) /\ HoldApart(o, p) /\ GetsAfter(p, o)
    BY <1>4, <1>7 DEF Claims
  <2>1. ASSUME NEW i \in DOMAIN queue', NEW j \in DOMAIN queue', i < j, Reg(i, p)', Reg(j, o)',
               \A k \in DOMAIN queue' : i < k /\ k < j => ~ Reg(k, p)'
        PROVE  queue'[i].port = NoPort \/ queue'[i].port # queue'[j].port
    <3>1. i + 1 \in DOMAIN queue /\ j + 1 \in DOMAIN queue /\ i + 1 < j + 1 /\ Reg(i + 1, p) /\ Reg(j + 1, o)
      BY <1>0, <1>1, <1>2, <2>1
    <3>2. ASSUME NEW k \in DOMAIN queue, i + 1 < k, k < j + 1
          PROVE  ~ Reg(k, p)
      <4>1. k # 1 /\ i < k - 1 /\ k - 1 < j
        BY <1>0, <3>2
      <4> QED
        BY <1>3, <2>1, <4>1
    <3> QED
      BY <1>1, <2>0, <3>1, <3>2 DEF AsksAfter
  <2>2. ASSUME p \notin unserved', NEW j \in DOMAIN queue', Reg(j, o)',
               \A k \in DOMAIN queue' : k < j => ~ Reg(k, p)', Holds(p, queue[j].port)'
        PROVE  queue'[j].port = NoPort
    <3>0. queue'[j].port \in Ports /\ j + 1 \in DOMAIN queue /\ queue'[j] = queue[j + 1] /\ Reg(j + 1, o)
      BY <1>0, <1>1, <1>2, <2>2
    <3>1. ASSUME NEW k \in DOMAIN queue, k # 1, k < j + 1
          PROVE  ~ Reg(k, p)
      <4>1. k - 1 < j
        BY <1>0, <3>1
      <4> QED
        BY <1>3, <2>2, <3>1, <4>1
    <3>2. CASE p \notin unserved /\ ~ Reg(1, p)
      <4>1. \A k \in DOMAIN queue : k < j + 1 => ~ Reg(k, p)
        BY <3>1, <3>2
      <4>2. Holds(p, queue[j + 1].port) \/ queue'[j].port = NoPort
        BY <2>2, <3>0
      <4> QED
        BY <2>0, <3>0, <3>2, <4>1, <4>2 DEF GetsAfter
    <3>3. CASE Reg(1, p) /\ (queue'[j].port = NoPort \/ queue'[j].port = queue[1].port)
      <4>1. 1 < j + 1
        BY <1>0
      <4>2. \A k \in DOMAIN queue : 1 < k /\ k < j + 1 => ~ Reg(k, p)
        BY <3>1
      <4> QED
        BY <1>0, <2>0, <3>0, <3>3, <4>1, <4>2 DEF AsksAfter
    <3> QED
      BY <1>4, <1>7, <2>2, <3>0, <3>2, <3>3
  <2>3. ASSUME NEW x \in Ports, o \notin unserved', p \notin unserved', Holds(o, x)', Holds(p, x)'
        PROVE  x = NoPort
    <3>0. (Holds(o, x) \/ x = NoPort) /\ (Holds(p, x) \/ x = NoPort)
      BY <2>3
    <3>1. \A k \in DOMAIN queue : ~ (k < 1)
      BY <1>0
    <3>2. CASE o \notin unserved /\ ~ Reg(1, o) /\ p \notin unserved /\ ~ Reg(1, p)
      BY <2>0, <3>0, <3>2 DEF HoldApart
    <3>3. CASE Reg(1, o) /\ (x = NoPort \/ x = queue[1].port) /\ p \notin unserved
      BY <1>0, <2>0, <3>0, <3>1, <3>3 DEF GetsAfter
    <3>4. CASE Reg(1, p) /\ (x = NoPort \/ x = queue[1].port) /\ o \notin unserved
      BY <1>0, <2>0, <3>0, <3>1, <3>4 DEF GetsAfter
    <3>5. ~ (Reg(1, o) /\ Reg(1, p))
      BY <1>7 DEF Reg
    <3> QED
      BY <1>4, <1>7, <2>3, <3>2, <3>3, <3>4, <3>5
  <2> QED
    BY <2>1, <2>2, <2>3 DEF AsksAfter, GetsAfter, HoldApart
<1> QED
  BY <1>6, <1>7 DEF Claims

\* Where nothing is asked and nothing is kept, nothing is held.
LEMMA OfflineClaims ==
  ASSUME Typed', Known', Offline', ~ linked'
  PROVE  Claims'
<1>1. /\ queue' = <<>> /\ inbox' = <<>> /\ downlinks' = {}
      /\ \A o \in Sources : record'[o] = NoConnection
  BY DEF Offline
<1>2. DOMAIN queue' = {} /\ DOMAIN inbox' = {}
  BY <1>1
<1>3. \A o \in Sources : Young(o)' => src'[o].connection = NoConnection
  BY <1>1, NewSourceType DEF Young, Known, Present, Typed
<1>4. \A o \in Sources : \A x \in Ports : Young(o)' /\ Holds(o, x)' => x = NoPort
  BY <1>1, <1>2, <1>3, ConnectionTypes DEF Holds
<1>5. \A o \in Sources : Young(o)' => HoldsOwn(o)'
  BY <1>2, <1>4 DEF HoldsOwn
<1>6. \A o, p \in Sources : o # p /\ Young(o)' /\ Young(p)' => (AsksAfter(o, p) /\ GetsAfter(o, p) /\ HoldApart(o, p))'
  BY <1>2, <1>4 DEF AsksAfter, GetsAfter, HoldApart
<1> QED
  BY <1>5, <1>6 DEF Claims

\* The steps that leave the queue and the connections to others.
LEMMA HeldKept ==
  ASSUME Base, record' = record, NEW o \in Sources,
         src'[o].connection \in {src[o].connection, NoConnection},
         inbox' = inbox \/ inbox' = Answers(inbox), NEW x, Holds(o, x)'
  PROVE  Holds(o, x) \/ x = NoPort
<1>0. inbox \in Seq(Messages)
  BY DEF Base, Typed, TypeOK
<1>1. \A i \in DOMAIN inbox' : \E j \in DOMAIN inbox : inbox'[i] = inbox[j]
  BY <1>0, AnswersFields
<1>2. NoConnection.port = NoPort
  BY ConnectionTypes
<1> QED
  BY <1>1, <1>2 DEF Holds

\* The queue is as it was, or one that grows by the status requests of a reconnection.
LEMMA StillClaims ==
  ASSUME Base, Claims, PortsInv', src' \in [Sources -> Source],
         QueueGrows \/ UNCHANGED queue, unserved' = unserved,
         \A o \in Sources : Young(o)' => Young(o),
         \A o \in Sources : Young(o)' => src'[o].port = src[o].port,
         \A o \in Sources, x \in Ports : Young(o)' /\ Holds(o, x)' => Holds(o, x) \/ x = NoPort \/ AtHead(o, x)
  PROVE  Claims'
<1>1. QueueGrows
  <2>1. queue \in Seq(Requests)
    BY DEF Base, Typed, TypeOK
  <2>2. Len(queue) \in Nat
    BY <2>1, LenProperties
  <2> QED
    BY <2>1, <2>2 DEF QueueGrows
<1> QED
  BY <1>1, GrownClaims

\* Whom the server tells of a port that is not held yet has asked for it.
LEMMA ServerHolds ==
  ASSUME Base, NEW o, NEW c, ServerStep(o, c), NEW q \in Sources, NEW x \in Ports, Holds(q, x)'
  PROVE  Holds(q, x) \/ x = NoPort \/ AtHead(q, x)
<1>0. /\ o \in Sources /\ c \in Connections /\ inbox \in Seq(Messages) /\ queue \in Seq(Requests)
      /\ DOMAIN inbox = 1 .. Len(inbox) /\ DOMAIN inbox' = 1 .. Len(inbox') /\ Len(inbox) \in Nat
      /\ Len(inbox') \in Nat /\ src' = src
      /\ record'[o] = c /\ \A p \in Sources : p # o => record'[p] = record[p]
  BY DEF ServerStep, Base, Typed, TypeOK
<1>7. \A i \in DOMAIN inbox : inbox'[i] = inbox[i]
  <2>1. \A i \in 1 .. Len(inbox) : inbox'[i] = inbox[i]
    BY DEF ServerStep
  <2> QED
    BY <1>0, <2>1
<1>1. NoConnection.port = NoPort
  BY ConnectionTypes
<1>2. c.port = record[o].port \/ c.port = NoPort \/ AtHead(o, c.port)
  BY <1>1, Zenon DEF ServerStep, Successor, AtHead, Reg, Registers
<1>3. ASSUME NEW i \in DOMAIN inbox', i \notin DOMAIN inbox
      PROVE  inbox'[i].of = o /\ inbox'[i].con \in {c, NoConnection}
  <2>1. i \in 1 .. Len(inbox') /\ i > Len(inbox)
    BY <1>0, <1>3
  <2>2. inbox'[i] = Push(o, c) \/ Answers1(o, c, inbox'[i])
    BY <2>1 DEF ServerStep
  <2>3. Push(o, c).of = o /\ Push(o, c).con = c
    BY <1>0, PushTypes
  <2> QED
    BY <2>2, <2>3 DEF Answers1
<1>4. CASE x = src[q].connection.port
  BY <1>4 DEF Holds
<1>5. CASE x = record'[q].port
  BY <1>0, <1>2, <1>5 DEF Holds
<1>6. ASSUME NEW i \in DOMAIN inbox', inbox'[i].of = q, x = inbox'[i].con.port
      PROVE  Holds(q, x) \/ x = NoPort \/ AtHead(q, x)
  <2>1. CASE i \in DOMAIN inbox
    BY <1>6, <1>7, <2>1 DEF Holds
  <2>2. CASE i \notin DOMAIN inbox
    BY <1>1, <1>2, <1>3, <1>6, <2>2 DEF Holds
  <2> QED
    BY <2>1, <2>2
<1> QED
  BY <1>0, <1>4, <1>5, <1>6 DEF Holds

\* What an arriving message leaves in its source's hands.
LEMMA MessageHolds ==
  ASSUME Base, MessageStep(1), NEW q \in Sources, NEW x, Holds(q, x)'
  PROVE  Holds(q, x) \/ x = NoPort
<1>0. NoConnection.port = NoPort /\ record' = record
  BY ConnectionTypes DEF MessageStep
<1>1. /\ 1 \in DOMAIN inbox
      /\ \A j \in DOMAIN inbox' : j + 1 \in DOMAIN inbox /\ inbox'[j] = inbox[j + 1]
  BY MessagesMoveOn
<1>2. \/ src'[q].connection = src[q].connection
      \/ inbox[1].of = q /\ src'[q].connection \in {inbox[1].con, NoConnection}
  <2>1. CASE q = inbox[1].of
    BY <2>1, MessageFields
  <2>2. CASE q # inbox[1].of
    BY <2>2 DEF MessageStep
  <2> QED
    BY <2>1, <2>2
<1> QED
  BY <1>0, <1>1, <1>2 DEF Holds

\* The answer to a request: what it leaves is what it was for.
LEMMA AnswerHolds ==
  ASSUME Base, Known, Answering, MessageStep(1), IsAnswer(inbox[1]), inbox[1].ok, Registers(queue[1]),
         NEW o \in Sources, o = inbox[1].of, Young(o), NEW x, Holds(o, x)'
  PROVE  x = NoPort \/ x = queue[1].port
<1> DEFINE m == inbox[1]
<1>0. NoConnection.port = NoPort /\ record' = record /\ queue[1].of = o
  BY ConnectionTypes DEF MessageStep
<1>1. /\ 1 \in DOMAIN inbox
      /\ \A j \in DOMAIN inbox' : j + 1 \in DOMAIN inbox /\ inbox'[j] = inbox[j + 1] /\ j + 1 > 1
  BY MessagesMoveOn
<1>2. \A j \in DOMAIN inbox : j \in Nat
  BY LenProperties DEF Base, Typed, TypeOK
<1>3. /\ record[o].port \in {NoPort, queue[1].port}
      /\ \A k \in DOMAIN inbox : inbox[k].of = o => inbox[k].con.port \in {NoPort, queue[1].port}
  <2>1. \A k \in DOMAIN inbox : k >= 1
    BY DEF Base, Typed, TypeOK
  <2> QED
    BY <1>0, <1>1, <2>1 DEF Answering
<1>4. src'[o].connection \in {m.con, NoConnection}
  <2>0. /\ o \in Sources /\ m.con \in Connections /\ src[o] \in Source
        /\ (src[o].life = "new" => src[o] = NewSource)
    BY MessageFields DEF Base, Typed
  <2>1. DownlinkReady(src[o], m.con).connection = m.con
    BY <2>0, DownlinkReadyFields
  <2>9. Reset(src[o], NoConnection).connection = NoConnection
    BY <2>0, ResetFields, ConnectionTypes
  <2>2. ~ Present(o) => src[o].connection = NoConnection
    BY <2>0, NewSourceType DEF Young, Present
  <2>3. Present(o) /\ o \notin downlinks => src[o].connection = NoConnection
    BY <2>0 DEF Known
  <2>4. Ready(m) \/ RemovedBy(m)
    BY DEF MessageStep, FailedBy, IgnoredAfter
  <2> QED
    BY <2>1, <2>2, <2>3, <2>4, <2>9 DEF Ready, RemovedBy
<1>5. CASE x = record'[o].port
  BY <1>0, <1>3, <1>5
<1>6. CASE x = src'[o].connection.port
  BY <1>0, <1>1, <1>3, <1>4, <1>6
<1>7. CASE \E j \in DOMAIN inbox' : inbox'[j].of = o /\ x = inbox'[j].con.port
  BY <1>1, <1>3, <1>7
<1> QED
  BY <1>5, <1>6, <1>7 DEF Holds

LEMMA MessageKeepsClaims ==
  ASSUME Base, Known, Answering, Claims, PortsInv', MessageStep(1)
  PROVE  Claims'
<1> DEFINE m == inbox[1]
<1>0. /\ src' \in [Sources -> Source] /\ src \in [Sources -> Source] /\ m.of \in Sources
      /\ \A o \in Sources : o # m.of => src'[o] = src[o]
      /\ src'[m.of].life = src[m.of].life /\ src'[m.of].port = src[m.of].port
  BY MessageFields DEF MessageStep, Base, Typed, TypeOK
<1>1. \A o \in Sources : src'[o].life = src[o].life /\ src'[o].port = src[o].port
  BY <1>0
<1>2. \A o \in Sources : Young(o)' => Young(o)
  BY <1>1 DEF Young
<1>3. CASE ~ IsAnswer(m) /\ UNCHANGED <<queue, token, hist>>
  BY <1>0, <1>1, <1>2, <1>3, MessageHolds, StillClaims DEF hist
<1>4. CASE IsAnswer(m) /\ QueueAdvances /\ queue[1].of = m.of
           /\ unserved' = IF queue[1].kind = "STATUS" THEN unserved
                          ELSE IF m.ok THEN unserved \ {m.of} ELSE unserved \cup {m.of}
  <2>1. ASSUME NEW o \in Sources, Young(o), o \notin unserved'
        PROVE  \/ o \notin unserved /\ ~ Reg(1, o)
               \/ Reg(1, o) /\ \A x \in Ports : Holds(o, x)' => x = NoPort \/ x = queue[1].port
    <3>1. CASE Reg(1, o)
      <4>1. o = m.of /\ m.ok /\ Registers(queue[1])
        BY <1>4, <2>1, <3>1 DEF Reg, Registers
      <4> QED
        BY <1>4, <2>1, <3>1, <4>1, AnswerHolds, Zenon
    <3>2. CASE ~ Reg(1, o)
      BY <1>4, <2>1, <3>2 DEF Reg, Registers
    <3> QED
      BY <3>1, <3>2
  <2> QED
    BY <1>1, <1>4, <2>1, MessageHolds, AdvancedClaims
<1> QED
  BY <1>3, <1>4 DEF MessageStep

LEMMA StepKeepsClaims ==
  ASSUME Ordered, ~ Logouts, Base, Known, Answering, Claims, Typed', Known', Offline', PortsInv', [Next]_vars
  PROVE  Claims'
<1>0. Typed /\ TypeOK /\ src \in [Sources -> Source] /\ src' \in [Sources -> Source] /\ StepShape
  BY StepHasShape DEF Base, Typed, TypeOK
<1>1. ASSUME UNCHANGED <<src, unserved, record>>, QueueGrows \/ UNCHANGED queue,
             inbox' = inbox \/ inbox' = Answers(inbox)
      PROVE  Claims'
  <2>1. \A o \in Sources, x \in Ports : Holds(o, x)' => Holds(o, x) \/ x = NoPort
    BY <1>1, HeldKept
  <2>2. \A o \in Sources : Young(o)' => Young(o)
    BY <1>1 DEF Young
  <2> QED
    BY <1>0, <1>1, <2>1, <2>2, StillClaims
<1>2. ASSUME NEW o \in Sources, CaptureStep(o) PROVE Claims'
  <2>1. CASE ~ linked /\ UNCHANGED queue
    <3>1. ~ linked'
      BY <1>2, <2>1 DEF CaptureStep
    <3> QED
      BY <3>1, OfflineClaims
  <2>2. CASE linked /\ QueueGrows /\ Len(queue') = Len(queue) + 1 /\ queue'[Len(queue) + 1] = ConnectionRequest(o, src'[o])
    <3>0. /\ \A q \in Sources : q # o => src'[q] = src[q]
          /\ src'[o].life = IF src[o].life = "new" THEN "live" ELSE src[o].life
          /\ \A q \in Sources : src'[q].connection = src[q].connection
          /\ UNCHANGED <<record, inbox, unserved>>
      BY <1>2 DEF CaptureStep, srv
    <3>1. Len(queue) \in Nat /\ src'[o] \in Source
      BY <1>0, LenProperties DEF TypeOK
    <3>2. queue'[Len(queue) + 1].of = o /\ Registers(queue'[Len(queue) + 1])
      BY <2>2, <3>1, RequestTypes DEF Registers
    <3>3. Sends(o)
      BY <2>2, <3>1, <3>2 DEF Sends
    <3>4. \A q \in Sources : Sends(q) => q = o
      <4>1. \A j \in 1 .. Len(queue') : j > Len(queue) => j = Len(queue) + 1
        BY <2>2, <3>1
      <4> QED
        BY <3>2, <4>1 DEF Sends
    <3>5. \A q \in Sources, x \in Ports : Holds(q, x)' => Holds(q, x) \/ x = NoPort
      BY <3>0, HeldKept
    <3>6. \A q \in Sources : Young(q)' => Young(q)
      BY <3>0 DEF Young
    <3> QED
      BY <1>0, <2>2, <3>0, <3>3, <3>4, <3>5, <3>6, GrownClaims
  <2> QED
    BY <1>2, <2>1, <2>2 DEF CaptureStep
<1>3. ASSUME NEW o \in Sources, DestroyCallback(o) \/ Destroy(o) PROVE Claims'
  <2>1. /\ \A q \in Sources : q # o => src'[q] = src[q]
        /\ src'[o].life \in {"leaving", "gone"}
        /\ src'[o].connection \in {src[o].connection, NoConnection}
        /\ UNCHANGED <<queue, inbox, unserved, record>>
    BY <1>0, <1>3, DestroyFields DEF hist, srv
  <2>2. \A q \in Sources : Young(q)' => Young(q) /\ src'[q].port = src[q].port
    BY <2>1 DEF Young
  <2>3. \A q \in Sources : src'[q].connection \in {src[q].connection, NoConnection}
    BY <2>1
  <2>4. \A q \in Sources, x \in Ports : Holds(q, x)' => Holds(q, x) \/ x = NoPort
    BY <2>1, <2>3, HeldKept
  <2> QED
    BY <1>0, <2>1, <2>2, <2>4, StillClaims
<1>4. ASSUME NEW o \in Sources, ParallelAnswered(o) PROVE Claims'
  BY <1>1, <1>4 DEF ParallelAnswered, hist, Subscribers, srv
<1>5. ASSUME NEW i, MessageStep(i) PROVE Claims'
  <2>1. i = 1
    BY <1>5 DEF MessageStep
  <2> QED
    BY <1>5, <2>1, MessageKeepsClaims
<1>6. CASE Disconnected
  BY <1>1, <1>6 DEF Disconnected
<1>7. CASE WebSocketReady
  <2>1. QueueGrows \/ UNCHANGED queue
    BY <1>0, <1>7, WebSocketReadyTakesStep
  <2> QED
    BY <1>1, <1>7, <2>1 DEF WebSocketReady, hist
<1>8. ASSUME NEW S, PutsStep(S),
             UNCHANGED <<src, downlinks, record, subs, token, parallel, inbox, up, again, unserved, unheard>>
      PROVE Claims'
  BY <1>1, <1>8 DEF PutsStep
<1>9. ASSUME NEW o, NEW c, ServerStep(o, c) PROVE Claims'
  <2>1. \A q \in Sources, x \in Ports : Holds(q, x)' => Holds(q, x) \/ x = NoPort \/ AtHead(q, x)
    BY <1>9, ServerHolds
  <2>2. UNCHANGED <<src, queue, unserved>>
    BY <1>9 DEF ServerStep
  <2>3. \A q \in Sources : Young(q)' => Young(q)
    BY <2>2 DEF Young
  <2> QED
    BY <1>0, <2>1, <2>2, <2>3, StillClaims
<1>10. CASE Quiet
  BY <1>1, <1>10 DEF Quiet
<1>11. ~ LogoutSucceeded
  BY DEF LogoutSucceeded
<1> QED
  BY Zenon, <1>0, <1>2, <1>3, <1>4, <1>5, <1>6, <1>7, <1>8, <1>9, <1>10, <1>11 DEF StepShape

\* What the server says to the request on the wire is followed by nothing that says otherwise.
LEMMA AnsweringKept ==
  ASSUME Base, Answering, QueueGrows \/ UNCHANGED queue, record' = record,
         inbox' = inbox \/ inbox' = Answers(inbox)
  PROVE  Answering'
<1>0. inbox \in Seq(Messages) /\ queue \in Seq(Requests) /\ Wire
  BY DEF Base, Typed, TypeOK
<1>2. queue # <<>> => queue'[1] = queue[1]
  BY <1>0, QueueKeepsHead
<1>3. CASE inbox' = inbox
  BY <1>0, <1>2, <1>3 DEF Answering, Wire
<1>4. CASE inbox' = Answers(inbox)
  <2>1. \A i, k \in DOMAIN inbox' : k = i
    BY <1>0, <1>4, AnswersFields
  <2>2. \A i \in DOMAIN inbox' : \E j \in DOMAIN inbox : inbox'[i] = inbox[j]
    BY <1>0, <1>4, AnswersFields
  <2>3. ASSUME NEW i \in DOMAIN inbox', IsAnswer(inbox'[i]), inbox'[i].ok, Registers(queue'[1])
        PROVE  /\ record'[queue'[1].of].port \in {NoPort, queue'[1].port}
               /\ \A k \in DOMAIN inbox' : k >= i /\ inbox'[k].of = queue'[1].of =>
                    inbox'[k].con.port \in {NoPort, queue'[1].port}
    <3>1. PICK j \in DOMAIN inbox : inbox'[i] = inbox[j]
      BY <2>2
    <3>2. queue'[1] = queue[1]
      BY <1>0, <1>2, <2>3, <3>1 DEF Wire
    <3>3. j >= j
      BY <1>0
    <3>4. /\ record[queue[1].of].port \in {NoPort, queue[1].port}
          /\ inbox[j].of = queue[1].of => inbox[j].con.port \in {NoPort, queue[1].port}
      BY <2>3, <3>1, <3>2, <3>3 DEF Answering
    <3> QED
      BY <2>1, <3>1, <3>2, <3>4
  <2> QED
    BY <2>3 DEF Answering
<1> QED
  BY <1>3, <1>4

LEMMA ServerKeepsAnswering ==
  ASSUME Base, Answering, NEW o, NEW c, ServerStep(o, c)
  PROVE  Answering'
<1>0. /\ o \in Sources /\ c \in Connections /\ inbox \in Seq(Messages) /\ queue \in Seq(Requests)
      /\ DOMAIN inbox = 1 .. Len(inbox) /\ DOMAIN inbox' = 1 .. Len(inbox') /\ Len(inbox) \in Nat
      /\ Len(inbox') \in Nat /\ queue' = queue /\ Wire
      /\ record'[o] = c /\ \A p \in Sources : p # o => record'[p] = record[p]
  BY DEF ServerStep, Base, Typed, TypeOK
<1>1. NoConnection.port = NoPort
  BY ConnectionTypes
<1>2. \A i \in DOMAIN inbox : inbox'[i] = inbox[i]
  <2>1. \A i \in 1 .. Len(inbox) : inbox'[i] = inbox[i]
    BY DEF ServerStep
  <2> QED
    BY <1>0, <2>1
<1>3. ASSUME NEW i \in DOMAIN inbox', i \notin DOMAIN inbox
      PROVE  \/ ~ IsAnswer(inbox'[i]) /\ inbox'[i].of = o /\ inbox'[i].con = c
             \/ Answers1(o, c, inbox'[i]) /\ i = Len(inbox')
  <2>1. i \in 1 .. Len(inbox') /\ i > Len(inbox)
    BY <1>0, <1>3
  <2>2. inbox'[i] = Push(o, c) \/ (Answers1(o, c, inbox'[i]) /\ i = Len(inbox'))
    BY <2>1 DEF ServerStep
  <2>3. Push(o, c).of = o /\ Push(o, c).con = c /\ ~ IsAnswer(Push(o, c))
    BY <1>0, PushTypes
  <2> QED
    BY <2>2, <2>3
<1>4. ASSUME NEW i \in DOMAIN inbox', IsAnswer(inbox'[i]), inbox'[i].ok, Registers(queue[1])
      PROVE  /\ record'[queue[1].of].port \in {NoPort, queue[1].port}
             /\ \A k \in DOMAIN inbox' : k >= i /\ inbox'[k].of = queue[1].of =>
                  inbox'[k].con.port \in {NoPort, queue[1].port}
  <2>1. CASE i \in DOMAIN inbox
    <3>0. inbox'[i] = inbox[i]
      BY <1>2, <2>1
    <3>1. /\ record[queue[1].of].port \in {NoPort, queue[1].port}
          /\ \A k \in DOMAIN inbox : k >= i /\ inbox[k].of = queue[1].of =>
               inbox[k].con.port \in {NoPort, queue[1].port}
      BY <1>4, <2>1, <3>0 DEF Answering
    <3>2. c.port = record[o].port \/ c.port = NoPort
      BY <1>1, <1>4, <2>1, <3>0 DEF ServerStep, Successor
    <3>3. ASSUME NEW k \in DOMAIN inbox', k \notin DOMAIN inbox
          PROVE  inbox'[k].of = o /\ inbox'[k].con = c
      BY <1>3, <1>4, <2>1, <3>0, <3>3 DEF Answers1
    <3>4. record'[queue[1].of].port \in {NoPort, queue[1].port}
      <4>1. queue[1].of \in Sources
        BY <1>0, <1>4, <2>1, <3>0, MessageTypes DEF Wire
      <4> QED
        BY <1>0, <3>1, <3>2, <4>1
    <3>5. \A k \in DOMAIN inbox' : k >= i /\ inbox'[k].of = queue[1].of =>
             inbox'[k].con.port \in {NoPort, queue[1].port}
      BY <1>2, <3>1, <3>2, <3>3
    <3> QED
      BY <3>4, <3>5
  <2>2. CASE i \notin DOMAIN inbox
    <3>1. Answers1(o, c, inbox'[i]) /\ i = Len(inbox')
      BY <1>3, <1>4, <2>2
    <3>2. queue[1].of = o /\ inbox'[i].con = c /\ queue # <<>>
      BY <1>4, <3>1 DEF Answers1
    <3>3. queue[1].kind \in {"PUT", "STATUS", "DELETE"}
      <4>1. 1 \in DOMAIN queue
        BY <1>0, <3>2, EmptySeq, LenProperties
      <4>2. queue[1] \in Requests
        BY <1>0, <4>1
      <4> QED
        BY <4>2 DEF Requests
    <3>4. c.port \in {NoPort, queue[1].port}
      BY <1>1, <1>4, <3>1, <3>3 DEF Answers1, Registers
    <3>5. \A k \in DOMAIN inbox' : k >= i => k = i
      BY <1>0, <3>1
    <3> QED
      BY <1>0, <3>2, <3>4, <3>5
  <2> QED
    BY <2>1, <2>2
<1> QED
  BY <1>0, <1>4 DEF Answering

LEMMA StepKeepsAnswering ==
  ASSUME Ordered, Base, Answering, [Next]_vars
  PROVE  Answering'
<1>0. Typed /\ TypeOK /\ StepShape
  BY StepHasShape DEF Base, Typed
<1>1. ASSUME QueueGrows \/ UNCHANGED queue, record' = record, inbox' = inbox \/ inbox' = Answers(inbox)
      PROVE  Answering'
  BY <1>1, AnsweringKept
<1>2. ASSUME NEW o \in Sources, CaptureStep(o) PROVE Answering'
  BY <1>1, <1>2 DEF CaptureStep, srv
<1>3. ASSUME NEW o \in Sources, DestroyCallback(o) \/ Destroy(o) PROVE Answering'
  <2>1. UNCHANGED <<queue, inbox, record>>
    BY <1>0, <1>3, DestroyFields DEF srv
  <2> QED
    BY <1>1, <2>1
<1>4. ASSUME NEW o \in Sources, ParallelAnswered(o) PROVE Answering'
  BY <1>1, <1>4 DEF ParallelAnswered, Subscribers, srv
<1>5. ASSUME NEW i, MessageStep(i) PROVE Answering'
  <2>0. i = 1 /\ MessageStep(1)
    BY <1>5 DEF MessageStep
  <2>1. /\ 1 \in DOMAIN inbox
        /\ \A j \in DOMAIN inbox' : j + 1 \in DOMAIN inbox /\ inbox'[j] = inbox[j + 1] /\ j + 1 > 1
    BY <2>0, MessagesMoveOn
  <2>2. CASE IsAnswer(inbox[1])
    <3>1. \A j \in DOMAIN inbox' : ~ IsAnswer(inbox'[j])
      BY <2>1, <2>2 DEF Base, Wire
    <3> QED
      BY <3>1 DEF Answering
  <2>3. CASE ~ IsAnswer(inbox[1])
    <3>1. queue' = queue /\ record' = record
      BY <2>0, <2>3 DEF MessageStep
    <3>2. \A j, k \in DOMAIN inbox' : k >= j => k + 1 >= j + 1
      <4>1. DOMAIN inbox' = 1 .. Len(inbox')
        BY <2>0, MessagesMoveOn
      <4> QED
        BY <4>1
    <3> QED
      BY <2>1, <3>1, <3>2 DEF Answering
  <2> QED
    BY <2>2, <2>3
<1>6. CASE Disconnected \/ LogoutSucceeded
  BY <1>1, <1>6 DEF Disconnected, LogoutSucceeded
<1>7. CASE WebSocketReady
  <2>1. QueueGrows \/ UNCHANGED queue
    BY <1>0, <1>7, WebSocketReadyTakesStep
  <2> QED
    BY <1>1, <1>7, <2>1 DEF WebSocketReady
<1>8. ASSUME NEW S, PutsStep(S),
             UNCHANGED <<src, downlinks, record, subs, token, parallel, inbox, up, again, unserved, unheard>>
      PROVE Answering'
  BY <1>1, <1>8 DEF PutsStep
<1>9. ASSUME NEW o, NEW c, ServerStep(o, c) PROVE Answering'
  BY <1>9, ServerKeepsAnswering
<1>10. CASE Quiet
  BY <1>1, <1>10 DEF Quiet
<1> QED
  BY Zenon, <1>0, <1>2, <1>3, <1>4, <1>5, <1>6, <1>7, <1>8, <1>9, <1>10 DEF StepShape

\* onDownlinkReady keeps the decoder only for a connection with the same passphrase, and
\* that one has the same port.
LEMMA StepKeepsTuned ==
  ASSUME Ordered, Base, Trail, Tuned, [Next]_vars
  PROVE  Tuned'
<1>0. Typed /\ TypeOK /\ src \in [Sources -> Source] /\ StepShape
  BY StepHasShape DEF Base, Typed, TypeOK
<1>1. src' = src => Tuned'
  BY DEF Tuned
<1>2. ASSUME NEW o \in Sources, CaptureStep(o) PROVE Tuned'
  BY <1>2 DEF CaptureStep, Tuned
<1>3. ASSUME NEW o \in Sources, DestroyCallback(o) \/ Destroy(o) PROVE Tuned'
  <2>1. /\ \A q \in Sources : q # o => src'[q] = src[q]
        /\ DestroyCallback(o) => src'[o].input = NoConnection
        /\ Destroy(o) => src[o].life = "leaving" /\ src'[o].input \in {src[o].input, NoConnection}
    BY <1>0, <1>3, DestroyFields
  <2> QED
    BY <1>3, <2>1 DEF Tuned
<1>4. CASE LogoutSucceeded
  <2>1. \A o \in Sources : src'[o] = IF Present(o) THEN Reset(src[o], NoConnection) ELSE src[o]
    BY <1>0, <1>4 DEF LogoutSucceeded
  <2>2. \A o \in Sources : src'[o].input = NoConnection \/ src'[o] = src[o]
    BY <1>0, <2>1, UnconnectedReset
  <2> QED
    BY <2>2 DEF Tuned
<1>5. ASSUME NEW i, MessageStep(i) PROVE Tuned'
  <2>0. i = 1 /\ MessageStep(1)
    BY <1>5 DEF MessageStep
  <2>1. PICK o \in Sources : o = inbox[1].of
    BY <2>0, MessageFields
  <2> DEFINE c == inbox[1].con
             t == DownlinkReady(src[o], c)
             u == Reset(src[o], NoConnection)
  <2>2. /\ c \in Connections /\ src[o] \in Source /\ 1 \in DOMAIN inbox
        /\ \A q \in Sources : q # o => src'[q] = src[q]
    BY <2>0, <2>1, MessageFields, MessagesMoveOn DEF MessageStep
  <2>9. src'[o] \in {src[o], t, u}
    <3>1. Ready(inbox[1]) \/ RemovedBy(inbox[1]) \/ FailedBy(inbox[1]) \/ IgnoredAfter(inbox[1])
      BY <2>0 DEF MessageStep
    <3> QED
      BY <2>1, <3>1 DEF Ready, RemovedBy, FailedBy, IgnoredAfter
  <2>3. u.input = NoConnection
    BY <2>2, UnconnectedReset
  <2>4. t.input # NoConnection => t.life = "live" /\ t.input.port = t.connection.port
    <3>1. /\ t.life = src[o].life /\ t.connection = c
          /\ t.input = IF ~ ReconnectionNeeded(src[o], c) THEN src[o].input
                       ELSE IF src[o].life = "live" THEN Input(c) ELSE NoConnection
      BY <2>2, DownlinkReadyFields
    <3>2. CASE ReconnectionNeeded(src[o], c)
      BY <3>1, <3>2 DEF Input
    <3>3. CASE ~ ReconnectionNeeded(src[o], c) /\ t.input # NoConnection
      <4>1. src[o].connection.key = c.key
        BY <3>3 DEF ReconnectionNeeded
      <4>2. Trails(src[o].connection, c)
        BY <2>1, <2>2 DEF Trail
      <4>3. src[o].connection # NoConnection => src[o].connection.port = c.port
        BY <4>1, <4>2 DEF Trails
      <4>4. src[o].connection = NoConnection => c = NoConnection
        BY <2>2, <4>1, ConnectionTypes, SourceTypes
      <4>5. src[o].connection.port = c.port
        BY <4>3, <4>4
      <4>6. src[o].life = "live" /\ src[o].input.port = src[o].connection.port
        BY <3>1, <3>3 DEF Tuned
      <4> QED
        BY <3>1, <3>3, <4>5, <4>6
    <3> QED
      BY <3>2, <3>3
  <2> HIDE DEF t, u
  <2> QED
    BY <2>2, <2>3, <2>4, <2>9 DEF Tuned
<1>6. CASE Disconnected \/ WebSocketReady
  BY <1>1, <1>6 DEF Disconnected, WebSocketReady
<1>7. ASSUME NEW S, PutsStep(S),
             UNCHANGED <<src, downlinks, record, subs, token, parallel, inbox, up, again, unserved, unheard>>
      PROVE Tuned'
  BY <1>1, <1>7
<1>8. ASSUME NEW o \in Sources, ParallelAnswered(o) PROVE Tuned'
  BY <1>1, <1>8 DEF ParallelAnswered
<1>9. ASSUME NEW o, NEW c, ServerStep(o, c) PROVE Tuned'
  BY <1>1, <1>9 DEF ServerStep
<1>10. CASE Quiet
  BY <1>1, <1>10 DEF Quiet
<1> QED
  BY Zenon, <1>0, <1>2, <1>3, <1>4, <1>5, <1>6, <1>7, <1>8, <1>9, <1>10 DEF StepShape

LEMMA StepKeepsOffline ==
  ASSUME ~ Logouts, Base, Offline, [Next]_vars
  PROVE  Offline'
<1> SUFFICES ASSUME ~ linked' PROVE Offline'
  BY DEF Offline
<1>0. Typed /\ TypeOK /\ StepShape
  BY StepHasShape DEF Base, Typed
<1>1. CASE linked
  <2>1. ASSUME NEW o \in Sources, CaptureStep(o) PROVE FALSE
    BY <1>1, <2>1 DEF CaptureStep
  <2>2. ASSUME NEW o \in Sources, DestroyCallback(o) \/ Destroy(o) \/ ParallelAnswered(o) PROVE FALSE
    BY <1>1, <2>2 DEF DestroyCallback, Destroy, ParallelAnswered, api
  <2>3. ASSUME NEW o, NEW c, ServerStep(o, c) PROVE FALSE
    BY <1>1, <2>3 DEF ServerStep
  <2>4. ASSUME NEW i, MessageStep(i) PROVE FALSE
    BY <1>1, <2>4 DEF MessageStep
  <2>5. ~ LogoutSucceeded /\ ~ Disconnected /\ ~ WebSocketReady /\ ~ Quiet
    BY <1>1 DEF LogoutSucceeded, Disconnected, WebSocketReady, Quiet, api
  <2> QED
    BY Zenon, <1>0, <2>1, <2>2, <2>3, <2>4, <2>5 DEF StepShape
<1>2. CASE ~ linked
  <2>0. /\ queue = <<>> /\ inbox = <<>> /\ downlinks = {}
        /\ \A o \in Sources : record[o] = NoConnection /\ parallel[o] = "none"
        /\ DOMAIN inbox = {} /\ Len(inbox) = 0
    BY <1>2 DEF Offline
  <2>1. ASSUME UNCHANGED <<queue, inbox, downlinks, record>>, ParallelKept
        PROVE  Offline'
    BY <2>0, <2>1 DEF Offline, ParallelKept
  <2>2. ASSUME NEW o \in Sources, CaptureStep(o) PROVE Offline'
    BY <1>2, <2>1, <2>2 DEF CaptureStep, srv, ParallelKept
  <2>3. ASSUME NEW o \in Sources, DestroyCallback(o) \/ Destroy(o) PROVE Offline'
    <3>1. UNCHANGED <<queue, inbox, downlinks, record>>
      BY <1>0, <2>3, DestroyFields DEF srv
    <3>2. parallel' = parallel
      BY <1>2, <2>3 DEF DestroyCallback, Destroy, net
    <3> QED
      BY <2>1, <3>1, <3>2 DEF ParallelKept
  <2>4. ASSUME NEW o \in Sources, ParallelAnswered(o) PROVE Offline'
    BY <2>0, <2>4 DEF ParallelAnswered
  <2>5. ASSUME NEW o, NEW c, ServerStep(o, c), ParallelKept PROVE Offline'
    <3>1. /\ o \in Sources /\ c \in Connections /\ record' = [record EXCEPT ![o] = c]
          /\ UNCHANGED <<queue, downlinks>>
          /\ inbox' \in Seq(Messages) /\ Len(inbox') \in Nat
      BY <2>5 DEF ServerStep
    <3>2. c = NoConnection
      <4>1. c = record[o] \/ c = NoConnection \/ queue # <<>> \/ (c # NoConnection /\ c.key = record[o].key)
        BY <2>5 DEF ServerStep, Successor
      <4> QED
        BY <2>0, <3>1, <4>1, ConnectionTypes
    <3>3. record' = record
      BY <1>0, <2>0, <3>1, <3>2 DEF TypeOK
    <3>4. ~ \E i \in 1 .. Len(inbox') : i > Len(inbox)
      <4>1. \A i \in 1 .. Len(inbox') : ~ Answers1(o, c, inbox'[i])
        BY <2>0 DEF Answers1
      <4> QED
        BY <2>0, <2>5, <3>1, <3>2, <4>1 DEF ServerStep
    <3>5. inbox' = <<>>
      BY <2>0, <3>1, <3>4, EmptySeq
    <3> QED
      BY <2>0, <2>1, <2>5, <3>1, <3>3, <3>5
  <2>6. ASSUME NEW i \in DOMAIN inbox, MessageStep(i) PROVE FALSE
    BY <2>0, <2>6
  <2>7. ~ LogoutSucceeded /\ ~ WebSocketReady
    BY <1>2 DEF LogoutSucceeded, WebSocketReady
  <2>8. CASE Disconnected
    <3>1. inbox' = <<>>
      BY <2>0, <2>8 DEF Disconnected, Answers, ToSet
    <3> QED
      BY <2>0, <2>1, <2>8, <3>1 DEF Disconnected, api, ParallelKept
  <2>9. CASE Quiet
    BY <2>1, <2>9 DEF Quiet
  <2> QED
    BY Zenon, <1>0, <2>2, <2>3, <2>4, <2>5, <2>6, <2>7, <2>8, <2>9 DEF StepShape
<1> QED
  BY <1>1, <1>2

\* releasePort and getFreePort: a port is given back, and taken by another source, long
\* before the decoder that listens at it is told to leave; yet no two decoders listen at one
\* port, for the queue answers the request that moves the one before the other's - if answers
\* and pushes arrive in order, nobody logs out in between, and all was served.
THEOREM DecodersStayApart ==
  ASSUME Ordered, ~ Dangling, ~ Logouts
  PROVE  Spec => []DecodersApart
<1> DEFINE IInv == /\ Base /\ Known /\ Trail /\ PortsInv
                   /\ Answering /\ Tuned /\ Offline /\ Claims
<1>1. Init => IInv
  <2> SUFFICES ASSUME Init PROVE Answering /\ Tuned /\ Offline /\ Claims
    BY InitBase, InitKnown, InitTrail, InitPorts
  <2>1. /\ \A o \in Sources : src[o] = NewSource /\ record[o] = NoConnection /\ parallel[o] = "none"
        /\ queue = <<>> /\ inbox = <<>> /\ downlinks = {}
    BY DEF Init
  <2>2. Answering /\ Tuned /\ Offline
    BY <2>1, NewSourceType DEF Answering, Tuned, Offline
  <2>3. \A o \in Sources, x \in Ports : Holds(o, x) => x = NoPort
    BY <2>1, NewSourceType, ConnectionTypes DEF Holds
  <2> QED
    BY <2>1, <2>2, <2>3 DEF Claims, HoldsOwn, AsksAfter, GetsAfter, HoldApart
<1>2. IInv /\ [Next]_vars => IInv'
  <2> SUFFICES ASSUME IInv, [Next]_vars PROVE IInv'
    OBVIOUS
  <2>1. Base' /\ Known' /\ Trail' /\ PortsInv' /\ Answering' /\ Tuned' /\ Offline'
    BY StepKeepsBase, StepKeepsKnown, StepKeepsTrail, StepKeepsPorts, StepKeepsAnswering, StepKeepsTuned, StepKeepsOffline
  <2> QED
    BY <2>1, StepKeepsClaims DEF Base
<1>3. IInv => DecodersApart
  <2> SUFFICES ASSUME IInv, NEW o \in Sources, NEW p \in Sources, o \notin unserved, p \notin unserved, o # p,
                      src[o].input.port # NoPort, src[o].input.port = src[p].input.port
               PROVE  FALSE
    BY DEF DecodersApart
  <2>1. src[o].input # NoConnection /\ src[p].input # NoConnection /\ src[o] \in Source
    BY ConnectionTypes DEF Base, Typed, TypeOK
  <2>2. /\ src[o].life = "live" /\ src[o].input.port = src[o].connection.port
        /\ src[p].life = "live" /\ src[p].input.port = src[p].connection.port
    BY <2>1 DEF Tuned
  <2>3. src[o].connection.port \in Ports
    BY <2>1, SourceTypes, ConnectionTypes
  <2>4. HoldApart(o, p) /\ Holds(o, src[o].connection.port) /\ Holds(p, src[o].connection.port)
    BY <2>2 DEF Claims, Young, Holds
  <2> QED
    BY <2>2, <2>3, <2>4 DEF HoldApart
<1> HIDE DEF IInv
<1> QED
  BY <1>1, <1>2, <1>3, PTL DEF Spec

=============================================================================
