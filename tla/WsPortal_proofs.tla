---------------------------- MODULE WsPortal_proofs ----------------------------
(***************************************************************************)
(* Proofs about WsPortal, for any finite set of portals, any forms they    *)
(* may take and any number of changes and messages: a running client       *)
(* serves the portal of the setting, the dock's label tells the truth      *)
(* about its socket, a reply goes to whom it is for, and the setting       *)
(* outlives a list that is still incomplete.                               *)
(***************************************************************************)
EXTENDS WsPortal, SequenceTheorems, FiniteSetTheorems, TLAPS

\* A client record with the fields of Client.
Fields == {"status", "wsPortal", "details", "socket", "peer", "label", "refs"}
Rec(c) == c \in [Fields -> {c[f] : f \in Fields}]

\* What the label says of the socket; LabelTruthful of a record.
Labelled(c) ==
  /\ c.label = "Linked" <=> c.socket = "open"
  /\ c.label = "Retrying" => c.socket = "opening"

Entries == Forms \cup {Nobody}
Lists   == [Portals -> Entries]

\* A client that serves portal id: it has a socket for the portal, at the host of its
\* facility view or, as long as it is not connected, at none; or it met its end for want of
\* one.  And one that is stopped.
Serves(c, id) ==
  /\ c.status /\ c.wsPortal = id /\ c.details \in Forms
  /\ \/ /\ c.socket \in {"opening", "open"} /\ c.peer.id = id
        /\ c.peer.host = id \/ (c.peer.host = Nobody /\ c.socket = "opening")
     \/ c.socket = "null" /\ ~c.details.hosted
Stopped(c) == ~c.status /\ c.socket = "none"

LEMMA ClientRec == Rec(Client)
BY DEF Rec, Client, Fields

LEMMA FormHosted ==
  ASSUME NEW m \in Forms
  PROVE  m.hosted \in BOOLEAN /\ m # Nobody
BY PortalConstants

\* What a list says of a portal it holds.
LEMMA FormFound ==
  ASSUME NEW list \in Lists, NEW id, Found(list, id)
  PROVE  Find(list, id) = id /\ FormOf(list, id) \in Forms /\ FormOf(list, id) = list[id]
         /\ id \in Portals /\ id # Nobody
BY PortalConstants DEF Lists, Entries, Found, Find, FormOf

LEMMA StopClient ==
  ASSUME NEW c, Rec(c), Labelled(c), Stopped(c) \/ c.status
  PROVE  Rec(Stop(c)) /\ Labelled(Stop(c)) /\ Stopped(Stop(c))
BY DEF Rec, Stop, Fields, Labelled, Stopped

\* open() of a client without a connection: a portal without a facility view leaves it
\* without a socket only if there was none before.
LEMMA OpenClient ==
  ASSUME NEW c, Rec(c), NEW id, c.socket \in {"none", "closed"}, c.details \in Forms, c.wsPortal = id
  PROVE  LET d == Open(c, id)
         IN  /\ Rec(d) /\ d.status = c.status /\ d.wsPortal = c.wsPortal /\ d.details = c.details
             /\ d.label = c.label
             /\ \/ d.socket = "opening" /\ d.peer.id = id /\ d.peer.host \in {id, Nobody}
                \/ d.socket = "null" /\ ~d.details.hosted /\ c.socket = "none"
<1> DEFINE here == [c EXCEPT !.socket = "opening", !.peer = [id |-> id, host |-> c.wsPortal]]
           null == [c EXCEPT !.socket = "null"]
           nowhere == [c EXCEPT !.socket = "opening", !.peer = [id |-> id, host |-> Nobody]]
<1>1. CASE c.details.hosted
  <2>1. Open(c, id) = here
    BY <1>1, FormHosted DEF Open
  <2> QED
    BY <2>1 DEF Rec, Fields
<1>2. CASE ~c.details.hosted /\ c.socket = "none"
  <2>1. Open(c, id) = null
    BY <1>2, FormHosted DEF Open
  <2> QED
    BY <1>2, <2>1 DEF Rec, Fields
<1>3. CASE ~c.details.hosted /\ c.socket = "closed"
  <2>1. Open(c, id) = nowhere
    BY <1>3, FormHosted DEF Open
  <2> QED
    BY <2>1 DEF Rec, Fields
<1> QED
  BY <1>1, <1>2, <1>3, FormHosted

\* start() of a stopped client.
LEMMA StartClient ==
  ASSUME NEW c, Rec(c), Labelled(c), Stopped(c), NEW id, NEW list \in Lists
  PROVE  /\ Rec(Start(c, id, list)) /\ Labelled(Start(c, id, list))
         /\ Found(list, id) /\ id # Nobody => Serves(Start(c, id, list), id)
         /\ ~Found(list, id) \/ id = Nobody => Stopped(Start(c, id, list))
<1> DEFINE found == [c EXCEPT !.wsPortal = Find(list, id), !.details = FormOf(list, id)]
           on == [found EXCEPT !.status = TRUE]
           opened == Open(on, id)
           done == [opened EXCEPT !.refs = @ + Volume(found.details)]
<1>1. /\ Rec(found) /\ found.wsPortal = Find(list, id) /\ found.details = FormOf(list, id)
      /\ found.socket = "none" /\ found.label = c.label /\ ~found.status
  BY DEF Rec, Fields, Stopped
<1>2. Labelled(found) /\ Stopped(found)
  BY <1>1 DEF Labelled, Stopped
<1>3. Start(c, id, list) = IF id = Nobody THEN c
                           ELSE IF found.wsPortal = Nobody THEN found ELSE done
  BY DEF Start, Stopped
<1> HIDE DEF found
<1>4. CASE id = Nobody
  BY <1>3, <1>4
<1>5. CASE id # Nobody /\ ~Found(list, id)
  BY <1>1, <1>2, <1>3, <1>5 DEF Find
<1>6. CASE id # Nobody /\ Found(list, id)
  <2>0. found.wsPortal = id /\ found.details \in Forms
    BY <1>1, <1>6, FormFound
  <2>1. /\ Rec(on) /\ on.status = TRUE /\ on.wsPortal = id /\ on.socket = "none"
        /\ on.label = c.label /\ on.details \in Forms
    BY <1>1, <2>0 DEF Rec, Fields
  <2> HIDE DEF on
  <2>2. /\ Rec(opened) /\ opened.status = TRUE /\ opened.wsPortal = id /\ opened.label = c.label
        /\ opened.details \in Forms
        /\ \/ opened.socket = "opening" /\ opened.peer.id = id /\ opened.peer.host \in {id, Nobody}
           \/ opened.socket = "null" /\ ~opened.details.hosted
    BY <2>1, OpenClient
  <2> HIDE DEF opened
  <2>3. /\ Rec(done) /\ done.socket = opened.socket /\ done.peer = opened.peer
        /\ done.status = opened.status /\ done.wsPortal = opened.wsPortal
        /\ done.label = opened.label /\ done.details = opened.details
    BY <2>2 DEF Rec, Fields
  <2>4. Start(c, id, list) = done
    BY <1>3, <1>6, <2>0
  <2> HIDE DEF done
  <2>5. Serves(done, id)
    BY <2>2, <2>3 DEF Serves
  <2>6. Labelled(done)
    BY <2>2, <2>3 DEF Labelled, Stopped
  <2> QED
    BY <1>6, <2>3, <2>4, <2>5, <2>6
<1> QED
  BY <1>4, <1>5, <1>6

LEMMA RestartClient ==
  ASSUME NEW c, Rec(c), Labelled(c), Stopped(c) \/ c.status, NEW id, NEW list \in Lists
  PROVE  /\ Rec(Restart(c, id, list)) /\ Labelled(Restart(c, id, list))
         /\ Found(list, id) /\ id # Nobody => Serves(Restart(c, id, list), id)
         /\ ~Found(list, id) \/ id = Nobody => Stopped(Restart(c, id, list))
BY StopClient, StartClient DEF Restart

\* The client's slot: a running client keeps its socket, a stopped one starts if the
\* portal of the setting is in the list.
LEMMA OnPortalsClient ==
  ASSUME NEW c, Rec(c), Labelled(c), NEW list \in Lists, wsPortalId # Nobody \/ Stopped(c),
         Stopped(c) \/ Serves(c, wsPortalId), c.socket # "null"
  PROVE  /\ Rec(OnPortals(c, list)) /\ Labelled(OnPortals(c, list))
         /\ Stopped(OnPortals(c, list)) \/ OnPortals(c, list).status
         /\ Found(list, wsPortalId) /\ wsPortalId # Nobody => Serves(OnPortals(c, list), wsPortalId)
         /\ Stopped(c) /\ ~(Found(list, wsPortalId) /\ wsPortalId # Nobody) => Stopped(OnPortals(c, list))
<1> DEFINE c1 == [c EXCEPT !.wsPortal = Find(list, wsPortalId), !.details = FormOf(list, wsPortalId)]
<1>1. /\ Rec(c1) /\ c1.wsPortal = Find(list, wsPortalId) /\ c1.details = FormOf(list, wsPortalId)
      /\ c1.socket = c.socket /\ c1.label = c.label /\ c1.peer = c.peer /\ c1.status = c.status
  BY DEF Rec, Fields
<1>2. OnPortals(c, list) = IF c1.wsPortal # Nobody /\ ~c1.status THEN Start(c1, wsPortalId, list) ELSE c1
  BY DEF OnPortals
<1> HIDE DEF c1
<1>3. Labelled(c1)
  BY <1>1 DEF Labelled
<1>4. CASE Stopped(c)
  <2>1. Stopped(c1)
    BY <1>1, <1>4 DEF Stopped
  <2>2. OnPortals(c, list) = c1 \/ OnPortals(c, list) = Start(c1, wsPortalId, list)
    BY <1>2
  <2>3. Found(list, wsPortalId) /\ wsPortalId # Nobody => OnPortals(c, list) = Start(c1, wsPortalId, list)
    BY <1>1, <1>2, <2>1 DEF Find, Stopped
  <2> QED
    BY <1>1, <1>3, <2>1, <2>2, <2>3, StartClient DEF Serves
<1>5. CASE Serves(c, wsPortalId)
  <2>1. OnPortals(c, list) = c1 /\ c1.status
    BY <1>1, <1>2, <1>5 DEF Serves
  <2>2. Found(list, wsPortalId) => Serves(c1, wsPortalId)
    BY <1>1, <1>5, FormFound DEF Serves
  <2> QED
    BY <1>1, <1>3, <1>5, <2>1, <2>2 DEF Serves, Stopped
<1> QED
  BY <1>4, <1>5

LEMMA ReopenClient ==
  ASSUME NEW c, Rec(c), Serves(c, wsPortalId), wsPortalId # Nobody
  PROVE  Serves(Reopen(c), wsPortalId) /\ Labelled(Reopen(c)) /\ Rec(Reopen(c))
<1> DEFINE off == [c EXCEPT !.socket = "closed"]
           opened == Open(off, wsPortalId)
           done == [opened EXCEPT !.label = "Retrying"]
<1>1. /\ Rec(off) /\ off.socket = "closed" /\ off.wsPortal = wsPortalId /\ off.status = c.status
      /\ off.details \in Forms
  BY DEF Rec, Fields, Serves
<1> HIDE DEF off
<1>2. /\ Rec(opened) /\ opened.socket = "opening" /\ opened.peer.id = wsPortalId
      /\ opened.peer.host \in {wsPortalId, Nobody}
      /\ opened.status = c.status /\ opened.wsPortal = wsPortalId /\ opened.details \in Forms
  BY <1>1, OpenClient
<1>3. Reopen(c) = done
  BY DEF Reopen, Serves, off
<1> HIDE DEF opened
<1>4. /\ Rec(done) /\ done.socket = "opening" /\ done.label = "Retrying" /\ done.status = c.status
      /\ done.wsPortal = wsPortalId /\ done.peer = opened.peer /\ done.details = opened.details
  BY <1>2 DEF Rec, Fields
<1> HIDE DEF done
<1> QED
  BY <1>2, <1>3, <1>4 DEF Serves, Labelled

-----------------------------------------------------------------------------
(* The pushes under way.                                                     *)

Pushes == [portal : Portals, form : Entries, continuous : BOOLEAN]

\* A series that is to be continued removes no portal.
PushesOK(q) ==
  /\ q \in Seq(Pushes)
  /\ \A i \in DOMAIN q : q[i].continuous => q[i].form # Nobody

LEMMA PushType ==
  ASSUME NEW p \in Portals, NEW m \in Entries, NEW c \in BOOLEAN
  PROVE  /\ Push(p, m, c) \in Pushes /\ Push(p, m, c).form = m /\ Push(p, m, c).continuous = c
BY DEF Push, Pushes

LEMMA PushAppended ==
  ASSUME NEW q, PushesOK(q), NEW p \in Portals, NEW m \in Entries
  PROVE  PushesOK(Append(q, Push(p, m, FALSE)))
<1> DEFINE x == Push(p, m, FALSE)
           s == Append(q, x)
<1>1. x \in Pushes /\ ~x.continuous
  <2>1. FALSE \in BOOLEAN
    OBVIOUS
  <2>2. x \in Pushes /\ x.continuous = FALSE
    BY <2>1, PushType
  <2> QED
    BY <2>2, Zenon
<1> HIDE DEF x
<1>2. /\ s \in Seq(Pushes) /\ Len(q) \in Nat /\ DOMAIN s = 1 .. Len(q) + 1
      /\ DOMAIN q = 1 .. Len(q) /\ s[Len(q) + 1] = x /\ \A i \in DOMAIN q : s[i] = q[i]
  BY <1>1, AppendProperties, LenProperties DEF PushesOK
<1> HIDE DEF s
<1>3. \A i \in DOMAIN s : i = Len(q) + 1 \/ (i \in DOMAIN q /\ s[i] = q[i])
  BY <1>2
<1>4. PushesOK(s)
  <2>1. ASSUME NEW i \in DOMAIN s, s[i].continuous PROVE s[i].form # Nobody
    <3>1. i # Len(q) + 1
      BY <1>1, <1>2, <2>1
    <3> QED
      BY <1>3, <2>1, <3>1 DEF PushesOK
  <2> QED
    BY <1>2, <2>1 DEF PushesOK
<1> QED
  BY <1>4 DEF s, x

LEMMA PushTaken ==
  ASSUME NEW q, PushesOK(q), q # <<>>
  PROVE  /\ PushesOK(Tail(q)) /\ Head(q).portal \in Portals /\ Head(q).form \in Entries
         /\ Head(q).continuous => Head(q).form # Nobody
<1>1. Len(q) \in Nat \ {0} /\ Len(Tail(q)) = Len(q) - 1 /\ Tail(q) \in Seq(Pushes)
  BY EmptySeq, LenProperties, HeadTailProperties DEF PushesOK
<1>2. DOMAIN q = 1 .. Len(q) /\ DOMAIN Tail(q) = 1 .. Len(q) - 1
  BY <1>1, LenProperties DEF PushesOK
<1>3. \A i \in 1 .. Len(Tail(q)) : Tail(q)[i] = q[i + 1]
  BY HeadTailProperties DEF PushesOK
<1>4. Head(q) = q[1] /\ Head(q) \in Pushes
  BY HeadTailProperties DEF PushesOK
<1>5. \A i \in DOMAIN Tail(q) : i + 1 \in DOMAIN q /\ Tail(q)[i] = q[i + 1]
  BY <1>1, <1>2, <1>3
<1> QED
  BY <1>1, <1>2, <1>4, <1>5 DEF PushesOK, Pushes

\* The series that begins a connection is of the portals the service has.
LEMMA SeriesOK ==
  ASSUME NEW has \in Lists,
         NEW order \in SetToSeqs({p \in Portals : has[p] # Nobody})
  PROVE  PushesOK([i \in DOMAIN order |-> Push(order[i], has[order[i]], i < Len(order))])
<1> DEFINE set == {p \in Portals : has[p] # Nobody}
           n == Cardinality(set)
           s == [i \in 1 .. n |-> Push(order[i], has[order[i]], i < n)]
<1>1. n \in Nat
  BY PortalConstants, FS_Subset, FS_CardinalityType
<1>2. DOMAIN order = 1 .. n /\ \A i \in 1 .. n : order[i] \in set
  BY DEF SetToSeqs
<1>3. order \in Seq(set) /\ Len(order) = n
  BY <1>1, <1>2 DEF SetToSeqs
<1> HIDE DEF n
<1>4. \A i \in 1 .. n : s[i] \in Pushes /\ s[i].form # Nobody
  <2> TAKE i \in 1 .. n
  <2> DEFINE more == i < n
             m == has[order[i]]
  <2>1. more \in BOOLEAN /\ order[i] \in Portals /\ m \in Entries /\ m # Nobody
    BY <1>2 DEF Lists
  <2>2. s[i] = Push(order[i], m, more)
    OBVIOUS
  <2> HIDE DEF more, s, m
  <2>3. Push(order[i], m, more) \in Pushes /\ Push(order[i], m, more).form = m
    BY <2>1, PushType
  <2> QED
    BY <2>1, <2>2, <2>3, Zenon
<1>5. s \in Seq(Pushes) /\ DOMAIN s = 1 .. n
  <2>1. s \in [1 .. n -> Pushes]
    BY <1>4, Zenon
  <2> HIDE DEF s
  <2> QED
    BY <1>1, <2>1
<1>6. PushesOK(s)
  BY <1>4, <1>5, Zenon DEF PushesOK
<1> QED
  BY <1>2, <1>3, <1>6

-----------------------------------------------------------------------------
(* The invariant.                                                            *)

\* What is known of the portals.
Known ==
  /\ server \in Lists /\ wsPortals \in Lists /\ PushesOK(inbox)
  /\ ~linked => feed = "never"
  /\ feed = "never" => \A p \in Portals : wsPortals[p] = Nobody

\* What the box offers is in the list, and the setting is what it shows.
Chosen ==
  /\ wsPortalId \in Portals \cup {Nobody}
  /\ current \in Portals \cup {NoneItem, Nobody}
  /\ current \in Portals => current = wsPortalId
  /\ current = NoneItem => wsPortalId = Nobody
  /\ current # Nobody => linked
  /\ \A p \in items : p \in Portals /\ wsPortals[p] # Nobody

Off == ~status /\ socket = "none"
On ==
  /\ status /\ wsPortal = wsPortalId /\ details \in Forms
  /\ \/ /\ socket \in {"opening", "open"} /\ peer.id = wsPortalId
        /\ peer.host = wsPortalId \/ (peer.host = Nobody /\ socket = "opening")
     \/ socket = "null" /\ ~details.hosted
  /\ current = wsPortalId /\ wsPortalId # Nobody

IInv == Known /\ Chosen /\ LabelTruthful /\ (Off \/ On)

\* The client's state as a record, now and after SetClient.
LEMMA ClientNow ==
  /\ LabelTruthful <=> Labelled(Client)
  /\ Off <=> Stopped(Client)
  /\ On <=> Serves(Client, wsPortalId) /\ current = wsPortalId /\ wsPortalId # Nobody
BY DEF LabelTruthful, Labelled, Off, Stopped, On, Serves, Client

LEMMA ClientNext ==
  ASSUME NEW c, SetClient(c)
  PROVE  /\ Labelled(c) => LabelTruthful'
         /\ Stopped(c) => Off'
         /\ Serves(c, wsPortalId') /\ current' = wsPortalId' /\ wsPortalId' # Nobody => On'
BY DEF SetClient, LabelTruthful, Labelled, Off, Stopped, On, Serves

LEMMA InitIInv == Init => IInv
<1> SUFFICES ASSUME Init PROVE IInv
  OBVIOUS
<1>1. PushesOK(<<>>)
  BY DEF PushesOK
<1> QED
  BY <1>1, PortalConstants DEF Init, IInv, Known, Chosen, LabelTruthful, Off, Entries, Lists

-----------------------------------------------------------------------------
(* The portals the service and the ApiClient know.                           *)

LEMMA KnownStep == IInv /\ [Next]_vars => Known'
<1> SUFFICES ASSUME IInv, [Next]_vars PROVE Known'
  OBVIOUS
<1>0. /\ server \in Lists /\ wsPortals \in Lists /\ PushesOK(inbox)
      /\ (~linked => feed = "never") /\ (feed = "never" => \A p \in Portals : wsPortals[p] = Nobody)
  BY DEF IInv, Known
<1>1. PushesOK(<<>>)
  BY DEF PushesOK
<1>2. CASE UNCHANGED apiVars
  BY <1>0, <1>2 DEF apiVars, Known, PushesOK
<1>3. CASE Login
  BY <1>0, <1>3 DEF Login, Known, PushesOK
<1>4. CASE Logout
  <2>1. wsPortals' = [p \in Portals |-> Nobody] /\ server' = server /\ inbox' = <<>> /\ feed' = "never"
    BY <1>4 DEF Logout
  <2> QED
    BY <1>0, <1>1, <2>1 DEF Known, Entries, Lists
<1>5. CASE ApiReady
  <2>1. PICK order \in SetToSeqs({p \in Portals : server[p] # Nobody}) :
          inbox' = [i \in DOMAIN order |-> Push(order[i], server[order[i]], i < Len(order))]
    BY <1>5, Zenon DEF ApiReady
  <2>2. PushesOK([i \in DOMAIN order |-> Push(order[i], server[order[i]], i < Len(order))])
    BY <1>0, SeriesOK
  <2>3. PushesOK(inbox')
    BY <2>1, <2>2, Zenon
  <2>4. server' = server /\ wsPortals' = wsPortals /\ linked' = linked /\ linked /\ feed' = "up"
    BY <1>5 DEF ApiReady
  <2> QED
    BY <1>0, <2>3, <2>4 DEF Known
<1>6. CASE ApiDropped
  <2>1. inbox' = <<>> /\ feed' = "down" /\ linked /\ UNCHANGED <<linked, server, wsPortals>>
    BY <1>6 DEF ApiDropped
  <2> QED
    BY <1>0, <1>1, <2>1 DEF Known
<1>7. ASSUME NEW p \in Portals, ServerChanges(p) PROVE Known'
  <2>1. PICK m \in Entries : server' = [server EXCEPT ![p] = m]
    BY <1>7 DEF ServerChanges, Entries
  <2>2. server' \in Lists /\ server'[p] = m
    BY <1>0, <2>1 DEF Lists
  <2>3. inbox' = inbox \/ inbox' = Append(inbox, Push(p, m, FALSE))
    <3>1. inbox' = inbox \/ inbox' = Append(inbox, Push(p, server'[p], FALSE))
      BY <1>7, Zenon DEF ServerChanges
    <3> QED
      BY <2>2, <3>1, Zenon
  <2>4. PushesOK(inbox')
    <3>1. PushesOK(Append(inbox, Push(p, m, FALSE)))
      BY <1>0, PushAppended
    <3> QED
      BY <1>0, <2>3, <3>1, Zenon
  <2>5. UNCHANGED <<linked, feed, wsPortals>>
    BY <1>7 DEF ServerChanges
  <2> QED
    BY <1>0, <2>2, <2>4, <2>5 DEF Known
<1>8. CASE PushArrives
  <2>1. PushesOK(Tail(inbox)) /\ Head(inbox).portal \in Portals /\ Head(inbox).form \in Entries
    BY <1>0, <1>8, PushTaken DEF PushArrives
  <2>2. /\ inbox' = Tail(inbox) /\ wsPortals' = [wsPortals EXCEPT ![Head(inbox).portal] = Head(inbox).form]
        /\ UNCHANGED <<linked, feed, server>> /\ linked /\ feed = "up"
    BY <1>8 DEF PushArrives
  <2>3. wsPortals' \in Lists
    BY <1>0, <2>1, <2>2 DEF Lists
  <2> QED
    BY <1>0, <2>1, <2>2, <2>3 DEF Known
<1>9. ASSUME NEW sel \in Portals \cup {NoneItem}, UserSelects(sel) PROVE Known'
  BY <1>2, <1>9 DEF UserSelects
<1>10. ASSUME NEW results, NEW halt, Request(results, halt) PROVE Known'
  BY <1>2, <1>10 DEF Request
<1>11. ASSUME NEW intent, RelayBegins(intent) PROVE Known'
  BY <1>2, <1>11 DEF RelayBegins
<1>12. CASE UNCHANGED vars \/ Connected \/ Disconnected \/ RelayEnds \/ SendRuns \/ Destroy \/ Settle
  BY <1>2, <1>12 DEF vars, Connected, Disconnected, RelayEnds, SendRuns, Destroy, Settle
<1> QED
  BY <1>3, <1>4, <1>5, <1>6, <1>7, <1>8, <1>9, <1>10, <1>11, <1>12 DEF Next

-----------------------------------------------------------------------------
(* The selection and the client.                                             *)

\* What the steps preserve besides Known.
Served == Chosen /\ LabelTruthful /\ (Off \/ On)

\* A changed selection: the client keeps its socket only if it already serves it.
LEMMA SelectionClient ==
  ASSUME NEW list \in Lists, NEW sel \in Portals \cup {NoneItem, Nobody}, sel \in Portals => Found(list, sel),
         NEW c, Rec(c), Labelled(c), Stopped(c) \/ c.status,
         wsPortalId = Find(list, sel)
           => Stopped(c) \/ (Serves(c, wsPortalId) /\ sel = wsPortalId /\ wsPortalId # Nobody)
  PROVE  LET out == ActiveChanged(sel, list, c)
         IN  /\ out.id = IF sel \in Portals THEN sel ELSE Nobody
             /\ Labelled(out.client)
             /\ Stopped(out.client) \/ (Serves(out.client, out.id) /\ sel = out.id /\ out.id # Nobody)
<1> DEFINE id == Find(list, sel)
           client == IF wsPortalId # id THEN Restart(c, id, list) ELSE c
           out == ActiveChanged(sel, list, c)
<1>1. out.id = id /\ out.client = client
  BY DEF ActiveChanged
<1>2. id = IF sel \in Portals THEN sel ELSE Nobody
  BY DEF Find, Found
<1>3. sel \in Portals => Found(list, id) /\ id # Nobody /\ sel = id
  BY <1>2, PortalConstants
<1>4. sel \notin Portals => id = Nobody
  BY <1>2
<1> HIDE DEF id, out
<1>5. CASE wsPortalId # id
  <2>1. client = Restart(c, id, list)
    BY <1>5
  <2>2. /\ Labelled(client)
        /\ Found(list, id) /\ id # Nobody => Serves(client, id)
        /\ ~Found(list, id) \/ id = Nobody => Stopped(client)
    BY <2>1, RestartClient
  <2> HIDE DEF client
  <2> QED
    BY <1>1, <1>2, <1>3, <1>4, <2>2 DEF out
<1>6. CASE wsPortalId = id
  <2>1. client = c /\ (Stopped(c) \/ (Serves(c, id) /\ sel = id /\ id # Nobody))
    BY <1>6 DEF id
  <2> HIDE DEF client
  <2> QED
    BY <1>1, <1>2, <2>1 DEF out
<1> QED
  BY <1>5, <1>6

LEMMA PortalsReadyServed ==
  ASSUME IInv, NEW list \in Lists, PortalsReady(list), wsPortals' = list, linked',
         socket # "null"
  PROVE  Served'
<1> DEFINE c1 == OnPortals(Client, list)
           sel == Selected(list)
           out == ActiveChanged(sel, list, c1)
<1>1. /\ wsPortalId \in Portals \cup {Nobody} /\ current \in Portals \cup {NoneItem, Nobody}
      /\ (current \in Portals => current = wsPortalId) /\ (current = NoneItem => wsPortalId = Nobody)
  BY DEF IInv, Chosen
<1>2. /\ sel \in Portals \cup {NoneItem, Nobody} /\ (sel \in Portals => Found(list, sel))
      /\ (sel = Nobody => \A p \in Portals : list[p] = Nobody)
  BY <1>1, PortalConstants DEF Selected, Found
<1>3. /\ Rec(Client) /\ Labelled(Client) /\ (Stopped(Client) \/ Serves(Client, wsPortalId))
      /\ (wsPortalId # Nobody \/ Stopped(Client)) /\ Client.socket # "null"
  BY ClientRec, ClientNow DEF IInv, Client
<1>4. /\ Rec(c1) /\ Labelled(c1) /\ (Stopped(c1) \/ c1.status)
      /\ (Found(list, wsPortalId) /\ wsPortalId # Nobody => Serves(c1, wsPortalId))
      /\ (Stopped(Client) /\ ~(Found(list, wsPortalId) /\ wsPortalId # Nobody) => Stopped(c1))
  BY <1>3, OnPortalsClient
<1>5. /\ items' = {p \in Portals : list[p] # Nobody} /\ current' = sel
      /\ current # sel => wsPortalId' = out.id /\ SetClient(out.client)
      /\ current = sel => wsPortalId' = wsPortalId /\ SetClient(c1)
  BY DEF PortalsReady
<1> HIDE DEF c1, sel
<1>6. CASE current # sel
  <2>1. ASSUME wsPortalId = Find(list, sel)
        PROVE  Stopped(c1) \/ (Serves(c1, wsPortalId) /\ sel = wsPortalId /\ wsPortalId # Nobody)
    <3>1. CASE sel \in Portals
      BY <1>2, <1>4, <2>1, <3>1, PortalConstants DEF Find
    <3>2. CASE sel \notin Portals
      <4>1. wsPortalId = Nobody
        BY <2>1, <3>2 DEF Find, Found
      <4> QED
        BY <1>3, <1>4, <4>1
    <3> QED
      BY <3>1, <3>2
  <2>2. /\ out.id = (IF sel \in Portals THEN sel ELSE Nobody)
        /\ Labelled(out.client)
        /\ Stopped(out.client) \/ (Serves(out.client, out.id) /\ sel = out.id /\ out.id # Nobody)
    BY <1>2, <1>4, <2>1, SelectionClient
  <2> HIDE DEF out
  <2>3. LabelTruthful' /\ (Off' \/ On')
    BY <1>5, <1>6, <2>2, ClientNext
  <2>4. Chosen'
    BY <1>2, <1>5, <1>6, <2>2, PortalConstants DEF Chosen
  <2> QED
    BY <2>3, <2>4 DEF Served
<1>7. CASE current = sel
  <2>1. Stopped(c1) \/ (Serves(c1, wsPortalId) /\ sel = wsPortalId /\ wsPortalId # Nobody)
    <3>1. CASE sel \in Portals
      BY <1>1, <1>2, <1>4, <1>7, <3>1, PortalConstants
    <3>2. CASE sel = NoneItem
      BY <1>1, <1>3, <1>4, <1>7, <3>2
    <3>3. CASE sel = Nobody
      <4>1. ~Found(list, wsPortalId)
        BY <1>2, <3>3 DEF Found
      <4>2. Stopped(Client)
        BY <1>7, <3>3, ClientNow DEF IInv, On
      <4> QED
        BY <1>4, <4>1, <4>2
    <3> QED
      BY <1>2, <3>1, <3>2, <3>3
  <2>2. LabelTruthful' /\ (Off' \/ On')
    BY <1>4, <1>5, <1>7, <2>1, ClientNext
  <2>3. Chosen'
    BY <1>1, <1>2, <1>5, <1>7, PortalConstants DEF Chosen
  <2> QED
    BY <2>2, <2>3 DEF Served
<1> QED
  BY <1>6, <1>7

LEMMA SameServed ==
  ASSUME IInv, UNCHANGED <<boxVars, clientVars, wsPortals>>, linked' = linked \/ linked'
  PROVE  Served'
BY DEF IInv, Served, Chosen, LabelTruthful, Off, On, boxVars, clientVars

LEMMA LogoutServed == IInv /\ Logout => Served'
<1> SUFFICES ASSUME IInv, Logout PROVE Served'
  OBVIOUS
<1> DEFINE stopped == Stop(Client)
           none == [p \in Portals |-> Nobody]
           out == ActiveChanged(Nobody, none, stopped)
<1>1. Rec(stopped) /\ Labelled(stopped) /\ Stopped(stopped)
  BY ClientRec, ClientNow, StopClient DEF IInv, Stopped, Serves
<1> HIDE DEF stopped
<1>2. Nobody \notin Portals /\ none \in Lists
  BY PortalConstants DEF Lists, Entries
<1>3. out.id = Nobody /\ Labelled(out.client) /\ Stopped(out.client)
  BY <1>1, <1>2, SelectionClient
<1>4. /\ items' = {} /\ current' = Nobody /\ wsPortals' = none
      /\ current # Nobody => wsPortalId' = out.id /\ SetClient(out.client)
      /\ current = Nobody => wsPortalId' = wsPortalId /\ SetClient(stopped)
  BY Zenon DEF Logout, stopped
<1> HIDE DEF out
<1>5. LabelTruthful' /\ Off'
  BY <1>1, <1>3, <1>4, ClientNext
<1>6. Chosen'
  BY <1>2, <1>3, <1>4, PortalConstants DEF IInv, Chosen
<1> QED
  BY <1>5, <1>6 DEF Served

\* The first `ready' of a session finds no portal to start with.
LEMMA ApiReadyServed == IInv /\ ApiReady => Served'
<1> SUFFICES ASSUME IInv, ApiReady PROVE Served'
  OBVIOUS
<1>1. CASE feed # "never"
  <2>1. UNCHANGED <<boxVars, clientVars, wsPortals, linked>>
    BY <1>1 DEF ApiReady
  <2> QED
    BY <2>1, SameServed
<1>2. CASE feed = "never"
  <2> DEFINE c == Start(Client, wsPortalId, wsPortals)
  <2>1. SetClient(c) /\ UNCHANGED <<items, current, wsPortalId, wsPortals, linked>>
    BY <1>2 DEF ApiReady, boxVars
  <2>2. Rec(Client) /\ Labelled(Client) /\ wsPortals \in Lists
    BY ClientRec, ClientNow DEF IInv, Known
  <2>3. ~Found(wsPortals, wsPortalId)
    BY <1>2 DEF IInv, Known, Found
  <2>4. CASE Off
    <3>1. Labelled(c) /\ Stopped(c)
      BY <2>2, <2>3, <2>4, ClientNow, StartClient
    <3> HIDE DEF c
    <3> QED
      BY <2>1, <3>1, ClientNext DEF Served, IInv, Chosen
  <2>5. CASE On
    <3>1. Serves(Client, wsPortalId) /\ current = wsPortalId /\ wsPortalId # Nobody
      BY <2>5, ClientNow
    <3>2. c = Client
      BY <3>1 DEF Start, Serves
    <3> HIDE DEF c
    <3>3. LabelTruthful' /\ On'
      BY <2>1, <2>2, <3>1, <3>2, ClientNext
    <3> QED
      BY <2>1, <3>3 DEF Served, IInv, Chosen
  <2> QED
    BY <2>4, <2>5 DEF IInv
<1> QED
  BY <1>1, <1>2

LEMMA PushArrivesServed == IInv /\ PushArrives => Served'
<1> SUFFICES ASSUME IInv, PushArrives PROVE Served'
  OBVIOUS
<1> DEFINE push == Head(inbox)
<1>1. /\ push.portal \in Portals /\ push.form \in Entries
      /\ (push.continuous => push.form # Nobody) /\ wsPortals \in Lists
  BY PushTaken DEF IInv, Known, PushArrives
<1>2. /\ wsPortals' = [wsPortals EXCEPT ![push.portal] = push.form]
      /\ linked /\ linked' = linked /\ socket # "null"
  BY DEF PushArrives, Running
<1>3. wsPortals' \in Lists
  BY <1>1, <1>2 DEF Lists
<1>4. CASE push.continuous \/ (push.form = Nobody /\ wsPortals[push.portal] = Nobody)
  <2>1. UNCHANGED <<boxVars, clientVars>>
    BY <1>4 DEF PushArrives
  <2>2. \A p \in Portals : wsPortals[p] # Nobody => wsPortals'[p] # Nobody
    BY <1>1, <1>2, <1>4
  <2> QED
    BY <1>2, <2>1, <2>2
       DEF IInv, Served, Chosen, LabelTruthful, Off, On, boxVars, clientVars
<1>5. CASE ~(push.continuous \/ (push.form = Nobody /\ wsPortals[push.portal] = Nobody))
  <2>1. PortalsReady(wsPortals')
    BY <1>5 DEF PushArrives
  <2> DEFINE list == [wsPortals EXCEPT ![push.portal] = push.form]
  <2>2. PortalsReady(list)
    BY <1>2, <2>1 DEF PortalsReady, ActiveChanged, OnPortals, Selected
  <2>3. list \in Lists /\ wsPortals' = list /\ linked' /\ socket # "null"
    BY <1>2, <1>3
  <2> HIDE DEF list
  <2> QED
    BY <2>2, <2>3, PortalsReadyServed
<1> QED
  BY <1>4, <1>5

LEMMA UserSelectsServed ==
  ASSUME IInv, NEW sel \in Portals \cup {NoneItem}, UserSelects(sel)
  PROVE  Served'
<1> DEFINE out == ActiveChanged(sel, wsPortals, Client)
<1>1. /\ sel \in items \cup {NoneItem} /\ sel # current /\ current # Nobody /\ linked /\ linked' = linked
      /\ current' = sel /\ wsPortalId' = out.id /\ SetClient(out.client)
      /\ items' = items /\ wsPortals' = wsPortals
  BY DEF UserSelects, apiVars, IInv, Chosen
<1>2. wsPortals \in Lists /\ (sel \in Portals => Found(wsPortals, sel))
  BY <1>1, PortalConstants DEF IInv, Known, Chosen, Found
<1>3. /\ Rec(Client) /\ Labelled(Client) /\ (Stopped(Client) \/ Client.status)
      /\ (Stopped(Client) \/ (Serves(Client, wsPortalId) /\ current = wsPortalId /\ wsPortalId # Nobody))
  BY ClientRec, ClientNow DEF IInv, Serves
<1>4. Find(wsPortals, sel) = IF sel \in Portals THEN sel ELSE Nobody
  BY <1>2 DEF Find, Found
<1>5. wsPortalId = Find(wsPortals, sel)
        => Stopped(Client) \/ (Serves(Client, wsPortalId) /\ sel = wsPortalId /\ wsPortalId # Nobody)
  BY <1>3, <1>4
<1>6. /\ out.id = (IF sel \in Portals THEN sel ELSE Nobody)
      /\ Labelled(out.client)
      /\ Stopped(out.client) \/ (Serves(out.client, out.id) /\ sel = out.id /\ out.id # Nobody)
  BY <1>2, <1>3, <1>5, SelectionClient
<1> HIDE DEF out
<1>7. LabelTruthful' /\ (Off' \/ On')
  BY <1>1, <1>6, ClientNext
<1>8. Chosen'
  BY <1>1, <1>6, PortalConstants DEF IInv, Chosen
<1> QED
  BY <1>7, <1>8 DEF Served

LEMMA SocketServed == IInv /\ (Connected \/ Disconnected \/ Destroy) => Served'
<1> SUFFICES ASSUME IInv, Connected \/ Disconnected \/ Destroy PROVE Served'
  OBVIOUS
<1>1. UNCHANGED <<items, current, wsPortalId, wsPortals, linked>>
  BY DEF Connected, Disconnected, Destroy, apiVars, boxVars
<1>2. Chosen'
  BY <1>1 DEF IInv, Chosen
<1>3. CASE Connected
  <2>1. /\ socket' = "open" /\ label' = "Linked" /\ socket = "opening" /\ peer.host # Nobody
        /\ status' = status /\ wsPortal' = wsPortal /\ details' = details /\ peer' = peer
    BY <1>3 DEF Connected
  <2>2. LabelTruthful'
    BY <2>1 DEF LabelTruthful
  <2>3. On'
    BY <1>1, <2>1 DEF IInv, Off, On
  <2> QED
    BY <1>2, <2>2, <2>3 DEF Served
<1>4. CASE Disconnected
  <2>1. SetClient(Reopen(Client)) /\ On
    BY <1>4 DEF Disconnected, IInv, Off
  <2>2. Serves(Client, wsPortalId) /\ current = wsPortalId /\ wsPortalId # Nobody /\ Rec(Client)
    BY <2>1, ClientRec, ClientNow
  <2>3. Serves(Reopen(Client), wsPortalId) /\ Labelled(Reopen(Client))
    BY <2>2, ReopenClient
  <2>4. LabelTruthful' /\ On'
    BY <1>1, <2>1, <2>2, <2>3, ClientNext
  <2> QED
    BY <1>2, <2>4 DEF Served
<1>5. CASE Destroy
  <2>1. Labelled(Stop(Client)) /\ Stopped(Stop(Client))
    BY ClientRec, ClientNow, StopClient DEF IInv, Serves
  <2>2. LabelTruthful' /\ Off'
    BY <1>5, <2>1, ClientNext DEF Destroy
  <2> QED
    BY <1>2, <2>2 DEF Served
<1> QED
  BY <1>3, <1>4, <1>5

LEMMA StepIInv == IInv /\ [Next]_vars => IInv'
<1> SUFFICES ASSUME IInv, [Next]_vars PROVE IInv'
  OBVIOUS
<1>1. ASSUME \/ UNCHANGED vars \/ Login \/ ApiDropped \/ RelayEnds \/ SendRuns \/ Settle
             \/ \E p \in Portals : ServerChanges(p)
             \/ \E results, halt : Request(results, halt)
             \/ \E intent : RelayBegins(intent)
      PROVE  Served'
  <2>1. UNCHANGED <<boxVars, clientVars, wsPortals>>
    BY <1>1 DEF vars, apiVars, Login, ApiDropped, RelayEnds, SendRuns, Settle, ServerChanges, Request,
       RelayBegins
  <2>2. linked' = linked \/ linked'
    BY <1>1 DEF vars, apiVars, Login, ApiDropped, RelayEnds, SendRuns, Settle, ServerChanges, Request,
       RelayBegins
  <2> QED
    BY <2>1, <2>2, SameServed
<1>2. Served'
  BY <1>1, LogoutServed, ApiReadyServed, PushArrivesServed, UserSelectsServed, SocketServed DEF Next
<1> QED
  BY <1>2, KnownStep DEF IInv, Served

-----------------------------------------------------------------------------
(* Theorems.                                                                 *)

\* The box, the setting and the client agree.
THEOREM PortalInvariant == Spec => []IInv
BY InitIInv, StepIInv, PTL DEF Spec

\* A running client serves the portal of the setting: its socket is for that portal, when
\* connected at the host which the portal had when it was opened, while it tries possibly
\* at none, where a list told of a portal without a facility view; and the client meets its
\* end, for want of a socket to open, only at such a portal.  A stopped one has no socket
\* (start, stop, restart, open, createWsSocket and the slots of wsPortalsReady).
THEOREM ServesTheSetting == Spec => []SocketOfSelection
<1>1. IInv => SocketOfSelection
  BY PortalConstants DEF IInv, Chosen, On, Off, SocketOfSelection
<1> QED
  BY <1>1, PortalInvariant, PTL

\* The dock's label tells the truth about the socket.
THEOREM LabelTellsTruth == Spec => []LabelTruthful
<1>1. IInv => LabelTruthful
  BY DEF IInv
<1> QED
  BY <1>1, PortalInvariant, PTL

-----------------------------------------------------------------------------
(* The answers that wait to be sent.                                         *)

Entry == [reply : BOOLEAN, for : Portals \cup {Nobody}]
Posted ==
  /\ outbox \in Seq(Entry)
  /\ relaying.for \in Portals \cup {Nobody}
  /\ RepliesToTheirPortal

\* A connection that is open is the one that was, with the peer it had.
StillOpen(c, d) == d.socket = "open" => c.socket = "open" /\ d.peer = c.peer

LEMMA StopCloses ==
  ASSUME NEW c, Rec(c)
  PROVE  Rec(Stop(c)) /\ StillOpen(c, Stop(c))
BY DEF Rec, Fields, Stop, StillOpen

LEMMA OpenOpens ==
  ASSUME NEW c, Rec(c), NEW id
  PROVE  Rec(Open(c, id)) /\ StillOpen(c, Open(c, id))
BY DEF Rec, Fields, Open, StillOpen

LEMMA StartOpens ==
  ASSUME NEW c, Rec(c), NEW id, NEW list
  PROVE  Rec(Start(c, id, list)) /\ StillOpen(c, Start(c, id, list))
<1> DEFINE found == [c EXCEPT !.wsPortal = Find(list, id), !.details = FormOf(list, id)]
           on == [found EXCEPT !.status = TRUE]
           opened == Open(on, id)
           done == [opened EXCEPT !.refs = @ + Volume(found.details)]
<1>1. Start(c, id, list) \in {c, found, done}
  BY DEF Start
<1>2. Rec(found) /\ found.socket = c.socket /\ found.peer = c.peer
  BY DEF Rec, Fields
<1> HIDE DEF found
<1>3. Rec(on) /\ on.socket = c.socket /\ on.peer = c.peer
  BY <1>2 DEF Rec, Fields
<1> HIDE DEF on
<1>4. Rec(opened) /\ StillOpen(on, opened)
  BY <1>3, OpenOpens
<1> HIDE DEF opened
<1>5. Rec(done) /\ done.socket = opened.socket /\ done.peer = opened.peer
  BY <1>4 DEF Rec, Fields
<1> HIDE DEF done
<1> QED
  BY <1>1, <1>2, <1>3, <1>4, <1>5 DEF StillOpen

LEMMA RestartOpens ==
  ASSUME NEW c, Rec(c), NEW id, NEW list
  PROVE  Rec(Restart(c, id, list)) /\ StillOpen(c, Restart(c, id, list))
<1>1. Rec(Stop(c)) /\ StillOpen(c, Stop(c))
  BY StopCloses
<1>2. Rec(Restart(c, id, list)) /\ StillOpen(Stop(c), Restart(c, id, list))
  BY <1>1, StartOpens DEF Restart
<1> QED
  BY <1>1, <1>2 DEF StillOpen

LEMMA OnPortalsOpens ==
  ASSUME NEW c, Rec(c), NEW list
  PROVE  Rec(OnPortals(c, list)) /\ StillOpen(c, OnPortals(c, list))
<1> DEFINE c1 == [c EXCEPT !.wsPortal = Find(list, wsPortalId), !.details = FormOf(list, wsPortalId)]
<1>1. Rec(c1) /\ c1.socket = c.socket /\ c1.peer = c.peer
  BY DEF Rec, Fields
<1>2. OnPortals(c, list) = IF c1.wsPortal # Nobody /\ ~c1.status THEN Start(c1, wsPortalId, list) ELSE c1
  BY DEF OnPortals
<1> HIDE DEF c1
<1>3. Rec(Start(c1, wsPortalId, list)) /\ StillOpen(c1, Start(c1, wsPortalId, list))
  BY <1>1, StartOpens
<1> QED
  BY <1>1, <1>2, <1>3 DEF StillOpen

LEMMA ActiveChangedOpens ==
  ASSUME NEW c, Rec(c), NEW sel, NEW list
  PROVE  LET d == ActiveChanged(sel, list, c).client IN Rec(d) /\ StillOpen(c, d)
<1>1. ActiveChanged(sel, list, c).client
        = IF wsPortalId # Find(list, sel) THEN Restart(c, Find(list, sel), list) ELSE c
  BY DEF ActiveChanged
<1>2. Rec(Restart(c, Find(list, sel), list)) /\ StillOpen(c, Restart(c, Find(list, sel), list))
  BY RestartOpens
<1> QED
  BY <1>1, <1>2 DEF StillOpen

LEMMA ReopenOpens ==
  ASSUME NEW c, Rec(c)
  PROVE  StillOpen(c, Reopen(c))
<1> DEFINE off == [c EXCEPT !.socket = "closed"]
           opened == Open(off, wsPortalId)
           done == [opened EXCEPT !.label = "Retrying"]
<1>1. Rec(off) /\ off.socket = "closed"
  BY DEF Rec, Fields
<1>2. Reopen(c) \in {off, done}
  BY DEF Reopen
<1> HIDE DEF off
<1>3. Rec(opened) /\ opened.socket # "open"
  BY <1>1, OpenOpens DEF StillOpen
<1> HIDE DEF opened
<1>4. done.socket # "open"
  BY <1>3 DEF Rec, Fields
<1> HIDE DEF done
<1> QED
  BY <1>1, <1>2, <1>4 DEF StillOpen

\* The client's state is d, and nothing is posted: what waits still has its peer.
LEMMA PostedKept ==
  ASSUME Posted, NEW d, SetClient(d), StillOpen(Client, d), UNCHANGED relayVars
  PROVE  Posted'
<1>1. socket' = "open" => socket = "open" /\ peer' = peer
  BY DEF SetClient, StillOpen, Client
<1> QED
  BY <1>1 DEF Posted, RepliesToTheirPortal, relayVars

LEMMA PostedSame ==
  ASSUME Posted, UNCHANGED <<socket, peer>>, UNCHANGED relayVars
  PROVE  Posted'
BY DEF Posted, RepliesToTheirPortal, relayVars

LEMMA PortalsReadyPosted ==
  ASSUME Posted, NEW list, PortalsReady(list), UNCHANGED relayVars
  PROVE  Posted'
<1> DEFINE c1 == OnPortals(Client, list)
           out == ActiveChanged(Selected(list), list, c1)
<1>1. Rec(c1) /\ StillOpen(Client, c1)
  BY ClientRec, OnPortalsOpens
<1>2. SetClient(c1) \/ SetClient(out.client)
  BY DEF PortalsReady
<1> HIDE DEF c1
<1>3. StillOpen(c1, out.client)
  BY <1>1, ActiveChangedOpens
<1> HIDE DEF out
<1>4. StillOpen(Client, out.client)
  BY <1>1, <1>3 DEF StillOpen
<1> QED
  BY <1>1, <1>2, <1>4, PostedKept

\* Something is posted, by who is connected or without waiting for an answer.
LEMMA PostedAppended ==
  ASSUME Posted, NEW x \in Entry, outbox' = Append(outbox, x), x.reply => x.for = peer.id,
         UNCHANGED <<socket, peer>>, relaying'.for \in Portals \cup {Nobody}
  PROVE  Posted'
<1>1. /\ outbox' \in Seq(Entry) /\ Len(outbox) \in Nat /\ DOMAIN outbox' = 1 .. Len(outbox) + 1
      /\ DOMAIN outbox = 1 .. Len(outbox) /\ outbox'[Len(outbox) + 1] = x
      /\ \A i \in 1 .. Len(outbox) : outbox'[i] = outbox[i]
  BY AppendProperties, LenProperties DEF Posted
<1>2. \A i \in DOMAIN outbox' : i = Len(outbox) + 1 \/ (i \in DOMAIN outbox /\ outbox'[i] = outbox[i])
  BY <1>1
<1>3. RepliesToTheirPortal'
  BY <1>1, <1>2 DEF Posted, RepliesToTheirPortal
<1> QED
  BY <1>1, <1>3 DEF Posted

LEMMA StepPosted == IInv /\ Posted /\ [Next]_vars => Posted'
<1> SUFFICES ASSUME IInv, Posted, [Next]_vars PROVE Posted'
  OBVIOUS
<1>1. CASE UNCHANGED vars \/ Login \/ ApiDropped \/ Settle \/ \E p \in Portals : ServerChanges(p)
  BY <1>1, PostedSame DEF vars, clientVars, Login, ApiDropped, Settle, ServerChanges
<1>2. CASE Logout
  <2>1. Rec(Stop(Client)) /\ StillOpen(Client, Stop(Client))
    BY ClientRec, StopCloses
  <2> DEFINE d == ActiveChanged(Nobody, wsPortals', Stop(Client)).client
  <2>2. SetClient(Stop(Client)) \/ SetClient(d)
    BY <1>2, Zenon DEF Logout
  <2>3. StillOpen(Stop(Client), d)
    BY <2>1, ActiveChangedOpens
  <2> HIDE DEF d
  <2>4. StillOpen(Client, d)
    BY <2>1, <2>3 DEF StillOpen
  <2>5. UNCHANGED relayVars
    BY <1>2 DEF Logout
  <2> QED
    BY <2>1, <2>2, <2>4, <2>5, PostedKept
<1>3. CASE ApiReady
  <2>1. UNCHANGED relayVars /\ (UNCHANGED clientVars \/ SetClient(Start(Client, wsPortalId, wsPortals)))
    BY <1>3 DEF ApiReady
  <2>2. StillOpen(Client, Start(Client, wsPortalId, wsPortals))
    BY ClientRec, StartOpens
  <2> QED
    BY <2>1, <2>2, PostedKept, PostedSame DEF clientVars
<1>4. CASE PushArrives
  <2>1. UNCHANGED relayVars /\ (UNCHANGED clientVars \/ PortalsReady(wsPortals'))
    BY <1>4 DEF PushArrives
  <2>2. PICK list : list = wsPortals'
    OBVIOUS
  <2>3. PortalsReady(wsPortals') => PortalsReady(list)
    BY <2>2 DEF PortalsReady, ActiveChanged, OnPortals, Selected
  <2> QED
    BY <2>1, <2>3, PortalsReadyPosted, PostedSame DEF clientVars
<1>5. ASSUME NEW sel \in Portals \cup {NoneItem}, UserSelects(sel) PROVE Posted'
  <2> DEFINE d == ActiveChanged(sel, wsPortals, Client).client
  <2>1. SetClient(d) /\ UNCHANGED relayVars
    BY <1>5 DEF UserSelects
  <2>2. StillOpen(Client, d)
    BY ClientRec, ActiveChangedOpens
  <2> HIDE DEF d
  <2> QED
    BY <2>1, <2>2, PostedKept
<1>6. CASE Connected
  <2>1. outbox = <<>> /\ UNCHANGED relayVars
    BY <1>6 DEF Connected
  <2>2. DOMAIN outbox' = {}
    BY <2>1 DEF relayVars
  <2> QED
    BY <2>1, <2>2 DEF Posted, RepliesToTheirPortal, relayVars
<1>7. CASE Disconnected
  BY <1>7, ClientRec, ReopenOpens, PostedKept DEF Disconnected
<1>8. ASSUME NEW results, NEW halt, Request(results, halt) PROVE Posted'
  <2> DEFINE x == [reply |-> TRUE, for |-> peer.id]
  <2>1. UNCHANGED <<socket, peer, relaying>> /\ (UNCHANGED outbox \/ (outbox' = Append(outbox, x) /\ status))
        /\ socket = "open"
    BY <1>8 DEF Request, clientVars
  <2>2. status /\ socket = "open" => x \in Entry
    BY DEF IInv, Chosen, On, Off, Entry
  <2>3. x.reply => x.for = peer.id
    OBVIOUS
  <2> HIDE DEF x
  <2> QED
    BY <2>1, <2>2, <2>3, PostedSame, PostedAppended DEF relayVars, Posted
<1>9. ASSUME NEW intent, RelayBegins(intent) PROVE Posted'
  <2>1. relaying'.for = wsPortal /\ status /\ UNCHANGED <<socket, peer, outbox>>
    BY <1>9 DEF RelayBegins, clientVars
  <2>2. wsPortal \in Portals \cup {Nobody}
    BY <2>1 DEF IInv, Chosen, On, Off
  <2> QED
    BY <2>1, <2>2 DEF Posted, RepliesToTheirPortal
<1>10. CASE RelayEnds
  <2> DEFINE x == [reply |-> FALSE, for |-> relaying.for]
  <2>1. outbox' = Append(outbox, x) /\ relaying' = Quiet /\ UNCHANGED <<socket, peer>>
    BY <1>10 DEF RelayEnds, clientVars
  <2>2. x \in Entry /\ ~x.reply
    BY DEF Posted, Entry
  <2>3. relaying'.for = Nobody
    BY <2>1 DEF Quiet
  <2> HIDE DEF x
  <2> QED
    BY <2>1, <2>2, <2>3, PostedAppended
<1>11. CASE SendRuns
  <2>1. outbox # <<>> /\ outbox' = Tail(outbox) /\ UNCHANGED <<socket, peer, relaying>>
    BY <1>11 DEF SendRuns, clientVars
  <2>2. /\ Tail(outbox) \in Seq(Entry) /\ Len(Tail(outbox)) = Len(outbox) - 1 /\ Len(outbox) \in Nat
        /\ \A i \in 1 .. Len(Tail(outbox)) : Tail(outbox)[i] = outbox[i + 1]
    BY <2>1, EmptySeq, LenProperties, HeadTailProperties DEF Posted
  <2>3. DOMAIN outbox = 1 .. Len(outbox) /\ DOMAIN outbox' = 1 .. Len(outbox) - 1
    BY <2>1, <2>2, LenProperties DEF Posted
  <2>4. \A i \in DOMAIN outbox' : i + 1 \in DOMAIN outbox /\ outbox'[i] = outbox[i + 1]
    BY <2>1, <2>2, <2>3
  <2>5. RepliesToTheirPortal'
    BY <2>1, <2>4 DEF Posted, RepliesToTheirPortal
  <2> QED
    BY <2>1, <2>2, <2>5 DEF Posted
<1>12. CASE Destroy
  <2>1. outbox' = <<>> /\ relaying' = relaying
    BY <1>12 DEF Destroy
  <2> QED
    BY <2>1 DEF Posted, RepliesToTheirPortal
<1> QED
  BY <1>1, <1>2, <1>3, <1>4, <1>5, <1>6, <1>7, <1>8, <1>9, <1>10, <1>11, <1>12 DEF Next

\* WsPortalClient::sendMessage: the answer to a request is posted to the main thread and
\* sent there on whatever socket there is; it never goes to another portal than the one
\* that asked, since no socket opens before all that was posted is sent or lost.
THEOREM RepliesFindTheirPortal == Spec => []RepliesToTheirPortal
<1> DEFINE PInv == IInv /\ Posted
<1>1. Init => PInv
  <2>1. Init => Posted
    BY DEF Init, Posted, RepliesToTheirPortal, Quiet
  <2> QED
    BY <2>1, InitIInv
<1>2. PInv /\ [Next]_vars => PInv'
  BY StepIInv, StepPosted
<1>3. PInv => RepliesToTheirPortal
  BY DEF Posted
<1> HIDE DEF PInv
<1> QED
  BY <1>1, <1>2, <1>3, PTL DEF Spec

-----------------------------------------------------------------------------
(* The setting.                                                              *)

\* The series that begins a connection: what the service has, one push for each portal, all
\* but the last of them to be continued.
LEMMA SeriesFields ==
  ASSUME IInv, ApiReady
  PROVE  /\ \A i \in DOMAIN inbox' : inbox'[i].portal \in Portals /\ inbox'[i].form = server[inbox'[i].portal]
                                     /\ inbox'[i].form # Nobody
         /\ \A p \in Portals : server[p] # Nobody =>
              \E i \in DOMAIN inbox' : inbox'[i].portal = p /\ \A j \in DOMAIN inbox' : j < i => inbox'[j].continuous
<1> DEFINE set == {p \in Portals : server[p] # Nobody}
           n == Cardinality(set)
<1>1. PICK order \in SetToSeqs(set) :
        inbox' = [i \in DOMAIN order |-> Push(order[i], server[order[i]], i < Len(order))]
  BY Zenon DEF ApiReady
<1>2. n \in Nat /\ IsFiniteSet(set)
  BY PortalConstants, FS_Subset, FS_CardinalityType
<1>3. DOMAIN order = 1 .. n /\ \A i \in 1 .. n : order[i] \in set
  BY DEF SetToSeqs
<1>4. order \in Seq(set) /\ Len(order) = n
  BY <1>2, <1>3 DEF SetToSeqs
<1>5. \A p \in set : \E i \in 1 .. n : order[i] = p
  <2> DEFINE D == 1 .. n
  <2>1. order \in [D -> set] /\ \A i, j \in D : i # j => order[i] # order[j]
    BY DEF SetToSeqs
  <2>2. IsFiniteSet(D) /\ Cardinality(D) = n
    BY <1>2, FS_Interval
  <2> HIDE DEF D, n, set
  <2>3. order \in Injection(D, set)
    BY <2>1 DEF Injection, IsInjective
  <2>4. order \in Surjection(D, set)
    BY <1>2, <2>2, <2>3, FS_Injection DEF n
  <2> QED
    BY <2>1, <2>4 DEF Surjection, D
<1>6. \A i \in 1 .. n : inbox'[i].portal = order[i] /\ inbox'[i].form = server[order[i]]
                        /\ inbox'[i].continuous = (i < n)
  BY <1>1, <1>3, <1>4 DEF Push
<1>7. DOMAIN inbox' = 1 .. n
  BY <1>1, <1>3
<1>8. ASSUME NEW p \in set
      PROVE  \E i \in DOMAIN inbox' : inbox'[i].portal = p /\ \A j \in DOMAIN inbox' : j < i => inbox'[j].continuous
  <2>1. PICK i \in 1 .. n : order[i] = p
    BY <1>5
  <2>2. ASSUME NEW j \in 1 .. n, j < i
        PROVE  inbox'[j].continuous
    <3>1. j < n
      BY <1>2, <2>2
    <3> QED
      BY <1>6, <3>1
  <2> QED
    BY <1>6, <1>7, <2>1, <2>2
<1> QED
  BY <1>3, <1>6, <1>7, <1>8

\* A change at the service is told to who listens.
LEMMA ChangeFields ==
  ASSUME IInv, NEW p \in Portals, ServerChanges(p)
  PROVE  /\ p \in known => server[p] # Nobody
         /\ known' = known \cup {p} /\ \A q \in Portals : q # p => server'[q] = server[q]
         /\ UNCHANGED <<feed, wsPortals, boxVars, clientVars, linked>>
         /\ \/ inbox' = inbox /\ feed # "up"
            \/ /\ feed = "up" /\ DOMAIN inbox' = 1 .. Len(inbox) + 1 /\ DOMAIN inbox = 1 .. Len(inbox)
               /\ Len(inbox) \in Nat
               /\ \A i \in DOMAIN inbox : inbox'[i] = inbox[i]
               /\ inbox'[Len(inbox) + 1].portal = p /\ inbox'[Len(inbox) + 1].form = server'[p]
<1>1. server \in Lists /\ PushesOK(inbox)
  BY DEF IInv, Known
<1>2. PICK m \in Entries : server' = [server EXCEPT ![p] = m]
  BY DEF ServerChanges, Entries
<1>3. server'[p] = m /\ \A q \in Portals : q # p => server'[q] = server[q]
  BY <1>1, <1>2 DEF Lists
<1>4. /\ p \in known => server[p] # Nobody
      /\ known' = known \cup {p} /\ UNCHANGED <<feed, wsPortals, boxVars, clientVars, linked>>
      /\ inbox' = IF feed = "up" THEN Append(inbox, Push(p, server'[p], FALSE)) ELSE inbox
  BY Zenon DEF ServerChanges
<1>5. CASE feed = "up"
  <2> DEFINE x == Push(p, m, FALSE)
  <2>1. x \in Pushes /\ x.form = m /\ x.portal = p
    BY PushType DEF Push
  <2>2. inbox' = Append(inbox, x)
    BY <1>3, <1>4, <1>5
  <2> HIDE DEF x
  <2>3. /\ DOMAIN inbox' = 1 .. Len(inbox) + 1 /\ DOMAIN inbox = 1 .. Len(inbox) /\ Len(inbox) \in Nat
        /\ \A i \in 1 .. Len(inbox) : inbox'[i] = inbox[i]
        /\ inbox'[Len(inbox) + 1] = x
    BY <1>1, <2>1, <2>2, AppendProperties, LenProperties DEF PushesOK
  <2> QED
    BY <1>3, <1>4, <1>5, <2>1, <2>3
<1>6. CASE feed # "up"
  BY <1>3, <1>4, <1>6
<1> QED
  BY <1>5, <1>6

LEMMA PushFields ==
  ASSUME IInv, PushArrives
  PROVE  /\ 1 \in DOMAIN inbox /\ inbox[1].portal \in Portals /\ inbox[1] = Head(inbox)
         /\ \A i \in DOMAIN inbox' : i + 1 \in DOMAIN inbox /\ inbox'[i] = inbox[i + 1]
         /\ \A i \in DOMAIN inbox : i # 1 => i - 1 \in DOMAIN inbox' /\ inbox'[i - 1] = inbox[i]
         /\ DOMAIN inbox \subseteq Nat \ {0}
         /\ wsPortals'[inbox[1].portal] = inbox[1].form
         /\ \A q \in Portals : q # inbox[1].portal => wsPortals'[q] = wsPortals[q]
         /\ UNCHANGED <<server, feed, linked>>
<1>1. inbox # <<>> /\ PushesOK(inbox) /\ wsPortals \in Lists
  BY DEF PushArrives, IInv, Known
<1>2. /\ Len(inbox) \in Nat \ {0} /\ Len(Tail(inbox)) = Len(inbox) - 1 /\ Tail(inbox) \in Seq(Pushes)
      /\ \A i \in 1 .. Len(Tail(inbox)) : Tail(inbox)[i] = inbox[i + 1]
      /\ Head(inbox) = inbox[1]
  BY <1>1, EmptySeq, LenProperties, HeadTailProperties DEF PushesOK
<1>3. DOMAIN inbox = 1 .. Len(inbox) /\ DOMAIN Tail(inbox) = 1 .. Len(inbox) - 1
  BY <1>1, <1>2, LenProperties DEF PushesOK
<1>4. inbox' = Tail(inbox) /\ wsPortals' = [wsPortals EXCEPT ![Head(inbox).portal] = Head(inbox).form]
      /\ UNCHANGED <<server, feed, linked>>
  BY DEF PushArrives
<1>5. Head(inbox).portal \in Portals
  BY <1>1, PushTaken
<1>6. \A i \in DOMAIN inbox' : i + 1 \in DOMAIN inbox /\ inbox'[i] = inbox[i + 1]
  BY <1>2, <1>3, <1>4
<1>7. ASSUME NEW i \in DOMAIN inbox, i # 1
      PROVE  i - 1 \in DOMAIN inbox' /\ inbox'[i - 1] = inbox[i]
  <2>1. i - 1 \in DOMAIN inbox' /\ (i - 1) + 1 = i
    BY <1>2, <1>3, <1>4, <1>7
  <2>2. inbox'[i - 1] = inbox[(i - 1) + 1]
    BY <1>6, <2>1
  <2> QED
    BY <2>1, <2>2
<1> QED
  BY <1>1, <1>2, <1>3, <1>4, <1>5, <1>6, <1>7 DEF Lists

\* Whatever the service, the list, the pushes or the setting name is or was a portal of the
\* service: one that is made now is none of them.
History ==
  /\ \A p \in Portals : server[p] # Nobody \/ wsPortals[p] # Nobody \/ p = wsPortalId => p \in known
  /\ \A i \in DOMAIN inbox : inbox[i].portal \in known /\ inbox[i].portal \in Portals

\* The push of portal p waits behind nothing but pushes that are not signalled.
ToBeTold(p) ==
  \E i \in DOMAIN inbox : /\ inbox[i].portal = p /\ inbox[i].form # Nobody
                          /\ \A j \in DOMAIN inbox : j < i => inbox[j].continuous

\* The portal of the setting, if the service has it, is in the list, or in the series that
\* begins the connection; and who is told to be removed is not at the service any more.
Complete ==
  /\ feed = "up" /\ wsPortalId \in Portals /\ server[wsPortalId] # Nobody
       /\ wsPortals[wsPortalId] = Nobody => ToBeTold(wsPortalId)
  /\ \A i \in DOMAIN inbox : inbox[i].form = Nobody => server[inbox[i].portal] = Nobody

\* Where the setting goes, there was a portal of the list.
LEMMA SettingListed ==
  ASSUME IInv, [Next]_vars, wsPortalId' # wsPortalId
  PROVE  wsPortalId' = Nobody \/ (wsPortalId' \in Portals /\ wsPortals'[wsPortalId'] # Nobody)
<1>1. CASE Logout
  <2>1. wsPortalId' = Find([p \in Portals |-> Nobody], Nobody)
    BY <1>1, Zenon DEF Logout, ActiveChanged
  <2> QED
    BY <2>1, PortalConstants DEF Find, Found
<1>2. CASE PushArrives
  <2>1. wsPortalId' = Find(wsPortals', Selected(wsPortals'))
    BY <1>2, Zenon DEF PushArrives, PortalsReady, ActiveChanged, boxVars
  <2> QED
    BY <2>1 DEF Find, Found
<1>3. ASSUME NEW sel \in Portals \cup {NoneItem}, UserSelects(sel)
      PROVE  wsPortalId' = Nobody \/ (wsPortalId' \in Portals /\ wsPortals'[wsPortalId'] # Nobody)
  BY <1>3 DEF UserSelects, ActiveChanged, Find, Found, apiVars
<1>4. ~(Logout \/ PushArrives \/ \E sel \in Portals \cup {NoneItem} : UserSelects(sel)) => FALSE
  BY DEF Next, vars, boxVars, Login, ApiReady, ApiDropped, ServerChanges, Connected, Disconnected,
     Request, RelayBegins, RelayEnds, SendRuns, Destroy, Settle
<1> QED
  BY <1>1, <1>2, <1>3, <1>4

\* Most steps change nothing that is said of the portals.
LEMMA QuietSteps ==
  ASSUME [Next]_vars, ~Login, ~ApiDropped, ~Logout, ~ApiReady, ~PushArrives,
         \A p \in Portals : ~ServerChanges(p)
  PROVE  UNCHANGED apiVars
BY DEF Next, vars, UserSelects, Connected, Disconnected, Request, RelayBegins, RelayEnds, SendRuns,
   Destroy, Settle

LEMMA StepHistory ==
  ASSUME IInv, History, [Next]_vars
  PROVE  History'
<1> DEFINE Listed == wsPortalId' = wsPortalId \/ wsPortalId' = Nobody
                       \/ (wsPortalId' \in Portals /\ wsPortals'[wsPortalId'] # Nobody)
<1>0. Listed
  BY SettingListed
<1>1. CASE UNCHANGED apiVars
  <2>1. \A p \in Portals : p = wsPortalId' => p \in known
    BY <1>0, <1>1, PortalConstants DEF History, apiVars
  <2> QED
    BY <1>1, <2>1 DEF History, apiVars
<1> HIDE DEF Listed
<1>2. CASE Login \/ ApiDropped
  <2>1. UNCHANGED <<server, wsPortals, known, wsPortalId>> /\ (inbox' = inbox \/ inbox' = <<>>)
    BY <1>2 DEF Login, ApiDropped, boxVars
  <2> QED
    BY <2>1 DEF History
<1>3. CASE Logout
  <2>1. UNCHANGED <<server, known>> /\ inbox' = <<>> /\ \A p \in Portals : wsPortals'[p] = Nobody
    BY <1>3 DEF Logout
  <2> QED
    BY <1>0, <2>1, PortalConstants DEF History, Listed
<1>4. CASE ApiReady
  <2>1. UNCHANGED <<server, wsPortals, known, wsPortalId>>
    BY <1>4 DEF ApiReady, boxVars
  <2> QED
    BY <1>4, <2>1, SeriesFields DEF History
<1>5. ASSUME NEW p \in Portals, ServerChanges(p) PROVE History'
  <2>1. wsPortalId' = wsPortalId
    BY <1>5, ChangeFields DEF boxVars
  <2>2. \A i \in DOMAIN inbox' : inbox'[i].portal = p \/ (i \in DOMAIN inbox /\ inbox'[i] = inbox[i])
    BY <1>5, ChangeFields
  <2>3. known' = known \cup {p} /\ wsPortals' = wsPortals /\ \A q \in Portals : q # p => server'[q] = server[q]
    BY <1>5, ChangeFields
  <2> QED
    BY <2>1, <2>2, <2>3 DEF History
<1>6. CASE PushArrives
  <2>1. UNCHANGED <<known, server>>
    BY <1>6 DEF PushArrives
  <2>2. \A p \in Portals : wsPortals'[p] # Nobody => p \in known
    BY <1>6, PushFields DEF History
  <2>3. \A p \in Portals : p = wsPortalId' => p \in known
    BY <1>0, <2>2, PortalConstants DEF History, Listed
  <2>4. \A i \in DOMAIN inbox' : inbox'[i].portal \in known /\ inbox'[i].portal \in Portals
    BY <1>6, PushFields DEF History
  <2> QED
    BY <2>1, <2>2, <2>3, <2>4 DEF History
<1> QED
  BY <1>1, <1>2, <1>3, <1>4, <1>5, <1>6, QuietSteps

LEMMA StepComplete ==
  ASSUME IInv, History, Complete, [Next]_vars
  PROVE  Complete'
<1>0. wsPortalId' = wsPortalId \/ wsPortalId' = Nobody
        \/ (wsPortalId' \in Portals /\ wsPortals'[wsPortalId'] # Nobody)
  BY SettingListed
<1> DEFINE Goal == feed' = "up" /\ wsPortalId' \in Portals /\ server'[wsPortalId'] # Nobody
                     /\ wsPortals'[wsPortalId'] = Nobody => ToBeTold(wsPortalId)'
           Gone == \A i \in DOMAIN inbox' : inbox'[i].form = Nobody => server'[inbox'[i].portal] = Nobody
<1>1. wsPortalId' # wsPortalId => Goal
  BY <1>0, PortalConstants
<1>2. Goal /\ Gone => Complete'
  BY DEF Complete
<1>3. CASE UNCHANGED apiVars
  <2>1. wsPortalId' = wsPortalId => Goal
    BY <1>3 DEF Complete, apiVars, ToBeTold
  <2>2. Gone
    BY <1>3 DEF Complete, apiVars
  <2> QED
    BY <1>1, <1>2, <2>1, <2>2
<1>4. CASE Login \/ ApiDropped \/ Logout
  <2>1. /\ feed' # "up" /\ UNCHANGED server /\ (inbox' = inbox \/ inbox' = <<>>)
    BY <1>4 DEF Login, ApiDropped, Logout
  <2> QED
    BY <2>1 DEF Complete
<1>5. CASE ApiReady
  <2>1. UNCHANGED <<server, wsPortals, wsPortalId>>
    BY <1>5 DEF ApiReady, boxVars
  <2>2. Gone
    BY <1>5, <2>1, SeriesFields
  <2>3. Goal
    <3> SUFFICES ASSUME wsPortalId' \in Portals, server'[wsPortalId'] # Nobody PROVE ToBeTold(wsPortalId)'
      OBVIOUS
    <3>1. PICK i \in DOMAIN inbox' : /\ inbox'[i].portal = wsPortalId
                                     /\ \A j \in DOMAIN inbox' : j < i => inbox'[j].continuous
      BY <1>5, <2>1, SeriesFields
    <3>2. inbox'[i].form # Nobody
      BY <1>5, SeriesFields
    <3> QED
      BY <2>1, <3>1, <3>2 DEF ToBeTold
  <2> QED
    BY <1>2, <2>2, <2>3
<1>6. ASSUME NEW p \in Portals, ServerChanges(p) PROVE Complete'
  <2>1. UNCHANGED <<feed, wsPortals, wsPortalId>>
    BY <1>6, ChangeFields DEF boxVars
  <2>2. Goal
    <3> SUFFICES ASSUME feed = "up", wsPortalId \in Portals, server'[wsPortalId] # Nobody,
                        wsPortals[wsPortalId] = Nobody
                 PROVE  ToBeTold(wsPortalId)'
      BY <2>1
    <3>1. server[wsPortalId] # Nobody
      BY <1>6, ChangeFields DEF History
    <3>2. PICK i \in DOMAIN inbox : /\ inbox[i].portal = wsPortalId /\ inbox[i].form # Nobody
                                    /\ \A j \in DOMAIN inbox : j < i => inbox[j].continuous
      BY <3>1 DEF Complete, ToBeTold
    <3>3. /\ DOMAIN inbox' = 1 .. Len(inbox) + 1 /\ DOMAIN inbox = 1 .. Len(inbox) /\ Len(inbox) \in Nat
          /\ \A k \in DOMAIN inbox : inbox'[k] = inbox[k]
      BY <1>6, ChangeFields
    <3>4. i \in DOMAIN inbox' /\ \A j \in DOMAIN inbox' : j < i => j \in DOMAIN inbox
      BY <3>3
    <3> QED
      BY <2>1, <3>2, <3>3, <3>4 DEF ToBeTold
  <2>3. ASSUME NEW i \in DOMAIN inbox', inbox'[i].form = Nobody
        PROVE  server'[inbox'[i].portal] = Nobody
    <3>1. CASE i \in DOMAIN inbox /\ inbox'[i] = inbox[i]
      <4>1. server[inbox[i].portal] = Nobody /\ inbox[i].portal \in known /\ inbox[i].portal \in Portals
        BY <2>3, <3>1 DEF Complete, History
      <4> QED
        BY <1>6, <3>1, <4>1, ChangeFields
    <3>2. CASE i = Len(inbox) + 1 /\ feed = "up"
      BY <1>6, <2>3, <3>2, ChangeFields
    <3> QED
      BY <1>6, <3>1, <3>2, ChangeFields
  <2> QED
    BY <1>2, <2>2, <2>3
<1>7. CASE PushArrives
  <2>1. Gone
    BY <1>7, PushFields DEF Complete
  <2>2. wsPortalId' = wsPortalId => Goal
    <3> SUFFICES ASSUME wsPortalId' = wsPortalId, feed' = "up", wsPortalId \in Portals,
                        server'[wsPortalId] # Nobody, wsPortals'[wsPortalId] = Nobody
                 PROVE  ToBeTold(wsPortalId)'
      OBVIOUS
    <3>1. feed = "up" /\ server[wsPortalId] # Nobody
      BY <1>7, PushFields
    <3>2. wsPortals[wsPortalId] = Nobody
      BY <1>7, <3>1, PushFields DEF Complete
    <3>3. PICK i \in DOMAIN inbox : /\ inbox[i].portal = wsPortalId /\ inbox[i].form # Nobody
                                    /\ \A j \in DOMAIN inbox : j < i => inbox[j].continuous
      BY <3>1, <3>2 DEF Complete, ToBeTold
    <3>4. i # 1
      BY <1>7, <3>3, PushFields
    <3>5. i - 1 \in DOMAIN inbox' /\ inbox'[i - 1] = inbox[i] /\ i \in Nat
      BY <1>7, <3>4, PushFields
    <3>6. ASSUME NEW j \in DOMAIN inbox', j < i - 1
          PROVE  inbox'[j].continuous
      <4>1. j + 1 \in DOMAIN inbox /\ inbox'[j] = inbox[j + 1] /\ j + 1 \in Nat
        BY <1>7, PushFields
      <4>2. j \in Nat
        BY <1>7, <4>1, StepIInv, LenProperties DEF IInv, Known, PushesOK
      <4>3. j + 1 < i
        BY <3>5, <3>6, <4>2
      <4> QED
        BY <3>3, <4>1, <4>3
    <3> QED
      BY <3>3, <3>5, <3>6 DEF ToBeTold
  <2> QED
    BY <1>1, <1>2, <2>1, <2>2
<1> QED
  BY <1>3, <1>4, <1>5, <1>6, <1>7, QuietSteps

\* A list that is signalled has the portal of the setting, if the service has it.
LEMMA SignalledKeepsSetting ==
  ASSUME IInv, History, Complete, PushArrives, wsPortalId' # wsPortalId, wsPortalId # Nobody
  PROVE  server[wsPortalId] = Nobody
<1>1. wsPortalId \in Portals /\ (current \in Portals => current = wsPortalId) /\ current # NoneItem
      /\ current \in Portals \cup {NoneItem, Nobody}
  BY DEF IInv, Chosen
<1>2. ~Head(inbox).continuous /\ PortalsReady(wsPortals') /\ feed = "up"
  BY DEF PushArrives, boxVars
<1>3. Find(wsPortals', Selected(wsPortals')) # wsPortalId
  BY <1>2 DEF PortalsReady, ActiveChanged
<1>4. wsPortals'[wsPortalId] = Nobody
  <2> SUFFICES ASSUME wsPortals'[wsPortalId] # Nobody PROVE FALSE
    OBVIOUS
  <2>1. Found(wsPortals', wsPortalId)
    BY <1>1 DEF Found
  <2>2. Selected(wsPortals') = wsPortalId
    BY <1>1, <2>1 DEF Selected
  <2> QED
    BY <1>3, <2>1, <2>2 DEF Find
<1>5. CASE wsPortals[wsPortalId] # Nobody
  BY <1>1, <1>4, <1>5, PushFields DEF Complete
<1>6. CASE wsPortals[wsPortalId] = Nobody
  <2> SUFFICES ASSUME server[wsPortalId] # Nobody PROVE FALSE
    OBVIOUS
  <2>1. PICK i \in DOMAIN inbox : /\ inbox[i].portal = wsPortalId /\ inbox[i].form # Nobody
                                  /\ \A j \in DOMAIN inbox : j < i => inbox[j].continuous
    BY <1>1, <1>2, <1>6 DEF Complete, ToBeTold
  <2>2. i # 1
    BY <1>4, <2>1, PushFields
  <2>3. 1 \in DOMAIN inbox /\ 1 < i /\ ~inbox[1].continuous
    BY <1>2, <2>2, PushFields
  <2> QED
    BY <2>1, <2>3
<1> QED
  BY <1>5, <1>6

\* onWebSocketDataChanged and the dock's fallback: whatever portals the service makes,
\* changes and removes, as long as no id is used again, the setting is never given up
\* because the list is still incomplete: a list is only signalled with the last push of its
\* series, and then has the portal of the setting if the service has it.
THEOREM SettingSurvives == Spec => SettingKept
<1> DEFINE SInv == IInv /\ History /\ Complete
           Kept == wsPortalId' # wsPortalId
                     => \/ wsPortalId = Nobody \/ ~linked' \/ server[wsPortalId] = Nobody
                        \/ \E sel \in items \cup {NoneItem} : UserSelects(sel)
<1>1. Init => SInv
  <2>1. Init => History /\ Complete
    BY PortalConstants DEF Init, History, Complete
  <2> QED
    BY <2>1, InitIInv
<1>2. SInv /\ [Next]_vars => SInv'
  BY StepIInv, StepHistory, StepComplete
<1>3. SInv /\ [Next]_vars => [Kept]_vars
  <2> SUFFICES ASSUME SInv, [Next]_vars, wsPortalId' # wsPortalId, wsPortalId # Nobody, linked',
                      server[wsPortalId] # Nobody
               PROVE  \E sel \in items \cup {NoneItem} : UserSelects(sel)
    OBVIOUS
  <2>1. ~Logout /\ ~PushArrives
    BY SignalledKeepsSetting DEF Logout
  <2>2. PICK sel \in Portals \cup {NoneItem} : UserSelects(sel)
    BY <2>1 DEF Next, vars, boxVars, Login, ApiReady, ApiDropped, ServerChanges, Connected, Disconnected,
       Request, RelayBegins, RelayEnds, SendRuns, Destroy, Settle
  <2> QED
    BY <2>2 DEF UserSelects
<1>4. Init /\ [][Next]_vars => [][Kept]_vars
  <2> HIDE DEF SInv, Kept
  <2> QED
    BY <1>1, <1>2, <1>3, PTL
<1> QED
  BY <1>4 DEF Spec, SettingKept

=============================================================================
