--------------------------- MODULE Receivers_proofs ---------------------------
(***************************************************************************)
(* Proofs about Receivers, for any number of participants, changes and     *)
(* calls, with selections, lists and codes in any order.                   *)
(***************************************************************************)
EXTENDS Receivers, SequenceTheorems, FiniteSetTheorems, TLAPS

-----------------------------------------------------------------------------
(* Queues.                                                                   *)

Calls  == [kind : {"put", "redeem"}, of : Ids]
Pushes == [of : Participants, exists : BOOLEAN, continuous : BOOLEAN]

LEMMA AppendElements ==
  ASSUME NEW S, NEW s \in Seq(S), NEW x \in S
  PROVE  /\ Append(s, x) \in Seq(S) /\ Len(s) \in Nat
         /\ DOMAIN Append(s, x) = 1 .. Len(s) + 1 /\ DOMAIN s = 1 .. Len(s)
         /\ Append(s, x)[Len(s) + 1] = x
         /\ \A i \in DOMAIN s : Append(s, x)[i] = s[i]
BY AppendProperties, LenProperties

LEMMA TailElements ==
  ASSUME NEW S, NEW s \in Seq(S), s # <<>>
  PROVE  /\ Head(s) = s[1] /\ Head(s) \in S /\ 1 \in DOMAIN s /\ Tail(s) \in Seq(S)
         /\ \A i \in DOMAIN Tail(s) : /\ i \in Nat \ {0} /\ i + 1 \in DOMAIN s
                                      /\ Tail(s)[i] = s[i + 1]
<1>1. Len(s) \in Nat \ {0} /\ Len(Tail(s)) = Len(s) - 1 /\ Tail(s) \in Seq(S)
  BY EmptySeq, LenProperties, HeadTailProperties
<1>2. DOMAIN s = 1 .. Len(s) /\ DOMAIN Tail(s) = 1 .. Len(s) - 1
  BY <1>1, LenProperties
<1>3. \A i \in 1 .. Len(Tail(s)) : Tail(s)[i] = s[i + 1]
  BY HeadTailProperties
<1>4. Head(s) = s[1] /\ Head(s) \in S
  BY HeadTailProperties
<1> QED
  BY <1>1, <1>2, <1>3, <1>4

LEMMA BodyType ==
  ASSUME NEW id \in Ids \cup {NoneItem}
  PROVE  PutOf(id) \in Calls /\ PutOf(id).kind = "put"
BY ReceiverConstants DEF PutOf, Wanted, Calls, Ids

LEMMA RedeemType ==
  ASSUME NEW id \in Ids
  PROVE  RedeemOf(id) \in Calls /\ RedeemOf(id).kind = "redeem" /\ RedeemOf(id).of = id
BY DEF RedeemOf, Calls, Ids

LEMMA PushType ==
  ASSUME NEW id \in Participants, NEW e \in BOOLEAN, NEW c \in BOOLEAN
  PROVE  /\ Push(id, e, c) \in Pushes
         /\ Push(id, e, c).exists = e /\ Push(id, e, c).continuous = c
BY DEF Push, Pushes

CallsOK(q) == q \in Seq(Calls)

\* A queue of pushes: a series to be continued removes nobody.
PushesOK(q) ==
  /\ q \in Seq(Pushes)
  /\ \A i \in DOMAIN q : q[i].continuous => q[i].exists

LEMMA PutAppended ==
  ASSUME NEW q, CallsOK(q), NEW id \in Ids \cup {NoneItem}
  PROVE  CallsOK(Append(q, PutOf(id)))
BY BodyType, AppendElements DEF CallsOK

LEMMA CallTaken ==
  ASSUME NEW q, CallsOK(q), q # <<>>
  PROVE  CallsOK(Tail(q)) /\ Head(q) \in Calls /\ Head(q).of \in Ids
<1>1. Head(q) \in Calls /\ Tail(q) \in Seq(Calls)
  BY TailElements DEF CallsOK
<1> QED
  BY <1>1 DEF CallsOK, Calls

LEMMA PushAppended ==
  ASSUME NEW q, PushesOK(q), NEW id \in Participants, NEW e \in BOOLEAN
  PROVE  PushesOK(Append(q, Push(id, e, FALSE)))
<1> DEFINE x == Push(id, e, FALSE)
           s == Append(q, x)
<1>1. x \in Pushes /\ ~x.continuous
  <2>1. FALSE \in BOOLEAN
    OBVIOUS
  <2>2. x \in Pushes /\ x.continuous = FALSE
    BY <2>1, PushType
  <2> QED
    BY <2>2, Zenon
<1> HIDE DEF x
<1>2. /\ s \in Seq(Pushes) /\ Len(q) \in Nat /\ DOMAIN s = 1 .. Len(q) + 1
      /\ DOMAIN q = 1 .. Len(q) /\ s[Len(q) + 1] = x /\ \A i \in DOMAIN q : s[i] = q[i]
  BY <1>1, AppendElements DEF PushesOK
<1> HIDE DEF s
<1>3. \A i \in DOMAIN s : i = Len(q) + 1 \/ (i \in DOMAIN q /\ s[i] = q[i])
  BY <1>2
<1>4. PushesOK(s)
  <2>1. ASSUME NEW i \in DOMAIN s, s[i].continuous PROVE s[i].exists
    <3>1. i # Len(q) + 1
      BY <1>1, <1>2, <2>1
    <3> QED
      BY <1>3, <2>1, <3>1 DEF PushesOK
  <2> QED
    BY <1>2, <2>1 DEF PushesOK
<1> QED
  BY <1>4 DEF s, x

LEMMA PushTaken ==
  ASSUME NEW q, PushesOK(q), q # <<>>
  PROVE  /\ PushesOK(Tail(q)) /\ Head(q).of \in Participants
         /\ Head(q).continuous => Head(q).exists
<1>1. /\ Head(q) = q[1] /\ Head(q) \in Pushes /\ 1 \in DOMAIN q /\ Tail(q) \in Seq(Pushes)
      /\ \A i \in DOMAIN Tail(q) : i + 1 \in DOMAIN q /\ Tail(q)[i] = q[i + 1]
  BY TailElements DEF PushesOK
<1> QED
  BY <1>1 DEF PushesOK, Pushes

\* The initial pushes of a connection are those of the participants the service knows.
LEMMA SeriesOK ==
  ASSUME NEW set \in SUBSET Participants, NEW order \in SetToSeqs(set)
  PROVE  PushesOK([i \in DOMAIN order |-> Push(order[i], TRUE, i < Len(order))])
<1> DEFINE n == Cardinality(set)
           s == [i \in 1 .. n |-> Push(order[i], TRUE, i < n)]
<1>1. n \in Nat
  BY ReceiverConstants, FS_Subset, FS_CardinalityType
<1>2. DOMAIN order = 1 .. n /\ \A i \in 1 .. n : order[i] \in Participants
  BY DEF SetToSeqs
<1>3. order \in Seq(Participants) /\ Len(order) = n
  BY <1>1, <1>2 DEF SetToSeqs
<1> HIDE DEF n
<1>4. \A i \in 1 .. n : s[i] \in Pushes /\ s[i].exists
  <2> TAKE i \in 1 .. n
  <2> DEFINE more == i < n
  <2>1. more \in BOOLEAN /\ TRUE \in BOOLEAN
    OBVIOUS
  <2>2. s[i] = Push(order[i], TRUE, more)
    OBVIOUS
  <2> HIDE DEF more, s
  <2>3. Push(order[i], TRUE, more) \in Pushes /\ Push(order[i], TRUE, more).exists = TRUE
    BY <1>2, <2>1, PushType
  <2> QED
    BY <2>2, <2>3, Zenon
<1>5. s \in Seq(Pushes) /\ DOMAIN s = 1 .. n
  <2>1. s \in [1 .. n -> Pushes]
    BY <1>4, Zenon
  <2> HIDE DEF s
  <2> QED
    BY <1>1, <2>1
<1>6. PushesOK(s)
  BY <1>4, <1>5 DEF PushesOK
<1> QED
  BY <1>2, <1>3, <1>6

-----------------------------------------------------------------------------
(* The invariants, in the parts the steps disturb.                           *)

Flags == linked \in BOOLEAN /\ lastFailed \in BOOLEAN /\ stable \in BOOLEAN

Rest ==
  /\ feed \in {"never", "up", "down"} /\ answer \in {"no", "ok", "failed"}
  /\ server \subseteq known /\ known \subseteq Participants
  /\ granted \in Ids
  /\ changes \in 0 .. MaxChanges /\ faults \in 0 .. MaxFaults

Lists == participants \subseteq Participants /\ PushesOK(inbox)

\* The box shows what the list offers, and "none" only if that is the setting.
ChoicesOK ==
  /\ current \in participants \cup {Nobody, NoneItem} /\ participantId \in Ids \cup {NoneItem}
  /\ pictureId \in Ids /\ picture \in Ids /\ pictures \subseteq Participants
  /\ PictureMatches /\ (current = NoneItem => participantId = NoneItem)

\* Only a call that waits is answered.
Queue == CallsOK(calls) /\ (answer # "no" => calls # <<>>)

IInv == Flags /\ Rest /\ Lists /\ ChoicesOK /\ Queue

LEMMA InitIInv == Init => IInv
<1> SUFFICES ASSUME Init PROVE IInv
  OBVIOUS
<1>1. Flags
  BY Zenon DEF Init, Flags
<1>2. Rest /\ ChoicesOK
  BY ReceiverConstants DEF Init, Rest, ChoicesOK, Ids, PictureMatches
<1>3. PushesOK(<<>>) /\ CallsOK(<<>>)
  BY DEF PushesOK, CallsOK
<1> QED
  BY <1>1, <1>2, <1>3 DEF Init, IInv, Lists, Queue

\* The parts that only single assignments change.
LEMMA FlagsStep == Flags /\ [Next]_vars => Flags'
<1> SUFFICES ASSUME Flags, [Next]_vars PROVE Flags'
  OBVIOUS
<1>1. linked' \in BOOLEAN
  BY Zenon DEF Flags, Next, vars, Login, Logout, FeedReady, FeedDrops, PushArrives, SaveSettings,
     ServerChanges, Redeem, UserSelects, CallProcessed, PutAnswered, RedeemAnswered,
     PictureArrives, Settle
<1>3. lastFailed' \in BOOLEAN
  BY Zenon DEF Flags, Next, vars, Login, Logout, FeedReady, FeedDrops, PushArrives, SaveSettings,
     ServerChanges, Redeem, UserSelects, CallProcessed, PutAnswered, RedeemAnswered,
     PictureArrives, Settle, callVars
<1>4. stable' \in BOOLEAN
  BY Zenon DEF Flags, Next, vars, Login, Logout, FeedReady, FeedDrops, PushArrives, SaveSettings,
     ServerChanges, Redeem, UserSelects, CallProcessed, PutAnswered, RedeemAnswered,
     PictureArrives, Settle, envVars
<1> QED
  BY <1>1, <1>3, <1>4 DEF Flags

LEMMA RestStep == IInv /\ [Next]_vars => Rest'
<1> SUFFICES ASSUME IInv, [Next]_vars PROVE Rest'
  OBVIOUS
<1> USE DEF IInv
<1>1. CASE \/ UNCHANGED vars \/ Logout \/ FeedReady \/ FeedDrops \/ PushArrives \/ SaveSettings
           \/ Settle
  <2>1. CASE UNCHANGED vars \/ FeedReady \/ PushArrives \/ SaveSettings \/ Settle
    BY <2>1 DEF Rest, vars, FeedReady, PushArrives, SaveSettings, Settle, envVars,
       callVars, listVars
  <2>2. CASE Logout
    BY <2>2 DEF Rest, Logout, Ids, envVars
  <2>3. CASE FeedDrops
    BY <2>3, ReceiverConstants DEF Rest, FeedDrops, callVars
  <2> QED
    BY <1>1, <2>1, <2>2, <2>3
<1>8. CASE Login
  BY <1>8, ReceiverConstants DEF Rest, Login
<1>9. CASE PutAnswered
  BY <1>9 DEF Rest, PutAnswered, Ids, envVars, listVars
<1>2. ASSUME NEW p \in Participants, ServerChanges(p) PROVE Rest'
  <2>1. server' \subseteq Participants /\ known' = known \cup server'
    BY <1>2 DEF Rest, ServerChanges
  <2>2. granted' \in Ids /\ changes' \in 0 .. MaxChanges
    BY <1>2, ReceiverConstants DEF Rest, ServerChanges, Ids
  <2> QED
    BY <1>2, <2>1, <2>2 DEF Rest, ServerChanges
<1>3. ASSUME NEW p \in Ids, Redeem(p) PROVE Rest'
  BY <1>3 DEF Rest, Redeem, envVars, callVars, listVars
<1>4. ASSUME NEW sel \in Participants \cup {NoneItem}, UserSelects(sel) PROVE Rest'
  BY <1>4 DEF Rest, UserSelects, envVars, callVars, listVars
<1>5. ASSUME NEW p \in Participants, NEW ok \in BOOLEAN, PictureArrives(p, ok) PROVE Rest'
  BY <1>5 DEF Rest, PictureArrives, envVars, callVars, listVars
<1>6. CASE CallProcessed
  <2>2. server' \subseteq known' /\ known' \subseteq Participants
    BY <1>6 DEF CallProcessed, Rest, Made
  <2>3. granted' \in Ids
    BY <1>6, <2>2 DEF CallProcessed, Rest, Ids
  <2>4. changes' \in 0 .. MaxChanges /\ faults' \in 0 .. MaxFaults /\ answer' \in {"ok", "failed"}
    <3>1. /\ changes' = changes /\ answer' \in {"ok", "failed"}
          /\ faults' = faults \/ (faults < MaxFaults /\ faults' = faults + 1)
      BY <1>6, Zenon DEF CallProcessed
    <3> QED
      BY <3>1, ReceiverConstants DEF Rest
  <2> QED
    BY <1>6, <2>2, <2>3, <2>4 DEF CallProcessed, Rest
<1>7. CASE RedeemAnswered
  BY <1>7 DEF Rest, RedeemAnswered, envVars
<1> QED
  BY <1>1, <1>2, <1>3, <1>4, <1>5, <1>6, <1>7, <1>8, <1>9 DEF Next

LEMMA ListsStep == IInv /\ [Next]_vars => Lists'
<1> SUFFICES ASSUME IInv, [Next]_vars PROVE Lists'
  OBVIOUS
<1> USE DEF IInv
<1>0. participants \subseteq Participants /\ PushesOK(inbox)
  BY DEF Lists
<1>1. PushesOK(<<>>)
  BY DEF PushesOK
<1>2. CASE UNCHANGED <<participants, inbox>>
  BY <1>0, <1>2 DEF Lists, PushesOK
<1>3. CASE UNCHANGED participants /\ inbox' = <<>>
  BY <1>0, <1>1, <1>3 DEF Lists
<1>4. CASE Logout
  BY <1>1, <1>4 DEF Lists, Logout
<1>5. CASE FeedReady
  <2>1. PushesOK(inbox') /\ participants' = participants
    <3>1. server \in SUBSET Participants
      BY DEF Rest
    <3>2. PICK order \in SetToSeqs(server) :
            inbox' = [i \in DOMAIN order |-> Push(order[i], TRUE, i < Len(order))]
      BY <1>5, Zenon DEF FeedReady
    <3>3. PushesOK([i \in DOMAIN order |-> Push(order[i], TRUE, i < Len(order))])
      BY <3>1, SeriesOK
    <3> QED
      BY <1>5, <3>2, <3>3, Zenon DEF FeedReady
  <2> QED
    BY <1>0, <2>1 DEF Lists
<1>6. ASSUME NEW p \in Participants, ServerChanges(p) PROVE Lists'
  <2>1. CASE feed = "up"
    <3> DEFINE e == p \in server'
    <3>1. e \in BOOLEAN
      OBVIOUS
    <3>2. inbox' = Append(inbox, Push(p, e, FALSE)) /\ participants' = participants
      BY <1>6, <2>1, Zenon DEF ServerChanges
    <3> HIDE DEF e
    <3>3. PushesOK(inbox')
      BY <1>0, <3>1, <3>2, PushAppended
    <3> QED
      BY <1>0, <3>2, <3>3 DEF Lists
  <2>2. CASE feed # "up"
    BY <1>2, <1>6, <2>2 DEF ServerChanges
  <2> QED
    BY <2>1, <2>2
<1>7. CASE PushArrives
  <2>1. PushesOK(Tail(inbox)) /\ Head(inbox).of \in Participants
    BY <1>0, <1>7, PushTaken DEF PushArrives
  <2>2. /\ inbox' = Tail(inbox)
        /\ participants' = IF Head(inbox).exists THEN participants \cup {Head(inbox).of}
                           ELSE participants \ {Head(inbox).of}
    BY <1>7, Zenon DEF PushArrives
  <2> QED
    BY <1>0, <2>1, <2>2 DEF Lists
<1>8. CASE CallProcessed
  <2>1. CASE inbox' = Append(inbox, Push(Head(calls).of, TRUE, FALSE)) /\ Made(Head(calls)) # {}
    <3>1. Head(calls).of \in Participants /\ TRUE \in BOOLEAN
      BY <2>1 DEF Made
    <3>2. PushesOK(inbox')
      BY <1>0, <2>1, <3>1, PushAppended
    <3> QED
      BY <1>0, <1>8, <3>2 DEF CallProcessed, Lists
  <2> QED
    BY <1>2, <1>8, <2>1 DEF CallProcessed
<1>9. CASE RedeemAnswered
  <2>1. inbox' = inbox /\ participants' \subseteq participants \cup Made(Head(calls))
    BY <1>9 DEF RedeemAnswered
  <2> QED
    BY <1>0, <2>1 DEF Lists, Made
<1>10. ASSUME NEW p \in Ids, Redeem(p) PROVE Lists'
  BY <1>2, <1>10 DEF Redeem, listVars
<1>11. ASSUME NEW sel \in Participants \cup {NoneItem}, UserSelects(sel) PROVE Lists'
  BY <1>2, <1>11 DEF UserSelects, listVars
<1>12. ASSUME NEW p \in Participants, NEW ok \in BOOLEAN, PictureArrives(p, ok) PROVE Lists'
  BY <1>2, <1>12 DEF PictureArrives, listVars
<1>13. CASE UNCHANGED vars \/ Login \/ SaveSettings \/ PutAnswered \/ Settle
  BY <1>2, <1>13 DEF vars, Login, SaveSettings, PutAnswered, Settle, listVars
<1>14. CASE FeedDrops
  BY <1>3, <1>14 DEF FeedDrops
<1> QED
  BY <1>4, <1>5, <1>6, <1>7, <1>8, <1>9, <1>10, <1>11, <1>12, <1>13, <1>14 DEF Next

-----------------------------------------------------------------------------
(* The choice.                                                               *)

\* A call is put behind the others.
LEMMA QueueGrows ==
  ASSUME NEW q, CallsOK(q), NEW id \in Ids \cup {NoneItem}, linked \in BOOLEAN
  PROVE  CallsOK(WithPut(q, id)) /\ (q # <<>> => WithPut(q, id) # <<>>)
<1>1. CASE linked
  <2>1. WithPut(q, id) = Append(q, PutOf(id))
    BY <1>1 DEF WithPut
  <2>2. Append(q, PutOf(id)) # <<>>
    BY BodyType, AppendElements, EmptySeq DEF CallsOK
  <2> QED
    BY <2>1, <2>2, PutAppended
<1>2. CASE ~linked
  BY <1>2 DEF WithPut
<1> QED
  BY <1>1, <1>2

\* The slot of the box, called with a selection of a list.
LEMMA ActiveChangedChoices ==
  ASSUME IInv, NEW list, list \subseteq Participants, NEW sel, sel \in list \cup {Nobody, NoneItem},
         NEW q, CallsOK(q), ActiveChanged(sel, list, q)
  PROVE  /\ current' = sel /\ participantId' = sel
         /\ pictureId' \in Ids /\ picture' = Nobody /\ pictures' \subseteq Participants
         /\ CallsOK(calls') /\ (q # <<>> => calls' # <<>>)
<1>1. sel \in Ids \cup {NoneItem} /\ pictures \subseteq Participants /\ linked \in BOOLEAN
  BY DEF Ids, IInv, ChoicesOK, Flags
<1>2. /\ current' = sel /\ participantId' = sel /\ picture' = Nobody
      /\ pictureId' \in Ids /\ pictures' \subseteq Participants
  BY <1>1 DEF ActiveChanged, Ids
<1>3. calls' = q \/ calls' = WithPut(q, sel)
  BY DEF ActiveChanged
<1> QED
  BY <1>1, <1>2, <1>3, QueueGrows

\* What a step may do to the box and the setting.
ShownStep ==
  /\ Apart' /\ ~Apart => RedeemAnswered /\ Made(Head(calls)) # {} /\ current \in Participants
  /\ current' # current => ~Apart'

\* A list that has arrived.
LEMMA ParticipantsReadyChoices ==
  ASSUME IInv, NEW list \in SUBSET Participants, NEW q, CallsOK(q), ParticipantsReady(list, q),
         participants' = list
  PROVE  ChoicesOK' /\ CallsOK(calls') /\ (q # <<>> => calls' # <<>>) /\ ShownStep
<1> DEFINE sel == Selected(list, participantId)
<1>1. sel \in list \cup {Nobody, NoneItem}
  BY DEF Selected
<1>2. /\ current \in Participants \cup {Nobody, NoneItem} /\ participantId \in Ids \cup {NoneItem}
      /\ pictureId \in Ids /\ picture \in Ids /\ pictures \subseteq Participants
      /\ (picture # Nobody => picture = pictureId) /\ (current = NoneItem => participantId = NoneItem)
  BY DEF IInv, ChoicesOK, Lists, PictureMatches
<1> HIDE DEF sel
<1>4. CASE current # sel
  <2>1. ActiveChanged(sel, list, q)
    BY <1>4 DEF ParticipantsReady, sel
  <2>2. /\ current' = sel /\ participantId' = sel
        /\ pictureId' \in Ids /\ picture' = Nobody /\ pictures' \subseteq Participants
        /\ CallsOK(calls') /\ (q # <<>> => calls' # <<>>)
    BY <1>1, <2>1, ActiveChangedChoices, SMTT(60)
  <2>3. ChoicesOK'
    BY <1>1, <2>2 DEF ChoicesOK, PictureMatches, Ids
  <2> QED
    BY <2>2, <2>3 DEF ShownStep, Apart
<1>5. CASE current = sel
  <2>1. /\ calls' = q /\ current' = current /\ participantId' = participantId /\ pictures' = pictures
        /\ pictureId' = IF list = {} THEN Nobody ELSE pictureId
        /\ picture' = IF list = {} THEN Nobody ELSE picture
    BY <1>5 DEF ParticipantsReady, sel
  <2>2. ChoicesOK'
    BY <1>1, <1>2, <1>5, <2>1 DEF ChoicesOK, PictureMatches, Ids
  <2> QED
    BY <2>1, <2>2 DEF ShownStep, Apart
<1> QED
  BY <1>4, <1>5

LEMMA SameChoices ==
  ASSUME IInv, UNCHANGED choiceVars, participants \subseteq participants'
  PROVE  ChoicesOK' /\ ShownStep
BY DEF IInv, ChoicesOK, choiceVars, PictureMatches, ShownStep, Apart

\* What each step does to the choice and the queue.
StepResult == ChoicesOK' /\ Queue' /\ ShownStep

LEMMA LoginResult == IInv /\ (Login \/ SaveSettings) => StepResult
<1> SUFFICES ASSUME IInv, Login \/ SaveSettings PROVE StepResult
  OBVIOUS
<1>1. ChoicesOK' /\ ShownStep
  BY SameChoices DEF Login, SaveSettings, listVars
<1>2. /\ answer' = answer /\ participantId' = participantId /\ participantId \in Ids \cup {NoneItem}
      /\ calls' = calls \/ calls' = Append(calls, PutOf(participantId))
  BY DEF Login, SaveSettings, WithPut, choiceVars, IInv, ChoicesOK
<1>3. CallsOK(calls) /\ Append(calls, PutOf(participantId)) # <<>>
  BY <1>2, BodyType, AppendElements, EmptySeq DEF IInv, Queue, CallsOK
<1>4. CallsOK(calls') /\ (calls # <<>> => calls' # <<>>)
  BY <1>2, <1>3, PutAppended
<1> QED
  BY <1>1, <1>2, <1>4 DEF StepResult, Queue, IInv

LEMMA LogoutResult == IInv /\ Logout => StepResult
<1> SUFFICES ASSUME IInv, Logout PROVE StepResult
  OBVIOUS
<1>1. calls' = calls /\ answer' = answer /\ current' = Nobody /\ participantId' = Nobody
  BY DEF Logout
<1>2. ChoicesOK'
  BY ReceiverConstants DEF Logout, IInv, ChoicesOK, PictureMatches, Ids
<1> QED
  BY <1>1, <1>2 DEF StepResult, Queue, IInv, ShownStep, Apart, CallsOK

LEMMA UserSelectsResult ==
  ASSUME IInv, NEW sel \in Participants \cup {NoneItem}, UserSelects(sel) PROVE StepResult
<1>1. /\ sel \in participants \cup {Nobody, NoneItem} /\ participants \in SUBSET Participants
      /\ CallsOK(calls) /\ ActiveChanged(sel, participants, calls)
      /\ participants' = participants /\ answer' = answer
  BY DEF UserSelects, IInv, Lists, Queue, listVars
<1>2. /\ current' = sel /\ participantId' = sel
      /\ pictureId' \in Ids /\ picture' = Nobody /\ pictures' \subseteq Participants
      /\ CallsOK(calls') /\ (calls # <<>> => calls' # <<>>)
  BY <1>1, ActiveChangedChoices
<1>3. ChoicesOK'
  BY <1>1, <1>2 DEF ChoicesOK, PictureMatches, Ids
<1> QED
  BY <1>1, <1>2, <1>3 DEF StepResult, Queue, IInv, ShownStep, Apart

LEMMA PushArrivesResult == IInv /\ PushArrives => StepResult
<1> SUFFICES ASSUME IInv, PushArrives PROVE StepResult
  OBVIOUS
<1> DEFINE push == Head(inbox)
           list == IF push.exists THEN participants \cup {push.of} ELSE participants \ {push.of}
<1>1. /\ participants \subseteq Participants /\ push.of \in Participants
      /\ (push.continuous => push.exists) /\ CallsOK(calls)
  BY PushTaken DEF IInv, Lists, Queue, PushArrives
<1>2. participants' = list /\ list \in SUBSET Participants /\ answer' = answer
  BY <1>1 DEF PushArrives
<1>3. CASE push.continuous \/ (~push.exists /\ push.of \notin participants)
  <2>1. UNCHANGED <<choiceVars, calls>> /\ participants \subseteq participants'
    BY <1>1, <1>2, <1>3 DEF PushArrives
  <2>2. ChoicesOK' /\ ShownStep
    BY <2>1, SameChoices
  <2> QED
    BY <1>2, <2>1, <2>2 DEF StepResult, Queue, IInv, CallsOK
<1>4. CASE ~(push.continuous \/ (~push.exists /\ push.of \notin participants))
  <2>1. ParticipantsReady(participants', calls)
    BY <1>4 DEF PushArrives
  <2>2. ParticipantsReady(list, calls)
    BY <1>2, <2>1 DEF ParticipantsReady, ActiveChanged, Selected
  <2> HIDE DEF list
  <2>3. ChoicesOK' /\ CallsOK(calls') /\ (calls # <<>> => calls' # <<>>) /\ ShownStep
    BY <1>1, <1>2, <2>2, ParticipantsReadyChoices
  <2> QED
    BY <1>2, <2>3 DEF StepResult, Queue, IInv
<1> QED
  BY <1>3, <1>4

LEMMA RedeemResult == ASSUME IInv, NEW p \in Ids, Redeem(p) PROVE StepResult
<1>1. ChoicesOK' /\ ShownStep
  BY SameChoices DEF Redeem, listVars
<1>2. answer' = answer /\ calls' = Append(calls, RedeemOf(p)) /\ CallsOK(calls)
  BY DEF Redeem, IInv, Queue
<1>3. CallsOK(calls') /\ calls' # <<>>
  BY <1>2, RedeemType, AppendElements, EmptySeq DEF CallsOK
<1> QED
  BY <1>1, <1>2, <1>3 DEF StepResult, Queue

LEMMA PutAnsweredResult == IInv /\ PutAnswered => StepResult
<1> SUFFICES ASSUME IInv, PutAnswered PROVE StepResult
  OBVIOUS
<1>1. ChoicesOK' /\ ShownStep
  BY SameChoices DEF PutAnswered, listVars
<1>2. calls' = Tail(calls) /\ answer' = "no" /\ calls # <<>> /\ CallsOK(calls)
  BY DEF PutAnswered, IInv, Queue
<1>3. CallsOK(calls')
  BY <1>2, CallTaken
<1> QED
  BY <1>1, <1>2, <1>3 DEF StepResult, Queue

LEMMA RedeemAnsweredResult == IInv /\ RedeemAnswered => StepResult
<1> SUFFICES ASSUME IInv, RedeemAnswered PROVE StepResult
  OBVIOUS
<1> DEFINE p    == Head(calls).of
           made == Made(Head(calls))
           list == participants \cup made
           sel  == Selected(list, p)
<1>1. /\ calls # <<>> /\ CallsOK(calls) /\ answer' = "no" /\ participants \subseteq Participants
      /\ current \in participants \cup {Nobody, NoneItem} /\ participantId \in Ids \cup {NoneItem}
      /\ pictureId \in Ids /\ picture \in Ids /\ pictures \subseteq Participants
      /\ (picture # Nobody => picture = pictureId) /\ linked \in BOOLEAN
  BY DEF RedeemAnswered, IInv, Queue, Lists, ChoicesOK, PictureMatches, Flags
<1>2. CallsOK(Tail(calls))
  BY <1>1, CallTaken
<1>3. CASE answer = "failed"
  <2>1. calls' = Tail(calls) /\ participants' = participants /\ UNCHANGED choiceVars
    BY <1>3 DEF RedeemAnswered
  <2>2. ChoicesOK' /\ ShownStep
    BY <2>1, SameChoices
  <2> QED
    BY <1>1, <1>2, <2>1, <2>2 DEF StepResult, Queue
<1>4. CASE answer = "ok" /\ made = {}
  <2>1. ParticipantsReady(participants, Tail(calls)) /\ participants' = participants
    BY <1>4 DEF RedeemAnswered
  <2>2. ChoicesOK' /\ CallsOK(calls') /\ ShownStep
    BY <1>1, <1>2, <2>1, ParticipantsReadyChoices
  <2> QED
    BY <1>1, <2>2 DEF StepResult, Queue
<1>5. CASE answer = "ok" /\ made # {}
  <2>1. /\ participants' = list /\ participantId' = p /\ calls' = WithPut(Tail(calls), p)
        /\ current' = sel
        /\ IF current # sel
           THEN pictureId' = p /\ picture' = Nobody /\ pictures' = pictures \cup {p}
           ELSE UNCHANGED <<pictureId, picture, pictures>>
    BY <1>5 DEF RedeemAnswered
  <2>2. p \in Participants /\ p \in list /\ list \subseteq Participants
    BY <1>1, <1>5 DEF Made
  <2>3. (sel = current /\ current \in Participants) \/ sel = p
    BY <1>1, <2>2 DEF Selected
  <2>4. ShownStep
    BY <1>5, <2>1, <2>3 DEF ShownStep, Apart
  <2>5. sel \in list
    BY <1>1, <2>2 DEF Selected
  <2> HIDE DEF sel, p, list, made
  <2>6. ChoicesOK'
    BY <1>1, <2>1, <2>2, <2>5, ReceiverConstants DEF ChoicesOK, PictureMatches, Ids
  <2>7. CallsOK(calls')
    BY <1>1, <1>2, <2>1, <2>2, QueueGrows DEF Ids
  <2> QED
    BY <1>1, <2>4, <2>6, <2>7 DEF StepResult, Queue
<1> QED
  BY <1>3, <1>4, <1>5 DEF RedeemAnswered

LEMMA PictureResult ==
  ASSUME IInv, NEW p \in Participants, NEW ok \in BOOLEAN, PictureArrives(p, ok) PROVE StepResult
<1>1. /\ calls' = calls /\ answer' = answer /\ current' = current /\ participantId' = participantId
      /\ participants' = participants /\ pictureId' = pictureId /\ pictures' = pictures \ {p}
      /\ picture' = IF p # pictureId THEN picture ELSE IF ok THEN p ELSE Nobody
  BY DEF PictureArrives, callVars, listVars
<1>2. ChoicesOK'
  BY <1>1 DEF IInv, ChoicesOK, PictureMatches, Ids
<1> QED
  BY <1>1, <1>2 DEF StepResult, IInv, Queue, ShownStep, Apart, CallsOK

\* The steps that leave the choice and the queue alone.
LEMMA OtherResult ==
  ASSUME IInv,
         UNCHANGED vars \/ FeedReady \/ FeedDrops \/ CallProcessed \/ Settle
           \/ (\E p \in Participants : ServerChanges(p))
  PROVE  StepResult
<1>1. UNCHANGED choiceVars /\ participants' = participants /\ calls' = calls
  BY DEF vars, FeedReady, FeedDrops, CallProcessed, Settle, ServerChanges, listVars, callVars
<1>2. ChoicesOK' /\ ShownStep
  BY <1>1, SameChoices
<1>3. Queue'
  <2>1. answer' = answer \/ calls # <<>>
    BY DEF vars, FeedReady, FeedDrops, CallProcessed, Settle, ServerChanges, callVars
  <2> QED
    BY <1>1, <2>1 DEF IInv, Queue, CallsOK
<1> QED
  BY <1>2, <1>3 DEF StepResult

LEMMA Result == IInv /\ [Next]_vars => StepResult
BY LoginResult, LogoutResult, UserSelectsResult, PushArrivesResult, RedeemResult, PutAnsweredResult,
   RedeemAnsweredResult, PictureResult, OtherResult DEF Next

LEMMA StepIInv == IInv /\ [Next]_vars => IInv'
BY FlagsStep, RestStep, ListsStep, Result DEF IInv, StepResult

-----------------------------------------------------------------------------
(* Theorems.                                                                 *)

\* The invariant the theorems rest on.
THEOREM ReceiversInvariant == Spec => []IInv
BY InitIInv, StepIInv, PTL DEF Spec

\* Every variable keeps its type.
THEOREM ReceiversTypes == Spec => []TypeOK
<1>1. IInv => TypeOK
  <2> SUFFICES ASSUME IInv PROVE TypeOK
    OBVIOUS
  <2>1. calls \in Seq([kind : {"put", "redeem"}, of : Ids])
        /\ inbox \in Seq([of : Participants, exists : BOOLEAN, continuous : BOOLEAN])
    BY DEF IInv, Queue, CallsOK, Calls, Lists, PushesOK, Pushes
  <2>2. linked \in BOOLEAN /\ lastFailed \in BOOLEAN /\ stable \in BOOLEAN
    BY DEF IInv, Flags
  <2>3. current \in Ids \cup {NoneItem} /\ participants \subseteq Participants
    BY DEF IInv, ChoicesOK, Lists, Ids
  <2> QED
    BY <2>1, <2>2, <2>3 DEF IInv, Rest, ChoicesOK, TypeOK
<1> QED
  BY <1>1, ReceiversInvariant, PTL

\* A picture that arrives late is never shown beside another receiver's name.
THEOREM LatePicturesIgnored == Spec => []PictureMatches
<1>1. IInv => PictureMatches
  BY DEF IInv, ChoicesOK
<1> QED
  BY <1>1, ReceiversInvariant, PTL

\* The box shows the setting the next PUT will carry: only a code answered with another
\* receiver than the box shows parts them, and every change of the box repairs it
\* (redeemInviteCode in src/src/api-client.cpp, onParticipantsReady and
\* onActiveParticipantChanged in src/src/UI/egress-link-dock.cpp).
THEOREM BoxShowsSetting == Spec => ShownIsSetting
<1>1. IInv /\ [Next]_vars => [ShownStep]_vars
  BY Result DEF StepResult
<1>2. Init /\ [][Next]_vars => [][ShownStep]_vars
  <2> HIDE DEF ShownStep
  <2> QED
    BY <1>1, InitIInv, StepIInv, PTL
<1> QED
  BY <1>2 DEF Spec, ShownIsSetting, ShownStep

-----------------------------------------------------------------------------
(* The receiver of the setting.                                              *)

\* Pushes and lists speak of what the service knows or has known, and a push that ends a
\* participation is not outlived by it.
News ==
  /\ participants \subseteq known
  /\ \A i \in DOMAIN inbox : inbox[i].of \in known /\ (~inbox[i].exists => inbox[i].of \notin server)

\* A code that was redeemed has made its participant.
Redeemed == answer = "ok" /\ Head(calls).kind = "redeem" => Made(Head(calls)) \subseteq known

\* The receiver is in the list, or its push is under way in the series that begins the
\* connection, before anything is signalled.
Covered ==
  /\ participantId \in Participants => participantId \in known
  /\ feed = "up" /\ participantId \in server =>
       \/ participantId \in participants
       \/ \E i \in DOMAIN inbox : /\ inbox[i].of = participantId /\ inbox[i].exists
                                  /\ \A j \in DOMAIN inbox : j < i => inbox[j].continuous

\* Ids are not reused: whom the service newly knows it has never known.
LEMMA ServerGrows ==
  ASSUME IInv, [Next]_vars
  PROVE  known \subseteq known' /\ server' \subseteq known' /\ \A p \in server' : p \in server \/ p \notin known
<1>1. CASE UNCHANGED <<server, known>>
  BY <1>1 DEF IInv, Rest
<1>2. ASSUME NEW p \in Participants, ServerChanges(p)
      PROVE  known' = known \cup server' /\ \A x \in server' : x \in server \/ x \notin known
  BY <1>2 DEF ServerChanges
<1>3. CASE CallProcessed
  <2>1. \/ UNCHANGED <<server, known>>
        \/ /\ ~Spent(Head(calls)) /\ Head(calls).kind = "redeem"
           /\ server' = server \cup Made(Head(calls)) /\ known' = known \cup server'
    BY <1>3, Zenon DEF CallProcessed
  <2>2. CASE UNCHANGED <<server, known>>
    BY <1>1, <2>2
  <2>3. CASE /\ ~Spent(Head(calls)) /\ Head(calls).kind = "redeem"
             /\ server' = server \cup Made(Head(calls)) /\ known' = known \cup server'
    BY <2>3 DEF Spent, Made
  <2> QED
    BY <2>1, <2>2, <2>3
<1>4. ASSUME \/ UNCHANGED vars \/ Login \/ Logout \/ FeedReady \/ FeedDrops \/ PushArrives \/ SaveSettings
             \/ PutAnswered \/ RedeemAnswered \/ Settle
             \/ \E p \in Ids : Redeem(p)
             \/ \E sel \in Participants \cup {NoneItem} : UserSelects(sel)
             \/ \E p \in Participants, ok \in BOOLEAN : PictureArrives(p, ok)
      PROVE  UNCHANGED <<server, known>>
  BY <1>4 DEF vars, Login, Logout, FeedReady, FeedDrops, PushArrives, SaveSettings, PutAnswered,
     RedeemAnswered, Settle, Redeem, UserSelects, PictureArrives
<1> QED
  BY <1>1, <1>2, <1>3, <1>4 DEF Next

\* The series that begins a connection has a push for each participant of the service.
LEMMA SeriesFields ==
  ASSUME IInv, FeedReady
  PROVE  /\ \A i \in DOMAIN inbox' : inbox'[i].of \in server /\ inbox'[i].exists
         /\ \A p \in server : \E i \in DOMAIN inbox' :
              inbox'[i].of = p /\ \A j \in DOMAIN inbox' : j < i => inbox'[j].continuous
<1> DEFINE n == Cardinality(server)
<1>1. PICK order \in SetToSeqs(server) :
        inbox' = [i \in DOMAIN order |-> Push(order[i], TRUE, i < Len(order))]
  BY Zenon DEF FeedReady
<1>2. n \in Nat /\ IsFiniteSet(server)
  BY ReceiverConstants, FS_Subset, FS_CardinalityType DEF IInv, Rest
<1>3. DOMAIN order = 1 .. n /\ \A i \in 1 .. n : order[i] \in server
  BY DEF SetToSeqs
<1>4. order \in Seq(server) /\ Len(order) = n
  BY <1>2, <1>3 DEF SetToSeqs
<1>5. \A p \in server : \E i \in 1 .. n : order[i] = p
  <2> DEFINE D == 1 .. n
  <2>1. order \in [D -> server] /\ \A i, j \in D : i # j => order[i] # order[j]
    BY DEF SetToSeqs
  <2>2. IsFiniteSet(D) /\ Cardinality(D) = n
    BY <1>2, FS_Interval
  <2> HIDE DEF D, n
  <2>3. order \in Injection(D, server)
    BY <2>1 DEF Injection, IsInjective
  <2>4. order \in Surjection(D, server)
    BY <1>2, <2>2, <2>3, FS_Injection DEF n
  <2> QED
    BY <2>1, <2>4 DEF Surjection, D
<1>6. \A i \in 1 .. n : inbox'[i].of = order[i] /\ inbox'[i].exists /\ inbox'[i].continuous = (i < n)
  BY <1>1, <1>3, <1>4 DEF Push
<1>7. DOMAIN inbox' = 1 .. n
  BY <1>1, <1>3
<1>8. ASSUME NEW p \in server
      PROVE  \E i \in DOMAIN inbox' : inbox'[i].of = p /\ \A j \in DOMAIN inbox' : j < i => inbox'[j].continuous
  <2>1. PICK i \in 1 .. n : order[i] = p
    BY <1>5
  <2>2. ASSUME NEW j \in 1 .. n, j < i
        PROVE  inbox'[j].continuous
    <3>1. j < n
      BY <1>2, <2>2
    <3> QED
      BY <1>6, <3>1
  <2> QED
    BY <1>6, <1>7, <2>1, <2>2
<1> QED
  BY <1>3, <1>6, <1>7, <1>8

\* A push put behind the others.
LEMMA AppendedFields ==
  ASSUME PushesOK(inbox), NEW p \in Participants, NEW e \in BOOLEAN,
         inbox' = Append(inbox, Push(p, e, FALSE))
  PROVE  /\ DOMAIN inbox \subseteq DOMAIN inbox' /\ \A i \in DOMAIN inbox : inbox'[i] = inbox[i]
         /\ \A i \in DOMAIN inbox' : i \in DOMAIN inbox \/ (inbox'[i].of = p /\ inbox'[i].exists = e)
         /\ \A i \in DOMAIN inbox, j \in DOMAIN inbox' : j < i => j \in DOMAIN inbox
<1> DEFINE x == Push(p, e, FALSE)
<1>1. FALSE \in BOOLEAN
  OBVIOUS
<1>2. x \in Pushes /\ x.of = p /\ x.exists = e
  BY <1>1, PushType DEF Push
<1> DEFINE s == Append(inbox, x)
<1> HIDE DEF x
<1>3. /\ Len(inbox) \in Nat /\ DOMAIN s = 1 .. Len(inbox) + 1 /\ DOMAIN inbox = 1 .. Len(inbox)
      /\ s[Len(inbox) + 1] = x /\ \A i \in DOMAIN inbox : s[i] = inbox[i]
  BY <1>2, AppendElements DEF PushesOK
<1>4. inbox' = s
  BY DEF x
<1> HIDE DEF s
<1>5. \A i \in DOMAIN s : i \in DOMAIN inbox \/ i = Len(inbox) + 1
  BY <1>3
<1>6. \A i \in DOMAIN inbox, j \in DOMAIN s : j < i => j \in DOMAIN inbox
  BY <1>3
<1>7. DOMAIN inbox \subseteq DOMAIN s
  BY <1>3
<1>8. \A i \in DOMAIN s : i \in DOMAIN inbox \/ (s[i].of = p /\ s[i].exists = e)
  BY <1>2, <1>3, <1>5, Zenon
<1>9. \A i \in DOMAIN inbox : s[i] = inbox[i]
  BY <1>3
<1> QED
  BY <1>4, <1>6, <1>7, <1>8, <1>9, Zenon

\* The first push taken.
LEMMA TakenFields ==
  ASSUME PushesOK(inbox), inbox # <<>>, inbox' = Tail(inbox)
  PROVE  /\ 1 \in DOMAIN inbox /\ Head(inbox) = inbox[1]
         /\ \A i \in DOMAIN inbox' : i + 1 \in DOMAIN inbox /\ inbox'[i] = inbox[i + 1]
         /\ \A i \in DOMAIN inbox : i # 1 => i - 1 \in DOMAIN inbox' /\ inbox'[i - 1] = inbox[i]
         /\ DOMAIN inbox \subseteq Nat /\ DOMAIN inbox' \subseteq Nat
<1>1. Len(inbox) \in Nat \ {0} /\ Len(Tail(inbox)) = Len(inbox) - 1 /\ Tail(inbox) \in Seq(Pushes)
  BY EmptySeq, LenProperties, HeadTailProperties DEF PushesOK
<1>2. DOMAIN inbox = 1 .. Len(inbox) /\ DOMAIN inbox' = 1 .. Len(inbox) - 1
  BY <1>1, LenProperties DEF PushesOK
<1>3. \A i \in 1 .. Len(inbox) - 1 : inbox'[i] = inbox[i + 1]
  BY <1>1, HeadTailProperties DEF PushesOK
<1>4. Head(inbox) = inbox[1]
  BY HeadTailProperties DEF PushesOK
<1>5. ASSUME NEW i \in DOMAIN inbox, i # 1
      PROVE  i - 1 \in DOMAIN inbox' /\ inbox'[i - 1] = inbox[i]
  <2>1. i - 1 \in 1 .. Len(inbox) - 1 /\ (i - 1) + 1 = i
    BY <1>1, <1>2, <1>5
  <2> QED
    BY <1>2, <1>3, <2>1
<1> QED
  BY <1>1, <1>2, <1>3, <1>4, <1>5

\* What a push of the service adds to the pushes under way.
LEMMA PushAdded ==
  ASSUME IInv, [Next]_vars, CallProcessed \/ \E p \in Participants : ServerChanges(p)
  PROVE  /\ UNCHANGED <<feed, participants, participantId, linked>>
         /\ \/ inbox' = inbox
            \/ \E p \in Participants, e \in BOOLEAN :
                 /\ inbox' = Append(inbox, Push(p, e, FALSE)) /\ p \in known' /\ (~e => p \notin server')
<1>1. ASSUME NEW p \in Participants, ServerChanges(p)
      PROVE  inbox' = inbox \/ \E x \in Participants, e \in BOOLEAN :
               inbox' = Append(inbox, Push(x, e, FALSE)) /\ x \in known' /\ (~e => x \notin server')
  <2> DEFINE e == p \in server'
  <2>1. e \in BOOLEAN
    OBVIOUS
  <2>2. inbox' = inbox \/ inbox' = Append(inbox, Push(p, e, FALSE))
    BY <1>1, Zenon DEF ServerChanges
  <2>3. p \in known'
    BY <1>1 DEF ServerChanges, IInv, Rest
  <2> QED
    BY <2>1, <2>2, <2>3
<1>2. ASSUME CallProcessed
      PROVE  inbox' = inbox \/ \E x \in Participants, e \in BOOLEAN :
               inbox' = Append(inbox, Push(x, e, FALSE)) /\ x \in known' /\ (~e => x \notin server')
  <2>1. \/ inbox' = inbox
        \/ /\ Made(Head(calls)) # {} /\ inbox' = Append(inbox, Push(Head(calls).of, TRUE, FALSE))
           /\ server' = server \cup Made(Head(calls))
    BY <1>2, Zenon DEF CallProcessed
  <2>2. Made(Head(calls)) # {} => Head(calls).of \in Participants /\ Head(calls).of \in Made(Head(calls))
    BY DEF Made
  <2>3. server' \subseteq known' /\ TRUE \in BOOLEAN
    BY ServerGrows
  <2> QED
    BY <2>1, <2>2, <2>3
<1>3. UNCHANGED <<feed, participants, participantId, linked>>
  BY DEF CallProcessed, ServerChanges, choiceVars
<1> QED
  BY <1>1, <1>2, <1>3

LEMMA StepNews ==
  ASSUME IInv, News, [Next]_vars, Redeemed
  PROVE  News'
<1>1. known \subseteq known' /\ server' \subseteq known' /\ \A p \in server' : p \in server \/ p \notin known
  BY ServerGrows
<1>2. PushesOK(inbox)
  BY DEF IInv, Lists
<1>3. CASE CallProcessed \/ \E p \in Participants : ServerChanges(p)
  <2>1. participants' = participants
    BY <1>3, PushAdded
  <2>2. CASE inbox' = inbox
    BY <1>1, <2>1, <2>2 DEF News
  <2>3. ASSUME NEW p \in Participants, NEW e \in BOOLEAN,
               inbox' = Append(inbox, Push(p, e, FALSE)) /\ p \in known' /\ (~e => p \notin server')
        PROVE  News'
    <3>1. \A i \in DOMAIN inbox' : \/ i \in DOMAIN inbox /\ inbox'[i] = inbox[i]
                                   \/ inbox'[i].of = p /\ inbox'[i].exists = e
      <4>1. /\ \A i \in DOMAIN inbox : inbox'[i] = inbox[i]
            /\ \A i \in DOMAIN inbox' : i \in DOMAIN inbox \/ (inbox'[i].of = p /\ inbox'[i].exists = e)
        BY <1>2, <2>3, AppendedFields, ZenonT(60)
      <4> QED
        BY <4>1, Zenon
    <3> QED
      BY <1>1, <2>1, <2>3, <3>1 DEF News
  <2> QED
    BY <1>3, <2>2, <2>3, PushAdded
<1>4. CASE FeedReady
  <2>1. participants' = participants /\ server' = server /\ server \subseteq known
    BY <1>4 DEF FeedReady, IInv, Rest
  <2> QED
    BY <1>1, <1>4, <2>1, SeriesFields DEF News
<1>5. CASE PushArrives
  <2>1. /\ \A i \in DOMAIN inbox' : i + 1 \in DOMAIN inbox /\ inbox'[i] = inbox[i + 1]
        /\ 1 \in DOMAIN inbox /\ Head(inbox) = inbox[1]
    BY <1>2, <1>5, TakenFields DEF PushArrives
  <2>2. participants' \subseteq participants \cup {Head(inbox).of}
    BY <1>5 DEF PushArrives
  <2> QED
    BY <1>1, <2>1, <2>2 DEF News
<1>6. CASE RedeemAnswered
  <2>1. /\ inbox' = inbox
        /\ \/ participants' = participants
           \/ answer = "ok" /\ participants' = participants \cup Made(Head(calls))
    BY <1>6 DEF RedeemAnswered
  <2>2. Head(calls).kind = "redeem"
    BY <1>6 DEF RedeemAnswered
  <2> QED
    BY <1>1, <2>1, <2>2 DEF News, Redeemed
<1>7. CASE Logout \/ FeedDrops
  <2>1. inbox' = <<>> /\ participants' \subseteq participants
    BY <1>7 DEF Logout, FeedDrops
  <2> QED
    BY <1>1, <2>1 DEF News
<1>8. ASSUME \/ UNCHANGED vars \/ Login \/ SaveSettings \/ PutAnswered \/ Settle
             \/ \E p \in Ids : Redeem(p)
             \/ \E sel \in Participants \cup {NoneItem} : UserSelects(sel)
             \/ \E p \in Participants, ok \in BOOLEAN : PictureArrives(p, ok)
      PROVE  News'
  <2>1. UNCHANGED <<inbox, participants>>
    BY <1>8 DEF vars, Login, SaveSettings, PutAnswered, Settle, Redeem, UserSelects,
       PictureArrives, listVars
  <2> QED
    BY <1>1, <2>1 DEF News
<1> QED
  BY <1>3, <1>4, <1>5, <1>6, <1>7, <1>8 DEF Next

\* Calls are put behind the one that is answered.
LEMMA FirstCallStays ==
  ASSUME NEW q, CallsOK(q), q # <<>>, NEW x \in Calls
  PROVE  Head(Append(q, x)) = Head(q)
<1> DEFINE s == Append(q, x)
<1>1. s \in Seq(Calls) /\ s # <<>> /\ \A i \in DOMAIN q : s[i] = q[i]
  BY AppendElements, EmptySeq DEF CallsOK
<1>2. Head(q) = q[1] /\ 1 \in DOMAIN q
  BY TailElements DEF CallsOK
<1> HIDE DEF s
<1>3. Head(s) = s[1]
  BY <1>1, TailElements
<1> QED
  BY <1>1, <1>2, <1>3 DEF s

LEMMA FirstPutStays ==
  ASSUME IInv, calls # <<>>, NEW id \in Ids \cup {NoneItem}
  PROVE  Head(WithPut(calls, id)) = Head(calls)
BY BodyType, FirstCallStays DEF WithPut, IInv, Queue

LEMMA StepRedeemed ==
  ASSUME IInv, Redeemed, [Next]_vars
  PROVE  Redeemed'
<1>1. known \subseteq known' /\ server' \subseteq known'
  BY ServerGrows
<1>2. CASE answer' # "ok"
  BY <1>2 DEF Redeemed
<1>3. CASE CallProcessed
  <2>1. /\ calls' = calls
        /\ answer' = "ok" /\ Head(calls).kind = "redeem" => server' = server \cup Made(Head(calls))
    BY <1>3, Zenon DEF CallProcessed, Redeemed
  <2> QED
    BY <1>1, <2>1 DEF Redeemed
<1>4. ASSUME answer' = answer, answer = "ok",
             \/ UNCHANGED vars \/ Logout \/ FeedReady \/ FeedDrops \/ Settle
             \/ Login \/ SaveSettings \/ PushArrives
             \/ (\E p \in Participants : ServerChanges(p)) \/ (\E p \in Ids : Redeem(p))
             \/ \E sel \in Participants \cup {NoneItem} : UserSelects(sel)
             \/ \E p \in Participants, ok \in BOOLEAN : PictureArrives(p, ok)
      PROVE  Redeemed'
  <2>1. calls # <<>> /\ CallsOK(calls) /\ participantId \in Ids \cup {NoneItem}
    BY <1>4 DEF IInv, Queue, ChoicesOK
  <2>2. ASSUME \/ UNCHANGED vars \/ Logout \/ FeedReady \/ FeedDrops \/ Settle
               \/ \E p \in Participants : ServerChanges(p)
               \/ \E p \in Participants, ok \in BOOLEAN : PictureArrives(p, ok)
        PROVE  Head(calls') = Head(calls)
    <3>1. calls' = calls
      BY <2>2 DEF vars, Logout, FeedReady, FeedDrops, Settle, ServerChanges, PictureArrives,
         callVars
    <3> QED
      BY <3>1
  <2>3. ASSUME Login \/ SaveSettings PROVE Head(calls') = Head(calls)
    <3>1. calls' = WithPut(calls, participantId) \/ calls' = Append(calls, PutOf(participantId))
      BY <2>3 DEF Login, SaveSettings
    <3>2. PutOf(participantId) \in Calls
      BY <2>1, BodyType
    <3> QED
      BY <2>1, <3>1, <3>2, FirstPutStays, FirstCallStays
  <2>4. ASSUME NEW p \in Ids, Redeem(p) PROVE Head(calls') = Head(calls)
    BY <2>1, <2>4, FirstCallStays, RedeemType DEF Redeem
  <2>5. ASSUME NEW sel \in Participants \cup {NoneItem}, UserSelects(sel) PROVE Head(calls') = Head(calls)
    <3>1. sel \in Ids \cup {NoneItem}
      BY DEF Ids
    <3>2. calls' = calls \/ calls' = WithPut(calls, sel)
      BY <2>5 DEF UserSelects, ActiveChanged
    <3> QED
      BY <2>1, <3>1, <3>2, FirstPutStays
  <2>6. ASSUME PushArrives PROVE Head(calls') = Head(calls)
    <3>1. PICK list : list = participants'
      OBVIOUS
    <3>2. calls' = calls \/ calls' = WithPut(calls, Selected(list, participantId))
      BY <2>6, <3>1 DEF PushArrives, ParticipantsReady, ActiveChanged, Selected
    <3>3. Selected(list, participantId) \in Ids \cup {NoneItem}
      BY <2>1, <3>1 DEF Selected, Ids, IInv, ChoicesOK, Lists
    <3> QED
      BY <2>1, <3>2, <3>3, FirstPutStays
  <2>7. Head(calls') = Head(calls)
    BY <1>4, <2>2, <2>3, <2>4, <2>5, <2>6
  <2> QED
    BY <1>1, <1>4, <2>7 DEF Redeemed
<1>5. CASE answer' = "ok" /\ ~CallProcessed
  <2>1. ~PutAnswered /\ ~RedeemAnswered
    BY <1>5 DEF PutAnswered, RedeemAnswered
  <2>2. answer' = answer
    BY <1>5, <2>1 DEF Next, vars, Login, Logout, FeedReady, FeedDrops, PushArrives, SaveSettings, ServerChanges,
       Redeem, UserSelects, PictureArrives, Settle, callVars
  <2> QED
    BY <1>4, <1>5, <2>1, <2>2 DEF Next
<1> QED
  BY <1>2, <1>3, <1>5

\* A push taken: the receiver of the setting is in the list once the series is over.
LEMMA PushCovers ==
  ASSUME IInv, News, Covered, PushArrives
  PROVE  /\ participantId \in server =>
              \/ participantId \in participants'
              \/ Head(inbox).continuous /\ \E i \in DOMAIN inbox' :
                   /\ inbox'[i].of = participantId /\ inbox'[i].exists
                   /\ \A j \in DOMAIN inbox' : j < i => inbox'[j].continuous
         /\ participants' \subseteq known
<1>1. /\ 1 \in DOMAIN inbox /\ Head(inbox) = inbox[1]
      /\ \A i \in DOMAIN inbox' : i + 1 \in DOMAIN inbox /\ inbox'[i] = inbox[i + 1]
      /\ \A i \in DOMAIN inbox : i # 1 => i - 1 \in DOMAIN inbox' /\ inbox'[i - 1] = inbox[i]
      /\ DOMAIN inbox \subseteq Nat /\ DOMAIN inbox' \subseteq Nat
  BY TakenFields DEF PushArrives, IInv, Lists
<1>2. /\ participants' = IF Head(inbox).exists THEN participants \cup {Head(inbox).of}
                         ELSE participants \ {Head(inbox).of}
      /\ feed = "up"
  BY Zenon DEF PushArrives
<1>3. participants' \subseteq known
  BY <1>1, <1>2 DEF News
<1>4. ASSUME participantId \in server, participantId \in participants
      PROVE  participantId \in participants'
  BY <1>1, <1>2, <1>4 DEF News
<1>5. ASSUME participantId \in server, NEW i \in DOMAIN inbox, inbox[i].of = participantId, inbox[i].exists,
             \A j \in DOMAIN inbox : j < i => inbox[j].continuous
      PROVE  \/ participantId \in participants'
             \/ inbox[1].continuous /\ \E k \in DOMAIN inbox' :
                  /\ inbox'[k].of = participantId /\ inbox'[k].exists
                  /\ \A j \in DOMAIN inbox' : j < k => inbox'[j].continuous
  <2>1. CASE i = 1
    BY <1>1, <1>2, <1>5, <2>1
  <2>2. CASE i # 1
    <3>1. i - 1 \in DOMAIN inbox' /\ inbox'[i - 1] = inbox[i] /\ i \in Nat
      BY <1>1, <2>2
    <3>2. 1 < i
      <4>1. i # 0
        BY <1>1, LenProperties DEF IInv, Lists, PushesOK
      <4> QED
        BY <2>2, <3>1, <4>1
    <3>3. ASSUME NEW j \in DOMAIN inbox', j < i - 1 PROVE inbox'[j].continuous
      <4>1. j + 1 \in DOMAIN inbox /\ inbox'[j] = inbox[j + 1] /\ j \in Nat
        BY <1>1
      <4>2. j + 1 < i
        BY <3>1, <3>3, <4>1
      <4> QED
        BY <1>5, <4>1, <4>2
    <3>4. inbox[1].continuous
      BY <1>1, <1>5, <3>2
    <3> QED
      BY <1>5, <3>1, <3>3, <3>4
  <2> QED
    BY <2>1, <2>2
<1> QED
  BY <1>1, <1>2, <1>3, <1>4, <1>5 DEF Covered

LEMMA StepCovered ==
  ASSUME IInv, News, Redeemed, Covered, [Next]_vars
  PROVE  Covered'
<1>1. known \subseteq known' /\ \A p \in server' : p \in server \/ p \notin known
  BY ServerGrows
<1>2. Nobody \notin Participants /\ NoneItem \notin Participants /\ server' \subseteq Participants
      /\ participantId \in Ids \cup {NoneItem} /\ participants \subseteq known
  BY ReceiverConstants, RestStep DEF IInv, Rest, ChoicesOK, News
<1>3. participantId \in server' => participantId \in server
  BY <1>1, <1>2 DEF Covered
<1>4. CASE UNCHANGED <<feed, inbox, participants, participantId>>
  BY <1>1, <1>3, <1>4 DEF Covered
<1>5. CASE CallProcessed \/ \E p \in Participants : ServerChanges(p)
  <2>1. UNCHANGED <<feed, participants, participantId, linked>>
    BY <1>5, PushAdded
  <2>2. CASE inbox' = inbox
    BY <1>4, <2>1, <2>2
  <2>3. ASSUME NEW p \in Participants, NEW e \in BOOLEAN,
               inbox' = Append(inbox, Push(p, e, FALSE)) /\ p \in known' /\ (~e => p \notin server')
        PROVE  Covered'
    <3>1. /\ DOMAIN inbox \subseteq DOMAIN inbox' /\ \A i \in DOMAIN inbox : inbox'[i] = inbox[i]
          /\ \A i \in DOMAIN inbox, j \in DOMAIN inbox' : j < i => j \in DOMAIN inbox
      BY <2>3, AppendedFields DEF IInv, Lists
    <3> QED
      BY <1>1, <1>3, <2>1, <3>1 DEF Covered
  <2> QED
    BY <1>5, <2>2, <2>3, PushAdded
<1>6. CASE FeedReady
  <2>1. UNCHANGED <<participants, participantId, server, known>>
    BY <1>6 DEF FeedReady, choiceVars
  <2> QED
    BY <1>6, <2>1, SeriesFields DEF Covered
<1>7. CASE PushArrives
  <2>1. participantId' = participantId \/ participantId' = Selected(participants', participantId)
    BY <1>7 DEF PushArrives, choiceVars, ParticipantsReady, ActiveChanged, Selected
  <2>2. server' = server /\ known' = known
    BY <1>7 DEF PushArrives
  <2>3. Selected(participants', participantId) \in participants' \cup {Nobody, NoneItem}
    <3>1. PICK list : list = participants'
      OBVIOUS
    <3>2. Selected(list, participantId) \in list \cup {Nobody, NoneItem}
      BY DEF Selected
    <3> QED
      BY <3>1, <3>2 DEF Selected
  <2> QED
    BY <1>2, <1>7, <2>1, <2>2, <2>3, PushCovers DEF Covered
<1>8. CASE Logout
  <2>1. participantId' = Nobody
    BY <1>8 DEF Logout
  <2> QED
    BY <1>2, <2>1 DEF Covered
<1>9. CASE FeedDrops \/ Login
  <2>1. feed' # "up" /\ participantId' = participantId
    BY <1>9 DEF FeedDrops, Login, choiceVars
  <2> QED
    BY <1>1, <2>1 DEF Covered
<1>10. CASE RedeemAnswered
  <2>1. CASE answer = "failed"
    BY <1>4, <1>10, <2>1 DEF RedeemAnswered, choiceVars
  <2>2. CASE answer = "ok" /\ Made(Head(calls)) = {}
    <3>1. UNCHANGED <<feed, inbox, participants, server, known>>
      BY <1>10, <2>2 DEF RedeemAnswered
    <3>2. participantId' = participantId \/ participantId' = Selected(participants, participantId)
      BY <1>10, <2>2 DEF RedeemAnswered, ParticipantsReady, ActiveChanged
    <3>3. Selected(participants, participantId) \in participants \cup {Nobody, NoneItem}
      BY DEF Selected
    <3> QED
      BY <1>2, <1>4, <3>1, <3>2, <3>3 DEF Covered
  <2>3. CASE answer = "ok" /\ Made(Head(calls)) # {}
    <3>1. Head(calls).kind = "redeem"
      BY <1>10 DEF RedeemAnswered
    <3>2. /\ participantId' = Head(calls).of /\ participants' = participants \cup Made(Head(calls))
          /\ Head(calls).of \in Made(Head(calls))
      BY <1>10, <2>3 DEF RedeemAnswered, Made
    <3> QED
      BY <1>1, <2>3, <3>1, <3>2 DEF Redeemed, Covered
  <2> QED
    BY <1>10, <2>1, <2>2, <2>3 DEF RedeemAnswered
<1>11. ASSUME NEW sel \in Participants \cup {NoneItem}, UserSelects(sel)
       PROVE  Covered'
  <2>1. participantId' = sel /\ sel \in participants \cup {NoneItem} /\ participants' = participants
    BY <1>11 DEF UserSelects, ActiveChanged, listVars
  <2> QED
    BY <1>1, <1>2, <2>1 DEF Covered
<1>12. ASSUME \/ UNCHANGED vars \/ SaveSettings \/ PutAnswered \/ Settle
              \/ \E p \in Ids : Redeem(p)
              \/ \E p \in Participants, ok \in BOOLEAN : PictureArrives(p, ok)
       PROVE  Covered'
  <2>1. UNCHANGED <<feed, inbox, participants, participantId>>
    BY <1>12 DEF vars, SaveSettings, PutAnswered, Settle, Redeem, PictureArrives, listVars,
       choiceVars
  <2> QED
    BY <1>4, <2>1
<1> QED
  BY <1>5, <1>6, <1>7, <1>8, <1>9, <1>10, <1>11, <1>12 DEF Next

\* A list that is told keeps a receiver it holds, unless the one in the box is another and
\* not in the list.
LEMMA ListKeepsReceiver ==
  ASSUME IInv, NEW list, NEW q, ParticipantsReady(list, q), participantId \in list,
         participantId \in Participants
  PROVE  participantId' = participantId \/ (Apart /\ current \in participants \ list)
<1>1. participantId \notin {Nobody, NoneItem} /\ current \in participants \cup {Nobody, NoneItem}
  BY ReceiverConstants DEF IInv, ChoicesOK
<1>2. CASE current \in list
  BY <1>1, <1>2 DEF ParticipantsReady, ActiveChanged, Selected
<1>3. CASE current \in {Nobody, NoneItem}
  BY <1>1, <1>3 DEF ParticipantsReady, ActiveChanged, Selected
<1>4. CASE current \in participants \ list /\ current \notin {Nobody, NoneItem}
  BY <1>4 DEF Apart
<1> QED
  BY <1>1, <1>2, <1>3, <1>4

\* A push: what leaves the list has left the service.
LEMMA PushKeepsReceiver ==
  ASSUME IInv, News, Covered, PushArrives, participantId \in server
  PROVE  participantId' = participantId \/ (Apart /\ current \notin server)
<1>1. CASE UNCHANGED choiceVars
  BY <1>1 DEF choiceVars
<1>2. CASE ~UNCHANGED choiceVars
  <2>1. PICK list : list = participants'
    OBVIOUS
  <2>2. ~Head(inbox).continuous /\ ParticipantsReady(list, calls)
    BY <1>2, <2>1 DEF PushArrives, ParticipantsReady, ActiveChanged, Selected
  <2>3. participantId \in list /\ participantId \in Participants
    BY <2>1, <2>2, PushCovers DEF IInv, Rest
  <2>4. \A p \in participants \ list : p \notin server
    <3>1. 1 \in DOMAIN inbox /\ Head(inbox) = inbox[1]
      BY TakenFields DEF PushArrives, IInv, Lists
    <3>2. list = IF Head(inbox).exists THEN participants \cup {Head(inbox).of}
                 ELSE participants \ {Head(inbox).of}
      BY <2>1, Zenon DEF PushArrives
    <3> QED
      BY <3>1, <3>2 DEF News
  <2> QED
    BY <2>2, <2>3, <2>4, ListKeepsReceiver
<1> QED
  BY <1>1, <1>2

\* A code that makes nobody.
LEMMA CodeKeepsReceiver ==
  ASSUME IInv, RedeemAnswered, Made(Head(calls)) = {}, participantId \in participants
  PROVE  participantId' = participantId
<1>1. CASE answer = "failed"
  BY <1>1 DEF RedeemAnswered, choiceVars
<1>2. CASE answer # "failed"
  <2>1. ParticipantsReady(participants, Tail(calls))
    BY <1>2 DEF RedeemAnswered
  <2>2. participantId \in Participants
    BY DEF IInv, Lists
  <2> QED
    BY <2>1, <2>2, ListKeepsReceiver
<1> QED
  BY <1>1, <1>2

\* onWebSocketDataChanged, redeemInviteCode and the fallback of the dock's box: the saved
\* receiver is given up only by the user, a logout, its own end, or a code in the ways
\* ReceiverKept names; in particular a push of a list that is still coming in never
\* costs it.
THEOREM ReceiverSurvives == Spec => ReceiverKept
<1> DEFINE KInv == IInv /\ News /\ Redeemed /\ Covered
           Kept == (participantId' # participantId /\ participantId \in Participants)
                     => \/ ~linked' \/ participantId \notin server
                        \/ \E sel \in participants \cup {NoneItem} : UserSelects(sel)
                        \/ RedeemAnswered /\ (Made(Head(calls)) # {} \/ participantId \notin participants)
                        \/ Apart /\ current \notin server
<1>1. Init => KInv
  <2>1. Init => News /\ Redeemed /\ Covered
    BY DEF Init, News, Redeemed, Covered
  <2> QED
    BY <2>1, InitIInv
<1>2. KInv /\ [Next]_vars => KInv'
  BY StepIInv, StepNews, StepRedeemed, StepCovered
<1>3. KInv /\ [Next]_vars => [Kept]_vars
  <2> SUFFICES ASSUME KInv, [Next]_vars, participantId' # participantId, linked', participantId \in server,
                      ~(RedeemAnswered /\ (Made(Head(calls)) # {} \/ participantId \notin participants)),
                      ~(Apart /\ current \notin server)
               PROVE  \E sel \in participants \cup {NoneItem} : UserSelects(sel)
    OBVIOUS
  <2>1. ~PushArrives /\ ~Logout /\ ~RedeemAnswered
    BY PushKeepsReceiver, CodeKeepsReceiver DEF Logout
  <2>2. PICK sel \in Participants \cup {NoneItem} : UserSelects(sel)
    BY <2>1 DEF Next, vars, Login, FeedReady, FeedDrops, SaveSettings, ServerChanges, Redeem, CallProcessed,
       PutAnswered, PictureArrives, Settle, choiceVars
  <2> QED
    BY <2>2 DEF UserSelects
<1>4. Init /\ [][Next]_vars => [][Kept]_vars
  <2> HIDE DEF KInv, Kept
  <2> QED
    BY <1>1, <1>2, <1>3, PTL
<1> QED
  BY <1>4 DEF Spec, ReceiverKept

=============================================================================
