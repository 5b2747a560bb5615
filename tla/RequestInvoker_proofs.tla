------------------------ MODULE RequestInvoker_proofs ------------------------
(***************************************************************************)
(* Proofs about RequestInvoker, for any sets of invokers.                  *)
(***************************************************************************)
EXTENDS RequestInvoker, SequenceTheorems, TLAPS

\* What QList::removeOne returns: the sequence without the one element found.
LEMMA RemoveOneProperties ==
  ASSUME NEW S, NEW s \in Seq(S), NEW e, NEW k \in DOMAIN s, s[k] = e,
         \A i \in DOMAIN s : s[i] = e => i = k
  PROVE  /\ RemoveOne(s, e) \in Seq(S)
         /\ Len(RemoveOne(s, e)) = Len(s) - 1
         /\ \A i \in 1 .. Len(s) - 1 :
              RemoveOne(s, e)[i] = IF i < k THEN s[i] ELSE s[i + 1]
<1>1. PositionOf(s, e) = k
  BY DEF PositionOf
<1>2. RemoveOne(s, e) = SubSeq(s, 1, k - 1) \o SubSeq(s, k + 1, Len(s))
  BY <1>1 DEF RemoveOne, RemoveAt
<1>3. k \in 1 .. Len(s) /\ Len(s) \in Nat
  BY LenProperties
<1> DEFINE front == SubSeq(s, 1, k - 1)
           back  == SubSeq(s, k + 1, Len(s))
<1>4. /\ front \in Seq(S)
      /\ Len(front) = k - 1
      /\ \A i \in 1 .. k - 1 : front[i] = s[i]
  BY <1>3
<1>5. /\ back \in Seq(S)
      /\ Len(back) = Len(s) - k
      /\ \A i \in 1 .. Len(s) - k : back[i] = s[k + i]
  BY <1>3
<1>6. RemoveOne(s, e) = front \o back
  BY <1>2
<1> HIDE DEF front, back
<1>7. /\ front \o back \in Seq(S)
      /\ Len(front \o back) = Len(front) + Len(back)
      /\ \A i \in 1 .. Len(front) + Len(back) :
           (front \o back)[i] = IF i <= Len(front) THEN front[i] ELSE back[i - Len(front)]
  BY <1>4, <1>5, ConcatProperties
<1>8. Len(front \o back) = Len(s) - 1
  BY <1>3, <1>4, <1>5, <1>7
<1>9. ASSUME NEW i \in 1 .. Len(s) - 1
      PROVE  (front \o back)[i] = IF i < k THEN s[i] ELSE s[i + 1]
  <2>1. i \in 1 .. Len(front) + Len(back)
    BY <1>3, <1>4, <1>5
  <2>2. CASE i < k
    <3>1. i <= Len(front) /\ i \in 1 .. k - 1
      BY <1>3, <1>4, <2>2
    <3> QED
      BY <1>4, <1>7, <2>1, <2>2, <3>1
  <2>3. CASE ~ (i < k)
    <3> DEFINE j == i - Len(front)
    <3>1. ~ (i <= Len(front)) /\ j \in 1 .. Len(s) - k /\ k + j = i + 1
      BY <1>3, <1>4, <2>3
    <3>2. (front \o back)[i] = back[j]
      BY <1>7, <2>1, <3>1
    <3>3. back[j] = s[k + j]
      BY <1>5, <3>1
    <3> QED
      BY <2>3, <3>1, <3>2, <3>3
  <2> QED
    BY <2>2, <2>3
<1> QED
  BY <1>6, <1>7, <1>8, <1>9

LEMMA RemoveOneAbsent ==
  ASSUME NEW S, NEW s \in Seq(S), NEW e, e \notin Range(s)
  PROVE  RemoveOne(s, e) = s
BY DEF RemoveOne, Range

\* No index repeats an element.
Distinct(s) == \A i, j \in DOMAIN s : s[i] = s[j] => i = j

LEMMA RemoveOneRange ==
  ASSUME NEW S, NEW s \in Seq(S), NEW e, Distinct(s)
  PROVE  /\ RemoveOne(s, e) \in Seq(S)
         /\ Range(RemoveOne(s, e)) = Range(s) \ {e}
         /\ Distinct(RemoveOne(s, e))
<1>1. CASE e \notin Range(s)
  BY <1>1, RemoveOneAbsent
<1>2. CASE e \in Range(s)
  <2>1. PICK k \in DOMAIN s : s[k] = e
    BY <1>2 DEF Range
  <2>2. \A i \in DOMAIN s : s[i] = e => i = k
    BY <2>1 DEF Distinct
  <2> DEFINE t == RemoveOne(s, e)
  <2>3. /\ t \in Seq(S)
        /\ Len(t) = Len(s) - 1
        /\ \A i \in 1 .. Len(s) - 1 : t[i] = IF i < k THEN s[i] ELSE s[i + 1]
    BY <2>1, <2>2, RemoveOneProperties
  <2>4. DOMAIN s = 1 .. Len(s) /\ DOMAIN t = 1 .. Len(s) - 1 /\ Len(s) \in Nat
    BY <2>3, LenProperties
  <2> HIDE DEF t
  <2>5. ASSUME NEW i \in DOMAIN t  PROVE t[i] \in Range(s) \ {e}
    <3>1. CASE i < k
      <4>1. i \in DOMAIN s /\ t[i] = s[i] /\ i # k
        BY <2>3, <2>4, <3>1
      <4> QED
        BY <2>2, <4>1 DEF Range
    <3>2. CASE ~ (i < k)
      <4>1. i + 1 \in DOMAIN s /\ t[i] = s[i + 1] /\ i + 1 # k
        BY <2>3, <2>4, <3>2, <2>1
      <4> QED
        BY <2>2, <4>1 DEF Range
    <3> QED
      BY <3>1, <3>2
  <2>6. ASSUME NEW i \in DOMAIN s, s[i] # e  PROVE s[i] \in Range(t)
    <3>1. CASE i < k
      <4>1. i \in DOMAIN t /\ t[i] = s[i]
        BY <2>1, <2>3, <2>4, <3>1
      <4> QED
        BY <4>1 DEF Range
    <3>2. CASE i > k
      <4> DEFINE j == i - 1
      <4>1. j \in DOMAIN t /\ ~ (j < k) /\ j + 1 = i
        BY <2>1, <2>3, <2>4, <3>2
      <4>2. t[j] = s[i]
        BY <2>3, <2>4, <4>1
      <4> QED
        BY <4>1, <4>2 DEF Range
    <3> QED
      BY <2>1, <2>4, <2>6, <3>1, <3>2
  <2>7. Range(t) = Range(s) \ {e}
    BY <2>5, <2>6 DEF Range
  <2>8. Distinct(t)
    <3> SUFFICES ASSUME NEW i \in DOMAIN t, NEW j \in DOMAIN t, t[i] = t[j]
                 PROVE  i = j
      BY DEF Distinct
    <3> DEFINE a == IF i < k THEN i ELSE i + 1
               b == IF j < k THEN j ELSE j + 1
    <3>1. a \in DOMAIN s /\ b \in DOMAIN s /\ t[i] = s[a] /\ t[j] = s[b]
      BY <2>1, <2>3, <2>4
    <3>2. a = b
      BY <3>1 DEF Distinct
    <3> QED
      BY <2>1, <2>4, <3>2
  <2> QED
    BY <2>3, <2>7, <2>8 DEF t
<1> QED
  BY <1>1, <1>2

LEMMA RangeEmpty == Range(<<>>) = {}
BY DEF Range

LEMMA RangeAppend ==
  ASSUME NEW S, NEW s \in Seq(S), NEW e \in S
  PROVE  /\ Append(s, e) \in Seq(S)
         /\ Range(Append(s, e)) = Range(s) \cup {e}
         /\ Distinct(s) /\ e \notin Range(s) => Distinct(Append(s, e))
<1>1. /\ Append(s, e) \in Seq(S)
      /\ DOMAIN Append(s, e) = 1 .. Len(s) + 1
      /\ DOMAIN s = 1 .. Len(s) /\ Len(s) \in Nat
      /\ \A i \in 1 .. Len(s) : Append(s, e)[i] = s[i]
      /\ Append(s, e)[Len(s) + 1] = e
  OBVIOUS
<1> DEFINE t == Append(s, e)
<1> HIDE DEF t
<1>2. ASSUME NEW i \in DOMAIN t  PROVE t[i] \in Range(s) \cup {e}
  BY <1>1 DEF t, Range
<1>3. ASSUME NEW i \in DOMAIN s  PROVE s[i] \in Range(t)
  BY <1>1 DEF t, Range
<1>4. e \in Range(t)
  BY <1>1 DEF t, Range
<1>5. Range(t) = Range(s) \cup {e}
  BY <1>2, <1>3, <1>4 DEF Range
<1>6. Distinct(s) /\ e \notin Range(s) => Distinct(t)
  BY <1>1 DEF t, Range, Distinct
<1> QED
  BY <1>1, <1>5, <1>6 DEF t

LEMMA RangeCat ==
  ASSUME NEW S, NEW s \in Seq(S), NEW t \in Seq(S)
  PROVE  s \o t \in Seq(S) /\ Range(s \o t) = Range(s) \cup Range(t)
BY ConcatProperties, RangeConcatenation

LEMMA RangeTail ==
  ASSUME NEW S, NEW s \in Seq(S), s # <<>>
  PROVE  /\ Tail(s) \in Seq(S) /\ Head(s) \in S
         /\ Range(s) = {Head(s)} \cup Range(Tail(s))
<1>1. /\ Head(s) = s[1] /\ Head(s) \in S
      /\ Tail(s) \in Seq(S)
      /\ DOMAIN Tail(s) = 1 .. Len(s) - 1
      /\ DOMAIN s = 1 .. Len(s) /\ Len(s) \in Nat /\ Len(s) > 0
      /\ \A i \in 1 .. Len(s) - 1 : Tail(s)[i] = s[i + 1]
  BY EmptySeq
<1> DEFINE t == Tail(s)
<1> HIDE DEF t
<1>2. ASSUME NEW i \in DOMAIN t  PROVE t[i] \in Range(s)
  <2>1. i + 1 \in DOMAIN s
    BY <1>1 DEF t
  <2> QED
    BY <1>1, <2>1 DEF t, Range
<1>3. ASSUME NEW i \in DOMAIN s  PROVE s[i] \in {Head(s)} \cup Range(t)
  <2>1. CASE i = 1
    BY <1>1, <2>1
  <2>2. CASE i # 1
    <3> DEFINE j == i - 1
    <3>1. j \in DOMAIN t /\ t[j] = s[i]
      BY <1>1, <2>2 DEF t
    <3> QED
      BY <3>1 DEF Range
  <2> QED
    BY <2>1, <2>2
<1>4. Head(s) \in Range(s)
  BY <1>1 DEF Range
<1>5. Range(s) = {Head(s)} \cup Range(t)
  BY <1>2, <1>3, <1>4 DEF Range
<1> QED
  BY <1>1, <1>5 DEF t

-----------------------------------------------------------------------------
\* The inductive invariant behind NoLostWakeup and QueueIsUnfinished.

\* A lambda that is connected, or about to run, belongs to an existing invoker
\* of the shared sequencer.
ChainedAreBorn ==
  /\ \A p \in Invokers : \A n \in Range(chained[p]) : phase[n] # "unborn"
  /\ \A n \in Invokers : InvokeOf(n) \in Range(agenda) => n \in Sequential /\ phase[n] # "unborn"

IInv ==
  /\ TypeOK
  /\ Distinct(requestQueue)
  /\ QueueIsUnfinished
  /\ ChainedAreBorn
  /\ NoLostWakeup

LEMMA InitIInv == Init => IInv
<1> SUFFICES ASSUME Init PROVE IInv
  OBVIOUS
<1>1. TypeOK
  <2>1. /\ <<>> \in Seq(Sequential) /\ <<>> \in Seq(Refresh) /\ <<>> \in Seq(Callbacks)
    OBVIOUS
  <2>2. chained \in [Invokers -> Seq(Sequential)]
    BY <2>1 DEF Init
  <2> QED
    BY <2>1, <2>2 DEF Init, TypeOK, Phases
<1>2. Distinct(requestQueue)
  BY DEF Init, Distinct
<1>3. QueueIsUnfinished
  BY RangeEmpty DEF Init, QueueIsUnfinished, Unfinished
<1>4. ChainedAreBorn
  BY RangeEmpty DEF Init, ChainedAreBorn
<1>5. NoLostWakeup
  BY DEF Init, NoLostWakeup
<1> QED
  BY <1>1, <1>2, <1>3, <1>4, <1>5 DEF IInv

\* The parts of the invariant that speak of the queue and the chain.
QueueParts ==
  /\ requestQueue \in Seq(Sequential)
  /\ phase \in [Invokers -> Phases]
  /\ chained \in [Invokers -> Seq(Sequential)]
  /\ refreshing \in Nat
  /\ Distinct(requestQueue)
  /\ QueueIsUnfinished
  /\ ChainedAreBorn
  /\ NoLostWakeup

\* What Queue(r) does to the queue and to the chain, for an unborn r.
LEMMA QueueStep ==
  ASSUME IInv, NEW r \in Sequential, phase[r] = "unborn", Queue(r),
         UNCHANGED agenda
  PROVE  QueueParts'
<1>0. TypeOK /\ Distinct(requestQueue) /\ QueueIsUnfinished /\ ChainedAreBorn /\ NoLostWakeup
  BY DEF IInv
<1>1. r \in Invokers /\ Sequential \subseteq Invokers
  BY DEF Invokers
<1>2. r \notin Range(requestQueue) /\ r \notin Unfinished
  BY <1>0 DEF QueueIsUnfinished, Unfinished
<1>3. /\ requestQueue' \in Seq(Sequential)
      /\ Range(requestQueue') = Range(requestQueue) \cup {r}
      /\ Distinct(requestQueue')
  BY <1>0, <1>2, RangeAppend DEF Queue, TypeOK
<1>4. /\ phase' \in [Invokers -> Phases]
      /\ phase'[r] \in {"queued", "inflight"}
      /\ \A s \in Invokers \ {r} : phase'[s] = phase[s]
  BY <1>0, <1>1 DEF Queue, Phases, TypeOK
<1>5. refreshing' \in Nat
  BY <1>0 DEF Queue, TypeOK
<1>6. Unfinished' = Unfinished \cup {r}
  BY <1>1, <1>4 DEF Unfinished
<1>7. QueueIsUnfinished'
  BY <1>0, <1>3, <1>6 DEF QueueIsUnfinished
<1>8. CASE requestQueue = <<>>
  <2>1. UNCHANGED chained /\ phase'[r] = "inflight"
    BY <1>0, <1>1, <1>8 DEF Queue, TypeOK
  <2>2. ChainedAreBorn'
    <3>1. ASSUME NEW s \in Invokers, NEW n \in Range(chained'[s])
          PROVE  phase'[n] # "unborn"
      <4>1. n \in Sequential /\ n \in Range(chained[s])
        BY <1>0, <2>1 DEF TypeOK, Range
      <4> QED
        BY <1>0, <1>1, <1>4, <4>1 DEF ChainedAreBorn
    <3>2. ASSUME NEW n \in Invokers, InvokeOf(n)' \in Range(agenda')
          PROVE  n \in Sequential /\ phase'[n] # "unborn"
      BY <1>0, <1>4, <3>2 DEF ChainedAreBorn, InvokeOf
    <3> QED
      BY <3>1, <3>2 DEF ChainedAreBorn
  <2>3. NoLostWakeup'
    BY <1>0, <1>4, <1>6, <2>1 DEF NoLostWakeup, InvokeOf
  <2> QED
    BY <1>0, <1>3, <1>4, <1>5, <1>7, <2>1, <2>2, <2>3 DEF QueueParts, TypeOK
<1>9. CASE requestQueue # <<>>
  <2> DEFINE p == requestQueue[Len(requestQueue)]
  <2>1. p \in Range(requestQueue)
    BY <1>0, <1>9, EmptySeq, LenProperties DEF Range, TypeOK
  <2>2. p \in Sequential /\ p \in Invokers /\ p # r /\ p \in Unfinished
    BY <1>0, <1>1, <1>2, <2>1 DEF QueueIsUnfinished
  <2>3. chained' = [chained EXCEPT ![p] = Append(@, r)] /\ phase'[r] = "queued"
    BY <1>0, <1>1, <1>9 DEF Queue, TypeOK
  <2> HIDE DEF p
  <2>4. /\ chained[p] \in Seq(Sequential)
        /\ chained'[p] = Append(chained[p], r)
        /\ \A s \in Invokers \ {p} : chained'[s] = chained[s]
    BY <1>0, <2>2, <2>3 DEF TypeOK
  <2>5. chained'[p] \in Seq(Sequential) /\ Range(chained'[p]) = Range(chained[p]) \cup {r}
    BY <2>4, RangeAppend
  <2>6. chained' \in [Invokers -> Seq(Sequential)]
    BY <1>0, <2>3, <2>4, <2>5 DEF TypeOK
  <2>7. ChainedAreBorn'
    <3>1. ASSUME NEW s \in Invokers, NEW n \in Range(chained'[s])
          PROVE  phase'[n] # "unborn"
      <4>1. n = r \/ n \in Range(chained[s])
        BY <2>4, <2>5
      <4>2. CASE n = r
        BY <1>4, <4>2
      <4>3. CASE n \in Range(chained[s]) /\ n # r
        <5>1. n \in Sequential
          BY <1>0, <4>3 DEF TypeOK, Range
        <5> QED
          BY <1>0, <1>1, <1>4, <4>3, <5>1 DEF ChainedAreBorn
      <4> QED
        BY <4>1, <4>2, <4>3
    <3>2. ASSUME NEW n \in Invokers, InvokeOf(n)' \in Range(agenda')
          PROVE  n \in Sequential /\ phase'[n] # "unborn"
      BY <1>0, <1>4, <3>2 DEF ChainedAreBorn, InvokeOf
    <3> QED
      BY <3>1, <3>2 DEF ChainedAreBorn
  <2>8. NoLostWakeup'
    <3> SUFFICES ASSUME NEW n \in Invokers, phase'[n] = "queued", InvokeOf(n) \notin Range(agenda)
                 PROVE  \E s \in Unfinished' : n \in Range(chained'[s])
      BY DEF NoLostWakeup, InvokeOf
    <3>1. CASE n = r
      BY <1>6, <2>2, <2>5, <3>1
    <3>2. CASE n # r
      <4>1. PICK s \in Unfinished : n \in Range(chained[s])
        BY <1>0, <1>4, <3>2 DEF NoLostWakeup
      <4> QED
        BY <1>6, <2>4, <2>5, <4>1 DEF Unfinished
    <3> QED
      BY <3>1, <3>2
  <2> QED
    BY <1>0, <1>3, <1>4, <1>5, <1>7, <2>6, <2>7, <2>8 DEF QueueParts
<1> QED
  BY <1>8, <1>9

\* The callbacks of `finished' of r are the lambdas chained to it.
LEMMA FollowersProperties ==
  ASSUME TypeOK, NEW r \in Invokers
  PROVE  /\ Followers(r) \in Seq(Callbacks)
         /\ Range(Followers(r)) = {InvokeOf(n) : n \in Range(chained[r])}
<1>1. /\ chained[r] \in Seq(Sequential)
      /\ DOMAIN chained[r] = 1 .. Len(chained[r]) /\ Len(chained[r]) \in Nat
      /\ \A i \in DOMAIN chained[r] : chained[r][i] \in Invokers
  BY DEF TypeOK, Invokers
<1>2. Followers(r) \in [1 .. Len(chained[r]) -> Callbacks]
  BY <1>1 DEF Followers, InvokeOf, Callbacks
<1>3. Followers(r) \in Seq(Callbacks)
  BY <1>1, <1>2, SeqDef
<1> QED
  BY <1>3 DEF Followers, Range

\* An invoker r that emits finished: it leaves the queue, and every lambda
\* chained to it gets on the agenda.
LEMMA FinishStep ==
  ASSUME IInv, NEW r \in Invokers,
         requestQueue' = RemoveOne(requestQueue, r),
         phase' = [phase EXCEPT ![r] = "finished"],
         UNCHANGED <<chained, refreshing>>,
         \A n \in Invokers : InvokeOf(n) \in Range(agenda')
            <=> InvokeOf(n) \in Range(agenda) \cup Range(Followers(r))
  PROVE  QueueParts'
<1>0. TypeOK /\ Distinct(requestQueue) /\ QueueIsUnfinished /\ ChainedAreBorn /\ NoLostWakeup
  BY DEF IInv
<1>1. /\ requestQueue' \in Seq(Sequential)
      /\ Range(requestQueue') = Range(requestQueue) \ {r}
      /\ Distinct(requestQueue')
  BY <1>0, RemoveOneRange DEF TypeOK
<1>2. /\ phase' \in [Invokers -> Phases]
      /\ phase'[r] = "finished"
      /\ \A s \in Invokers \ {r} : phase'[s] = phase[s]
  BY <1>0 DEF TypeOK, Phases
<1>3. Unfinished' = Unfinished \ {r}
  BY <1>2 DEF Unfinished
<1>4. QueueIsUnfinished'
  BY <1>0, <1>1, <1>3 DEF QueueIsUnfinished
<1>5. \A n \in Invokers : InvokeOf(n) \in Range(Followers(r)) <=> n \in Range(chained[r])
  <2>1. Range(Followers(r)) = {InvokeOf(n) : n \in Range(chained[r])}
    BY <1>0, FollowersProperties
  <2>2. \A m, n : InvokeOf(m) = InvokeOf(n) => m = n
    BY DEF InvokeOf
  <2> QED
    BY <2>1, <2>2
<1>6. \A s \in Invokers : Range(chained[s]) \subseteq Sequential
  BY <1>0 DEF TypeOK, Range
<1>7. ChainedAreBorn'
  <2>1. ASSUME NEW s \in Invokers, NEW n \in Range(chained'[s])
        PROVE  phase'[n] # "unborn"
    BY <1>0, <1>2, <1>6 DEF ChainedAreBorn, Invokers
  <2>2. ASSUME NEW n \in Invokers, InvokeOf(n)' \in Range(agenda')
        PROVE  n \in Sequential /\ phase'[n] # "unborn"
    <3>1. InvokeOf(n) \in Range(agenda) \/ n \in Range(chained[r])
      BY <1>5, <2>2 DEF InvokeOf
    <3>2. n \in Sequential /\ phase[n] # "unborn"
      BY <1>0, <1>6, <3>1 DEF ChainedAreBorn
    <3> QED
      BY <1>2, <3>2
  <2> QED
    BY <2>1, <2>2 DEF ChainedAreBorn
<1>8. NoLostWakeup'
  <2> SUFFICES ASSUME NEW n \in Invokers, phase'[n] = "queued",
                      InvokeOf(n) \notin Range(agenda')
               PROVE  \E s \in Unfinished' : n \in Range(chained'[s])
    BY DEF NoLostWakeup, InvokeOf
  <2>1. n # r /\ phase[n] = "queued"
    BY <1>2
  <2>2. InvokeOf(n) \notin Range(agenda) /\ n \notin Range(chained[r])
    BY <1>5
  <2>3. PICK s \in Unfinished : n \in Range(chained[s])
    BY <1>0, <2>1, <2>2 DEF NoLostWakeup
  <2> QED
    BY <1>3, <2>2, <2>3
<1> QED
  BY <1>0, <1>1, <1>2, <1>4, <1>7, <1>8 DEF QueueParts, TypeOK

\* A step that leaves the queue and the chain alone keeps the invariant as long
\* as no pending invocation is dropped from the agenda.
LEMMA AgendaStep ==
  ASSUME IInv, refreshing' \in Nat, UNCHANGED <<requestQueue, phase, chained>>,
         \A n \in Invokers : InvokeOf(n) \in Range(agenda') => InvokeOf(n) \in Range(agenda),
         \A n \in Invokers : InvokeOf(n) \in Range(agenda) /\ phase[n] = "queued"
                                => InvokeOf(n) \in Range(agenda')
  PROVE  QueueParts'
<1>0. TypeOK /\ Distinct(requestQueue) /\ QueueIsUnfinished /\ ChainedAreBorn /\ NoLostWakeup
  BY DEF IInv
<1>1. Unfinished' = Unfinished
  BY DEF Unfinished
<1>2. QueueIsUnfinished'
  BY <1>0, <1>1 DEF QueueIsUnfinished
<1>3. ChainedAreBorn'
  BY <1>0 DEF ChainedAreBorn, InvokeOf
<1>4. NoLostWakeup'
  BY <1>0, <1>1 DEF NoLostWakeup, InvokeOf
<1>5. Distinct(requestQueue')
  BY <1>0
<1> QED
  BY <1>0, <1>2, <1>3, <1>4, <1>5 DEF QueueParts, TypeOK

\* Calling the callback at the head of the agenda.
LEMMA PopAgenda ==
  ASSUME TypeOK, NEW c, Doing(c)
  PROVE  /\ Tail(agenda) \in Seq(Callbacks) /\ c \in Callbacks
         /\ Range(agenda) = {c} \cup Range(Tail(agenda))
BY RangeTail DEF Doing, TypeOK

LEMMA CallbackKinds ==
  /\ \A m, n : InvokeOf(m) # HandlerOf(n) /\ InvokeOf(m) # SlotOf(n) /\ SlotOf(m) # HandlerOf(n)
  /\ \A m, n : InvokeOf(m) = InvokeOf(n) => m = n
BY DEF InvokeOf, HandlerOf, SlotOf

\* The parts of the invariant each step is shown to keep.
LEMMA Assemble ==
  ASSUME QueueParts', agenda' \in Seq(Callbacks), listeners' \in Seq(Refresh), crashed' \in BOOLEAN
  PROVE  IInv'
BY DEF IInv, QueueParts, TypeOK

LEMMA SubmitIInv ==
  ASSUME IInv, NEW r \in Http, Submit(r)
  PROVE  IInv'
<1>1. QueueParts'
  BY QueueStep DEF Submit, Sequential
<1> QED
  BY <1>1, Assemble DEF Submit, IInv, TypeOK

LEMMA SubmitRefreshIInv ==
  ASSUME IInv, NEW r \in Refresh, SubmitRefresh(r)
  PROVE  IInv'
<1>1. QueueParts'
  BY QueueStep DEF SubmitRefresh, Sequential
<1>2. listeners' \in Seq(Refresh)
  BY RangeAppend DEF SubmitRefresh, IInv, TypeOK
<1> QED
  BY <1>1, <1>2, Assemble DEF SubmitRefresh, IInv, TypeOK

\* A parallel invoker is not in the shared queue, nor chained to anything.
LEMMA SubmitParallelIInv ==
  ASSUME IInv, NEW r \in Parallel, SubmitParallel(r)
  PROVE  IInv'
<1>0. TypeOK /\ Distinct(requestQueue) /\ QueueIsUnfinished /\ ChainedAreBorn /\ NoLostWakeup
  BY DEF IInv
<1>1. /\ UNCHANGED <<requestQueue, chained, listeners, refreshing, agenda, crashed>>
      /\ r \in Invokers /\ r \notin Sequential
  BY InvokersAreDistinct DEF SubmitParallel, Invokers, Sequential
<1>2. /\ phase' \in [Invokers -> Phases] /\ phase'[r] = "inflight"
      /\ \A s \in Invokers \ {r} : phase'[s] = phase[s]
  BY <1>0, <1>1 DEF SubmitParallel, TypeOK, Phases
<1>3. Unfinished' = Unfinished \cup {r}
  BY <1>1, <1>2 DEF Unfinished
<1>4. QueueIsUnfinished'
  BY <1>0, <1>1, <1>3 DEF QueueIsUnfinished
<1>5. \A s \in Invokers : Range(chained[s]) \subseteq Sequential
  BY <1>0 DEF TypeOK, Range
<1>6. ChainedAreBorn'
  BY <1>0, <1>1, <1>2, <1>5 DEF ChainedAreBorn, InvokeOf, Invokers
<1>7. NoLostWakeup'
  BY <1>0, <1>1, <1>2, <1>3 DEF NoLostWakeup, InvokeOf
<1>8. QueueParts'
  BY <1>0, <1>1, <1>2, <1>4, <1>6, <1>7 DEF QueueParts, TypeOK
<1> QED
  BY <1>0, <1>1, <1>8, Assemble DEF TypeOK

LEMMA ReplyIInv ==
  ASSUME IInv, NEW r \in Http \cup Parallel, Reply(r)
  PROVE  IInv'
<1>0. TypeOK /\ r \in Invokers
  BY DEF IInv, Invokers, Sequential
<1>1. Followers(r) \in Seq(Callbacks)
  BY <1>0, FollowersProperties
<1>2. HandlerOf(r) \in Callbacks
  BY <1>0 DEF HandlerOf, Callbacks
<1>3. <<HandlerOf(r)>> \in Seq(Callbacks) /\ Range(<<HandlerOf(r)>>) = {HandlerOf(r)}
  BY <1>2 DEF Range
<1>4. agenda' \in Seq(Callbacks) /\ Range(agenda') = {HandlerOf(r)} \cup Range(Followers(r))
  <2> DEFINE s == <<HandlerOf(r)>>
             t == Followers(r)
  <2>1. agenda' = s \o t
    BY DEF Reply
  <2>2. s \in Seq(Callbacks) /\ t \in Seq(Callbacks) /\ Range(s) = {HandlerOf(r)}
    BY <1>1, <1>3
  <2> HIDE DEF s, t
  <2>3. s \o t \in Seq(Callbacks) /\ Range(s \o t) = Range(s) \cup Range(t)
    BY <2>2, RangeCat
  <2> QED
    BY <2>1, <2>2, <2>3 DEF t
<1>5. Range(agenda) = {}
  BY RangeEmpty DEF Reply, Idle
<1>6. QueueParts'
  BY <1>0, <1>4, <1>5, FinishStep, CallbackKinds DEF Reply
<1> QED
  BY <1>0, <1>4, <1>6, Assemble DEF Reply, TypeOK

LEMMA RefreshReplyIInv ==
  ASSUME IInv, RefreshReply
  PROVE  IInv'
<1>0. TypeOK
  BY DEF IInv
<1>1. listeners \in Seq(Refresh) /\ DOMAIN listeners = 1 .. Len(listeners) /\ Len(listeners) \in Nat
  BY <1>0 DEF TypeOK
<1>2. \A i \in 1 .. Len(listeners) : SlotOf(listeners[i]) \in Callbacks
  BY <1>1 DEF SlotOf, Callbacks, Invokers, Sequential
<1>3. agenda' \in [1 .. Len(listeners) -> Callbacks]
  BY <1>1, <1>2 DEF RefreshReply
<1>4. agenda' \in Seq(Callbacks)
  BY <1>1, <1>3, SeqDef
<1>5. \A n \in Invokers : InvokeOf(n) \notin Range(agenda')
  BY CallbackKinds DEF RefreshReply, Range
<1>6. Range(agenda) = {}
  BY RangeEmpty DEF RefreshReply, Idle
<1>7. refreshing' \in Nat /\ UNCHANGED <<requestQueue, phase, chained, crashed>> /\ listeners' = <<>>
  BY <1>0 DEF RefreshReply, TypeOK
<1>8. QueueParts'
  BY <1>5, <1>6, <1>7, AgendaStep
<1> QED
  BY <1>0, <1>4, <1>7, <1>8, Assemble DEF TypeOK

LEMMA RunSlotIInv ==
  ASSUME IInv, NEW r \in Invokers, RunSlot(r)
  PROVE  IInv'
<1>0. TypeOK
  BY DEF IInv
<1>1. Followers(r) \in Seq(Callbacks)
  BY <1>0, FollowersProperties
<1>2. Tail(agenda) \in Seq(Callbacks) /\ Range(agenda) = {SlotOf(r)} \cup Range(Tail(agenda))
  BY <1>0, PopAgenda DEF RunSlot
<1>3. /\ agenda' \in Seq(Callbacks)
      /\ Range(agenda') = Range(Followers(r)) \cup Range(Tail(agenda))
  <2> DEFINE s == Followers(r)
             t == Tail(agenda)
  <2>1. agenda' = s \o t
    BY DEF RunSlot
  <2>2. s \in Seq(Callbacks) /\ t \in Seq(Callbacks)
    BY <1>1, <1>2
  <2> HIDE DEF s, t
  <2>3. s \o t \in Seq(Callbacks) /\ Range(s \o t) = Range(s) \cup Range(t)
    BY <2>2, RangeCat
  <2> QED
    BY <2>1, <2>3 DEF s, t
<1>4. QueueParts'
  BY <1>2, <1>3, FinishStep, CallbackKinds DEF RunSlot
<1> QED
  BY <1>0, <1>3, <1>4, Assemble DEF RunSlot, TypeOK

LEMMA RunInvokeIInv ==
  ASSUME IInv, NEW r \in Invokers, RunInvoke(r)
  PROVE  IInv'
<1>0. TypeOK /\ Distinct(requestQueue) /\ QueueIsUnfinished /\ ChainedAreBorn /\ NoLostWakeup
  BY DEF IInv
<1>1. Tail(agenda) \in Seq(Callbacks) /\ Range(agenda) = {InvokeOf(r)} \cup Range(Tail(agenda))
  BY <1>0, PopAgenda DEF RunInvoke
<1>2. agenda' = Tail(agenda) /\ UNCHANGED <<requestQueue, chained, listeners, crashed>>
  BY DEF RunInvoke
<1>3. phase[r] \in {"queued", "inflight"}
  BY <1>0, <1>1 DEF RunInvoke, ChainedAreBorn, TypeOK, Phases
<1>4. /\ phase' \in [Invokers -> Phases] /\ phase'[r] = "inflight"
      /\ \A s \in Invokers \ {r} : phase'[s] = phase[s]
      /\ refreshing' \in Nat
  BY <1>0 DEF RunInvoke, TypeOK, Phases
<1>5. Unfinished' = Unfinished
  BY <1>3, <1>4 DEF Unfinished
<1>6. QueueIsUnfinished'
  BY <1>0, <1>2, <1>5 DEF QueueIsUnfinished
<1>7. \A s \in Invokers : Range(chained[s]) \subseteq Invokers
  BY <1>0 DEF TypeOK, Range, Invokers
<1>8. ChainedAreBorn'
  <2>1. ASSUME NEW s \in Invokers, NEW n \in Range(chained'[s])
        PROVE  phase'[n] # "unborn"
    BY <1>0, <1>2, <1>4, <1>7 DEF ChainedAreBorn
  <2>2. ASSUME NEW n \in Invokers, InvokeOf(n)' \in Range(agenda')
        PROVE  n \in Sequential /\ phase'[n] # "unborn"
    <3>1. InvokeOf(n) \in Range(agenda)
      BY <1>1, <1>2, <2>2 DEF InvokeOf
    <3> QED
      BY <1>0, <1>4, <3>1 DEF ChainedAreBorn
  <2> QED
    BY <2>1, <2>2 DEF ChainedAreBorn
<1>9. NoLostWakeup'
  <2> SUFFICES ASSUME NEW n \in Invokers, phase'[n] = "queued", InvokeOf(n) \notin Range(agenda')
               PROVE  \E s \in Unfinished' : n \in Range(chained'[s])
    BY DEF NoLostWakeup, InvokeOf
  <2>1. n # r /\ phase[n] = "queued"
    BY <1>4
  <2>2. InvokeOf(n) \notin Range(agenda)
    BY <1>1, <1>2, <2>1, CallbackKinds
  <2> QED
    BY <1>0, <1>2, <1>5, <2>1, <2>2 DEF NoLostWakeup
<1>10. QueueParts'
  BY <1>0, <1>2, <1>4, <1>6, <1>8, <1>9 DEF QueueParts, TypeOK
<1> QED
  BY <1>0, <1>1, <1>2, <1>10, Assemble DEF TypeOK

LEMMA RunDanglingIInv ==
  ASSUME IInv, NEW r \in Invokers, RunDangling(r)
  PROVE  IInv'
<1>0. TypeOK
  BY DEF IInv
<1>1. Tail(agenda) \in Seq(Callbacks) /\ Range(agenda) = {InvokeOf(r)} \cup Range(Tail(agenda))
  BY <1>0, PopAgenda DEF RunDangling
<1>2. /\ agenda' = Tail(agenda) /\ UNCHANGED <<requestQueue, phase, chained, listeners>>
      /\ phase[r] = "finished"
  BY DEF RunDangling
<1>3. refreshing' \in Nat
  BY <1>0 DEF RunDangling, TypeOK
<1>4. crashed' \in BOOLEAN
  BY <1>0, Zenon DEF RunDangling, TypeOK
<1>5. QueueParts'
  BY <1>1, <1>2, <1>3, AgendaStep, CallbackKinds
<1> QED
  BY <1>0, <1>1, <1>2, <1>4, <1>5, Assemble DEF TypeOK

LEMMA RunHandlerIInv ==
  ASSUME IInv, NEW r \in Invokers, RunHandler(r)
  PROVE  IInv'
<1>0. TypeOK
  BY DEF IInv
<1>1. Tail(agenda) \in Seq(Callbacks) /\ Range(agenda) = {HandlerOf(r)} \cup Range(Tail(agenda))
  BY <1>0, PopAgenda DEF RunHandler
<1>2. /\ agenda' = Tail(agenda)
      /\ UNCHANGED <<requestQueue, phase, chained, listeners, refreshing, crashed>>
  BY DEF RunHandler
<1>3. refreshing' \in Nat
  BY <1>0, <1>2 DEF TypeOK
<1>4. QueueParts'
  BY <1>1, <1>2, <1>3, AgendaStep, CallbackKinds
<1> QED
  BY <1>0, <1>1, <1>2, <1>4, Assemble DEF TypeOK

LEMMA StutterIInv ==
  ASSUME IInv, UNCHANGED vars
  PROVE  IInv'
<1>0. TypeOK
  BY DEF IInv
<1>1. UNCHANGED <<requestQueue, phase, chained, listeners, refreshing, agenda, crashed>>
  BY DEF vars
<1>2. refreshing' \in Nat
  BY <1>0, <1>1 DEF TypeOK
<1>3. QueueParts'
  BY <1>1, <1>2, AgendaStep
<1> QED
  BY <1>0, <1>1, <1>3, Assemble DEF TypeOK

LEMMA NextIInv == IInv /\ [Next]_vars => IInv'
<1> SUFFICES ASSUME IInv, [Next]_vars PROVE IInv'
  OBVIOUS
<1>1. ASSUME NEW r \in Http, Submit(r) PROVE IInv'
  BY <1>1, SubmitIInv
<1>2. ASSUME NEW r \in Refresh, SubmitRefresh(r) PROVE IInv'
  BY <1>2, SubmitRefreshIInv
<1>3. ASSUME NEW r \in Parallel, SubmitParallel(r) PROVE IInv'
  BY <1>3, SubmitParallelIInv
<1>4. ASSUME NEW r \in Http \cup Parallel, Reply(r) PROVE IInv'
  BY <1>4, ReplyIInv
<1>5. CASE RefreshReply
  BY <1>5, RefreshReplyIInv
<1>6. ASSUME NEW r \in Invokers, RunSlot(r) \/ RunInvoke(r) \/ RunDangling(r) \/ RunHandler(r)
      PROVE  IInv'
  BY <1>6, RunSlotIInv, RunInvokeIInv, RunDanglingIInv, RunHandlerIInv
<1>7. CASE UNCHANGED vars
  BY <1>7, StutterIInv
<1> QED
  BY <1>1, <1>2, <1>3, <1>4, <1>5, <1>6, <1>7 DEF Next, RunCallback

\* The strengthened invariant holds in every reachable state, for any sets of
\* invokers, overlapping refreshes and dangling lambdas included.
THEOREM SpecIInv == Spec => []IInv
BY InitIInv, NextIInv, PTL DEF Spec

\* The variables keep their types.
THEOREM TypeCorrect == Spec => []TypeOK
BY SpecIInv, PTL DEF IInv

\* RequestSequencer's queue is at all times exactly the unfinished requests.
THEOREM QueueExact == Spec => []QueueIsUnfinished
BY SpecIInv, PTL DEF IInv

\* No request waits for a signal that has already been emitted.
THEOREM NoWakeupIsLost == Spec => []NoLostWakeup
BY SpecIInv, PTL DEF IInv

-----------------------------------------------------------------------------
\* Sequential invocation, when refreshes do not overlap.  The queue, the chain
\* of lambdas and the agenda then have a fixed shape.

\* Nobody is about to start the oldest request: it is on the wire already ...
HeadOnWire == requestQueue # <<>> => phase[requestQueue[1]] = "inflight"
\* ... or its lambda is on the agenda.
HeadWaits  == requestQueue # <<>> /\ phase[requestQueue[1]] = "queued"

AgendaForm ==
  \/ agenda = <<>> /\ HeadOnWire
  \/ \E t \in Refresh : /\ agenda = <<SlotOf(t)>> /\ HeadOnWire
                        /\ requestQueue # <<>> /\ requestQueue[1] = t
                        /\ refreshing = 0 /\ listeners = <<>>
  \/ \E x \in Invokers : agenda = <<HandlerOf(x)>> /\ HeadOnWire
  \/ agenda = <<InvokeOf(requestQueue[1])>> /\ HeadWaits
  \/ \E x \in Invokers : agenda = <<HandlerOf(x), InvokeOf(requestQueue[1])>> /\ HeadWaits

OthersWait == \A i \in DOMAIN requestQueue : i > 1 => phase[requestQueue[i]] = "queued"

\* Each request is chained to the one before it, the last one to nobody.
ChainForm ==
  \A i \in DOMAIN requestQueue :
    chained[requestQueue[i]] = IF i < Len(requestQueue) THEN <<requestQueue[i + 1]>> ELSE <<>>

NothingChained ==
  \A r \in Invokers : phase[r] = "unborn" \/ r \in Parallel => chained[r] = <<>>

\* An unfinished refresh is the only listener, or its slot is being called.
RefreshForm ==
  \A t \in Refresh : phase[t] \in {"queued", "inflight"} =>
    listeners = <<t>> \/ agenda = <<SlotOf(t)>>

OutstandingForm ==
  refreshing > 0 =>
    /\ refreshing = 1 /\ requestQueue # <<>>
    /\ requestQueue[1] \in Refresh /\ phase[requestQueue[1]] = "inflight"
    /\ \A t \in Refresh : agenda # <<SlotOf(t)>>

SInv ==
  /\ AgendaForm
  /\ OthersWait
  /\ ChainForm
  /\ NothingChained
  /\ RefreshForm
  /\ OutstandingForm

LEMMA QueueFacts ==
  ASSUME IInv
  PROVE  /\ Len(requestQueue) \in Nat /\ DOMAIN requestQueue = 1 .. Len(requestQueue)
         /\ requestQueue = <<>> <=> Len(requestQueue) = 0
         /\ \A i \in 1 .. Len(requestQueue) :
              /\ requestQueue[i] \in Sequential /\ requestQueue[i] \in Invokers
              /\ phase[requestQueue[i]] \in {"queued", "inflight"}
         /\ \A i, j \in 1 .. Len(requestQueue) : requestQueue[i] = requestQueue[j] => i = j
         /\ \A r \in Sequential : phase[r] \in {"queued", "inflight"} =>
              \E i \in 1 .. Len(requestQueue) : requestQueue[i] = r
<1>1. /\ requestQueue \in Seq(Sequential) /\ Distinct(requestQueue)
      /\ Range(requestQueue) = Unfinished \cap Sequential
  BY DEF IInv, TypeOK, QueueIsUnfinished
<1>2. /\ Len(requestQueue) \in Nat /\ DOMAIN requestQueue = 1 .. Len(requestQueue)
      /\ requestQueue = <<>> <=> Len(requestQueue) = 0
  BY <1>1, EmptySeq, LenProperties
<1>3. ASSUME NEW i \in 1 .. Len(requestQueue)
      PROVE  /\ requestQueue[i] \in Sequential /\ requestQueue[i] \in Invokers
             /\ phase[requestQueue[i]] \in {"queued", "inflight"}
  <2>1. requestQueue[i] \in Unfinished \cap Sequential
    BY <1>1, <1>2 DEF Range
  <2> QED
    BY <2>1 DEF Unfinished
<1>4. ASSUME NEW r \in Sequential, phase[r] \in {"queued", "inflight"}
      PROVE  \E i \in 1 .. Len(requestQueue) : requestQueue[i] = r
  <2>1. r \in Range(requestQueue)
    BY <1>1, <1>4 DEF Unfinished, Invokers
  <2> QED
    BY <1>2, <2>1 DEF Range
<1> QED
  BY <1>1, <1>2, <1>3, <1>4 DEF Distinct

\* The request on the wire is the oldest one, and only that one.
LEMMA InFlightIsHead ==
  ASSUME IInv, OthersWait, NEW r \in Sequential, phase[r] = "inflight"
  PROVE  requestQueue # <<>> /\ requestQueue[1] = r
<1>1. PICK i \in 1 .. Len(requestQueue) : requestQueue[i] = r
  BY QueueFacts
<1>2. i = 1
  BY <1>1, QueueFacts DEF OthersWait
<1> QED
  BY <1>1, <1>2, QueueFacts

\* From the shape of the state to the property.
LEMMA SInvImpliesSequential == IInv /\ SInv => SequentialInvocation
<1> SUFFICES ASSUME IInv, SInv PROVE SequentialInvocation
  OBVIOUS
<1>1. \A r \in Sequential \cap InFlight : requestQueue # <<>> /\ requestQueue[1] = r
  BY InFlightIsHead DEF SInv, InFlight
<1>2. \A r, s \in Sequential \cap InFlight : r = s
  BY <1>1
<1>3. refreshing > 0 => refreshing = 1 /\ Sequential \cap InFlight \subseteq Refresh
  BY <1>1 DEF SInv, OutstandingForm
<1> QED
  BY <1>1, <1>2, <1>3 DEF SequentialInvocation

LEMMA InitSInv == Init => SInv
BY DEF Init, SInv, AgendaForm, HeadOnWire, OthersWait, ChainForm, NothingChained,
       RefreshForm, OutstandingForm, Invokers, Sequential

\* While the event loop is free to queue a request, the oldest one is on the
\* wire or its lambda is the last thing on the agenda.
LEMMA QueueStepSInv ==
  ASSUME IInv, IInv', SInv, NEW r \in Sequential, phase[r] = "unborn", Queue(r),
         UNCHANGED agenda, MayQueue,
         IF r \in Refresh THEN Idle /\ listeners = <<>> /\ listeners' = <<r>>
                          ELSE UNCHANGED listeners
  PROVE  SInv'
<1>1. TypeOK /\ r \in Invokers /\ Sequential \subseteq Invokers /\ r \notin Parallel
  BY InvokersAreDistinct DEF IInv, Invokers, Sequential
<1>2. ~ \E t \in Refresh : agenda = <<SlotOf(t)>>
  BY CallbackKinds DEF MayQueue, Idle, Doing
<1>3. \A s \in Invokers : s # r => phase'[s] = phase[s]
  BY <1>1 DEF Queue, TypeOK
<1>4. \A t \in Refresh : t # r => phase[t] \in {"finished", "unborn"} \/ listeners' = <<t>>
  BY <1>1, <1>2 DEF SInv, RefreshForm, TypeOK, Phases, Invokers, Sequential
<1>5. RefreshForm'
  BY <1>1, <1>3, <1>4 DEF RefreshForm, Invokers, Sequential
<1>6. CASE requestQueue = <<>>
  <2>1. /\ requestQueue' = <<r>> /\ phase'[r] = "inflight" /\ UNCHANGED chained
        /\ refreshing' = IF r \in Refresh THEN refreshing + 1 ELSE refreshing
    BY <1>1, <1>6 DEF Queue, TypeOK
  <2>2. refreshing = 0
    BY <1>1, <1>6 DEF SInv, OutstandingForm, TypeOK
  <2>3. AgendaForm'
    BY <1>2, <1>6, <2>1 DEF SInv, AgendaForm, HeadOnWire, HeadWaits, HandlerOf
  <2>4. OthersWait'
    BY <2>1 DEF OthersWait
  <2>5. ChainForm'
    BY <1>1, <2>1 DEF ChainForm, SInv, NothingChained
  <2>6. NothingChained'
    BY <1>3, <2>1 DEF SInv, NothingChained
  <2>7. OutstandingForm'
    BY <1>2, <2>1, <2>2 DEF OutstandingForm, SlotOf
  <2> QED
    BY <1>5, <2>3, <2>4, <2>5, <2>6, <2>7 DEF SInv
<1>7. CASE requestQueue # <<>>
  <2> DEFINE n == Len(requestQueue)
             p == requestQueue[n]
  <2>0. /\ n \in Nat /\ n > 0 /\ DOMAIN requestQueue = 1 .. n /\ n \in 1 .. n
        /\ \A i, j \in 1 .. n : requestQueue[i] = requestQueue[j] => i = j
    BY <1>7, QueueFacts
  <2>1. /\ n \in Nat /\ n > 0 /\ DOMAIN requestQueue = 1 .. n
        /\ DOMAIN requestQueue' = 1 .. n + 1 /\ Len(requestQueue') = n + 1
        /\ \A i \in 1 .. n : requestQueue'[i] = requestQueue[i]
        /\ requestQueue'[n + 1] = r
    <3>1. requestQueue' = Append(requestQueue, r) /\ requestQueue \in Seq(Sequential)
      BY <1>1 DEF Queue, TypeOK
    <3> QED
      BY <2>0, <3>1
  <2>2. \A i \in 1 .. n : requestQueue[i] \in Invokers /\ requestQueue[i] # r
                          /\ phase'[requestQueue[i]] = phase[requestQueue[i]]
    BY <1>3, QueueFacts
  <2>3. \A i \in 1 .. n : requestQueue[i] = p => i = n
    BY <2>0
  <2>4. chained[p] = <<>> /\ chained[r] = <<>>
    <3>1. chained[p] = <<>>
      <4>1. n \in DOMAIN requestQueue /\ ~ (n < Len(requestQueue))
        BY <2>0
      <4>2. \A i \in DOMAIN requestQueue : ~ (i < Len(requestQueue)) => chained[requestQueue[i]] = <<>>
        BY DEF SInv, ChainForm
      <4> QED
        BY <4>1, <4>2
    <3>2. chained[r] = <<>>
      BY <1>1 DEF SInv, NothingChained
    <3> QED
      BY <3>1, <3>2
  <2>5. p \in Invokers /\ p # r /\ p \in Sequential
    BY <2>1, <2>2, QueueFacts
  <2>6. chained' = [chained EXCEPT ![p] = Append(@, r)] /\ phase'[r] = "queued"
        /\ UNCHANGED refreshing
    BY <1>1, <1>7 DEF Queue, TypeOK
  <2>7. chained'[p] = <<r>> /\ \A s \in Invokers : s # p => chained'[s] = chained[s]
    BY <1>1, <2>4, <2>5, <2>6 DEF TypeOK
  <2> HIDE DEF n, p
  <2>8. requestQueue'[1] = requestQueue[1] /\ phase'[requestQueue'[1]] = phase[requestQueue[1]]
        /\ requestQueue' # <<>>
    BY <2>1, <2>2
  <2>9. AgendaForm'
    BY <1>2, <1>7, <2>8 DEF SInv, AgendaForm, HeadOnWire, HeadWaits, HandlerOf, InvokeOf
  <2>10. OthersWait'
    BY <2>1, <2>2, <2>6 DEF SInv, OthersWait
  <2>11. ChainForm'
    <3> SUFFICES ASSUME NEW i \in 1 .. n + 1
                 PROVE  chained'[requestQueue'[i]] =
                          IF i < n + 1 THEN <<requestQueue'[i + 1]>> ELSE <<>>
      BY <2>1 DEF ChainForm
    <3>1. CASE i < n
      <4>1. i \in 1 .. n /\ i + 1 \in 1 .. n /\ requestQueue[i] # p
        BY <2>1, <2>3, <3>1
      <4>2. chained[requestQueue[i]] = <<requestQueue[i + 1]>>
        BY <2>1, <3>1, <4>1 DEF SInv, ChainForm, n
      <4>3. chained'[requestQueue'[i]] = <<requestQueue'[i + 1]>>
        BY <2>1, <2>2, <2>7, <4>1, <4>2
      <4> QED
        BY <2>1, <3>1, <4>3
    <3>2. CASE i = n
      BY <2>1, <2>7, <3>2 DEF p
    <3>3. CASE i = n + 1
      BY <1>1, <2>1, <2>4, <2>5, <2>7, <3>3
    <3> QED
      BY <2>1, <3>1, <3>2, <3>3
  <2>12. NothingChained'
    <3> SUFFICES ASSUME NEW s \in Invokers, phase'[s] = "unborn" \/ s \in Parallel
                 PROVE  chained'[s] = <<>>
      BY DEF NothingChained
    <3>1. s # r /\ phase'[s] = phase[s]
      BY <1>1, <1>3, <2>6
    <3>2. s # p
      BY <2>1, <2>5, <3>1, QueueFacts, InvokersAreDistinct DEF p, Sequential
    <3> QED
      BY <2>7, <3>1, <3>2 DEF SInv, NothingChained
  <2>13. OutstandingForm'
    BY <1>2, <2>6, <2>8 DEF SInv, OutstandingForm, SlotOf
  <2> QED
    BY <1>5, <2>9, <2>10, <2>11, <2>12, <2>13 DEF SInv
<1> QED
  BY <1>6, <1>7

\* Removing the first element moves the others up by one.
LEMMA RemoveHead ==
  ASSUME NEW S, NEW s \in Seq(S), s # <<>>, Distinct(s)
  PROVE  /\ Len(RemoveOne(s, s[1])) = Len(s) - 1
         /\ RemoveOne(s, s[1]) \in Seq(S)
         /\ \A i \in 1 .. Len(s) - 1 : RemoveOne(s, s[1])[i] = s[i + 1]
<1> DEFINE h == s[1]
<1>1. 1 \in DOMAIN s /\ Len(s) \in Nat
  BY EmptySeq, LenProperties
<1>2. s[1] = h /\ \A i \in DOMAIN s : s[i] = h => i = 1
  BY <1>1 DEF Distinct
<1> HIDE DEF h
<1> DEFINE t == RemoveOne(s, h)
<1>3. /\ t \in Seq(S)
      /\ Len(t) = Len(s) - 1
      /\ \A i \in 1 .. Len(s) - 1 : t[i] = IF i < 1 THEN s[i] ELSE s[i + 1]
  BY <1>1, <1>2, RemoveOneProperties
<1> HIDE DEF t
<1>4. \A i \in 1 .. Len(s) - 1 : t[i] = s[i + 1]
  BY <1>1, <1>3
<1> QED
  BY <1>3, <1>4 DEF t, h

\* The oldest request leaves the queue.
LEMMA HeadLeaves ==
  ASSUME IInv, requestQueue # <<>>, NEW r, r = requestQueue[1],
         requestQueue' = RemoveOne(requestQueue, r)
  PROVE  /\ Len(requestQueue') = Len(requestQueue) - 1
         /\ requestQueue' \in Seq(Sequential)
         /\ \A i \in 1 .. Len(requestQueue) - 1 : requestQueue'[i] = requestQueue[i + 1]
<1>1. requestQueue \in Seq(Sequential) /\ Distinct(requestQueue)
  BY DEF IInv, TypeOK
<1>2. requestQueue' = RemoveOne(requestQueue, requestQueue[1])
  OBVIOUS
<1> QED
  BY <1>1, <1>2, RemoveHead

\* The oldest request, which is on the wire, finishes: its successor's lambda,
\* and nothing else, gets on the agenda.
LEMMA HeadFinishes ==
  ASSUME IInv, IInv', SInv, requestQueue # <<>>,
         NEW r, r = requestQueue[1], phase[r] = "inflight",
         requestQueue' = RemoveOne(requestQueue, r),
         phase' = [phase EXCEPT ![r] = "finished"],
         UNCHANGED chained
  PROVE  /\ OthersWait' /\ ChainForm' /\ NothingChained'
         /\ \A s \in Invokers : s # r => phase'[s] = phase[s]
         /\ \/ requestQueue' = <<>> /\ Followers(r) = <<>>
            \/ HeadWaits' /\ Followers(r) = <<InvokeOf(requestQueue'[1])>>
<1> DEFINE n == Len(requestQueue)
<1>0. TypeOK
  BY DEF IInv
<1>1. /\ n \in Nat /\ n > 0 /\ DOMAIN requestQueue = 1 .. n
      /\ Len(requestQueue') = n - 1 /\ DOMAIN requestQueue' = 1 .. n - 1
      /\ requestQueue' \in Seq(Sequential)
      /\ \A i \in 1 .. n - 1 : requestQueue'[i] = requestQueue[i + 1]
  <2>1. n \in Nat /\ n > 0 /\ DOMAIN requestQueue = 1 .. n
    BY QueueFacts
  <2>2. /\ Len(requestQueue') = n - 1 /\ requestQueue' \in Seq(Sequential)
        /\ \A i \in 1 .. n - 1 : requestQueue'[i] = requestQueue[i + 1]
    BY HeadLeaves
  <2>3. DOMAIN requestQueue' = 1 .. n - 1
    BY <2>2, LenProperties
  <2> QED
    BY <2>1, <2>2, <2>3
<1>2. 1 \in 1 .. n
  <2>1. n \in Nat /\ n > 0
    BY ONLY <1>1
  <2> HIDE DEF n
  <2> QED
    BY ONLY <2>1
<1>3. r \in Invokers /\ \A i \in 1 .. n : requestQueue[i] \in Invokers /\ (requestQueue[i] = r => i = 1)
  <2>1. \A i, j \in 1 .. n : requestQueue[i] = requestQueue[j] => i = j
    BY QueueFacts
  <2>2. \A i \in 1 .. n : requestQueue[i] \in Invokers
    BY QueueFacts
  <2> QED
    BY <1>2, <2>1, <2>2
<1>4. phase'[r] = "finished" /\ \A s \in Invokers : s # r => phase'[s] = phase[s]
  BY <1>0, <1>3 DEF TypeOK
<1>5. \A i \in 1 .. n : i > 1 => phase'[requestQueue[i]] = "queued"
  BY <1>1, <1>3, <1>4, ZenonT(60) DEF SInv, OthersWait
<1>6. \A i \in 1 .. n : chained'[requestQueue[i]] = IF i < n THEN <<requestQueue[i + 1]>> ELSE <<>>
  BY <1>1 DEF SInv, ChainForm
<1> HIDE DEF n
<1>7. \A i \in 1 .. n - 1 : i + 1 \in 1 .. n /\ i + 1 > 1
  BY <1>1
<1>8. OthersWait'
  BY <1>1, <1>5, <1>7 DEF OthersWait
<1>9. ChainForm'
  <2> SUFFICES ASSUME NEW i \in 1 .. n - 1
               PROVE  chained'[requestQueue'[i]] =
                        IF i < n - 1 THEN <<requestQueue'[i + 1]>> ELSE <<>>
    BY <1>1 DEF ChainForm
  <2>1. chained'[requestQueue'[i]] = IF i + 1 < n THEN <<requestQueue[(i + 1) + 1]>> ELSE <<>>
    BY <1>1, <1>6, <1>7
  <2>2. CASE i < n - 1
    BY <1>1, <2>1, <2>2
  <2>3. CASE ~ (i < n - 1)
    BY <1>1, <2>1, <2>3
  <2> QED
    BY <2>2, <2>3
<1>10. NothingChained'
  BY <1>3, <1>4 DEF SInv, NothingChained, IInv, TypeOK
<1>11. CASE n = 1
  <2>1. requestQueue' = <<>>
    BY <1>1, <1>11
  <2>2. chained[r] = <<>>
    BY <1>1, <1>6, <1>11
  <2>3. Followers(r) = <<>>
    BY <2>2 DEF Followers
  <2> QED
    BY <1>4, <1>8, <1>9, <1>10, <2>1, <2>3
<1>12. CASE n > 1
  <2>1. requestQueue' # <<>> /\ requestQueue'[1] = requestQueue[2]
    BY <1>1, <1>12
  <2>2. chained[r] = <<requestQueue[2]>>
    <3>1. chained[requestQueue[1]] = IF 1 < n THEN <<requestQueue[1 + 1]>> ELSE <<>>
      BY <1>2, <1>6
    <3>2. 1 + 1 = 2
      OBVIOUS
    <3> QED
      BY <1>12, <3>1, <3>2
  <2>3. Followers(r) = <<InvokeOf(requestQueue[2])>>
    BY <2>2 DEF Followers
  <2>4. HeadWaits'
    BY <1>1, <1>5, <1>12, <2>1 DEF HeadWaits
  <2> QED
    BY <1>4, <1>8, <1>9, <1>10, <2>1, <2>3, <2>4
<1> QED
  BY <1>1, <1>11, <1>12

\* What the short sequences on the agenda are made of.
LEMMA ShortSequences ==
  ASSUME NEW x, NEW y
  PROVE  /\ Head(<<x>>) = x /\ Head(<<x, y>>) = x
         /\ Tail(<<x>>) = <<>> /\ Tail(<<x, y>>) = <<y>>
         /\ <<x>> \o <<y>> = <<x, y>>
<1>1. /\ Head(<<x>>) = x /\ Head(<<x, y>>) = x
      /\ Tail(<<x>>) = <<>> /\ Tail(<<x, y>>) = <<y>>
  OBVIOUS
<1> DEFINE S == {x, y}
           s == <<x>>
           t == <<y>>
           u == <<x, y>>
<1>2. /\ s \in Seq(S) /\ t \in Seq(S) /\ u \in Seq(S)
      /\ Len(s) = 1 /\ Len(t) = 1 /\ Len(u) = 2
      /\ s[1] = x /\ t[1] = y /\ u[1] = x /\ u[2] = y
  OBVIOUS
<1> HIDE DEF S, s, t, u
<1>3. /\ s \o t \in Seq(S) /\ Len(s \o t) = 2
      /\ \A i \in 1 .. Len(s) + Len(t) :
           (s \o t)[i] = IF i <= Len(s) THEN s[i] ELSE t[i - Len(s)]
  BY <1>2, ConcatProperties
<1>4. (s \o t)[1] = u[1] /\ (s \o t)[2] = u[2]
  BY <1>2, <1>3
<1>5. s \o t = u
  BY <1>2, <1>3, <1>4, SeqEqual
<1> QED
  BY <1>1, <1>5 DEF s, t, u

\* An agenda whose first callback is x is not one that begins with y # x.
LEMMA HeadTells ==
  ASSUME NEW s, NEW x, NEW y, NEW z, Head(s) = x, x # y
  PROVE  s # <<y>> /\ s # <<y, z>>
BY ShortSequences

\* The three kinds of callbacks differ.
LEMMA KindsDiffer ==
  ASSUME NEW m, NEW n
  PROVE  /\ InvokeOf(m) # HandlerOf(n) /\ HandlerOf(n) # InvokeOf(m)
         /\ InvokeOf(m) # SlotOf(n) /\ SlotOf(n) # InvokeOf(m)
         /\ HandlerOf(m) # SlotOf(n) /\ SlotOf(n) # HandlerOf(m)
         /\ (InvokeOf(m) = InvokeOf(n) => m = n)
         /\ (SlotOf(m) = SlotOf(n) => m = n)
BY DEF InvokeOf, HandlerOf, SlotOf

LEMMA ReplySInv ==
  ASSUME ~ RefreshOverlap, IInv, IInv', SInv, NEW r \in Http \cup Parallel, Reply(r)
  PROVE  SInv'
<1>1. /\ agenda = <<>> /\ phase[r] = "inflight" /\ r \in Invokers /\ r \notin Refresh
      /\ requestQueue' = RemoveOne(requestQueue, r)
      /\ phase' = [phase EXCEPT ![r] = "finished"]
      /\ agenda' = <<HandlerOf(r)>> \o Followers(r)
      /\ UNCHANGED <<chained, listeners, refreshing, crashed>>
  BY InvokersAreDistinct DEF Reply, Idle, Invokers, Sequential
<1>2. \A s \in Invokers : s # r => phase'[s] = phase[s]
  BY <1>1 DEF IInv, TypeOK
<1>3. \A t \in Refresh : agenda # <<SlotOf(t)>>
  BY <1>1
<1>4. RefreshForm'
  BY <1>1, <1>2, <1>3 DEF SInv, RefreshForm, Invokers, Sequential
<1>5. HeadOnWire
  BY <1>1 DEF SInv, AgendaForm
<1>6. CASE r \in Http
  <2>1. requestQueue # <<>> /\ r = requestQueue[1]
    BY <1>1, <1>6, InFlightIsHead DEF SInv, Sequential
  <2>2. /\ OthersWait' /\ ChainForm' /\ NothingChained'
        /\ \/ requestQueue' = <<>> /\ Followers(r) = <<>>
           \/ HeadWaits' /\ Followers(r) = <<InvokeOf(requestQueue'[1])>>
    BY <1>1, <2>1, HeadFinishes
  <2>3. refreshing = 0 /\ refreshing' = 0
    BY <1>1, <2>1 DEF SInv, OutstandingForm, IInv, TypeOK
  <2>4. OutstandingForm'
    BY <2>3 DEF OutstandingForm
  <2>5. CASE requestQueue' = <<>> /\ Followers(r) = <<>>
    <3>1. agenda' = <<HandlerOf(r)>>
      BY <1>1, <2>5
    <3>2. AgendaForm'
      BY <1>1, <2>5, <3>1 DEF AgendaForm, HeadOnWire, HandlerOf
    <3> QED
      BY <1>4, <2>2, <2>4, <3>2 DEF SInv
  <2>6. CASE HeadWaits' /\ Followers(r) = <<InvokeOf(requestQueue'[1])>>
    <3>1. agenda' = <<HandlerOf(r)>> \o <<InvokeOf(requestQueue'[1])>>
      BY <1>1, <2>6
    <3>3. agenda' = <<HandlerOf(r), InvokeOf(requestQueue'[1])>>
      BY <3>1, ShortSequences, Zenon
    <3>4. AgendaForm'
      BY <1>1, <2>6, <3>3 DEF AgendaForm, HandlerOf, InvokeOf
    <3> QED
      BY <1>4, <2>2, <2>4, <3>4 DEF SInv
  <2> QED
    BY <2>2, <2>5, <2>6
<1>7. CASE r \in Parallel
  <2>1. r \notin Sequential
    BY <1>7, InvokersAreDistinct DEF Sequential
  <2>2. r \notin Range(requestQueue) /\ requestQueue \in Seq(Sequential)
    BY <2>1 DEF IInv, TypeOK, QueueIsUnfinished
  <2>3. UNCHANGED requestQueue
    BY <1>1, <2>2, RemoveOneAbsent
  <2>4. chained[r] = <<>>
    BY <1>1, <1>7 DEF SInv, NothingChained
  <2>5. Followers(r) = <<>>
    BY <2>4 DEF Followers
  <2>6. agenda' = <<HandlerOf(r)>>
    BY <1>1, <2>5
  <2>7. \A i \in 1 .. Len(requestQueue) : phase'[requestQueue[i]] = phase[requestQueue[i]]
    BY <1>2, <2>1, QueueFacts
  <2>8. /\ DOMAIN requestQueue = 1 .. Len(requestQueue)
        /\ requestQueue # <<>> => 1 \in 1 .. Len(requestQueue)
    BY QueueFacts
  <2>9. HeadOnWire'
    BY <1>5, <2>3, <2>7, <2>8 DEF HeadOnWire
  <2>10. AgendaForm'
    BY <1>1, <2>6, <2>9 DEF AgendaForm, HandlerOf
  <2>11. OthersWait' /\ ChainForm'
    BY <1>1, <2>3, <2>7, <2>8 DEF SInv, OthersWait, ChainForm
  <2>12. NothingChained'
    BY <1>1, <1>2, <1>7 DEF SInv, NothingChained
  <2>13. OutstandingForm'
    <3>1. \A t : agenda' # <<SlotOf(t)'>>
      BY <2>6 DEF SlotOf, HandlerOf
    <3>2. requestQueue # <<>> => phase'[requestQueue[1]] = phase[requestQueue[1]]
      BY <2>7, <2>8
    <3> QED
      BY <1>1, <2>3, <3>1, <3>2 DEF SInv, OutstandingForm
  <2> QED
    BY <1>4, <2>10, <2>11, <2>12, <2>13 DEF SInv
<1> QED
  BY <1>6, <1>7

LEMMA SubmitSInv ==
  ASSUME IInv, IInv', SInv, NEW r \in Http, Submit(r)
  PROVE  SInv'
BY QueueStepSInv, InvokersAreDistinct DEF Submit, Sequential

LEMMA SubmitRefreshSInv ==
  ASSUME ~ RefreshOverlap, IInv, IInv', SInv, NEW r \in Refresh, SubmitRefresh(r)
  PROVE  SInv'
<1>1. listeners = <<>>
  BY Zenon DEF SubmitRefresh
<1>2. listeners' = <<r>> /\ Idle /\ MayQueue
  BY <1>1 DEF SubmitRefresh, MayQueue
<1> QED
  BY <1>1, <1>2, QueueStepSInv DEF SubmitRefresh, Sequential

\* A step that changes neither queue nor chain nor the phases of its members.
LEMMA SubmitParallelSInv ==
  ASSUME IInv, IInv', SInv, NEW r \in Parallel, SubmitParallel(r)
  PROVE  SInv'
<1>1. /\ UNCHANGED <<requestQueue, chained, listeners, refreshing, agenda, crashed>>
      /\ r \in Invokers /\ r \notin Sequential /\ r \notin Refresh /\ phase[r] = "unborn"
  BY InvokersAreDistinct DEF SubmitParallel, Invokers, Sequential
<1>2. \A s \in Invokers : s # r => phase'[s] = phase[s]
  BY DEF SubmitParallel, IInv, TypeOK
<1>3. \A i \in 1 .. Len(requestQueue) : phase'[requestQueue[i]] = phase[requestQueue[i]]
  BY <1>1, <1>2, QueueFacts
<1>4. /\ DOMAIN requestQueue = 1 .. Len(requestQueue)
      /\ requestQueue # <<>> => 1 \in 1 .. Len(requestQueue)
  BY QueueFacts
<1>5. requestQueue # <<>> => phase'[requestQueue[1]] = phase[requestQueue[1]]
  BY <1>3, <1>4
<1>6. AgendaForm'
  BY <1>1, <1>5 DEF SInv, AgendaForm, HeadOnWire, HeadWaits, HandlerOf, InvokeOf, SlotOf
<1>7. OthersWait' /\ ChainForm'
  BY <1>1, <1>3, <1>4 DEF SInv, OthersWait, ChainForm
<1>8. NothingChained'
  BY <1>1, <1>2 DEF SInv, NothingChained
<1>9. RefreshForm'
  BY <1>1, <1>2 DEF SInv, RefreshForm, SlotOf, Invokers, Sequential
<1>10. OutstandingForm'
  BY <1>1, <1>5 DEF SInv, OutstandingForm, SlotOf
<1> QED
  BY <1>6, <1>7, <1>8, <1>9, <1>10 DEF SInv

LEMMA RefreshReplySInv ==
  ASSUME IInv, IInv', SInv, RefreshReply
  PROVE  SInv'
<1>1. /\ agenda = <<>> /\ refreshing > 0 /\ refreshing' = refreshing - 1 /\ listeners' = <<>>
      /\ agenda' = [i \in DOMAIN listeners |-> SlotOf(listeners[i])]
      /\ UNCHANGED <<requestQueue, phase, chained, crashed>>
  BY DEF RefreshReply, Idle
<1> DEFINE h == requestQueue[1]
<1>2. /\ refreshing = 1 /\ requestQueue # <<>> /\ h \in Refresh /\ phase[h] = "inflight"
  BY <1>1 DEF SInv, OutstandingForm
<1>3. \A t \in Refresh : phase[t] \in {"queued", "inflight"} => listeners = <<t>>
  BY <1>1 DEF SInv, RefreshForm
<1>4. listeners = <<h>>
  BY <1>2, <1>3
<1>5. agenda' = <<SlotOf(h)>>
  BY <1>1, <1>4
<1>6. AgendaForm'
  BY <1>1, <1>2, <1>5 DEF AgendaForm, HeadOnWire, SlotOf
<1>7. OthersWait' /\ ChainForm' /\ NothingChained'
  BY <1>1 DEF SInv, OthersWait, ChainForm, NothingChained
<1>8. RefreshForm'
  <2> SUFFICES ASSUME NEW t \in Refresh, phase[t] \in {"queued", "inflight"}
               PROVE  agenda' = <<SlotOf(t)>>
    BY <1>1 DEF RefreshForm, SlotOf
  <2>1. <<t>> = <<h>>
    BY <1>3, <1>4
  <2>2. t = h
    BY <2>1
  <2> QED
    BY <1>5, <2>2
<1>9. OutstandingForm'
  BY <1>1, <1>2 DEF OutstandingForm
<1> QED
  BY <1>6, <1>7, <1>8, <1>9 DEF SInv

\* The head of the agenda tells which of its forms it has.
LEMMA SlotAtHead ==
  ASSUME AgendaForm, NEW r, Doing(SlotOf(r))
  PROVE  /\ agenda = <<SlotOf(r)>> /\ r \in Refresh /\ HeadOnWire
         /\ requestQueue # <<>> /\ requestQueue[1] = r
         /\ refreshing = 0 /\ listeners = <<>>
<1>1. agenda # <<>> /\ Head(agenda) = SlotOf(r)
  BY Zenon DEF Doing
<1>2. \A x, z : agenda # <<HandlerOf(x)>> /\ agenda # <<HandlerOf(x), z>>
  BY <1>1, HeadTells, KindsDiffer, Zenon
<1>3. \A x : agenda # <<InvokeOf(x)>>
  BY <1>1, HeadTells, KindsDiffer, Zenon
<1>4. PICK t \in Refresh : /\ agenda = <<SlotOf(t)>> /\ HeadOnWire
                           /\ requestQueue # <<>> /\ requestQueue[1] = t
                           /\ refreshing = 0 /\ listeners = <<>>
  BY <1>1, <1>2, <1>3, Zenon DEF AgendaForm
<1>5. SlotOf(t) = SlotOf(r)
  BY <1>1, <1>4, ShortSequences, Zenon
<1>6. t = r
  BY <1>5, KindsDiffer, Zenon
<1> QED
  BY <1>4, <1>6, Zenon

LEMMA InvokeAtHead ==
  ASSUME AgendaForm, NEW r, Doing(InvokeOf(r))
  PROVE  agenda = <<InvokeOf(r)>> /\ r = requestQueue[1] /\ HeadWaits
<1>1. agenda # <<>> /\ Head(agenda) = InvokeOf(r)
  BY Zenon DEF Doing
<1>2. \A x, z : agenda # <<HandlerOf(x)>> /\ agenda # <<HandlerOf(x), z>> /\ agenda # <<SlotOf(x)>>
  BY <1>1, HeadTells, KindsDiffer, Zenon
<1>3. agenda = <<InvokeOf(requestQueue[1])>> /\ HeadWaits
  BY <1>1, <1>2, Zenon DEF AgendaForm
<1>4. r = requestQueue[1]
  BY <1>1, <1>3, ShortSequences, KindsDiffer, Zenon
<1> QED
  BY <1>3, <1>4, Zenon

LEMMA HandlerAtHead ==
  ASSUME AgendaForm, NEW r, Doing(HandlerOf(r))
  PROVE  \/ Tail(agenda) = <<>> /\ HeadOnWire
         \/ Tail(agenda) = <<InvokeOf(requestQueue[1])>> /\ HeadWaits
<1>1. agenda # <<>> /\ Head(agenda) = HandlerOf(r)
  BY Zenon DEF Doing
<1>2. \A x : agenda # <<InvokeOf(x)>> /\ agenda # <<SlotOf(x)>>
  BY <1>1, HeadTells, KindsDiffer, Zenon
<1>3. \/ \E x \in Invokers : agenda = <<HandlerOf(x)>> /\ HeadOnWire
      \/ \E x \in Invokers : agenda = <<HandlerOf(x), InvokeOf(requestQueue[1])>> /\ HeadWaits
  BY <1>1, <1>2, Zenon DEF AgendaForm
<1> QED
  BY <1>3, ShortSequences, Zenon

LEMMA RunSlotSInv ==
  ASSUME IInv, IInv', SInv, NEW r \in Invokers, RunSlot(r)
  PROVE  SInv'
<1>1. /\ agenda = <<SlotOf(r)>> /\ r \in Refresh
      /\ requestQueue # <<>> /\ r = requestQueue[1] /\ phase[r] = "inflight"
      /\ refreshing = 0 /\ listeners = <<>>
  BY SlotAtHead DEF RunSlot, SInv, HeadOnWire
<1>2. /\ requestQueue' = RemoveOne(requestQueue, r)
      /\ phase' = [phase EXCEPT ![r] = "finished"]
      /\ agenda' = Followers(r) \o Tail(agenda)
      /\ UNCHANGED <<chained, listeners, refreshing, crashed>>
  BY DEF RunSlot
<1>3. /\ OthersWait' /\ ChainForm' /\ NothingChained'
      /\ \A s \in Invokers : s # r => phase'[s] = phase[s]
      /\ \/ requestQueue' = <<>> /\ Followers(r) = <<>>
         \/ HeadWaits' /\ Followers(r) = <<InvokeOf(requestQueue'[1])>>
  <2>1. /\ requestQueue # <<>> /\ r = requestQueue[1] /\ phase[r] = "inflight"
        /\ requestQueue' = RemoveOne(requestQueue, r)
        /\ phase' = [phase EXCEPT ![r] = "finished"] /\ UNCHANGED chained
    BY <1>1, <1>2
  <2>2. /\ OthersWait' /\ ChainForm' /\ NothingChained'
        /\ \/ requestQueue' = <<>> /\ Followers(r) = <<>>
           \/ HeadWaits' /\ Followers(r) = <<InvokeOf(requestQueue'[1])>>
    BY <2>1, HeadFinishes
  <2>3. \A s \in Invokers : s # r => phase'[s] = phase[s]
    BY <2>1 DEF IInv, TypeOK
  <2> QED
    BY <2>2, <2>3
<1>4. Tail(agenda) = <<>>
  BY <1>1
<1>5. OutstandingForm'
  BY <1>1, <1>2 DEF OutstandingForm
<1>6. \A t \in Refresh : t # r => phase[t] \notin {"queued", "inflight"}
  <2>1. \A x, y : <<x>> = <<y>> => x = y
    OBVIOUS
  <2>2. \A m, n : SlotOf(m) = SlotOf(n) => m = n
    BY DEF SlotOf
  <2>3. \A t : listeners # <<t>>
    BY <1>1
  <2> QED
    BY <1>1, <2>1, <2>2, <2>3, Zenon DEF SInv, RefreshForm
<1>7. RefreshForm'
  <2>1. phase'[r] = "finished" /\ Refresh \subseteq Invokers
    BY <1>2 DEF IInv, TypeOK, Invokers, Sequential
  <2> QED
    BY <1>3, <1>6, <2>1 DEF RefreshForm
<1>8. AgendaForm'
  <2>1. CASE requestQueue' = <<>> /\ Followers(r) = <<>>
    <3>1. agenda' = <<>>
      BY <1>2, <1>4, <2>1
    <3> QED
      BY <2>1, <3>1 DEF AgendaForm, HeadOnWire
  <2>2. CASE HeadWaits' /\ Followers(r) = <<InvokeOf(requestQueue'[1])>>
    <3>1. agenda' = <<InvokeOf(requestQueue'[1])>> \o <<>>
      BY <1>2, <1>4, <2>2
    <3>2. \A x : <<x>> \o <<>> = <<x>>
      OBVIOUS
    <3>3. agenda' = <<InvokeOf(requestQueue'[1])>>
      BY <3>1, <3>2, Zenon
    <3> QED
      BY <2>2, <3>3 DEF AgendaForm, InvokeOf
  <2> QED
    BY <1>3, <2>1, <2>2
<1> QED
  BY <1>3, <1>5, <1>7, <1>8 DEF SInv

LEMMA RunInvokeSInv ==
  ASSUME IInv, IInv', SInv, NEW r \in Invokers, RunInvoke(r)
  PROVE  SInv'
<1>1. /\ agenda = <<InvokeOf(r)>> /\ requestQueue # <<>> /\ r = requestQueue[1]
      /\ phase[r] = "queued"
  BY InvokeAtHead DEF RunInvoke, SInv, HeadWaits
<1>2. /\ phase' = [phase EXCEPT ![r] = "inflight"] /\ agenda' = <<>>
      /\ refreshing' = IF r \in Refresh THEN refreshing + 1 ELSE refreshing
      /\ UNCHANGED <<requestQueue, chained, listeners, crashed>>
  BY <1>1 DEF RunInvoke
<1>3. phase'[r] = "inflight" /\ \A s \in Invokers : s # r => phase'[s] = phase[s]
  BY <1>2 DEF IInv, TypeOK
<1>4. refreshing = 0
  BY <1>1 DEF SInv, OutstandingForm, IInv, TypeOK
<1>5. OutstandingForm'
  BY <1>1, <1>2, <1>3, <1>4 DEF OutstandingForm
<1>6. AgendaForm'
  BY <1>1, <1>2, <1>3 DEF AgendaForm, HeadOnWire
<1>7. OthersWait'
  <2> SUFFICES ASSUME NEW i \in 1 .. Len(requestQueue), i > 1
               PROVE  phase'[requestQueue[i]] = "queued"
    BY <1>2, QueueFacts DEF OthersWait
  <2>1. requestQueue[i] # r /\ requestQueue[i] \in Invokers
    <3>1. 1 \in 1 .. Len(requestQueue)
      BY <1>1, QueueFacts
    <3> QED
      BY <1>1, <3>1, QueueFacts
  <2> QED
    BY <1>3, <2>1, QueueFacts DEF SInv, OthersWait
<1>8. ChainForm'
  BY <1>2 DEF SInv, ChainForm
<1>9. NothingChained'
  BY <1>2, <1>3 DEF SInv, NothingChained
<1>10. \A t \in Refresh : agenda # <<SlotOf(t)>>
  <2>1. \A x, y : <<x>> = <<y>> => x = y
    OBVIOUS
  <2> QED
    BY <1>1, <2>1, CallbackKinds, Zenon
<1>11. RefreshForm'
  BY <1>1, <1>2, <1>3, <1>10 DEF SInv, RefreshForm, Invokers, Sequential
<1> QED
  BY <1>5, <1>6, <1>7, <1>8, <1>9, <1>11 DEF SInv

\* A lambda whose invoker is gone is never called.
LEMMA NoDangling ==
  ASSUME SInv, NEW r
  PROVE  ~ RunDangling(r)
<1> SUFFICES ASSUME RunDangling(r) PROVE FALSE
  OBVIOUS
<1>1. phase[r] = "queued"
  BY InvokeAtHead DEF RunDangling, SInv, HeadWaits
<1> QED
  BY <1>1 DEF RunDangling

LEMMA RunHandlerSInv ==
  ASSUME IInv, IInv', SInv, NEW r \in Invokers, RunHandler(r)
  PROVE  SInv'
<1>1. /\ agenda' = Tail(agenda)
      /\ UNCHANGED <<requestQueue, phase, chained, listeners, refreshing, crashed>>
      /\ \/ Tail(agenda) = <<>> /\ HeadOnWire
         \/ Tail(agenda) = <<InvokeOf(requestQueue[1])>> /\ HeadWaits
  BY HandlerAtHead DEF RunHandler, SInv
<1>2. AgendaForm'
  BY <1>1 DEF AgendaForm, HeadOnWire, HeadWaits, InvokeOf
<1>3. \A t : agenda # <<SlotOf(t)>> /\ agenda' # <<SlotOf(t)>>
  <2>1. \A x, y : <<x>> = <<y>> => x = y
    OBVIOUS
  <2>2. Head(agenda) = HandlerOf(r)
    BY DEF RunHandler, Doing
  <2>3. \A x : Head(<<x>>) = x /\ <<x>> # <<>>
    OBVIOUS
  <2> QED
    BY <1>1, <2>1, <2>2, <2>3, CallbackKinds, Zenon
<1>4. OthersWait' /\ ChainForm' /\ NothingChained'
  BY <1>1 DEF SInv, OthersWait, ChainForm, NothingChained
<1>5. RefreshForm'
  BY <1>1, <1>3 DEF SInv, RefreshForm
<1>6. OutstandingForm'
  BY <1>1, <1>3 DEF SInv, OutstandingForm, SlotOf
<1> QED
  BY <1>2, <1>4, <1>5, <1>6 DEF SInv

LEMMA StutterSInv ==
  ASSUME SInv, UNCHANGED vars
  PROVE  SInv'
BY DEF vars, SInv, AgendaForm, HeadOnWire, HeadWaits, OthersWait, ChainForm,
       NothingChained, RefreshForm, OutstandingForm, SlotOf, InvokeOf, HandlerOf

LEMMA NextSInv ==
  ASSUME ~ RefreshOverlap
  PROVE  IInv /\ SInv /\ [Next]_vars => SInv'
<1> SUFFICES ASSUME IInv, SInv, [Next]_vars PROVE SInv'
  OBVIOUS
<1>0. IInv'
  BY NextIInv
<1>1. ASSUME NEW r \in Http, Submit(r) PROVE SInv'
  BY <1>0, <1>1, SubmitSInv
<1>2. ASSUME NEW r \in Refresh, SubmitRefresh(r) PROVE SInv'
  BY <1>0, <1>2, SubmitRefreshSInv
<1>3. ASSUME NEW r \in Parallel, SubmitParallel(r) PROVE SInv'
  BY <1>0, <1>3, SubmitParallelSInv
<1>4. ASSUME NEW r \in Http \cup Parallel, Reply(r) PROVE SInv'
  BY <1>0, <1>4, ReplySInv
<1>5. CASE RefreshReply
  BY <1>0, <1>5, RefreshReplySInv
<1>6. ASSUME NEW r \in Invokers, RunSlot(r) \/ RunInvoke(r) \/ RunDangling(r) \/ RunHandler(r)
      PROVE  SInv'
  BY <1>0, <1>6, RunSlotSInv, RunInvokeSInv, NoDangling, RunHandlerSInv
<1>7. CASE UNCHANGED vars
  BY <1>7, StutterSInv
<1> QED
  BY <1>1, <1>2, <1>3, <1>4, <1>5, <1>6, <1>7 DEF Next, RunCallback

\* The shape of the queue, the chain and the agenda, in every reachable state.
LEMMA SpecSInv == ~ RefreshOverlap => (Spec => [](IInv /\ SInv))
<1> SUFFICES ASSUME ~ RefreshOverlap PROVE Spec => [](IInv /\ SInv)
  OBVIOUS
<1>1. IInv /\ SInv /\ [Next]_vars => SInv'
  BY NextSInv
<1> QED
  BY <1>1, InitIInv, InitSInv, NextIInv, PTL DEF Spec

\* "Sequential invocation": as long as refresh() is not called while an earlier
\* refresh is unfinished, the requests that share the sequencer go on the wire
\* one at a time, oldest first, for any number of requests.
THEOREM RequestsAreSequential == ~ RefreshOverlap => (Spec => []SequentialInvocation)
<1> SUFFICES ASSUME ~ RefreshOverlap PROVE Spec => []SequentialInvocation
  OBVIOUS
<1>1. Spec => [](IInv /\ SInv)
  BY SpecSInv
<1> QED
  BY <1>1, SInvImpliesSequential, PTL

-----------------------------------------------------------------------------
\* The refinement of SerialRequests, step by step.

Pending == IF Sequential \cap InFlight = {} THEN requestQueue ELSE Tail(requestQueue)
Running == Sequential \cap InFlight
Served  == {r \in Sequential : phase[r] = "finished"}

\* What the abstract queue is, as the oldest request is on the wire or not.
AbstractState ==
  /\ requestQueue # <<>> /\ phase[requestQueue[1]] = "inflight" =>
       Running = {requestQueue[1]} /\ Pending = Tail(requestQueue)
  /\ requestQueue = <<>> \/ phase[requestQueue[1]] = "queued" =>
       Running = {} /\ Pending = requestQueue

LEMMA StateMaps == IInv /\ SInv => AbstractState
<1> SUFFICES ASSUME IInv, SInv PROVE AbstractState
  OBVIOUS
<1>1. \A r \in Running : requestQueue # <<>> /\ requestQueue[1] = r /\ phase[r] = "inflight"
  BY InFlightIsHead DEF SInv, InFlight, Running
<1>2. requestQueue # <<>> => requestQueue[1] \in Sequential /\ requestQueue[1] \in Invokers
  <2>1. requestQueue # <<>> => 1 \in 1 .. Len(requestQueue)
    BY QueueFacts
  <2> QED
    BY <2>1, QueueFacts
<1>3. requestQueue # <<>> /\ phase[requestQueue[1]] = "inflight" => Running = {requestQueue[1]}
  BY <1>1, <1>2 DEF Running, InFlight
<1>4. requestQueue = <<>> \/ phase[requestQueue[1]] = "queued" => Running = {}
  BY <1>1
<1> QED
  BY <1>3, <1>4 DEF AbstractState, Pending, Running

LEMMA NextStateMaps == IInv' /\ SInv' => AbstractState'
BY StateMaps, PTL

\* A new request is handed over: to the wire, or to the end of the queue.
LEMMA QueueMaps ==
  ASSUME IInv, SInv, IInv', SInv', NEW r \in Sequential, phase[r] = "unborn", Queue(r)
  PROVE  Serial!Submit(r)
<1>0. TypeOK /\ r \in Invokers /\ Sequential \subseteq Invokers /\ AbstractState /\ AbstractState'
  BY StateMaps, NextStateMaps DEF IInv, Invokers
<1>1. r \notin Served \cup Running
  BY DEF Served, Running, InFlight
<1>2. \A i \in DOMAIN requestQueue : requestQueue[i] # r
  BY QueueFacts
<1>3. /\ phase'[r] \in {"queued", "inflight"}
      /\ \A s \in Invokers : s # r => phase'[s] = phase[s]
  BY <1>0 DEF Queue, TypeOK
<1>4. Served' = Served
  BY <1>0, <1>3 DEF Served
<1>5. CASE requestQueue = <<>>
  <2>1. requestQueue' = <<r>> /\ phase'[r] = "inflight"
    BY <1>0, <1>5 DEF Queue, TypeOK
  <2>2. Running = {} /\ Pending = <<>> /\ Running' = {r} /\ Pending' = <<>>
    BY <1>0, <1>5, <2>1 DEF AbstractState
  <2> QED
    BY <1>1, <1>4, <2>2 DEF Serial!Submit, Serial!Queued, Pending, Running, Served
<1>6. CASE requestQueue # <<>>
  <2>1. 1 \in 1 .. Len(requestQueue) /\ Len(requestQueue) \in Nat
    BY <1>6, QueueFacts
  <2>2. requestQueue' = Append(requestQueue, r) /\ requestQueue \in Seq(Sequential)
    BY <1>0 DEF Queue, TypeOK
  <2>3. requestQueue' # <<>> /\ requestQueue'[1] = requestQueue[1]
        /\ phase'[requestQueue'[1]] = phase[requestQueue[1]]
    <3>1. requestQueue' # <<>> /\ requestQueue'[1] = requestQueue[1]
      BY <2>1, <2>2
    <3>2. requestQueue[1] # r /\ requestQueue[1] \in Invokers
      BY <2>1, QueueFacts
    <3> QED
      BY <1>3, <3>1, <3>2
  <2>4. phase[requestQueue[1]] \in {"queued", "inflight"}
    BY <2>1, QueueFacts
  <2>5. Tail(Append(requestQueue, r)) = Append(Tail(requestQueue), r)
    BY <1>6, <2>1, <2>2
  <2>6. Running' = Running /\ Pending' = Append(Pending, r)
    BY <1>0, <1>6, <2>2, <2>3, <2>4, <2>5 DEF AbstractState
  <2>7. \A i \in DOMAIN Pending : Pending[i] # r
    <3>1. CASE phase[requestQueue[1]] = "queued"
      BY <1>0, <1>2, <3>1 DEF AbstractState
    <3>2. CASE phase[requestQueue[1]] = "inflight"
      <4>1. Pending = Tail(requestQueue)
        BY <1>0, <1>6, <3>2 DEF AbstractState
      <4>2. \A i \in DOMAIN Tail(requestQueue) :
              i + 1 \in DOMAIN requestQueue /\ Tail(requestQueue)[i] = requestQueue[i + 1]
        BY <1>6, <2>2
      <4> QED
        BY <1>2, <4>1, <4>2
    <3> QED
      BY <2>4, <3>1, <3>2
  <2> QED
    BY <1>1, <1>4, <2>6, <2>7 DEF Serial!Submit, Serial!Queued, Pending, Running, Served
<1> QED
  BY <1>5, <1>6

\* The request on the wire, the oldest one, emits finished.
LEMMA FinishMaps ==
  ASSUME IInv, SInv, IInv', SInv', requestQueue # <<>>,
         NEW r, r = requestQueue[1], phase[r] = "inflight",
         requestQueue' = RemoveOne(requestQueue, r),
         phase' = [phase EXCEPT ![r] = "finished"],
         UNCHANGED chained
  PROVE  Serial!Finish
<1>0. TypeOK /\ Sequential \subseteq Invokers /\ AbstractState /\ AbstractState'
  BY StateMaps, NextStateMaps DEF IInv, Invokers
<1>1. 1 \in 1 .. Len(requestQueue) /\ Len(requestQueue) \in Nat
  BY QueueFacts
<1>2. r \in Sequential /\ r \in Invokers
  BY <1>1, QueueFacts
<1>3. requestQueue' = Tail(requestQueue)
  <2>1. /\ Len(requestQueue') = Len(requestQueue) - 1
        /\ requestQueue' \in Seq(Sequential)
        /\ \A i \in 1 .. Len(requestQueue) - 1 : requestQueue'[i] = requestQueue[i + 1]
    BY HeadLeaves
  <2>2. /\ Len(Tail(requestQueue)) = Len(requestQueue) - 1
        /\ Tail(requestQueue) \in Seq(Sequential)
        /\ \A i \in 1 .. Len(requestQueue) - 1 : Tail(requestQueue)[i] = requestQueue[i + 1]
    BY <1>0, <1>1 DEF TypeOK
  <2> DEFINE q == requestQueue'
             t == Tail(requestQueue)
  <2>3. Len(q) = Len(t)
    BY <2>1, <2>2, Zenon
  <2>4. \A i \in 1 .. Len(requestQueue) - 1 : q[i] = requestQueue[i + 1]
    BY <2>1
  <2>5. \A i \in 1 .. Len(requestQueue) - 1 : t[i] = requestQueue[i + 1]
    BY <2>2
  <2>6. Len(q) = Len(requestQueue) - 1
    BY <2>1
  <2>7. q \in Seq(Sequential) /\ t \in Seq(Sequential)
    BY <2>1, <2>2, Zenon
  <2> HIDE DEF q, t
  <2>8. \A i \in 1 .. Len(q) : q[i] = t[i]
    BY <2>4, <2>5, <2>6
  <2>9. q = t
    BY <2>3, <2>7, <2>8, SeqEqual
  <2> QED
    BY <2>9 DEF q, t
<1>4. requestQueue' = <<>> \/ HeadWaits'
  BY HeadFinishes
<1>5. Running = {r} /\ Pending = Tail(requestQueue) /\ Running' = {} /\ Pending' = requestQueue'
  BY <1>0, <1>4 DEF AbstractState, HeadWaits
<1>6. Served' = Served \cup {r}
  BY <1>0, <1>2 DEF Served, TypeOK
<1> QED
  BY <1>3, <1>5, <1>6 DEF Serial!Finish, Pending, Running, Served

\* A queued lambda puts the oldest request on the wire.
LEMMA InvokeMaps ==
  ASSUME IInv, SInv, IInv', SInv', NEW r \in Invokers, RunInvoke(r)
  PROVE  Serial!Start
<1>0. TypeOK /\ AbstractState /\ AbstractState' /\ Sequential \subseteq Invokers
  BY StateMaps, NextStateMaps DEF IInv, Invokers
<1>1. requestQueue # <<>> /\ r = requestQueue[1] /\ phase[r] = "queued"
  BY InvokeAtHead DEF RunInvoke, SInv, HeadWaits
<1>2. /\ UNCHANGED requestQueue /\ phase'[r] = "inflight"
      /\ \A s \in Invokers : s # r => phase'[s] = phase[s]
  BY <1>0 DEF RunInvoke, TypeOK
<1>3. Running = {} /\ Pending = requestQueue
  BY <1>0, <1>1 DEF AbstractState
<1>4. Running' = {requestQueue[1]} /\ Pending' = Tail(requestQueue)
  BY <1>0, <1>1, <1>2 DEF AbstractState
<1>5. Served' = Served
  BY <1>0, <1>1, <1>2 DEF Served
<1>6. Head(requestQueue) = requestQueue[1]
  OBVIOUS
<1> QED
  BY <1>1, <1>3, <1>4, <1>5, <1>6 DEF Serial!Start, Pending, Running, Served

\* Every other step leaves the abstract queue alone.
LEMMA StutterMaps ==
  ASSUME UNCHANGED requestQueue, \A s \in Sequential : phase'[s] = phase[s]
  PROVE  UNCHANGED Serial!vars
<1>1. Running' = Running
  BY DEF Running, InFlight, Invokers
<1>2. Pending' = Pending
  BY <1>1 DEF Pending, Running
<1>3. Served' = Served
  BY DEF Served
<1> QED
  BY <1>1, <1>2, <1>3 DEF Serial!vars, Pending, Running, Served

LEMMA StepMaps ==
  ASSUME ~ RefreshOverlap, IInv, SInv, IInv', SInv', [Next]_vars
  PROVE  [Serial!Next]_(Serial!vars)
<1>0. TypeOK /\ Sequential \subseteq Invokers
  BY DEF IInv, Invokers
<1>1. ASSUME NEW r \in Http, Submit(r) PROVE Serial!Next
  <2>1. r \in Sequential /\ phase[r] = "unborn" /\ Queue(r)
    BY <1>1 DEF Submit, Sequential
  <2> QED
    BY <2>1, QueueMaps DEF Serial!Next
<1>2. ASSUME NEW r \in Refresh, SubmitRefresh(r) PROVE Serial!Next
  <2>1. r \in Sequential /\ phase[r] = "unborn" /\ Queue(r)
    BY <1>2 DEF SubmitRefresh, Sequential
  <2> QED
    BY <2>1, QueueMaps DEF Serial!Next
<1>3. ASSUME NEW r \in Parallel, SubmitParallel(r) PROVE UNCHANGED Serial!vars
  <2>1. r \notin Sequential
    BY InvokersAreDistinct DEF Sequential
  <2> QED
    BY <1>0, <1>3, <2>1, StutterMaps DEF SubmitParallel, TypeOK
<1>4. ASSUME NEW r \in Http, Reply(r) PROVE Serial!Next
  <2>1. r \in Sequential /\ phase[r] = "inflight" /\ OthersWait
    BY <1>4 DEF Reply, Sequential, SInv
  <2>2. requestQueue # <<>> /\ r = requestQueue[1]
    BY <2>1, InFlightIsHead
  <2>3. Serial!Finish
    BY <1>4, <2>1, <2>2, FinishMaps DEF Reply
  <2> QED
    BY <2>3 DEF Serial!Next
<1>5. ASSUME NEW r \in Parallel, Reply(r) PROVE UNCHANGED Serial!vars
  <2>1. r \notin Sequential /\ r \in Invokers
    BY InvokersAreDistinct DEF Sequential, Invokers
  <2>2. r \notin Range(requestQueue) /\ requestQueue \in Seq(Sequential)
    BY <1>0, <2>1 DEF IInv, TypeOK, QueueIsUnfinished
  <2>3. UNCHANGED requestQueue
    BY <1>5, <2>2, RemoveOneAbsent DEF Reply
  <2>4. \A s \in Sequential : phase'[s] = phase[s]
    BY <1>0, <1>5, <2>1 DEF Reply, TypeOK
  <2> QED
    BY <2>3, <2>4, StutterMaps
<1>6. CASE RefreshReply
  BY <1>6, StutterMaps DEF RefreshReply
<1>7. ASSUME NEW r \in Invokers, RunSlot(r) PROVE Serial!Next
  <2>1. requestQueue # <<>> /\ r = requestQueue[1] /\ phase[r] = "inflight"
    BY <1>7, SlotAtHead DEF RunSlot, SInv, HeadOnWire
  <2>2. Serial!Finish
    BY <1>7, <2>1, FinishMaps DEF RunSlot
  <2> QED
    BY <2>2 DEF Serial!Next
<1>8. ASSUME NEW r \in Invokers, RunInvoke(r) PROVE Serial!Next
  BY <1>8, InvokeMaps DEF Serial!Next
<1>9. ASSUME NEW r \in Invokers, RunHandler(r) PROVE UNCHANGED Serial!vars
  BY <1>9, StutterMaps DEF RunHandler
<1>10. CASE UNCHANGED vars
  BY <1>10, StutterMaps DEF vars
<1> QED
  BY <1>1, <1>2, <1>3, <1>4, <1>5, <1>6, <1>7, <1>8, <1>9, <1>10, NoDangling
     DEF Next, RunCallback

LEMMA InitMaps == Init => Serial!Init
BY DEF Init, Serial!Init, Sequential, Invokers, InFlight

\* The chain of signals behaves like a queue that serves one request after the
\* other: whatever happens is something SerialRequests allows, for any number of
\* requests, as long as refreshes do not overlap.
THEOREM ChainIsSerialQueue == ~ RefreshOverlap => (Spec => Serial!Safety)
<1> SUFFICES ASSUME ~ RefreshOverlap PROVE Spec => Serial!Safety
  OBVIOUS
<1>1. Spec => [](IInv /\ SInv)
  BY SpecSInv
<1>2. IInv /\ SInv /\ IInv' /\ SInv' /\ [Next]_vars => [Serial!Next]_(Serial!vars)
  BY StepMaps
<1> QED
  BY <1>1, <1>2, InitMaps, PTL DEF Spec, Serial!Safety

-----------------------------------------------------------------------------
\* InvokedOnce, with refreshes that overlap: several invokers may then be on the
\* wire, and lambdas dangle, but no lambda is connected or called twice.

\* A lambda is connected to one `finished' signal, once.
ChainedOnce ==
  \A p, q \in Invokers : \A i \in DOMAIN chained[p], j \in DOMAIN chained[q] :
    chained[p][i] = chained[q][j] => p = q /\ i = j

\* A lambda that is about to run was connected to a signal that is emitted by now.
EmittedBefore ==
  \A n, p \in Invokers :
    InvokeOf(n) \in Range(agenda) /\ n \in Range(chained[p]) => phase[p] = "finished"

UnbornUnchained == \A r \in Invokers : phase[r] = "unborn" => chained[r] = <<>>

\* Who listens to refreshFinished is not finished, and is called back once.
ListenersWait ==
  /\ Distinct(listeners)
  /\ \A r \in Range(listeners) : phase[r] \in {"queued", "inflight"}
  /\ \A r \in Invokers : SlotOf(r) \in Range(agenda) =>
       r \in Refresh /\ phase[r] \in {"queued", "inflight"} /\ listeners = <<>>

OInv ==
  /\ ChainedOnce
  /\ Distinct(agenda)
  /\ EmittedBefore
  /\ UnbornUnchained
  /\ ListenersWait
  /\ InvokedOnce

LEMMA InitOInv == Init => OInv
<1> SUFFICES ASSUME Init PROVE OInv
  OBVIOUS
<1>1. agenda = <<>> /\ listeners = <<>> /\ \A r \in Invokers : chained[r] = <<>> /\ phase[r] = "unborn"
  BY DEF Init
<1>2. ChainedOnce /\ UnbornUnchained
  BY <1>1 DEF ChainedOnce, UnbornUnchained
<1>3. Distinct(agenda) /\ ListenersWait
  BY <1>1, RangeEmpty DEF Distinct, ListenersWait
<1>4. EmittedBefore
  BY <1>1, RangeEmpty DEF EmittedBefore
<1>5. InvokedOnce
  <2>1. Http \subseteq Invokers
    BY DEF Invokers, Sequential
  <2> QED
    BY <1>1, <2>1 DEF InvokedOnce
<1> QED
  BY <1>2, <1>3, <1>4, <1>5 DEF OInv

LEMMA ConcatDistinct ==
  ASSUME NEW S, NEW s \in Seq(S), NEW t \in Seq(S), Distinct(s), Distinct(t),
         Range(s) \cap Range(t) = {}
  PROVE  Distinct(s \o t)
<1> DEFINE u == s \o t
<1>1. /\ Len(s) \in Nat /\ Len(t) \in Nat /\ DOMAIN s = 1 .. Len(s) /\ DOMAIN t = 1 .. Len(t)
      /\ DOMAIN u = 1 .. Len(s) + Len(t)
      /\ \A i \in 1 .. Len(s) + Len(t) : u[i] = IF i <= Len(s) THEN s[i] ELSE t[i - Len(s)]
  BY ConcatProperties, LenProperties
<1> HIDE DEF u
<1>2. \A i \in 1 .. Len(s), j \in 1 .. Len(t) : s[i] # t[j]
  BY <1>1 DEF Range
<1>3. ASSUME NEW i \in DOMAIN u, NEW j \in DOMAIN u, u[i] = u[j]
      PROVE  i = j
  <2>1. CASE i <= Len(s) /\ j <= Len(s)
    BY <1>1, <1>3, <2>1 DEF Distinct
  <2>2. CASE i > Len(s) /\ j > Len(s)
    <3>1. i - Len(s) \in DOMAIN t /\ j - Len(s) \in DOMAIN t /\ t[i - Len(s)] = t[j - Len(s)]
      BY <1>1, <1>3, <2>2
    <3>2. i - Len(s) = j - Len(s)
      BY <3>1 DEF Distinct
    <3> QED
      BY <1>1, <3>2
  <2>3. CASE i <= Len(s) /\ j > Len(s)
    <3>1. i \in 1 .. Len(s) /\ j - Len(s) \in 1 .. Len(t) /\ s[i] = t[j - Len(s)]
      BY <1>1, <1>3, <2>3
    <3> QED
      BY <1>2, <3>1
  <2>4. CASE i > Len(s) /\ j <= Len(s)
    <3>1. j \in 1 .. Len(s) /\ i - Len(s) \in 1 .. Len(t) /\ s[j] = t[i - Len(s)]
      BY <1>1, <1>3, <2>4
    <3> QED
      BY <1>2, <3>1
  <2> QED
    BY <1>1, <2>1, <2>2, <2>3, <2>4
<1> QED
  BY <1>3 DEF u, Distinct

LEMMA TailDistinct ==
  ASSUME NEW S, NEW s \in Seq(S), s # <<>>, Distinct(s)
  PROVE  Distinct(Tail(s)) /\ Head(s) \notin Range(Tail(s))
<1> DEFINE t == Tail(s)
<1>1. /\ Head(s) = s[1] /\ Len(s) \in Nat /\ Len(s) > 0
      /\ DOMAIN s = 1 .. Len(s) /\ DOMAIN t = 1 .. Len(s) - 1
      /\ \A i \in 1 .. Len(s) - 1 : t[i] = s[i + 1]
  BY HeadTailProperties, EmptySeq, LenProperties
<1> HIDE DEF t
<1>2. ASSUME NEW i \in DOMAIN t, NEW j \in DOMAIN t, t[i] = t[j]
      PROVE  i = j
  <2>1. i + 1 \in DOMAIN s /\ j + 1 \in DOMAIN s /\ s[i + 1] = s[j + 1]
    BY <1>1, <1>2
  <2>2. i + 1 = j + 1
    BY <2>1 DEF Distinct
  <2> QED
    BY <1>1, <2>2
<1>3. ASSUME NEW i \in DOMAIN t PROVE t[i] # s[1]
  <2>1. i + 1 \in DOMAIN s /\ 1 \in DOMAIN s /\ i + 1 # 1 /\ t[i] = s[i + 1]
    BY <1>1
  <2> QED
    BY <2>1 DEF Distinct
<1> QED
  BY <1>1, <1>2, <1>3 DEF t, Distinct, Range

LEMMA FollowersDistinct ==
  ASSUME TypeOK, ChainedOnce, NEW r \in Invokers
  PROVE  Distinct(Followers(r))
<1>1. DOMAIN Followers(r) = DOMAIN chained[r]
      /\ \A i \in DOMAIN chained[r] : Followers(r)[i] = InvokeOf(chained[r][i])
  BY DEF Followers
<1> QED
  BY <1>1, CallbackKinds DEF Distinct, ChainedOnce

\* Queue(r) connects the lambda of r, which was nowhere, to an unfinished invoker.
LEMMA QueueStepOInv ==
  ASSUME IInv, OInv, NEW r \in Sequential, phase[r] = "unborn", Queue(r),
         UNCHANGED agenda,
         \/ UNCHANGED listeners
         \/ r \in Refresh /\ Idle /\ listeners' = Append(listeners, r)
  PROVE  OInv'
<1>0. TypeOK /\ ChainedAreBorn /\ QueueIsUnfinished
  BY DEF IInv
<1>1. r \in Invokers /\ Sequential \subseteq Invokers /\ Http \subseteq Invokers /\ Refresh \subseteq Invokers
  BY DEF Invokers, Sequential
<1>2. /\ phase' \in [Invokers -> Phases] /\ phase'[r] \in {"queued", "inflight"}
      /\ \A s \in Invokers : s # r => phase'[s] = phase[s]
      /\ phase'[r] = "inflight" => chained' = chained
  <2>0. phase \in [Invokers -> Phases]
    BY <1>0 DEF TypeOK
  <2>1. CASE requestQueue = <<>>
    <3>1. phase' = [phase EXCEPT ![r] = "inflight"] /\ chained' = chained
      BY <2>1 DEF Queue
    <3> QED
      BY <1>1, <2>0, <3>1 DEF Phases
  <2>2. CASE requestQueue # <<>>
    <3>1. phase' = [phase EXCEPT ![r] = "queued"]
      BY <2>2 DEF Queue
    <3> QED
      BY <1>1, <2>0, <3>1 DEF Phases
  <2> QED
    BY <2>1, <2>2
<1>3. \A p \in Invokers : r \notin Range(chained[p])
  BY <1>0 DEF ChainedAreBorn
<1>4. InvokeOf(r) \notin Range(agenda)
  BY <1>0, <1>1 DEF ChainedAreBorn
<1>5. \A p \in Invokers : /\ chained[p] \in Seq(Sequential) /\ Len(chained[p]) \in Nat
                          /\ DOMAIN chained[p] = 1 .. Len(chained[p])
  BY <1>0, LenProperties DEF TypeOK
<1>6. \/ chained' = chained
      \/ \E l \in Invokers :
           /\ phase[l] \in {"queued", "inflight"}
           /\ chained' = [chained EXCEPT ![l] = Append(chained[l], r)]
  <2>1. CASE requestQueue = <<>>
    BY <2>1 DEF Queue
  <2>2. CASE requestQueue # <<>>
    <3> DEFINE l == requestQueue[Len(requestQueue)]
    <3>1. Len(requestQueue) \in 1 .. Len(requestQueue)
      BY <2>2, QueueFacts
    <3>2. l \in Invokers /\ phase[l] \in {"queued", "inflight"}
      BY <3>1, QueueFacts
    <3>3. chained' = [chained EXCEPT ![l] = Append(chained[l], r)]
      BY <2>2 DEF Queue
    <3> QED
      BY <3>2, <3>3
  <2> QED
    BY <2>1, <2>2
<1>7. PICK l \in Invokers :
        \A p \in Invokers :
          /\ \A i \in DOMAIN chained'[p] :
               \/ i \in DOMAIN chained[p] /\ chained'[p][i] = chained[p][i]
               \/ p = l /\ i = Len(chained[p]) + 1 /\ chained'[p][i] = r
          /\ p # l => chained'[p] = chained[p]
          /\ p = l => chained'[p] = chained[p] \/ phase[p] \in {"queued", "inflight"}
  <2>1. CASE chained' = chained
    BY <1>1, <2>1
  <2>2. ASSUME NEW l \in Invokers, phase[l] \in {"queued", "inflight"},
               chained' = [chained EXCEPT ![l] = Append(chained[l], r)]
        PROVE  \A p \in Invokers :
                 /\ \A i \in DOMAIN chained'[p] :
                      \/ i \in DOMAIN chained[p] /\ chained'[p][i] = chained[p][i]
                      \/ p = l /\ i = Len(chained[p]) + 1 /\ chained'[p][i] = r
                 /\ p # l => chained'[p] = chained[p]
                 /\ p = l => phase[p] \in {"queued", "inflight"}
    <3>1. /\ chained'[l] = Append(chained[l], r)
          /\ \A p \in Invokers : p # l => chained'[p] = chained[p]
      BY <1>0, <2>2 DEF TypeOK
    <3>2. /\ DOMAIN Append(chained[l], r) = 1 .. Len(chained[l]) + 1
          /\ Append(chained[l], r)[Len(chained[l]) + 1] = r
          /\ \A i \in 1 .. Len(chained[l]) : Append(chained[l], r)[i] = chained[l][i]
      BY <1>5, AppendProperties
    <3>3. \A i \in DOMAIN chained'[l] :
            \/ i \in DOMAIN chained[l] /\ chained'[l][i] = chained[l][i]
            \/ i = Len(chained[l]) + 1 /\ chained'[l][i] = r
      BY <1>5, <3>1, <3>2
    <3> QED
      BY <2>2, <3>1, <3>3
  <2> QED
    BY <1>6, <2>1, <2>2
<1>8. ChainedOnce'
  <2> SUFFICES ASSUME NEW p \in Invokers, NEW q \in Invokers,
                      NEW i \in DOMAIN chained'[p], NEW j \in DOMAIN chained'[q],
                      chained'[p][i] = chained'[q][j]
               PROVE  p = q /\ i = j
    BY DEF ChainedOnce
  <2>1. \A s \in Invokers : \A k : k \in DOMAIN chained[s] => chained[s][k] # r
    BY <1>3 DEF Range
  <2> QED
    BY <1>7, <2>1 DEF OInv, ChainedOnce
<1>9. \A p \in Invokers : \A n : n # r /\ n \in Range(chained'[p]) => n \in Range(chained[p])
  BY <1>7 DEF Range
<1>10. EmittedBefore'
  <2> SUFFICES ASSUME NEW n \in Invokers, NEW p \in Invokers,
                      InvokeOf(n) \in Range(agenda), n \in Range(chained'[p])
               PROVE  phase'[p] = "finished"
    BY DEF EmittedBefore, InvokeOf
  <2>1. n # r
    BY <1>4
  <2>2. phase[p] = "finished"
    BY <1>9, <2>1 DEF OInv, EmittedBefore
  <2> QED
    BY <1>2, <2>2
<1>11. UnbornUnchained'
  <2> SUFFICES ASSUME NEW p \in Invokers, phase'[p] = "unborn" PROVE chained'[p] = <<>>
    BY DEF UnbornUnchained
  <2> QED
    BY <1>2, <1>7 DEF OInv, UnbornUnchained
<1>12. ListenersWait'
  <2>1. \A s \in Range(listeners) : s # r /\ s \in Invokers
    <3>1. \A s \in Range(listeners) : s # r
      BY DEF OInv, ListenersWait
    <3>2. Range(listeners) \subseteq Refresh
      BY <1>0 DEF TypeOK, Range
    <3> QED
      BY <1>1, <3>1, <3>2
  <2>2. \A s \in Invokers : SlotOf(s) \in Range(agenda) =>
          s \in Refresh /\ s # r /\ phase[s] \in {"queued", "inflight"} /\ listeners = <<>>
    BY DEF OInv, ListenersWait
  <2>3. CASE UNCHANGED listeners
    <3>1. \A s \in Range(listeners) : phase'[s] \in {"queued", "inflight"}
      BY <1>2, <2>1 DEF OInv, ListenersWait
    <3> QED
      BY <1>2, <2>2, <2>3, <3>1 DEF OInv, ListenersWait, SlotOf
  <2>4. CASE r \in Refresh /\ Idle /\ listeners' = Append(listeners, r)
    <3>1. Range(listeners') = Range(listeners) \cup {r} /\ Distinct(listeners')
      BY <1>0, <2>1, <2>4, RangeAppend DEF TypeOK, OInv, ListenersWait
    <3>2. \A s \in Range(listeners') : phase'[s] \in {"queued", "inflight"}
      BY <1>2, <2>1, <3>1 DEF OInv, ListenersWait
    <3>3. Range(agenda') = {}
      BY <2>4, RangeEmpty DEF Idle
    <3> QED
      BY <3>1, <3>2, <3>3 DEF ListenersWait, SlotOf
  <2> QED
    BY <2>3, <2>4
<1>13. InvokedOnce'
  <2> SUFFICES ASSUME NEW n \in Http, phase'[n] \in {"inflight", "finished"}
               PROVE  /\ InvokeOf(n) \notin Range(agenda)
                      /\ \A p \in Unfinished' : n \notin Range(chained'[p])
    BY DEF InvokedOnce, InvokeOf
  <2>1. CASE n = r
    BY <1>2, <1>3, <1>4, <2>1 DEF Unfinished
  <2>2. CASE n # r
    <3>1. phase[n] \in {"inflight", "finished"}
      BY <1>1, <1>2, <2>2
    <3>2. InvokeOf(n) \notin Range(agenda) /\ \A p \in Unfinished : n \notin Range(chained[p])
      BY <3>1 DEF OInv, InvokedOnce
    <3>3. n \notin Range(chained[r])
      BY <1>1, RangeEmpty DEF OInv, UnbornUnchained
    <3> QED
      BY <1>2, <1>9, <2>2, <3>2, <3>3 DEF Unfinished
  <2> QED
    BY <2>1, <2>2
<1> QED
  BY <1>8, <1>10, <1>11, <1>12, <1>13 DEF OInv

\* An invoker emits finished: what was chained to it gets on the agenda.
LEMMA FinishOInv ==
  ASSUME IInv, OInv, NEW r \in Invokers, phase[r] \in {"queued", "inflight"},
         r \in Http => phase[r] = "inflight",
         r \notin Range(listeners),
         phase' = [phase EXCEPT ![r] = "finished"],
         UNCHANGED <<chained, listeners>>,
         Distinct(agenda'),
         \A n \in Invokers : InvokeOf(n) \in Range(agenda')
            => InvokeOf(n) \in Range(agenda) \/ n \in Range(chained[r]),
         \A s \in Invokers : SlotOf(s) \in Range(agenda') => SlotOf(s) \in Range(agenda) /\ s # r
  PROVE  OInv'
<1>0. TypeOK /\ Http \subseteq Invokers /\ Refresh \subseteq Invokers
  BY DEF IInv, Invokers, Sequential
<1>1. /\ phase'[r] = "finished" /\ r \in Unfinished
      /\ \A s \in Invokers : s # r => phase'[s] = phase[s]
  BY <1>0 DEF TypeOK, Unfinished
<1>2. ChainedOnce' /\ Distinct(agenda')
  BY DEF OInv, ChainedOnce
<1>3. EmittedBefore'
  <2> SUFFICES ASSUME NEW n \in Invokers, NEW p \in Invokers,
                      InvokeOf(n) \in Range(agenda'), n \in Range(chained[p])
               PROVE  phase'[p] = "finished"
    BY DEF EmittedBefore, InvokeOf
  <2>1. CASE InvokeOf(n) \in Range(agenda)
    BY <1>1, <2>1 DEF OInv, EmittedBefore
  <2>2. CASE n \in Range(chained[r])
    <3>1. p = r
      BY <2>2 DEF OInv, ChainedOnce, Range
    <3> QED
      BY <1>1, <3>1
  <2> QED
    BY <2>1, <2>2
<1>4. UnbornUnchained'
  BY <1>1 DEF OInv, UnbornUnchained
<1>5. ListenersWait'
  <2>1. Range(listeners) \subseteq Refresh
    BY <1>0 DEF TypeOK, Range
  <2>2. \A s \in Range(listeners) : phase'[s] \in {"queued", "inflight"}
    BY <1>0, <1>1, <2>1 DEF OInv, ListenersWait
  <2>3. \A s \in Invokers : SlotOf(s) \in Range(agenda') =>
          s \in Refresh /\ phase'[s] \in {"queued", "inflight"} /\ listeners = <<>>
    BY <1>1 DEF OInv, ListenersWait
  <2> QED
    BY <2>2, <2>3 DEF OInv, ListenersWait, SlotOf
<1>6. InvokedOnce'
  <2> SUFFICES ASSUME NEW n \in Http, phase'[n] \in {"inflight", "finished"}
               PROVE  /\ InvokeOf(n) \notin Range(agenda')
                      /\ \A p \in Unfinished' : n \notin Range(chained[p])
    BY DEF InvokedOnce, InvokeOf
  <2>1. phase[n] \in {"inflight", "finished"}
    BY <1>0, <1>1
  <2>2. InvokeOf(n) \notin Range(agenda) /\ \A p \in Unfinished : n \notin Range(chained[p])
    BY <2>1 DEF OInv, InvokedOnce
  <2>3. Unfinished' \subseteq Unfinished
    BY <1>1 DEF Unfinished
  <2> QED
    BY <1>0, <1>1, <2>2, <2>3
<1> QED
  BY <1>2, <1>3, <1>4, <1>5, <1>6 DEF OInv

LEMMA ReplyOInv ==
  ASSUME IInv, OInv, NEW r \in Http \cup Parallel, Reply(r)
  PROVE  OInv'
<1>0. TypeOK /\ r \in Invokers /\ r \notin Refresh
  BY InvokersAreDistinct DEF IInv, Invokers, Sequential
<1>1. /\ agenda = <<>> /\ phase[r] = "inflight"
      /\ phase' = [phase EXCEPT ![r] = "finished"]
      /\ agenda' = <<HandlerOf(r)>> \o Followers(r)
      /\ UNCHANGED <<chained, listeners, refreshing, crashed>>
  BY DEF Reply, Idle
<1>2. Followers(r) \in Seq(Callbacks) /\ Range(Followers(r)) = {InvokeOf(n) : n \in Range(chained[r])}
  BY <1>0, FollowersProperties
<1>3. <<HandlerOf(r)>> \in Seq(Callbacks) /\ Range(<<HandlerOf(r)>>) = {HandlerOf(r)}
  <2>1. HandlerOf(r) \in Callbacks
    BY <1>0 DEF HandlerOf, Callbacks
  <2> QED
    BY <2>1 DEF Range
<1>4. Distinct(<<HandlerOf(r)>>) /\ Distinct(Followers(r))
  BY <1>0, FollowersDistinct DEF Distinct, OInv
<1>5. Range(<<HandlerOf(r)>>) \cap Range(Followers(r)) = {}
  BY <1>2, <1>3, CallbackKinds
<1>6. /\ Distinct(agenda')
      /\ Range(agenda') = {HandlerOf(r)} \cup {InvokeOf(n) : n \in Range(chained[r])}
  <2>1. Distinct(<<HandlerOf(r)>> \o Followers(r))
    BY <1>2, <1>3, <1>4, <1>5, ConcatDistinct
  <2>2. Range(<<HandlerOf(r)>> \o Followers(r)) = Range(<<HandlerOf(r)>>) \cup Range(Followers(r))
    <3> DEFINE h == <<HandlerOf(r)>>
               t == Followers(r)
    <3>1. h \in Seq(Callbacks) /\ t \in Seq(Callbacks)
      BY <1>2, <1>3
    <3> HIDE DEF h, t
    <3>2. Range(h \o t) = Range(h) \cup Range(t)
      BY <3>1, RangeCat
    <3> QED
      BY <3>2 DEF h, t
  <2> QED
    BY <1>1, <1>2, <1>3, <2>1, <2>2
<1>7. \A n \in Invokers : InvokeOf(n) \in Range(agenda') => n \in Range(chained[r])
  BY <1>6, KindsDiffer
<1>8. \A s \in Invokers : SlotOf(s) \notin Range(agenda')
  BY <1>6, KindsDiffer
<1>9. r \notin Range(listeners)
  BY <1>0 DEF TypeOK, Range
<1> QED
  BY <1>0, <1>1, <1>6, <1>7, <1>8, <1>9, FinishOInv

LEMMA RunSlotOInv ==
  ASSUME IInv, OInv, NEW r \in Invokers, RunSlot(r)
  PROVE  OInv'
<1>0. TypeOK /\ ChainedAreBorn
  BY DEF IInv
<1>1. /\ phase' = [phase EXCEPT ![r] = "finished"]
      /\ agenda' = Followers(r) \o Tail(agenda)
      /\ UNCHANGED <<chained, listeners, refreshing, crashed>>
      /\ agenda # <<>> /\ Head(agenda) = SlotOf(r)
  BY DEF RunSlot, Doing
<1>2. Followers(r) \in Seq(Callbacks) /\ Range(Followers(r)) = {InvokeOf(n) : n \in Range(chained[r])}
  BY <1>0, FollowersProperties
<1>3. /\ Tail(agenda) \in Seq(Callbacks) /\ Range(agenda) = {SlotOf(r)} \cup Range(Tail(agenda))
      /\ Distinct(Tail(agenda)) /\ SlotOf(r) \notin Range(Tail(agenda))
  BY <1>0, <1>1, PopAgenda, TailDistinct DEF RunSlot, OInv, TypeOK
<1>4. r \in Refresh /\ phase[r] \in {"queued", "inflight"} /\ listeners = <<>>
  BY <1>3 DEF OInv, ListenersWait
<1>5. Range(Followers(r)) \cap Range(Tail(agenda)) = {}
  <2> SUFFICES ASSUME NEW n \in Range(chained[r]), InvokeOf(n) \in Range(Tail(agenda))
               PROVE  FALSE
    BY <1>2
  <2>1. n \in Invokers
    BY <1>0 DEF TypeOK, Range, Invokers
  <2>2. phase[r] = "finished"
    BY <1>3, <2>1 DEF OInv, EmittedBefore
  <2> QED
    BY <1>4, <2>2
<1>6. Distinct(Followers(r))
  BY <1>0, FollowersDistinct DEF OInv
<1>7. /\ Distinct(agenda')
      /\ Range(agenda') = {InvokeOf(n) : n \in Range(chained[r])} \cup Range(Tail(agenda))
  <2>1. Distinct(Followers(r) \o Tail(agenda))
    BY <1>2, <1>3, <1>5, <1>6, ConcatDistinct
  <2>2. Range(Followers(r) \o Tail(agenda)) = Range(Followers(r)) \cup Range(Tail(agenda))
    <3> DEFINE f == Followers(r)
               t == Tail(agenda)
    <3>1. f \in Seq(Callbacks) /\ t \in Seq(Callbacks)
      BY <1>2, <1>3
    <3> HIDE DEF f, t
    <3>2. Range(f \o t) = Range(f) \cup Range(t)
      BY <3>1, RangeCat
    <3> QED
      BY <3>2 DEF f, t
  <2> QED
    BY <1>1, <1>2, <2>1, <2>2
<1>8. \A n \in Invokers : InvokeOf(n) \in Range(agenda')
        => InvokeOf(n) \in Range(agenda) \/ n \in Range(chained[r])
  BY <1>3, <1>7, KindsDiffer
<1>9. \A s \in Invokers : SlotOf(s) \in Range(agenda') => SlotOf(s) \in Range(agenda) /\ s # r
  BY <1>3, <1>7, KindsDiffer
<1>10. r \notin Http /\ r \notin Range(listeners)
  BY <1>4, RangeEmpty, InvokersAreDistinct
<1> QED
  BY <1>1, <1>4, <1>7, <1>8, <1>9, <1>10, FinishOInv

\* The steps that leave phase, chained and the listeners and take at most
\* lambdas and slots off the agenda.
LEMMA PopOInv ==
  ASSUME OInv, UNCHANGED <<phase, chained, listeners>>, Distinct(agenda'),
         \A c : c \in Range(agenda') => c \in Range(agenda)
  PROVE  OInv'
<1>1. ChainedOnce' /\ UnbornUnchained'
  BY DEF OInv, ChainedOnce, UnbornUnchained
<1>2. EmittedBefore'
  BY DEF OInv, EmittedBefore, InvokeOf
<1>3. ListenersWait'
  BY DEF OInv, ListenersWait, SlotOf
<1>4. InvokedOnce'
  BY DEF OInv, InvokedOnce, InvokeOf, Unfinished
<1> QED
  BY <1>1, <1>2, <1>3, <1>4 DEF OInv

LEMMA RunOtherOInv ==
  ASSUME IInv, OInv, NEW r \in Invokers, RunDangling(r) \/ RunHandler(r)
  PROVE  OInv'
<1>1. agenda' = Tail(agenda) /\ agenda # <<>> /\ UNCHANGED <<phase, chained, listeners>>
  BY DEF RunDangling, RunHandler, Doing
<1>2. agenda \in Seq(Callbacks) /\ Distinct(agenda)
  BY DEF IInv, TypeOK, OInv
<1>3. Distinct(agenda') /\ Range(agenda') \subseteq Range(agenda)
  BY <1>1, <1>2, TailDistinct, RangeTail
<1> QED
  BY <1>1, <1>3, PopOInv

LEMMA RunInvokeOInv ==
  ASSUME IInv, OInv, NEW r \in Invokers, RunInvoke(r)
  PROVE  OInv'
<1>0. TypeOK /\ ChainedAreBorn /\ Http \subseteq Invokers /\ Refresh \subseteq Invokers
  BY DEF IInv, Invokers, Sequential
<1>1. /\ phase' = [phase EXCEPT ![r] = "inflight"] /\ phase[r] # "finished"
      /\ agenda' = Tail(agenda) /\ agenda # <<>> /\ Head(agenda) = InvokeOf(r)
      /\ UNCHANGED <<chained, listeners>>
  BY DEF RunInvoke, Doing
<1>2. /\ Range(agenda) = {InvokeOf(r)} \cup Range(agenda')
      /\ Distinct(agenda') /\ InvokeOf(r) \notin Range(agenda')
  BY <1>0, <1>1, RangeTail, TailDistinct DEF TypeOK, OInv
<1>3. phase[r] \in {"queued", "inflight"}
  BY <1>0, <1>1, <1>2 DEF ChainedAreBorn, TypeOK, Phases
<1>4. phase'[r] = "inflight" /\ \A s \in Invokers : s # r => phase'[s] = phase[s]
  BY <1>0, <1>1 DEF TypeOK
<1>5. ChainedOnce'
  BY <1>1 DEF OInv, ChainedOnce
<1>6. EmittedBefore'
  <2> SUFFICES ASSUME NEW n \in Invokers, NEW p \in Invokers,
                      InvokeOf(n) \in Range(agenda'), n \in Range(chained[p])
               PROVE  phase'[p] = "finished"
    BY <1>1 DEF EmittedBefore, InvokeOf
  <2>1. phase[p] = "finished"
    BY <1>2 DEF OInv, EmittedBefore
  <2> QED
    BY <1>1, <1>4, <2>1
<1>7. UnbornUnchained'
  BY <1>1, <1>4 DEF OInv, UnbornUnchained
<1>8. ListenersWait'
  <2>1. Range(listeners) \subseteq Refresh
    BY <1>0 DEF TypeOK, Range
  <2>2. \A s \in Range(listeners) : phase'[s] \in {"queued", "inflight"}
    BY <1>0, <1>4, <2>1 DEF OInv, ListenersWait
  <2>3. \A s \in Invokers : SlotOf(s) \in Range(agenda') =>
          s \in Refresh /\ phase'[s] \in {"queued", "inflight"} /\ listeners = <<>>
    BY <1>2, <1>4 DEF OInv, ListenersWait
  <2> QED
    BY <1>1, <2>2, <2>3 DEF OInv, ListenersWait, SlotOf
<1>9. InvokedOnce'
  <2> SUFFICES ASSUME NEW n \in Http, phase'[n] \in {"inflight", "finished"}
               PROVE  /\ InvokeOf(n) \notin Range(agenda')
                      /\ \A p \in Unfinished' : n \notin Range(chained[p])
    BY <1>1 DEF InvokedOnce, InvokeOf
  <2>1. Unfinished' = Unfinished
    BY <1>3, <1>4 DEF Unfinished
  <2>2. CASE n = r
    <3>1. \A p \in Unfinished : phase[p] # "finished" /\ p \in Invokers
      BY DEF Unfinished
    <3> QED
      BY <1>2, <2>1, <2>2, <3>1 DEF OInv, EmittedBefore
  <2>3. CASE n # r
    <3>1. phase[n] \in {"inflight", "finished"}
      BY <1>0, <1>4, <2>3
    <3> QED
      BY <1>2, <2>1, <3>1 DEF OInv, InvokedOnce
  <2> QED
    BY <2>2, <2>3
<1> QED
  BY <1>2, <1>5, <1>6, <1>7, <1>8, <1>9 DEF OInv

\* refreshFinished: every listener, each of them once, will be called back.
LEMMA RefreshReplyOInv ==
  ASSUME IInv, OInv, RefreshReply
  PROVE  OInv'
<1>0. TypeOK /\ Refresh \subseteq Invokers
  BY DEF IInv, Invokers, Sequential
<1>1. /\ agenda = <<>> /\ listeners' = <<>>
      /\ agenda' = [i \in DOMAIN listeners |-> SlotOf(listeners[i])]
      /\ UNCHANGED <<phase, chained>>
  BY DEF RefreshReply, Idle
<1>2. /\ DOMAIN agenda' = DOMAIN listeners
      /\ \A i \in DOMAIN listeners : agenda'[i] = SlotOf(listeners[i])
  BY <1>1
<1>3. Range(listeners) \subseteq Refresh
  BY <1>0 DEF TypeOK, Range
<1>4. Distinct(agenda')
  <2>1. Distinct(listeners)
    BY DEF OInv, ListenersWait
  <2> SUFFICES ASSUME NEW i \in DOMAIN listeners, NEW j \in DOMAIN listeners,
                      SlotOf(listeners[i]) = SlotOf(listeners[j])
               PROVE  i = j
    BY <1>2 DEF Distinct
  <2>2. listeners[i] = listeners[j]
    BY DEF SlotOf
  <2> QED
    BY <2>1, <2>2 DEF Distinct
<1>5. \A c \in Range(agenda') : \E s \in Range(listeners) : c = SlotOf(s)
  BY <1>2 DEF Range
<1>6. \A n : InvokeOf(n) \notin Range(agenda')
  BY <1>5, KindsDiffer
<1>7. ChainedOnce' /\ UnbornUnchained'
  BY <1>1 DEF OInv, ChainedOnce, UnbornUnchained
<1>8. EmittedBefore'
  BY <1>6 DEF EmittedBefore, InvokeOf
<1>9. ListenersWait'
  <2>1. Distinct(listeners') /\ Range(listeners') = {}
    BY <1>1, RangeEmpty DEF Distinct
  <2>2. \A s : SlotOf(s) \in Range(agenda') => s \in Range(listeners)
    BY <1>5, KindsDiffer
  <2>3. \A s \in Range(listeners) : s \in Refresh /\ phase'[s] \in {"queued", "inflight"}
    BY <1>1, <1>3 DEF OInv, ListenersWait
  <2> QED
    BY <1>1, <2>1, <2>2, <2>3 DEF ListenersWait, SlotOf
<1>10. InvokedOnce'
  BY <1>1, <1>6 DEF OInv, InvokedOnce, InvokeOf, Unfinished
<1> QED
  BY <1>4, <1>7, <1>8, <1>9, <1>10 DEF OInv

LEMMA SubmitParallelOInv ==
  ASSUME IInv, OInv, NEW r \in Parallel, SubmitParallel(r)
  PROVE  OInv'
<1>0. TypeOK /\ r \in Invokers /\ r \notin Http /\ r \notin Refresh
      /\ Http \subseteq Invokers /\ Refresh \subseteq Invokers
  BY InvokersAreDistinct DEF IInv, Invokers, Sequential
<1>1. /\ phase[r] = "unborn" /\ phase' = [phase EXCEPT ![r] = "inflight"]
      /\ UNCHANGED <<chained, listeners, agenda>>
  BY DEF SubmitParallel
<1>2. phase'[r] = "inflight" /\ \A s \in Invokers : s # r => phase'[s] = phase[s]
  BY <1>0, <1>1 DEF TypeOK
<1>3. ChainedOnce' /\ Distinct(agenda') /\ UnbornUnchained'
  BY <1>1, <1>2 DEF OInv, ChainedOnce, UnbornUnchained, Distinct
<1>4. EmittedBefore'
  BY <1>1, <1>2 DEF OInv, EmittedBefore, InvokeOf
<1>5. ListenersWait'
  <2>1. Range(listeners) \subseteq Refresh
    BY <1>0 DEF TypeOK, Range
  <2>2. \A s \in Range(listeners) : phase'[s] \in {"queued", "inflight"}
    BY <1>0, <1>2, <2>1 DEF OInv, ListenersWait
  <2>3. \A s \in Invokers : SlotOf(s) \in Range(agenda) =>
          s \in Refresh /\ phase'[s] \in {"queued", "inflight"} /\ listeners = <<>>
    BY <1>0, <1>2 DEF OInv, ListenersWait
  <2> QED
    BY <1>1, <2>2, <2>3 DEF OInv, ListenersWait, SlotOf
<1>6. InvokedOnce'
  <2> SUFFICES ASSUME NEW n \in Http, phase'[n] \in {"inflight", "finished"}
               PROVE  /\ InvokeOf(n) \notin Range(agenda)
                      /\ \A p \in Unfinished' : n \notin Range(chained[p])
    BY <1>1 DEF InvokedOnce, InvokeOf
  <2>1. phase[n] \in {"inflight", "finished"}
    BY <1>0, <1>2
  <2>2. InvokeOf(n) \notin Range(agenda) /\ \A p \in Unfinished : n \notin Range(chained[p])
    BY <2>1 DEF OInv, InvokedOnce
  <2>3. n \notin Range(chained[r])
    BY <1>0, <1>1, RangeEmpty DEF OInv, UnbornUnchained
  <2> QED
    BY <1>2, <2>2, <2>3 DEF Unfinished
<1> QED
  BY <1>3, <1>4, <1>5, <1>6 DEF OInv

\* An ordinary request goes on the wire once, however many refreshes overlap and
\* whichever of their lambdas dangle.
THEOREM RequestsGoOutOnce == Spec => []InvokedOnce
<1>1. IInv /\ OInv /\ [Next]_vars => OInv'
  <2> SUFFICES ASSUME IInv, OInv, [Next]_vars PROVE OInv'
    OBVIOUS
  <2>1. ASSUME NEW r \in Http, Submit(r) PROVE OInv'
    BY <2>1, QueueStepOInv DEF Submit, Sequential
  <2>2. ASSUME NEW r \in Refresh, SubmitRefresh(r) PROVE OInv'
    BY <2>2, QueueStepOInv DEF SubmitRefresh, Sequential
  <2>3. ASSUME NEW r \in Parallel, SubmitParallel(r) PROVE OInv'
    BY <2>3, SubmitParallelOInv
  <2>4. ASSUME NEW r \in Http \cup Parallel, Reply(r) PROVE OInv'
    BY <2>4, ReplyOInv
  <2>5. CASE RefreshReply
    BY <2>5, RefreshReplyOInv
  <2>6. ASSUME NEW r \in Invokers, RunSlot(r) \/ RunInvoke(r) \/ RunDangling(r) \/ RunHandler(r)
        PROVE  OInv'
    BY <2>6, RunSlotOInv, RunInvokeOInv, RunOtherOInv
  <2>7. CASE UNCHANGED vars
    BY <2>7, PopOInv DEF vars, OInv
  <2> QED
    BY <2>1, <2>2, <2>3, <2>4, <2>5, <2>6, <2>7 DEF Next, RunCallback
<1>2. OInv => InvokedOnce
  BY DEF OInv
<1> QED
  BY <1>1, <1>2, InitOInv, SpecIInv, PTL DEF Spec

=============================================================================
