-------------------------- MODULE ApiSession_proofs --------------------------
(***************************************************************************)
(* Proofs about ApiSession, for any bounds, any calls that may fail and    *)
(* any order of answers and pushes.                                        *)
(***************************************************************************)
EXTENDS ApiSession, SequenceTheorems, FiniteSetTheorems, TLAPS

\* A connection is there for a client that is started, a DELETE is under way only for
\* a reason, an answer only for a call, and a ready connection is subscribed unless
\* the plugin is on its way out.
Orderly ==
  /\ socket \notin {"closed", "closing"} => started
  /\ deletion # "none" => leaving # "no"
  /\ answer.due => calls # <<>>
  /\ socket = "ready" /\ leaving # "exit" => subscribed

IInv == TypeOK /\ Orderly

LEMMA Sequences0 ==
  /\ <<>> \in Seq(1 .. MaxRev)
  /\ <<"account">> \in Seq(Kinds) /\ <<"refresh">> \in Seq(Kinds)
  /\ 0 \in 0 .. MaxRev /\ 0 \in 0 .. MaxFaults
BY SessionConstants DEF Kinds

LEMMA AppendType ==
  ASSUME NEW S, NEW s \in Seq(S), NEW e \in S
  PROVE  Append(s, e) \in Seq(S) /\ Append(s, e) # <<>>
BY AppendProperties, EmptySeq

LEMMA CallNames == Kinds = {"account", "open", "put", "status", "refresh"}
BY DEF Kinds

\* What a client is like that has been unlinked.
LEMMA UnlinkKeeps ==
  ASSUME IInv, Unlink
  PROVE  /\ linked' \in BOOLEAN /\ token' \in {"none", "valid", "expired"}
         /\ started' \in BOOLEAN /\ again' \in BOOLEAN
         /\ socket' \in {"closed", "closing"}
         /\ subscribed' \in BOOLEAN /\ asked' \in BOOLEAN /\ inbox' \in Seq(1 .. MaxRev)
         /\ account' \in BOOLEAN /\ uplink' \in 0 .. MaxRev
BY Sequences0 DEF IInv, TypeOK, Orderly, Unlink

LEMMA ReconnectKeeps ==
  ASSUME IInv, Reconnect
  PROVE  /\ socket' \in {"closed", "opening"} /\ again' \in BOOLEAN
         /\ socket' # "closed" => started
         /\ subscribed' \in BOOLEAN /\ asked' \in BOOLEAN /\ inbox' \in Seq(1 .. MaxRev)
<1>1. inbox' = <<>> /\ subscribed' = FALSE /\ asked' = FALSE
  BY DEF Reconnect
<1>2. again' = (again \/ started) /\ socket' = IF started THEN "opening" ELSE "closed"
  BY DEF Reconnect
<1> QED
  BY <1>1, <1>2, Sequences0 DEF IInv, TypeOK

LEMMA LinkedSlotType ==
  ASSUME NEW queue \in Seq(Kinds), account \in BOOLEAN
  PROVE  LinkedSlot(queue) \in Seq(Kinds) /\ (queue # <<>> => LinkedSlot(queue) # <<>>)
BY DEF LinkedSlot, Kinds

\* What is left of the queue once its refreshes have finished.
LEMMA RefreshFinishedType ==
  ASSUME NEW queue \in Seq(Kinds), NEW rest \in RefreshFinished(queue)
  PROVE  rest \in Seq(Kinds)
<1> DEFINE waiting == {i \in DOMAIN queue : queue[i] # "refresh"}
           n == Cardinality(waiting)
<1>1. PICK order \in SetToSeqs(waiting) : rest = [i \in DOMAIN order |-> queue[order[i]]]
  BY DEF RefreshFinished
<1>2. n \in Nat
  <2>1. DOMAIN queue = 1 .. Len(queue) /\ Len(queue) \in Nat
    BY LenProperties
  <2>2. IsFiniteSet(DOMAIN queue)
    BY <2>1, FS_Interval
  <2> QED
    BY <2>2, FS_Subset, FS_CardinalityType
<1>3. order \in [1 .. n -> waiting]
  BY DEF SetToSeqs
<1>4. \A i \in DOMAIN queue : queue[i] \in Kinds
  BY ElementOfSeq, LenProperties
<1> HIDE DEF n
<1>5. rest \in [1 .. n -> Kinds]
  BY <1>1, <1>3, <1>4
<1> QED
  BY <1>2, <1>5, IsASeq

LEMMA Initially == ASSUME Init PROVE IInv
BY Sequences0 DEF Init, IInv, TypeOK, Orderly, NoAnswer, Kinds

LEMMA StepKeepsIt == ASSUME IInv, [Next]_vars PROVE IInv'
<1> USE SessionConstants DEF IInv, TypeOK, Orderly
<1> USE DEF authVars, callVars, exitVars, socketVars, dataVars, serverVars, envVars
<1>1. CASE Login
  BY <1>1, LinkedSlotType DEF Login
<1>2. CASE Logout
  BY <1>2 DEF Logout
<1>3. CASE Terminate
  BY <1>3 DEF Terminate
<1>4. CASE DeleteProcessed
  BY <1>4 DEF DeleteProcessed
<1>5. CASE DeleteAnswered
  <2>1. CASE leaving = "logout"
    BY <1>5, <2>1, UnlinkKeeps DEF DeleteAnswered
  <2>2. CASE leaving # "logout"
    BY <1>5, <2>2 DEF DeleteAnswered
  <2> QED
    BY <2>1, <2>2
<1>6. CASE TokenExpires
  BY <1>6 DEF TokenExpires
<1>7. CASE TimerFires
  <2>1. calls' \in Seq(Kinds) /\ calls' # <<>>
    BY <1>7, AppendType, CallNames, SMTT(40) DEF TimerFires
  <2> QED
    <3>1. timer' \in BOOLEAN
      BY <1>7 DEF TimerFires
    <3>2. UNCHANGED <<linked, token, answer, deletion, leaving, started, again, socket,
                      subscribed, asked, inbox, account, uplink, serverUplink, revisions,
                      faults, stable>>
      BY <1>7 DEF TimerFires
    <3> QED
      BY <2>1, <3>1, <3>2
<1>8. CASE Put
  BY <1>8 DEF Put, Kinds
<1>9. CASE CallProcessed
  <2>1. calls # <<>> /\ UNCHANGED <<linked, timer, calls, exitVars, socketVars, dataVars, envVars>>
    BY <1>9 DEF CallProcessed
  <2>2. token' \in {"none", "valid", "expired"}
    BY <1>9 DEF CallProcessed
  <2>3. revisions' \in 0 .. MaxRev /\ serverUplink' \in 0 .. MaxRev
    BY <1>9 DEF CallProcessed
  <2>4. \E r \in 0 .. MaxRev : answer' \in {Ok(r), Refused}
    <3>1. CASE revisions' = revisions /\ answer' \in {Ok(0), Ok(serverUplink), Refused}
      BY <3>1, Sequences0
    <3>2. CASE answer' = Ok(revisions')
      BY <3>2, <2>3
    <3> QED
      BY <1>9, <3>1, <3>2 DEF CallProcessed
  <2>5. answer' \in [due : BOOLEAN, ok : BOOLEAN, rev : 0 .. MaxRev]
    <3>1. PICK r \in 0 .. MaxRev : answer' \in {Ok(r), Refused}
      BY <2>4
    <3>2. Ok(r) \in [due : BOOLEAN, ok : BOOLEAN, rev : 0 .. MaxRev]
      BY DEF Ok
    <3>3. Refused \in [due : BOOLEAN, ok : BOOLEAN, rev : 0 .. MaxRev]
      BY Sequences0 DEF Refused
    <3> QED
      BY <3>1, <3>2, <3>3
  <2> QED
    BY <2>1, <2>2, <2>3, <2>5
<1>10. CASE CallRetries
  <2>1. calls' \in Seq(Kinds)
    BY <1>10, LinkedSlotType, RefreshFinishedType DEF CallRetries
  <2> QED
    BY <1>10, <2>1 DEF CallRetries
<1>11. CASE RefreshAnswered
  <2>1. /\ calls # <<>>
        /\ answer' = NoAnswer /\ UNCHANGED <<exitVars, serverVars, envVars>>
    BY <1>11 DEF RefreshAnswered, MayAnswer
  <2>2. NoAnswer \in [due : BOOLEAN, ok : BOOLEAN, rev : 0 .. MaxRev] /\ ~NoAnswer.due
    BY Sequences0 DEF NoAnswer
  <2>3. calls' \in Seq(Kinds) /\ timer' \in BOOLEAN
    <3>1. \E queue \in {calls, LinkedSlot(calls)} : calls' \in RefreshFinished(queue)
      BY <1>11 DEF RefreshAnswered
    <3>2. LinkedSlot(calls) \in Seq(Kinds)
      BY LinkedSlotType
    <3> QED
      BY <1>11, <3>1, <3>2, RefreshFinishedType DEF RefreshAnswered
  <2>4. CASE UNCHANGED <<linked, token, socketVars, dataVars>>
    BY <2>1, <2>2, <2>3, <2>4
  <2>5. CASE Unlink
    BY <2>1, <2>2, <2>3, <2>5, UnlinkKeeps
  <2> QED
    BY <1>11, <2>4, <2>5 DEF RefreshAnswered
<1>12. CASE AccountAnswered
  BY <1>12 DEF AccountAnswered, MayAnswer, NoAnswer, Kinds
<1>13. CASE OpenAnswered
  <2>1. CASE started
    BY <1>13, <2>1 DEF OpenAnswered, MayAnswer, NoAnswer, Accepted
  <2>2. CASE ~started
    <3>1. started' = TRUE /\ again' = FALSE /\ socket' = "opening"
      BY <1>13, <2>2 DEF OpenAnswered
    <3>2. subscribed' \in BOOLEAN /\ uplink' \in 0 .. MaxRev
      BY <1>13 DEF OpenAnswered
    <3>3. calls' \in Seq(Kinds) /\ answer' = NoAnswer
      BY <1>13 DEF OpenAnswered, MayAnswer
    <3>4. UNCHANGED <<linked, token, timer, deletion, leaving, asked, inbox, account,
                      serverUplink, revisions, faults, stable>>
      BY <1>13 DEF OpenAnswered
    <3>5. NoAnswer \in [due : BOOLEAN, ok : BOOLEAN, rev : 0 .. MaxRev] /\ ~NoAnswer.due
      BY Sequences0 DEF NoAnswer
    <3> QED
      BY <3>1, <3>2, <3>3, <3>4, <3>5, ZenonT(60)
  <2> QED
    BY <2>1, <2>2
<1>14. CASE PutAnswered
  BY <1>14 DEF PutAnswered, MayAnswer, NoAnswer, Accepted
<1>15. CASE StatusAnswered
  BY <1>15 DEF StatusAnswered, MayAnswer, NoAnswer, Accepted
<1>16. CASE SocketOpens
  BY <1>16 DEF SocketOpens
<1>17. CASE SocketReady
  <2>1. inbox' \in Seq(1 .. MaxRev)
    <3>1. serverUplink # 0 => serverUplink \in 1 .. MaxRev
      OBVIOUS
    <3> QED
      BY <1>17, <3>1, AppendType DEF SocketReady
  <2>2. calls' \in Seq(Kinds) /\ (calls # <<>> => calls' # <<>>)
    BY <1>17, AppendType, CallNames DEF SocketReady
  <2> QED
    BY <1>17, <2>1, <2>2 DEF SocketReady
<1>18. CASE SocketAborts
  BY <1>18, SMTT(40) DEF SocketAborts, Kinds
<1>19. CASE SocketDrops
  <2>1. Reconnect /\ faults' \in 0 .. MaxFaults /\ stable' = stable
    BY <1>19 DEF SocketDrops
  <2>2. UNCHANGED <<linked, token, timer, calls, answer, deletion, leaving, started, account,
                    uplink, serverUplink, revisions>>
    BY <2>1 DEF Reconnect
  <2> QED
    BY <2>1, <2>2, ReconnectKeeps
<1>20. CASE AbortedCloses
  <2>1. Reconnect /\ faults' \in 0 .. MaxFaults /\ stable' = stable
    BY <1>20 DEF AbortedCloses
  <2>2. UNCHANGED <<linked, token, timer, calls, answer, deletion, leaving, started, account,
                    uplink, serverUplink, revisions>>
    BY <2>1 DEF Reconnect
  <2> QED
    BY <2>1, <2>2, ReconnectKeeps
<1>21. CASE StoppedCloses
  <2>1. Reconnect /\ faults' \in 0 .. MaxFaults /\ stable' = stable
    BY <1>21 DEF StoppedCloses
  <2>2. UNCHANGED <<linked, token, timer, calls, answer, deletion, leaving, started, account,
                    uplink, serverUplink, revisions>>
    BY <2>1 DEF Reconnect
  <2> QED
    BY <2>1, <2>2, ReconnectKeeps
<1>22. CASE ServerChanges
  <2>1. revisions' \in 1 .. MaxRev /\ serverUplink' = revisions'
    BY <1>22 DEF ServerChanges
  <2>2. inbox' \in Seq(1 .. MaxRev)
    BY <1>22, <2>1, AppendType DEF ServerChanges
  <2> QED
    BY <1>22, <2>1, <2>2 DEF ServerChanges
<1>23. CASE PushArrives
  BY <1>23 DEF PushArrives
<1>24. CASE Settle
  BY <1>24 DEF Settle
<1>25. CASE UNCHANGED vars
  BY <1>25 DEF vars
<1> QED
  BY <1>1, <1>2, <1>3, <1>4, <1>5, <1>6, <1>7, <1>8, <1>9, <1>10, <1>11, <1>12, <1>13, <1>14,
     <1>15, <1>16, <1>17, <1>18, <1>19, <1>20, <1>21, <1>22, <1>23, <1>24, <1>25 DEF Next

THEOREM SessionInvariant == Spec => []IInv
BY Initially, StepKeepsIt, PTL DEF Spec

\* Every variable keeps the shape the code gives it, whatever fails, drops or expires
\* in whatever order.
THEOREM SessionTypes == Spec => []TypeOK
BY SessionInvariant, PTL DEF IInv

\* A client that has an uplink and a working connection is told of its changes.
THEOREM KnownUplinkIsSubscribed == Spec => []SubscribedWhenKnown
<1>1. IInv => SubscribedWhenKnown
  BY DEF IInv, Orderly, SubscribedWhenKnown
<1> QED
  BY <1>1, SessionInvariant, PTL
=============================================================================
