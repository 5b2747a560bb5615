------------------------------ MODULE Receivers ------------------------------
(***************************************************************************)
(* The choice of the receiver a plugin's uplink goes to: EgressLinkDock    *)
(* with its combobox of participants, the setting it edits, the PUTs that  *)
(* carry it to the service and the redeeming of an invitation code         *)
(* (src/src/UI/egress-link-dock.cpp, src/src/UI/settings-dialog.cpp, the   *)
(* participants and the uplink of src/src/api-client.cpp).                 *)
(*                                                                         *)
(* There are four copies of the choice: what the box shows, the setting    *)
(* "participant_id", the body of a PUT on its way, and the service's own.  *)
(* The list of participants comes by websocket and may take the shown one  *)
(* away; a code redeemed in the dock changes the setting, but not what the *)
(* box shows, when a receiver is selected by then.                         *)
(***************************************************************************)
EXTENDS Naturals, Sequences, FiniteSets, SequencesExt

CONSTANTS
  Participants,    \* the participations the account may have
  Nobody,          \* no participant: an empty id
  NoneItem,        \* the first item of the box, "none"
  MaxChanges,      \* changes of the participants at the service
  MaxCalls,        \* calls waiting in the sequencer
  MaxFaults        \* lost connections, logins and failed calls

ASSUME ReceiverConstants ==
  /\ Nobody \notin Participants /\ NoneItem \notin Participants /\ Nobody # NoneItem
  /\ IsFiniteSet(Participants)
  /\ MaxChanges \in Nat /\ MaxCalls \in Nat /\ MaxFaults \in Nat

VARIABLES
  linked,        \* SRCLinkApiClient::isLoggedIn
  feed,          \* its websocket: "never" ready since the login, "up", "down"
  server,        \* the participants the service knows
  known,         \* those it knows or has known, and the setting's: ids are not reused
  inbox,         \* pushes under way, oldest first
  participants,  \* SRCLinkApiClient::participants
  current,       \* currentData() of the combobox: Nobody when the box is empty
  participantId, \* the setting "participant_id"
  calls,         \* the sequencer's queue: PUTs of the uplink, redeemed codes
  answer,        \* the answer to its first call: "no", "ok", "failed"
  granted,       \* the participant the service has assigned the uplink to
  lastFailed,    \* history: the PUT answered last has failed
  pictureId,     \* the picture the participant's label is for
  picture,       \* the picture it shows; Nobody is the default one
  pictures,      \* pictures being downloaded
  changes, faults, stable

listVars   == <<feed, inbox, participants>>
choiceVars == <<current, participantId, pictureId, picture, pictures>>
callVars   == <<calls, answer, granted, lastFailed>>
envVars    == <<changes, faults, stable>>
vars == <<linked, server, known, listVars, choiceVars, callVars, envVars>>

Ids  == Participants \cup {Nobody}
\* The id a body carries: "none" is sent as an empty one.
Wanted(id) == IF id = NoneItem THEN Nobody ELSE id

PutOf(id)    == [kind |-> "put", of |-> Wanted(id)]
RedeemOf(id) == [kind |-> "redeem", of |-> id]
Push(id, exists, continuous) == [of |-> id, exists |-> exists, continuous |-> continuous]

Init ==
  /\ linked = FALSE /\ feed = "never"
  /\ server \in SUBSET Participants
  /\ inbox = <<>> /\ participants = {}
  /\ current = Nobody /\ participantId \in Ids \cup {NoneItem}
  /\ known = server \cup ({participantId} \cap Participants)
  /\ calls = <<>> /\ answer = "no" /\ granted = Nobody
  /\ lastFailed = FALSE
  /\ pictureId = Nobody /\ picture = Nobody /\ pictures = {}
  /\ changes = 0 /\ faults = 0 /\ stable = FALSE

-----------------------------------------------------------------------------
(* The combobox.                                                             *)

\* putUplink: nothing without a token; the body is made when the call is queued.
WithPut(queue, id) == IF linked THEN Append(queue, PutOf(id)) ELSE queue

\* A slot that stores the new selection only (mutant).
ActiveStored(sel, list, queue) ==
  /\ current' = sel /\ participantId' = sel
  /\ pictureId' = IF sel \in list THEN sel ELSE Nobody
  /\ picture' = Nobody
  /\ pictures' = IF sel \in list THEN pictures \cup {sel} ELSE pictures
  /\ calls' = queue

\* onActiveParticipantChanged: first the default picture, then the download of the
\* participant's own; the setting and a PUT only if the id is another one.
ActiveChanged(sel, list, queue) ==
  /\ current' = sel
  /\ pictureId' = IF sel \in list THEN sel ELSE Nobody
  /\ picture' = Nobody
  /\ pictures' = IF sel \in list THEN pictures \cup {sel} ELSE pictures
  /\ participantId' = sel
  /\ calls' = IF participantId # sel THEN WithPut(queue, sel) ELSE queue

\* The selection a list leaves: the one shown, the setting's when none was; an id
\* that is not in the list falls back to "none", an empty list to an empty box.
Selected(list, setting) ==
  LET wanted == IF current \in {Nobody, NoneItem} THEN setting ELSE current
  IN  IF list = {} THEN Nobody ELSE IF wanted \in list THEN wanted ELSE NoneItem

\* A box refilled with its signals blocked, and nobody told (mutant).
ParticipantsReadySilently(list, queue) ==
  /\ current' = Selected(list, participantId) /\ calls' = queue
  /\ UNCHANGED <<participantId, pictureId, picture, pictures>>

\* onParticipantsReady; an empty list also resets the picture.
ParticipantsReady(list, queue) ==
  IF current # Selected(list, participantId)
  THEN ActiveChanged(Selected(list, participantId), list, queue)
  ELSE /\ calls' = queue
       /\ pictureId' = IF list = {} THEN Nobody ELSE pictureId
       /\ picture' = IF list = {} THEN Nobody ELSE picture
       /\ UNCHANGED <<current, participantId, pictures>>

UserSelects(sel) ==
  /\ linked /\ ~stable /\ Len(calls) < MaxCalls
  /\ current # Nobody /\ sel \in participants \cup {NoneItem} /\ sel # current
  /\ ActiveChanged(sel, participants, calls)
  /\ UNCHANGED <<linked, server, known, listVars, answer, granted, lastFailed, envVars>>

\* SettingsDialog::saveSettings puts the uplink, whatever was edited.
SaveSettings ==
  /\ linked /\ ~stable /\ Len(calls) < MaxCalls
  /\ calls' = WithPut(calls, participantId)
  /\ UNCHANGED <<linked, server, known, listVars, choiceVars, answer, granted, lastFailed, envVars>>

-----------------------------------------------------------------------------
(* The session and the list.                                                 *)

\* The session opens with a PUT of the setting (module ApiSession).
Login ==
  /\ ~linked /\ ~stable /\ faults < MaxFaults /\ Len(calls) < MaxCalls
  /\ linked' = TRUE /\ feed' = "never" /\ faults' = faults + 1
  /\ calls' = Append(calls, PutOf(participantId))
  /\ UNCHANGED <<server, known, inbox, participants, choiceVars, answer, granted, lastFailed, changes, stable>>

\* The DELETE of the uplink, then clearOnlineResources, which empties the setting
\* first, and the docks' slots: the box is cleared and has nothing more to put.
Logout ==
  /\ linked /\ ~stable
  /\ linked' = FALSE /\ feed' = "never" /\ inbox' = <<>>
  /\ participants' = {} /\ granted' = Nobody
  /\ current' = Nobody /\ participantId' = Nobody
  /\ pictureId' = (IF current # Nobody THEN Nobody ELSE pictureId)
  /\ picture' = (IF current # Nobody THEN Nobody ELSE picture)
  /\ UNCHANGED <<server, known, pictures, calls, answer, lastFailed, envVars>>

\* The websocket is ready: the participants are pushed, all but the last one with
\* `continuous' (external).
FeedReady ==
  /\ linked /\ feed # "up"
  /\ feed' = "up"
  /\ \E order \in SetToSeqs(server) :
       inbox' = [i \in DOMAIN order |-> Push(order[i], TRUE, i < Len(order))]
  /\ UNCHANGED <<linked, server, known, participants, choiceVars, callVars, envVars>>

FeedDrops ==
  /\ linked /\ feed = "up" /\ ~stable /\ faults < MaxFaults
  /\ feed' = "down" /\ inbox' = <<>> /\ faults' = faults + 1
  /\ UNCHANGED <<linked, server, known, participants, choiceVars, callVars, changes, stable>>

\* A participation begins or ends; one that ends takes its uplink with it (external).
ServerChanges(p) ==
  /\ ~stable /\ changes < MaxChanges /\ (p \in known => p \in server)
  /\ changes' = changes + 1
  /\ server' = IF p \in server THEN server \ {p} ELSE server \cup {p}
  /\ known' = known \cup server'
  /\ granted' = IF granted \notin server' THEN Nobody ELSE granted
  /\ inbox' = IF feed = "up" THEN Append(inbox, Push(p, p \in server', FALSE)) ELSE inbox
  /\ UNCHANGED <<linked, feed, participants, choiceVars, calls, answer, lastFailed, faults, stable>>

\* A push that signals whatever it holds (mutant).
PushSignalled ==
  /\ linked /\ feed = "up" /\ inbox # <<>> /\ Len(calls) < MaxCalls
  /\ inbox' = Tail(inbox)
  /\ participants' = IF Head(inbox).exists THEN participants \cup {Head(inbox).of}
                     ELSE participants \ {Head(inbox).of}
  /\ ParticipantsReady(participants', calls)
  /\ UNCHANGED <<linked, server, known, feed, answer, granted, lastFailed, envVars>>

\* onWebSocketDataChanged and onWebSocketDataRemoved for "participants".
PushArrives ==
  /\ linked /\ feed = "up" /\ inbox # <<>> /\ Len(calls) < MaxCalls
  /\ inbox' = Tail(inbox)
  /\ LET push == Head(inbox)
     IN  /\ participants' = IF push.exists THEN participants \cup {push.of}
                            ELSE participants \ {push.of}
         /\ IF push.continuous \/ (~push.exists /\ push.of \notin participants)
            THEN UNCHANGED <<choiceVars, calls>>
            ELSE ParticipantsReady(participants', calls)
  /\ UNCHANGED <<linked, server, known, feed, answer, granted, lastFailed, envVars>>

-----------------------------------------------------------------------------
(* Calls.                                                                    *)

\* A code that will make the participant p, or none (what a code is worth: external).
\* The button is hidden while the uplink has a stage, which it may get while the dialog
\* is open or the code under way; neither hinders a selection in the box.
Redeem(p) ==
  /\ linked /\ ~stable /\ p \notin known /\ Len(calls) < MaxCalls
  /\ calls' = Append(calls, RedeemOf(p))
  /\ UNCHANGED <<linked, server, known, listVars, choiceVars, answer, granted, lastFailed, envVars>>

\* A code whose participation has ended meanwhile is of no use any more (external).
Spent(call) == call.kind = "redeem" /\ call.of \in known \ server

\* The participants a code makes: one, or none.
Made(call) == {call.of} \cap Participants

\* The service handles the first call (external).  A participant it does not know is
\* nobody to it; a redeemed code makes its participant.
CallProcessed ==
  /\ calls # <<>> /\ answer = "no"
  /\ \/ /\ linked /\ Head(calls).kind = "put"
        /\ granted' = (IF Head(calls).of \in server THEN Head(calls).of ELSE Nobody)
        /\ answer' = "ok" /\ UNCHANGED <<server, known, inbox, changes, faults>>
     \/ /\ linked /\ Head(calls).kind = "redeem" /\ ~Spent(Head(calls))
        /\ server' = server \cup Made(Head(calls)) /\ known' = known \cup server'
        /\ answer' = "ok"
        /\ inbox' = IF feed = "up" /\ Made(Head(calls)) # {}
                    THEN Append(inbox, Push(Head(calls).of, TRUE, FALSE)) ELSE inbox
        /\ UNCHANGED <<granted, changes, faults>>
     \/ /\ ~linked \/ Spent(Head(calls)) \/ (~stable /\ faults < MaxFaults)
        /\ faults' = IF linked /\ ~Spent(Head(calls)) THEN faults + 1 ELSE faults
        /\ answer' = "failed" /\ UNCHANGED <<server, known, inbox, granted, changes>>
  /\ UNCHANGED <<linked, feed, participants, choiceVars, calls, lastFailed, stable>>

\* The answer to a PUT: putUplinkSucceeded or putUplinkFailed.
PutAnswered ==
  /\ answer # "no" /\ Head(calls).kind = "put"
  /\ answer' = "no" /\ calls' = Tail(calls) /\ lastFailed' = (answer = "failed")
  /\ UNCHANGED <<linked, server, known, listVars, choiceVars, granted, envVars>>

\* redeemInviteCode: the participants of the answer are merged and the first, if there
\* is one, becomes the setting and is put; then the list is told as it is, however
\* incomplete.  A box that shows a receiver keeps it.
RedeemAnswered ==
  /\ answer # "no" /\ Head(calls).kind = "redeem"
  /\ answer' = "no"
  /\ LET made == Made(Head(calls))
         p    == Head(calls).of
         list == participants \cup made
     IN  \/ /\ answer = "failed"
            /\ calls' = Tail(calls) /\ UNCHANGED <<participants, choiceVars>>
         \/ /\ answer = "ok" /\ made = {}
            /\ ParticipantsReady(participants, Tail(calls)) /\ UNCHANGED participants
         \/ /\ answer = "ok" /\ made # {}
            /\ participants' = list /\ participantId' = p
            /\ calls' = WithPut(Tail(calls), p)
            /\ current' = Selected(list, p)
            /\ IF current # Selected(list, p)
               THEN pictureId' = p /\ picture' = Nobody /\ pictures' = pictures \cup {p}
               ELSE UNCHANGED <<pictureId, picture, pictures>>
  /\ UNCHANGED <<linked, server, known, feed, inbox, granted, lastFailed, envVars>>

\* The picture of any answer is shown (mutant).
PictureArrivesAny(p, ok) ==
  /\ p \in pictures
  /\ pictures' = pictures \ {p}
  /\ picture' = IF ok THEN p ELSE Nobody
  /\ UNCHANGED <<linked, server, known, listVars, current, participantId, pictureId, callVars, envVars>>

\* onPictureReady, onPictureFailed: an answer for another picture than the label's is
\* of no interest to it.
PictureArrives(p, ok) ==
  /\ p \in pictures
  /\ pictures' = pictures \ {p}
  /\ picture' = IF p # pictureId THEN picture ELSE IF ok THEN p ELSE Nobody
  /\ UNCHANGED <<linked, server, known, listVars, current, participantId, pictureId, callVars, envVars>>

Settle ==
  /\ ~stable
  /\ stable' = TRUE
  /\ UNCHANGED <<linked, server, known, listVars, choiceVars, callVars, changes, faults>>

Next ==
  \/ Login \/ Logout \/ FeedReady \/ FeedDrops \/ PushArrives \/ SaveSettings
  \/ \E p \in Participants : ServerChanges(p)
  \/ \E p \in Ids : Redeem(p)
  \/ \E sel \in Participants \cup {NoneItem} : UserSelects(sel)
  \/ CallProcessed \/ PutAnswered \/ RedeemAnswered
  \/ \E p \in Participants, ok \in BOOLEAN : PictureArrives(p, ok)
  \/ Settle

\* Calls are answered, and a settled service is connected to and pushes what it owes.
Fairness ==
  /\ WF_vars(FeedReady) /\ WF_vars(PushArrives) /\ WF_vars(CallProcessed)
  /\ WF_vars(PutAnswered) /\ WF_vars(RedeemAnswered)

Spec == Init /\ [][Next]_vars /\ Fairness

-----------------------------------------------------------------------------
(* Properties.                                                               *)

TypeOK ==
  /\ linked \in BOOLEAN /\ feed \in {"never", "up", "down"}
  /\ server \subseteq known /\ known \subseteq Participants /\ participants \subseteq Participants
  /\ inbox \in Seq([of : Participants, exists : BOOLEAN, continuous : BOOLEAN])
  /\ current \in Ids \cup {NoneItem} /\ participantId \in Ids \cup {NoneItem}
  /\ calls \in Seq([kind : {"put", "redeem"}, of : Ids]) /\ answer \in {"no", "ok", "failed"}
  /\ granted \in Ids
  /\ lastFailed \in BOOLEAN
  /\ pictureId \in Ids /\ picture \in Ids /\ pictures \subseteq Participants
  /\ changes \in 0 .. MaxChanges /\ faults \in 0 .. MaxFaults /\ stable \in BOOLEAN

\* The box shows a receiver, or "none", and the setting, which is what PUTs carry, is
\* another one.
Apart == current # Nobody /\ current # participantId

\* Box and setting come apart in one way only: a code is answered with a receiver of its
\* own while the box shows another one (redeemInviteCode sets the participant, and
\* onParticipantsReady keeps the selection).  Selections, lists in any order, sessions
\* and codes that make nobody never part them, and whatever changes the box next brings
\* them together again.
ShownIsSetting ==
  [][/\ Apart' /\ ~Apart => RedeemAnswered /\ Made(Head(calls)) # {} /\ current \in Participants
     /\ current' # current => ~Apart']_vars

\* The label never shows the picture of a receiver that is no longer selected,
\* however late it arrives (the comparison with pictureId).
PictureMatches == picture # Nobody => picture = pictureId

\* A receiver of the setting that the service still has is given up only by the user, a
\* logout, or a code: one that makes another receiver, one answered while the list has
\* not come in as far as this receiver, or one whose receiver was the setting only, when
\* the receiver in the box ends and the box falls back to "none".  No push of a list
\* that is still coming in costs it, and no connection lost and made again.
ReceiverKept ==
  [][(participantId' # participantId /\ participantId \in Participants)
       => \/ ~linked' \/ participantId \notin server
          \/ \E sel \in participants \cup {NoneItem} : UserSelects(sel)
          \/ RedeemAnswered /\ (Made(Head(calls)) # {} \/ participantId \notin participants)
          \/ Apart /\ current \notin server]_vars

\* What the code says of a redeemed code: it changes the current participant to the one
\* the code activates, so that the box shows it too.
ActivatedIsCurrent ==
  [][(RedeemAnswered /\ answer = "ok" /\ Made(Head(calls)) # {}) => current' = participantId']_vars

\* In the end the service has the receiver of the setting, unless the last PUT has
\* failed: selections made while PUTs are under way are not lost or reordered.
ServerFollowsSetting ==
  \A p \in Participants :
    (stable /\ linked /\ participantId = p /\ p \in server)
      ~> (granted = p \/ lastFailed \/ participantId # p)

=============================================================================
