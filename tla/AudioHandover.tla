---------------------------- MODULE AudioHandover ----------------------------
(***************************************************************************)
(* SourceAudioCapture and its two consumers: the hand-over of audio from   *)
(* the thread on which OBS captures a source to the thread that plays it   *)
(* (src/src/sources/audio-capture.cpp, src/src/outputs/audio-source.cpp,   *)
(* SourceAudioThread in src/src/sources/ingress-link-source.cpp).          *)
(*                                                                         *)
(* The capture callback appends whole chunks under the buffer's mutex.     *)
(* SourceAudioThread takes a whole chunk at a time; OutputAudioSource is   *)
(* asked for blocks of AUDIO_OUTPUT_FRAMES frames and leaves the rest of a *)
(* chunk behind an offset in its header.  `active' is read and written     *)
(* without the mutex, and no constructor gives it a value before the       *)
(* callback is registered.                                                 *)
(*                                                                         *)
(* A frame is known by its number: the captured frames of one object count *)
(* from 0.  A chunk is the interval of its frames and the offset.          *)
(***************************************************************************)
EXTENDS Integers, Sequences

CONSTANTS
  MaxFrames,     \* MAX_AUDIO_BUFFER_FRAMES
  OutFrames,     \* AUDIO_OUTPUT_FRAMES
  ChunkSizes,    \* the frames OBS hands over at a time
  TotalFrames    \* frames captured by one object (bounds the runs)

ASSUME FrameConstants ==
  /\ MaxFrames \in Nat /\ OutFrames \in Nat \ {0} /\ TotalFrames \in Nat
  /\ ChunkSizes \subseteq 1 .. MaxFrames

VARIABLES
  consumer,      \* who plays: the "thread" of an ingress source or the "mixer" of an output
  stage,         \* the object: "none", "made", "running", "closing", "joined"
  active,        \* SourceAudioCapture::active
  buffer,        \* audioBuffer, the chunks in it
  audioBufferFrames,
  next,          \* the number of the next frame captured
  pushing,       \* frames of the callback under way, 0 when there is none
  pulling,       \* frames popAudio still has to fill in, 0 when it is not running
  played,        \* the frames handed over last
  thread,        \* SourceAudioThread: "none", "running", "ended"
  source         \* the source that plays exists (its weak reference can be taken)

bufferVars == <<buffer, audioBufferFrames, next>>
lifeVars   == <<consumer, stage, active, thread, source>>
vars == <<lifeVars, bufferVars, pushing, pulling, played>>

Consumers == {"thread", "mixer"}
Stages    == {"none", "made", "running", "closing", "joined"}
Nothing   == [from |-> 0, to |-> 0]

Chunk == [from : Nat, to : Nat, offset : Nat]

\* Where the first frame that has not been handed over is, and what a chunk holds.
StartOf(chunk)  == chunk.from + chunk.offset
FramesIn(chunk) == chunk.to - chunk.from - chunk.offset

Init ==
  /\ consumer \in Consumers
  /\ stage = "none" /\ active = FALSE
  /\ buffer = <<>> /\ audioBufferFrames = 0 /\ next = 0
  /\ pushing = 0 /\ pulling = 0 /\ played = Nothing
  /\ thread = "none" /\ source = TRUE

-----------------------------------------------------------------------------
(* The life of the object.                                                   *)

\* The constructor registers the capture callback; `active' has whatever value the
\* memory had.
Create ==
  /\ stage = "none"
  /\ stage' = "made"
  /\ active' \in BOOLEAN
  /\ buffer' = <<>> /\ audioBufferFrames' = 0 /\ next' = 0 /\ played' = Nothing
  /\ thread' = "none"
  /\ UNCHANGED <<consumer, pushing, pulling, source>>

\* audio_output_open succeeded, or SourceAudioThread::run begins (QThread remembers an
\* interruption asked for before it does).
Activate ==
  /\ stage = "made"
  /\ stage' = "running" /\ active' = TRUE
  /\ thread' = IF consumer = "thread" THEN "running" ELSE "none"
  /\ UNCHANGED <<consumer, source, bufferVars, pushing, pulling, played>>

\* audio_output_open failed: createAudio deletes the object, as it is.
OpenFails ==
  /\ consumer = "mixer" /\ stage = "made"
  /\ stage' = "closing" /\ active' = FALSE
  /\ UNCHANGED <<consumer, thread, source, bufferVars, pushing, pulling, played>>

\* stopAudio asks the thread to stop; ~OutputAudioSource clears the flag.
Close ==
  /\ stage = "running"
  /\ stage' = "closing"
  /\ active' = (consumer = "thread" /\ active)
  /\ UNCHANGED <<consumer, thread, source, bufferVars, pushing, pulling, played>>

\* QThread::wait, or audio_output_close, which joins the audio thread.
Joined ==
  /\ stage = "closing" /\ thread # "running" /\ pulling = 0
  /\ stage' = "joined"
  /\ UNCHANGED <<consumer, active, thread, source, bufferVars, pushing, pulling, played>>

\* ~SourceAudioCapture: removing the callback waits for one that is running
\* (external: OBS holds the list's mutex while it calls), then the buffer goes.
Free ==
  /\ stage = "joined" /\ pushing = 0
  /\ stage' = "none"
  /\ buffer' = <<>> /\ audioBufferFrames' = 0 /\ next' = 0
  /\ UNCHANGED <<consumer, active, thread, source, pushing, pulling, played>>

\* The user removes the source; OBS destroys it when the last reference is gone.
SourceGone ==
  /\ consumer = "thread" /\ source
  /\ source' = FALSE
  /\ UNCHANGED <<consumer, stage, active, thread, bufferVars, pushing, pulling, played>>

-----------------------------------------------------------------------------
(* Capture.                                                                  *)

\* onSourceAudio and the test of `active', before the mutex is taken.
PushBegins(n) ==
  /\ stage # "none" /\ pushing = 0 /\ active
  /\ next + n <= TotalFrames
  /\ pushing' = n
  /\ UNCHANGED <<lifeVars, bufferVars, pulling, played>>

Filled(n) == [from |-> next, to |-> next + n, offset |-> 0]

\* A callback that does not take the mutex (mutant).
PushUnlocked ==
  /\ pushing # 0
  /\ IF audioBufferFrames + pushing > MaxFrames
     THEN buffer' = <<Filled(pushing)>> /\ audioBufferFrames' = pushing
     ELSE /\ buffer' = Append(buffer, Filled(pushing))
          /\ audioBufferFrames' = audioBufferFrames + pushing
  /\ next' = next + pushing /\ pushing' = 0
  /\ UNCHANGED <<lifeVars, pulling, played>>

\* A buffer that would be too full is thrown away first, all of it.
PushEnds ==
  /\ pushing # 0 /\ pulling = 0
  /\ IF audioBufferFrames + pushing > MaxFrames
     THEN buffer' = <<Filled(pushing)>> /\ audioBufferFrames' = pushing
     ELSE /\ buffer' = Append(buffer, Filled(pushing))
          /\ audioBufferFrames' = audioBufferFrames + pushing
  /\ next' = next + pushing /\ pushing' = 0
  /\ UNCHANGED <<lifeVars, pulling, played>>

-----------------------------------------------------------------------------
(* SourceAudioThread::run, a turn of its loop under the mutex.               *)

\* A thread that leaves the newest chunk for the next turn (mutant).
ThreadPopsLate ==
  /\ thread = "running" /\ source
  /\ Len(buffer) > 1
  /\ played' = [from |-> Head(buffer).from, to |-> Head(buffer).to]
  /\ buffer' = Tail(buffer)
  /\ audioBufferFrames' = audioBufferFrames - (Head(buffer).to - Head(buffer).from)
  /\ UNCHANGED <<lifeVars, next, pushing, pulling>>

\* An interruption may come after the loop has tested for it.
ThreadPops ==
  /\ thread = "running" /\ source
  /\ audioBufferFrames # 0
  /\ played' = [from |-> Head(buffer).from, to |-> Head(buffer).to]
  /\ buffer' = Tail(buffer)
  /\ audioBufferFrames' = audioBufferFrames - (Head(buffer).to - Head(buffer).from)
  /\ UNCHANGED <<lifeVars, next, pushing, pulling>>

\* Interrupted, or the source cannot be referenced any more.
ThreadEnds ==
  /\ thread = "running" /\ (stage = "closing" \/ ~source)
  /\ thread' = "ended" /\ active' = FALSE
  /\ UNCHANGED <<consumer, stage, source, bufferVars, pushing, pulling, played>>

-----------------------------------------------------------------------------
(* OutputAudioSource::popAudio, which keeps the mutex from PullBegins to the *)
(* last chunk of the block.                                                  *)

\* A block is begun only when all of it is there: the pipeline must not stall.
PullBegins ==
  /\ consumer = "mixer" /\ stage \in {"running", "closing"} /\ active /\ pulling = 0
  /\ audioBufferFrames >= OutFrames
  /\ pulling' = OutFrames
  /\ UNCHANGED <<lifeVars, bufferVars, pushing, played>>

\* The rest of a chunk stays without its header being rewritten (mutant).
PullChunkForgetting ==
  /\ pulling > 0 /\ audioBufferFrames > 0
  /\ LET chunk  == Head(buffer)
         frames == IF FramesIn(chunk) > pulling THEN pulling ELSE FramesIn(chunk)
     IN  /\ played' = [from |-> StartOf(chunk), to |-> StartOf(chunk) + frames]
         /\ buffer' = IF frames = FramesIn(chunk) THEN Tail(buffer) ELSE buffer
         /\ audioBufferFrames' = audioBufferFrames - frames
         /\ pulling' = pulling - frames
  /\ UNCHANGED <<lifeVars, next, pushing>>

\* One turn of the loop.  Its other condition, frames left in the buffer, never ends
\* it: BlockUnbroken.
PullChunk ==
  /\ pulling > 0 /\ audioBufferFrames > 0
  /\ LET chunk  == Head(buffer)
         frames == IF FramesIn(chunk) > pulling THEN pulling ELSE FramesIn(chunk)
     IN  /\ played' = [from |-> StartOf(chunk), to |-> StartOf(chunk) + frames]
         /\ buffer' = IF frames = FramesIn(chunk) THEN Tail(buffer)
                      ELSE <<[chunk EXCEPT !.offset = @ + frames]>> \o Tail(buffer)
         /\ audioBufferFrames' = audioBufferFrames - frames
         /\ pulling' = pulling - frames
  /\ UNCHANGED <<lifeVars, next, pushing>>

Next ==
  \/ Create \/ Activate \/ OpenFails \/ Close \/ Joined \/ Free \/ SourceGone
  \/ \E n \in ChunkSizes : PushBegins(n)
  \/ PushEnds
  \/ ThreadPops \/ ThreadEnds
  \/ PullBegins \/ PullChunk

\* Threads are scheduled: the callback returns, the audio thread of the ingress
\* source turns its loop, the mixer asks for blocks, a destructor goes through.
Fairness ==
  /\ WF_vars(PushEnds) /\ WF_vars(ThreadPops) /\ WF_vars(ThreadEnds)
  /\ WF_vars(PullBegins) /\ WF_vars(PullChunk) /\ WF_vars(Joined) /\ WF_vars(Free)

Spec == Init /\ [][Next]_vars /\ Fairness

-----------------------------------------------------------------------------
(* Properties.                                                               *)

TypeOK ==
  /\ consumer \in Consumers /\ stage \in Stages /\ active \in BOOLEAN
  /\ buffer \in Seq(Chunk) /\ audioBufferFrames \in Nat /\ next \in Nat
  /\ pushing \in {0} \cup ChunkSizes /\ pulling \in 0 .. OutFrames
  /\ played \in [from : Nat, to : Nat]
  /\ thread \in {"none", "running", "ended"} /\ source \in BOOLEAN

\* audioBufferFrames, kept by hand where chunks come and go, is what the chunks hold: they
\* follow each other without a gap up to the last frame captured, only the first
\* one is part consumed, and the count never exceeds the limit.
CountExact ==
  /\ audioBufferFrames <= MaxFrames
  /\ buffer = <<>> => audioBufferFrames = 0
  /\ buffer # <<>> => /\ audioBufferFrames = next - StartOf(buffer[1])
                      /\ buffer[Len(buffer)].to = next
  /\ \A i \in DOMAIN buffer : /\ FramesIn(buffer[i]) > 0
                              /\ i > 1 => /\ buffer[i].offset = 0
                                          /\ buffer[i].from = buffer[i - 1].to

\* A block the mixer has begun is filled to the end, with frames that follow each
\* other: nothing is pushed, dropped or missing between two chunks of one block
\* (the mutex and the test for AUDIO_OUTPUT_FRAMES in popAudio).
BlockUnbroken ==
  /\ pulling <= audioBufferFrames
  /\ 0 < pulling /\ pulling < OutFrames => StartOf(buffer[1]) = played.to

\* Frames are handed over in the order they were captured and none twice: neither a
\* part consumed chunk nor a discarded buffer brings one back (header->offset, pop).
NeverTwice ==
  [][played' # played /\ ~Create => played'.from >= played.to /\ played'.to <= next]_vars

\* What was captured is played or thrown away while the thread runs, however
\* captures and pops interleave: no chunk is left behind.
Drained ==
  \A n \in 0 .. TotalFrames :
    (thread = "running" /\ next > n) ~> (next - audioBufferFrames > n \/ thread # "running")
=============================================================================
