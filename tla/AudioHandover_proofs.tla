------------------------ MODULE AudioHandover_proofs ------------------------
(***************************************************************************)
(* Proofs about AudioHandover, for a buffer, blocks and chunks of any      *)
(* size and any number of captured frames.                                 *)
(***************************************************************************)
EXTENDS AudioHandover, SequenceTheorems, TLAPS

\* CountExact of any buffer b that holds f frames, the last captured one before e.
Stream(b, f, e) ==
  /\ f <= MaxFrames
  /\ b = <<>> => f = 0
  /\ b # <<>> => /\ f = e - StartOf(b[1])
                 /\ b[Len(b)].to = e
  /\ \A i \in DOMAIN b : /\ FramesIn(b[i]) > 0
                         /\ b[i].to <= e
                         /\ i > 1 => /\ b[i].offset = 0
                                     /\ b[i].from = b[i - 1].to

\* The mixer fills a block only while it is there to do so, so does the thread, which
\* takes whole chunks; what has been handed over lies before what is still there.
Lives ==
  /\ pulling # 0 => consumer = "mixer" /\ stage \in {"running", "closing"}
  /\ thread = "running" => consumer = "thread" /\ stage \in {"running", "closing"}
  /\ consumer = "thread" => \A i \in DOMAIN buffer : buffer[i].offset = 0
  /\ stage # "none" => played.to <= next - audioBufferFrames

IInv == TypeOK /\ Stream(buffer, audioBufferFrames, next) /\ BlockUnbroken /\ Lives

-----------------------------------------------------------------------------
\* What a push and the two kinds of pops do to a stream.

LEMMA ChunkTypes ==
  ASSUME NEW c \in Chunk
  PROVE  /\ c.from \in Nat /\ c.to \in Nat /\ c.offset \in Nat
         /\ StartOf(c) = c.from + c.offset /\ StartOf(c) \in Nat
         /\ FramesIn(c) = c.to - StartOf(c) /\ FramesIn(c) \in Int
BY DEF Chunk, StartOf, FramesIn

LEMMA AdvancedChunk ==
  ASSUME NEW chunk \in Chunk, NEW n \in Nat
  PROVE  LET c == [chunk EXCEPT !.offset = @ + n]
         IN  c \in Chunk /\ c.from = chunk.from /\ c.to = chunk.to /\ c.offset = chunk.offset + n
<1> DEFINE x == chunk.offset + n
           c == [chunk EXCEPT !.offset = x]
<1>1. x \in Nat
  BY ChunkTypes
<1> HIDE DEF x
<1>2. c \in Chunk /\ c.from = chunk.from /\ c.to = chunk.to /\ c.offset = x
  BY <1>1 DEF Chunk
<1> QED
  BY <1>2 DEF x

LEMMA AtMostTransitive ==
  \A a \in Nat, x \in Int, y \in Int : a <= x /\ x <= y => a <= y
OBVIOUS

LEMMA EmptyStream == ASSUME NEW e \in Nat PROVE Stream(<<>>, 0, e)
BY FrameConstants DEF Stream

LEMMA SingleStream ==
  ASSUME NEW e \in Nat, NEW n \in 1 .. MaxFrames
  PROVE  LET c == [from |-> e, to |-> e + n, offset |-> 0]
         IN  c \in Chunk /\ <<c>> \in Seq(Chunk) /\ Stream(<<c>>, n, e + n)
<1> DEFINE c == [from |-> e, to |-> e + n, offset |-> 0]
<1>1. c \in Chunk /\ c.from = e /\ c.to = e + n /\ c.offset = 0
  BY FrameConstants DEF Chunk
<1> HIDE DEF c
<1>2. <<c>> \in Seq(Chunk) /\ Len(<<c>>) = 1 /\ DOMAIN <<c>> = {1} /\ <<c>>[1] = c
  BY <1>1
<1> QED
  BY <1>1, <1>2, FrameConstants DEF Stream, StartOf, FramesIn, c

LEMMA AppendStream ==
  ASSUME NEW b \in Seq(Chunk), NEW f \in Nat, NEW e \in Nat, Stream(b, f, e),
         NEW n \in 1 .. MaxFrames, f + n <= MaxFrames
  PROVE  LET c == [from |-> e, to |-> e + n, offset |-> 0]
         IN  Append(b, c) \in Seq(Chunk) /\ Stream(Append(b, c), f + n, e + n)
<1> DEFINE c == [from |-> e, to |-> e + n, offset |-> 0]
           s == Append(b, c)
<1>1. c \in Chunk /\ c.from = e /\ c.to = e + n /\ c.offset = 0
  BY FrameConstants DEF Chunk
<1> HIDE DEF c
<1>2. /\ s \in Seq(Chunk) /\ Len(s) = Len(b) + 1 /\ DOMAIN s = 1 .. Len(b) + 1
      /\ \A i \in 1 .. Len(b) : s[i] = b[i]
      /\ s[Len(b) + 1] = c /\ Len(b) \in Nat /\ s # <<>>
  BY <1>1, AppendProperties, LenProperties, EmptySeq
<1> HIDE DEF s
<1>3. \A i \in 1 .. Len(b) : b[i] \in Chunk /\ s[i] \in Chunk
  BY <1>2
<1>4. s # <<>> => f + n = (e + n) - StartOf(s[1]) /\ s[Len(s)].to = e + n
  <2>1. CASE b = <<>>
    <3>1. s[1] = c /\ f = 0
      BY <1>2, <2>1, EmptySeq DEF Stream
    <3> QED
      BY <1>1, <1>2, <3>1, ChunkTypes, SMTT(40)
  <2>2. CASE b # <<>>
    <3>1. Len(b) >= 1 /\ s[1] = b[1] /\ b[1] \in Chunk
      BY <1>2, <2>2, EmptySeq
    <3>2. StartOf(b[1]) \in Nat /\ f = e - StartOf(b[1])
      BY <2>2, <3>1, ChunkTypes DEF Stream
    <3>3. f + n = (e + n) - StartOf(s[1])
      BY <3>1, <3>2, FrameConstants
    <3> QED
      BY <1>1, <1>2, <3>3
  <2> QED
    BY <2>1, <2>2
<1>5. ASSUME NEW i \in 1 .. Len(b) + 1
      PROVE  /\ FramesIn(s[i]) > 0 /\ s[i].to <= e + n
             /\ i > 1 => s[i].offset = 0 /\ s[i].from = s[i - 1].to
  <2>1. CASE i <= Len(b)
    <3>1. s[i] = b[i] /\ b[i] \in Chunk /\ i \in DOMAIN b
      BY <1>2, <1>3, <2>1
    <3>2. i > 1 => s[i - 1] = b[i - 1]
      BY <1>2, <2>1, SMTT(40)
    <3>3. b[i].to <= e + n
      BY <3>1, FrameConstants DEF Stream, Chunk
    <3> QED
      BY <3>1, <3>2, <3>3 DEF Stream
  <2>2. CASE i = Len(b) + 1
    <3>1. i > 1 => b # <<>> /\ s[i - 1] = b[Len(b)] /\ b[Len(b)].to = e
      BY <1>2, <2>2, EmptySeq DEF Stream
    <3> QED
      BY <1>1, <1>2, <2>2, <3>1, FrameConstants DEF FramesIn
  <2> QED
    BY <1>2, <2>1, <2>2
<1>6. Stream(s, f + n, e + n)
  BY <1>2, <1>4, <1>5 DEF Stream
<1> QED
  BY <1>2, <1>6 DEF s, c

LEMMA FirstChunk ==
  ASSUME NEW b \in Seq(Chunk), NEW f \in Nat, NEW e \in Nat, Stream(b, f, e), b # <<>>
  PROVE  /\ Head(b) = b[1] /\ b[1] \in Chunk
         /\ FramesIn(b[1]) \in 1 .. f
         /\ StartOf(b[1]) \in Nat /\ StartOf(b[1]) = e - f
         /\ b[1].to <= e
<1>1. Len(b) >= 1 /\ Head(b) = b[1] /\ b[1] \in Chunk /\ 1 \in DOMAIN b
  BY EmptySeq
<1> QED
  BY <1>1, SMTT(40) DEF Stream, StartOf, FramesIn, Chunk

LEMMA TailStream ==
  ASSUME NEW b \in Seq(Chunk), NEW f \in Nat, NEW e \in Nat, Stream(b, f, e), b # <<>>
  PROVE  /\ Tail(b) \in Seq(Chunk) /\ f - FramesIn(b[1]) \in Nat
         /\ Stream(Tail(b), f - FramesIn(b[1]), e)
         /\ Tail(b) # <<>> => StartOf(Tail(b)[1]) = b[1].to
         /\ \A i \in DOMAIN Tail(b) : Tail(b)[i] = b[i + 1] /\ i + 1 \in DOMAIN b
<1> DEFINE t == Tail(b)
           g == f - FramesIn(b[1])
<1>1. /\ t \in Seq(Chunk) /\ Len(t) = Len(b) - 1 /\ Len(b) \in Nat \ {0}
      /\ \A i \in 1 .. Len(t) : t[i] = b[i + 1]
      /\ DOMAIN t = 1 .. Len(t) /\ DOMAIN b = 1 .. Len(b)
  BY HeadTailProperties, EmptySeq, LenProperties
<1>2. \A i \in 1 .. Len(b) : b[i] \in Chunk
  BY <1>1
<1>3. g \in Nat /\ g <= f
  BY FirstChunk
<1>4. \A i \in DOMAIN t : t[i] = b[i + 1] /\ i + 1 \in DOMAIN b /\ t[i] \in Chunk
  BY <1>1, <1>2
<1> HIDE DEF t
<1>5. CASE t = <<>>
  <2>1. Len(b) = 1
    BY <1>1, <1>5, EmptySeq
  <2>2. g = 0
    BY <1>2, <2>1, FirstChunk DEF Stream, StartOf, FramesIn, Chunk
  <2> QED
    BY <1>1, <1>3, <1>4, <1>5, <2>2, EmptyStream DEF t
<1>6. CASE t # <<>>
  <2>1. Len(t) >= 1 /\ 1 \in DOMAIN t /\ t[1] = b[2] /\ 2 \in DOMAIN b /\ t[Len(t)] = b[Len(b)]
    BY <1>1, <1>6, EmptySeq
  <2>2. b[2].offset = 0 /\ b[2].from = b[1].to /\ b[2] \in Chunk /\ b[1] \in Chunk
    <3>1. 2 > 1 => b[2].offset = 0 /\ b[2].from = b[2 - 1].to
      BY <2>1 DEF Stream
    <3> QED
      BY <1>1, <1>2, <2>1, <3>1
  <2>3. StartOf(t[1]) = b[1].to
    BY <2>1, <2>2, ChunkTypes
  <2>4. g = e - StartOf(t[1])
    <3>1. StartOf(b[1]) = e - f /\ StartOf(b[1]) \in Nat
      BY FirstChunk
    <3>2. FramesIn(b[1]) = b[1].to - StartOf(b[1]) /\ b[1].to \in Nat
      BY <2>2, ChunkTypes
    <3> QED
      BY <2>3, <3>1, <3>2
  <2>5. t[Len(t)].to = e
    BY <2>1 DEF Stream
  <2>6. ASSUME NEW i \in DOMAIN t
        PROVE  /\ FramesIn(t[i]) > 0 /\ t[i].to <= e
               /\ i > 1 => t[i].offset = 0 /\ t[i].from = t[i - 1].to
    <3>1. i > 1 => t[i - 1] = b[(i + 1) - 1]
      BY <1>1, <2>6
    <3> QED
      BY <1>1, <1>4, <3>1 DEF Stream
  <2>7. Stream(t, g, e)
    <3>1. g <= MaxFrames
      BY <1>3, FrameConstants DEF Stream
    <3> QED
      BY <1>6, <2>4, <2>5, <2>6, <3>1 DEF Stream
  <2> QED
    BY <1>1, <1>3, <1>4, <2>3, <2>7 DEF t
<1> QED
  BY <1>5, <1>6

LEMMA ConsumeStream ==
  ASSUME NEW b \in Seq(Chunk), NEW f \in Nat, NEW e \in Nat, Stream(b, f, e), b # <<>>,
         NEW n \in Nat, n < FramesIn(b[1])
  PROVE  LET s == <<[Head(b) EXCEPT !.offset = @ + n]>> \o Tail(b)
         IN  /\ s \in Seq(Chunk) /\ s # <<>> /\ f - n \in Nat
             /\ Stream(s, f - n, e) /\ StartOf(s[1]) = StartOf(b[1]) + n
<1> DEFINE c == [Head(b) EXCEPT !.offset = @ + n]
           s == <<c>> \o Tail(b)
           t == Tail(b)
<1>1. /\ Head(b) = b[1] /\ b[1] \in Chunk /\ FramesIn(b[1]) \in 1 .. f
      /\ StartOf(b[1]) \in Nat /\ StartOf(b[1]) = e - f /\ b[1].to <= e
  BY FirstChunk
<1>2. c \in Chunk /\ c.from = b[1].from /\ c.to = b[1].to /\ c.offset = b[1].offset + n
  BY <1>1, AdvancedChunk
<1> HIDE DEF c
<1>3. FramesIn(c) = FramesIn(b[1]) - n /\ StartOf(c) = StartOf(b[1]) + n
  <2>1. /\ b[1].from \in Nat /\ b[1].to \in Nat /\ b[1].offset \in Nat
        /\ StartOf(b[1]) = b[1].from + b[1].offset /\ FramesIn(b[1]) = b[1].to - StartOf(b[1])
    BY <1>1, ChunkTypes
  <2>2. StartOf(c) = c.from + c.offset /\ FramesIn(c) = c.to - StartOf(c)
    BY <1>2, ChunkTypes
  <2> QED
    BY <1>2, <2>1, <2>2
<1>4. /\ t \in Seq(Chunk) /\ Len(t) = Len(b) - 1 /\ Len(b) \in Nat \ {0}
      /\ \A i \in 1 .. Len(t) : t[i] = b[i + 1]
      /\ DOMAIN b = 1 .. Len(b)
  BY HeadTailProperties, EmptySeq, LenProperties
<1> HIDE DEF t
<1>5. <<c>> \in Seq(Chunk) /\ Len(<<c>>) = 1 /\ <<c>>[1] = c
  BY <1>2
<1>6. /\ s \in Seq(Chunk) /\ Len(s) = Len(b) /\ DOMAIN s = 1 .. Len(b)
      /\ s[1] = c /\ \A i \in 2 .. Len(b) : s[i] = b[i]
  BY <1>4, <1>5, ConcatProperties DEF t
<1> HIDE DEF s
<1>7. s # <<>>
  BY <1>4, <1>6, EmptySeq
<1>8. f - n = e - StartOf(s[1]) /\ f - n \in Nat
  BY <1>1, <1>3, <1>6
<1>9. s[Len(s)].to = e
  <2>1. CASE Len(b) = 1
    BY <1>2, <1>6, <2>1 DEF Stream
  <2>2. CASE Len(b) # 1
    BY <1>4, <1>6, <2>2 DEF Stream
  <2> QED
    BY <2>1, <2>2
<1>10. ASSUME NEW i \in DOMAIN s
       PROVE  /\ FramesIn(s[i]) > 0 /\ s[i].to <= e
              /\ i > 1 => s[i].offset = 0 /\ s[i].from = s[i - 1].to
  <2>1. CASE i = 1
    BY <1>1, <1>2, <1>3, <1>6, <2>1
  <2>2. CASE i # 1
    <3>1. i \in 2 .. Len(b) /\ s[i] = b[i] /\ i \in DOMAIN b
      BY <1>4, <1>6, <2>2
    <3>2. s[i - 1].to = b[i - 1].to
      BY <1>2, <1>4, <1>6, <3>1
    <3> QED
      BY <3>1, <3>2 DEF Stream
  <2> QED
    BY <2>1, <2>2
<1>11. f - n <= MaxFrames
  BY <1>8, FrameConstants DEF Stream
<1>12. Stream(s, f - n, e)
  BY <1>7, <1>8, <1>9, <1>10, <1>11 DEF Stream
<1> QED
  BY <1>3, <1>6, <1>7, <1>8, <1>12 DEF s, c, t

-----------------------------------------------------------------------------
(* The invariant.                                                            *)

LEMMA InitIInv == Init => IInv
<1> SUFFICES ASSUME Init PROVE IInv
  OBVIOUS
<1>1. TypeOK
  <2>1. active \in BOOLEAN /\ source \in BOOLEAN
    BY Zenon DEF Init
  <2>2. played \in [from : Nat, to : Nat]
    BY DEF Init, Nothing
  <2>3. buffer \in Seq(Chunk)
    BY DEF Init
  <2> QED
    BY <2>1, <2>2, <2>3, FrameConstants DEF Init, TypeOK, Stages
<1>2. Stream(buffer, audioBufferFrames, next)
  BY EmptyStream DEF Init
<1>3. BlockUnbroken /\ Lives
  BY FrameConstants DEF Init, BlockUnbroken, Lives, Nothing
<1> QED
  BY <1>1, <1>2, <1>3 DEF IInv

\* What the steps of the object's life and the beginnings of a push or of a block have in
\* common: the frames stay where they are.
LEMMA SameFrames ==
  ASSUME IInv, UNCHANGED bufferVars, TypeOK', BlockUnbroken',
         (pulling # 0 => consumer = "mixer" /\ stage \in {"running", "closing"})',
         (thread = "running" => consumer = "thread" /\ stage \in {"running", "closing"})',
         consumer' = consumer, stage' # "none" => stage # "none", UNCHANGED played
  PROVE  IInv'
<1>1. Stream(buffer, audioBufferFrames, next)'
  BY DEF IInv, bufferVars, Stream
<1>2. Lives'
  BY DEF IInv, Lives, bufferVars
<1> QED
  BY <1>1, <1>2 DEF IInv

\* The object made anew, or freed: the buffer is empty and nobody plays.
LEMMA NoFrames ==
  ASSUME IInv, TypeOK', buffer' = <<>>, audioBufferFrames' = 0, next' = 0,
         pulling' = 0, thread' # "running", stage' # "none" => played'.to = 0
  PROVE  IInv'
<1>1. Stream(buffer, audioBufferFrames, next)'
  BY EmptyStream DEF Stream
<1>2. BlockUnbroken' /\ Lives'
  BY DEF BlockUnbroken, Lives
<1> QED
  BY <1>1, <1>2 DEF IInv

LEMMA CreateStep == IInv /\ Create => IInv'
<1> SUFFICES ASSUME IInv, Create PROVE IInv'
  OBVIOUS
<1>1. TypeOK'
  BY FrameConstants DEF IInv, TypeOK, Create, Nothing, Stages
<1>2. pulling = 0
  BY DEF IInv, Lives, Create, TypeOK
<1> QED
  BY <1>1, <1>2, NoFrames DEF Create, Nothing

LEMMA FreeStep == IInv /\ Free => IInv'
<1> SUFFICES ASSUME IInv, Free PROVE IInv'
  OBVIOUS
<1>1. TypeOK'
  BY FrameConstants DEF IInv, TypeOK, Free, Stages
<1>2. pulling = 0 /\ thread # "running"
  BY DEF IInv, Lives, Free, TypeOK
<1> QED
  BY <1>1, <1>2, NoFrames DEF Free

LEMMA LifeStep ==
  IInv /\ (Activate \/ OpenFails \/ Close \/ Joined \/ SourceGone \/ ThreadEnds) => IInv'
<1> SUFFICES ASSUME IInv, Activate \/ OpenFails \/ Close \/ Joined \/ SourceGone \/ ThreadEnds
             PROVE  IInv'
  OBVIOUS
<1>1. UNCHANGED <<bufferVars, pushing, pulling, played, consumer>>
  BY DEF Activate, OpenFails, Close, Joined, SourceGone, ThreadEnds
<1>2. /\ stage' \in Stages /\ thread' \in {"none", "running", "ended"} /\ source' \in BOOLEAN
      /\ stage' # "none" => stage # "none"
  BY DEF IInv, TypeOK, Activate, OpenFails, Close, Joined, SourceGone, ThreadEnds, Stages
<1>3. active' \in BOOLEAN
  BY Zenon DEF IInv, TypeOK, Activate, OpenFails, Close, Joined, SourceGone, ThreadEnds
<1>4. TypeOK'
  BY <1>1, <1>2, <1>3 DEF IInv, TypeOK, bufferVars
<1>5. BlockUnbroken'
  BY <1>1 DEF IInv, BlockUnbroken, bufferVars
<1>6. /\ (pulling # 0 => consumer = "mixer" /\ stage \in {"running", "closing"})'
      /\ (thread = "running" => consumer = "thread" /\ stage \in {"running", "closing"})'
  BY <1>1 DEF IInv, TypeOK, Lives, Activate, OpenFails, Close, Joined, SourceGone, ThreadEnds
<1> QED
  BY <1>1, <1>2, <1>4, <1>5, <1>6, SameFrames

LEMMA PushBeginsStep == ASSUME IInv, NEW n \in ChunkSizes, PushBegins(n) PROVE IInv'
<1>1. TypeOK'
  BY DEF IInv, TypeOK, PushBegins, bufferVars, lifeVars
<1>2. BlockUnbroken'
  BY DEF IInv, BlockUnbroken, PushBegins, bufferVars
<1> QED
  BY <1>1, <1>2, SameFrames DEF PushBegins, lifeVars, IInv, Lives

LEMMA PullBeginsStep == IInv /\ PullBegins => IInv'
<1> SUFFICES ASSUME IInv, PullBegins PROVE IInv'
  OBVIOUS
<1>1. TypeOK'
  BY FrameConstants DEF IInv, TypeOK, PullBegins, bufferVars, lifeVars
<1>2. BlockUnbroken'
  BY FrameConstants DEF IInv, TypeOK, BlockUnbroken, PullBegins, bufferVars
<1> QED
  BY <1>1, <1>2, SameFrames DEF PullBegins, lifeVars, IInv, Lives

LEMMA PushEndsStep == IInv /\ PushEnds => IInv'
<1> SUFFICES ASSUME IInv, PushEnds PROVE IInv'
  OBVIOUS
<1> DEFINE n == pushing
           c == Filled(n)
<1>1. /\ n \in 1 .. MaxFrames /\ next \in Nat /\ audioBufferFrames \in Nat /\ buffer \in Seq(Chunk)
      /\ c = [from |-> next, to |-> next + n, offset |-> 0] /\ c.offset = 0
  BY FrameConstants DEF IInv, TypeOK, PushEnds, Filled
<1>2. /\ buffer' \in Seq(Chunk) /\ audioBufferFrames' \in Nat /\ next' = next + n
      /\ Stream(buffer', audioBufferFrames', next')
      /\ next - audioBufferFrames <= next' - audioBufferFrames'
  <2>1. CASE audioBufferFrames + n > MaxFrames
    <3>1. buffer' = <<c>> /\ audioBufferFrames' = n /\ next' = next + n
      BY <2>1 DEF PushEnds
    <3> QED
      BY <1>1, <3>1, SingleStream
  <2>2. CASE ~(audioBufferFrames + n > MaxFrames)
    <3>1. buffer' = Append(buffer, c) /\ audioBufferFrames' = audioBufferFrames + n /\ next' = next + n
      BY <2>2 DEF PushEnds
    <3>2. audioBufferFrames + n <= MaxFrames
      BY <1>1, <2>2, FrameConstants
    <3>3. Append(buffer, c) \in Seq(Chunk) /\ Stream(Append(buffer, c), audioBufferFrames + n, next + n)
      BY <1>1, <3>2, AppendStream DEF IInv
    <3> QED
      BY <1>1, <3>1, <3>3
  <2> QED
    BY <2>1, <2>2
<1>3. /\ consumer' = consumer /\ stage' = stage /\ active' = active /\ thread' = thread
      /\ source' = source /\ pulling' = 0 /\ pulling = 0 /\ pushing' = 0 /\ played' = played
  BY DEF PushEnds, lifeVars
<1>4. TypeOK'
  BY <1>1, <1>2, <1>3, FrameConstants DEF IInv, TypeOK
<1>5. BlockUnbroken'
  BY <1>2, <1>3 DEF BlockUnbroken
<1>6. consumer' = "thread" => \A i \in DOMAIN buffer' : buffer'[i].offset = 0
  <2> SUFFICES ASSUME consumer = "thread", NEW i \in DOMAIN buffer' PROVE buffer'[i].offset = 0
    BY <1>3
  <2>1. \A j \in DOMAIN buffer : buffer[j].offset = 0
    BY DEF IInv, Lives
  <2>2. CASE buffer' = <<c>>
    BY <1>1, <2>2
  <2>3. CASE buffer' = Append(buffer, c)
    <3>1. DOMAIN buffer' = 1 .. Len(buffer) + 1 /\ DOMAIN buffer = 1 .. Len(buffer) /\ Len(buffer) \in Nat
      BY <1>1, <2>3, AppendProperties, LenProperties
    <3>2. buffer'[Len(buffer) + 1] = c /\ \A j \in 1 .. Len(buffer) : buffer'[j] = buffer[j]
      BY <1>1, <2>3, AppendProperties
    <3> QED
      BY <1>1, <2>1, <3>1, <3>2
  <2> QED
    BY <2>2, <2>3 DEF PushEnds
<1>7. played'.to <= next' - audioBufferFrames' \/ stage' = "none"
  <2>1. played.to \in Nat /\ (stage # "none" => played.to <= next - audioBufferFrames)
    BY DEF IInv, Lives, TypeOK
  <2>2. played'.to = played.to /\ stage' = stage
    BY <1>3
  <2>3. CASE stage # "none"
    <3>1. /\ next \in Nat /\ audioBufferFrames \in Nat /\ played.to <= next - audioBufferFrames
          /\ next' \in Nat /\ audioBufferFrames' \in Nat
      BY <1>1, <1>2, <2>1, <2>3
    <3>2. next - audioBufferFrames <= next' - audioBufferFrames'
      BY <1>2
    <3>3. next - audioBufferFrames \in Int /\ next' - audioBufferFrames' \in Int
      BY <3>1
    <3>4. played.to <= next' - audioBufferFrames'
      BY <2>1, <3>1, <3>2, <3>3, AtMostTransitive, Zenon
    <3> QED
      BY <2>2, <3>4, Zenon
  <2> QED
    BY <2>2, <2>3, Zenon
<1>8. Lives'
  BY <1>3, <1>6, <1>7 DEF IInv, Lives
<1> QED
  BY <1>2, <1>4, <1>5, <1>8 DEF IInv

LEMMA ThreadPopsStep ==
  IInv /\ ThreadPops => /\ IInv'
                        /\ played'.from >= played.to /\ played'.to <= next
<1> SUFFICES ASSUME IInv, ThreadPops
             PROVE  IInv' /\ played'.from >= played.to /\ played'.to <= next
  OBVIOUS
<1> DEFINE f == audioBufferFrames
           b == buffer
           left == FramesIn(b[1])
<1>1. /\ next \in Nat /\ f \in Nat /\ b \in Seq(Chunk) /\ Stream(b, f, next) /\ b # <<>>
      /\ played \in [from : Nat, to : Nat] /\ played.to \in Nat
  BY DEF IInv, TypeOK, ThreadPops, Stream
<1>2. /\ consumer = "thread" /\ stage \in {"running", "closing"} /\ pulling = 0
      /\ (\A i \in DOMAIN b : b[i].offset = 0) /\ played.to <= next - f
  BY DEF IInv, Lives, ThreadPops, TypeOK
<1>3. /\ Head(b) = b[1] /\ b[1] \in Chunk /\ left \in 1 .. f
      /\ StartOf(b[1]) = next - f /\ b[1].to <= next /\ 1 \in DOMAIN b
  BY <1>1, FirstChunk, EmptySeq
<1>4. /\ Tail(b) \in Seq(Chunk) /\ f - left \in Nat /\ Stream(Tail(b), f - left, next)
      /\ \A i \in DOMAIN Tail(b) : Tail(b)[i] = b[i + 1] /\ i + 1 \in DOMAIN b
  BY <1>1, TailStream
<1>5. /\ b[1].from \in Nat /\ b[1].to \in Nat /\ b[1].offset = 0
      /\ StartOf(b[1]) = b[1].from /\ left = b[1].to - b[1].from
  <2>1. /\ b[1].from \in Nat /\ b[1].to \in Nat /\ b[1].offset \in Nat
        /\ StartOf(b[1]) = b[1].from + b[1].offset /\ left = b[1].to - StartOf(b[1])
    BY <1>3, ChunkTypes
  <2> QED
    BY <1>2, <1>3, <2>1
<1> HIDE DEF left
<1>6. /\ buffer' = Tail(b) /\ audioBufferFrames' = f - left /\ next' = next
      /\ played' = [from |-> b[1].from, to |-> b[1].to]
      /\ UNCHANGED <<consumer, stage, active, thread, source, pushing, pulling>>
  BY <1>3, <1>5 DEF ThreadPops, lifeVars
<1>7. /\ played'.from = b[1].from /\ played'.to = b[1].to
      /\ played' \in [from : Nat, to : Nat]
  BY <1>5, <1>6
<1>8. TypeOK'
  BY <1>1, <1>4, <1>6, <1>7 DEF IInv, TypeOK
<1>9. Stream(buffer', audioBufferFrames', next')
  BY <1>4, <1>6
<1>10. BlockUnbroken'
  BY <1>2, <1>4, <1>6 DEF BlockUnbroken
<1>11. played'.to <= next' - audioBufferFrames'
  BY <1>1, <1>3, <1>5, <1>6, <1>7
<1>12. \A i \in DOMAIN buffer' : buffer'[i].offset = 0
  BY <1>2, <1>4, <1>6
<1>13. Lives'
  BY <1>2, <1>6, <1>11, <1>12 DEF Lives
<1> QED
  BY <1>1, <1>2, <1>3, <1>5, <1>7, <1>8, <1>9, <1>10, <1>13 DEF IInv

LEMMA PullChunkStep ==
  IInv /\ PullChunk => /\ IInv'
                       /\ played'.from >= played.to /\ played'.to <= next
<1> SUFFICES ASSUME IInv, PullChunk
             PROVE  IInv' /\ played'.from >= played.to /\ played'.to <= next
  OBVIOUS
<1> DEFINE f == audioBufferFrames
           b == buffer
           left == FramesIn(b[1])
           n == IF left > pulling THEN pulling ELSE left
           rest == <<[Head(b) EXCEPT !.offset = @ + n]>> \o Tail(b)
<1>1. /\ next \in Nat /\ f \in Nat /\ b \in Seq(Chunk) /\ Stream(b, f, next) /\ b # <<>>
      /\ played \in [from : Nat, to : Nat] /\ played.to \in Nat
      /\ pulling \in 1 .. OutFrames /\ pulling <= f
  BY FrameConstants DEF IInv, TypeOK, PullChunk, Stream, BlockUnbroken
<1>2. consumer = "mixer" /\ stage \in {"running", "closing"} /\ thread # "running" /\ played.to <= next - f
  BY <1>1 DEF IInv, Lives, TypeOK
<1>3. /\ Head(b) = b[1] /\ b[1] \in Chunk /\ left \in 1 .. f /\ StartOf(b[1]) \in Nat
      /\ StartOf(b[1]) = next - f /\ b[1].to <= next /\ 1 \in DOMAIN b
  BY <1>1, FirstChunk, EmptySeq
<1>4. b[1].to \in Nat /\ left = b[1].to - StartOf(b[1])
  BY <1>3, ChunkTypes
<1>5. n \in 1 .. f /\ n <= pulling /\ n <= left
  BY <1>1, <1>3, FrameConstants
<1>6. /\ played' = [from |-> StartOf(b[1]), to |-> StartOf(b[1]) + n]
      /\ buffer' = IF n = left THEN Tail(b) ELSE rest
      /\ audioBufferFrames' = f - n /\ pulling' = pulling - n /\ next' = next
      /\ UNCHANGED <<consumer, stage, active, thread, source, pushing>>
  BY <1>3 DEF PullChunk, lifeVars
<1>7. /\ played'.from = StartOf(b[1]) /\ played'.to = StartOf(b[1]) + n
      /\ played' \in [from : Nat, to : Nat]
  BY <1>3, <1>5, <1>6
<1>8. /\ buffer' \in Seq(Chunk) /\ f - n \in Nat /\ Stream(buffer', f - n, next)
      /\ buffer' # <<>> => StartOf(buffer'[1]) = StartOf(b[1]) + n
  <2>1. CASE n = left
    <3>1. buffer' = Tail(b)
      BY <1>6, <2>1
    <3>2. /\ Tail(b) \in Seq(Chunk) /\ f - left \in Nat /\ Stream(Tail(b), f - left, next)
          /\ Tail(b) # <<>> => StartOf(Tail(b)[1]) = b[1].to
      BY <1>1, TailStream
    <3>3. b[1].to = StartOf(b[1]) + n
      BY <1>3, <1>4, <2>1
    <3> QED
      BY <2>1, <3>1, <3>2, <3>3
  <2>2. CASE n # left
    <3>1. buffer' = rest
      BY <1>6, <2>2
    <3>2. n \in Nat /\ n < left
      BY <1>3, <1>5, <2>2
    <3>3. /\ rest \in Seq(Chunk) /\ f - n \in Nat /\ Stream(rest, f - n, next)
          /\ StartOf(rest[1]) = StartOf(b[1]) + n
      BY <1>1, <3>2, ConsumeStream
    <3> QED
      BY <3>1, <3>3
  <2> QED
    BY <2>1, <2>2
<1> HIDE DEF n, left, rest
<1>9. TypeOK'
  <2>1. pulling' \in 0 .. OutFrames
    BY <1>1, <1>5, <1>6, FrameConstants
  <2> QED
    BY <1>1, <1>6, <1>7, <1>8, <2>1 DEF IInv, TypeOK
<1>10. BlockUnbroken'
  <2>1. pulling' <= audioBufferFrames'
    BY <1>1, <1>5, <1>6, FrameConstants
  <2>2. ASSUME 0 < pulling' PROVE StartOf(buffer'[1]) = played'.to
    <3>1. buffer' # <<>>
      BY <1>1, <1>5, <1>6, <1>8, <2>1, <2>2, FrameConstants, SMTT(40) DEF Stream
    <3> QED
      BY <1>7, <1>8, <3>1
  <2> QED
    BY <2>1, <2>2 DEF BlockUnbroken
<1>11. played'.to <= next' - audioBufferFrames'
  BY <1>1, <1>3, <1>5, <1>6, <1>7, SMTT(40)
<1>12. Lives'
  BY <1>2, <1>6, <1>11 DEF Lives
<1>13. played'.from >= played.to /\ played'.to <= next
  BY <1>1, <1>2, <1>3, <1>5, <1>7
<1> QED
  BY <1>6, <1>8, <1>9, <1>10, <1>12, <1>13 DEF IInv

LEMMA StepIInv == IInv /\ [Next]_vars => IInv'
<1> SUFFICES ASSUME IInv, [Next]_vars PROVE IInv'
  OBVIOUS
<1>1. CASE UNCHANGED vars
  BY <1>1 DEF vars, lifeVars, bufferVars, IInv, TypeOK, Stream, BlockUnbroken, Lives
<1>2. CASE \E n \in ChunkSizes : PushBegins(n)
  BY <1>2, PushBeginsStep
<1> QED
  BY <1>1, <1>2, CreateStep, FreeStep, LifeStep, PushEndsStep, ThreadPopsStep, PullBeginsStep,
     PullChunkStep DEF Next

\* The invariant of the hand-over: the chunks are one stretch of frames, as long as the
\* count says, and what is behind it has been played.
THEOREM HandoverInvariant == Spec => []IInv
BY InitIInv, StepIInv, PTL DEF Spec

\* Every variable keeps its type.
THEOREM HandoverTypes == Spec => []TypeOK
<1>1. IInv => TypeOK
  BY DEF IInv
<1> QED
  BY <1>1, HandoverInvariant, PTL

\* audioBufferFrames is the number of frames in the buffer and never more than
\* MAX_AUDIO_BUFFER_FRAMES, whatever sizes OBS hands over.
THEOREM BufferCount == Spec => []CountExact
<1>1. IInv => CountExact
  BY DEF IInv, Stream, CountExact
<1> QED
  BY <1>1, HandoverInvariant, PTL

\* A block begun by popAudio is filled to the end with frames that follow each other.
THEOREM BlocksAreFilled == Spec => []BlockUnbroken
<1>1. IInv => BlockUnbroken
  BY DEF IInv
<1> QED
  BY <1>1, HandoverInvariant, PTL

\* No frame is played twice or out of order.
THEOREM FramesInOrder == Spec => NeverTwice
<1> DEFINE Step == played' # played /\ ~Create => played'.from >= played.to /\ played'.to <= next
<1>1. IInv /\ [Next]_vars => [Step]_vars
  <2> SUFFICES ASSUME IInv, Next, played' # played, ~Create
               PROVE  played'.from >= played.to /\ played'.to <= next
    BY DEF Step
  <2>1. ThreadPops \/ PullChunk
    BY DEF Next, Activate, OpenFails, Close, Joined, Free, SourceGone, PushBegins, PushEnds,
           ThreadEnds, PullBegins
  <2> QED
    BY <2>1, ThreadPopsStep, PullChunkStep
<1> QED
  BY <1>1, HandoverInvariant, PTL DEF Spec, NeverTwice
=============================================================================
