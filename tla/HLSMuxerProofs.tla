--------------------------- MODULE HLSMuxerProofs ---------------------------
(***************************************************************************)
(* Proofs about the HLS muxer, for streams of any length, any number of    *)
(* readers and every size of the playlist.                                 *)
(***************************************************************************)
EXTENDS HLSMuxer, SequenceTheorems, TLAPS

\* The playlist lists the youngest segments, in order.
QueueInv ==
    /\ tsDeleteCount < Len(tsFiles)
    /\ Len(tsFiles) - tsDeleteCount <= hlsSegmentCount
    /\ Len(tsQueue) = Len(tsFiles) - tsDeleteCount
    /\ \A k \in 1 .. Len(tsQueue) : tsQueue[k] = tsDeleteCount + k

\* Each name stands for a segment that has it and is listed, and each segment
\* that is listed has its name, unless another one has taken it.
NamesInv ==
    /\ \A n \in DOMAIN tsByName : /\ tsByName[n] > tsDeleteCount
                                  /\ tsFiles[tsByName[n]].name = n
    /\ \A i \in 1 .. Len(tsFiles) : i > tsDeleteCount /\ ~sharesName(i) =>
            tsFiles[i].name \in DOMAIN tsByName /\ tsByName[tsFiles[i].name] = i

\* Who reads, reads a segment.
ReadersInv == \A r \in Readers : readers[r].pc # "idle" => readers[r].file # 0

\* No frame comes before the start of the stream.
FramesInv == frames.anchor >= -1 /\ \A i \in 1 .. Len(frames.bs) : frames.bs[i] >= 0

Inv == TypeOK /\ QueueInv /\ NamesInv /\ ReadersInv /\ FramesInv

\* The presentation time of the n-th frame.
T(n) == n * FrameInterval + ptsOffset

\* The decoding time that the next anchor will get.
nextDTS(d) == IF d.prevPTS < d.prevPrevPTS THEN d.prevPTS ELSE d.prevPrevPTS + Millisecond

\* The estimator after the first two frames: between two groups of frames, and
\* at each place in each of the groups.
Phase(d, A, bs) ==
    \/ /\ Len(bs) = 0
       /\ d.prevPTS <= T(A) /\ d.prevPTS # d.prevPrevPTS
       /\ d.prevDTS < nextDTS(d) /\ nextDTS(d) <= T(A)
       /\ nextDTS(d) + 2 * Millisecond < T(A + 1)
    \/ /\ Len(bs) = 1 /\ bs[1] = A - 1
       /\ d.prevPTS = T(A) /\ d.prevDTS + 2 * Millisecond < T(A - 1)
    \/ /\ Len(bs) = 2 /\ bs[1] = A - 2 /\ bs[2] = A - 1
       /\ d.prevPTS = T(A) /\ d.prevDTS + 2 * Millisecond < T(A - 2)
    \/ /\ Len(bs) = 3 /\ bs[1] = A - 2 /\ bs[2] = A - 3 /\ bs[3] = A - 1
       /\ d.prevPTS = T(A) /\ d.prevDTS + 2 * Millisecond < T(A - 3)
    \/ /\ Len(bs) = 2 /\ bs[1] = A - 3 /\ bs[2] = A - 1
       /\ d.prevPTS = T(A - 2) /\ d.prevDTS + Millisecond < T(A - 3)
    \/ /\ Len(bs) = 1 /\ bs[1] = A - 1
       /\ d.prevPTS < d.prevPrevPTS /\ d.prevPTS <= T(A - 2) /\ d.prevDTS < d.prevPTS

EstInv ==
    /\ videoTrack => (tsFiles[tsCurrent].firstPacketWritten <=> videoDTSEst.initializing < 2)
    /\ videoDTSEst.initializing = 2 => videoDTSEst = NewDTSEstimator
    /\ videoDTSEst.initializing = 1 =>
            /\ Len(frames.bs) = 0 /\ videoDTSEst.prevPTS = T(frames.anchor)
            /\ videoDTSEst.prevDTS = Millisecond /\ frames.anchor >= 0
    /\ videoDTSEst.initializing = 0 => Phase(videoDTSEst, frames.anchor, frames.bs)


-----------------------------------------------------------------------------
(* Segments. *)

\* What the playlist and tsByName are made of.
Books ==
    /\ tsFiles \in Seq(FileType) /\ now \in Nat /\ tsDeleteCount \in Nat
    /\ tsQueue \in Seq(DOMAIN tsFiles)
    /\ DOMAIN tsByName \subseteq Nat
    /\ \A n \in DOMAIN tsByName : tsByName[n] \in DOMAIN tsFiles
    /\ QueueInv /\ NamesInv

\* gs has the segments of fs, with the same names.
SameNames(fs, gs) ==
    /\ gs \in Seq(FileType) /\ Len(gs) = Len(fs)
    /\ \A i \in 1 .. Len(fs) : gs[i].name = fs[i].name

\* gs has one segment more, created now.
OneMore(fs, gs) ==
    /\ gs \in Seq(FileType) /\ Len(gs) = Len(fs) + 1
    /\ \A i \in 1 .. Len(fs) : gs[i].name = fs[i].name
    /\ gs[Len(gs)].name = now

LEMMA SpanFacts ==
    ASSUME NEW f \in FileType, NEW pts \in Nat
    PROVE  /\ span(f, pts) \in FileType
           /\ span(f, pts).name = f.name /\ span(f, pts).writePos = f.writePos
           /\ span(f, pts).firstPacketWritten
  BY DEF span, FileType

LEMMA LongerFacts ==
    ASSUME NEW f \in FileType, NEW k \in Nat
    PROVE  LET g == [f EXCEPT !.writePos = @ + k]
           IN g \in FileType /\ g.name = f.name
  BY DEF FileType

LEMMA WriteFacts ==
    ASSUME NEW f \in FileType, NEW b \in BOOLEAN, NEW x \in Nat, NEW y \in Nat, NEW k \in Nat
    PROVE  /\ write(f, b, x, y, k) \in FileType
           /\ write(f, b, x, y, k).name = f.name
           /\ write(f, b, x, y, k).writePos = f.writePos + k
           /\ b => write(f, b, x, y, k).firstPacketWritten
           /\ ~b => write(f, b, x, y, k).firstPacketWritten = f.firstPacketWritten
  <1> DEFINE g == IF b THEN span(span(f, x), y) ELSE f
  <1>1. /\ g \in FileType /\ g.name = f.name /\ g.writePos = f.writePos
        /\ b => g.firstPacketWritten
        /\ ~b => g.firstPacketWritten = f.firstPacketWritten
    <2>1. CASE b
      <3> DEFINE h == span(f, x)
      <3>1. /\ h \in FileType /\ h.name = f.name /\ h.writePos = f.writePos
            /\ h.firstPacketWritten
        BY SpanFacts
      <3>2. /\ span(h, y) \in FileType /\ span(h, y).name = h.name
            /\ span(h, y).writePos = h.writePos /\ span(h, y).firstPacketWritten
        <4> HIDE DEF h
        <4> QED  BY <3>1, SpanFacts
      <3>3. g = span(h, y)  BY <2>1
      <3>4. span(h, y).firstPacketWritten \in BOOLEAN  BY <3>2 DEF FileType
      <3> HIDE DEF g, h
      <3> QED  BY <2>1, <3>1, <3>2, <3>3, <3>4
    <2>2. CASE ~b
      BY <2>2 DEF FileType
    <2> QED  BY <2>1, <2>2
  <1>2. write(f, b, x, y, k) = [g EXCEPT !.writePos = @ + k]  BY DEF write
  <1> HIDE DEF g
  <1> QED  BY <1>1, <1>2 DEF FileType

\* The current segment is replaced.
LEMMA LastReplaced ==
    ASSUME NEW fs \in Seq(FileType), Len(fs) > 0, NEW g \in FileType,
           g.name = fs[Len(fs)].name
    PROVE  /\ SameNames(fs, [fs EXCEPT ![Len(fs)] = g])
           /\ [fs EXCEPT ![Len(fs)] = g][Len(fs)] = g
  <1>1. Len(fs) \in 1 .. Len(fs)  BY LenProperties
  <1>2. /\ [fs EXCEPT ![Len(fs)] = g] \in Seq(FileType)
        /\ Len([fs EXCEPT ![Len(fs)] = g]) = Len(fs)
        /\ \A j \in 1 .. Len(fs) : [fs EXCEPT ![Len(fs)] = g][j] = IF j = Len(fs) THEN g ELSE fs[j]
    BY <1>1, ExceptSeq
  <1> QED  BY <1>1, <1>2 DEF SameNames

LEMMA CurrentFacts ==
    ASSUME Books
    PROVE  /\ Len(tsFiles) \in Nat /\ Len(tsFiles) > 0 /\ tsCurrent = Len(tsFiles)
           /\ tsCurrent \in DOMAIN tsFiles /\ DOMAIN tsFiles = 1 .. Len(tsFiles)
           /\ tsFiles[tsCurrent] \in FileType
  BY LenProperties, ElementOfSeq DEF Books, QueueInv, tsCurrent

LEMMA CloseCurrentFacts ==
    ASSUME Books
    PROVE  SameNames(tsFiles, closeCurrent)
  <1> DEFINE g == [tsFiles[tsCurrent] EXCEPT !.closed = TRUE]
  <1>1. g \in FileType /\ g.name = tsFiles[tsCurrent].name
    BY CurrentFacts DEF FileType
  <1>2. closeCurrent = [tsFiles EXCEPT ![Len(tsFiles)] = g]
    BY CurrentFacts DEF closeCurrent
  <1> HIDE DEF g
  <1> QED  BY <1>1, <1>2, CurrentFacts, LastReplaced DEF Books

LEMMA RotatedFacts ==
    ASSUME Books
    PROVE  OneMore(tsFiles, rotated)
  <1> DEFINE c == closeCurrent
             g == newTSFile(now)
  <1>1. g \in FileType /\ g.name = now  BY DEF newTSFile, FileType, Books
  <1>2. SameNames(tsFiles, c)  BY CloseCurrentFacts
  <1>3. rotated = Append(c, g)  BY DEF rotated
  <1> HIDE DEF c, g
  <1>4. /\ Append(c, g) \in Seq(FileType) /\ Len(Append(c, g)) = Len(c) + 1
        /\ \A i \in 1 .. Len(c) : Append(c, g)[i] = c[i]
        /\ Append(c, g)[Len(c) + 1] = g
    BY <1>1, <1>2, AppendProperties DEF SameNames
  <1> QED  BY <1>1, <1>2, <1>3, <1>4 DEF SameNames, OneMore

\* A call that creates no segment leaves playlist and names as they are.
LEMMA SameNamesKeep ==
    ASSUME Books, SameNames(tsFiles, tsFiles'), UNCHANGED queue, now' \in Nat
    PROVE  Books'
  <1>1. Len(tsFiles) \in Nat /\ DOMAIN tsFiles = 1 .. Len(tsFiles) /\ DOMAIN tsFiles' = 1 .. Len(tsFiles)
    BY LenProperties DEF Books, SameNames
  <1>2. QueueInv'  BY DEF QueueInv, SameNames, Books, queue
  <1>3. \A i \in 1 .. Len(tsFiles) : sharesName(i)' <=> sharesName(i)
    BY <1>1 DEF sharesName, SameNames
  <1>4. NamesInv'
    BY <1>1, <1>3 DEF NamesInv, SameNames, Books, queue
  <1> QED  BY <1>1, <1>2, <1>4 DEF Books, SameNames, queue

\* A new segment enters playlist and names.  The name of the segment that
\* leaves was also that of a listed one only if they share it: hlsSegmentCount
\* is the distance of the oldest from the new one.
LEMMA EnqueueKeeps ==
    ASSUME Books, OneMore(tsFiles, tsFiles'), enqueue, now' = now
    PROVE  Books'
  <1> DEFINE D == tsDeleteCount
             L == Len(tsFiles)
             q == Append(tsQueue, L + 1)
             full == Len(q) > hlsSegmentCount
             old == tsFiles[D + 1].name
             dom == IF full THEN (DOMAIN tsByName \cup {now}) \ {old}
                            ELSE DOMAIN tsByName \cup {now}
  <1>1. /\ L \in Nat /\ L > 0 /\ D \in Nat /\ tsCurrent = L /\ now \in Nat
        /\ DOMAIN tsFiles = 1 .. L /\ DOMAIN tsFiles' = 1 .. L + 1
        /\ Len(tsFiles') = L + 1 /\ D < L /\ L - D <= hlsSegmentCount
        /\ hlsSegmentCount \in Nat \ {0}
    BY CurrentFacts, LenProperties, SegmentAssumption DEF Books, OneMore, QueueInv
  <1>2. /\ q \in Seq(1 .. L + 1) /\ Len(q) = L - D + 1
        /\ \A k \in 1 .. L - D + 1 : q[k] = D + k
    <2>1. tsQueue \in Seq(1 .. L + 1)  BY <1>1, SeqMonotonic DEF Books
    <2>2. Len(tsQueue) = L - D /\ \A k \in 1 .. L - D : tsQueue[k] = D + k
      BY DEF Books, QueueInv
    <2>3. L + 1 \in 1 .. L + 1  BY <1>1
    <2>4. /\ q \in Seq(1 .. L + 1) /\ Len(q) = Len(tsQueue) + 1
          /\ \A i \in 1 .. Len(tsQueue) : q[i] = tsQueue[i]
          /\ q[Len(tsQueue) + 1] = L + 1
      BY <2>1, <2>3, AppendProperties
    <2> HIDE DEF q
    <2>5. ASSUME NEW k \in 1 .. L - D + 1  PROVE q[k] = D + k
      <3>1. CASE k = L - D + 1
        <4>1. q[L - D + 1] = L + 1 /\ D + (L - D + 1) = L + 1  BY <1>1, <2>2, <2>4
        <4> QED  BY <3>1, <4>1
      <3>2. CASE k # L - D + 1
        <4>1. k \in 1 .. L - D  BY <1>1, <3>2
        <4> QED  BY <2>2, <2>4, <4>1
      <3> QED  BY <3>1, <3>2
    <2> QED  BY <1>1, <2>2, <2>4, <2>5
  <1>3. Head(q) = D + 1 /\ rotated[D + 1].name = old
    <2>1. q # <<>> /\ Head(q) = q[1]  BY <1>1, <1>2
    <2>2. 1 \in 1 .. L - D + 1 /\ D + 1 \in 1 .. L  BY <1>1
    <2>3. rotated[D + 1].name = old  BY <2>2, RotatedFacts DEF OneMore
    <2> HIDE DEF q
    <2> QED  BY <1>2, <2>1, <2>2, <2>3
  <1>4. /\ tsQueue' = window(q)
        /\ tsDeleteCount' = IF full THEN D + 1 ELSE D
        /\ DOMAIN tsByName' = dom
        /\ \A n \in dom : tsByName'[n] = IF n = now THEN L + 1 ELSE tsByName[n]
    BY <1>1, <1>3 DEF enqueue
  <1>5. /\ tsQueue' \in Seq(1 .. L + 1)
        /\ Len(tsQueue') = L + 1 - tsDeleteCount'
        /\ \A k \in 1 .. Len(tsQueue') : tsQueue'[k] = tsDeleteCount' + k
    <2>1. CASE full
      <3>1. q # <<>>
        <4> HIDE DEF q
        <4>1. Len(q) # 0  BY <1>1, <1>2
        <4> QED  BY <4>1
      <3>2. /\ Tail(q) \in Seq(1 .. L + 1) /\ Len(Tail(q)) = Len(q) - 1
            /\ \A i \in 1 .. Len(Tail(q)) : Tail(q)[i] = q[i + 1]
        BY <1>2, <3>1, HeadTailProperties
      <3>3. tsQueue' = Tail(q) /\ tsDeleteCount' = D + 1  BY <1>4, <2>1 DEF window
      <3> HIDE DEF q
      <3> QED  BY <1>1, <1>2, <3>2, <3>3
    <2>2. CASE ~full
      <3>1. tsQueue' = q /\ tsDeleteCount' = D  BY <1>4, <2>2 DEF window
      <3> HIDE DEF q
      <3> QED  BY <1>1, <1>2, <3>1
    <2> QED  BY <2>1, <2>2
  <1>6. full <=> L - D = hlsSegmentCount
    <2> HIDE DEF q
    <2> QED  BY <1>1, <1>2
  <1>7. QueueInv'
    BY <1>1, <1>4, <1>5, <1>6 DEF QueueInv
  <1> HIDE DEF q, full
  <1>8. /\ \A i \in 1 .. L : tsFiles'[i].name = tsFiles[i].name
        /\ tsFiles'[L + 1].name = now
        /\ \A n \in DOMAIN tsByName :
              tsByName[n] \in 1 .. L /\ tsByName[n] > D /\ tsFiles[tsByName[n]].name = n
        /\ \A i \in 1 .. L : i > D /\ ~sharesName(i) =>
              tsFiles[i].name \in DOMAIN tsByName /\ tsByName[tsFiles[i].name] = i
        /\ \A i \in 1 .. L : tsFiles[i].name \in Nat
    <2>1. \A i \in 1 .. L : tsFiles[i] \in FileType  BY ElementOfSeq DEF Books
    <2>2. \A i \in 1 .. L : tsFiles[i].name \in Nat  BY <2>1 DEF FileType
    <2> QED  BY <1>1, <2>2 DEF OneMore, Books, NamesInv
  <1>9. /\ \A n \in dom : tsByName'[n] \in 1 .. L + 1
        /\ dom \subseteq Nat
    BY <1>1, <1>4, <1>8 DEF Books
  <1>10. ASSUME NEW n \in dom
         PROVE  tsByName'[n] > tsDeleteCount' /\ tsFiles'[tsByName'[n]].name = n
    <2>1. CASE n = now
      BY <1>1, <1>4, <1>8, <2>1
    <2>2. CASE n # now
      <3>1. n \in DOMAIN tsByName /\ tsByName'[n] = tsByName[n]  BY <1>4, <2>2
      <3>2. tsByName[n] \in 1 .. L /\ tsByName[n] > D /\ tsFiles[tsByName[n]].name = n
        BY <1>8, <3>1
      <3>3. full => tsByName[n] # D + 1  BY <3>2
      <3> QED  BY <1>1, <1>4, <1>8, <3>1, <3>2, <3>3
    <2> QED  BY <2>1, <2>2
  <1>11. ASSUME NEW i \in 1 .. L + 1, i > tsDeleteCount', ~sharesName(i)'
         PROVE  tsFiles'[i].name \in dom /\ tsByName'[tsFiles'[i].name] = i
    <2>1. \A j \in 1 .. L + 1 :
             j # i /\ j - i <= hlsSegmentCount /\ i - j <= hlsSegmentCount =>
                tsFiles'[j].name # tsFiles'[i].name
      BY <1>1, <1>11 DEF sharesName
    <2>2. i > D /\ (full => i # D + 1)  BY <1>1, <1>4, <1>11
    <2>3. full => tsFiles'[i].name # old
      <3>1. full => tsFiles'[D + 1].name = old  BY <1>1, <1>8
      <3> QED  BY <1>1, <1>6, <2>1, <2>2, <3>1
    <2>4. CASE i = L + 1
      BY <1>1, <1>4, <1>8, <2>3, <2>4
    <2>5. CASE i # L + 1
      <3>1. i \in 1 .. L  BY <1>1, <2>5
      <3>2. tsFiles'[L + 1].name # tsFiles'[i].name  BY <1>1, <2>1, <2>2, <3>1
      <3>3. ~sharesName(i)  BY <1>1, <1>8, <2>1, <3>1 DEF sharesName
      <3> QED  BY <1>1, <1>4, <1>8, <2>2, <2>3, <3>1, <3>2, <3>3
    <2> QED  BY <2>4, <2>5
  <1>12. NamesInv'
    BY <1>1, <1>4, <1>10, <1>11 DEF NamesInv
  <1>13. tsDeleteCount' \in Nat  BY <1>1, <1>4
  <1> HIDE DEF dom
  <1> QED  BY <1>1, <1>4, <1>5, <1>7, <1>9, <1>12, <1>13 DEF Books, OneMore

-----------------------------------------------------------------------------
(* The stream. *)

FramesOK == frames \in [anchor: Int, bs: Seq(Int)] /\ FramesInv

\* bs are the B frames of one of the Shapes after anchor A.
Shape(A, bs) ==
    \/ Len(bs) = 0
    \/ Len(bs) = 1 /\ bs[1] = A + 1
    \/ Len(bs) = 2 /\ bs[1] = A + 1 /\ bs[2] = A + 2
    \/ Len(bs) = 3 /\ bs[1] = A + 2 /\ bs[2] = A + 1 /\ bs[3] = A + 3

\* Each frame is either an anchor, followed by one of the groups of B frames, or
\* the next of such a group.
LEMMA ArrivingCases ==
    ASSUME FramesOK, NEW frame \in Arriving
    PROVE  /\ frame.n \in Nat /\ frame.idr \in BOOLEAN
           /\ frame.rest.anchor \in Int /\ frame.rest.anchor >= -1
           /\ frame.rest \in [anchor: Int, bs: Seq(Int)]
           /\ \/ /\ Len(frames.bs) = 0 /\ frame.rest.anchor = frame.n
                 /\ frame.n = frames.anchor + Len(frame.rest.bs) + 1
                 /\ Shape(frames.anchor, frame.rest.bs)
                 /\ frame.idr => Len(frame.rest.bs) = 0
              \/ /\ Len(frames.bs) > 0 /\ frame.n = frames.bs[1] /\ ~frame.idr
                 /\ frame.rest.anchor = frames.anchor
                 /\ Len(frame.rest.bs) = Len(frames.bs) - 1
                 /\ \A i \in 1 .. Len(frame.rest.bs) : frame.rest.bs[i] = frames.bs[i + 1]
  <1> DEFINE A == frames.anchor
             B == frames.bs
  <1>1. /\ A \in Int /\ A >= -1 /\ B \in Seq(Int) /\ Len(B) \in Nat
        /\ frames = [anchor |-> A, bs |-> B] /\ \A i \in 1 .. Len(B) : B[i] >= 0 /\ B[i] \in Int
    BY LenProperties, ElementOfSeq DEF FramesOK, FramesInv
  <1>2. CASE B # <<>>
    <2>1. /\ frame.n = Head(B) /\ frame.idr = FALSE
          /\ frame.rest = [anchor |-> A, bs |-> Tail(B)]
      BY <1>1, <1>2 DEF Arriving
    <2>2. Head(B) = B[1] /\ Len(B) > 0  BY <1>1, <1>2, EmptySeq
    <2>3. /\ Tail(B) \in Seq(Int) /\ Len(Tail(B)) = Len(B) - 1
          /\ \A i \in 1 .. Len(Tail(B)) : Tail(B)[i] = B[i + 1]
      BY <1>1, <1>2, HeadTailProperties
    <2>4. frame.n \in Nat /\ frame.n = frames.bs[1]  BY <1>1, <2>1, <2>2
    <2>5. /\ frame.rest.anchor = A /\ frame.rest.bs = Tail(B)
          /\ frame.rest \in [anchor: Int, bs: Seq(Int)]
      BY <1>1, <2>1, <2>3
    <2>6. /\ Len(frame.rest.bs) = Len(frames.bs) - 1
          /\ \A i \in 1 .. Len(frame.rest.bs) : frame.rest.bs[i] = frames.bs[i + 1]
      BY <2>3, <2>5
    <2> QED  BY <1>1, <2>1, <2>2, <2>4, <2>5, <2>6
  <1>3. CASE B = <<>>
    <2>1. CASE frame = [n |-> A + 1, idr |-> TRUE, rest |-> [anchor |-> A + 1, bs |-> <<>>]]
      <3>1. /\ frame.n = A + 1 /\ frame.idr = TRUE /\ frame.rest = [anchor |-> A + 1, bs |-> <<>>]
            /\ Len(B) = 0
        BY <1>3, <2>1
      <3>2. <<>> \in Seq(Int) /\ Len(<<>>) = 0  BY EmptySeq
      <3> DEFINE b == <<>>
      <3>3. frame.rest = [anchor |-> A + 1, bs |-> b] /\ b \in Seq(Int) /\ Len(b) = 0
        BY <3>1, <3>2
      <3> HIDE DEF b
      <3>4. /\ frame.rest.bs = b /\ frame.rest.anchor = A + 1
            /\ frame.rest \in [anchor: Int, bs: Seq(Int)]
        BY <1>1, <3>3
      <3>5. Shape(A, frame.rest.bs) /\ Len(frame.rest.bs) = 0  BY <3>3, <3>4 DEF Shape
      <3>6. frame.n \in Nat /\ frame.n = A + 0 + 1 /\ A + 1 >= -1 /\ A + 1 \in Int
        BY <1>1, <3>1
      <3> QED  BY <3>1, <3>4, <3>5, <3>6
    <2>2. CASE \E s \in Shapes :
                 frame = [n |-> A + Len(s) + 1, idr |-> FALSE,
                          rest |-> [anchor |-> A + Len(s) + 1, bs |-> [i \in DOMAIN s |-> A + s[i]]]]
      <3> PICK s \in Shapes :
                 frame = [n |-> A + Len(s) + 1, idr |-> FALSE,
                          rest |-> [anchor |-> A + Len(s) + 1, bs |-> [i \in DOMAIN s |-> A + s[i]]]]
        BY <2>2
      <3> DEFINE b == [i \in DOMAIN s |-> A + s[i]]
      <3>1. /\ frame.n = A + Len(s) + 1 /\ frame.idr = FALSE
            /\ frame.rest = [anchor |-> A + Len(s) + 1, bs |-> b]
            /\ Len(B) = 0
        BY <1>3
      <3>2. /\ Len(s) \in Nat /\ DOMAIN s = 1 .. Len(s)
            /\ b \in Seq(Int) /\ Len(b) = Len(s) /\ Shape(A, b)
        <4>1. CASE s = <<>>
          BY <1>1, <4>1 DEF Shape
        <4>2. CASE s = <<1>>
          BY <1>1, <4>2 DEF Shape
        <4>3. CASE s = <<1, 2>>
          BY <1>1, <4>3 DEF Shape
        <4>4. CASE s = <<2, 1, 3>>
          BY <1>1, <4>4 DEF Shape
        <4> QED  BY <4>1, <4>2, <4>3, <4>4 DEF Shapes
      <3> HIDE DEF b
      <3> QED  BY <1>1, <3>1, <3>2
    <2> QED  BY <1>1, <1>3, <2>1, <2>2 DEF Arriving
  <1> QED  BY <1>2, <1>3

LEMMA FramesGoOn ==
    ASSUME FramesOK, NEW frame \in Arriving, frames' = frame.rest
    PROVE  FramesOK' /\ frame.n \in Nat
  <1>1. Len(frame.rest.bs) \in Nat  BY ArrivingCases, LenProperties
  <1>2. \A i \in 1 .. Len(frame.rest.bs) : frame.rest.bs[i] >= 0
    <2>1. CASE Len(frames.bs) = 0
      <3>1. Shape(frames.anchor, frame.rest.bs) /\ frames.anchor \in Int /\ frames.anchor >= -1
        BY <2>1, ArrivingCases DEF FramesOK, FramesInv
      <3> DEFINE b == frame.rest.bs
                 A == frames.anchor
      <3>2. Shape(A, b) /\ A \in Int /\ A >= -1 /\ Len(b) \in Nat  BY <1>1, <3>1
      <3>3. \A i \in 1 .. Len(b) : b[i] >= 0
        <4> HIDE DEF A, b
        <4> SUFFICES ASSUME NEW i \in 1 .. Len(b)  PROVE b[i] >= 0
          OBVIOUS
        <4>1. CASE Len(b) = 1
          BY <3>2, <4>1 DEF Shape
        <4>2. CASE Len(b) = 2
          <5>1. i = 1 \/ i = 2  BY <4>2
          <5> QED  BY <3>2, <4>2, <5>1 DEF Shape
        <4>3. CASE Len(b) = 3
          <5>1. i = 1 \/ i = 2 \/ i = 3  BY <4>3
          <5> QED  BY <3>2, <4>3, <5>1 DEF Shape
        <4> QED  BY <3>2, <4>1, <4>2, <4>3 DEF Shape
      <3> QED  BY <3>3
    <2>2. CASE Len(frames.bs) # 0
      <3>1. Len(frames.bs) \in Nat /\ \A i \in 1 .. Len(frames.bs) : frames.bs[i] >= 0
        BY LenProperties DEF FramesOK, FramesInv
      <3>2. /\ Len(frame.rest.bs) = Len(frames.bs) - 1
            /\ \A i \in 1 .. Len(frame.rest.bs) : frame.rest.bs[i] = frames.bs[i + 1]
        BY <2>2, <3>1, ArrivingCases
      <3>3. \A i \in 1 .. Len(frame.rest.bs) : i + 1 \in 1 .. Len(frames.bs)  BY <3>1, <3>2
      <3> QED  BY <3>1, <3>2, <3>3
    <2> QED  BY <2>1, <2>2
  <1> QED  BY <1>2, ArrivingCases DEF FramesOK, FramesInv

-----------------------------------------------------------------------------
(* The invariant. *)

ReadersOK ==
    /\ readers \in [Readers -> [pc: {"idle", "read", "wait"},
                                file: {0} \cup DOMAIN tsFiles, readPos: Nat]]
    /\ ReadersInv

Rest ==
    /\ videoTrack \in BOOLEAN /\ audioTrack \in BOOLEAN
    /\ aus \in Nat /\ audioAUCount \in Nat
    /\ writer \in {"running", "failed", "closed"}
    /\ FramesOK
    /\ videoDTSEst \in [initializing: 0..2, prevDTS: Int, prevPTS: Int, prevPrevPTS: Int]
    /\ signals \subseteq DOMAIN tsFiles
    /\ ReadersOK

LEMMA InvSplit == Inv <=> Books /\ Rest
  BY DEF Inv, TypeOK, Books, Rest, FramesOK, ReadersOK

LEMMA InvPrime == Books' /\ Rest' => Inv'
  BY DEF Inv, TypeOK, Books, Rest, FramesOK, ReadersOK

LEMMA FeedType ==
    ASSUME NEW d \in [initializing: 0..2, prevDTS: Int, prevPTS: Int, prevPrevPTS: Int],
           NEW pts \in Int
    PROVE  Feed(d, pts) \in [initializing: 0..2, prevDTS: Int, prevPTS: Int, prevPrevPTS: Int]
  <1>1. estimate(d, pts) \in Int  BY MillisecondAssumption DEF estimate
  <1> QED  BY <1>1, MillisecondAssumption DEF Feed

LEMMA CurrentWritten ==
    ASSUME NEW fs \in Seq(FileType), Len(fs) > 0, NEW b \in BOOLEAN,
           NEW x \in Nat, NEW y \in Nat, NEW k \in Nat
    PROVE  /\ SameNames(fs, [fs EXCEPT ![Len(fs)] = write(@, b, x, y, k)])
           /\ [fs EXCEPT ![Len(fs)] = write(@, b, x, y, k)][Len(fs)]
                 = write(fs[Len(fs)], b, x, y, k)
  <1>1. Len(fs) \in 1 .. Len(fs) /\ DOMAIN fs = 1 .. Len(fs)  BY LenProperties
  <1> DEFINE g == write(fs[Len(fs)], b, x, y, k)
  <1>2. g \in FileType /\ g.name = fs[Len(fs)].name
    <2> DEFINE f == fs[Len(fs)]
               h == span(f, x)
               e == span(h, y)
               c == IF b THEN e ELSE f
    <2>0. g = [c EXCEPT !.writePos = @ + k]  BY DEF write
    <2>1. f \in FileType  BY <1>1, ElementOfSeq
    <2>f. f = fs[Len(fs)]  OBVIOUS
    <2> HIDE DEF f, g
    <2>2. h \in FileType /\ h.name = f.name  BY <2>1, SpanFacts
    <2> HIDE DEF h
    <2>3. e \in FileType /\ e.name = h.name  BY <2>2, SpanFacts
    <2> HIDE DEF e
    <2>4. c \in FileType /\ c.name = f.name  BY <2>1, <2>2, <2>3
    <2> HIDE DEF c
    <2>5. g \in FileType /\ g.name = c.name  BY <2>0, <2>4, LongerFacts
    <2> QED  BY <2>4, <2>5, <2>f
  <1>3. [fs EXCEPT ![Len(fs)] = write(@, b, x, y, k)] = [fs EXCEPT ![Len(fs)] = g]  OBVIOUS
  <1> HIDE DEF g
  <1> QED  BY <1>2, <1>3, LastReplaced DEF g

\* A call that may have created a segment keeps playlist, names and readers.
LEMMA Recorded ==
    ASSUME Books, ReadersOK, NEW due \in BOOLEAN, now' = now, UNCHANGED readers,
           IF due THEN enqueue ELSE UNCHANGED queue,
           SameNames(IF due THEN rotated ELSE tsFiles, tsFiles'),
           signals' \subseteq {tsCurrent, Len(IF due THEN rotated ELSE tsFiles)}
    PROVE  Books' /\ ReadersOK' /\ signals' \subseteq DOMAIN tsFiles'
  <1>1. Len(tsFiles) \in Nat /\ Len(tsFiles) > 0 /\ tsCurrent = Len(tsFiles)
        /\ DOMAIN tsFiles = 1 .. Len(tsFiles)
    BY CurrentFacts
  <1>2. /\ Books' /\ DOMAIN tsFiles' = 1 .. Len(tsFiles')
        /\ Len(tsFiles') = Len(IF due THEN rotated ELSE tsFiles)
        /\ Len(tsFiles') \in {Len(tsFiles), Len(tsFiles) + 1}
    <2>1. CASE due
      <3>1. OneMore(tsFiles, rotated) /\ SameNames(rotated, tsFiles')  BY <2>1, RotatedFacts
      <3>2. OneMore(tsFiles, tsFiles')  BY <1>1, <3>1 DEF OneMore, SameNames
      <3> QED  BY <1>1, <2>1, <3>1, <3>2, EnqueueKeeps, LenProperties DEF OneMore
    <2>2. CASE ~due
      BY <1>1, <2>2, SameNamesKeep, LenProperties DEF SameNames, Books
    <2> QED  BY <2>1, <2>2
  <1>3. DOMAIN tsFiles \subseteq DOMAIN tsFiles' /\ signals' \subseteq DOMAIN tsFiles'
    BY <1>1, <1>2
  <1>4. ReadersOK'
    BY <1>3 DEF ReadersOK, ReadersInv
  <1> QED  BY <1>2, <1>3, <1>4

\* A step that leaves the segments and the playlist alone.
LEMMA FilesAlone ==
    ASSUME Books, UNCHANGED <<tsFiles, queue>>, now' \in Nat
    PROVE  Books'
  <1>1. SameNames(tsFiles, tsFiles')  BY DEF SameNames, Books
  <1> QED  BY <1>1, SameNamesKeep

LEMMA InitInv == Init => Inv
  <1> SUFFICES ASSUME Init PROVE Books /\ Rest
    BY InvSplit
  <1> DEFINE f == newTSFile(0)
  <1>1. f \in FileType /\ f.name = 0  BY DEF newTSFile, FileType
  <1>2. tsFiles = <<f>> /\ tsQueue = <<1>> /\ now = 0 /\ tsDeleteCount = 0  BY DEF Init
  <1>3. tsByName = [n \in {0} |-> 1]  BY DEF Init
  <1> HIDE DEF f
  <1>4. tsFiles \in Seq(FileType) /\ Len(tsFiles) = 1 /\ DOMAIN tsFiles = {1} /\ tsFiles[1] = f
    BY <1>1, <1>2
  <1>5. tsQueue \in Seq({1}) /\ Len(tsQueue) = 1 /\ tsQueue[1] = 1  BY <1>2
  <1>6. QueueInv  BY <1>2, <1>4, <1>5, SegmentAssumption DEF QueueInv
  <1>7. NamesInv  BY <1>1, <1>2, <1>3, <1>4 DEF NamesInv
  <1>8. Books  BY <1>2, <1>3, <1>4, <1>5, <1>6, <1>7 DEF Books
  <1>9. FramesOK /\ NewDTSEstimator \in [initializing: 0..2, prevDTS: Int, prevPTS: Int, prevPrevPTS: Int]
    BY EmptySeq DEF Init, StreamStart, FramesOK, FramesInv, NewDTSEstimator
  <1>10. ReadersOK  BY DEF Init, ReadersOK, ReadersInv
  <1> QED  BY <1>8, <1>9, <1>10 DEF Init, Rest

LEMMA WriteH264Keeps ==
    ASSUME Inv, NEW frame \in Arriving, WriteH264(frame)
    PROVE  Inv'
  <1> DEFINE pts == frame.n * FrameInterval + ptsOffset
             due == frame.idr /\ longEnough
             fs == IF due THEN rotated ELSE tsFiles
  <1>1. Books /\ Rest  BY InvSplit
  <1>2. FramesOK' /\ frame.n \in Nat  BY <1>1, FramesGoOn DEF WriteH264, Rest
  <1>3. pts \in Nat  BY <1>2, SegmentAssumption
  <1>4. fs \in Seq(FileType) /\ Len(fs) > 0
    BY <1>1, CurrentFacts, RotatedFacts DEF Books, OneMore
  <1>5. due \in BOOLEAN
    BY <1>1, ArrivingCases DEF Rest, longEnough
  <1>6. SameNames(fs, tsFiles')
    <2>1. tsFiles' = [fs EXCEPT ![Len(fs)] = write(@, TRUE, pts, pts, 1)]  BY DEF WriteH264
    <2> HIDE DEF fs, pts
    <2> QED  BY <1>3, <1>4, <2>1, CurrentWritten
  <1>7. /\ signals' = {tsCurrent, Len(fs)} /\ now' = now /\ UNCHANGED readers
        /\ IF due THEN enqueue ELSE UNCHANGED queue
    BY DEF WriteH264
  <1>8. Books' /\ ReadersOK' /\ signals' \subseteq DOMAIN tsFiles'
    <2> HIDE DEF due
    <2> QED  BY <1>1, <1>5, <1>6, <1>7, Recorded DEF Rest
  <1>9. videoDTSEst' \in [initializing: 0..2, prevDTS: Int, prevPTS: Int, prevPrevPTS: Int]
    <2>1. videoDTSEst' = Feed(videoDTSEst, pts)  BY DEF WriteH264
    <2> HIDE DEF pts
    <2> QED  BY <1>1, <1>3, <2>1, FeedType DEF Rest
  <1>10. UNCHANGED <<tracks, aus, audioAUCount, writer>>  BY DEF WriteH264
  <1>11. Rest'  BY <1>1, <1>2, <1>8, <1>9, <1>10 DEF Rest, tracks
  <1> QED  BY <1>8, <1>11, InvPrime

LEMMA WriteAACNames ==
    ASSUME NEW fs \in Seq(FileType), Len(fs) > 0, NEW k \in 1..2,
           aus \in Nat, videoTrack \in BOOLEAN
    PROVE  /\ SameNames(fs, writeAAC(fs, k))
           /\ videoTrack => writeAAC(fs, k)[Len(fs)].firstPacketWritten
                               = fs[Len(fs)].firstPacketWritten
           /\ writeAAC(fs, k)[Len(fs)].writePos = fs[Len(fs)].writePos + k
  <1> DEFINE x == aus * FrameInterval + ptsOffset
             y == (aus + k - 1) * FrameInterval + ptsOffset
  <1>1. aus + k - 1 \in Nat  OBVIOUS
  <1>2. x \in Nat /\ y \in Nat  BY <1>1, SegmentAssumption
  <1>3. writeAAC(fs, k) = [fs EXCEPT ![Len(fs)] = write(@, ~videoTrack, x, y, k)]
    BY DEF writeAAC
  <1>4. fs[Len(fs)] \in FileType  BY LenProperties, ElementOfSeq
  <1> HIDE DEF x, y
  <1> DEFINE b == ~videoTrack
  <1>5. b \in BOOLEAN /\ k \in Nat  OBVIOUS
  <1> HIDE DEF b
  <1>6. /\ SameNames(fs, [fs EXCEPT ![Len(fs)] = write(@, b, x, y, k)])
        /\ [fs EXCEPT ![Len(fs)] = write(@, b, x, y, k)][Len(fs)]
              = write(fs[Len(fs)], b, x, y, k)
    BY <1>2, <1>5, CurrentWritten
  <1> DEFINE f == fs[Len(fs)]
  <1>7. f \in FileType  BY <1>4
  <1> HIDE DEF f
  <1>8. write(f, b, x, y, k).writePos = f.writePos + k
    BY <1>2, <1>5, <1>7, WriteFacts
  <1>9. ASSUME videoTrack
        PROVE  write(f, b, x, y, k).firstPacketWritten = f.firstPacketWritten
    <2>1. write(f, b, x, y, k) = [f EXCEPT !.writePos = @ + k]  BY <1>9 DEF write, b
    <2> QED  BY <1>7, <2>1 DEF FileType
  <1> QED  BY <1>3, <1>6, <1>8, <1>9 DEF b, f

LEMMA WriteAudioOnlyKeeps ==
    ASSUME Inv, NEW k \in 1..2, WriteAudioOnly(k)
    PROVE  Inv'
  <1> DEFINE due == audioAUCount >= segmentMinAUCount /\ longEnough
             fs == IF due THEN rotated ELSE tsFiles
  <1>1. Books /\ Rest  BY InvSplit
  <1>2. fs \in Seq(FileType) /\ Len(fs) > 0
    BY <1>1, CurrentFacts, RotatedFacts DEF Books, OneMore
  <1>3. due \in BOOLEAN  BY DEF longEnough
  <1>4. SameNames(fs, tsFiles')
    <2>1. tsFiles' = writeAAC(fs, k)  BY DEF WriteAudioOnly
    <2> HIDE DEF fs
    <2> QED  BY <1>1, <1>2, <2>1, WriteAACNames DEF Rest
  <1>5. /\ signals' = {tsCurrent, Len(fs)} /\ now' = now /\ UNCHANGED readers
        /\ IF due THEN enqueue ELSE UNCHANGED queue
    BY DEF WriteAudioOnly
  <1>6. Books' /\ ReadersOK' /\ signals' \subseteq DOMAIN tsFiles'
    <2> HIDE DEF due
    <2> QED  BY <1>1, <1>3, <1>4, <1>5, Recorded DEF Rest
  <1>7. aus' \in Nat /\ audioAUCount' \in Nat
    BY <1>1 DEF WriteAudioOnly, Arrive, Rest
  <1>8. UNCHANGED <<tracks, frames, writer, videoDTSEst>>  BY DEF WriteAudioOnly
  <1>9. Rest'  BY <1>1, <1>6, <1>7, <1>8 DEF Rest, tracks, FramesOK, FramesInv
  <1> QED  BY <1>6, <1>9, InvPrime

LEMMA WriteAudioKeeps ==
    ASSUME Inv, NEW k \in 1..2, WriteAudio(k)
    PROVE  Inv'
  <1>1. Books /\ Rest  BY InvSplit
  <1>2. SameNames(tsFiles, tsFiles')
    BY <1>1, CurrentFacts, WriteAACNames DEF Books, Rest, WriteAudio
  <1>3. Books' /\ ReadersOK' /\ signals' \subseteq DOMAIN tsFiles'
    <2>1. /\ UNCHANGED queue /\ UNCHANGED readers /\ now' = now /\ signals' = {tsCurrent}
      BY DEF WriteAudio
    <2> DEFINE due == FALSE
    <2>2. /\ due \in BOOLEAN /\ IF due THEN enqueue ELSE UNCHANGED queue
          /\ SameNames(IF due THEN rotated ELSE tsFiles, tsFiles')
          /\ signals' \subseteq {tsCurrent, Len(IF due THEN rotated ELSE tsFiles)}
      BY <1>2, <2>1
    <2> HIDE DEF due
    <2> QED  BY <1>1, <2>1, <2>2, Recorded DEF Rest
  <1>4. aus' \in Nat /\ audioAUCount' \in Nat
    BY <1>1 DEF WriteAudio, Arrive, Rest
  <1>5. UNCHANGED <<tracks, frames, writer, videoDTSEst>>  BY DEF WriteAudio
  <1>6. Rest'  BY <1>1, <1>3, <1>4, <1>5 DEF Rest, tracks, FramesOK, FramesInv
  <1> QED  BY <1>3, <1>6, InvPrime

\* Segments that keep their number and names leave the types of the rest alone.
LEMMA SameNamesRest ==
    ASSUME Books, SameNames(tsFiles, tsFiles'), UNCHANGED queue, UNCHANGED now,
           ReadersOK, UNCHANGED readers
    PROVE  Books' /\ ReadersOK' /\ DOMAIN tsFiles' = DOMAIN tsFiles
  <1>1. DOMAIN tsFiles' = DOMAIN tsFiles  BY LenProperties DEF Books, SameNames
  <1>2. Books'  BY SameNamesKeep DEF Books
  <1> QED  BY <1>1, <1>2 DEF ReadersOK, ReadersInv

LEMMA WriteAACFailsKeeps ==
    ASSUME Inv, WriteAACFails
    PROVE  Inv'
  <1>1. Books /\ Rest  BY InvSplit
  <1> DEFINE gs == writeAAC(tsFiles, 1)
  <1>2. /\ SameNames(tsFiles, gs)
        /\ gs[Len(tsFiles)].writePos = tsFiles[Len(tsFiles)].writePos + 1
    BY <1>1, CurrentFacts, WriteAACNames DEF Books, Rest
  <1>3. tsFiles' = [gs EXCEPT ![tsCurrent].writePos = @ - 1]  BY DEF WriteAACFails
  <1> HIDE DEF gs
  <1>4. SameNames(tsFiles, tsFiles')
    <2> DEFINE h == [gs[Len(gs)] EXCEPT !.writePos = @ - 1]
    <2>1. gs \in Seq(FileType) /\ Len(gs) = Len(tsFiles) /\ Len(gs) > 0 /\ Len(gs) \in 1 .. Len(gs)
      BY <1>1, <1>2, CurrentFacts DEF SameNames
    <2>2. gs[Len(gs)] \in FileType  BY <2>1, ElementOfSeq
    <2>3. gs[Len(gs)].writePos - 1 \in Nat
      BY <1>1, <1>2, <2>1, CurrentFacts DEF FileType
    <2>4. h \in FileType /\ h.name = gs[Len(gs)].name  BY <2>2, <2>3 DEF FileType
    <2>5. tsFiles' = [gs EXCEPT ![Len(gs)] = h]  BY <1>1, <1>3, <2>1, CurrentFacts
    <2> HIDE DEF h
    <2>6. SameNames(gs, tsFiles')  BY <2>1, <2>4, <2>5, LastReplaced
    <2> QED  BY <1>2, <2>6 DEF SameNames
  <1>5. UNCHANGED <<queue, now, readers, tracks, frames, videoDTSEst, signals>>
        /\ writer' = "failed" /\ audioAUCount' = 1 /\ aus' = aus + 1
    BY DEF WriteAACFails, Arrive
  <1>6. Books' /\ ReadersOK' /\ DOMAIN tsFiles' = DOMAIN tsFiles
    BY <1>1, <1>4, <1>5, SameNamesRest DEF Rest
  <1>7. Rest'  BY <1>1, <1>5, <1>6 DEF Rest, tracks, FramesOK, FramesInv
  <1> QED  BY <1>6, <1>7, InvPrime

LEMMA CloseKeeps ==
    ASSUME Inv, Close
    PROVE  Inv'
  <1>1. Books /\ Rest  BY InvSplit
  <1>2. /\ UNCHANGED <<queue, now, readers, tracks, frames, videoDTSEst, aus, audioAUCount>>
        /\ writer' = "closed" /\ signals' = {tsCurrent} /\ tsFiles' = closeCurrent
    BY DEF Close, closed_buffers
  <1>3. Books' /\ ReadersOK' /\ DOMAIN tsFiles' = DOMAIN tsFiles
    BY <1>1, <1>2, CloseCurrentFacts, SameNamesRest DEF Rest
  <1>4. Rest'
    BY <1>1, <1>2, <1>3, CurrentFacts DEF Rest, tracks, FramesOK, FramesInv
  <1> QED  BY <1>3, <1>4, InvPrime

\* The steps that only pass time, skip a frame or an access unit, or wake.
LEMMA QuietKeeps ==
    ASSUME Inv, UNCHANGED <<tracks, writer, tsFiles, queue, audioAUCount, videoDTSEst>>,
           now' \in Nat, aus' \in Nat, FramesOK', signals' \in {signals, {}},
           ReadersOK => ReadersOK'
    PROVE  Inv'
  <1>1. Books /\ Rest  BY InvSplit
  <1>2. Books'  BY <1>1, FilesAlone
  <1>3. Rest'  BY <1>1 DEF Rest, tracks
  <1> QED  BY <1>2, <1>3, InvPrime

LEMMA SetReaderKeeps ==
    ASSUME Inv, NEW r \in Readers, NEW s, setReader(r, s),
           s \in [pc: {"idle", "read", "wait"}, file: {0} \cup DOMAIN tsFiles, readPos: Nat],
           s.pc # "idle" => s.file # 0
    PROVE  Inv'
  <1>1. Books /\ Rest  BY InvSplit
  <1>2. /\ readers' = [readers EXCEPT ![r] = s]
        /\ UNCHANGED <<tracks, now, frames, aus, writer, tsFiles, queue,
                       audioAUCount, videoDTSEst, signals>>
    BY DEF setReader
  <1>3. ReadersOK'
    BY <1>1, <1>2 DEF Rest, ReadersOK, ReadersInv
  <1>4. now' \in Nat /\ aus' \in Nat /\ FramesOK'
    BY <1>1, <1>2 DEF Books, Rest, FramesOK, FramesInv
  <1> QED  BY <1>2, <1>3, <1>4, QuietKeeps

LEMMA ReadKeeps ==
    ASSUME Inv, NEW r \in Readers, Read(r)
    PROVE  Inv'
  <1>1. Books /\ Rest  BY InvSplit
  <1> DEFINE RT == [pc: {"idle", "read", "wait"}, file: {0} \cup DOMAIN tsFiles, readPos: Nat]
  <1>2. /\ readers[r] \in RT /\ readers[r].pc = "read" /\ readers[r].file # 0
    BY <1>1 DEF Rest, ReadersOK, ReadersInv, Read
  <1>3. CASE setReader(r, [pc |-> "idle", file |-> 0, readPos |-> 0])
    BY <1>3, SetReaderKeeps
  <1>4. CASE setReader(r, [readers[r] EXCEPT !.pc = "wait"])
    BY <1>2, <1>4, SetReaderKeeps
  <1>5. CASE \E n \in {1, unread(r)} :
                unread(r) > 0 /\ setReader(r, [readers[r] EXCEPT !.readPos = @ + n])
    <2>1. PICK n \in {1, unread(r)} :
                unread(r) > 0 /\ setReader(r, [readers[r] EXCEPT !.readPos = @ + n])
      BY <1>5
    <2>2. tsFiles[readers[r].file] \in FileType
      BY <1>1, <1>2, LenProperties, ElementOfSeq DEF Books
    <2>3. unread(r) \in Int  BY <1>2, <2>2 DEF unread, FileType
    <2>4. n \in Nat  BY <2>1, <2>3
    <2> DEFINE s == [readers[r] EXCEPT !.readPos = @ + n]
    <2>5. s \in RT /\ s.pc = "read" /\ s.file # 0  BY <1>2, <2>4
    <2>6. setReader(r, s)  BY <2>1
    <2> HIDE DEF s
    <2> QED  BY <2>5, <2>6, SetReaderKeeps
  <1> QED  BY <1>3, <1>4, <1>5 DEF Read

LEMMA TSFileKeeps ==
    ASSUME Inv, NEW r \in Readers, NEW name \in DOMAIN tsByName, TSFile(r, name)
    PROVE  Inv'
  <1>1. Books /\ Rest  BY InvSplit
  <1>2. tsByName[name] \in DOMAIN tsFiles /\ tsByName[name] # 0
    BY <1>1, CurrentFacts DEF Books
  <1> DEFINE s == [pc |-> "read", file |-> tsByName[name], readPos |-> 0]
  <1>3. /\ s \in [pc: {"idle", "read", "wait"}, file: {0} \cup DOMAIN tsFiles, readPos: Nat]
        /\ s.file # 0 /\ setReader(r, s)
    BY <1>2 DEF TSFile
  <1> HIDE DEF s
  <1> QED  BY <1>3, SetReaderKeeps

LEMMA NextInv == Inv /\ [Next]_vars => Inv'
  <1> SUFFICES ASSUME Inv, [Next]_vars PROVE Inv'
    OBVIOUS
  <1>0. Books /\ Rest /\ now \in Nat /\ aus \in Nat /\ FramesOK  BY InvSplit DEF Books, Rest
  <1>1. CASE Second
    <2>1. /\ UNCHANGED <<tracks, writer, tsFiles, queue, audioAUCount, videoDTSEst>>
          /\ UNCHANGED <<frames, signals, readers, aus>> /\ now' = now + 1
      BY <1>1 DEF Second
    <2>2. FramesOK' /\ (ReadersOK => ReadersOK')
      BY <1>0, <2>1 DEF FramesOK, FramesInv, ReadersOK, ReadersInv
    <2>3. now' \in Nat /\ aus' \in Nat /\ signals' \in {signals, {}}  BY <1>0, <2>1
    <2> QED  BY <2>1, <2>2, <2>3, QuietKeeps
  <1>2. ASSUME NEW frame \in Arriving, SkipH264(frame)  PROVE Inv'
    <2>1. /\ UNCHANGED <<tracks, writer, tsFiles, queue, audioAUCount, videoDTSEst>>
          /\ UNCHANGED <<now, signals, readers, aus>> /\ frames' = frame.rest
      BY <1>2 DEF SkipH264
    <2>2. FramesOK' /\ (ReadersOK => ReadersOK')
      BY <1>0, <2>1, FramesGoOn DEF ReadersOK, ReadersInv
    <2>3. now' \in Nat /\ aus' \in Nat /\ signals' \in {signals, {}}  BY <1>0, <2>1
    <2> QED  BY <2>1, <2>2, <2>3, QuietKeeps
  <1>3. ASSUME NEW k \in 1..2, SkipAudio(k)  PROVE Inv'
    <2>1. /\ UNCHANGED <<tracks, writer, tsFiles, queue, audioAUCount, videoDTSEst>>
          /\ UNCHANGED <<now, frames, signals, readers>> /\ aus' = aus + k
      BY <1>3 DEF SkipAudio, Arrive
    <2>2. FramesOK' /\ (ReadersOK => ReadersOK')
      BY <1>0, <2>1 DEF FramesOK, FramesInv, ReadersOK, ReadersInv
    <2>3. now' \in Nat /\ aus' \in Nat /\ signals' \in {signals, {}}  BY <1>0, <2>1
    <2> QED  BY <2>1, <2>2, <2>3, QuietKeeps
  <1>4. CASE Broadcast
    <2>1. /\ UNCHANGED <<tracks, writer, tsFiles, queue, audioAUCount, videoDTSEst>>
          /\ UNCHANGED <<now, frames, aus>> /\ signals' = {}
          /\ readers' = [r \in Readers |->
                 IF readers[r].pc = "wait" /\ readers[r].file \in signals
                 THEN [readers[r] EXCEPT !.pc = "read"] ELSE readers[r]]
      BY <1>4 DEF Broadcast
    <2>2. FramesOK' /\ (ReadersOK => ReadersOK')
      BY <1>0, <2>1 DEF FramesOK, FramesInv, ReadersOK, ReadersInv
    <2>3. now' \in Nat /\ aus' \in Nat /\ signals' \in {signals, {}}  BY <1>0, <2>1
    <2> QED  BY <2>1, <2>2, <2>3, QuietKeeps
  <1>5. CASE UNCHANGED vars
    <2>1. /\ UNCHANGED <<tracks, writer, tsFiles, queue, audioAUCount, videoDTSEst>>
          /\ UNCHANGED <<now, frames, aus, signals, readers>>
      BY <1>5 DEF vars
    <2>2. FramesOK' /\ (ReadersOK => ReadersOK')
      BY <1>0, <2>1 DEF FramesOK, FramesInv, ReadersOK, ReadersInv
    <2>3. now' \in Nat /\ aus' \in Nat /\ signals' \in {signals, {}}  BY <1>0, <2>1
    <2> QED  BY <2>1, <2>2, <2>3, QuietKeeps
  <1>6. CASE WriteVideo
    BY <1>2, <1>6, WriteH264Keeps DEF WriteVideo
  <1>7. CASE WriteAAC
    BY <1>3, <1>7, WriteAudioOnlyKeeps, WriteAudioKeeps, WriteAACFailsKeeps DEF WriteAAC
  <1>8. CASE Close
    BY <1>8, CloseKeeps
  <1>9. ASSUME NEW r \in Readers, Read(r) \/ \E name \in DOMAIN tsByName : TSFile(r, name)
        PROVE  Inv'
    BY <1>9, ReadKeeps, TSFileKeeps
  <1> QED  BY <1>1, <1>4, <1>5, <1>6, <1>7, <1>8, <1>9 DEF Next

\* In every state of the muxer the playlist lists the youngest segments, each
\* name of tsByName stands for a listed segment that has it, and who reads a
\* segment reads one that exists: the invariant that the others follow from.
THEOREM MuxerInvariant == Spec => []Inv
  BY InitInv, NextInv, PTL DEF Spec

\* The state of the muxer has its types; above all, tsQueue, tsByName, the
\* pending broadcasts and the readers refer to segments that were created.
THEOREM MuxerTypeCorrect == Spec => []TypeOK
  <1>1. Inv => TypeOK  BY DEF Inv
  <1> QED  BY <1>1, MuxerInvariant, PTL

\* The playlist that Playlist returns and the segments that TSFile serves agree
\* in every state: numbers, names, and no name that has left the playlist.
THEOREM MuxerPlaylistIsServed == Spec => []PlaylistIsServed
  <1>1. Inv => PlaylistIsServed
    <2> SUFFICES ASSUME Inv PROVE PlaylistIsServed
      OBVIOUS
    <2>1. Books  BY InvSplit
    <2>2. /\ DOMAIN tsQueue = 1 .. Len(tsQueue) /\ DOMAIN tsFiles = 1 .. Len(tsFiles)
          /\ Len(tsFiles) \in Nat /\ Len(tsQueue) \in Nat /\ tsDeleteCount \in Nat
          /\ Len(tsQueue) = Len(tsFiles) - tsDeleteCount
          /\ \A k \in 1 .. Len(tsQueue) : tsQueue[k] = tsDeleteCount + k
      BY <2>1, LenProperties DEF Books, QueueInv
    <2> DEFINE segments == [i \in DOMAIN tsQueue |->
                              [name |-> tsFiles[tsQueue[i]].name,
                               duration |-> duration(tsFiles[tsQueue[i]])]]
    <2>3. Playlist.sequence = tsDeleteCount /\ Playlist.segments = segments
      BY DEF Playlist
    <2>4. /\ DOMAIN segments = 1 .. Len(tsQueue) /\ Len(segments) = Len(tsQueue)
          /\ \A k \in 1 .. Len(tsQueue) : segments[k].name = tsFiles[tsQueue[k]].name
      BY <2>2
    <2> HIDE DEF segments
    <2>5. ASSUME NEW k \in 1 .. Len(tsQueue)
          PROVE  LET i == tsDeleteCount + k IN
                 /\ i \in DOMAIN tsFiles
                 /\ segments[k].name = tsFiles[i].name
                 /\ ~sharesName(i) => /\ tsFiles[i].name \in DOMAIN tsByName
                                      /\ tsByName[tsFiles[i].name] = i
      <3> DEFINE i == tsDeleteCount + k
      <3>1. i \in 1 .. Len(tsFiles) /\ i > tsDeleteCount /\ tsQueue[k] = i  BY <2>2
      <3> HIDE DEF i
      <3>2. ~sharesName(i) => /\ tsFiles[i].name \in DOMAIN tsByName
                              /\ tsByName[tsFiles[i].name] = i
        BY <2>1, <3>1 DEF Books, NamesInv
      <3> QED  BY <2>2, <2>4, <3>1, <3>2 DEF i
    <2>6. tsDeleteCount + Len(segments) = Len(tsFiles)  BY <2>2, <2>4
    <2>7. \A n \in DOMAIN tsByName : tsByName[n] > tsDeleteCount
      BY <2>1 DEF Books, NamesInv
    <2> QED  BY <2>3, <2>4, <2>5, <2>6, <2>7 DEF PlaylistIsServed
  <1> QED  BY <1>1, MuxerInvariant, PTL

-----------------------------------------------------------------------------
(* Decoding times. *)

EstType == [initializing: 0..2, prevDTS: Int, prevPTS: Int, prevPrevPTS: Int]

LEMMA TFacts ==
    ASSUME NEW n \in Int
    PROVE  /\ T(n) \in Int /\ T(n + 1) = T(n) + FrameInterval
           /\ n >= 0 => T(n) >= ptsOffset
  <1>1. n * FrameInterval \in Int /\ (n + 1) * FrameInterval = n * FrameInterval + FrameInterval
    BY SegmentAssumption
  <1>2. n >= 0 => n * FrameInterval >= 0  BY SegmentAssumption
  <1> DEFINE m == n * FrameInterval
             l == (n + 1) * FrameInterval
  <1>3. T(n) = m + ptsOffset /\ T(n + 1) = l + ptsOffset  BY DEF T
  <1>4. m \in Int /\ l = m + FrameInterval /\ (n >= 0 => m >= 0)  BY <1>1, <1>2
  <1> HIDE DEF m, l
  <1> QED  BY <1>3, <1>4, SegmentAssumption

\* The times around an anchor.
LEMMA Around ==
    ASSUME NEW A \in Int
    PROVE  /\ T(A) \in Int
           /\ T(A - 1) = T(A) - FrameInterval
           /\ T(A - 2) = T(A) - 2 * FrameInterval
           /\ T(A - 3) = T(A) - 3 * FrameInterval
           /\ T(A + 1) = T(A) + FrameInterval
  <1>1. /\ (A - 1) + 1 = A /\ (A - 2) + 1 = A - 1 /\ (A - 3) + 1 = A - 2
        /\ A - 1 \in Int /\ A - 2 \in Int /\ A - 3 \in Int
    OBVIOUS
  <1>2. /\ T(A) \in Int /\ T(A - 1) \in Int /\ T(A - 2) \in Int /\ T(A - 3) \in Int
        /\ T((A - 1) + 1) = T(A - 1) + FrameInterval
        /\ T((A - 2) + 1) = T(A - 2) + FrameInterval
        /\ T((A - 3) + 1) = T(A - 3) + FrameInterval
        /\ T(A + 1) = T(A) + FrameInterval
    BY <1>1, TFacts
  <1>3. /\ T(A) = T(A - 1) + FrameInterval
        /\ T(A - 1) = T(A - 2) + FrameInterval
        /\ T(A - 2) = T(A - 3) + FrameInterval
    BY <1>1, <1>2
  <1> QED  BY <1>2, <1>3, SegmentAssumption

LEMMA FeedFacts ==
    ASSUME NEW d \in EstType, NEW pts \in Int, d.initializing = 0
    PROVE  /\ Feed(d, pts).initializing = 0
           /\ Feed(d, pts).prevPTS = pts /\ Feed(d, pts).prevPrevPTS = d.prevPTS
           /\ pts > d.prevPTS => Feed(d, pts).prevDTS = nextDTS(d)
           /\ pts <= d.prevPTS => Feed(d, pts).prevDTS = d.prevDTS + Millisecond
  BY MillisecondAssumption DEF EstType, Feed, estimate, nextDTS

\* A presentation time after the first two: from one phase to another.
LEMMA PhaseAnchor ==
    ASSUME NEW d \in EstType, d.initializing = 0, NEW A \in Int, NEW bs \in Seq(Int),
           Phase(d, A, bs), Len(bs) = 0, NEW cs \in Seq(Int), Shape(A, cs)
    PROVE  LET e == Feed(d, T(A + Len(cs) + 1)) IN
           /\ Phase(e, A + Len(cs) + 1, cs)
           /\ e.prevDTS > d.prevDTS /\ e.prevDTS <= e.prevPTS
  <1> DEFINE n == A + Len(cs) + 1
             e == Feed(d, T(n))
             P == d.prevPTS
             Q == d.prevPrevPTS
             D == d.prevDTS
             nx == nextDTS(d)
  <1>1. /\ Len(cs) \in 0..3 /\ n \in Int /\ P \in Int /\ Q \in Int /\ D \in Int
        /\ Millisecond \in Nat \ {0} /\ FrameInterval \in Nat \ {0}
        /\ 3 * Millisecond < 2 * FrameInterval
    BY MillisecondAssumption, SegmentAssumption, TimesAssumption, LenProperties
       DEF EstType, Shape
  <1>2. /\ P <= T(A) /\ P # Q /\ D < nx /\ nx <= T(A)
        /\ nx + 2 * Millisecond < T(A + 1)
        /\ nx = IF P < Q THEN P ELSE Q + Millisecond
    BY DEF Phase, nextDTS
  <1>3. T(A) \in Int /\ T(A + 1) = T(A) + FrameInterval /\ T(n) = T(A) + (Len(cs) + 1) * FrameInterval
    <2>1. /\ T(n) \in Int /\ T(n - 1) = T(n) - FrameInterval
          /\ T(n - 2) = T(n) - 2 * FrameInterval /\ T(n - 3) = T(n) - 3 * FrameInterval
          /\ T(n - 3 + (-1)) = T(n) - 4 * FrameInterval
      <3>1. T((n - 3) - 1) = T(n - 3) - FrameInterval /\ (n - 3) - 1 = n - 3 + (-1)  BY <1>1, Around
      <3>2. /\ T(n) \in Int /\ T(n - 1) = T(n) - FrameInterval
            /\ T(n - 2) = T(n) - 2 * FrameInterval /\ T(n - 3) = T(n) - 3 * FrameInterval
        BY <1>1, Around
      <3> HIDE DEF n
      <3>3. T(n - 3 + (-1)) = T(n - 3) - FrameInterval  BY <3>1
      <3> QED  BY <1>1, <3>2, <3>3
    <2>2. /\ Len(cs) = 0 => A = n - 1
          /\ Len(cs) = 1 => A = n - 2
          /\ Len(cs) = 2 => A = n - 3
          /\ Len(cs) = 3 => A = n - 3 + (-1)
      <3> DEFINE l == Len(cs)
      <3>1. l \in 0..3 /\ n = A + l + 1  BY <1>1
      <3> HIDE DEF l, n
      <3>2. /\ l = 0 => A = n - 1
            /\ l = 1 => A = n - 2
            /\ l = 2 => A = n - 3
            /\ l = 3 => A = n - 3 + (-1)
        BY <3>1
      <3> QED  BY <3>2 DEF l
    <2>3. T(A) \in Int /\ T(A + 1) = T(A) + FrameInterval  BY Around
    <2> HIDE DEF n
    <2>4. T(A) = T(n) - (Len(cs) + 1) * FrameInterval
      <3>1. CASE Len(cs) = 0
        BY <1>1, <2>1, <2>2, <3>1
      <3>2. CASE Len(cs) = 1
        BY <1>1, <2>1, <2>2, <3>2
      <3>3. CASE Len(cs) = 2
        BY <1>1, <2>1, <2>2, <3>3
      <3>4. CASE Len(cs) = 3
        BY <1>1, <2>1, <2>2, <3>4
      <3> QED  BY <1>1, <3>1, <3>2, <3>3, <3>4
    <2>5. (Len(cs) + 1) * FrameInterval \in Int  BY <1>1
    <2> QED  BY <2>1, <2>3, <2>4, <2>5
  <1>4. T(n) \in Int /\ T(n) > P
    <2>1. (Len(cs) + 1) * FrameInterval >= FrameInterval /\ (Len(cs) + 1) * FrameInterval \in Int
      BY <1>1
    <2> DEFINE m == (Len(cs) + 1) * FrameInterval
    <2>2. T(n) = T(A) + m /\ m \in Int /\ m >= FrameInterval  BY <1>3, <2>1
    <2> HIDE DEF n, m
    <2> QED  BY <1>1, <1>2, <1>3, <2>2
  <1>5. e.prevPTS = T(n) /\ e.prevPrevPTS = P /\ e.prevDTS = nx
    <2> HIDE DEF n
    <2> QED  BY <1>4, FeedFacts
  <1>6. e.prevDTS > D /\ e.prevDTS <= e.prevPTS
    BY <1>1, <1>2, <1>3, <1>4, <1>5
  <1>7. Phase(e, n, cs)
    <2>0. nextDTS(e) = P + Millisecond
      BY <1>1, <1>4, <1>5 DEF nextDTS
    <2>1. CASE Len(cs) = 0
      <3>1. n = A + 1 /\ T(n) = T(A) + FrameInterval  BY <1>1, <1>3, <2>1
      <3>2. T(n + 1) = T(n) + FrameInterval  BY <1>1, Around
      <3>3. T(A) \in Int  BY <1>3
      <3> HIDE DEF n, e, P, Q, nx
      <3>4. nx < P + Millisecond  BY <1>1, <1>2
      <3>5. P + Millisecond <= T(n) /\ P + Millisecond + 2 * Millisecond < T(n + 1)
        BY <1>1, <1>2, <3>1, <3>2, <3>3
      <3>6. /\ e.prevPTS <= T(n) /\ e.prevPTS # e.prevPrevPTS
            /\ e.prevDTS < nextDTS(e) /\ nextDTS(e) <= T(n)
            /\ nextDTS(e) + 2 * Millisecond < T(n + 1)
        BY <1>1, <1>4, <1>5, <2>0, <3>4, <3>5
      <3> QED  BY <2>1, <3>6 DEF Phase
    <2>2. CASE Len(cs) = 1
      <3>1. cs[1] = n - 1 /\ n - 1 = A + 1  BY <1>1, <2>2 DEF Shape
      <3> HIDE DEF n, e
      <3>2. e.prevDTS + 2 * Millisecond < T(n - 1)  BY <1>2, <1>5, <3>1
      <3> QED  BY <1>5, <2>2, <3>1, <3>2 DEF Phase
    <2>3. CASE Len(cs) = 2
      <3>1. cs[1] = n - 2 /\ cs[2] = n - 1 /\ n - 2 = A + 1  BY <1>1, <2>3 DEF Shape
      <3> HIDE DEF n, e
      <3>2. e.prevDTS + 2 * Millisecond < T(n - 2)  BY <1>2, <1>5, <3>1
      <3> QED  BY <1>5, <2>3, <3>1, <3>2 DEF Phase
    <2>4. CASE Len(cs) = 3
      <3>1. cs[1] = n - 2 /\ cs[2] = n - 3 /\ cs[3] = n - 1 /\ n - 3 = A + 1
        BY <1>1, <2>4 DEF Shape
      <3> HIDE DEF n, e
      <3>2. e.prevDTS + 2 * Millisecond < T(n - 3)  BY <1>2, <1>5, <3>1
      <3> QED  BY <1>5, <2>4, <3>1, <3>2 DEF Phase
    <2> QED  BY <1>1, <2>1, <2>2, <2>3, <2>4
  <1> QED  BY <1>5, <1>6, <1>7

LEMMA PhaseB ==
    ASSUME NEW d \in EstType, d.initializing = 0, NEW A \in Int, NEW bs \in Seq(Int),
           Phase(d, A, bs), Len(bs) > 0, NEW cs \in Seq(Int), Len(cs) = Len(bs) - 1,
           \A i \in 1 .. Len(cs) : cs[i] = bs[i + 1]
    PROVE  LET e == Feed(d, T(bs[1])) IN
           /\ Phase(e, A, cs)
           /\ e.prevDTS > d.prevDTS /\ e.prevDTS <= e.prevPTS
  <1> DEFINE n == bs[1]
             e == Feed(d, T(n))
             P == d.prevPTS
             Q == d.prevPrevPTS
             D == d.prevDTS
             ms == Millisecond
             t == T(A)
             w == FrameInterval
  <1>1. /\ Len(bs) \in Nat /\ P \in Int /\ Q \in Int /\ D \in Int
        /\ n \in Int /\ T(n) \in Int
        /\ ms \in Nat \ {0} /\ w \in Nat \ {0} /\ 3 * ms < 2 * w
    <2>1. Len(bs) \in Nat /\ n \in Int  BY LenProperties, ElementOfSeq
    <2>2. T(n) \in Int
      <3> HIDE DEF n
      <3> QED  BY <2>1, TFacts
    <2> QED  BY <2>1, <2>2, MillisecondAssumption, SegmentAssumption, TimesAssumption DEF EstType
  <1>2. /\ t \in Int /\ T(A - 1) = t - w /\ T(A - 2) = t - 2 * w
        /\ T(A - 3) = t - 3 * w /\ T(A + 1) = t + w
    BY Around
  <1>11. 2 * w \in Int /\ 3 * w \in Int /\ 2 * ms \in Int /\ w < 2 * w /\ 2 * w < 3 * w
         /\ ms < 2 * ms /\ 2 * ms < 2 * w
    BY <1>1
  <1>3. /\ e.prevPTS = T(n) /\ e.prevPrevPTS = P
        /\ T(n) > P => e.prevDTS = nextDTS(d)
        /\ T(n) <= P => e.prevDTS = D + ms
    <2> HIDE DEF n
    <2> QED  BY <1>1, FeedFacts
  <1>4. /\ nextDTS(e) = IF T(n) < P THEN T(n) ELSE P + ms
        /\ nextDTS(d) = IF P < Q THEN P ELSE Q + ms
    BY <1>3 DEF nextDTS
  <1>5. CASE Len(bs) = 1 /\ n = A - 1 /\ P = t /\ D + 2 * ms < T(A - 1)
    <2>1. Len(cs) = 0  BY <1>5
    <2>2. T(n) = t - w /\ P = t /\ D + 2 * ms < t - w /\ T(A + 1) = t + w  BY <1>2, <1>5
    <2> HIDE DEF n, e, P, Q, D, ms, t, w
    <2>5. T(n) <= P /\ T(n) < P  BY <1>1, <1>2, <1>11, <2>2
    <2>3. e.prevDTS = D + ms /\ e.prevPTS = t - w /\ e.prevPrevPTS = t /\ nextDTS(e) = t - w
      BY <1>1, <1>2, <1>11, <1>3, <1>4, <2>2, <2>5
    <2>6. D + ms < t - w /\ t - w < t /\ t - w <= t /\ t - w # t
          /\ t - w + 2 * ms < t + w /\ D + ms > D /\ D + ms <= t - w
      BY <1>1, <1>2, <1>11, <2>2
    <2>4. /\ e.prevPTS <= t /\ e.prevPTS # e.prevPrevPTS
          /\ e.prevDTS < nextDTS(e) /\ nextDTS(e) <= t
          /\ nextDTS(e) + 2 * ms < T(A + 1)
          /\ e.prevDTS > D /\ e.prevDTS <= e.prevPTS
      BY <2>2, <2>3, <2>6
    <2> QED  BY <2>1, <2>4 DEF Phase, e, D, ms, t, n
  <1>6. CASE Len(bs) = 2 /\ n = A - 2 /\ bs[2] = A - 1 /\ P = t /\ D + 2 * ms < T(A - 2)
    <2>1. Len(cs) = 1 /\ cs[1] = A - 1  BY <1>6
    <2>2. T(n) = t - 2 * w /\ P = t /\ D + 2 * ms < t - 2 * w /\ T(A - 2) = t - 2 * w
      BY <1>2, <1>6
    <2> HIDE DEF n, e, P, Q, D, ms, t, w
    <2>5. T(n) <= P /\ T(n) < P  BY <1>1, <1>2, <1>11, <2>2
    <2>3. e.prevDTS = D + ms /\ e.prevPTS = t - 2 * w /\ e.prevPrevPTS = t
      BY <1>1, <1>2, <1>11, <1>3, <2>2, <2>5
    <2>6. D + ms < t - 2 * w /\ D + ms <= t - 2 * w /\ t - 2 * w < t /\ t - 2 * w <= t - 2 * w /\ D + ms > D
      BY <1>1, <1>2, <1>11, <2>2
    <2>4. /\ e.prevPTS < e.prevPrevPTS /\ e.prevPTS <= T(A - 2) /\ e.prevDTS < e.prevPTS
          /\ e.prevDTS > D /\ e.prevDTS <= e.prevPTS
      BY <2>2, <2>3, <2>6
    <2> QED  BY <2>1, <2>4 DEF Phase, e, D, n
  <1>7. CASE /\ Len(bs) = 3 /\ n = A - 2 /\ bs[2] = A - 3 /\ bs[3] = A - 1
             /\ P = t /\ D + 2 * ms < T(A - 3)
    <2>1. Len(cs) = 2 /\ cs[1] = A - 3 /\ cs[2] = A - 1  BY <1>7
    <2>2. /\ T(n) = t - 2 * w /\ P = t /\ D + 2 * ms < t - 3 * w
          /\ T(A - 2) = t - 2 * w /\ T(A - 3) = t - 3 * w
      BY <1>2, <1>7
    <2> HIDE DEF n, e, P, Q, D, ms, t, w
    <2>5. T(n) <= P /\ T(n) < P  BY <1>1, <1>2, <1>11, <2>2
    <2>3. e.prevDTS = D + ms /\ e.prevPTS = t - 2 * w
      BY <1>1, <1>2, <1>11, <1>3, <2>2, <2>5
    <2>4. /\ e.prevPTS = T(A - 2) /\ e.prevDTS + ms < T(A - 3)
          /\ e.prevDTS > D /\ e.prevDTS <= e.prevPTS
      BY <1>1, <1>2, <1>11, <2>2, <2>3
    <2> QED  BY <2>1, <2>4 DEF Phase, e, D, n, ms
  <1>8. CASE /\ Len(bs) = 2 /\ n = A - 3 /\ bs[2] = A - 1
             /\ P = T(A - 2) /\ D + ms < T(A - 3)
    <2>1. Len(cs) = 1 /\ cs[1] = A - 1  BY <1>8
    <2>2. T(n) = t - 3 * w /\ P = t - 2 * w /\ D + ms < t - 3 * w /\ T(A - 2) = t - 2 * w
      BY <1>2, <1>8
    <2> HIDE DEF n, e, P, Q, D, ms, t, w
    <2>5. T(n) <= P /\ T(n) < P  BY <1>1, <1>2, <1>11, <2>2
    <2>3. e.prevDTS = D + ms /\ e.prevPTS = t - 3 * w /\ e.prevPrevPTS = t - 2 * w
      BY <1>1, <1>2, <1>11, <1>3, <2>2, <2>5
    <2>6. D + ms < t - 3 * w /\ D + ms <= t - 3 * w /\ t - 3 * w < t - 2 * w
          /\ t - 3 * w <= t - 2 * w /\ D + ms > D
      BY <1>1, <1>2, <1>11, <2>2
    <2>4. /\ e.prevPTS < e.prevPrevPTS /\ e.prevPTS <= T(A - 2) /\ e.prevDTS < e.prevPTS
          /\ e.prevDTS > D /\ e.prevDTS <= e.prevPTS
      BY <2>2, <2>3, <2>6
    <2> QED  BY <2>1, <2>4 DEF Phase, e, D, n
  <1>9. CASE Len(bs) = 1 /\ n = A - 1 /\ P < Q /\ P <= T(A - 2) /\ D < P
    <2>1. Len(cs) = 0  BY <1>9
    <2>2. T(n) = t - w /\ P <= t - 2 * w /\ T(A + 1) = t + w /\ P < Q /\ D < P  BY <1>2, <1>9
    <2> HIDE DEF n, e, P, Q, D, ms, t, w
    <2>5. T(n) > P /\ ~(T(n) < P)  BY <1>1, <1>2, <1>11, <2>2
    <2>3. e.prevDTS = P /\ e.prevPTS = t - w /\ e.prevPrevPTS = P /\ nextDTS(e) = P + ms
      BY <1>1, <1>2, <1>11, <1>3, <1>4, <2>2, <2>5
    <2>4. /\ e.prevPTS <= t /\ e.prevPTS # e.prevPrevPTS
          /\ e.prevDTS < nextDTS(e) /\ nextDTS(e) <= t
          /\ nextDTS(e) + 2 * ms < T(A + 1)
          /\ e.prevDTS > D /\ e.prevDTS <= e.prevPTS
      BY <1>1, <1>2, <1>11, <2>2, <2>3
    <2> QED  BY <2>1, <2>4 DEF Phase, e, D, ms, t, n
  <1>10. \/ Len(bs) = 1 /\ n = A - 1 /\ P = t /\ D + 2 * ms < T(A - 1)
         \/ Len(bs) = 2 /\ n = A - 2 /\ bs[2] = A - 1 /\ P = t /\ D + 2 * ms < T(A - 2)
         \/ /\ Len(bs) = 3 /\ n = A - 2 /\ bs[2] = A - 3 /\ bs[3] = A - 1
            /\ P = t /\ D + 2 * ms < T(A - 3)
         \/ Len(bs) = 2 /\ n = A - 3 /\ bs[2] = A - 1 /\ P = T(A - 2) /\ D + ms < T(A - 3)
         \/ Len(bs) = 1 /\ n = A - 1 /\ P < Q /\ P <= T(A - 2) /\ D < P
    <2>1. ~(Len(bs) = 0)  BY <1>1
    <2> QED  BY <2>1, Zenon DEF Phase
  <1> QED  BY <1>5, <1>6, <1>7, <1>8, <1>9, <1>10

\* The first two frames.
LEMMA FeedFirst ==
    ASSUME NEW pts \in Int
    PROVE  LET e == Feed(NewDTSEstimator, pts) IN
           /\ e.initializing = 1 /\ e.prevDTS = Millisecond /\ e.prevPTS = pts
  BY MillisecondAssumption DEF Feed, NewDTSEstimator

LEMMA FeedSecond ==
    ASSUME NEW d \in EstType, d.initializing = 1, d.prevDTS = Millisecond, NEW A \in Int, A >= 0,
           d.prevPTS = T(A), NEW cs \in Seq(Int), Shape(A, cs)
    PROVE  LET e == Feed(d, T(A + Len(cs) + 1)) IN
           /\ e.initializing = 0 /\ Phase(e, A + Len(cs) + 1, cs)
           /\ e.prevDTS > d.prevDTS /\ e.prevDTS <= e.prevPTS
  <1> DEFINE n == A + Len(cs) + 1
             e == Feed(d, T(n))
             ms == Millisecond
             w == FrameInterval
  <1>1. /\ Len(cs) \in 0..3 /\ n \in Int /\ n >= 0 /\ ms \in Nat \ {0} /\ w \in Nat \ {0}
        /\ 3 * ms < 2 * w /\ 4 * ms < ptsOffset /\ ptsOffset \in Nat
    BY MillisecondAssumption, SegmentAssumption, TimesAssumption, LenProperties DEF Shape
  <1>2. T(A) \in Int /\ T(A + 1) = T(A) + w /\ T(A) >= ptsOffset  BY TFacts
  <1>3. T(n) \in Int /\ T(n) >= ptsOffset /\ T(n + 1) = T(n) + w
    <2> HIDE DEF n
    <2> QED  BY <1>1, TFacts
  <1>4. e.initializing = 0 /\ e.prevDTS = 2 * ms /\ e.prevPTS = T(n) /\ e.prevPrevPTS = T(A)
    <2> HIDE DEF n
    <2> QED  BY <1>1, <1>3 DEF Feed, EstType
  <1>5. e.prevDTS > d.prevDTS /\ e.prevDTS <= e.prevPTS
    <2> HIDE DEF n, e
    <2> QED  BY <1>1, <1>3, <1>4
  <1>6. Phase(e, n, cs)
    <2>1. CASE Len(cs) = 0
      <3>1. n = A + 1 /\ T(n) = T(A) + w  BY <1>1, <1>2, <2>1
      <3>2. nextDTS(e) = T(A) + ms
        <4> HIDE DEF n, e
        <4> QED  BY <1>1, <1>2, <1>3, <1>4, <3>1 DEF nextDTS
      <3> HIDE DEF n, e
      <3>3. /\ e.prevPTS <= T(n) /\ e.prevPTS # e.prevPrevPTS
            /\ e.prevDTS < nextDTS(e) /\ nextDTS(e) <= T(n)
            /\ nextDTS(e) + 2 * ms < T(n + 1)
        BY <1>1, <1>2, <1>3, <1>4, <3>1, <3>2
      <3> QED  BY <2>1, <3>3 DEF Phase
    <2>2. CASE Len(cs) = 1
      <3>1. cs[1] = n - 1 /\ n - 1 = A + 1  BY <1>1, <2>2 DEF Shape
      <3> HIDE DEF n, e
      <3>2. e.prevDTS + 2 * ms < T(n - 1)  BY <1>1, <1>2, <1>4, <3>1
      <3> QED  BY <1>4, <2>2, <3>1, <3>2 DEF Phase
    <2>3. CASE Len(cs) = 2
      <3>1. cs[1] = n - 2 /\ cs[2] = n - 1 /\ n - 2 = A + 1  BY <1>1, <2>3 DEF Shape
      <3> HIDE DEF n, e
      <3>2. e.prevDTS + 2 * ms < T(n - 2)  BY <1>1, <1>2, <1>4, <3>1
      <3> QED  BY <1>4, <2>3, <3>1, <3>2 DEF Phase
    <2>4. CASE Len(cs) = 3
      <3>1. cs[1] = n - 2 /\ cs[2] = n - 3 /\ cs[3] = n - 1 /\ n - 3 = A + 1
        BY <1>1, <2>4 DEF Shape
      <3> HIDE DEF n, e
      <3>2. e.prevDTS + 2 * ms < T(n - 3)  BY <1>1, <1>2, <1>4, <3>1
      <3> QED  BY <1>4, <2>4, <3>1, <3>2 DEF Phase
    <2> QED  BY <1>1, <2>1, <2>2, <2>3, <2>4
  <1> QED  BY <1>4, <1>5, <1>6

\* The decoding time that a frame gets is later than the one before and not
\* later than the frame's presentation time.
Grows ==
    /\ videoDTSEst'.prevDTS > videoDTSEst.prevDTS
    /\ videoDTSEst'.prevDTS <= videoDTSEst'.prevPTS

LEMMA WriteH264Grows ==
    ASSUME Inv, EstInv, NEW frame \in Arriving, WriteH264(frame)
    PROVE  EstInv' /\ Grows
  <1> DEFINE d == videoDTSEst
             A == frames.anchor
             n == frame.n
             cs == frame.rest.bs
             e == Feed(d, T(n))
  <1>1. Books /\ Rest  BY InvSplit
  <1>2. /\ d \in EstType /\ A \in Int /\ frames.bs \in Seq(Int) /\ FramesOK
        /\ A >= -1 /\ Len(frames.bs) \in Nat
    BY <1>1, LenProperties DEF Rest, EstType, FramesOK, FramesInv
  <1>3. videoDTSEst' = e /\ frames' = frame.rest /\ videoTrack /\ videoTrack' = videoTrack
    BY DEF WriteH264, T, tracks
  <1>4. /\ n \in Nat /\ frame.idr \in BOOLEAN /\ cs \in Seq(Int) /\ Len(cs) \in Nat
        /\ frame.rest \in [anchor: Int, bs: Seq(Int)]
        /\ \/ /\ Len(frames.bs) = 0 /\ frame.rest.anchor = n
              /\ n = A + Len(cs) + 1 /\ Shape(A, cs)
              /\ frame.idr => Len(cs) = 0
           \/ /\ Len(frames.bs) > 0 /\ n = frames.bs[1] /\ ~frame.idr
              /\ frame.rest.anchor = A /\ Len(cs) = Len(frames.bs) - 1
              /\ \A i \in 1 .. Len(cs) : cs[i] = frames.bs[i + 1]
    BY <1>2, ArrivingCases, LenProperties
  <1>5. T(n) \in Int /\ T(n) >= ptsOffset  BY <1>4, TFacts
  <1>6. tsFiles'[Len(tsFiles')].firstPacketWritten
    <2> DEFINE due == frame.idr /\ longEnough
               fs == IF due THEN rotated ELSE tsFiles
    <2>1. fs \in Seq(FileType) /\ Len(fs) > 0
      BY <1>1, CurrentFacts, RotatedFacts DEF Books, OneMore
    <2>2. tsFiles' = [fs EXCEPT ![Len(fs)] = write(@, TRUE, T(n), T(n), 1)]
      BY DEF WriteH264, T
    <2>3. T(n) \in Nat /\ 1 \in Nat /\ TRUE \in BOOLEAN  BY <1>5, SegmentAssumption
    <2> HIDE DEF fs, n
    <2>4. /\ SameNames(fs, tsFiles')
          /\ tsFiles'[Len(fs)] = write(fs[Len(fs)], TRUE, T(n), T(n), 1)
      BY <2>1, <2>2, <2>3, CurrentWritten
    <2>5. fs[Len(fs)] \in FileType  BY <2>1, LenProperties, ElementOfSeq
    <2>6. write(fs[Len(fs)], TRUE, T(n), T(n), 1).firstPacketWritten
      BY <2>3, <2>5, WriteFacts
    <2>7. Len(tsFiles') = Len(fs)  BY <2>4 DEF SameNames
    <2> QED  BY <2>4, <2>6, <2>7
  <1>7. SUFFICES /\ e.initializing < 2
                 /\ e.initializing = 1 => /\ Len(cs) = 0 /\ e.prevPTS = T(frame.rest.anchor)
                                          /\ e.prevDTS = Millisecond /\ frame.rest.anchor >= 0
                 /\ e.initializing = 0 => Phase(e, frame.rest.anchor, cs)
                 /\ e.prevDTS > d.prevDTS /\ e.prevDTS <= e.prevPTS
    <2> HIDE DEF e
    <2> QED  BY <1>3, <1>6, MillisecondAssumption DEF EstInv, Grows, tsCurrent
  <1>8. CASE d.initializing = 2
    <2>1. ~tsFiles[tsCurrent].firstPacketWritten  BY <1>3, <1>8 DEF EstInv
    <2>2. frame.idr  BY <2>1 DEF WriteH264
    <2>3. d = NewDTSEstimator  BY <1>8 DEF EstInv
    <2>4. d.prevDTS = 0  BY <2>3 DEF NewDTSEstimator
    <2>5. e.initializing = 1 /\ e.prevDTS = Millisecond /\ e.prevPTS = T(n)
      <3> HIDE DEF n
      <3> QED  BY <1>5, <2>3, FeedFirst
    <2>6. Len(cs) = 0 /\ frame.rest.anchor = n  BY <1>4, <2>2
    <2> HIDE DEF e
    <2> QED  BY <1>4, <1>5, <2>4, <2>5, <2>6, MillisecondAssumption, TimesAssumption, SegmentAssumption
  <1>9. CASE d.initializing = 1
    <2>1. Len(frames.bs) = 0 /\ d.prevPTS = T(A) /\ d.prevDTS = Millisecond /\ A >= 0
      BY <1>9 DEF EstInv
    <2>2. frame.rest.anchor = n /\ n = A + Len(cs) + 1 /\ Shape(A, cs)  BY <1>4, <2>1
    <2>3. /\ e.initializing = 0 /\ Phase(e, n, cs)
          /\ e.prevDTS > d.prevDTS /\ e.prevDTS <= e.prevPTS
      <3> HIDE DEF d, A, cs, n
      <3> QED  BY <1>2, <1>4, <1>9, <2>1, <2>2, FeedSecond DEF e
    <2> QED  BY <2>2, <2>3
  <1>10. CASE d.initializing = 0
    <2>1. Phase(d, A, frames.bs)  BY <1>10 DEF EstInv
    <2>2. e.initializing = 0
      <3> HIDE DEF n
      <3> QED  BY <1>2, <1>5, <1>10, FeedFacts
    <2>3. CASE Len(frames.bs) = 0
      <3>1. frame.rest.anchor = n /\ n = A + Len(cs) + 1 /\ Shape(A, cs)  BY <1>4, <2>3
      <3>2. Phase(e, n, cs) /\ e.prevDTS > d.prevDTS /\ e.prevDTS <= e.prevPTS
        <4> HIDE DEF d, A, cs, n
        <4> QED  BY <1>2, <1>4, <1>10, <2>1, <2>3, <3>1, PhaseAnchor DEF e
      <3> QED  BY <2>2, <3>1, <3>2
    <2>4. CASE Len(frames.bs) > 0
      <3>1. /\ n = frames.bs[1] /\ frame.rest.anchor = A /\ Len(cs) = Len(frames.bs) - 1
            /\ \A i \in 1 .. Len(cs) : cs[i] = frames.bs[i + 1]
        BY <1>4, <2>4
      <3>2. Phase(e, A, cs) /\ e.prevDTS > d.prevDTS /\ e.prevDTS <= e.prevPTS
        <4> DEFINE bs == frames.bs
        <4>1. /\ bs \in Seq(Int) /\ Len(bs) > 0 /\ Phase(d, A, bs) /\ n = bs[1]
              /\ Len(cs) = Len(bs) - 1 /\ \A i \in 1 .. Len(cs) : cs[i] = bs[i + 1]
          BY <1>2, <2>1, <2>4, <3>1
        <4> HIDE DEF d, A, cs, n, bs
        <4> QED  BY <1>2, <1>4, <1>10, <4>1, PhaseB DEF e
      <3> QED  BY <2>2, <3>1, <3>2
    <2> QED  BY <1>2, <2>3, <2>4
  <1> QED  BY <1>2, <1>8, <1>9, <1>10 DEF EstType

\* A step that feeds the estimator nothing.
LEMMA EstKept ==
    ASSUME EstInv, UNCHANGED <<videoDTSEst, videoTrack>>,
           videoDTSEst.initializing = 2 \/ UNCHANGED frames,
           videoTrack => tsFiles'[Len(tsFiles')].firstPacketWritten
                            = tsFiles[Len(tsFiles)].firstPacketWritten
    PROVE  EstInv'
  BY DEF EstInv, tsCurrent

LEMMA NextGrows == Inv /\ EstInv /\ [Next]_vars => EstInv' /\ (videoDTSEst' # videoDTSEst => Grows)
  <1> SUFFICES ASSUME Inv, EstInv, [Next]_vars
               PROVE  EstInv' /\ (videoDTSEst' # videoDTSEst => Grows)
    OBVIOUS
  <1>0. Books /\ Rest /\ Len(tsFiles) \in Nat /\ Len(tsFiles) > 0 /\ tsCurrent = Len(tsFiles)
        /\ tsFiles \in Seq(FileType) /\ aus \in Nat /\ videoTrack \in BOOLEAN
        /\ Len(tsFiles) \in 1 .. Len(tsFiles) /\ tsFiles[Len(tsFiles)] \in FileType
    BY InvSplit, CurrentFacts DEF Books, Rest
  <1>1. CASE UNCHANGED <<tsFiles, videoDTSEst, videoTrack, frames>>
    BY <1>1, EstKept
  <1>2. ASSUME NEW frame \in Arriving, SkipH264(frame)
        PROVE  EstInv' /\ videoDTSEst' = videoDTSEst
    <2>1. UNCHANGED <<tsFiles, videoDTSEst, videoTrack>> /\ videoTrack
          /\ ~tsFiles[tsCurrent].firstPacketWritten
      BY <1>2 DEF SkipH264, tracks
    <2>2. videoDTSEst.initializing = 2  BY <1>0, <2>1 DEF EstInv, Rest
    <2> QED  BY <2>1, <2>2, EstKept
  <1>3. ASSUME NEW k \in 1..2, WriteAudioOnly(k)
        PROVE  EstInv' /\ videoDTSEst' = videoDTSEst
    <2>1. UNCHANGED <<videoDTSEst, videoTrack, frames>> /\ ~videoTrack
      BY <1>3 DEF WriteAudioOnly, tracks
    <2> QED  BY <2>1, EstKept
  <1>4. ASSUME NEW k \in 1..2, WriteAudio(k)
        PROVE  EstInv' /\ videoDTSEst' = videoDTSEst
    <2>1. /\ UNCHANGED <<videoDTSEst, videoTrack, frames>> /\ videoTrack
          /\ tsFiles' = writeAAC(tsFiles, k)
      BY <1>4 DEF WriteAudio, tracks
    <2>2. /\ Len(tsFiles') = Len(tsFiles)
          /\ tsFiles'[Len(tsFiles)].firstPacketWritten = tsFiles[Len(tsFiles)].firstPacketWritten
      BY <1>0, <2>1, WriteAACNames DEF SameNames
    <2> QED  BY <2>1, <2>2, EstKept
  <1>5. CASE WriteAACFails
    <2> DEFINE gs == writeAAC(tsFiles, 1)
    <2>1. /\ UNCHANGED <<videoDTSEst, videoTrack, frames>>
          /\ tsFiles' = [gs EXCEPT ![tsCurrent].writePos = @ - 1]
      BY <1>5 DEF WriteAACFails, tracks
    <2>2. /\ SameNames(tsFiles, gs)
          /\ videoTrack => gs[Len(tsFiles)].firstPacketWritten = tsFiles[Len(tsFiles)].firstPacketWritten
      BY <1>0, WriteAACNames
    <2> HIDE DEF gs
    <2>3. /\ gs \in Seq(FileType) /\ Len(gs) = Len(tsFiles) /\ Len(gs) \in 1 .. Len(gs)
          /\ DOMAIN gs = 1 .. Len(gs) /\ gs[Len(gs)] \in FileType
      BY <1>0, <2>2, LenProperties, ElementOfSeq DEF SameNames
    <2> DEFINE h == [gs[Len(gs)] EXCEPT !.writePos = @ - 1]
    <2>4. tsFiles' = [gs EXCEPT ![Len(gs)] = h] /\ h.firstPacketWritten = gs[Len(gs)].firstPacketWritten
      BY <1>0, <2>1, <2>3 DEF FileType
    <2> HIDE DEF h
    <2>5. tsFiles'[Len(gs)] = h /\ Len(tsFiles') = Len(tsFiles)
      <3>1. DOMAIN tsFiles' = 1 .. Len(gs) /\ tsFiles'[Len(gs)] = h  BY <2>3, <2>4
      <3>2. tsFiles' \in Seq(FileType)  BY NextInv, InvPrime DEF Inv, TypeOK
      <3> QED  BY <2>3, <3>1, <3>2, LenProperties
    <2> QED  BY <2>1, <2>2, <2>3, <2>4, <2>5, EstKept
  <1>6. CASE Close
    <2>1. UNCHANGED <<videoDTSEst, videoTrack, frames>> /\ tsFiles' = closeCurrent
      BY <1>6 DEF Close, tracks
    <2>2. SameNames(tsFiles, tsFiles')  BY <1>0, <2>1, CloseCurrentFacts
    <2>3. tsFiles'[Len(tsFiles)].firstPacketWritten = tsFiles[Len(tsFiles)].firstPacketWritten
      BY <1>0, <2>1, LenProperties DEF closeCurrent, FileType
    <2> QED  BY <2>1, <2>2, <2>3, EstKept DEF SameNames
  <1>7. CASE Second \/ Broadcast \/ UNCHANGED vars
    BY <1>1, <1>7 DEF Second, Broadcast, vars, tracks
  <1>8. ASSUME NEW k \in 1..2, SkipAudio(k)
        PROVE  EstInv' /\ videoDTSEst' = videoDTSEst
    BY <1>1, <1>8 DEF SkipAudio, tracks
  <1>9. ASSUME NEW r \in Readers, Read(r) \/ \E name \in DOMAIN tsByName : TSFile(r, name)
        PROVE  EstInv' /\ videoDTSEst' = videoDTSEst
    BY <1>1, <1>9 DEF Read, TSFile, setReader, tracks
  <1>10. CASE WriteVideo
    BY <1>2, <1>10, WriteH264Grows DEF WriteVideo
  <1>11. CASE WriteAAC
    BY <1>3, <1>4, <1>5, <1>8, <1>11 DEF WriteAAC
  <1> QED  BY <1>6, <1>7, <1>9, <1>10, <1>11 DEF Next

LEMMA InitEst == Init => EstInv
  <1> SUFFICES ASSUME Init PROVE EstInv
    OBVIOUS
  <1>1. /\ videoDTSEst = NewDTSEstimator /\ videoDTSEst.initializing = 2
        /\ ~newTSFile(0).firstPacketWritten
    BY DEF Init, NewDTSEstimator, newTSFile
  <1>2. tsFiles = <<newTSFile(0)>>  BY DEF Init
  <1>3. tsFiles[tsCurrent] = newTSFile(0)
    <2> HIDE DEF newTSFile
    <2> QED  BY <1>2 DEF tsCurrent
  <1> QED  BY <1>1, <1>3 DEF EstInv

\* Feed, called for each frame of a stream that mixes the usual orders of B
\* frames in any way and for any length, returns decoding times that grow and
\* never pass the frame's presentation time, across segments.  The argument is
\* the place of the estimator in the group of frames (Phase) after each frame.
THEOREM MuxerDecodingTimesGrow == Spec => DecodingTimesGrow
  <1>1. Init => Inv /\ EstInv  BY InitInv, InitEst
  <1>2. Inv /\ EstInv /\ [Next]_vars => Inv' /\ EstInv'  BY NextInv, NextGrows
  <1>3. Inv /\ EstInv /\ [Next]_vars =>
           [videoDTSEst' # videoDTSEst =>
               /\ videoDTSEst'.prevDTS > videoDTSEst.prevDTS
               /\ videoDTSEst'.prevDTS <= videoDTSEst'.prevPTS]_vars
    BY NextGrows DEF Grows
  <1> QED  BY <1>1, <1>2, <1>3, PTL DEF Spec, DecodingTimesGrow

=============================================================================
