------------------------------ MODULE HLSMuxer ------------------------------
(***************************************************************************)
(* The HLS muxer (hls/muxer.go), its MPEG-TS segments (hls/tsfile.go) and  *)
(* the buffers they are read from while they are written                   *)
(* (hls/multiaccessbuffer.go).                                             *)
(*                                                                         *)
(* Three kinds of goroutine meet here: the writer of the remuxer, which    *)
(* calls WriteH264 and WriteAAC; the remuxer, which calls Playlist, TSFile *)
(* and, once the writer has ended, Close; and one goroutine per HTTP       *)
(* response, which reads a segment to its end and waits on the buffer's    *)
(* condition variable when it has read everything.                         *)
(*                                                                         *)
(* The bytes of a segment are counted in units of one write.  A segment is *)
(* named after the Unix second it is created in.                           *)
(***************************************************************************)
EXTENDS DTSEstimator, Sequences, FiniteSets

CONSTANTS
    Readers,             \* HTTP responses that carry a segment
    hlsSegmentCount,
    hlsSegmentDuration,  \* in the unit of the presentation times
    segmentMinAUCount,
    ptsOffset,
    FrameInterval,       \* between two frames in presentation order
    MaxFrames,           \* video frames a stream has (bound)
    MaxAUs,              \* audio access units it has, without and with video (bound)
    MaxNow               \* seconds that pass (bound)

ASSUME SegmentAssumption ==
    /\ hlsSegmentCount \in Nat \ {0}
    /\ hlsSegmentDuration \in Nat
    /\ segmentMinAUCount \in Nat
    /\ ptsOffset \in Nat
    /\ FrameInterval \in Nat \ {0}

\* The estimator counts in milliseconds where it can't know better: what it
\* counts before it knows must stay below the offset, and a frame must last.
ASSUME TimesAssumption ==
    /\ 4 * Millisecond < ptsOffset
    /\ 3 * Millisecond < 2 * FrameInterval

VARIABLES
    videoTrack, audioTrack,  \* the stream has such a track
    now,            \* time.Now().Unix()
    frames,         \* the video still to come: see Arriving
    aus,            \* audio access units that have arrived
    writer,         \* "running", "failed" (returned an error), "closed" (Close)
    tsFiles,        \* every segment created so far, in order
    tsQueue,        \* indices of the segments the playlist lists
    tsByName,       \* from names to indices
    tsDeleteCount,
    audioAUCount,
    videoDTSEst,
    signals,        \* buffers written or closed, whose Broadcast is to come
    readers         \* the multiAccessBufferReaders

tracks == <<videoTrack, audioTrack>>
queue == <<tsQueue, tsByName, tsDeleteCount>>
vars == <<tracks, now, frames, aus, writer, tsFiles, queue, audioAUCount,
          videoDTSEst, signals, readers>>

-----------------------------------------------------------------------------
(* Segments. *)

newTSFile(name) ==
    [name |-> name, closed |-> FALSE,
     writePos |-> 1,                 \* WriteTables
     firstPacketWritten |-> FALSE, minPTS |-> 0, maxPTS |-> 0]

duration(f) == f.maxPTS - f.minPTS

\* The part of writeH264 and writeAAC that a packet of the PCR track runs.
span(f, pts) ==
    [f EXCEPT !.firstPacketWritten = TRUE,
              !.minPTS = IF f.firstPacketWritten /\ f.minPTS < pts THEN f.minPTS ELSE pts,
              !.maxPTS = IF f.firstPacketWritten /\ f.maxPTS > pts THEN f.maxPTS ELSE pts]

\* k packets, of presentation times first to last, end up in the buffer; if
\* they are not of the PCR track, they leave the span alone.
write(f, pcrTrack, first, last, k) ==
    [(IF pcrTrack THEN span(span(f, first), last) ELSE f) EXCEPT !.writePos = @ + k]

tsCurrent == Len(tsFiles)

\* A segment may follow: the current one has started and is long enough.
longEnough ==
    /\ tsFiles[tsCurrent].firstPacketWritten
    /\ duration(tsFiles[tsCurrent]) >= hlsSegmentDuration

closeCurrent == [tsFiles EXCEPT ![tsCurrent].closed = TRUE]

\* The segments after the current one has been closed and another created.
rotated == Append(closeCurrent, newTSFile(now))

\* Mutant: one segment more is kept, but its name is forgotten.
window_late(q) == IF Len(q) > hlsSegmentCount + 1 THEN Tail(q) ELSE q

\* The queue without the segment that exceeds the count.
window(q) == IF Len(q) > hlsSegmentCount THEN Tail(q) ELSE q

\* The new segment enters tsByName and tsQueue, the oldest leaves both: its
\* name is deleted even if a younger segment has the same one.
enqueue ==
    LET q == Append(tsQueue, tsCurrent + 1)
        full == Len(q) > hlsSegmentCount
        named == [n \in DOMAIN tsByName \cup {now} |->
                     IF n = now THEN tsCurrent + 1 ELSE tsByName[n]]
        deleted == IF full THEN {rotated[Head(q)].name} ELSE {}
    IN  /\ tsQueue' = window(q)
        /\ tsByName' = [n \in DOMAIN named \ deleted |-> named[n]]
        /\ tsDeleteCount' = IF full THEN tsDeleteCount + 1 ELSE tsDeleteCount

\* m.mutex is held: the writer is inside WriteH264 or WriteAAC.
locked == writer # "closed" /\ signals # {}

-----------------------------------------------------------------------------
(* The stream: in decoding order, each frame that others refer to (an      *)
(* anchor) comes before the B frames that are presented before it.         *)

\* Orders in which encoders send the B frames between two anchors.
Shapes == {<<>>, <<1>>, <<1, 2>>, <<2, 1, 3>>}

\* anchor is the presentation index of the last anchor, bs are the B frames
\* still to be sent before the next one.
StreamStart == [anchor |-> -1, bs |-> <<>>]

\* The frames that may arrive next: the n-th in presentation order, whether it
\* is an IDR frame (then no B frame comes before it), and what follows.
Arriving ==
    IF frames.bs # <<>>
    THEN {[n |-> Head(frames.bs), idr |-> FALSE,
           rest |-> [frames EXCEPT !.bs = Tail(@)]]}
    ELSE {[n |-> frames.anchor + Len(s) + 1, idr |-> FALSE,
           rest |-> [anchor |-> frames.anchor + Len(s) + 1,
                     bs |-> [i \in DOMAIN s |-> frames.anchor + s[i]]]] : s \in Shapes}
         \cup {[n |-> frames.anchor + 1, idr |-> TRUE,
                rest |-> [anchor |-> frames.anchor + 1, bs |-> <<>>]]}

-----------------------------------------------------------------------------
Init ==
    /\ videoTrack \in BOOLEAN /\ audioTrack \in BOOLEAN
    /\ videoTrack \/ audioTrack
    /\ now = 0 /\ frames = StreamStart /\ aus = 0 /\ writer = "running"
    /\ tsFiles = <<newTSFile(0)>>
    /\ tsQueue = <<1>> /\ tsByName = [n \in {0} |-> 1] /\ tsDeleteCount = 0
    /\ audioAUCount = 0 /\ videoDTSEst = NewDTSEstimator
    /\ signals = {} /\ readers = [r \in Readers |-> [pc |-> "idle", file |-> 0, readPos |-> 0]]

Second ==
    /\ now < MaxNow
    /\ now' = now + 1
    /\ UNCHANGED <<tracks, frames, aus, writer, tsFiles, queue, audioAUCount,
                   videoDTSEst, signals, readers>>

\* The writer is about to call WriteH264 or WriteAAC.
Ready == writer = "running" /\ signals = {}

\* WriteH264 before the first IDR frame.
SkipH264(frame) ==
    /\ Ready /\ videoTrack /\ frame.n < MaxFrames
    /\ ~tsFiles[tsCurrent].firstPacketWritten /\ ~frame.idr
    /\ frames' = frame.rest
    /\ UNCHANGED <<tracks, now, aus, writer, tsFiles, queue, audioAUCount,
                   videoDTSEst, signals, readers>>

\* WriteH264 up to the Broadcast of the last buffer it writes to.
WriteH264(frame) ==
    LET pts == frame.n * FrameInterval + ptsOffset
        due == frame.idr /\ longEnough
        fs == IF due THEN rotated ELSE tsFiles
    IN  /\ Ready /\ videoTrack /\ frame.n < MaxFrames
        /\ tsFiles[tsCurrent].firstPacketWritten \/ frame.idr
        /\ frames' = frame.rest
        /\ IF due THEN enqueue ELSE UNCHANGED queue
        /\ videoDTSEst' = Feed(videoDTSEst, pts)
        /\ tsFiles' = [fs EXCEPT ![Len(fs)] = write(@, TRUE, pts, pts, 1)]
        /\ signals' = {tsCurrent, Len(fs)}
        /\ UNCHANGED <<tracks, now, aus, writer, audioAUCount, readers>>

\* The segments after k access units have been written to the current one.
writeAAC(fs, k) ==
    [fs EXCEPT ![Len(fs)] = write(@, ~videoTrack, aus * FrameInterval + ptsOffset,
                                  (aus + k - 1) * FrameInterval + ptsOffset, k)]

\* WriteAAC is called with k access units.
Arrive(k) == Ready /\ audioTrack /\ aus + k <= MaxAUs[videoTrack] /\ aus' = aus + k

\* WriteAAC in a stream without video: a segment needs a minimum of access
\* units too.
WriteAudioOnly(k) ==
    LET due == audioAUCount >= segmentMinAUCount /\ longEnough
        fs == IF due THEN rotated ELSE tsFiles
    IN  /\ Arrive(k) /\ ~videoTrack
        /\ IF due THEN enqueue ELSE UNCHANGED queue
        /\ audioAUCount' = (IF due THEN 0 ELSE audioAUCount) + k
        /\ tsFiles' = writeAAC(fs, k)
        /\ signals' = {tsCurrent, Len(fs)}
        /\ UNCHANGED <<tracks, now, frames, writer, videoDTSEst, readers>>

\* WriteAAC beside video, before the segment has its first video frame.
SkipAudio(k) ==
    /\ Arrive(k) /\ videoTrack
    /\ ~tsFiles[tsCurrent].firstPacketWritten
    /\ UNCHANGED <<tracks, now, frames, writer, tsFiles, queue, audioAUCount,
                   videoDTSEst, signals, readers>>

\* WriteAAC beside video.
WriteAudio(k) ==
    /\ Arrive(k) /\ videoTrack
    /\ tsFiles[tsCurrent].firstPacketWritten
    /\ audioAUCount' = audioAUCount + k
    /\ tsFiles' = writeAAC(tsFiles, k)
    /\ signals' = {tsCurrent}
    /\ UNCHANGED <<tracks, now, frames, writer, queue, videoDTSEst, readers>>

\* The configuration of the track has no ADTS header, so the first access unit
\* fails: the span has been set, nothing is written, the writer returns.
WriteAACFails ==
    /\ Arrive(1) /\ audioAUCount = 0 /\ tsDeleteCount = 0
    /\ videoTrack => tsFiles[tsCurrent].firstPacketWritten
    /\ audioAUCount' = 1
    /\ tsFiles' = [writeAAC(tsFiles, 1) EXCEPT ![tsCurrent].writePos = @ - 1]
    /\ writer' = "failed"
    /\ UNCHANGED <<tracks, now, frames, queue, videoDTSEst, signals, readers>>

\* Mutant: closing wakes nobody.
closed_silent == {}

\* The buffers that Close has to wake the readers of.
closed_buffers == {tsCurrent}

\* The remuxer ends: the writer has returned, the current segment is closed.
Close ==
    /\ writer # "closed" /\ signals = {}
    /\ writer' = "closed"
    /\ tsFiles' = closeCurrent
    /\ signals' = closed_buffers
    /\ UNCHANGED <<tracks, now, frames, aus, queue, audioAUCount, videoDTSEst, readers>>

\* cond.Broadcast of the buffers that were written to or closed.
Broadcast ==
    /\ signals # {}
    /\ signals' = {}
    /\ readers' = [r \in Readers |->
           IF readers[r].pc = "wait" /\ readers[r].file \in signals
           THEN [readers[r] EXCEPT !.pc = "read"] ELSE readers[r]]
    /\ UNCHANGED <<tracks, now, frames, aus, writer, tsFiles, queue,
                   audioAUCount, videoDTSEst>>

-----------------------------------------------------------------------------
(* Requests. *)

\* The readers change, nothing else does.
setReader(r, s) ==
    /\ readers' = [readers EXCEPT ![r] = s]
    /\ UNCHANGED <<tracks, now, frames, aus, writer, tsFiles, queue,
                   audioAUCount, videoDTSEst, signals>>

\* A request for a segment that tsByName has; others are answered with 404.
TSFile(r, name) ==
    /\ readers[r].pc = "idle" /\ ~locked
    /\ name \in DOMAIN tsByName
    /\ setReader(r, [pc |-> "read", file |-> tsByName[name], readPos |-> 0])

\* What reader r has not read yet.
unread(r) == tsFiles[readers[r].file].writePos - readers[r].readPos

\* Read: end of file, wait for the writer, or as much as fits in p: one unit,
\* or all there is.
Read(r) ==
    /\ readers[r].pc = "read"
    /\ \/ /\ unread(r) = 0 /\ tsFiles[readers[r].file].closed
          /\ setReader(r, [pc |-> "idle", file |-> 0, readPos |-> 0])
       \/ /\ unread(r) = 0 /\ ~tsFiles[readers[r].file].closed
          /\ setReader(r, [readers[r] EXCEPT !.pc = "wait"])
       \/ \E n \in {1, unread(r)} :
              /\ unread(r) > 0
              /\ setReader(r, [readers[r] EXCEPT !.readPos = @ + n])

\* The playlist: EXT-X-MEDIA-SEQUENCE and the listed segments.
Playlist ==
    [sequence |-> tsDeleteCount,
     segments |-> [i \in DOMAIN tsQueue |->
                      [name |-> tsFiles[tsQueue[i]].name,
                       duration |-> duration(tsFiles[tsQueue[i]])]]]

WriteVideo == \E frame \in Arriving : SkipH264(frame) \/ WriteH264(frame)

WriteAAC ==
    \/ \E k \in 1..2 : WriteAudioOnly(k) \/ SkipAudio(k) \/ WriteAudio(k)
    \/ WriteAACFails

Next ==
    \/ Second \/ WriteVideo \/ WriteAAC \/ Close \/ Broadcast
    \/ \E r \in Readers : Read(r) \/ \E name \in DOMAIN tsByName : TSFile(r, name)

\* The writer leaves a call it is in, and the HTTP server goes on reading a
\* response whose client takes what it is sent.
Fairness == WF_vars(Broadcast) /\ \A r \in Readers : WF_vars(Read(r))

Spec == Init /\ [][Next]_vars /\ Fairness

-----------------------------------------------------------------------------
(* Properties. *)

FileType == [name: Nat, closed: BOOLEAN, writePos: Nat,
             firstPacketWritten: BOOLEAN, minPTS: Nat, maxPTS: Nat]

\* Types of the state.
TypeOK ==
    /\ videoTrack \in BOOLEAN /\ audioTrack \in BOOLEAN
    /\ now \in Nat /\ aus \in Nat /\ audioAUCount \in Nat /\ tsDeleteCount \in Nat
    /\ frames \in [anchor: Int, bs: Seq(Int)]
    /\ writer \in {"running", "failed", "closed"}
    /\ tsFiles \in Seq(FileType)
    /\ tsQueue \in Seq(DOMAIN tsFiles)
    /\ DOMAIN tsByName \subseteq Nat
    /\ \A n \in DOMAIN tsByName : tsByName[n] \in DOMAIN tsFiles
    /\ videoDTSEst \in [initializing: 0..2, prevDTS: Int, prevPTS: Int, prevPrevPTS: Int]
    /\ signals \subseteq DOMAIN tsFiles
    /\ readers \in [Readers -> [pc: {"idle", "read", "wait"},
                                file: {0} \cup DOMAIN tsFiles, readPos: Nat]]

\* Another of the segments that can be listed together with i has its name.
sharesName(i) ==
    \E j \in DOMAIN tsFiles \ {i} :
        /\ tsFiles[j].name = tsFiles[i].name
        /\ j - i <= hlsSegmentCount /\ i - j <= hlsSegmentCount

\* What a player relies on when it polls the playlist: the k-th segment listed
\* is number EXT-X-MEDIA-SEQUENCE + k of the stream, so no segment changes its
\* number and none is left out; a request for its name returns that segment and
\* no other, unless another one was created in the same second; and no name
\* that has left the playlist is served.
PlaylistIsServed ==
    /\ \A k \in DOMAIN Playlist.segments :
          LET i == Playlist.sequence + k IN
          /\ i \in DOMAIN tsFiles
          /\ Playlist.segments[k].name = tsFiles[i].name
          /\ ~sharesName(i) => /\ tsFiles[i].name \in DOMAIN tsByName
                               /\ tsByName[tsFiles[i].name] = i
    /\ Playlist.sequence + Len(Playlist.segments) = Len(tsFiles)
    /\ \A n \in DOMAIN tsByName : tsByName[n] > Playlist.sequence

\* Every frame of the video gets a decoding time later than that of the frame
\* before, as the estimator's comments promise, and not later than its own
\* presentation time, as the comment on ptsOffset does, across segments and for
\* every mixture of the usual orders of B frames.
DecodingTimesGrow ==
    [][videoDTSEst' # videoDTSEst =>
          /\ videoDTSEst'.prevDTS > videoDTSEst.prevDTS
          /\ videoDTSEst'.prevDTS <= videoDTSEst'.prevPTS]_vars

\* A response that carries a segment ends once the segment is complete: no
\* reader misses the last wakeup, whether the segment is closed by the one that
\* follows or by the end of the muxer, still listed or not.
ReadersReachTheEnd ==
    \A r \in Readers :
        (readers[r].pc # "idle" /\ tsFiles[readers[r].file].closed)
            ~> (readers[r].pc = "idle")

=============================================================================
