-------------------------------- MODULE HLS --------------------------------
(***************************************************************************)
(* The HLS server and its remuxers (core/hls_server.go, hls_remuxer.go).   *)
(*                                                                         *)
(* Four kinds of goroutines meet here: the loop of the server, the loop of *)
(* each remuxer, the inner goroutine of each remuxer (runRemuxer), which   *)
(* reads from a path, and the HTTP handlers, blocked until their request   *)
(* is answered.  Paths and the path manager are the environment: a source  *)
(* becomes ready, which answers the readers on hold and which the path     *)
(* tells to the path manager and that to the server, each of them doing    *)
(* nothing else meanwhile, and goes away, which closes the readers.        *)
(***************************************************************************)
EXTENDS Naturals

CONSTANTS
    Names,     \* names of paths
    Remuxers,  \* remuxer objects alive at the same time (bound)
    Requests,  \* HTTP requests being served at the same time (bound)
    None       \* nil

ASSUME HLSAssumption ==
    None \notin Names \cup Remuxers \cup Requests

VARIABLES
    hlsAlwaysRemux,  \* the setting of the server; it never changes
    phase,     \* the server's goroutine: "run", "shutdown", "unset", "done"
    srvDone,   \* s.ctx is cancelled
    remuxers,  \* s.remuxers
    fwd,       \* the request that the server is forwarding in r.OnRequest
    rem,       \* the remuxer objects
    http,      \* the handler of each request: its state and the remuxer whose
               \* muxer it reads from, None once that is closed and forgotten
    forsaken,  \* the handlers that wait for a remuxer that is gone
    src,       \* whether the source of each path is ready
    attached,  \* the remuxers that the paths have registered as readers
    telling,   \* the paths blocked in pa.parent.OnPathSourceReady
    notify,    \* the path whose readiness the path manager is reporting
    crashed    \* the process has panicked

vars == <<hlsAlwaysRemux, phase, srvDone, remuxers, fwd, rem, http, forsaken,
          src, attached, telling, notify, crashed>>

server == <<phase, srvDone, remuxers>>
pending == <<fwd, forsaken>>
environment == <<src, attached, telling, notify, crashed>>

(***************************************************************************)
(* Helpers                                                                 *)
(***************************************************************************)
Off == [name |-> None, cancelled |-> FALSE, loop |-> "off", ready |-> FALSE,
        queue |-> {}, inner |-> "end", recent |-> FALSE]

newHLSRemuxer(n) ==
    [name |-> n, cancelled |-> FALSE, loop |-> "loop", ready |-> FALSE,
     queue |-> {}, inner |-> "setup", recent |-> TRUE]

\* The context of a remuxer is a child of the server's.
Cancelled(r) == rem[r].cancelled \/ srvDone

\* The goroutine of the remuxer has ended, or was never started.
Ended(r) == rem[r].loop = "off"

\* Objects that can be allocated.
Unused == {r \in Remuxers : Ended(r) /\ \A n \in Names : remuxers[n] # r}

\* The goroutine of the path of r is in its loop, or it has ended.
PathListens(r) == rem[r].name \notin telling

\* r.muxer.Close() was called, or there is no muxer.
MuxerClosed(r) == rem[r].inner \in {"err", "end"}

\* The handler reads from a muxer that is closed.
ReadsClosed(q) == http[q].rem # None => MuxerClosed(http[q].rem)

NoFile == [st |-> "idle", rem |-> None]

\* handleRequest: the client gets an error, a playlist or the index page and
\* the handler returns, or it goes on to read an MPEG-TS file of r.
handleRequest(r, qs) ==
    {h \in [Requests -> {http[q] : q \in Requests} \cup {NoFile, [st |-> "reading", rem |-> r]}] :
        \A q \in Requests : IF q \in qs THEN h[q] \in {NoFile, [st |-> "reading", rem |-> r]}
                                        ELSE h[q] = http[q]}

Init ==
    /\ hlsAlwaysRemux \in BOOLEAN
    /\ phase = "run"
    /\ srvDone = FALSE
    /\ remuxers = [n \in Names |-> None]
    /\ fwd = [req |-> None, rem |-> None]
    /\ rem = [r \in Remuxers |-> Off]
    /\ http = [q \in Requests |-> NoFile]
    /\ forsaken = {}
    /\ src \in [Names -> BOOLEAN]
    /\ attached = {}
    /\ telling = {}
    /\ notify = None
    /\ crashed = FALSE

Forwarding == fwd.req # None
NoForward == [req |-> None, rem |-> None]

\* The server is in the select of its loop.
Listening == phase = "run" /\ ~Forwarding

(***************************************************************************)
(* The server                                                              *)
(***************************************************************************)
\* Mutant: a remuxer is always created.
findOrCreateRemuxer_always(n, r) ==
    /\ r \in Unused
    /\ remuxers' = [remuxers EXCEPT ![n] = r]
    /\ rem' = [rem EXCEPT ![r] = newHLSRemuxer(n)]

findOrCreateRemuxer(n, r) ==
    \/ /\ remuxers[n] = r
       /\ UNCHANGED <<remuxers, rem>>
    \/ /\ remuxers[n] = None /\ Unused # {}
       /\ r = CHOOSE u \in Unused : TRUE
       /\ remuxers' = [remuxers EXCEPT ![n] = r]
       /\ rem' = [rem EXCEPT ![r] = newHLSRemuxer(n)]

\* ServeHTTP hands a request for a file of path n to the server, which hands
\* it on to the remuxer of the path.
ServeHTTP(q, n) ==
    /\ Listening /\ http[q].st = "idle"
    /\ \E r \in Remuxers :
        /\ findOrCreateRemuxer(n, r)
        /\ fwd' = [req |-> q, rem |-> r]
    /\ http' = [http EXCEPT ![q].st = "waiting"]
    /\ UNCHANGED <<phase, srvDone, forsaken, environment>>

\* The path manager is listened to.
PathSourceReady ==
    /\ Listening /\ notify # None
    /\ \/ /\ hlsAlwaysRemux
          /\ \E r \in Remuxers : findOrCreateRemuxer(notify, r)
       \/ /\ ~hlsAlwaysRemux
          /\ UNCHANGED <<remuxers, rem>>
    /\ notify' = None
    /\ UNCHANGED <<phase, srvDone, pending, http, src, attached, telling, crashed>>

PathSourceReadyTerminated ==
    /\ srvDone /\ notify # None
    /\ notify' = None
    /\ UNCHANGED <<server, pending, rem, http, src, attached, telling, crashed>>

\* s.close().
Close ==
    /\ ~srvDone
    /\ srvDone' = TRUE
    /\ UNCHANGED <<phase, remuxers, pending, rem, http, environment>>

CtxDoneSeen ==
    /\ Listening /\ srvDone
    /\ phase' = "shutdown"
    /\ UNCHANGED <<srvDone, remuxers, pending, rem, http, environment>>

\* hs.Shutdown() waits for the handlers.
Shutdown ==
    /\ phase = "shutdown"
    /\ \A q \in Requests : http[q].st = "idle"
    /\ phase' = "unset"
    /\ UNCHANGED <<srvDone, remuxers, pending, rem, http, environment>>

\* OnHLSServerSet(nil), when the path manager listens.
Unset ==
    /\ phase = "unset" /\ notify = None
    /\ phase' = "done"
    /\ UNCHANGED <<srvDone, remuxers, pending, rem, http, environment>>

(***************************************************************************)
(* The loop of a remuxer                                                   *)
(***************************************************************************)
LoopRequest(r) ==
    /\ rem[r].loop = "loop" /\ fwd.rem = r
    /\ \/ /\ rem[r].ready
          /\ rem' = [rem EXCEPT ![r].recent = TRUE]
          /\ http' \in handleRequest(r, {fwd.req})
       \/ /\ ~rem[r].ready
          /\ rem' = [rem EXCEPT ![r].queue = @ \cup {fwd.req}]
          /\ UNCHANGED http
    /\ fwd' = NoForward
    /\ UNCHANGED <<server, forsaken, environment>>

\* Mutant: OnRequest looks at the context of the server.
LoopRequestTerminated_serverOnly(r) ==
    /\ fwd.rem = r /\ srvDone
    /\ http' = [http EXCEPT ![fwd.req] = NoFile]
    /\ fwd' = NoForward
    /\ UNCHANGED <<server, rem, forsaken, environment>>

\* OnRequest gives up: 404.
LoopRequestTerminated(r) ==
    /\ fwd.rem = r /\ Cancelled(r)
    /\ http' = [http EXCEPT ![fwd.req] = NoFile]
    /\ fwd' = NoForward
    /\ UNCHANGED <<server, rem, forsaken, environment>>

\* Mutant: the requests that were waiting are forgotten.
LoopReady_forget(r) ==
    /\ rem[r].loop = "loop" /\ rem[r].inner = "ready"
    /\ rem' = [rem EXCEPT ![r].ready = TRUE, ![r].queue = {}, ![r].inner = "play"]
    /\ UNCHANGED <<server, pending, http, environment>>

\* Receives remuxerReady.
LoopReady(r) ==
    /\ rem[r].loop = "loop" /\ rem[r].inner = "ready"
    /\ rem' = [rem EXCEPT ![r].ready = TRUE, ![r].queue = {}, ![r].inner = "play",
                          ![r].recent = @ \/ rem[r].queue # {}]
    /\ http' \in handleRequest(r, rem[r].queue)
    /\ UNCHANGED <<server, pending, environment>>

\* Receives remuxerErr.
LoopErr(r) ==
    /\ rem[r].loop = "loop" /\ rem[r].inner = "err"
    /\ rem' = [rem EXCEPT ![r].loop = "closing", ![r].inner = "end", ![r].cancelled = TRUE]
    /\ UNCHANGED <<server, pending, http, environment>>

\* The context is done: cancels runRemuxer and waits for remuxerErr only.
LoopCtxDone(r) ==
    /\ rem[r].loop = "loop" /\ Cancelled(r)
    /\ rem' = [rem EXCEPT ![r].loop = "waitErr"]
    /\ UNCHANGED <<server, pending, http, environment>>

LoopJoined(r) ==
    /\ rem[r].loop = "waitErr" /\ rem[r].inner = "err"
    /\ rem' = [rem EXCEPT ![r].loop = "closing", ![r].inner = "end", ![r].cancelled = TRUE]
    /\ UNCHANGED <<server, pending, http, environment>>

\* run() returns.  The handlers that read from the muxer, which is closed, go
\* on; those that still wait in r.requests are not told.
gone(r) ==
    /\ rem' = [rem EXCEPT ![r] = Off]
    /\ http' = [q \in Requests |->
                IF http[q].rem = r THEN [http[q] EXCEPT !.rem = None] ELSE http[q]]
    /\ forsaken' = forsaken \cup rem[r].queue

\* OnRemuxerClose.
RemuxerClose(r) ==
    /\ Listening /\ rem[r].loop = "closing"
    /\ remuxers' = IF remuxers[rem[r].name] = r
                   THEN [remuxers EXCEPT ![rem[r].name] = None] ELSE remuxers
    /\ gone(r)
    /\ UNCHANGED <<phase, srvDone, fwd, environment>>

RemuxerCloseTerminated(r) ==
    /\ srvDone /\ rem[r].loop = "closing"
    /\ gone(r)
    /\ UNCHANGED <<server, fwd, environment>>

(***************************************************************************)
(* The inner goroutine of a remuxer                                        *)
(***************************************************************************)
\* Whatever runRemuxer returns, its deferred calls close the muxer and remove
\* the reader from the path.
Return(r) ==
    /\ PathListens(r)
    /\ rem' = [rem EXCEPT ![r].inner = "err"]
    /\ attached' = attached \ {r}
    /\ UNCHANGED <<server, pending, http, src, telling, notify, crashed>>

\* The first half of OnReaderSetupPlay: the path manager returns the path.
SetupForwarded(r) ==
    /\ rem[r].inner = "setup" /\ notify = None
    /\ rem' = [rem EXCEPT ![r].inner = "asked"]
    /\ UNCHANGED <<server, pending, http, environment>>

\* The second half: the path accepts the reader.
SetupAccepted(r) ==
    /\ rem[r].inner = "asked" /\ src[rem[r].name] /\ PathListens(r)
    /\ rem' = [rem EXCEPT ![r].inner = "tracks"]
    /\ attached' = attached \cup {r}
    /\ UNCHANGED <<server, pending, http, src, telling, notify, crashed>>

\* The source is on demand: the request is put on hold.
SetupHeld(r) ==
    /\ rem[r].inner = "asked" /\ ~src[rem[r].name]
    /\ rem' = [rem EXCEPT ![r].inner = "held"]
    /\ UNCHANGED <<server, pending, http, environment>>

\* There is no such path, nobody publishes, the source did not come in time or
\* the path has ended.
SetupRefused(r) ==
    /\ \/ rem[r].inner = "setup" /\ notify = None
       \/ rem[r].inner \in {"asked", "held"}
    /\ ~src[rem[r].name]
    /\ rem' = [rem EXCEPT ![r].inner = "err"]
    /\ UNCHANGED <<server, pending, http, environment>>

\* Mutant: the reader is not removed.
TracksUnsupported_stay(r) ==
    /\ rem[r].inner = "tracks"
    /\ rem' = [rem EXCEPT ![r].inner = "err"]
    /\ UNCHANGED <<server, pending, http, environment>>

\* Too many tracks, none that can be remuxed, or one that can't be decoded.
TracksUnsupported(r) == rem[r].inner = "tracks" /\ Return(r)

\* From here on the goroutine is blocked on `remuxerReady <- struct{}{}'.
MuxerCreated(r) ==
    /\ rem[r].inner = "tracks"
    /\ rem' = [rem EXCEPT ![r].inner = "ready"]
    /\ UNCHANGED <<server, pending, http, environment>>

\* OnReaderPlay.  The path does not check that the reader is still registered
\* and attaches it to its stream, if there is one; a path that has ended
\* does nothing.
ReaderPlay(r) ==
    /\ rem[r].inner = "play" /\ PathListens(r)
    /\ rem' = [rem EXCEPT ![r].inner = "run"]
    /\ \/ /\ src[rem[r].name]
          /\ attached' = attached \cup {r}
          /\ UNCHANGED crashed
       \/ /\ ~src[rem[r].name]
          /\ crashed' \in BOOLEAN
          /\ UNCHANGED attached
    /\ UNCHANGED <<server, pending, http, src, telling, notify>>

\* The muxer returns an error.
WriterFails(r) == rem[r].inner = "run" /\ Return(r)

\* Mutant: the setting is read the other way round.
Inactive_inverted(r) ==
    /\ rem[r].inner = "run" /\ hlsAlwaysRemux /\ ~rem[r].recent
    /\ Return(r)

\* closeCheckTicker finds that the last request is too old.
Inactive(r) ==
    /\ rem[r].inner = "run" /\ ~hlsAlwaysRemux /\ ~rem[r].recent
    /\ Return(r)

\* closeAfterInactivity goes by without a request.
TimePasses(r) ==
    /\ rem[r].inner = "run" /\ rem[r].recent /\ ~hlsAlwaysRemux
    /\ rem' = [rem EXCEPT ![r].recent = FALSE]
    /\ UNCHANGED <<server, pending, http, environment>>

\* remuxerCtx is done.
InnerCancelled(r) ==
    /\ rem[r].inner = "run" /\ rem[r].loop = "waitErr"
    /\ Return(r)

(***************************************************************************)
(* HTTP handlers and paths                                                 *)
(***************************************************************************)
\* The client stops reading without closing its connection: w.Write blocks,
\* and the server sets no write timeout.
ClientStalls(q) ==
    /\ http[q].st = "reading"
    /\ http' = [http EXCEPT ![q].st = "stalled"]
    /\ UNCHANGED <<server, pending, rem, environment>>

\* Mutant: a reader of a buffer is not woken up by its closing.
ReadEnds_onlyOpen(q) ==
    /\ http[q].st \in {"reading", "stalled"} /\ ~ReadsClosed(q)
    /\ http' = [http EXCEPT ![q] = NoFile]
    /\ UNCHANGED <<server, pending, rem, environment>>

\* The segment is complete, the muxer is closed or the client is gone.  A
\* client that had stalled may go on, too.
ReadEnds(q) ==
    /\ http[q].st \in {"reading", "stalled"}
    /\ http' = [http EXCEPT ![q] = NoFile]
    /\ UNCHANGED <<server, pending, rem, environment>>

\* sourceSetReady: the readers on hold are answered, and only then the path
\* turns to the path manager.
SourceReady(n) ==
    LET held == {r \in Remuxers : rem[r].inner = "held" /\ rem[r].name = n}
    IN /\ ~src[n] /\ n \notin telling
       /\ src' = [src EXCEPT ![n] = TRUE]
       /\ rem' = [r \in Remuxers |->
                    IF r \in held THEN [rem[r] EXCEPT !.inner = "tracks"] ELSE rem[r]]
       /\ attached' = attached \cup held
       /\ telling' = telling \cup {n}
       /\ UNCHANGED <<server, pending, http, notify, crashed>>

\* The path manager receives pathSourceReady and passes it on to the server it
\* knows.
SourceTold(n) ==
    /\ n \in telling /\ notify = None
    /\ telling' = telling \ {n}
    /\ notify' = IF phase = "done" THEN None ELSE n
    /\ UNCHANGED <<server, pending, rem, http, src, attached, crashed>>

\* sourceSetNotReady, or the end of the path: every reader is removed and its
\* Close() cancels its context.
SourceLost(n) ==
    LET readers == {r \in attached : rem[r].name = n}
    IN /\ src[n] /\ n \notin telling
       /\ src' = [src EXCEPT ![n] = FALSE]
       /\ rem' = [r \in Remuxers |->
                    IF r \in readers THEN [rem[r] EXCEPT !.cancelled = TRUE] ELSE rem[r]]
       /\ attached' = attached \ readers
       /\ UNCHANGED <<server, pending, http, telling, notify, crashed>>

RemuxerStep(r) ==
    \/ LoopRequest(r) \/ LoopRequestTerminated(r) \/ LoopReady(r) \/ LoopErr(r)
    \/ LoopCtxDone(r) \/ LoopJoined(r) \/ RemuxerClose(r) \/ RemuxerCloseTerminated(r)

InnerStep(r) ==
    \/ SetupForwarded(r) \/ SetupAccepted(r) \/ SetupHeld(r) \/ SetupRefused(r)
    \/ TracksUnsupported(r) \/ MuxerCreated(r)
    \/ ReaderPlay(r) \/ WriterFails(r) \/ Inactive(r) \/ TimePasses(r) \/ InnerCancelled(r)

Step ==
    \/ PathSourceReady \/ PathSourceReadyTerminated \/ Close \/ CtxDoneSeen \/ Shutdown \/ Unset
    \/ \E r \in Remuxers : RemuxerStep(r) \/ InnerStep(r)
    \/ \E q \in Requests : ReadEnds(q) \/ ClientStalls(q) \/ \E n \in Names : ServeHTTP(q, n)
    \/ \E n \in Names : SourceReady(n) \/ SourceTold(n) \/ SourceLost(n)

\* Nothing happens after a panic.
Next == ~crashed /\ Step /\ UNCHANGED hlsAlwaysRemux

Spec == Init /\ [][Next]_vars

(***************************************************************************)
(* Safety                                                                  *)
(***************************************************************************)
\* Types of the state.
TypeOK ==
    /\ hlsAlwaysRemux \in BOOLEAN
    /\ phase \in {"run", "shutdown", "unset", "done"}
    /\ srvDone \in BOOLEAN
    /\ remuxers \in [Names -> Remuxers \cup {None}]
    /\ fwd \in [req: Requests \cup {None}, rem: Remuxers \cup {None}]
    /\ rem \in [Remuxers ->
                 [name: Names \cup {None}, cancelled: BOOLEAN,
                  loop: {"off", "loop", "waitErr", "closing"},
                  ready: BOOLEAN, queue: SUBSET Requests,
                  inner: {"setup", "asked", "held", "tracks", "ready", "play", "run", "err", "end"},
                  recent: BOOLEAN]]
    /\ http \in [Requests -> [st: {"idle", "waiting", "reading", "stalled"}, rem: Remuxers \cup {None}]]
    /\ forsaken \subseteq Requests
    /\ src \in [Names -> BOOLEAN]
    /\ attached \subseteq Remuxers
    /\ telling \subseteq Names
    /\ notify \in Names \cup {None}
    /\ crashed \in BOOLEAN

\* While the server runs its map holds every remuxer that is not over: a path
\* is never remuxed twice and no remuxer is left running unseen.
NoOrphanRemuxer ==
    \A r \in Remuxers : ~srvDone /\ ~Ended(r) => remuxers[rem[r].name] = r

\* The handler waits in the list of a remuxer whose loop is not coming back:
\* it ended, or it will, before it was ready, and nobody answers any more
\* (hls_remuxer.go:190-213).
Forsaken(q) ==
    \/ q \in forsaken
    \/ \E r \in Remuxers : q \in rem[r].queue /\ rem[r].loop \in {"waitErr", "closing"}

\* A handler is blocked exactly while the server hands its request on, a
\* remuxer that is not ready and whose loop runs has it in its list, or such a
\* remuxer has ended without an answer.
WaitingIsHeld ==
    \A q \in Requests : http[q].st = "waiting" <=>
        \/ fwd.req = q
        \/ \E r \in Remuxers : q \in rem[r].queue /\ rem[r].loop = "loop" /\ ~rem[r].ready
        \/ Forsaken(q)

\* Nobody answers a request twice, which would block the second one for ever:
\* it is in one list, and in none while the server hands it on.
HeldOnce ==
    /\ fwd.req \notin forsaken
    /\ \A r \in Remuxers : fwd.req \notin rem[r].queue /\ rem[r].queue \cap forsaken = {}
    /\ \A r, s \in Remuxers : \A q \in rem[r].queue : q \in rem[s].queue => r = s

\* The files that handlers read belong to a muxer that has been created, and
\* the path of the remuxer is known by then.
FilesHaveMuxer ==
    \A q \in Requests : http[q].rem # None =>
        rem[http[q].rem].inner \notin {"setup", "asked", "held", "tracks", "ready"}

\* Each handler is accounted for: it is held by the server or by exactly one
\* remuxer that can still come to it, or it is forsaken by that remuxer, which
\* the code does not prevent (WaitingIsHeld, HeldOnce), or it reads from a
\* muxer that exists (FilesHaveMuxer).
HandlersAccounted == WaitingIsHeld /\ HeldOnce /\ FilesHaveMuxer

\* A remuxer that is over is not a reader of its path any more, whatever made
\* it end, so that it does not keep an on demand source open.
EndedRemuxersDetached ==
    \A r \in Remuxers : MuxerClosed(r) => r \notin attached

(***************************************************************************)
(* Liveness                                                                *)
(*                                                                         *)
(* The goroutines of the server run.  Where several callers compete for    *)
(* one loop the select of Go picks at random among those that are ready,   *)
(* hence the strong fairness.  Clocks advance, and a path answers what it  *)
(* has on hold when its timer expires.  A reader of a closed muxer gets to *)
(* the end of its file, unless its client has stalled.                     *)
(***************************************************************************)
Do(A) == ~crashed /\ A /\ UNCHANGED hlsAlwaysRemux

\* There is one remuxer of each path at a time.
OfPath(n, A(_)) == \E r \in Remuxers : rem[r].name = n /\ Do(A(r))

Joins(r) == LoopReady(r) \/ LoopErr(r) \/ LoopCtxDone(r) \/ LoopJoined(r)
Forwards(r) == LoopRequest(r) \/ LoopRequestTerminated(r)
Reports(r) == RemuxerClose(r) \/ RemuxerCloseTerminated(r)
SetsUp(r) == SetupForwarded(r) \/ SetupAccepted(r) \/ SetupRefused(r)
Remuxes(r) ==
    \/ TracksUnsupported(r) \/ MuxerCreated(r) \/ ReaderPlay(r)
    \/ Inactive(r) \/ TimePasses(r) \/ InnerCancelled(r)

RemuxerFairness(n) ==
    /\ WF_vars(OfPath(n, Joins)) /\ SF_vars(OfPath(n, Remuxes))
    /\ SF_vars(OfPath(n, Reports)) /\ SF_vars(OfPath(n, SetsUp))
    /\ SF_vars(Do(SourceTold(n)))

Fairness ==
    /\ SF_vars(Do(PathSourceReady \/ PathSourceReadyTerminated))
    /\ SF_vars(Do(CtxDoneSeen)) /\ WF_vars(Do(Shutdown)) /\ SF_vars(Do(Unset))
    /\ WF_vars(\E r \in Remuxers : Do(Forwards(r)))
    /\ \A n \in Names : RemuxerFairness(n)
    /\ \A q \in Requests :
        WF_vars(Do(http[q].st = "reading" /\ ReadsClosed(q) /\ ReadEnds(q)))

FairSpec == Spec /\ Fairness

\* The loop of the remuxer waits for remuxerErr and its inner goroutine for
\* someone who receives remuxerReady.
Deadlocked(r) == rem[r].loop = "waitErr" /\ rem[r].inner = "ready"

\* Who calls the server gets away, whatever the server, its remuxers and the
\* other callers are waiting for: ServeHTTP is answered, unless the remuxer
\* ends before it is ready, and the path manager is not held up for good by
\* OnPathSourceReady.
CallersReleased ==
    /\ \A q \in Requests :
        http[q].st = "waiting" ~> http[q].st # "waiting" \/ Forsaken(q) \/ crashed
    /\ notify # None ~> notify = None \/ crashed

\* Without requests the remuxers end, unless the server is told to remux
\* always or the remuxer was closed in the one place where it can't end.
IdleRemuxersEnd ==
    [](~hlsAlwaysRemux) /\ <>[](\A q \in Requests : http[q].st # "waiting" \/ Forsaken(q)) =>
        <>[](crashed \/ \A r \in Remuxers : Ended(r) \/ Deadlocked(r))

\* close() returns, with all handlers and remuxers gone, if no client stalls for
\* good in the middle of a file, unless a handler was forsaken or a remuxer is
\* deadlocked.
HLSCloseCompletes ==
    (\A q \in Requests : <>[](http[q].st # "stalled")) =>
        (srvDone ~> \/ phase = "done" /\ \A r \in Remuxers : Ended(r)
                    \/ \E q \in Requests : Forsaken(q)
                    \/ \E r \in Remuxers : Deadlocked(r)
                    \/ crashed)

=============================================================================
