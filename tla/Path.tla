-------------------------------- MODULE Path --------------------------------
(***************************************************************************)
(* One path of the server: the goroutine of core/path.go together with the *)
(* clients and the static sources that call it.                            *)
(*                                                                         *)
(* `pa' mirrors the Go struct: everything the path goroutine writes.  A    *)
(* handler is a transformer of that record which keeps the name of the Go  *)
(* method.  A call into the path is a rendezvous on an unbuffered channel  *)
(* whose caller blocks for the answer, so call and handler are one step;   *)
(* a request that is put on hold leaves its caller with res = "wait".      *)
(***************************************************************************)
EXTENDS Integers, FiniteSets

CONSTANTS
    Readers,      \* RTSP sessions, RTMP connections and HLS remuxers that read
    RTSPReaders,  \* the readers that are RTSP sessions
    Publishers,   \* RTSP sessions and RTMP connections that publish
    Describers,   \* RTSP connections that issue DESCRIBE
    Sources,      \* static sources alive at the same time (bound)
    Confs,        \* configurations the path may be created with
    MaxDrift      \* how far countPublishers may drift from zero (bound)

\* A path configuration that conf.PathConf.checkAndFillMissing accepts.
ValidConf(c) ==
    /\ c.regexp => c.source # "static"
    /\ c.sourceOnDemand => c.source # "publisher"
    /\ c.runOnInit => ~c.regexp
    /\ c.runOnPublish => c.source = "publisher"
    /\ c.runOnDemand => c.source = "publisher"

ConfType == [source: {"publisher", "static", "redirect"},
             sourceOnDemand: BOOLEAN, disablePublisherOverride: BOOLEAN,
             fallback: BOOLEAN, runOnInit: BOOLEAN, runOnDemand: BOOLEAN,
             runOnPublish: BOOLEAN, regexp: BOOLEAN]

ASSUME ClientsAssumption ==
    /\ RTSPReaders \subseteq Readers
    /\ Readers \cap Describers = {}
    /\ Publishers \cap Sources = {}
    /\ Readers \cap (Publishers \cup Sources) = {}
    /\ "nil" \notin Publishers \cup Sources
    /\ "redirect" \notin Publishers \cup Sources

ASSUME FinitenessAssumption ==
    /\ IsFiniteSet(Readers)
    /\ IsFiniteSet(Publishers)
    /\ MaxDrift \in Nat

ASSUME ConfsAssumption ==
    Confs \subseteq {c \in ConfType : ValidConf(c)}

VARIABLES
    conf,     \* pa.conf; never changes during the life of a path
    pa,       \* the path struct
    phase,    \* where run() is: "run", "exit", "wait", "done"
    ctxDone,  \* pa.ctx is cancelled
    sess,     \* state of each reader as its own side sees it
    psess,    \* state of each publisher as its own side sees it
    pstream,  \* the stream each publisher writes to
    spc       \* where the goroutine of each static source is

vars == <<conf, pa, phase, ctxDone, sess, psess, pstream, spc>>

Requesters == Readers \cup Describers
NoStream == 0
Streams == 1 .. Cardinality(Publishers) + 2

(***************************************************************************)
(* Configuration predicates                                                *)
(***************************************************************************)
hasStaticSource == conf.source = "static"

isOnDemand == (hasStaticSource /\ conf.sourceOnDemand) \/ conf.runOnDemand

(***************************************************************************)
(* Helpers of the path goroutine                                           *)
(***************************************************************************)
registered(p) == {r \in Readers : p.readers[r] # "none"}
playing(p) == {r \in Readers : p.readers[r] = "play"}

\* Sends a reply on the Res channel of each request in reqs.
answer(p, reqs, a) ==
    [p EXCEPT !.res = [q \in Requesters |-> IF q \in reqs THEN a ELSE @[q]]]

\* A runtime panic at the named place; it takes the whole process down.
panicAt(p, cond, site) ==
    [p EXCEPT !.panic = IF cond /\ @ = "none" THEN site ELSE @]

staticSourceCreate(p, s) == [p EXCEPT !.source = s]

\* Mutant: the ready timer is not armed.
onDemandStartSource_noTimer(p, s) ==
    LET q == IF hasStaticSource THEN staticSourceCreate(p, s)
                                ELSE [p EXCEPT !.onDemandCmd = TRUE]
    IN [q EXCEPT !.onDemandState = "waitingReady"]

onDemandStartSource(p, s) ==
    LET q == IF hasStaticSource THEN staticSourceCreate(p, s)
                                ELSE [p EXCEPT !.onDemandCmd = TRUE]
    IN [q EXCEPT !.onDemandReadyTimer = TRUE, !.onDemandState = "waitingReady"]

onDemandScheduleClose(p) ==
    [p EXCEPT !.onDemandCloseTimer = TRUE, !.onDemandState = "closing"]

\* doReaderRemove() for every reader of rs.  stream.readerRemove() ignores
\* RTSP sessions and dereferences the stream for the others.
doReaderRemove(p, rs) ==
    LET gone == rs \cap playing(p)
        q == panicAt(p, p.stream = NoStream /\ ~(gone \subseteq RTSPReaders),
                     "readerRemove")
    IN [q EXCEPT !.countReaders = @ - Cardinality(gone),
                 !.nonRTSPReaders = @ \ gone,
                 !.readers = [r \in Readers |-> IF r \in rs THEN "none" ELSE @[r]]]

\* Mutant: the readers are removed but not closed.
closeReaders_silent(p) == doReaderRemove(p, registered(p))

\* The loop that removes and closes every reader.
closeReaders(p) ==
    LET q == doReaderRemove(p, registered(p))
    IN [q EXCEPT !.closed = @ \cup registered(p)]

\* pa.source.Close(): tells a static source or a publisher to end.
closeSource(p) ==
    [p EXCEPT !.closed = @ \cup ({p.source} \cap (Sources \cup Publishers))]

\* Mutant: the readers stay.
sourceSetNotReady_keepReaders(p) ==
    [p EXCEPT !.onPublishCmd = FALSE, !.sourceReady = FALSE,
              !.stream = NoStream, !.nonRTSPReaders = {}]

sourceSetNotReady(p) ==
    LET q == panicAt(closeReaders(p), p.stream = NoStream, "streamClose")
    IN [q EXCEPT !.onPublishCmd = FALSE, !.sourceReady = FALSE,
                 !.stream = NoStream, !.nonRTSPReaders = {}]

\* doPublisherRemove() when onDemandState is already Initial, which is how
\* onDemandCloseSource() calls it: the mutual recursion of the two Go methods
\* is never deeper than this.
doPublisherRemoveInitial(p) ==
    LET q == IF p.sourceReady
             THEN sourceSetNotReady([p EXCEPT !.countPublishers = @ - 1])
             ELSE p
    IN closeReaders([q EXCEPT !.source = "nil"])

closeStaticSource(p) ==
    LET q == IF p.sourceReady THEN sourceSetNotReady(p) ELSE p
        \* Every publisher has the methods of a sourceStatic.
        r == panicAt(q, q.source \notin Sources \cup Publishers, "closeStatic")
    IN [closeSource(r) EXCEPT !.source = "nil"]

closeOnDemandCmd(p) ==
    LET q == [panicAt(p, ~p.onDemandCmd, "closeCmd") EXCEPT !.onDemandCmd = FALSE]
    IN IF q.source = "nil" THEN q
       ELSE doPublisherRemoveInitial(closeSource(q))

\* Mutant: the close timer keeps running.
onDemandCloseSource_keepTimer(p) ==
    LET q == [p EXCEPT !.onDemandState = "initial"]
    IN IF hasStaticSource THEN closeStaticSource(q) ELSE closeOnDemandCmd(q)

onDemandCloseSource(p) ==
    LET q == [p EXCEPT
                !.onDemandCloseTimer = @ /\ p.onDemandState # "closing",
                !.onDemandState = "initial"]
    IN IF hasStaticSource THEN closeStaticSource(q) ELSE closeOnDemandCmd(q)

\* What a source that stops being ready does to the path.
sourceStops(p) ==
    IF isOnDemand /\ p.onDemandState # "initial"
    THEN onDemandCloseSource(p) ELSE sourceSetNotReady(p)

\* Mutant: the source is stopped without being ready.
doPublisherRemove_unguarded(p) ==
    closeReaders([sourceStops([p EXCEPT !.countPublishers = @ - 1]) EXCEPT !.source = "nil"])

doPublisherRemove(p) ==
    LET q == IF p.sourceReady
             THEN sourceStops([p EXCEPT !.countPublishers = @ - 1]) ELSE p
    IN closeReaders([q EXCEPT !.source = "nil"])

\* handleReaderSetupPlayPost() for every reader of rs.
handleReaderSetupPlayPost(p, rs) ==
    LET reopen == rs # {} /\ isOnDemand /\ p.onDemandState = "closing"
        q == [p EXCEPT
                !.readers = [r \in Readers |-> IF r \in rs THEN "prePlay" ELSE @[r]],
                !.onDemandState = IF reopen THEN "ready" ELSE @,
                !.onDemandCloseTimer = @ /\ ~reopen]
    IN answer(q, rs, "stream")

serveHeld(p) ==
    LET q == answer([p EXCEPT !.onDemandReadyTimer = FALSE,
                              !.describeRequests = {}, !.setupPlayRequests = {}],
                    p.describeRequests, "stream")
        r == handleReaderSetupPlayPost(q, p.setupPlayRequests)
    IN IF registered(r) # {} THEN [r EXCEPT !.onDemandState = "ready"]
                             ELSE onDemandScheduleClose(r)

sourceSetReady(p, st) ==
    LET q == [p EXCEPT !.sourceReady = TRUE, !.stream = st, !.nonRTSPReaders = {}]
    IN IF isOnDemand THEN serveHeld(q) ELSE q

\* Mutant: only the DESCRIBE requests are answered.
failHeld_describeOnly(p) ==
    LET q == answer(p, p.describeRequests, "error")
    IN [q EXCEPT !.describeRequests = {}, !.setupPlayRequests = {}]

\* Fails every request on hold.
failHeld(p) ==
    LET q == answer(p, p.describeRequests \cup p.setupPlayRequests, "error")
    IN [q EXCEPT !.describeRequests = {}, !.setupPlayRequests = {}]

(***************************************************************************)
(* Handlers                                                                *)
(***************************************************************************)
demand(p, s) ==
    IF p.onDemandState = "initial" THEN onDemandStartSource(p, s) ELSE p

handleDescribe(p, d, s) ==
    CASE p.source = "redirect" -> answer(p, {d}, "redirect")
      [] p.source # "redirect" /\ p.sourceReady -> answer(p, {d}, "stream")
      [] p.source # "redirect" /\ ~p.sourceReady /\ isOnDemand ->
            [demand(p, s) EXCEPT !.describeRequests = @ \cup {d}]
      [] OTHER -> answer(p, {d}, IF conf.fallback THEN "redirect" ELSE "error")

handleReaderSetupPlay(p, r, s) ==
    CASE p.sourceReady -> handleReaderSetupPlayPost(p, {r})
      [] ~p.sourceReady /\ isOnDemand ->
            [demand(p, s) EXCEPT !.setupPlayRequests = @ \cup {r}]
      [] OTHER -> answer(p, {r}, "error")

handleReaderPlay(p, r) ==
    LET q == panicAt(p, p.stream = NoStream /\ r \notin RTSPReaders, "readerAdd")
    IN [q EXCEPT !.countReaders = @ + 1, !.readers[r] = "play",
                 !.nonRTSPReaders = @ \cup ({r} \ RTSPReaders)]

\* Mutant: the reader is still counted.
handleReaderPause_counted(p, r) ==
    IF p.readers[r] = "play" THEN [p EXCEPT !.readers[r] = "prePlay"] ELSE p

handleReaderPause(p, r) ==
    IF p.readers[r] = "play"
    THEN [panicAt(p, p.stream = NoStream /\ r \notin RTSPReaders, "readerRemove")
            EXCEPT !.countReaders = @ - 1, !.readers[r] = "prePlay",
                   !.nonRTSPReaders = @ \ {r}]
    ELSE p

\* Mutant: the last reader does not schedule the closing.
handleReaderRemove_noSchedule(p, r) == doReaderRemove(p, {r} \cap registered(p))

handleReaderRemove(p, r) ==
    LET q == doReaderRemove(p, {r} \cap registered(p))
    IN IF isOnDemand /\ registered(q) = {} /\ q.onDemandState = "ready"
       THEN onDemandScheduleClose(q) ELSE q

\* The announcement is refused, leaving the path as it is.
announceRefused(p) ==
    p.source # "nil" /\ (hasStaticSource \/ conf.disablePublisherOverride)

\* Mutant: the publisher that is replaced is not closed.
handlePublisherAnnounce_noClose(p, a) == [doPublisherRemove(p) EXCEPT !.source = a]

handlePublisherAnnounce(p, a) ==
    LET q == IF p.source = "nil" THEN p ELSE doPublisherRemove(closeSource(p))
    IN IF p.source = "redirect" THEN panicAt(p, TRUE, "closePublisher")
                                ELSE [q EXCEPT !.source = a]

handlePublisherRecord(p, st) ==
    LET q == sourceSetReady([p EXCEPT !.countPublishers = @ + 1], st)
    IN [q EXCEPT !.onPublishCmd = @ \/ conf.runOnPublish]

handlePublisherPause(p, a) ==
    IF p.source = a /\ p.sourceReady
    THEN sourceStops([p EXCEPT !.countPublishers = @ - 1]) ELSE p

handlePublisherRemove(p, a) ==
    IF p.source = a THEN doPublisherRemove(p) ELSE p

\* Mutant: the request is ignored.
handleSourceStaticSetNotReady_ignored(p, s) == p

handleSourceStaticSetNotReady(p, s) ==
    IF p.source = s THEN sourceStops(p) ELSE p

(***************************************************************************)
(* Steps of the path goroutine                                             *)
(***************************************************************************)
Alive == pa.panic = "none"
Running == Alive /\ phase = "run"

\* The handler's effect, unless it panicked: then nothing is left to observe
\* but the panic.
Apply(q) == pa' = IF q.panic = "none" THEN q ELSE [pa EXCEPT !.panic = q.panic]

\* Goroutine started by the handler, if any.
Spawned(q) ==
    IF q.source \in Sources /\ q.source # pa.source
    THEN [spc EXCEPT ![q.source] = "dial"] ELSE spc

\* Mutant: any path that is left without source ends.
ExitIfUnused_any(q) == phase' = IF q.source = "nil" THEN "exit" ELSE phase

\* `break outer' after a handler that may leave a regexp path without source.
ExitIfUnused(q) ==
    phase' = IF q.source = "nil" /\ conf.regexp THEN "exit" ELSE phase

\* The static source a request would start.
NewSource ==
    IF hasStaticSource /\ isOnDemand /\ ~pa.sourceReady /\ pa.onDemandState = "initial"
    THEN {s \in Sources : spc[s] = "off"} ELSE {"nil"}

\* Address of a newly allocated stream.
NewStream == CHOOSE st \in Streams : st # pa.stream /\ \A p \in Publishers : pstream[p] # st

Init ==
    /\ conf \in Confs
    /\ phase = "run"
    /\ ctxDone = FALSE
    /\ sess = [r \in Readers |-> "initial"]
    /\ psess = [p \in Publishers |-> "initial"]
    /\ pstream = [p \in Publishers |-> NoStream]
    /\ \E s \in Sources \cup {"nil", "redirect"} :
        /\ s = "redirect" <=> conf.source = "redirect"
        /\ s \in Sources <=> hasStaticSource /\ ~conf.sourceOnDemand
        /\ spc = [t \in Sources |-> IF t = s THEN "dial" ELSE "off"]
        /\ pa = [source |-> s, sourceReady |-> FALSE, stream |-> NoStream,
                 nonRTSPReaders |-> {}, readers |-> [r \in Readers |-> "none"],
                 describeRequests |-> {}, setupPlayRequests |-> {},
                 onDemandCmd |-> FALSE, onPublishCmd |-> FALSE,
                 onInitCmd |-> conf.runOnInit,
                 onDemandReadyTimer |-> FALSE, onDemandCloseTimer |-> FALSE,
                 onDemandState |-> "initial",
                 countPublishers |-> 0, countReaders |-> 0,
                 closed |-> {}, res |-> [q \in Requesters |-> "none"],
                 panic |-> "none", stale |-> FALSE]

ReadyTimerFires ==
    LET q == onDemandCloseSource(failHeld([pa EXCEPT !.onDemandReadyTimer = FALSE]))
    IN /\ Running /\ pa.onDemandReadyTimer
       /\ Apply(q)
       /\ phase' = IF conf.regexp THEN "exit" ELSE phase
       /\ UNCHANGED <<conf, ctxDone, sess, psess, pstream, spc>>

CloseTimerFires ==
    LET q == onDemandCloseSource([pa EXCEPT !.onDemandCloseTimer = FALSE])
    IN /\ Running /\ pa.onDemandCloseTimer
       /\ Apply(q)
       /\ phase' = IF conf.regexp THEN "exit" ELSE phase
       /\ UNCHANGED <<conf, ctxDone, sess, psess, pstream, spc>>

\* pathManager.Close() or a configuration reload cancels the context.
Close ==
    /\ Running /\ ~ctxDone
    /\ ctxDone' = TRUE
    /\ UNCHANGED <<conf, pa, phase, sess, psess, pstream, spc>>

CtxDoneSeen ==
    /\ Running /\ ctxDone
    /\ phase' = "exit"
    /\ UNCHANGED <<conf, pa, ctxDone, sess, psess, pstream, spc>>

\* The tail of run(): the type switch on pa.source takes its first branch for
\* publishers too, so that countPublishers is not touched.
RunTail ==
    LET q == [failHeld(pa) EXCEPT
                !.onDemandReadyTimer = FALSE, !.onDemandCloseTimer = FALSE,
                !.onInitCmd = FALSE, !.onDemandCmd = FALSE,
                !.countReaders = @ - Cardinality(playing(pa)),
                !.nonRTSPReaders = {},
                !.closed = closeSource(pa).closed \cup registered(pa)]
    IN /\ Alive /\ phase = "exit"
       /\ Apply(q)
       /\ ctxDone' = TRUE
       /\ phase' = IF pa.source \in Sources \cup Publishers THEN "wait" ELSE "done"
       /\ UNCHANGED <<conf, sess, psess, pstream, spc>>

\* sourceStaticWg.Wait(), then OnPathClose().
SourcesJoined ==
    /\ Alive /\ phase = "wait"
    /\ \A s \in Sources : spc[s] = "off"
    /\ phase' = "done"
    /\ UNCHANGED <<conf, pa, ctxDone, sess, psess, pstream, spc>>

(***************************************************************************)
(* Static sources: rtspSource.run and rtmpSource.run                       *)
(***************************************************************************)
Cancelled(s) == s \in pa.closed \/ ctxDone

SourceDialed(s) ==
    /\ Alive /\ spc[s] = "dial"
    /\ \E to \in {"setReady", "pause"} : spc' = [spc EXCEPT ![s] = to]
    /\ UNCHANGED <<conf, pa, phase, ctxDone, sess, psess, pstream>>

\* The request carries no author: a source that was closed meanwhile is
\* accepted like the current one.  `stale' records that this has happened.
SourceSetReady(s) ==
    LET q == sourceSetReady([pa EXCEPT !.stale = @ \/ pa.source # s], NewStream)
    IN /\ Running /\ spc[s] = "setReady"
       /\ Apply(q)
       /\ spc' = [spc EXCEPT ![s] = "ready"]
       /\ UNCHANGED <<conf, phase, ctxDone, sess, psess, pstream>>

SourceSetReadyTerminated(s) ==
    /\ Alive /\ spc[s] = "setReady" /\ ctxDone
    /\ spc' = [spc EXCEPT ![s] = "pause"]
    /\ UNCHANGED <<conf, pa, phase, ctxDone, sess, psess, pstream>>

SourceFails(s) ==
    /\ Alive /\ spc[s] = "ready"
    /\ spc' = [spc EXCEPT ![s] = "failing"]
    /\ UNCHANGED <<conf, pa, phase, ctxDone, sess, psess, pstream>>

\* Mutant: the pause between two attempts cannot be interrupted.
SourceCancelled_notInPause(s) ==
    /\ Alive /\ Cancelled(s)
    /\ spc[s] \in {"dial", "ready"}
    /\ spc' = [spc EXCEPT ![s] = IF @ = "ready" THEN "closing" ELSE "off"]
    /\ pa' = [pa EXCEPT !.closed = IF spc[s] = "ready" THEN @ ELSE @ \ {s}]
    /\ UNCHANGED <<conf, phase, ctxDone, sess, psess, pstream>>

SourceCancelled(s) ==
    /\ Alive /\ Cancelled(s)
    /\ spc[s] \in {"dial", "ready", "pause"}
    /\ spc' = [spc EXCEPT ![s] = IF @ = "ready" THEN "closing" ELSE "off"]
    /\ pa' = [pa EXCEPT !.closed = IF spc[s] = "ready" THEN @ ELSE @ \ {s}]
    /\ UNCHANGED <<conf, phase, ctxDone, sess, psess, pstream>>

\* The deferred OnSourceStaticSetNotReady(); a source that was cancelled ends,
\* one that failed pauses before it tries again.
AfterNotReady(s) == [spc EXCEPT ![s] = IF @ = "closing" THEN "off" ELSE "pause"]
Ended(p, s) == [p EXCEPT !.closed = IF spc[s] = "closing" THEN @ \ {s} ELSE @]

SourceSetNotReady(s) ==
    LET q == handleSourceStaticSetNotReady(pa, s)
    IN /\ Running /\ spc[s] \in {"failing", "closing"}
       /\ Apply(Ended(q, s))
       /\ ExitIfUnused(q)
       /\ spc' = AfterNotReady(s)
       /\ UNCHANGED <<conf, ctxDone, sess, psess, pstream>>

SourceSetNotReadyTerminated(s) ==
    /\ Alive /\ spc[s] \in {"failing", "closing"} /\ ctxDone
    /\ pa' = Ended(pa, s)
    /\ spc' = AfterNotReady(s)
    /\ UNCHANGED <<conf, phase, ctxDone, sess, psess, pstream>>

SourceRetries(s) ==
    /\ Alive /\ spc[s] = "pause" /\ ~Cancelled(s)
    /\ spc' = [spc EXCEPT ![s] = "dial"]
    /\ UNCHANGED <<conf, pa, phase, ctxDone, sess, psess, pstream>>

(***************************************************************************)
(* Readers and describers                                                  *)
(***************************************************************************)
Idle(q) == pa.res[q] \notin {"wait", "stream"}

Describe(d) ==
    \E s \in NewSource :
        LET q == handleDescribe([pa EXCEPT !.res[d] = "wait"], d, s)
        IN /\ Running /\ pa.res[d] # "wait"
           /\ Apply(q)
           /\ spc' = Spawned(q)
           /\ UNCHANGED <<conf, phase, ctxDone, sess, psess, pstream>>

\* An RTSP session may set up one track after the other.
ReaderSetupPlay(r) ==
    \E s \in NewSource :
        LET q == handleReaderSetupPlay([pa EXCEPT !.res[r] = "wait"], r, s)
        IN /\ Running /\ Idle(r)
           /\ sess[r] = "initial" \/ (sess[r] = "preRead" /\ r \in RTSPReaders)
           /\ Apply(q)
           /\ spc' = Spawned(q)
           /\ UNCHANGED <<conf, phase, ctxDone, sess, psess, pstream>>

\* The reader resumes after a positive answer.
ReaderSetUp(r) ==
    /\ Alive /\ pa.res[r] = "stream"
    /\ pa' = [pa EXCEPT !.res[r] = "none"]
    /\ sess' = [sess EXCEPT ![r] = "preRead"]
    /\ UNCHANGED <<conf, phase, ctxDone, psess, pstream, spc>>

\* rtspSession.OnSetup fails after the path accepted the reader: the track
\* does not exist.  A session whose first SETUP this was is still in its
\* initial state when it is closed.
ReaderSetupBadTrack(r) ==
    /\ Alive /\ pa.res[r] = "stream" /\ r \in RTSPReaders
    /\ pa' = [pa EXCEPT !.res[r] = "none"]
    /\ sess' = [sess EXCEPT ![r] = IF @ = "initial" THEN "gone" ELSE @]
    /\ UNCHANGED <<conf, phase, ctxDone, psess, pstream, spc>>

ReaderPlay(r) ==
    /\ Running /\ Idle(r) /\ sess[r] = "preRead"
    /\ Apply(handleReaderPlay(pa, r))
    /\ sess' = [sess EXCEPT ![r] = "read"]
    /\ UNCHANGED <<conf, phase, ctxDone, psess, pstream, spc>>

ReaderPause(r) ==
    /\ Running /\ r \in RTSPReaders /\ sess[r] = "read"
    /\ Apply(handleReaderPause(pa, r))
    /\ sess' = [sess EXCEPT ![r] = "preRead"]
    /\ UNCHANGED <<conf, phase, ctxDone, psess, pstream, spc>>

\* rtspSession.OnClose(), or the deferred removal of the other readers.
ReaderRemove(r) ==
    LET q == handleReaderRemove(pa, r)
    IN /\ Running /\ Idle(r) /\ sess[r] \in {"preRead", "read"}
       /\ Apply([q EXCEPT !.closed = @ \ {r}])
       /\ sess' = [sess EXCEPT ![r] = "initial"]
       /\ UNCHANGED <<conf, phase, ctxDone, psess, pstream, spc>>

\* Once the context is cancelled the calls return without reaching the path;
\* what is left for the reader is to go away.
ReaderRemoveTerminated(r) ==
    /\ Alive /\ ctxDone /\ Idle(r) /\ sess[r] \in {"preRead", "read"}
    /\ sess' = [sess EXCEPT ![r] = "gone"]
    /\ pa' = [pa EXCEPT !.closed = @ \ {r}]
    /\ UNCHANGED <<conf, phase, ctxDone, psess, pstream, spc>>

(***************************************************************************)
(* Publishers                                                              *)
(***************************************************************************)
PublisherAnnounce(p) ==
    LET q == handlePublisherAnnounce(pa, p)
    IN /\ Running /\ psess[p] = "initial" /\ ~announceRefused(pa)
       /\ -MaxDrift < pa.countPublishers /\ pa.countPublishers < MaxDrift
       /\ Apply(q)
       /\ psess' = [psess EXCEPT ![p] = "prePublish"]
       /\ UNCHANGED <<conf, phase, ctxDone, sess, pstream, spc>>

\* A publisher that was replaced is refused and leaves the path as it is.
PublisherRecord(p) ==
    LET st == NewStream
    IN /\ Running /\ psess[p] = "prePublish" /\ pa.source = p
       /\ Apply(handlePublisherRecord(pa, st))
       /\ psess' = [psess EXCEPT ![p] = "publish"]
       /\ pstream' = [pstream EXCEPT ![p] = st]
       /\ UNCHANGED <<conf, phase, ctxDone, sess, spc>>

PublisherPause(p) ==
    LET q == handlePublisherPause(pa, p)
    IN /\ Running /\ psess[p] = "publish"
       /\ Apply(q)
       /\ ExitIfUnused(q)
       /\ psess' = [psess EXCEPT ![p] = "prePublish"]
       /\ pstream' = [pstream EXCEPT ![p] = NoStream]
       /\ UNCHANGED <<conf, ctxDone, sess, spc>>

PublisherRemove(p) ==
    LET q == handlePublisherRemove(pa, p)
    IN /\ Running /\ psess[p] \in {"prePublish", "publish"}
       /\ Apply([q EXCEPT !.closed = @ \ {p}])
       /\ ExitIfUnused(q)
       /\ psess' = [psess EXCEPT ![p] = "initial"]
       /\ pstream' = [pstream EXCEPT ![p] = NoStream]
       /\ UNCHANGED <<conf, ctxDone, sess, spc>>

PublisherRemoveTerminated(p) ==
    /\ Alive /\ ctxDone /\ psess[p] \in {"prePublish", "publish"}
    /\ pa' = [pa EXCEPT !.closed = @ \ {p}]
    /\ psess' = [psess EXCEPT ![p] = "gone"]
    /\ pstream' = [pstream EXCEPT ![p] = NoStream]
    /\ UNCHANGED <<conf, phase, ctxDone, sess, spc>>

\* The process has ended, or the path is gone and so is everyone who used it.
Terminated ==
    /\ ~Alive \/ phase = "done"
    /\ UNCHANGED vars

(***************************************************************************)
(* Specification                                                           *)
(***************************************************************************)
PathStep == ReadyTimerFires \/ CloseTimerFires \/ Close \/ CtxDoneSeen \/ RunTail \/ SourcesJoined

SourceStep(s) ==
    \/ SourceDialed(s) \/ SourceSetReady(s) \/ SourceSetReadyTerminated(s)
    \/ SourceFails(s) \/ SourceCancelled(s) \/ SourceSetNotReady(s)
    \/ SourceSetNotReadyTerminated(s) \/ SourceRetries(s)

ReaderStep(r) ==
    \/ ReaderSetupPlay(r) \/ ReaderSetUp(r) \/ ReaderSetupBadTrack(r) \/ ReaderPlay(r)
    \/ ReaderPause(r) \/ ReaderRemove(r) \/ ReaderRemoveTerminated(r)

PublisherStep(p) ==
    \/ PublisherAnnounce(p) \/ PublisherRecord(p) \/ PublisherPause(p)
    \/ PublisherRemove(p) \/ PublisherRemoveTerminated(p)

Next ==
    \/ PathStep
    \/ \E s \in Sources : SourceStep(s)
    \/ \E d \in Describers : Describe(d)
    \/ \E r \in Readers : ReaderStep(r)
    \/ \E p \in Publishers : PublisherStep(p)
    \/ Terminated

Spec == Init /\ [][Next]_vars

(***************************************************************************)
(* Safety                                                                  *)
(***************************************************************************)
PanicSites == {"readerRemove", "streamClose", "closeStatic", "closeCmd",
               "readerAdd", "closePublisher"}

PaType ==
    [source: Sources \cup Publishers \cup {"nil", "redirect"},
     sourceReady: BOOLEAN, stream: Streams \cup {NoStream},
     nonRTSPReaders: SUBSET Readers,
     readers: [Readers -> {"none", "prePlay", "play"}],
     describeRequests: SUBSET Describers, setupPlayRequests: SUBSET Readers,
     onDemandCmd: BOOLEAN, onPublishCmd: BOOLEAN, onInitCmd: BOOLEAN,
     onDemandReadyTimer: BOOLEAN, onDemandCloseTimer: BOOLEAN,
     onDemandState: {"initial", "waitingReady", "ready", "closing"},
     countPublishers: Int, countReaders: Int,
     closed: SUBSET (Readers \cup Publishers \cup Sources),
     res: [Requesters -> {"none", "wait", "stream", "redirect", "error"}],
     panic: PanicSites \cup {"none"}, stale: BOOLEAN]

\* Types of the state.  Only a static source or a publisher is ever told to
\* close, and the path points to nothing else than those two kinds and the
\* redirect.
TypeOK ==
    /\ conf \in Confs
    /\ pa \in PaType
    /\ phase \in {"run", "exit", "wait", "done"}
    /\ ctxDone \in BOOLEAN
    /\ sess \in [Readers -> {"initial", "preRead", "read", "gone"}]
    /\ psess \in [Publishers -> {"initial", "prePublish", "publish", "gone"}]
    /\ pstream \in [Publishers -> Streams \cup {NoStream}]
    /\ spc \in [Sources -> {"off", "dial", "setReady", "ready", "failing", "closing", "pause"}]

InLoop == phase \in {"run", "exit"}

\* No request is ever lost: a caller blocked on its answer is on one of the
\* lists of held requests, and as long as a list is not empty a source is
\* being started and the timer that will fail the requests is armed
\* (path.go handleDescribe, handleReaderSetupPlay, the ready timer case).
HeldRequestsWait ==
    /\ \A d \in Describers : pa.res[d] = "wait" <=> d \in pa.describeRequests
    /\ \A r \in Readers : pa.res[r] = "wait" <=> r \in pa.setupPlayRequests
    /\ ~pa.stale /\ pa.describeRequests \cup pa.setupPlayRequests # {} =>
            pa.onDemandReadyTimer /\ pa.onDemandState = "waitingReady" /\ ~pa.sourceReady

\* The on demand state, the two timers and the readiness of the source agree,
\* until the SetReady of a closed source is accepted (path.go, the calls of
\* onDemandStartSource, onDemandScheduleClose and onDemandCloseSource).
OnDemandStateAgrees ==
    /\ ~isOnDemand => pa.onDemandState = "initial"
    /\ isOnDemand => (pa.sourceReady <=> pa.onDemandState \in {"ready", "closing"})
    /\ pa.sourceReady <=> pa.stream # NoStream
    /\ ~pa.stale /\ InLoop =>
        /\ pa.onDemandReadyTimer <=> pa.onDemandState = "waitingReady"
        /\ pa.onDemandCloseTimer <=> pa.onDemandState = "closing"

\* What can be the source of which path: static sources run only for paths
\* that have one, and a publisher path is ready only through a publisher.
SourceMatchesConf ==
    /\ ~hasStaticSource => pa.source \notin Sources /\ \A s \in Sources : spc[s] = "off"
    /\ conf.source = "publisher" /\ pa.sourceReady => pa.source \in Publishers
    /\ conf.source = "redirect" <=> pa.source = "redirect"
    /\ conf.source = "redirect" => ~pa.sourceReady
    /\ pa.stale => hasStaticSource

\* A path is ready exactly as long as its current source is: a publisher that
\* is recording, or a static source between its SetReady and its SetNotReady
\* (which is lost, harmlessly, when the path is being closed).
ReadyMatchesOwner ==
    Alive /\ ~pa.stale =>
        /\ pa.sourceReady =>
            \/ /\ pa.source \in Publishers
               /\ psess[pa.source] = "publish" \/ (ctxDone /\ psess[pa.source] = "gone")
            \/ /\ pa.source \in Sources
               /\ \/ spc[pa.source] \in {"ready", "failing", "closing"}
                  \/ ctxDone /\ spc[pa.source] \in {"pause", "off"}
        /\ pa.source \in Sources /\ spc[pa.source] \in {"ready", "failing", "closing"} =>
            pa.sourceReady

\* A source that is kept open has a reader, one that is about to be closed has
\* none that was not told to leave, and a command runs only for those who asked.
OpenOnlyForReaders ==
    /\ pa.onDemandState = "ready" => registered(pa) # {}
    /\ ~ctxDone /\ pa.onDemandState = "closing" => registered(pa) \subseteq pa.closed
    /\ pa.onDemandCmd => InLoop /\ pa.onDemandState # "initial"

\* CountReaders (shown in every log line and exported) is the number of
\* readers in state Play whatever the order in which readers play, pause,
\* leave or are thrown out, and none is left when the path has ended; while
\* run() loops, CountPublishers is 1 exactly when a publisher is recording
\* (paths without on demand start).
CountsExact ==
    /\ pa.countReaders = IF InLoop THEN Cardinality(playing(pa)) ELSE 0
    /\ InLoop /\ ~isOnDemand =>
          pa.countPublishers = IF pa.sourceReady /\ pa.source \in Publishers THEN 1 ELSE 0

\* The readers and the stream agree: the current stream forwards frames to the
\* playing readers that are not RTSP sessions (stream.readerAdd and
\* readerRemove), and a reader that still believes to be attached but that the
\* path has dropped was told to leave (the Close() that accompanies each removal).
ReadersFollowStream ==
    /\ InLoop /\ ~pa.stale => pa.nonRTSPReaders = playing(pa) \ RTSPReaders
    /\ \A r \in Readers :
          /\ Alive /\ InLoop /\ pa.readers[r] = "none"
          /\ sess[r] \in {"preRead", "read"} \/ pa.res[r] = "stream"
          => r \in pa.closed

\* A publisher that records and was not told to leave is the source of the
\* path and writes to the stream the readers are attached to, and the path
\* never keeps a publisher that has already left: an override, a pause or an
\* on demand close leaves neither two publishers nor none feeding the path.
PublisherFeedsStream ==
    /\ \A p \in Publishers :
          Alive /\ psess[p] = "publish" /\ p \notin pa.closed /\ ~ctxDone /\ ~pa.stale =>
              pa.source = p /\ pa.sourceReady /\ pstream[p] = pa.stream
    /\ Alive /\ ~ctxDone /\ pa.source \in Publishers =>
          psess[pa.source] \in {"prePublish", "publish"}

\* The panics that can be reached, and by which paths: a reader that plays
\* after its source went away, a runOnDemand path whose publisher came without
\* being asked for, an on demand source that became ready too late, and an
\* announcement on a redirect path.  Closing a nil stream, or detaching a
\* reader from one, is not among them.
PanicsKnown ==
    \/ pa.panic \in {"none", "readerAdd"}
    \/ pa.panic = "closeCmd" /\ conf.runOnDemand
    \/ pa.panic = "closeStatic" /\ hasStaticSource /\ isOnDemand /\ pa.stale
    \/ pa.panic = "closePublisher" /\ conf.source = "redirect"

\* A stream is never exchanged under its readers: it goes away together with
\* all of them before another one can be created.
StreamNeverSwapped ==
    [][~pa'.stale /\ pa.stream # NoStream /\ pa'.stream # pa.stream =>
        pa'.stream = NoStream /\ registered(pa') = {}]_vars

LifeOf(ph) == CASE ph = "run" -> "run" [] ph = "done" -> "gone" [] OTHER -> "leaving"

Life == INSTANCE PathLife
            WITH life <- LifeOf(phase), cancelled <- ctxDone, regexp <- conf.regexp

\* A path keeps its promise to the path manager, which relies on it: only a
\* path created from a regular expression ends without being told to, and a
\* path that has ended is cancelled and stays so.
ImplementsPathLife == Life!Spec

(***************************************************************************)
(* Liveness                                                                *)
(*                                                                         *)
(* Weak fairness of the goroutines of the server: armed timers fire, the   *)
(* path takes the calls that are pending, sources react to cancellation and*)
(* their connection attempts end, readers and publishers that were closed  *)
(* leave.  Clients are under no obligation to do anything else.            *)
(***************************************************************************)
SourceFairness(s) ==
    WF_vars(SourceSetReady(s) \/ SourceSetReadyTerminated(s) \/ SourceCancelled(s)
            \/ SourceSetNotReady(s) \/ SourceSetNotReadyTerminated(s))

ClosedReaderLeaves(r) == r \in pa.closed /\ (ReaderRemove(r) \/ ReaderRemoveTerminated(r))

Fairness ==
    /\ WF_vars(ReadyTimerFires) /\ WF_vars(CloseTimerFires)
    /\ WF_vars(CtxDoneSeen) /\ WF_vars(RunTail) /\ WF_vars(SourcesJoined)
    /\ \A s \in Sources : SourceFairness(s)
    /\ \A r \in Readers : WF_vars(ReaderSetUp(r)) /\ WF_vars(ClosedReaderLeaves(r))

FairSpec == Spec /\ Fairness

Crashed == ~Alive

\* Every request is answered: by the stream, by the timeout or by the end of
\* the path.
RequestsAnswered ==
    \A q \in Requesters : pa.res[q] = "wait" ~> pa.res[q] # "wait" \/ Crashed

\* A path that is closed ends, even if its sources are anywhere in their
\* connection attempts or in a call into the path.
CloseEnds == ctxDone ~> phase = "done" \/ Crashed

\* No session reads or asks: it has not begun, or it is over.
NobodyLeft ==
    /\ \A r \in Readers : sess[r] \in {"initial", "gone"} /\ pa.res[r] \notin {"wait", "stream"}
    /\ \A d \in Describers : pa.res[d] # "wait"

\* The path still counts a reader whose session is over: a SETUP that named a
\* track which does not exist was refused after the path had registered the
\* reader (rtsp_session.go:225-231).
GhostReader == \E r \in Readers : sess[r] = "gone" /\ pa.readers[r] # "none"

PublishersSettle ==
    \A p \in Publishers : \E st \in {"initial", "prePublish", "publish"} : <>[](psess[p] = st)

\* When the readers have left for good, no one asks and publishers no longer
\* come and go, the on demand source or command is closed.  The one exception is
\* the source that a ghost reader keeps open, against rtsp-simple-server.yml:158.
DemandReleased ==
    <>[]NobodyLeft /\ PublishersSettle =>
        <>[](pa.onDemandState = "initial" \/ phase = "done" \/ Crashed \/ GhostReader)

=============================================================================
