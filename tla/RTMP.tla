-------------------------------- MODULE RTMP --------------------------------
(***************************************************************************)
(* The RTMP server and its connections: the goroutine and the listener     *)
(* goroutine of core/rtmp_server.go, and for each connection the           *)
(* goroutines of core/rtmp_conn.go (run, runInner and the two that close   *)
(* the socket and the ring buffer when the context is done).  The id that  *)
(* newConnID draws differs from those of all connections in s.conns, so    *)
(* within s.conns a connection stands for its id.                          *)
(*                                                                         *)
(* The path is the other side of the calls that a connection makes; here   *)
(* it is reduced to who is registered, who waits and whether it has a      *)
(* stream.  Its own goroutine is the subject of module Path.  Frames and   *)
(* their decoding are left out: a frame either goes through or ends the    *)
(* connection.                                                             *)
(***************************************************************************)
EXTENDS Integers, FiniteSets

CONSTANTS
    Conns,     \* connections, each opened at most once
    MaxConns,  \* how many are opened without and with runOnConnect (bound)
    Restart,   \* runOnConnectRestart
    Other      \* a source of the path that is not an RTMP connection

ASSUME OtherAssumption == Other \notin Conns
ASSUME MaxConnsAssumption == MaxConns \in [BOOLEAN -> Nat]

VARIABLES
    runOnConnect, \* the server has a command to run for each connection
    srv,      \* run() of the server: "loop", "ended"
    acc,      \* its listener goroutine: "accept", "ended"
    ctxDone,  \* s.ctx is cancelled
    conns,    \* s.conns
    conn,     \* the connection objects
    pa,       \* the path
    panicked  \* a goroutine has dereferenced a nil stream

server == <<runOnConnect, srv, acc, ctxDone, conns>>
vars == <<server, conn, pa, panicked>>

Cmd == INSTANCE ExternalCmd

INSTANCE PathView WITH Clients <- Conns

ASSUME NilAssumption == Nil \notin Conns \cup {Other}

\* One connection.  pc is where run() is, inner where runInner() is.
ConnType ==
    [pc: {"none", "run", "close", "command", "ended"},
     inner: {"none", "handshake", "setup", "held", "pause", "accepted",
             "play", "pull", "remove", "metadata", "announce", "record",
             "publish", "unpublish", "done"},
     ctx: BOOLEAN,                        \* c.ctxCancel has been called
     state: {"idle", "read", "publish"},  \* c.state
     ring: BOOLEAN,                       \* c.ringBuffer exists
     rtcp: BOOLEAN,                       \* the RTCP sender set is running
     cmd: Cmd!CmdType]                    \* runOnConnect

Unborn == [pc |-> "none", inner |-> "none", ctx |-> FALSE,
           state |-> "idle", ring |-> FALSE, rtcp |-> FALSE, cmd |-> Cmd!NoCmd]

Alive == ~panicked

\* c.ctx is done: it derives from s.ctx.
done(c) == ctxDone \/ conn[c].ctx

\* The goroutine started with the ring buffer closes it once the context is
\* done: then Pull() returns nothing, even if no frame ever comes.
pullInterrupted(c) == done(c)

\* Mutant: the socket stays open until runInner has returned.
socketClosed_late(c) == conn[c].pc = "close"

\* The goroutine started by runInner closes the socket once the context is
\* done: then every read and write fails.
socketClosed(c) == done(c)

Waiting == {c \in Conns : conn[c].inner = "held"}

Init ==
    /\ runOnConnect \in BOOLEAN
    /\ srv = "loop" /\ acc = "accept" /\ ctxDone = FALSE
    /\ conns = {}
    /\ conn = [c \in Conns |-> Unborn]
    /\ pa \in {NewPath(d) : d \in BOOLEAN}
    /\ panicked = FALSE

(***************************************************************************)
(* The listener goroutine                                                  *)
(***************************************************************************)
\* Accept() fails because the listener is closed, or by itself, and nobody
\* takes the error any more.  A connection that is accepted then is closed.
AcceptEnds ==
    /\ Alive /\ acc = "accept" /\ ctxDone
    /\ acc' = "ended"
    /\ UNCHANGED <<runOnConnect, srv, ctxDone, conns, conn, pa, panicked>>

(***************************************************************************)
(* The goroutine of the server                                             *)
(***************************************************************************)
\* The listener goroutine hands over a connection.
NewConn(c) ==
    /\ Alive /\ srv = "loop" /\ acc = "accept"
    /\ conn[c].pc = "none"
    /\ Cardinality({d \in Conns : conn[d].pc # "none"}) < MaxConns[runOnConnect]
    /\ conn' = [conn EXCEPT ![c] = [Unborn EXCEPT
                    !.pc = "run", !.inner = "handshake",
                    !.cmd = IF runOnConnect THEN Cmd!New ELSE Cmd!NoCmd]]
    /\ conns' = conns \cup {c}
    /\ UNCHANGED <<runOnConnect, srv, acc, ctxDone, pa, panicked>>

\* The loop ends, with the error of the listener or with the context, which is
\* cancelled; the listener is closed.
Leave ==
    /\ Alive /\ srv = "loop"
    /\ \/ acc = "accept" /\ acc' = "ended"
       \/ ctxDone /\ UNCHANGED acc
    /\ srv' = "ended" /\ ctxDone' = TRUE
    /\ UNCHANGED <<runOnConnect, conns, conn, pa, panicked>>

\* close(): called by the core; it returns when every goroutine has ended.
CloseServer ==
    /\ Alive /\ ~ctxDone
    /\ ctxDone' = TRUE
    /\ UNCHANGED <<runOnConnect, srv, acc, conns, conn, pa, panicked>>

\* Mutant: the connection is forgotten but not closed.
Kick_keepOpen(c) ==
    /\ Alive /\ srv = "loop" /\ c \in conns
    /\ conns' = conns \ {c}
    /\ UNCHANGED <<runOnConnect, srv, acc, ctxDone, conn, pa, panicked>>

\* A kick that finds its connection; the others change nothing.
Kick(c) ==
    /\ Alive /\ srv = "loop" /\ c \in conns
    /\ conns' = conns \ {c}
    /\ conn' = [conn EXCEPT ![c].ctx = TRUE]
    /\ UNCHANGED <<runOnConnect, srv, acc, ctxDone, pa, panicked>>

\* What apiRTMPConnsList answers: the state of each connection.
apiRTMPConnsList == [c \in conns |-> conn[c].state]

(***************************************************************************)
(* run() of a connection                                                   *)
(***************************************************************************)
\* runInner() has returned, which run() waits for even when the context is
\* done: then ctxCancel.
RunErr(c) ==
    /\ Alive /\ conn[c].pc = "run" /\ conn[c].inner = "done"
    /\ conn' = [conn EXCEPT ![c].pc = "close", ![c].ctx = TRUE, ![c].inner = "none"]
    /\ UNCHANGED <<server, pa, panicked>>

\* parent.OnConnClose(), then the deferred onConnectCmd.Close() begins.
OnConnClose(c) ==
    /\ Alive /\ conn[c].pc = "close"
    /\ \/ srv = "loop" /\ conns' = conns \ {c}
       \/ ctxDone /\ UNCHANGED conns
    /\ conn' = [conn EXCEPT ![c].pc = "command", ![c].cmd = IF runOnConnect THEN Cmd!Close(@) ELSE @]
    /\ UNCHANGED <<runOnConnect, srv, acc, ctxDone, pa, panicked>>

RunEnds(c) ==
    /\ Alive /\ conn[c].pc = "command" /\ Cmd!done(conn[c].cmd)
    /\ conn' = [conn EXCEPT ![c].pc = "ended"]
    /\ UNCHANGED <<server, pa, panicked>>

\* A step of the goroutine of runOnConnect, or of its process.
CommandStep(c) ==
    /\ Alive /\ \E k \in Cmd!run(conn[c].cmd, Restart) :
        conn' = [conn EXCEPT ![c].cmd = k]
    /\ UNCHANGED <<server, pa, panicked>>

(***************************************************************************)
(* The path, as the connections see it                                     *)
(***************************************************************************)
\* Close() of some connections.
closing(cs, f) ==
    [c \in Conns |-> IF c \in cs THEN [f[c] EXCEPT !.ctx = TRUE] ELSE f[c]]

\* The requests on hold are answered: accepted when there is a stream.
answered(f, ok) ==
    [c \in Conns |-> IF c \in Waiting
                       THEN [f[c] EXCEPT !.inner = IF ok THEN "accepted" ELSE "done"]
                       ELSE f[c]]

\* The ready timer of an on demand path expires, started by a request on hold
\* or by a DESCRIBE: a publisher that has not begun to record is closed.
RequestsTimeOut ==
    /\ Alive /\ pa.open /\ pa.onDemand /\ ~pa.ready
    /\ Waiting # {} \/ pa.source # Nil
    /\ pa' = onDemandCloseSource(pa)
    /\ conn' = closing(overridden(pa), answered(conn, FALSE))
    /\ UNCHANGED <<server, panicked>>

\* Its close timer expires: nobody has asked for the stream for a while.
OnDemandClose ==
    /\ Alive /\ pa.closeTimer
    /\ pa' = onDemandCloseSource(pa)
    /\ conn' = closing(overridden(pa), conn)
    /\ UNCHANGED <<server, panicked>>

\* A source that is not an RTMP connection provides the stream ...
OtherReady ==
    /\ Alive /\ pa.open /\ pa.source = Nil
    /\ pa' = [sourceSetReady(pa, Waiting) EXCEPT !.source = Other]
    /\ conn' = answered(conn, TRUE)
    /\ UNCHANGED <<server, panicked>>

\* ... and stops doing so.
OtherGone ==
    /\ Alive /\ pa.source = Other
    /\ pa' = doPublisherRemove(pa)
    /\ conn' = closing(dropped(pa), conn)
    /\ UNCHANGED <<server, panicked>>

\* The path ends, because the configuration has changed: it closes whom it
\* knows, answers whom it holds, and ignores every later call.
PathEnds ==
    /\ Alive /\ pa.open
    /\ pa' = [doPublisherRemove(pa) EXCEPT !.open = FALSE]
    /\ conn' = closing(registered(pa) \cup ({pa.source} \cap Conns),
                       answered(conn, FALSE))
    /\ UNCHANGED <<server, panicked>>

(***************************************************************************)
(* runInner(): the handshake                                               *)
(***************************************************************************)
\* Moves runInner to another place; nothing else changes.
goto(c, l) ==
    /\ conn' = [conn EXCEPT ![c].inner = l]
    /\ UNCHANGED <<server, pa, panicked>>

\* Reading fails: the peer, its protocol, a deadline or the closed socket.
HandshakeFails(c) == Alive /\ conn[c].inner = "handshake" /\ goto(c, "done")

Handshake(c) ==
    /\ Alive /\ conn[c].inner = "handshake"
    /\ goto(c, "setup") \/ goto(c, "metadata")

\* The pause that follows wrong credentials.
PauseEnds(c) == Alive /\ conn[c].inner = "pause" /\ goto(c, "done")

(***************************************************************************)
(* runRead()                                                               *)
(***************************************************************************)
\* OnReaderSetupPlay with an answer that is not an acceptance, or with none.
SetupRefused(c) ==
    /\ Alive /\ conn[c].inner = "setup"
    /\ \/ goto(c, "pause")
       \/ goto(c, "done")
       \/ ~pa.ready /\ pa.open /\ pa.onDemand /\ goto(c, "held")

SetupAccepted(c) ==
    /\ Alive /\ conn[c].inner = "setup" /\ pa.ready
    /\ pa' = handleReaderSetupPlayPost(pa, c)
    /\ conn' = [conn EXCEPT ![c].inner = "accepted"]
    /\ UNCHANGED <<server, panicked>>

\* Mutant: the checks of the tracks come before the deferred removal.
Unreadable_early(c) ==
    /\ Alive /\ conn[c].inner = "accepted"
    /\ conn' = [conn EXCEPT ![c].inner = "done", ![c].state = "read"]
    /\ UNCHANGED <<server, pa, panicked>>

\* The stream has no track, or too many tracks, that RTMP can carry.
Unreadable(c) ==
    /\ Alive /\ conn[c].inner = "accepted"
    /\ conn' = [conn EXCEPT ![c].inner = "remove", ![c].state = "read"]
    /\ UNCHANGED <<server, pa, panicked>>

\* The tracks are there: the metadata is written and the buffer created.
Readable(c) ==
    /\ Alive /\ conn[c].inner = "accepted"
    /\ conn' = [conn EXCEPT ![c].inner = "play", ![c].state = "read",
                            ![c].ring = TRUE]
    /\ UNCHANGED <<server, pa, panicked>>

\* OnReaderPlay.  The path dereferences its stream, which may be gone by now.
Play(c) ==
    /\ Alive /\ conn[c].inner = "play"
    /\ pa' = handleReaderPlay(pa, c)
    /\ panicked' = (pa.open /\ ~pa.ready)
    /\ conn' = [conn EXCEPT ![c].inner = "pull"]
    /\ UNCHANGED server

\* The loop over the frames ends: the buffer is closed, or a frame can't be
\* converted or written.
PullFails(c) == Alive /\ conn[c].inner = "pull" /\ goto(c, "remove")

\* The deferred OnReaderRemove.
ReaderRemove(c) ==
    /\ Alive /\ conn[c].inner = "remove"
    /\ pa' = handleReaderRemove(pa, c)
    /\ conn' = [conn EXCEPT ![c].inner = "done"]
    /\ UNCHANGED <<server, panicked>>

(***************************************************************************)
(* runPublish()                                                            *)
(***************************************************************************)
ReadMetadata(c) ==
    /\ Alive /\ conn[c].inner = "metadata"
    /\ \/ goto(c, "done")
       \/ goto(c, "announce")

\* OnPublisherAnnounce is refused: no such path, a source that can't be
\* overridden, or wrong credentials.
AnnounceRefused(c) ==
    /\ Alive /\ conn[c].inner = "announce"
    /\ \/ goto(c, "pause")
       \/ goto(c, "done")

\* The previous publisher, if any, is closed and replaced.
AnnounceAccepted(c) ==
    /\ Alive /\ conn[c].inner = "announce" /\ pa.open
    /\ pa' = handlePublisherAnnounce(pa, c)
    /\ conn' = [closing(overridden(pa), conn) EXCEPT ![c].inner = "record"]
    /\ UNCHANGED <<server, panicked>>

\* OnPublisherRecord: refused when the publisher has been replaced.
Record(c) ==
    /\ Alive /\ conn[c].inner = "record"
    /\ IF pa.open /\ pa.source = c
         THEN /\ pa' = sourceSetReady(pa, Waiting)
              /\ conn' = [answered(conn, TRUE) EXCEPT ![c].inner = "publish",
                             ![c].state = "publish", ![c].rtcp = TRUE]
         ELSE /\ conn' = [conn EXCEPT ![c].inner = "unpublish", ![c].state = "publish"]
              /\ UNCHANGED pa
    /\ UNCHANGED <<server, panicked>>

\* A packet can't be read, decoded or encoded; the RTCP senders are closed.
PublishFails(c) ==
    /\ Alive /\ conn[c].inner = "publish"
    /\ conn' = [conn EXCEPT ![c].inner = "unpublish", ![c].rtcp = FALSE]
    /\ UNCHANGED <<server, pa, panicked>>

\* The deferred OnPublisherRemove.
PublisherRemove(c) ==
    /\ Alive /\ conn[c].inner = "unpublish"
    /\ pa' = handlePublisherRemove(pa, c)
    /\ conn' = [closing(IF pa.source = c THEN dropped(pa) ELSE {}, conn)
                    EXCEPT ![c].inner = "done"]
    /\ UNCHANGED <<server, panicked>>

-----------------------------------------------------------------------------
Closed ==
    /\ srv = "ended" /\ acc = "ended"
    /\ \A c \in Conns : conn[c].pc \in {"none", "ended"}

\* The server has been closed, or the process has panicked.
Finished == (Closed \/ panicked) /\ UNCHANGED vars

RunSteps(c) == RunErr(c) \/ OnConnClose(c) \/ RunEnds(c)

\* The steps of runInner that its own goroutine takes without outside help.
InnerSteps(c) ==
    \/ PauseEnds(c) \/ SetupAccepted(c) \/ SetupRefused(c)
    \/ Unreadable(c) \/ Readable(c) \/ Play(c) \/ ReaderRemove(c)
    \/ AnnounceRefused(c) \/ AnnounceAccepted(c) \/ Record(c) \/ PublisherRemove(c)

\* The steps that wait for the peer, which deadlines bound.
PeerSteps(c) == HandshakeFails(c) \/ Handshake(c) \/ ReadMetadata(c)

\* The loops over the frames, which only end when something goes wrong.
FrameSteps(c) == PullFails(c) \/ PublishFails(c)

ServerSteps ==
    \/ AcceptEnds \/ Leave \/ CloseServer
    \/ \E c \in Conns : NewConn(c) \/ Kick(c)

PathSteps == RequestsTimeOut \/ OnDemandClose \/ OtherReady \/ OtherGone \/ PathEnds

Next ==
    \/ ServerSteps
    \/ PathSteps
    \/ \E c \in Conns : \/ RunSteps(c) \/ CommandStep(c) \/ InnerSteps(c)
                        \/ PeerSteps(c) \/ FrameSteps(c)
    \/ Finished

\* Goroutines run, deadlines and timers expire, a process that got the signal
\* ends.  Frames, clients, kicks and the other source owe nothing.
Fairness ==
    /\ WF_vars(ctxDone /\ Leave)
    /\ WF_vars(srv = "ended" /\ AcceptEnds)
    /\ WF_vars(Waiting # {} /\ RequestsTimeOut)
    /\ \A c \in Conns :
        /\ WF_vars(RunSteps(c))
        /\ WF_vars(conn[c].cmd.terminate /\ CommandStep(c))
        /\ WF_vars(InnerSteps(c))
        /\ WF_vars(PeerSteps(c))
        /\ WF_vars(pullInterrupted(c) /\ PullFails(c))
        /\ WF_vars(socketClosed(c) /\ PublishFails(c))

Spec == Init /\ [][Next]_vars /\ Fairness

-----------------------------------------------------------------------------
\* Types of the state.
TypeOK ==
    /\ runOnConnect \in BOOLEAN
    /\ srv \in {"loop", "ended"}
    /\ acc \in {"accept", "ended"}
    /\ ctxDone \in BOOLEAN /\ panicked \in BOOLEAN
    /\ conns \subseteq Conns
    /\ conn \in [Conns -> ConnType]
    /\ pa \in PathType

\* A connection that has ended leaves nothing behind: the path does not know
\* it as a reader or as its source, no RTCP sender and no process of
\* runOnConnect is running, its socket is or is about to be closed, and the
\* server has forgotten it (rtmp_conn.go: the deferred calls of run, runRead
\* and runPublish, on every way out, whatever the path did meanwhile).
NothingLeftBehind ==
    \A c \in Conns : conn[c].pc = "ended" =>
        /\ pa.readers[c] = "none" /\ pa.source # c
        /\ ~conn[c].rtcp /\ ~Cmd!process(conn[c].cmd)
        /\ done(c)
        /\ c \in conns => ctxDone

\* A connection that plays or publishes is in the server's list with the
\* matching state, where a kick finds it, unless it has been told to end
\* already; and the frames of the path find the buffer they
\* are pushed to (OnReaderFrame), however far the goroutine that receives them is.
WorkersAreListed ==
    \A c \in Conns :
        /\ pa.readers[c] = "play" => conn[c].ring
        /\ (conn[c].pc \notin {"none", "ended"} /\ ~done(c)) =>
            /\ c \in conns
            /\ pa.readers[c] = "play" => apiRTMPConnsList[c] = "read"
            /\ (pa.source = c /\ pa.ready) => apiRTMPConnsList[c] = "publish"

\* A connection that is told to end (kicked, dropped or replaced by the path,
\* or with the whole server) ends, and close() of the server returns, even
\* when the connection is blocked in a handshake, a request on hold, the pause
\* after wrong credentials, or waiting for frames that never come.
CancelledConnsEnd ==
    /\ \A c \in Conns :
        (conn[c].pc # "none" /\ done(c)) ~> (conn[c].pc = "ended" \/ panicked)
    /\ ctxDone ~> (Closed \/ panicked)

=============================================================================
