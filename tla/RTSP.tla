-------------------------------- MODULE RTSP --------------------------------
(***************************************************************************)
(* The RTSP server and its sessions (core/rtsp_server.go, rtsp_session.go, *)
(* rtsp_conn.go).  The library gortsplib runs one goroutine per session    *)
(* that calls OnAnnounce, OnSetup, OnPlay, OnRecord and OnPause for the    *)
(* requests of the client and OnSessionClose at the end, and it keeps the  *)
(* state of the session (ss), which it changes after a handler has         *)
(* succeeded.  API requests kick sessions from goroutines of their own.    *)
(*                                                                         *)
(* A handler is cut where another goroutine can get in between: where it   *)
(* waits for the path, and between its effect on the path and the change   *)
(* of the state, except where what a kick would do there is the same (after*)
(* OnRecord and OnPause of a publisher).  Each session has a connection of *)
(* its own, which carries the count of failed logins.                      *)
(*                                                                         *)
(* The path may end and be replaced by another of the same name, with      *)
(* another configuration: a session keeps calling the one it was given.    *)
(***************************************************************************)
EXTENDS Naturals, FiniteSets

CONSTANTS
    Sessions,  \* sessions, each opened at most once
    Kickers,   \* API requests that kick, at the same time
    Other,     \* a source of the path that is not an RTSP session
    MaxLogins, \* refused logins that a session may meet (bound)
    MaxPaths,  \* paths that have the name, one after the other (bound)
    Mixes      \* what a behaviour combines (bound): sets of "login", "kick"
               \* and "replace"

ASSUME OtherSourceAssumption == Other \notin Sessions
ASSUME MaxLoginsAssumption == MaxLogins \in Nat
ASSUME MaxPathsAssumption == MaxPaths \in Nat \ {0}
ASSUME MixesAssumption == Mixes \subseteq SUBSET {"login", "kick", "replace"}

INSTANCE PathView WITH Clients <- Sessions

ASSUME NilAssumption == Nil \notin Sessions \cup {Other}

VARIABLES
    sessions,  \* the keys of s.sessions
    se,        \* the session objects and their goroutines
    kick,      \* the API requests
    ctxDone,   \* s.ctx is cancelled
    pa,        \* the path
    gen,       \* which of the paths that get the name it is
    runOnRead, \* which of these have runOnRead in their configuration
    mix,       \* the member of Mixes that this behaviour follows
    panicked   \* the process has ended with a panic

path == <<pa, gen, runOnRead, mix>>
vars == <<sessions, se, kick, ctxDone, path, panicked>>

Paths == 1..MaxPaths
NilPath == 0

SessionType ==
    [pc: {"none", "idle", "held", "setUp", "played", "pause", "announced",
          "authPause", "error", "onClose", "remove", "gone"},
     ss: {"initial", "preRead", "read", "prePublish", "publish"},  \* ss.State()
     state: {"initial", "preRead", "read", "prePublish", "publish"},
     closed: BOOLEAN,                          \* ss.Close() has been called
     path: Paths \cup {NilPath},               \* s.path
     res: Paths \cup {NilPath},                \* res.Path of the answer
     onReadCmd: {"none", "running", "closed"},
     authFailures: Nat,
     kicked: BOOLEAN,                          \* some kick has found it
     badTrack: BOOLEAN]                        \* its first SETUP failed late

Unopened == [pc |-> "none", ss |-> "initial", state |-> "initial",
             closed |-> FALSE, path |-> NilPath, res |-> NilPath,
             onReadCmd |-> "none", authFailures |-> 0, kicked |-> FALSE, badTrack |-> FALSE]

KickType == [pc: {"idle", "delete", "onClose", "remove"},
             target: Sessions \cup {Nil}]
NoKick == [pc |-> "idle", target |-> Nil]

Init ==
    /\ sessions = {}
    /\ se = [s \in Sessions |-> Unopened]
    /\ kick = [k \in Kickers |-> NoKick]
    /\ ctxDone = FALSE
    /\ gen = 1 /\ mix \in Mixes
    /\ runOnRead \in {f \in [Paths -> BOOLEAN] :
                       "replace" \in mix \/ \A p \in Paths \ {gen} : ~f[p]}
    /\ pa \in {NewPath(d) : d \in BOOLEAN}
    /\ panicked = FALSE

Kicked == \E s \in Sessions : se[s].kicked

Waiting == {s \in Sessions : se[s].pc = "held"}

\* A kick holds the read lock from its search to its return: until then no
\* one gets the write lock.
writeLockFree == \A k \in Kickers : kick[k].pc = "idle"

\* Close() of some sessions, and the answer to those whose SETUP is on hold.
closing(ss, f) ==
    [s \in Sessions |-> IF s \in ss THEN [f[s] EXCEPT !.closed = TRUE] ELSE f[s]]
answered(f, ok) ==
    [s \in Sessions |-> IF s \in Waiting
                          THEN [f[s] EXCEPT !.pc = IF ok THEN "setUp" ELSE "error",
                                            !.res = IF ok THEN gen ELSE NilPath]
                          ELSE f[s]]

Alive == ~panicked

\* The path that s was given takes its calls; one that has ended ignores them.
listens(s) == pa.open /\ se[s].path = gen

\* A method is called on a nil session, or through a nil path.
Panic ==
    /\ panicked' = TRUE
    /\ UNCHANGED <<sessions, se, kick, ctxDone, path>>

\* The goroutine of s may take up a request in state st.  The library may do
\* so even after Close().
Takes(s, st) == Alive /\ se[s].pc = "idle" /\ se[s].ss \in st

(***************************************************************************)
(* Opening and closing by the library                                      *)
(***************************************************************************)
OnSessionOpen(s) ==
    /\ Alive /\ ~ctxDone /\ writeLockFree /\ se[s].pc = "none"
    /\ sessions' = sessions \cup {s}
    /\ se' = [se EXCEPT ![s].pc = "idle"]
    /\ UNCHANGED <<kick, ctxDone, path, panicked>>

\* The session ends: Close(), a teardown, a timeout, a handler's error or the
\* end of the server.  A session that was kicked is not in the map.
OnSessionClose(s) ==
    /\ Alive /\ writeLockFree /\ se[s].pc \in {"idle", "error"}
    /\ sessions' = sessions \ {s}
    /\ se' = [se EXCEPT ![s].pc = IF s \in sessions THEN "onClose" ELSE "gone"]
    /\ UNCHANGED <<kick, ctxDone, path, panicked>>

\* Mutant: in whatever state the session is.
closesCmd_always(o) == o.onReadCmd # "none"

\* First part of OnClose: the command of a session that reads is closed.
closesCmd(o) == o.ss = "read" /\ o.onReadCmd # "none"

closeCmd(o) == IF closesCmd(o) THEN [o EXCEPT !.onReadCmd = "closed"] ELSE o

\* Close() of a command that is closed already closes a closed channel.
closeCmdPanics(o) == closesCmd(o) /\ o.onReadCmd = "closed"

\* Mutant: a session that has not begun to read is not removed.
onClosePath_reading(s, p) ==
    IF ~listens(s) THEN p ELSE
    CASE se[s].ss = "read" -> handleReaderRemove(p, s)
      [] se[s].ss \in {"prePublish", "publish"} -> handlePublisherRemove(p, s)
      [] OTHER -> p

\* Second part of OnClose: what it tells the path.
onClosePath(s, p) ==
    IF ~listens(s) THEN p ELSE
    CASE se[s].ss \in {"preRead", "read"} -> handleReaderRemove(p, s)
      [] se[s].ss \in {"prePublish", "publish"} -> handlePublisherRemove(p, s)
      [] OTHER -> p

\* Whom the path closes when its publisher is removed or paused.
droppedBy(s) == IF listens(s) /\ pa.source = s THEN dropped(pa) ELSE {}

\* The sessions whose OnClose is at pc, in their own goroutine or in a kick.
inOnClose(pc) ==
    {s \in Sessions : se[s].pc = pc \/ \E k \in Kickers : kick[k] = [pc |-> pc, target |-> s]}

OnCloseCmd(s) ==
    /\ Alive /\ ~closeCmdPanics(se[s])
    /\ \/ /\ se[s].pc = "onClose"
          /\ se' = [se EXCEPT ![s] = [closeCmd(@) EXCEPT !.pc = "remove"]]
          /\ UNCHANGED kick
       \/ \E k \in Kickers :
          /\ kick[k] = [pc |-> "onClose", target |-> s]
          /\ se' = [se EXCEPT ![s] = closeCmd(@)]
          /\ kick' = [kick EXCEPT ![k].pc = "remove"]
    /\ UNCHANGED <<sessions, ctxDone, path, panicked>>

\* The object after its removal from the path.
leftPath(s) ==
    IF se[s].ss = "initial" THEN se
    ELSE [closing(droppedBy(s), se) EXCEPT ![s].path = NilPath]

OnCloseRemove(s) ==
    /\ Alive /\ (se[s].ss = "initial" \/ se[s].path # NilPath)
    /\ \/ /\ se[s].pc = "remove"
          /\ se' = [leftPath(s) EXCEPT ![s].pc = "gone"]
          /\ UNCHANGED kick
       \/ \E k \in Kickers :
          /\ kick[k] = [pc |-> "remove", target |-> s]
          /\ se' = leftPath(s)
          /\ kick' = [kick EXCEPT ![k] = NoKick]
    /\ pa' = onClosePath(s, pa)
    /\ UNCHANGED <<sessions, ctxDone, gen, runOnRead, mix, panicked>>

OnClosePanics(s) ==
    /\ Alive
    /\ \/ s \in inOnClose("onClose") /\ closeCmdPanics(se[s])
       \/ s \in inOnClose("remove") /\ se[s].ss # "initial" /\ se[s].path = NilPath
    /\ Panic

(***************************************************************************)
(* Requests of the client.  The session is looked up first: after a kick   *)
(* there is none, and the handler is called on a nil pointer.              *)
(***************************************************************************)
\* se = nil: any request, or a frame of a session that publishes.  The library
\* calls nothing once OnSessionClose has begun.
NoSession(s) ==
    /\ s \notin sessions
    /\ Takes(s, {"initial", "preRead", "read", "prePublish", "publish"})
    /\ Panic

\* validateCredentials succeeds, or is not called: the path has no user.
loggedIn(o) == {o, [o EXCEPT !.authFailures = 0]}

\* validateCredentials fails: up to three times the client may try again,
\* then comes the pause, and the error that ends the connection.
LoginFails(s) ==
    /\ Takes(s, {"initial", "preRead"}) /\ s \in sessions
    /\ se[s].authFailures < MaxLogins /\ "login" \in mix
    /\ se' = [se EXCEPT ![s].authFailures = @ + 1,
                        ![s].pc = IF se[s].authFailures + 1 > 3 THEN "authPause" ELSE "idle"]
    /\ UNCHANGED <<sessions, kick, ctxDone, path, panicked>>

AuthPauseEnds(s) ==
    /\ Alive /\ se[s].pc = "authPause"
    /\ se' = [se EXCEPT ![s].pc = "error"]
    /\ UNCHANGED <<sessions, kick, ctxDone, path, panicked>>

\* SETUP or ANNOUNCE of a path that can't be used.
Refused(s) ==
    /\ Takes(s, {"initial", "preRead"}) /\ s \in sessions
    /\ \E o \in loggedIn(se[s]) : se' = [se EXCEPT ![s] = [o EXCEPT !.pc = "error"]]
    /\ UNCHANGED <<sessions, kick, ctxDone, path, panicked>>

\* OnSetup up to the answer of the path, which is at once or on hold.
OnSetup(s) ==
    /\ Takes(s, {"initial", "preRead"}) /\ s \in sessions /\ pa.open
    /\ \E o \in loggedIn(se[s]) :
        \/ /\ pa.ready
           /\ pa' = handleReaderSetupPlayPost(pa, s)
           /\ se' = [se EXCEPT ![s] = [o EXCEPT !.pc = "setUp", !.res = gen]]
        \/ /\ ~pa.ready /\ pa.onDemand
           /\ se' = [se EXCEPT ![s] = [o EXCEPT !.pc = "held"]]
           /\ UNCHANGED pa
    /\ UNCHANGED <<sessions, kick, ctxDone, gen, runOnRead, mix, panicked>>

\* s.path = res.Path
givenPath(o) == [o EXCEPT !.path = o.res, !.res = NilPath]

\* OnSetup after the answer: the track exists.
SetUp(s) ==
    /\ Alive /\ se[s].pc = "setUp"
    /\ se' = [se EXCEPT ![s] = [givenPath(@) EXCEPT
                    !.pc = "idle", !.state = "preRead", !.ss = "preRead"]]
    /\ UNCHANGED <<sessions, kick, ctxDone, path, panicked>>

\* It does not exist: an error, with the session left in the state it was in
\* and the path left with the reader.
SetUpBadTrack(s) ==
    /\ Alive /\ se[s].pc = "setUp"
    /\ se' = [se EXCEPT ![s] = [givenPath(@) EXCEPT
                    !.pc = "error", !.badTrack = se[s].badTrack \/ se[s].ss = "initial"]]
    /\ UNCHANGED <<sessions, kick, ctxDone, path, panicked>>

OnPlay(s) ==
    /\ Takes(s, {"preRead"}) /\ s \in sessions
    /\ IF se[s].path # NilPath
         THEN /\ pa' = IF listens(s) THEN handleReaderPlay(pa, s) ELSE pa
              /\ se' = [se EXCEPT ![s].pc = "played"]
              /\ UNCHANGED <<sessions, kick, ctxDone, gen, runOnRead, mix, panicked>>
         ELSE Panic

\* OnPlay after the call of the path: runOnRead is started, if there is one.
Played(s) ==
    /\ Alive /\ se[s].pc = "played"
    /\ IF se[s].path # NilPath
         THEN /\ se' = [se EXCEPT ![s].pc = "idle",
                           ![s].onReadCmd = IF runOnRead[se[s].path] THEN "running" ELSE @,
                           ![s].state = "read", ![s].ss = "read"]
              /\ UNCHANGED <<sessions, kick, ctxDone, path, panicked>>
         ELSE Panic

\* Mutant: the command goes on while the session is paused.
pauseCmd_keep(o) == o

pauseCmd(o) == IF o.onReadCmd = "running" THEN [o EXCEPT !.onReadCmd = "closed"] ELSE o

\* OnPause of a session that reads: the command is closed first.
OnPause(s) ==
    /\ Takes(s, {"read"}) /\ s \in sessions
    /\ IF se[s].onReadCmd = "closed" THEN Panic
         ELSE /\ se' = [se EXCEPT ![s] = [pauseCmd(@) EXCEPT !.pc = "pause"]]
              /\ UNCHANGED <<sessions, kick, ctxDone, path, panicked>>

Paused(s) ==
    /\ Alive /\ se[s].pc = "pause"
    /\ IF se[s].path # NilPath
         THEN /\ pa' = IF listens(s) THEN handleReaderPause(pa, s) ELSE pa
              /\ se' = [se EXCEPT ![s].pc = "idle", ![s].state = "preRead", ![s].ss = "preRead"]
              /\ UNCHANGED <<sessions, kick, ctxDone, gen, runOnRead, mix, panicked>>
         ELSE Panic

OnAnnounce(s) ==
    /\ Takes(s, {"initial"}) /\ s \in sessions /\ pa.open
    /\ pa' = handlePublisherAnnounce(pa, s)
    /\ \E o \in loggedIn(closing(overridden(pa), se)[s]) :
        se' = [closing(overridden(pa), se) EXCEPT ![s] = [o EXCEPT !.pc = "announced", !.res = gen]]
    /\ UNCHANGED <<sessions, kick, ctxDone, gen, runOnRead, mix, panicked>>

\* OnAnnounce after the answer of the path.
Announced(s) ==
    /\ Alive /\ se[s].pc = "announced"
    /\ se' = [se EXCEPT ![s] = [givenPath(@) EXCEPT
                    !.pc = "idle", !.state = "prePublish", !.ss = "prePublish"]]
    /\ UNCHANGED <<sessions, kick, ctxDone, path, panicked>>

\* OnRecord; a publisher that was replaced, or whose path has ended, is refused.
OnRecord(s) ==
    /\ Takes(s, {"prePublish"}) /\ s \in sessions
    /\ \/ se[s].path = NilPath /\ Panic
       \/ /\ listens(s) /\ pa.source = s
          /\ pa' = sourceSetReady(pa, Waiting)
          /\ se' = [answered(se, TRUE) EXCEPT ![s].state = "publish", ![s].ss = "publish"]
          /\ UNCHANGED <<sessions, kick, ctxDone, gen, runOnRead, mix, panicked>>
       \/ /\ se[s].path # NilPath /\ ~(listens(s) /\ pa.source = s)
          /\ se' = [se EXCEPT ![s].pc = "error"]
          /\ UNCHANGED <<sessions, kick, ctxDone, path, panicked>>

\* OnPause of a session that publishes.
OnPausePublish(s) ==
    /\ Takes(s, {"publish"}) /\ s \in sessions
    /\ IF se[s].path # NilPath
         THEN /\ pa' = IF listens(s) THEN handlePublisherPause(pa, s) ELSE pa
              /\ se' = [closing(droppedBy(s), se) EXCEPT
                            ![s].state = "prePublish", ![s].ss = "prePublish"]
              /\ UNCHANGED <<sessions, kick, ctxDone, gen, runOnRead, mix, panicked>>
         ELSE Panic

(***************************************************************************)
(* The API                                                                 *)
(***************************************************************************)
\* What OnAPIRTSPSessionsList answers.
apiRTSPSessionsList ==
    [s \in sessions |-> CASE se[s].state \in {"preRead", "read"} -> "read"
                          [] se[s].state \in {"prePublish", "publish"} -> "publish"
                          [] OTHER -> "idle"]

\* OnAPIRTSPSessionsKick finds the session and closes it; the read lock does
\* not keep another kick from doing the same.
KickFind(k, s) ==
    /\ Alive /\ ~ctxDone /\ kick[k].pc = "idle" /\ s \in sessions /\ "kick" \in mix
    /\ kick' = [kick EXCEPT ![k] = [pc |-> "delete", target |-> s]]
    /\ se' = [se EXCEPT ![s].closed = TRUE, ![s].kicked = TRUE]
    /\ UNCHANGED <<sessions, ctxDone, path, panicked>>

\* It is deleted from the map, under the read lock: with another kick that
\* ranges over the map or deletes, the runtime may notice and abort.
KickDelete(k) ==
    /\ Alive /\ kick[k].pc = "delete"
    /\ \/ /\ sessions' = sessions \ {kick[k].target}
          /\ kick' = [kick EXCEPT ![k].pc = "onClose"]
          /\ UNCHANGED <<se, ctxDone, path, panicked>>
       \/ (\E j \in Kickers \ {k} : kick[j].pc = "delete") /\ Panic

\* The server is closed: the library ends every session.
CloseServer ==
    /\ Alive /\ ~ctxDone
    /\ ctxDone' = TRUE
    /\ se' = closing(sessions, se)
    /\ UNCHANGED <<sessions, kick, path, panicked>>

(***************************************************************************)
(* The path                                                                *)
(***************************************************************************)
\* The ready timer of an on demand path expires, started by a request on hold
\* or by a DESCRIBE: a publisher that has not begun to record is closed.
RequestsTimeOut ==
    /\ Alive /\ pa.open /\ pa.onDemand /\ ~pa.ready
    /\ Waiting # {} \/ pa.source # Nil
    /\ pa' = onDemandCloseSource(pa)
    /\ se' = closing(overridden(pa), answered(se, FALSE))
    /\ UNCHANGED <<sessions, kick, ctxDone, gen, runOnRead, mix, panicked>>

\* Its close timer expires: nobody has asked for the stream for a while.
OnDemandClose ==
    /\ Alive /\ pa.closeTimer
    /\ pa' = onDemandCloseSource(pa)
    /\ se' = closing(overridden(pa), se)
    /\ UNCHANGED <<sessions, kick, ctxDone, gen, runOnRead, mix, panicked>>

OtherReady ==
    /\ Alive /\ pa.open /\ pa.source = Nil
    /\ pa' = [sourceSetReady(pa, Waiting) EXCEPT !.source = Other]
    /\ se' = answered(se, TRUE)
    /\ UNCHANGED <<sessions, kick, ctxDone, gen, runOnRead, mix, panicked>>

OtherGone ==
    /\ Alive /\ pa.source = Other
    /\ pa' = doPublisherRemove(pa)
    /\ se' = closing(dropped(pa), se)
    /\ UNCHANGED <<sessions, kick, ctxDone, gen, runOnRead, mix, panicked>>

PathEnds ==
    /\ Alive /\ pa.open
    /\ pa' = [doPublisherRemove(pa) EXCEPT !.open = FALSE]
    /\ se' = closing(registered(pa) \cup ({pa.source} \cap Sessions), answered(se, FALSE))
    /\ UNCHANGED <<sessions, kick, ctxDone, gen, runOnRead, mix, panicked>>

\* The path manager creates the path anew, with the new configuration.
PathCreated ==
    /\ Alive /\ ~pa.open /\ gen < MaxPaths /\ "replace" \in mix
    /\ gen' = gen + 1
    /\ pa' \in {NewPath(d) : d \in BOOLEAN}
    /\ UNCHANGED <<sessions, se, kick, ctxDone, runOnRead, mix, panicked>>

-----------------------------------------------------------------------------
\* Every session has come and gone, or the process has ended.
Finished ==
    /\ panicked \/ \A s \in Sessions : se[s].pc \in {"none", "gone"}
    /\ UNCHANGED vars

Requests(s) ==
    \/ NoSession(s) \/ LoginFails(s) \/ AuthPauseEnds(s) \/ Refused(s)
    \/ OnSetup(s) \/ SetUp(s) \/ SetUpBadTrack(s) \/ OnPlay(s) \/ Played(s)
    \/ OnPause(s) \/ Paused(s)
    \/ OnAnnounce(s) \/ Announced(s) \/ OnRecord(s) \/ OnPausePublish(s)

Next ==
    \/ CloseServer
    \/ \E s \in Sessions : OnSessionOpen(s) \/ OnSessionClose(s) \/ Requests(s)
    \/ \E s \in Sessions : OnCloseCmd(s) \/ OnCloseRemove(s) \/ OnClosePanics(s)
    \/ \E k \in Kickers : KickDelete(k) \/ \E s \in Sessions : KickFind(k, s)
    \/ RequestsTimeOut \/ OnDemandClose \/ OtherReady \/ OtherGone
    \/ PathEnds \/ PathCreated
    \/ Finished

Spec == Init /\ [][Next]_vars

-----------------------------------------------------------------------------
\* Types of the state.
TypeOK ==
    /\ sessions \subseteq Sessions
    /\ se \in [Sessions -> SessionType]
    /\ kick \in [Kickers -> KickType]
    /\ ctxDone \in BOOLEAN /\ panicked \in BOOLEAN
    /\ pa \in PathType
    /\ gen \in Paths /\ runOnRead \in [Paths -> BOOLEAN] /\ mix \in Mixes

\* A session that reads from a path without runOnRead has still the closed
\* command of an earlier PLAY, on the path that this one has replaced
\* (rtsp_session.go:260: s.onReadCmd is only set when there is a command).
KeepsOldCmd(s) ==
    /\ se[s].ss = "read" /\ se[s].onReadCmd = "closed"
    /\ se[s].path # NilPath /\ ~runOnRead[se[s].path]

\* No order of requests, answers, timeouts, drops by the path and closings,
\* and no request that comes after Close(), makes a handler use a nil session
\* or a nil path or close a command twice.  Excepted are what a kick causes
\* (rtsp_server.go:411), and a session that keeps an old command.
HandlersDontPanic == panicked => Kicked \/ \E s \in Sessions : KeepsOldCmd(s)

\* A session that the library has closed leaves nothing behind: the path does
\* not know it as a reader or as its source, and runOnRead has been closed,
\* in whatever state and at whatever point of a request it ended.  Excepted are
\* sessions that were kicked, and those whose first SETUP named a track that
\* does not exist.
ClosedSessionsLeave ==
    \A s \in Sessions :
        se[s].pc = "gone" /\ ~se[s].kicked /\ ~se[s].badTrack =>
            /\ pa.readers[s] = "none" /\ pa.source # s
            /\ se[s].onReadCmd # "running"
            /\ s \notin sessions

\* Between two requests the three records of what a session does agree: the
\* state the API shows, the state of the library and the place the session has
\* at the path, which is the one that has the name now, unless the session has
\* been told to end.  runOnRead runs exactly while it reads, and a session with more than three failed logins in
\* a row takes no further request.
SessionMatchesPath ==
    \A s \in sessions :
        se[s].pc = "idle" /\ ~se[s].closed /\ ~panicked =>
            /\ se[s].state = se[s].ss
            /\ se[s].ss # "initial" => listens(s)
            /\ se[s].ss = "preRead" => pa.readers[s] = "prePlay"
            /\ se[s].ss = "read" => pa.readers[s] = "play"
            /\ pa.source = s <=> se[s].ss \in {"prePublish", "publish"}
            /\ pa.source = s => (pa.ready <=> apiRTSPSessionsList[s] = "publish" /\ se[s].ss = "publish")
            /\ se[s].onReadCmd = "running" <=> se[s].ss = "read" /\ runOnRead[se[s].path]
            /\ se[s].authFailures <= 3

=============================================================================
