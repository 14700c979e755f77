----------------------------- MODULE HLSProofs -----------------------------
(***************************************************************************)
(* Proofs of the safety of the HLS server, for any number of paths,        *)
(* remuxers and requests.                                                  *)
(***************************************************************************)
EXTENDS HLS, TLAPS

RemType == [name: Names \cup {None}, cancelled: BOOLEAN,
            loop: {"off", "loop", "waitErr", "closing"},
            ready: BOOLEAN, queue: SUBSET Requests,
            inner: {"setup", "asked", "held", "tracks", "ready", "play", "run", "err", "end"},
            recent: BOOLEAN]

HandlerType == [st: {"idle", "waiting", "reading", "stalled"}, rem: Remuxers \cup {None}]

\* runRemuxer has not told the loop that the muxer is there.
Early == {"setup", "asked", "held", "tracks", "ready"}

\* A remuxer that has not ended is the remuxer of its path, also while the
\* server is closing.
Mapped ==
    \A r \in Remuxers : ~Ended(r) => rem[r].name \in Names /\ remuxers[rem[r].name] = r

\* The inner goroutine is over when the loop is, the muxer was created before
\* the loop became ready, no path knows a reader that is setting up, and a
\* remuxer that is over holds no handler.
Phases ==
    \A r \in Remuxers :
        /\ rem[r].loop \in {"off", "closing"} => rem[r].inner = "end"
        /\ rem[r].loop = "off" => rem[r].queue = {}
        /\ rem[r].ready => rem[r].inner \notin Early /\ rem[r].queue = {}
        /\ rem[r].inner \in {"setup", "asked", "held"} => r \notin attached

\* A handler reads from a remuxer that is there, and waits for someone.
Places ==
    /\ fwd.req = None <=> fwd.rem = None
    /\ \A q \in Requests : http[q].rem # None =>
        http[q].st \in {"reading", "stalled"} /\ ~Ended(http[q].rem)
    /\ \A q \in Requests : http[q].st = "waiting" <=>
        \/ fwd.req = q
        \/ q \in forsaken
        \/ \E r \in Remuxers : q \in rem[r].queue

Inv ==
    /\ TypeOK /\ Mapped /\ Phases /\ Places
    /\ HeldOnce /\ FilesHaveMuxer /\ EndedRemuxersDetached

USE HLSAssumption

\* The initial state, in which there are no remuxers.
LEMMA InitInv == Init => Inv
<1> SUFFICES ASSUME Init PROVE Inv OBVIOUS
<1> USE DEF Init, Off, NoFile
<1>1. TypeOK BY DEF TypeOK
<1>2. Mapped /\ Phases /\ Places BY DEF Mapped, Phases, Places, Ended
<1>3. HeldOnce /\ FilesHaveMuxer /\ EndedRemuxersDetached
  BY DEF HeldOnce, FilesHaveMuxer, EndedRemuxersDetached, MuxerClosed
<1> QED BY <1>1, <1>2, <1>3 DEF Inv

\* Steps that leave the remuxers, the handlers and the readers of paths alone.
LEMMA ServerQuiet ==
    ASSUME Inv, UNCHANGED <<hlsAlwaysRemux, remuxers, fwd, rem, http, forsaken, attached>>,
           phase' \in {"run", "shutdown", "unset", "done"}, srvDone' \in BOOLEAN,
           src' \in [Names -> BOOLEAN], telling' \subseteq Names, notify' \in Names \cup {None}, crashed' \in BOOLEAN
    PROVE  Inv'
<1>1. TypeOK' BY DEF Inv, TypeOK
<1>2. Mapped' /\ Phases' /\ Places' BY DEF Inv, Mapped, Phases, Places, Ended
<1>3. HeldOnce' /\ FilesHaveMuxer' /\ EndedRemuxersDetached'
  BY DEF Inv, HeldOnce, FilesHaveMuxer, EndedRemuxersDetached, MuxerClosed
<1> QED BY <1>1, <1>2, <1>3 DEF Inv

\* Steps of one remuxer that keep its name and the requests it holds.
LEMMA RemuxerQuiet ==
    ASSUME Inv, NEW r \in Remuxers, NEW x \in RemType,
           rem' = [rem EXCEPT ![r] = x],
           x.queue = rem[r].queue, x.ready = rem[r].ready,
           ~Ended(r), x.loop # "off", x.name = rem[r].name,
           x.loop = "closing" => x.inner = "end",
           x.inner \in Early => rem[r].inner \in Early,
           attached' \subseteq attached \cup {r},
           x.inner \in {"setup", "asked", "held", "err", "end"} => r \notin attached',
           UNCHANGED <<hlsAlwaysRemux, phase, srvDone, remuxers, fwd, http, forsaken>>,
           src' \in [Names -> BOOLEAN], telling' \subseteq Names, notify' \in Names \cup {None},
           crashed' \in BOOLEAN
    PROVE  Inv'
<1>0. /\ rem \in [Remuxers -> RemType]
      /\ rem'[r] = x
      /\ \A s \in Remuxers \ {r} : rem'[s] = rem[s]
      /\ \A s \in Remuxers : rem'[s].queue = rem[s].queue /\ rem'[s].ready = rem[s].ready
  BY DEF Inv, TypeOK, RemType
<1>1. TypeOK' BY <1>0 DEF Inv, TypeOK, RemType
<1>2. Mapped' BY <1>0 DEF Inv, Mapped, Ended
<1>3. Phases' BY <1>0 DEF Inv, Phases
<1>4. Places' BY <1>0 DEF Inv, Places, Ended
<1>5. HeldOnce' BY <1>0 DEF Inv, HeldOnce
<1>6. FilesHaveMuxer' BY <1>0 DEF Inv, FilesHaveMuxer, TypeOK, Early
<1>7. EndedRemuxersDetached' BY <1>0 DEF Inv, EndedRemuxersDetached, MuxerClosed
<1> QED BY <1>1, <1>2, <1>3, <1>4, <1>5, <1>6, <1>7 DEF Inv

\* What handleRequest does to the handlers.
LEMMA HandleRequestFacts ==
    ASSUME Inv, NEW r \in Remuxers, NEW qs \in SUBSET Requests, NEW h \in handleRequest(r, qs)
    PROVE  /\ h \in [Requests -> HandlerType]
           /\ \A q \in Requests \ qs : h[q] = http[q]
           /\ \A q \in qs : /\ h[q].st # "waiting"
                            /\ h[q].rem # None => h[q].st = "reading" /\ h[q].rem = r
  BY DEF handleRequest, NoFile, Inv, TypeOK, HandlerType

\* The server finds or creates a remuxer: no handler loses the remuxer that
\* holds it.
LEMMA FindOrCreateFacts ==
    ASSUME Inv, NEW n \in Names, NEW r \in Remuxers, findOrCreateRemuxer(n, r), attached' = attached
    PROVE  /\ remuxers' \in [Names -> Remuxers \cup {None}] /\ rem' \in [Remuxers -> RemType]
           /\ Mapped' /\ Phases' /\ EndedRemuxersDetached'
           /\ \A s \in Remuxers : /\ rem'[s].queue = rem[s].queue
                                  /\ ~Ended(s) => rem'[s] = rem[s]
<1>1. CASE UNCHANGED <<remuxers, rem>>
  BY <1>1 DEF Inv, TypeOK, RemType, Mapped, Ended, Phases, EndedRemuxersDetached, MuxerClosed
<1>2. CASE /\ remuxers[n] = None /\ r \in Unused
           /\ remuxers' = [remuxers EXCEPT ![n] = r]
           /\ rem' = [rem EXCEPT ![r] = newHLSRemuxer(n)]
  <2>0. /\ rem'[r] = newHLSRemuxer(n) /\ newHLSRemuxer(n) \in RemType
        /\ \A s \in Remuxers \ {r} : rem'[s] = rem[s]
        /\ \A s \in Remuxers : rem'[s].queue = rem[s].queue
        /\ Ended(r)
    <3>1. Ended(r) /\ rem[r].queue = {} BY <1>2 DEF Unused, Ended, Inv, Phases
    <3> QED BY <1>2, <3>1 DEF Inv, TypeOK, newHLSRemuxer, RemType
  <2>1. remuxers' \in [Names -> Remuxers \cup {None}] /\ rem' \in [Remuxers -> RemType]
    BY <1>2, <2>0 DEF Inv, TypeOK, RemType
  <2>2. Mapped' BY <1>2, <2>0 DEF Inv, Mapped, Ended, newHLSRemuxer, TypeOK
  <2>3. Phases' BY <1>2, <2>0
    DEF Inv, Phases, newHLSRemuxer, Ended, EndedRemuxersDetached, MuxerClosed
  <2>4. EndedRemuxersDetached'
    BY <1>2, <2>0 DEF Inv, EndedRemuxersDetached, MuxerClosed, newHLSRemuxer
  <2> QED BY <2>0, <2>1, <2>2, <2>3, <2>4
<1>3. Unused # {} /\ r = (CHOOSE u \in Unused : TRUE) => r \in Unused
  OBVIOUS
<1> QED BY <1>1, <1>2, <1>3 DEF findOrCreateRemuxer

\* A request is handed to the server: it waits, and the server forwards it.
LEMMA ServeHTTPInv ==
    ASSUME Inv, NEW q \in Requests, NEW n \in Names, ServeHTTP(q, n), UNCHANGED hlsAlwaysRemux
    PROVE  Inv'
<1>1. PICK r \in Remuxers : findOrCreateRemuxer(n, r) /\ fwd' = [req |-> q, rem |-> r]
  BY DEF ServeHTTP
<1>2. /\ remuxers' \in [Names -> Remuxers \cup {None}] /\ rem' \in [Remuxers -> RemType]
      /\ Mapped' /\ Phases' /\ EndedRemuxersDetached'
      /\ \A s \in Remuxers : /\ rem'[s].queue = rem[s].queue
                             /\ ~Ended(s) => rem'[s] = rem[s]
  BY <1>1, FindOrCreateFacts DEF ServeHTTP, environment
<1>3. /\ fwd'.req = q /\ fwd'.rem = r /\ fwd.req = None
      /\ http \in [Requests -> HandlerType]
      /\ http[q].st = "idle" /\ http'[q].st = "waiting" /\ http'[q].rem = http[q].rem
      /\ \A p \in Requests \ {q} : http'[p] = http[p]
      /\ http' \in [Requests -> HandlerType]
      /\ UNCHANGED forsaken
  BY <1>1 DEF ServeHTTP, Listening, Forwarding, Inv, TypeOK, HandlerType
<1>4. q \notin forsaken /\ http[q].rem = None /\ \A s \in Remuxers : q \notin rem[s].queue
  BY <1>3 DEF Inv, Places
<1>5. TypeOK'
  BY <1>1, <1>2, <1>3 DEF Inv, TypeOK, RemType, HandlerType, ServeHTTP, environment
<1>6. Places'
  <2>1. \A p \in Requests \ {q} : fwd.req # p /\ fwd'.req # p
    BY <1>3
  <2>2. \A p \in Requests : http'[p].rem # None =>
            http'[p].st \in {"reading", "stalled"} /\ rem'[http'[p].rem].loop # "off"
    <3> SUFFICES ASSUME NEW p \in Requests, http'[p].rem # None
                 PROVE  http'[p].st \in {"reading", "stalled"} /\ rem'[http'[p].rem].loop # "off"
      OBVIOUS
    <3>1. p # q /\ http'[p] = http[p] /\ http[p].rem \in Remuxers
      BY <1>3, <1>4 DEF HandlerType
    <3>2. http[p].st \in {"reading", "stalled"} /\ ~Ended(http[p].rem)
      BY <3>1 DEF Inv, Places
    <3> QED BY <1>2, <3>1, <3>2 DEF Ended
  <2> QED BY <1>2, <1>3, <1>4, <2>1, <2>2 DEF Inv, Places, Ended
<1>7. HeldOnce' BY <1>2, <1>3, <1>4 DEF Inv, HeldOnce
<1>8. FilesHaveMuxer' BY <1>2, <1>3, <1>4 DEF Inv, FilesHaveMuxer, Places, HandlerType
<1> QED BY <1>2, <1>5, <1>6, <1>7, <1>8 DEF Inv

\* The path manager reports a source.
LEMMA PathSourceReadyInv ==
    ASSUME Inv, PathSourceReady, UNCHANGED hlsAlwaysRemux
    PROVE  Inv'
<1>1. CASE UNCHANGED <<remuxers, rem>>
  BY <1>1, ServerQuiet DEF PathSourceReady, pending, Inv, TypeOK
<1>2. CASE \E r \in Remuxers : findOrCreateRemuxer(notify, r)
  <2>1. PICK r \in Remuxers : findOrCreateRemuxer(notify, r) BY <1>2
  <2>2. notify \in Names BY DEF PathSourceReady, Inv, TypeOK
  <2>3. /\ remuxers' \in [Names -> Remuxers \cup {None}] /\ rem' \in [Remuxers -> RemType]
        /\ Mapped' /\ Phases' /\ EndedRemuxersDetached'
        /\ \A s \in Remuxers : /\ rem'[s].queue = rem[s].queue
                               /\ ~Ended(s) => rem'[s] = rem[s]
    BY <2>1, <2>2, FindOrCreateFacts DEF PathSourceReady
  <2>4. UNCHANGED <<fwd, http, forsaken>> BY DEF PathSourceReady, pending
  <2>5. TypeOK' BY <2>3, <2>4 DEF PathSourceReady, Inv, TypeOK, RemType
  <2>6. Places'
    <3>1. ASSUME NEW q \in Requests, http[q].rem # None
          PROVE  http[q].rem \in Remuxers /\ ~Ended(http[q].rem) /\ rem'[http[q].rem] = rem[http[q].rem]
      BY <2>3, <3>1 DEF Inv, Places, TypeOK
    <3>2. \A q \in Requests : (\E s \in Remuxers : q \in rem'[s].queue)
                                <=> (\E s \in Remuxers : q \in rem[s].queue)
      BY <2>3
    <3> QED BY <2>4, <3>1, <3>2 DEF Inv, Places, Ended
  <2>7. HeldOnce' BY <2>3, <2>4 DEF Inv, HeldOnce
  <2>8. FilesHaveMuxer' BY <2>3, <2>4 DEF Inv, FilesHaveMuxer, Places, TypeOK
  <2> QED BY <2>3, <2>5, <2>6, <2>7, <2>8 DEF Inv
<1> QED BY <1>1, <1>2 DEF PathSourceReady

\* The steps of a remuxer that hold on to its requests.  Each step gives the
\* record that the remuxer becomes.
LEMMA QuietSteps ==
    ASSUME Inv, NEW r \in Remuxers, UNCHANGED hlsAlwaysRemux,
           \/ LoopErr(r) \/ LoopCtxDone(r) \/ LoopJoined(r) \/ InnerStep(r)
    PROVE  Inv'
<1> USE DEF RemType, Early, server, pending, environment
<1>0. /\ rem[r] \in RemType /\ crashed \in BOOLEAN
      /\ src \in [Names -> BOOLEAN] /\ telling \subseteq Names /\ notify \in Names \cup {None}
  BY DEF Inv, TypeOK
<1>1. rem[r].loop \in {"off", "closing"} => rem[r].inner = "end" BY DEF Inv, Phases
<1>2. rem[r].inner \in {"setup", "asked", "held", "err", "end"} => r \notin attached
  BY DEF Inv, EndedRemuxersDetached, MuxerClosed, Phases
<1>3. ASSUME LoopErr(r) \/ LoopJoined(r) PROVE Inv'
  <2> DEFINE x == [rem[r] EXCEPT !.loop = "closing", !.inner = "end", !.cancelled = TRUE]
  <2>1. rem' = [rem EXCEPT ![r] = x] /\ x \in RemType
    BY <1>0, <1>3 DEF LoopErr, LoopJoined, Inv, TypeOK
  <2> QED BY <1>0, <1>2, <1>3, <2>1, RemuxerQuiet DEF LoopErr, LoopJoined, Ended
<1>4. ASSUME LoopCtxDone(r) PROVE Inv'
  <2> DEFINE x == [rem[r] EXCEPT !.loop = "waitErr"]
  <2>1. rem' = [rem EXCEPT ![r] = x] /\ x \in RemType
    BY <1>0, <1>4 DEF LoopCtxDone, Inv, TypeOK
  <2>2. /\ x.queue = rem[r].queue /\ x.ready = rem[r].ready /\ x.name = rem[r].name
        /\ x.inner = rem[r].inner /\ x.loop = "waitErr" /\ ~Ended(r)
    BY <1>0, <1>4 DEF LoopCtxDone, Ended
  <2>3. UNCHANGED <<phase, srvDone, remuxers, fwd, http, forsaken, src, attached, telling, notify, crashed>>
    BY <1>4 DEF LoopCtxDone
  <2> HIDE DEF x
  <2> QED BY <1>0, <1>2, <2>1, <2>2, <2>3, RemuxerQuiet
<1>5. ASSUME SetupForwarded(r) \/ SetupHeld(r) PROVE Inv'
  <2>0. PICK st \in {"asked", "held"} : rem' = [rem EXCEPT ![r].inner = st]
    BY <1>5 DEF SetupForwarded, SetupHeld
  <2> DEFINE x == [rem[r] EXCEPT !.inner = st]
  <2>1. rem' = [rem EXCEPT ![r] = x] /\ x \in RemType
    BY <1>0, <2>0 DEF Inv, TypeOK
  <2>2. ~Ended(r) /\ rem[r].loop # "closing" /\ rem[r].inner \in {"setup", "asked"}
    BY <1>1, <1>5 DEF Ended, SetupForwarded, SetupHeld
  <2>3. /\ x.queue = rem[r].queue /\ x.ready = rem[r].ready /\ x.name = rem[r].name
        /\ x.inner = st /\ x.loop = rem[r].loop
    BY <1>0
  <2>4. UNCHANGED <<phase, srvDone, remuxers, fwd, http, forsaken, src, attached, telling, notify, crashed>>
    BY <1>5 DEF SetupForwarded, SetupHeld
  <2> HIDE DEF x
  <2> QED BY <1>0, <1>2, <2>1, <2>2, <2>3, <2>4, RemuxerQuiet DEF Ended
<1>6. ASSUME Return(r), rem[r].inner \in {"tracks", "run"} PROVE Inv'
  <2> DEFINE x == [rem[r] EXCEPT !.inner = "err"]
  <2>1. rem' = [rem EXCEPT ![r] = x] /\ x \in RemType
    BY <1>0, <1>6 DEF Return, Inv, TypeOK
  <2>2. ~Ended(r) /\ rem[r].loop # "closing" BY <1>1, <1>6 DEF Ended
  <2> QED BY <1>0, <1>6, <2>1, <2>2, RemuxerQuiet DEF Return, Ended
<1>7. ASSUME SetupAccepted(r) PROVE Inv'
  <2> DEFINE x == [rem[r] EXCEPT !.inner = "tracks"]
  <2>1. rem' = [rem EXCEPT ![r] = x] /\ x \in RemType
    BY <1>0, <1>7 DEF SetupAccepted, Inv, TypeOK
  <2>2. ~Ended(r) /\ rem[r].loop # "closing" BY <1>1, <1>7 DEF Ended, SetupAccepted
  <2> QED BY <1>0, <1>7, <2>1, <2>2, RemuxerQuiet DEF SetupAccepted, Ended
<1>8. ASSUME SetupRefused(r) PROVE Inv'
  <2> DEFINE x == [rem[r] EXCEPT !.inner = "err"]
  <2>1. rem' = [rem EXCEPT ![r] = x] /\ x \in RemType
    BY <1>0, <1>8 DEF SetupRefused, Inv, TypeOK
  <2>2. ~Ended(r) /\ rem[r].loop # "closing" BY <1>1, <1>8 DEF Ended, SetupRefused
  <2> QED BY <1>0, <1>2, <1>8, <2>1, <2>2, RemuxerQuiet DEF SetupRefused, Ended
<1>9. ASSUME MuxerCreated(r) PROVE Inv'
  <2> DEFINE x == [rem[r] EXCEPT !.inner = "ready"]
  <2>1. rem' = [rem EXCEPT ![r] = x] /\ x \in RemType
    BY <1>0, <1>9 DEF MuxerCreated, Inv, TypeOK
  <2>2. ~Ended(r) /\ rem[r].loop # "closing" BY <1>1, <1>9 DEF Ended, MuxerCreated
  <2> QED BY <1>0, <1>9, <2>1, <2>2, RemuxerQuiet DEF MuxerCreated, Ended
<1>10. ASSUME ReaderPlay(r) PROVE Inv'
  <2> DEFINE x == [rem[r] EXCEPT !.inner = "run"]
  <2>1. rem' = [rem EXCEPT ![r] = x] /\ x \in RemType
    BY <1>0, <1>10 DEF ReaderPlay, Inv, TypeOK
  <2>2. ~Ended(r) /\ rem[r].loop # "closing" BY <1>1, <1>10 DEF Ended, ReaderPlay
  <2> QED BY <1>0, <1>10, <2>1, <2>2, RemuxerQuiet DEF ReaderPlay, Ended
<1>11. ASSUME TimePasses(r) PROVE Inv'
  <2> DEFINE x == [rem[r] EXCEPT !.recent = FALSE]
  <2>1. rem' = [rem EXCEPT ![r] = x] /\ x \in RemType
    BY <1>0, <1>11 DEF TimePasses, Inv, TypeOK
  <2>2. ~Ended(r) /\ rem[r].loop # "closing" BY <1>1, <1>11 DEF Ended, TimePasses
  <2>3. /\ x.queue = rem[r].queue /\ x.ready = rem[r].ready /\ x.name = rem[r].name
        /\ x.inner = "run" /\ x.loop = rem[r].loop
    BY <1>0, <1>11 DEF TimePasses
  <2>4. UNCHANGED <<phase, srvDone, remuxers, fwd, http, forsaken, src, attached, telling, notify, crashed>>
    BY <1>11 DEF TimePasses
  <2> HIDE DEF x
  <2> QED BY <1>0, <2>1, <2>2, <2>3, <2>4, RemuxerQuiet DEF Ended
<1> QED
  BY <1>3, <1>4, <1>5, <1>6, <1>7, <1>8, <1>9, <1>10, <1>11
  DEF InnerStep, TracksUnsupported, WriterFails, Inactive, InnerCancelled

\* The end of a remuxer is reported to the server, which removes it, or is
\* itself closing: the handlers in its list are forsaken.
LEMMA RemuxerCloseInv ==
    ASSUME Inv, NEW r \in Remuxers, RemuxerClose(r) \/ RemuxerCloseTerminated(r),
           UNCHANGED hlsAlwaysRemux
    PROVE  Inv'
<1>0. /\ rem[r].name \in Names /\ remuxers[rem[r].name] = r /\ rem[r].inner = "end"
      /\ remuxers \in [Names -> Remuxers \cup {None}]
      /\ remuxers' \in {remuxers, [remuxers EXCEPT ![rem[r].name] = None]}
      /\ UNCHANGED <<phase, srvDone, fwd, src, attached, telling, notify, crashed>> /\ gone(r)
  BY DEF RemuxerClose, RemuxerCloseTerminated, Inv, TypeOK, Mapped, Ended, Phases,
         server, environment
<1>1. /\ rem \in [Remuxers -> RemType] /\ rem' \in [Remuxers -> RemType]
      /\ rem'[r].loop = "off" /\ rem'[r].inner = "end" /\ rem'[r].queue = {} /\ ~rem'[r].ready
      /\ \A s \in Remuxers \ {r} : rem'[s] = rem[s]
      /\ forsaken' = forsaken \cup rem[r].queue
  BY <1>0 DEF Inv, TypeOK, RemType, gone, Off
<1>2. /\ http \in [Requests -> HandlerType] /\ http' \in [Requests -> HandlerType]
      /\ \A q \in Requests : /\ http'[q].st = http[q].st
                             /\ http'[q].rem # None => http'[q].rem = http[q].rem
                             /\ http'[q].rem # r
  <2>1. http \in [Requests -> HandlerType] BY DEF Inv, TypeOK, HandlerType
  <2>2. ASSUME NEW q \in Requests
        PROVE  /\ http'[q] \in HandlerType /\ http'[q].st = http[q].st
               /\ http'[q].rem # None => http'[q].rem = http[q].rem
               /\ http'[q].rem # r
    BY <2>1, <1>0 DEF gone, HandlerType
  <2> QED BY <2>1, <2>2, <1>0 DEF gone
<1>3. TypeOK' BY <1>0, <1>1, <1>2 DEF Inv, TypeOK, RemType, HandlerType
<1>4. Mapped'
  <2> SUFFICES ASSUME NEW s \in Remuxers, ~Ended(s)'
               PROVE  rem'[s].name \in Names /\ remuxers'[rem'[s].name] = s
    BY DEF Mapped
  <2>1. s # r /\ rem'[s] = rem[s] /\ ~Ended(s) BY <1>1 DEF Ended
  <2>2. rem[s].name \in Names /\ remuxers[rem[s].name] = s BY <2>1 DEF Inv, Mapped
  <2>3. rem[s].name # rem[r].name BY <1>0, <2>1, <2>2
  <2> QED BY <1>0, <2>1, <2>2, <2>3
<1>5. Phases' BY <1>0, <1>1 DEF Inv, Phases
<1>6. Places'
  <2>1. \A q \in Requests : http'[q].rem # None =>
            http'[q].st \in {"reading", "stalled"} /\ rem'[http'[q].rem].loop # "off"
    <3> SUFFICES ASSUME NEW q \in Requests, http'[q].rem # None
                 PROVE  http'[q].st \in {"reading", "stalled"} /\ rem'[http'[q].rem].loop # "off"
      OBVIOUS
    <3>1. http'[q].rem = http[q].rem /\ http[q].rem \in Remuxers \ {r} /\ http'[q].st = http[q].st
      BY <1>2 DEF HandlerType
    <3>2. http[q].st \in {"reading", "stalled"} /\ ~Ended(http[q].rem)
      BY <3>1 DEF Inv, Places
    <3> QED BY <1>1, <3>1, <3>2 DEF Ended
  <2>2. \A q \in Requests :
            (q \in forsaken \/ \E s \in Remuxers : q \in rem[s].queue)
              <=> (q \in forsaken' \/ \E s \in Remuxers : q \in rem'[s].queue)
    BY <1>1
  <2> QED BY <1>0, <1>2, <2>1, <2>2 DEF Inv, Places, Ended
<1>7. HeldOnce' BY <1>0, <1>1 DEF Inv, HeldOnce
<1>8. FilesHaveMuxer' BY <1>1, <1>2 DEF Inv, FilesHaveMuxer, HandlerType
<1>9. EndedRemuxersDetached' BY <1>0, <1>1 DEF Inv, EndedRemuxersDetached, MuxerClosed
<1> QED BY <1>3, <1>4, <1>5, <1>6, <1>7, <1>8, <1>9 DEF Inv

\* A remuxer that is ready answers the request it is handed; another puts it
\* into its list.
LEMMA LoopRequestInv ==
    ASSUME Inv, NEW r \in Remuxers, LoopRequest(r), UNCHANGED hlsAlwaysRemux
    PROVE  Inv'
<1>1. /\ fwd.req \in Requests /\ None \notin Requests
      /\ fwd'.req = None /\ fwd'.rem = None
      /\ fwd' \in [req: Requests \cup {None}, rem: Remuxers \cup {None}]
      /\ rem \in [Remuxers -> RemType] /\ http \in [Requests -> HandlerType]
      /\ \A s \in Remuxers : fwd.req \notin rem[s].queue
      /\ fwd.req \notin forsaken /\ UNCHANGED forsaken /\ http[fwd.req].st = "waiting"
      /\ rem[r].loop = "loop"
  BY DEF LoopRequest, NoForward, Inv, Places, HeldOnce, TypeOK, RemType, HandlerType
<1>2. CASE /\ rem[r].ready
           /\ rem' = [rem EXCEPT ![r].recent = TRUE]
           /\ http' \in handleRequest(r, {fwd.req})
  <2>1. /\ http' \in [Requests -> HandlerType]
        /\ \A q \in Requests \ {fwd.req} : http'[q] = http[q]
        /\ http'[fwd.req].st # "waiting"
        /\ http'[fwd.req].rem # None => http'[fwd.req].st = "reading" /\ http'[fwd.req].rem = r
    BY <1>1, <1>2, HandleRequestFacts
  <2>2. /\ rem' \in [Remuxers -> RemType]
        /\ \A s \in Remuxers : /\ rem'[s].queue = rem[s].queue /\ rem'[s].ready = rem[s].ready
                               /\ rem'[s].name = rem[s].name /\ rem'[s].loop = rem[s].loop
                               /\ rem'[s].inner = rem[s].inner
    <3> DEFINE x == [rem[r] EXCEPT !.recent = TRUE]
    <3>1. rem' = [rem EXCEPT ![r] = x] BY <1>1, <1>2
    <3>2. rem[r] \in RemType BY <1>1
    <3>3. /\ x \in RemType /\ x.queue = rem[r].queue /\ x.ready = rem[r].ready
          /\ x.name = rem[r].name /\ x.loop = rem[r].loop /\ x.inner = rem[r].inner
      BY <3>2 DEF RemType
    <3> HIDE DEF x
    <3> QED BY <1>1, <3>1, <3>3
  <2>3. TypeOK' BY <1>1, <2>1, <2>2
    DEF LoopRequest, server, environment, Inv, TypeOK, RemType, HandlerType
  <2>4. Mapped' BY <2>2 DEF LoopRequest, server, Inv, Mapped, Ended
  <2>5. Phases' BY <2>2 DEF LoopRequest, environment, Inv, Phases
  <2>6. Places'
    <3>1. \A q \in Requests : http'[q].rem # None =>
              http'[q].st \in {"reading", "stalled"} /\ rem'[http'[q].rem].loop # "off"
      BY <1>1, <2>1, <2>2 DEF Inv, Places, Ended, HandlerType
    <3> QED BY <1>1, <2>1, <2>2, <3>1 DEF Inv, Places, Ended
  <2>7. HeldOnce' BY <1>1, <2>2 DEF Inv, HeldOnce, TypeOK, RemType
  <2>8. FilesHaveMuxer'
    <3>1. rem[r].inner \notin Early BY <1>2 DEF Inv, Phases
    <3> QED BY <1>1, <2>1, <2>2, <3>1 DEF Inv, FilesHaveMuxer, HandlerType, Early
  <2>9. EndedRemuxersDetached'
    BY <2>2 DEF LoopRequest, environment, Inv, EndedRemuxersDetached, MuxerClosed
  <2> QED BY <2>3, <2>4, <2>5, <2>6, <2>7, <2>8, <2>9 DEF Inv
<1>3. CASE /\ ~rem[r].ready
           /\ rem' = [rem EXCEPT ![r].queue = @ \cup {fwd.req}]
           /\ UNCHANGED http
  <2>1. /\ rem' \in [Remuxers -> RemType]
        /\ \A s \in Remuxers \ {r} : rem'[s] = rem[s]
        /\ rem'[r].queue = rem[r].queue \cup {fwd.req}
        /\ \A s \in Remuxers : /\ rem'[s].ready = rem[s].ready
                               /\ rem'[s].name = rem[s].name /\ rem'[s].loop = rem[s].loop
                               /\ rem'[s].inner = rem[s].inner
    BY <1>1, <1>3 DEF RemType
  <2>3. TypeOK' BY <1>1, <1>3, <2>1
    DEF LoopRequest, server, environment, Inv, TypeOK, RemType, HandlerType
  <2>4. Mapped' BY <2>1 DEF LoopRequest, server, Inv, Mapped, Ended
  <2>5. Phases' BY <1>3, <2>1 DEF LoopRequest, environment, Inv, Phases
  <2>6. Places'
    <3>1. ASSUME NEW q \in Requests
          PROVE (fwd'.req = q \/ \E s \in Remuxers : q \in rem'[s].queue)
                  <=> (fwd.req = q \/ \E s \in Remuxers : q \in rem[s].queue)
      BY <1>1, <2>1
    <3> QED BY <1>1, <1>3, <2>1, <3>1 DEF Inv, Places, Ended, HandlerType
  <2>7. HeldOnce'
    <3>1. fwd'.req \notin forsaken' /\ \A s \in Remuxers : fwd'.req \notin rem'[s].queue
      BY <1>1, <2>1 DEF RemType, Inv, TypeOK
    <3>2. \A s, u \in Remuxers : \A q \in rem'[s].queue : q \in rem'[u].queue => s = u
      BY <1>1, <2>1 DEF Inv, HeldOnce
    <3>3. \A s \in Remuxers : rem'[s].queue \cap forsaken' = {}
      BY <1>1, <2>1 DEF Inv, HeldOnce
    <3> QED BY <3>1, <3>2, <3>3 DEF HeldOnce
  <2>8. FilesHaveMuxer' BY <1>1, <1>3, <2>1 DEF Inv, FilesHaveMuxer, HandlerType
  <2>9. EndedRemuxersDetached'
    BY <2>1 DEF LoopRequest, environment, Inv, EndedRemuxersDetached, MuxerClosed
  <2> QED BY <2>3, <2>4, <2>5, <2>6, <2>7, <2>8, <2>9 DEF Inv
<1> QED BY <1>2, <1>3 DEF LoopRequest

\* A handler returns that no list holds, or it is held up by its client.
LEMMA HandlerReturns ==
    ASSUME Inv, NEW q \in Requests,
           \/ http' = [http EXCEPT ![q] = NoFile]
           \/ http' = [http EXCEPT ![q].st = "stalled"],
           q \notin forsaken, \A s \in Remuxers : q \notin rem[s].queue,
           \/ fwd.req # q /\ fwd' = fwd
           \/ fwd.req = q /\ fwd' = NoForward,
           UNCHANGED <<hlsAlwaysRemux, server, rem, forsaken, environment>>
    PROVE  Inv'
<1>1. /\ http \in [Requests -> HandlerType] /\ http' \in [Requests -> HandlerType]
      /\ http'[q].st \in {"idle", "stalled"}
      /\ http'[q].rem # None => http'[q].st = "stalled" /\ http'[q].rem = http[q].rem
      /\ \A p \in Requests \ {q} : http'[p] = http[p]
  BY DEF Inv, TypeOK, NoFile, HandlerType
<1>2. /\ fwd' \in [req: Requests \cup {None}, rem: Remuxers \cup {None}]
      /\ fwd'.req = None <=> fwd'.rem = None
      /\ fwd'.req \notin forsaken
      /\ \A s \in Remuxers : fwd'.req \notin rem[s].queue
      /\ \A p \in Requests \ {q} : fwd'.req = p <=> fwd.req = p
      /\ fwd'.req # q
  BY DEF Inv, TypeOK, Places, HeldOnce, NoForward
<1>3. TypeOK' BY <1>1, <1>2 DEF Inv, TypeOK, server, environment, HandlerType
<1>4. Mapped' /\ Phases' BY DEF Inv, Mapped, Phases, Ended, server, environment
<1>5. Places' BY <1>1, <1>2 DEF Inv, Places, Ended
<1>6. HeldOnce' BY <1>2 DEF Inv, HeldOnce
<1>7. FilesHaveMuxer' BY <1>1 DEF Inv, FilesHaveMuxer
<1>8. EndedRemuxersDetached' BY DEF Inv, EndedRemuxersDetached, MuxerClosed, environment
<1> QED BY <1>3, <1>4, <1>5, <1>6, <1>7, <1>8 DEF Inv

\* The remuxer becomes ready and answers all the requests in its list.
LEMMA LoopReadyInv ==
    ASSUME Inv, NEW r \in Remuxers, LoopReady(r), UNCHANGED hlsAlwaysRemux
    PROVE  Inv'
<1>1. /\ rem \in [Remuxers -> RemType] /\ http \in [Requests -> HandlerType]
      /\ rem[r].queue \in SUBSET Requests
  BY DEF Inv, TypeOK, RemType, HandlerType
<1>2. /\ http' \in [Requests -> HandlerType]
      /\ \A q \in Requests \ rem[r].queue : http'[q] = http[q]
      /\ \A q \in rem[r].queue : /\ http'[q].st # "waiting"
                                 /\ http'[q].rem # None => http'[q].st = "reading" /\ http'[q].rem = r
      /\ UNCHANGED <<fwd, forsaken>>
  BY <1>1, HandleRequestFacts DEF LoopReady, pending
<1>3. /\ rem' \in [Remuxers -> RemType]
      /\ \A s \in Remuxers \ {r} : rem'[s] = rem[s]
      /\ rem'[r].queue = {} /\ rem'[r].ready /\ rem'[r].inner = "play"
      /\ rem'[r].name = rem[r].name /\ rem'[r].loop = "loop" /\ rem[r].loop = "loop"
  <2> DEFINE x == [rem[r] EXCEPT !.ready = TRUE, !.queue = {}, !.inner = "play",
                                 !.recent = @ \/ rem[r].queue # {}]
  <2>1. rem' = [rem EXCEPT ![r] = x] /\ rem[r].loop = "loop" BY <1>1 DEF LoopReady
  <2>2. rem[r] \in RemType BY <1>1
  <2>3. (rem[r].recent \/ rem[r].queue # {}) \in BOOLEAN OBVIOUS
  <2>4. /\ x \in RemType /\ x.queue = {} /\ x.ready = TRUE
        /\ x.name = rem[r].name /\ x.loop = rem[r].loop /\ x.inner = "play"
    BY <2>2, <2>3 DEF RemType
  <2> HIDE DEF x
  <2> QED BY <1>1, <2>1, <2>4
<1>4. TypeOK'
  <2>1. UNCHANGED <<hlsAlwaysRemux, phase, srvDone, remuxers, src, attached, telling, notify, crashed>>
    BY DEF LoopReady, server, environment
  <2> QED BY <1>2, <1>3, <2>1 DEF Inv, TypeOK, RemType, HandlerType
<1>5. Mapped' BY <1>3 DEF LoopReady, server, Inv, Mapped, Ended
<1>6. Phases' BY <1>3 DEF LoopReady, environment, Inv, Phases, Early
<1>7. Places'
  <2>1. \A q \in rem[r].queue :
            /\ q \in Requests /\ fwd.req # q /\ q \notin forsaken
            /\ \A s \in Remuxers : q \notin rem'[s].queue
    BY <1>1, <1>3 DEF Inv, HeldOnce
  <2>2. \A q \in Requests \ rem[r].queue :
            (\E s \in Remuxers : q \in rem'[s].queue) <=> (\E s \in Remuxers : q \in rem[s].queue)
    BY <1>3
  <2>3. \A q \in Requests : http'[q].rem # None =>
            http'[q].st \in {"reading", "stalled"} /\ rem'[http'[q].rem].loop # "off"
    BY <1>1, <1>2, <1>3 DEF Inv, Places, Ended, HandlerType
  <2> QED BY <1>2, <2>1, <2>2, <2>3 DEF Inv, Places, Ended
<1>8. HeldOnce' BY <1>2, <1>3 DEF Inv, HeldOnce
<1>9. FilesHaveMuxer' BY <1>2, <1>3 DEF Inv, FilesHaveMuxer, HandlerType
<1>10. EndedRemuxersDetached'
  BY <1>3 DEF LoopReady, environment, Inv, EndedRemuxersDetached, MuxerClosed
<1> QED BY <1>4, <1>5, <1>6, <1>7, <1>8, <1>9, <1>10 DEF Inv

\* The source goes away and the readers of the path are closed.
LEMMA SourceLostInv ==
    ASSUME Inv, NEW n \in Names, SourceLost(n), UNCHANGED hlsAlwaysRemux
    PROVE  Inv'
<1>1. /\ rem \in [Remuxers -> RemType] /\ rem' \in [Remuxers -> RemType]
      /\ \A s \in Remuxers : /\ rem'[s].queue = rem[s].queue /\ rem'[s].ready = rem[s].ready
                             /\ rem'[s].name = rem[s].name /\ rem'[s].loop = rem[s].loop
                             /\ rem'[s].inner = rem[s].inner
      /\ attached' \subseteq attached
  <2>1. rem \in [Remuxers -> RemType] /\ attached' \subseteq attached
    BY DEF SourceLost, Inv, TypeOK, RemType
  <2>2. \A s \in Remuxers : rem'[s] \in {rem[s], [rem[s] EXCEPT !.cancelled = TRUE]}
    BY DEF SourceLost
  <2>3. ASSUME NEW s \in Remuxers, NEW x \in {rem[s], [rem[s] EXCEPT !.cancelled = TRUE]}
        PROVE  /\ x \in RemType /\ x.queue = rem[s].queue /\ x.ready = rem[s].ready
               /\ x.name = rem[s].name /\ x.loop = rem[s].loop /\ x.inner = rem[s].inner
    <3>1. rem[s] \in RemType BY <2>1
    <3>2. CASE x = rem[s] BY <3>1, <3>2
    <3>3. CASE x = [rem[s] EXCEPT !.cancelled = TRUE] BY <3>1, <3>3 DEF RemType
    <3> QED BY <3>2, <3>3
  <2>4. rem' = [s \in Remuxers |-> rem'[s]] BY DEF SourceLost
  <2> QED BY <2>1, <2>2, <2>3, <2>4
<1>2. TypeOK' BY <1>1 DEF SourceLost, server, pending, Inv, TypeOK, RemType
<1>3. Mapped' BY <1>1 DEF SourceLost, server, Inv, Mapped, Ended
<1>4. Phases' BY <1>1 DEF Inv, Phases
<1>5. Places' BY <1>1 DEF SourceLost, pending, Inv, Places, TypeOK, Ended
<1>6. HeldOnce' BY <1>1 DEF SourceLost, pending, Inv, HeldOnce
<1>7. FilesHaveMuxer' BY <1>1 DEF SourceLost, Inv, FilesHaveMuxer, TypeOK
<1>8. EndedRemuxersDetached' BY <1>1 DEF Inv, EndedRemuxersDetached, MuxerClosed
<1> QED BY <1>2, <1>3, <1>4, <1>5, <1>6, <1>7, <1>8 DEF Inv

\* The source becomes ready and the readers on hold are answered.
LEMMA SourceReadyInv ==
    ASSUME Inv, NEW n \in Names, SourceReady(n), UNCHANGED hlsAlwaysRemux
    PROVE  Inv'
<1> DEFINE held == {r \in Remuxers : rem[r].inner = "held" /\ rem[r].name = n}
<1>1. /\ rem \in [Remuxers -> RemType] /\ rem' \in [Remuxers -> RemType]
      /\ \A s \in Remuxers : /\ rem'[s].queue = rem[s].queue /\ rem'[s].ready = rem[s].ready
                             /\ rem'[s].name = rem[s].name /\ rem'[s].loop = rem[s].loop
                             /\ rem'[s].inner = IF s \in held THEN "tracks" ELSE rem[s].inner
      /\ attached' = attached \cup held /\ held \subseteq Remuxers
  <2>1. rem \in [Remuxers -> RemType] /\ attached' = attached \cup held /\ held \subseteq Remuxers
    BY DEF SourceReady, Inv, TypeOK, RemType
  <2>2. ASSUME NEW s \in Remuxers
        PROVE  /\ rem'[s] \in RemType
               /\ rem'[s].queue = rem[s].queue /\ rem'[s].ready = rem[s].ready
               /\ rem'[s].name = rem[s].name /\ rem'[s].loop = rem[s].loop
               /\ rem'[s].inner = IF s \in held THEN "tracks" ELSE rem[s].inner
    <3>1. rem[s] \in RemType BY <2>1
    <3>2. rem'[s] = IF s \in held THEN [rem[s] EXCEPT !.inner = "tracks"] ELSE rem[s]
      BY DEF SourceReady
    <3> HIDE DEF held
    <3>3. CASE s \in held BY <3>1, <3>2, <3>3 DEF RemType
    <3>4. CASE s \notin held BY <3>1, <3>2, <3>4
    <3> QED BY <3>3, <3>4
  <2>3. rem' = [s \in Remuxers |-> rem'[s]] BY DEF SourceReady
  <2> HIDE DEF held
  <2> QED BY <2>1, <2>2, <2>3
<1>2. \A s \in held : rem[s].inner = "held" /\ rem[s].loop \notin {"off", "closing"} /\ ~rem[s].ready
  BY DEF Inv, Phases, Early
<1> HIDE DEF held
<1>3. TypeOK'
  <2>1. /\ src' \in [Names -> BOOLEAN] /\ telling' \subseteq Names /\ attached' \subseteq Remuxers
        /\ UNCHANGED <<hlsAlwaysRemux, phase, srvDone, remuxers, fwd, http, forsaken, notify, crashed>>
    BY <1>1 DEF SourceReady, server, pending, Inv, TypeOK
  <2> QED BY <1>1, <2>1 DEF Inv, TypeOK, RemType
<1>4. Mapped' BY <1>1 DEF SourceReady, server, Inv, Mapped, Ended
<1>5. Phases'
  <2> SUFFICES ASSUME NEW s \in Remuxers
               PROVE  /\ rem'[s].loop \in {"off", "closing"} => rem'[s].inner = "end"
                      /\ rem'[s].loop = "off" => rem'[s].queue = {}
                      /\ rem'[s].ready => rem'[s].inner \notin Early /\ rem'[s].queue = {}
                      /\ rem'[s].inner \in {"setup", "asked", "held"} => s \notin attached'
    BY DEF Phases
  <2>1. CASE s \in held BY <1>1, <1>2, <2>1 DEF Inv, Phases
  <2>2. CASE s \notin held BY <1>1, <2>2 DEF Inv, Phases
  <2> QED BY <2>1, <2>2
<1>6. Places' BY <1>1 DEF SourceReady, pending, Inv, Places, TypeOK, Ended
<1>7. HeldOnce' BY <1>1 DEF SourceReady, pending, Inv, HeldOnce
<1>8. FilesHaveMuxer'
  <2>1. http' = http /\ http \in [Requests -> HandlerType]
    BY DEF SourceReady, Inv, TypeOK, HandlerType
  <2> QED BY <1>1, <1>2, <2>1 DEF Inv, FilesHaveMuxer, HandlerType
<1>9. EndedRemuxersDetached' BY <1>1, <1>2 DEF Inv, EndedRemuxersDetached, MuxerClosed
<1> QED BY <1>3, <1>4, <1>5, <1>6, <1>7, <1>8, <1>9 DEF Inv

\* Every step preserves the invariant.
LEMMA NextInv == Inv /\ [Next]_vars => Inv'
<1> SUFFICES ASSUME Inv, [Next]_vars PROVE Inv' OBVIOUS
<1>0. CASE UNCHANGED vars BY <1>0, ServerQuiet DEF vars, Inv, TypeOK
<1>1. CASE Next
  <2> USE <1>1 DEF Next
  <2>1. ASSUME PathSourceReady PROVE Inv' BY <2>1, PathSourceReadyInv
  <2>2. ASSUME \/ PathSourceReadyTerminated \/ Close \/ CtxDoneSeen \/ Shutdown \/ Unset
               \/ \E n \in Names : SourceTold(n)
        PROVE Inv'
    BY <2>2, ServerQuiet
    DEF PathSourceReadyTerminated, Close, CtxDoneSeen, Shutdown, Unset, SourceTold,
        server, pending, environment, Inv, TypeOK
  <2>3. ASSUME NEW r \in Remuxers, RemuxerStep(r) \/ InnerStep(r) PROVE Inv'
    <3>1. CASE LoopRequest(r) BY <3>1, LoopRequestInv
    <3>2. CASE LoopRequestTerminated(r)
      BY <3>2, HandlerReturns DEF LoopRequestTerminated, Inv, TypeOK, Places, HeldOnce
    <3>3. CASE LoopReady(r) BY <3>3, LoopReadyInv
    <3>4. CASE RemuxerClose(r) \/ RemuxerCloseTerminated(r) BY <3>4, RemuxerCloseInv
    <3>5. CASE LoopErr(r) \/ LoopCtxDone(r) \/ LoopJoined(r) \/ InnerStep(r)
      BY <3>5, QuietSteps
    <3> QED BY <2>3, <3>1, <3>2, <3>3, <3>4, <3>5 DEF RemuxerStep
  <2>4. ASSUME NEW q \in Requests, ReadEnds(q) \/ ClientStalls(q) PROVE Inv'
    <3>1. /\ fwd.req # q /\ fwd' = fwd /\ forsaken' = forsaken
          /\ q \notin forsaken /\ \A s \in Remuxers : q \notin rem[s].queue
      BY <2>4 DEF ReadEnds, ClientStalls, pending, Inv, Places
    <3> QED BY <2>4, <3>1, HandlerReturns DEF ReadEnds, ClientStalls
  <2>5. ASSUME NEW q \in Requests, NEW n \in Names, ServeHTTP(q, n) PROVE Inv'
    BY <2>5, ServeHTTPInv
  <2>6. ASSUME NEW n \in Names, SourceLost(n) PROVE Inv' BY <2>6, SourceLostInv
  <2>7. ASSUME NEW n \in Names, SourceReady(n) PROVE Inv' BY <2>7, SourceReadyInv
  <2> QED BY <2>1, <2>2, <2>3, <2>4, <2>5, <2>6, <2>7 DEF Step
<1> QED BY <1>0, <1>1

\* The state of the server, of its remuxers and of the handlers has its type,
\* whatever the order in which their goroutines run, and the strengthening
\* that the theorems below rest on is an invariant.
THEOREM HLSInvariant == Spec => [](TypeOK /\ Inv)
<1>1. Inv => TypeOK BY DEF Inv
<1> QED BY <1>1, InitInv, NextInv, PTL DEF Spec

\* While the server runs, s.remuxers holds each remuxer that has not ended
\* under its path: findOrCreateRemuxer never remuxes a path twice.
THEOREM HLSNoOrphanRemuxer == Spec => []NoOrphanRemuxer
<1>1. Inv => NoOrphanRemuxer BY DEF Inv, Mapped, NoOrphanRemuxer
<1> QED BY <1>1, HLSInvariant, PTL

\* ServeHTTP is blocked exactly while the server forwards its request, the loop
\* of a remuxer that is not ready keeps it in r.requests, or such a remuxer has
\* left its loop and forsaken it.
THEOREM HLSWaitingIsHeld == Spec => []WaitingIsHeld
<1>1. Inv => WaitingIsHeld
  <2> SUFFICES ASSUME Inv, NEW q \in Requests
               PROVE  http[q].st = "waiting" <=>
                        \/ fwd.req = q
                        \/ \E r \in Remuxers : q \in rem[r].queue /\ rem[r].loop = "loop" /\ ~rem[r].ready
                        \/ Forsaken(q)
    BY DEF WaitingIsHeld
  <2>1. ASSUME NEW r \in Remuxers, q \in rem[r].queue
        PROVE  ~rem[r].ready /\ rem[r].loop \in {"loop", "waitErr", "closing"}
    BY <2>1 DEF Inv, Phases, TypeOK
  <2> QED BY <2>1 DEF Inv, Places, Forsaken
<1> QED BY <1>1, HLSInvariant, PTL

\* A handler reads files of r.muxer only after runRemuxer created it.
THEOREM HLSFilesHaveMuxer == Spec => []FilesHaveMuxer
<1>1. Inv => FilesHaveMuxer BY DEF Inv
<1> QED BY <1>1, HLSInvariant, PTL

\* ServeHTTP, the loop of the remuxer and runRemuxer agree on where each
\* request is: held by exactly one of the server and the remuxers that can
\* still answer, forsaken by the one that had it, or reading from a muxer.
THEOREM HLSHandlersAccounted == Spec => []HandlersAccounted
<1>1. Inv => HeldOnce BY DEF Inv
<1>2. WaitingIsHeld /\ HeldOnce /\ FilesHaveMuxer => HandlersAccounted BY DEF HandlersAccounted
<1> QED BY <1>1, <1>2, HLSInvariant, HLSWaitingIsHeld, HLSFilesHaveMuxer, PTL

\* However runRemuxer ends, its path has forgotten the reader by then, also
\* when the path attached it again in OnReaderPlay after removing it.
THEOREM HLSEndedRemuxersDetached == Spec => []EndedRemuxersDetached
<1>1. Inv => EndedRemuxersDetached BY DEF Inv
<1> QED BY <1>1, HLSInvariant, PTL

=============================================================================
