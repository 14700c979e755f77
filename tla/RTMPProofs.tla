----------------------------- MODULE RTMPProofs -----------------------------
(***************************************************************************)
(* Proofs of the safety of the RTMP server, for any number of connections. *)
(***************************************************************************)
EXTENDS RTMP, TLAPS

\* What a connection holds, by the place its goroutines have reached.
ConnInv(c) ==
    /\ conn[c].pc = "run" <=> conn[c].inner # "none"
    /\ conn[c].pc \in {"close", "command", "ended"} => conn[c].ctx
    /\ conn[c].pc \in {"command", "ended"} /\ c \in conns => ctxDone
    /\ conn[c].pc = "run" /\ c \notin conns => done(c)
    /\ conn[c].pc = "ended" => Cmd!done(conn[c].cmd)
    /\ conn[c].rtcp => conn[c].inner = "publish"
    /\ conn[c].inner \in {"play", "pull"} => conn[c].ring /\ conn[c].state = "read"
    /\ pa.readers[c] # "none" => conn[c].inner \in {"accepted", "play", "pull", "remove"}
    /\ pa.readers[c] = "play" => conn[c].ring /\ conn[c].state = "read"
    /\ pa.source = c => conn[c].inner \in {"record", "publish", "unpublish"}
    /\ pa.source = c /\ pa.ready => conn[c].state = "publish"

Inv ==
    /\ TypeOK
    /\ pa.ready => pa.source # Nil
    /\ \A c \in Conns : ConnInv(c)

USE OtherAssumption, NilAssumption DEF Nil

LEMMA InitInv == Init => Inv
<1> SUFFICES ASSUME Init PROVE Inv OBVIOUS
<1> USE DEF Init, Unborn, NewPath, Cmd!NoCmd
<1>a. PICK d \in BOOLEAN : pa = NewPath(d) OBVIOUS
<1>1. TypeOK BY <1>a DEF TypeOK, ConnType, PathType, Cmd!CmdType
<1>2. \A c \in Conns : ConnInv(c) BY <1>a DEF ConnInv
<1> QED BY <1>a, <1>1, <1>2 DEF Inv

\* A step of the command's goroutine leaves a command that has ended alone.
LEMMA CommandSteps ==
    ASSUME NEW k \in Cmd!CmdType, NEW j \in Cmd!run(k, Restart)
    PROVE  j \in Cmd!CmdType /\ ~Cmd!done(k)
  BY DEF Cmd!run, Cmd!runInner, Cmd!rerun, Cmd!to, Cmd!CmdType, Cmd!done

\* The server takes over a connection, or kicks one.
LEMMA ServerOnConn ==
    ASSUME Inv, NEW c \in Conns,
           \/ NewConn(c) \/ Kick(c)
    PROVE  Inv'
<1>0. conn \in [Conns -> ConnType] /\ pa \in PathType /\ conn[c] \in ConnType BY DEF Inv, TypeOK
<1>1. ASSUME NewConn(c) PROVE Inv'
  <2> DEFINE x == [Unborn EXCEPT !.pc = "run", !.inner = "handshake",
                                !.cmd = IF runOnConnect THEN Cmd!New ELSE Cmd!NoCmd]
  <2>1. x \in ConnType BY <1>0 DEF ConnType, Unborn, Cmd!New, Cmd!NoCmd, Cmd!CmdType, Cmd!done
  <2>2. conn' = [conn EXCEPT ![c] = x] BY <1>0, <1>1 DEF NewConn
  <2>3. TypeOK' BY <1>0, <1>1, <2>1, <2>2 DEF NewConn, Inv, TypeOK
  <2>4. ASSUME NEW d \in Conns PROVE ConnInv(d)'
    BY <1>1 DEF NewConn, Inv, TypeOK, ConnType, ConnInv, done, Unborn, Cmd!New, Cmd!NoCmd, Cmd!CmdType, Cmd!done
  <2> QED BY <1>1, <2>3, <2>4 DEF NewConn, Inv
<1>2. ASSUME Kick(c) PROVE Inv'
  <2> DEFINE x == [conn[c] EXCEPT !.ctx = TRUE]
  <2>1. x \in ConnType BY <1>0 DEF ConnType
  <2>2. conn' = [conn EXCEPT ![c] = x] BY <1>0, <1>2 DEF Kick
  <2>3. TypeOK' BY <1>0, <1>2, <2>1, <2>2 DEF Kick, Inv, TypeOK
  <2>4. ASSUME NEW d \in Conns PROVE ConnInv(d)'
    BY <1>2 DEF Kick, Inv, TypeOK, ConnType, ConnInv, done
  <2> QED BY <1>2, <2>3, <2>4 DEF Kick, Inv
<1> QED BY <1>1, <1>2

\* run() of a connection: what runInner held is gone when it has returned.
LEMMA RunInv ==
    ASSUME Inv, NEW c \in Conns,
           \/ RunErr(c) \/ OnConnClose(c) \/ RunEnds(c)
    PROVE  Inv'
<1>0. conn \in [Conns -> ConnType] /\ pa \in PathType /\ conn[c] \in ConnType BY DEF Inv, TypeOK
<1>1. ASSUME RunErr(c) PROVE Inv'
  <2> DEFINE x == [conn[c] EXCEPT !.pc = "close", !.ctx = TRUE, !.inner = "none"]
  <2>1. x \in ConnType BY <1>0 DEF ConnType
  <2>2. conn' = [conn EXCEPT ![c] = x] BY <1>0, <1>1 DEF RunErr, server
  <2>3. TypeOK' BY <1>0, <1>1, <2>1, <2>2 DEF RunErr, server, Inv, TypeOK
  <2>4. ASSUME NEW d \in Conns PROVE ConnInv(d)'
    BY <1>1 DEF RunErr, server, Inv, TypeOK, ConnType, ConnInv, done
  <2> QED BY <1>1, <2>3, <2>4 DEF RunErr, server, Inv
<1>2. ASSUME OnConnClose(c) PROVE Inv'
  <2> DEFINE x == [conn[c] EXCEPT !.pc = "command", !.cmd = IF runOnConnect THEN Cmd!Close(@) ELSE @]
  <2>1. x \in ConnType BY <1>0 DEF ConnType, Cmd!Close, Cmd!CmdType
  <2>2. conn' = [conn EXCEPT ![c] = x] BY <1>0, <1>2 DEF OnConnClose
  <2>3. TypeOK' BY <1>0, <1>2, <2>1, <2>2 DEF OnConnClose, Inv, TypeOK
  <2>4. ASSUME NEW d \in Conns PROVE ConnInv(d)'
    BY <1>2 DEF OnConnClose, Inv, TypeOK, ConnType, ConnInv, done, Cmd!Close, Cmd!CmdType
  <2> QED BY <1>2, <2>3, <2>4 DEF OnConnClose, Inv
<1>3. ASSUME RunEnds(c) PROVE Inv'
  <2> DEFINE x == [conn[c] EXCEPT !.pc = "ended"]
  <2>1. x \in ConnType BY <1>0 DEF ConnType
  <2>2. conn' = [conn EXCEPT ![c] = x] BY <1>0, <1>3 DEF RunEnds, server
  <2>3. TypeOK' BY <1>0, <1>3, <2>1, <2>2 DEF RunEnds, server, Inv, TypeOK
  <2>4. ASSUME NEW d \in Conns PROVE ConnInv(d)'
    BY <1>3 DEF RunEnds, server, Inv, TypeOK, ConnType, ConnInv, done
  <2> QED BY <1>3, <2>3, <2>4 DEF RunEnds, server, Inv
<1> QED BY <1>1, <1>2, <1>3

\* Steps of runInner that only move it, from places that hold nothing or, from
\* the loop over the frames, to the removal.
LEMMA GotoInv ==
    ASSUME Inv, NEW c \in Conns, conn[c].pc = "run",
           NEW l \in {"done", "setup", "metadata", "pause", "held", "announce", "remove"},
           goto(c, l),
           conn[c].inner \notin {"none", "record", "publish", "unpublish"},
           l # "remove" => conn[c].inner \notin {"accepted", "play", "pull", "remove"}
    PROVE  Inv'
<1>0. conn \in [Conns -> ConnType] /\ conn[c] \in ConnType BY DEF Inv, TypeOK
<1> DEFINE x == [conn[c] EXCEPT !.inner = l]
<1>1. x \in ConnType BY <1>0 DEF ConnType
<1>2. conn' = [conn EXCEPT ![c] = x] BY <1>0 DEF goto
<1>3. TypeOK' BY <1>0, <1>1, <1>2 DEF goto, server, Inv, TypeOK
<1>4. ASSUME NEW d \in Conns PROVE ConnInv(d)'
  BY DEF goto, server, Inv, TypeOK, ConnType, ConnInv, done
<1> QED BY <1>3, <1>4 DEF goto, server, Inv

\* The steps of that kind.
LEMMA MovesInv ==
    ASSUME Inv, NEW c \in Conns,
           \/ HandshakeFails(c) \/ Handshake(c) \/ PauseEnds(c) \/ SetupRefused(c)
           \/ ReadMetadata(c) \/ AnnounceRefused(c) \/ PullFails(c)
    PROVE  Inv'
<1>1. conn[c].inner # "none" => conn[c].pc = "run" BY DEF Inv, ConnInv
<1> QED BY <1>1, GotoInv DEF HandshakeFails, Handshake, PauseEnds, SetupRefused,
          ReadMetadata, AnnounceRefused, PullFails

\* What the path does when its readers come and go keeps its type.
LEMMA PathTypes ==
    ASSUME NEW p \in PathType, NEW c \in Conns
    PROVE  /\ handleReaderSetupPlayPost(p, c) \in PathType
           /\ handleReaderRemove(p, c) \in PathType
<1>2. handleReaderSetupPlayPost(p, c) \in PathType BY DEF handleReaderSetupPlayPost, PathType
<1>3. ASSUME NEW b \in BOOLEAN PROVE [p EXCEPT !.readers[c] = "none", !.closeTimer = b] \in PathType
  BY DEF PathType
<1>4. handleReaderRemove(p, c) \in PathType
  <2> DEFINE b == p.onDemand /\ p.ready /\ (p.closeTimer \/ registered(p) \subseteq {c})
  <2>1. b \in BOOLEAN OBVIOUS
  <2>2. handleReaderRemove(p, c) = [p EXCEPT !.readers[c] = "none", !.closeTimer = b]
    BY DEF handleReaderRemove
  <2> HIDE DEF b
  <2> QED BY <1>3, <2>1, <2>2
<1> QED BY <1>2, <1>4

\* runRead(): the path knows a reader only between its setup and its removal.
LEMMA ReadInv ==
    ASSUME Inv, NEW c \in Conns,
           \/ SetupAccepted(c) \/ Unreadable(c) \/ Readable(c) \/ Play(c)
           \/ ReaderRemove(c)
    PROVE  Inv'
<1>0. conn \in [Conns -> ConnType] /\ pa \in PathType /\ conn[c] \in ConnType BY DEF Inv, TypeOK
<1>1. ASSUME SetupAccepted(c) PROVE Inv'
  <2> DEFINE x == [conn[c] EXCEPT !.inner = "accepted"]
  <2>1. x \in ConnType BY <1>0 DEF ConnType
  <2>2. conn' = [conn EXCEPT ![c] = x] BY <1>0, <1>1 DEF SetupAccepted, handleReaderSetupPlayPost, server
  <2>3. TypeOK' BY <1>0, <1>1, <2>1, <2>2, PathTypes DEF SetupAccepted, server, Inv, TypeOK
  <2>4. ASSUME NEW d \in Conns PROVE ConnInv(d)'
    BY <1>1 DEF SetupAccepted, handleReaderSetupPlayPost, server, Inv, TypeOK, ConnType, ConnInv, done, PathType
  <2> QED BY <1>1, <2>3, <2>4 DEF SetupAccepted, handleReaderSetupPlayPost, server, Inv, PathType
<1>2. ASSUME Unreadable(c) PROVE Inv'
  <2> DEFINE x == [conn[c] EXCEPT !.inner = "remove", !.state = "read"]
  <2>1. x \in ConnType BY <1>0 DEF ConnType
  <2>2. conn' = [conn EXCEPT ![c] = x] BY <1>0, <1>2 DEF Unreadable, server
  <2>3. TypeOK' BY <1>0, <1>2, <2>1, <2>2 DEF Unreadable, server, Inv, TypeOK
  <2>4. ASSUME NEW d \in Conns PROVE ConnInv(d)'
    BY <1>2 DEF Unreadable, server, Inv, TypeOK, ConnType, ConnInv, done
  <2> QED BY <1>2, <2>3, <2>4 DEF Unreadable, server, Inv
<1>3. ASSUME Readable(c) PROVE Inv'
  <2> DEFINE x == [conn[c] EXCEPT !.inner = "play", !.state = "read", !.ring = TRUE]
  <2>1. x \in ConnType BY <1>0 DEF ConnType
  <2>2. conn' = [conn EXCEPT ![c] = x] BY <1>0, <1>3 DEF Readable, server
  <2>3. TypeOK' BY <1>0, <1>3, <2>1, <2>2 DEF Readable, server, Inv, TypeOK
  <2>4. ASSUME NEW d \in Conns PROVE ConnInv(d)'
    BY <1>3 DEF Readable, server, Inv, TypeOK, ConnType, ConnInv, done
  <2> QED BY <1>3, <2>3, <2>4 DEF Readable, server, Inv
<1>4. ASSUME Play(c) PROVE Inv'
  <2> DEFINE x == [conn[c] EXCEPT !.inner = "pull"]
  <2>1. x \in ConnType BY <1>0 DEF ConnType
  <2>2. conn' = [conn EXCEPT ![c] = x] BY <1>0, <1>4 DEF Play, handleReaderPlay, server
  <2>3. TypeOK' BY <1>0, <1>4, <2>1, <2>2 DEF Play, handleReaderPlay, server, Inv, TypeOK, PathType
  <2>4. ASSUME NEW d \in Conns PROVE ConnInv(d)'
    BY <1>4 DEF Play, handleReaderPlay, server, Inv, TypeOK, ConnType, ConnInv, done, PathType
  <2> QED BY <1>4, <2>3, <2>4 DEF Play, handleReaderPlay, server, Inv, PathType
<1>5. ASSUME ReaderRemove(c) PROVE Inv'
  <2> DEFINE x == [conn[c] EXCEPT !.inner = "done"]
  <2>1. x \in ConnType BY <1>0 DEF ConnType
  <2>2. conn' = [conn EXCEPT ![c] = x] BY <1>0, <1>5 DEF ReaderRemove, handleReaderRemove, server
  <2>3. TypeOK' BY <1>0, <1>5, <2>1, <2>2, PathTypes DEF ReaderRemove, server, Inv, TypeOK
  <2>4. ASSUME NEW d \in Conns PROVE ConnInv(d)'
    BY <1>5 DEF ReaderRemove, handleReaderRemove, server, Inv, TypeOK, ConnType, ConnInv, done, PathType
  <2> QED BY <1>5, <2>3, <2>4 DEF ReaderRemove, handleReaderRemove, server, Inv, PathType
<1> QED BY <1>1, <1>2, <1>3, <1>4, <1>5

\* Everything but its context, and its place if it waits, stays as it is.
Same(x, y) == /\ x.pc = y.pc /\ x.state = y.state /\ x.ring = y.ring
              /\ x.rtcp = y.rtcp /\ x.cmd = y.cmd

\* Who is closed gets its context cancelled.
LEMMA ClosingFacts ==
    ASSUME NEW f \in [Conns -> ConnType], NEW cs
    PROVE  /\ closing(cs, f) \in [Conns -> ConnType]
           /\ \A d \in Conns : /\ Same(closing(cs, f)[d], f[d])
                               /\ closing(cs, f)[d].inner = f[d].inner
                               /\ f[d].ctx => closing(cs, f)[d].ctx
<1>1. \A x \in ConnType : /\ [x EXCEPT !.ctx = TRUE] \in ConnType
                          /\ Same([x EXCEPT !.ctx = TRUE], x)
                          /\ [x EXCEPT !.ctx = TRUE].inner = x.inner
                          /\ [x EXCEPT !.ctx = TRUE].ctx
  BY DEF ConnType, Same
<1>2. \A x : Same(x, x) BY DEF Same
<1> QED BY <1>1, <1>2 DEF closing

\* Who is answered goes on.
LEMMA AnsweredFacts ==
    ASSUME NEW f \in [Conns -> ConnType]
    PROVE  /\ answered(f, TRUE) \in [Conns -> ConnType]
           /\ answered(f, FALSE) \in [Conns -> ConnType]
           /\ \A d \in Conns :
                /\ Same(answered(f, TRUE)[d], f[d]) /\ Same(answered(f, FALSE)[d], f[d])
                /\ answered(f, TRUE)[d].ctx = f[d].ctx /\ answered(f, FALSE)[d].ctx = f[d].ctx
                /\ answered(f, TRUE)[d].inner = IF d \in Waiting THEN "accepted" ELSE f[d].inner
                /\ answered(f, FALSE)[d].inner = IF d \in Waiting THEN "done" ELSE f[d].inner
<1>1. \A x \in ConnType : \A i \in {"accepted", "done"} :
        /\ [x EXCEPT !.inner = i] \in ConnType /\ Same([x EXCEPT !.inner = i], x)
        /\ [x EXCEPT !.inner = i].ctx = x.ctx /\ [x EXCEPT !.inner = i].inner = i
  BY DEF ConnType, Same
<1>2. \A x : Same(x, x) BY DEF Same
<1>3. \A d \in Conns :
        /\ answered(f, TRUE)[d] = IF d \in Waiting THEN [f[d] EXCEPT !.inner = "accepted"] ELSE f[d]
        /\ answered(f, FALSE)[d] = IF d \in Waiting THEN [f[d] EXCEPT !.inner = "done"] ELSE f[d]
  BY DEF answered
<1>4. ASSUME NEW d \in Conns, d \in Waiting
      PROVE  /\ answered(f, TRUE)[d] \in ConnType /\ answered(f, FALSE)[d] \in ConnType
             /\ Same(answered(f, TRUE)[d], f[d]) /\ Same(answered(f, FALSE)[d], f[d])
             /\ answered(f, TRUE)[d].ctx = f[d].ctx /\ answered(f, FALSE)[d].ctx = f[d].ctx
             /\ answered(f, TRUE)[d].inner = "accepted" /\ answered(f, FALSE)[d].inner = "done"
  <2>1. answered(f, TRUE)[d] = [f[d] EXCEPT !.inner = "accepted"] BY <1>3, <1>4
  <2>2. answered(f, FALSE)[d] = [f[d] EXCEPT !.inner = "done"] BY <1>3, <1>4
  <2> QED BY <1>1, <2>1, <2>2
<1>5. ASSUME NEW d \in Conns, d \notin Waiting
      PROVE  answered(f, TRUE)[d] = f[d] /\ answered(f, FALSE)[d] = f[d]
  BY <1>3, <1>5
<1>6. /\ answered(f, TRUE) = [d \in Conns |-> answered(f, TRUE)[d]]
      /\ answered(f, FALSE) = [d \in Conns |-> answered(f, FALSE)[d]]
  BY DEF answered
<1>7. \A d \in Conns : answered(f, TRUE)[d] \in ConnType /\ answered(f, FALSE)[d] \in ConnType
  BY <1>4, <1>5
<1>8. answered(f, TRUE) \in [Conns -> ConnType] /\ answered(f, FALSE) \in [Conns -> ConnType]
  BY <1>6, <1>7
<1> QED BY <1>2, <1>4, <1>5, <1>8

\* The fields of the path after its operations.
LEMMA PathFields ==
    ASSUME NEW p \in PathType, NEW w \in SUBSET Conns, NEW d \in Conns
    PROVE  /\ doPublisherRemove(p).source = Nil /\ doPublisherRemove(p).ready = FALSE
           /\ doPublisherRemove(p).readers[d] = "none"
           /\ [doPublisherRemove(p) EXCEPT !.open = FALSE].source = Nil
           /\ [doPublisherRemove(p) EXCEPT !.open = FALSE].ready = FALSE
           /\ [doPublisherRemove(p) EXCEPT !.open = FALSE].readers[d] = "none"
           /\ sourceSetReady(p, w).source = p.source
           /\ sourceSetReady(p, w).readers[d] = IF d \in w THEN "prePlay" ELSE p.readers[d]
           /\ [sourceSetReady(p, w) EXCEPT !.source = Other].source = Other
           /\ [sourceSetReady(p, w) EXCEPT !.source = Other].readers[d]
                  = IF d \in w THEN "prePlay" ELSE p.readers[d]
  BY DEF doPublisherRemove, sourceSetNotReady, sourceSetReady, PathType

\* The path closes readers or a publisher of its own accord, answers those that
\* wait, or takes a new stream: the connections that it drops keep their place.
LEMMA PathInv ==
    ASSUME Inv, RequestsTimeOut \/ OnDemandClose \/ OtherReady \/ OtherGone \/ PathEnds
    PROVE  Inv'
<1>0. conn \in [Conns -> ConnType] /\ pa \in PathType /\ Waiting \in SUBSET Conns
  BY DEF Inv, TypeOK, Waiting
<1>a. \A d \in Conns : /\ d \in Waiting <=> conn[d].inner = "held"
                       /\ conn[d].inner = "held" => conn[d].pc = "run"
  BY DEF Waiting, Inv, ConnInv
<1>s. pa' = onDemandCloseSource(pa) =>
        /\ pa' \in PathType /\ (pa'.ready => pa'.source # Nil)
        /\ \A d \in Conns : /\ pa'.readers[d] = "none" \/ pa'.readers[d] = pa.readers[d]
                            /\ pa'.source # d \/ pa' = pa
  <2>1. onDemandCloseSource(pa) \in PathType
    <3>1. doPublisherRemove(pa) \in PathType
      BY <1>0 DEF doPublisherRemove, sourceSetNotReady, PathType
    <3> QED BY <1>0, <3>1 DEF onDemandCloseSource
  <2>2. \A d \in Conns : /\ doPublisherRemove(pa).source = Nil /\ ~doPublisherRemove(pa).ready
                         /\ doPublisherRemove(pa).readers[d] = "none"
    BY <1>0, PathFields
  <2>3. doPublisherRemove(pa).ready = FALSE
    BY <1>0 DEF doPublisherRemove, sourceSetNotReady, PathType
  <2>4. pa.ready => pa.source # Nil BY DEF Inv
  <2> QED BY <2>1, <2>2, <2>3, <2>4 DEF onDemandCloseSource
<1> USE DEF server
<1>1. ASSUME RequestsTimeOut PROVE Inv'
  <2> DEFINE g == answered(conn, FALSE)
  <2>0. /\ pa' = onDemandCloseSource(pa)
        /\ conn' = closing(overridden(pa), g) /\ UNCHANGED <<server, panicked>>
    BY <1>1 DEF RequestsTimeOut
  <2>b. g \in [Conns -> ConnType] BY <1>0, AnsweredFacts
  <2>c. conn' \in [Conns -> ConnType] BY <2>0, <2>b, ClosingFacts
  <2>1. TypeOK' BY <1>s, <2>0, <2>c DEF Inv, TypeOK
  <2>2. ASSUME NEW d \in Conns PROVE ConnInv(d)'
    <3>1. /\ Same(g[d], conn[d]) /\ g[d].ctx = conn[d].ctx
          /\ g[d].inner = IF d \in Waiting THEN "done" ELSE conn[d].inner
      BY <1>0, AnsweredFacts
    <3> HIDE DEF g
    <3>2. /\ Same(conn'[d], g[d]) /\ conn'[d].inner = g[d].inner
          /\ g[d].ctx => conn'[d].ctx
      BY <2>0, <2>b, ClosingFacts
    <3>3. CASE d \in Waiting BY <1>a, <1>s, <2>0, <3>1, <3>2, <3>3 DEF Inv, ConnInv, done, Same
    <3>4. CASE d \notin Waiting BY <1>s, <2>0, <3>1, <3>2, <3>4 DEF Inv, ConnInv, done, Same
    <3> QED BY <3>3, <3>4
  <2> QED BY <1>s, <2>0, <2>1, <2>2 DEF Inv
<1>5. ASSUME OnDemandClose PROVE Inv'
  <2>0. /\ pa' = onDemandCloseSource(pa)
        /\ conn' = closing(overridden(pa), conn) /\ UNCHANGED <<server, panicked>>
    BY <1>5 DEF OnDemandClose
  <2>b. conn' \in [Conns -> ConnType] BY <1>0, <2>0, ClosingFacts
  <2>1. TypeOK' BY <1>s, <2>0, <2>b DEF Inv, TypeOK
  <2>2. ASSUME NEW d \in Conns PROVE ConnInv(d)'
    <3>1. /\ Same(conn'[d], conn[d]) /\ conn'[d].inner = conn[d].inner
          /\ conn[d].ctx => conn'[d].ctx
      BY <1>0, <2>0, ClosingFacts
    <3> QED BY <1>s, <2>0, <3>1 DEF Inv, ConnInv, done, Same
  <2> QED BY <1>s, <2>0, <2>1, <2>2 DEF Inv
<1>2. ASSUME OtherReady PROVE Inv'
  <2>0. /\ pa' = [sourceSetReady(pa, Waiting) EXCEPT !.source = Other]
        /\ conn' = answered(conn, TRUE) /\ UNCHANGED <<server, panicked>>
    BY <1>2 DEF OtherReady
  <2>a. pa' \in PathType BY <1>0, <2>0 DEF PathType, sourceSetReady
  <2>1. TypeOK' BY <1>0, <2>0, <2>a, AnsweredFacts DEF Inv, TypeOK
  <2>2. ASSUME NEW d \in Conns PROVE ConnInv(d)'
    <3>1. /\ Same(conn'[d], conn[d]) /\ conn'[d].ctx = conn[d].ctx
          /\ conn'[d].inner = IF d \in Waiting THEN "accepted" ELSE conn[d].inner
      BY <1>0, <2>0, AnsweredFacts
    <3>2. /\ pa'.source = Other
          /\ pa'.readers[d] = IF d \in Waiting THEN "prePlay" ELSE pa.readers[d]
      BY <1>0, <2>0 DEF PathType, sourceSetReady
    <3>3. UNCHANGED <<ctxDone, conns>> BY <2>0
    <3>4. CASE d \in Waiting BY <1>a, <3>1, <3>2, <3>3, <3>4 DEF Inv, ConnInv, done, Same
    <3>5. CASE d \notin Waiting BY <3>1, <3>2, <3>3, <3>5 DEF Inv, ConnInv, done, Same
    <3> QED BY <3>4, <3>5
  <2>3. pa'.source = Other BY <1>0, <2>0 DEF PathType, sourceSetReady
  <2> QED BY <2>1, <2>2, <2>3 DEF Inv
<1>3. ASSUME OtherGone PROVE Inv'
  <2>0. /\ pa' = doPublisherRemove(pa)
        /\ conn' = closing(dropped(pa), conn) /\ UNCHANGED <<server, panicked>>
    BY <1>3 DEF OtherGone
  <2>a. pa' \in PathType /\ pa'.ready = FALSE
    BY <1>0, <2>0 DEF PathType, doPublisherRemove, sourceSetNotReady
  <2>b. conn' \in [Conns -> ConnType] BY <1>0, <2>0, ClosingFacts
  <2>1. TypeOK' BY <2>0, <2>a, <2>b DEF Inv, TypeOK
  <2>2. ASSUME NEW d \in Conns PROVE ConnInv(d)'
    <3>1. /\ Same(conn'[d], conn[d]) /\ conn'[d].inner = conn[d].inner
          /\ conn[d].ctx => conn'[d].ctx
      BY <1>0, <2>0, ClosingFacts
    <3>2. pa'.source = Nil /\ pa'.readers[d] = "none" BY <1>0, <2>0, PathFields
    <3> QED BY <2>0, <3>1, <3>2 DEF Inv, ConnInv, done, Same
  <2> QED BY <2>1, <2>2, <2>a DEF Inv
<1>4. ASSUME PathEnds PROVE Inv'
  <2> DEFINE g == answered(conn, FALSE)
  <2>0. /\ pa' = [doPublisherRemove(pa) EXCEPT !.open = FALSE]
        /\ conn' = closing(registered(pa) \cup ({pa.source} \cap Conns), g)
        /\ UNCHANGED <<server, panicked>>
    BY <1>4 DEF PathEnds
  <2>a. pa' \in PathType /\ pa'.ready = FALSE
    BY <1>0, <2>0 DEF PathType, doPublisherRemove, sourceSetNotReady
  <2>b. g \in [Conns -> ConnType] BY <1>0, AnsweredFacts
  <2>c. conn' \in [Conns -> ConnType] BY <2>0, <2>b, ClosingFacts
  <2>1. TypeOK' BY <2>0, <2>a, <2>c DEF Inv, TypeOK
  <2>2. ASSUME NEW d \in Conns PROVE ConnInv(d)'
    <3>1. /\ Same(g[d], conn[d]) /\ g[d].ctx = conn[d].ctx
          /\ g[d].inner = IF d \in Waiting THEN "done" ELSE conn[d].inner
      BY <1>0, AnsweredFacts
    <3> HIDE DEF g
    <3>2. /\ Same(conn'[d], g[d]) /\ conn'[d].inner = g[d].inner
          /\ g[d].ctx => conn'[d].ctx
      BY <2>0, <2>b, ClosingFacts
    <3>3. pa'.source = Nil /\ pa'.readers[d] = "none" BY <1>0, <2>0, PathFields
    <3> QED BY <1>a, <2>0, <3>1, <3>2, <3>3 DEF Inv, ConnInv, done, Same
  <2> QED BY <2>1, <2>2, <2>a DEF Inv
<1> QED BY <1>1, <1>2, <1>3, <1>4, <1>5

\* A publisher that is announced: the path has no stream yet.
LEMMA AnnounceInv == ASSUME Inv, NEW c \in Conns, AnnounceAccepted(c) PROVE Inv'
<1>0. conn \in [Conns -> ConnType] /\ pa \in PathType BY DEF Inv, TypeOK
<1> DEFINE g == closing(overridden(pa), conn)
           x == [g[c] EXCEPT !.inner = "record"]
<1>1. /\ g \in [Conns -> ConnType]
      /\ \A d \in Conns : Same(g[d], conn[d]) /\ g[d].inner = conn[d].inner
                          /\ (conn[d].ctx => g[d].ctx)
  BY <1>0, ClosingFacts
<1>2. conn' = [g EXCEPT ![c] = x] BY DEF AnnounceAccepted
<1> HIDE DEF g
<1>3. x \in ConnType /\ Same(x, conn[c]) /\ (conn[c].ctx => x.ctx) /\ x.inner = "record"
  BY <1>1 DEF ConnType, Same
<1> HIDE DEF x
<1>4. /\ pa' \in PathType /\ pa'.source = c /\ ~pa'.ready
      /\ \A d \in Conns : pa'.readers[d] = "none" \/ pa'.readers[d] = pa.readers[d]
  BY <1>0 DEF AnnounceAccepted, handlePublisherAnnounce, onDemandCloseSource, doPublisherRemove,
              sourceSetNotReady, PathType, Inv
<1>5. conn' \in [Conns -> ConnType] BY <1>1, <1>2, <1>3
<1>6. UNCHANGED <<server, panicked>> /\ conn[c].inner = "announce" BY DEF AnnounceAccepted
<1>7. TypeOK' BY <1>4, <1>5, <1>6 DEF server, Inv, TypeOK
<1>8. ASSUME NEW d \in Conns PROVE ConnInv(d)'
  <2>1. conn'[d] = IF d = c THEN x ELSE g[d] BY <1>1, <1>2
  <2> QED BY <1>1, <1>3, <1>4, <1>6, <2>1 DEF server, Inv, ConnInv, done, Same
<1> QED BY <1>4, <1>7, <1>8 DEF Inv

\* A publisher that records: if it is still the source of the path, the stream
\* is there, and those who wait for it become readers.
LEMMA RecordInv == ASSUME Inv, NEW c \in Conns, Record(c) PROVE Inv'
<1>0. /\ conn \in [Conns -> ConnType] /\ pa \in PathType /\ Waiting \in SUBSET Conns
      /\ \A d \in Conns : /\ d \in Waiting <=> conn[d].inner = "held"
                          /\ conn[d].inner = "held" => conn[d].pc = "run"
  BY DEF Inv, TypeOK, Waiting, ConnInv
<1>1. UNCHANGED <<server, panicked>> /\ conn[c].inner = "record" BY DEF Record
<1>2. CASE pa.open /\ pa.source = c
  <2> DEFINE g == answered(conn, TRUE)
             x == [g[c] EXCEPT !.inner = "publish", !.state = "publish", !.rtcp = TRUE]
  <2>1. /\ g \in [Conns -> ConnType]
        /\ \A d \in Conns : /\ Same(g[d], conn[d]) /\ g[d].ctx = conn[d].ctx
                            /\ g[d].inner = IF d \in Waiting THEN "accepted" ELSE conn[d].inner
    BY <1>0, AnsweredFacts
  <2>2. conn' = [g EXCEPT ![c] = x] BY <1>2, <2>1 DEF Record
  <2>a. pa' = sourceSetReady(pa, Waiting) BY <1>2 DEF Record
  <2> HIDE DEF g
  <2>3. /\ x \in ConnType /\ x.pc = conn[c].pc /\ x.ctx = conn[c].ctx /\ x.cmd = conn[c].cmd
        /\ x.inner = "publish" /\ x.state = "publish" /\ x.ring = conn[c].ring
    <3>1. g[c] \in ConnType /\ Same(g[c], conn[c]) /\ g[c].ctx = conn[c].ctx BY <2>1
    <3> QED BY <3>1 DEF ConnType, Same
  <2> HIDE DEF x
  <2>4. conn' \in [Conns -> ConnType] BY <2>1, <2>2, <2>3
  <2>5. pa' \in PathType BY <1>0, <2>a DEF sourceSetReady, PathType
  <2>6. TypeOK' BY <1>1, <2>4, <2>5 DEF server, Inv, TypeOK
  <2>7. ASSUME NEW d \in Conns PROVE ConnInv(d)'
    <3>1. conn'[d] = IF d = c THEN x ELSE g[d] BY <2>1, <2>2
    <3>2. /\ pa'.source = pa.source
          /\ pa'.readers[d] = IF d \in Waiting THEN "prePlay" ELSE pa.readers[d]
      BY <1>0, <2>a, PathFields
    <3>3. CASE d = c
      BY <1>0, <1>1, <1>2, <2>3, <3>1, <3>2, <3>3 DEF server, Inv, ConnInv, done
    <3>4. CASE d # c
      BY <1>0, <1>1, <1>2, <2>1, <3>1, <3>2, <3>4 DEF server, Inv, ConnInv, done, Same
    <3> QED BY <3>3, <3>4
  <2>8. pa'.source = c BY <1>0, <1>2, <2>a DEF sourceSetReady, PathType
  <2> QED BY <2>6, <2>7, <2>8 DEF Inv
<1>3. CASE ~(pa.open /\ pa.source = c)
  <2> DEFINE x == [conn[c] EXCEPT !.inner = "unpublish", !.state = "publish"]
  <2>1. x \in ConnType BY <1>0 DEF ConnType
  <2>2. conn' = [conn EXCEPT ![c] = x] /\ pa' = pa BY <1>0, <1>3 DEF Record
  <2>3. TypeOK' BY <1>0, <1>1, <2>1, <2>2 DEF server, Inv, TypeOK
  <2>4. ASSUME NEW d \in Conns PROVE ConnInv(d)'
    BY <1>0, <1>1, <1>3, <2>2 DEF server, Inv, ConnType, ConnInv, done
  <2> QED BY <2>2, <2>3, <2>4 DEF Inv
<1> QED BY <1>2, <1>3

\* The publisher leaves.
LEMMA PublishFailsInv == ASSUME Inv, NEW c \in Conns, PublishFails(c) PROVE Inv'
<1>0. conn \in [Conns -> ConnType] BY DEF Inv, TypeOK
<1> DEFINE x == [conn[c] EXCEPT !.inner = "unpublish", !.rtcp = FALSE]
<1>1. x \in ConnType BY <1>0 DEF ConnType
<1>2. conn' = [conn EXCEPT ![c] = x] BY <1>0 DEF PublishFails
<1>3. TypeOK' BY <1>0, <1>1, <1>2 DEF PublishFails, server, Inv, TypeOK
<1>4. ASSUME NEW d \in Conns PROVE ConnInv(d)'
  BY <1>0, <1>2 DEF PublishFails, server, Inv, ConnType, ConnInv, done
<1> QED BY <1>3, <1>4 DEF PublishFails, Inv

LEMMA PublisherRemoveInv == ASSUME Inv, NEW c \in Conns, PublisherRemove(c) PROVE Inv'
<1>0. conn \in [Conns -> ConnType] /\ pa \in PathType BY DEF Inv, TypeOK
<1> DEFINE g == closing(IF pa.source = c THEN dropped(pa) ELSE {}, conn)
           x == [g[c] EXCEPT !.inner = "done"]
<1>1. /\ g \in [Conns -> ConnType]
      /\ \A d \in Conns : Same(g[d], conn[d]) /\ g[d].inner = conn[d].inner
                          /\ (conn[d].ctx => g[d].ctx)
  BY <1>0, ClosingFacts
<1>2. conn' = [g EXCEPT ![c] = x] BY DEF PublisherRemove
<1> HIDE DEF g
<1>3. x \in ConnType /\ Same(x, conn[c]) /\ (conn[c].ctx => x.ctx) /\ x.inner = "done"
  BY <1>1 DEF ConnType, Same
<1> HIDE DEF x
<1>4. /\ pa' \in PathType
      /\ pa'.source # c /\ (pa'.ready => pa'.source # Nil)
      /\ \A d \in Conns : /\ pa'.readers[d] = "none" \/ pa'.readers[d] = pa.readers[d]
                          /\ pa'.source = d => pa' = pa
  BY <1>0 DEF PublisherRemove, handlePublisherRemove, doPublisherRemove,
              sourceSetNotReady, PathType, Inv
<1>5. conn' \in [Conns -> ConnType] BY <1>1, <1>2, <1>3
<1>6. UNCHANGED <<server, panicked>> /\ conn[c].inner = "unpublish" BY DEF PublisherRemove
<1>7. TypeOK' BY <1>4, <1>5, <1>6 DEF server, Inv, TypeOK
<1>8. ASSUME NEW d \in Conns PROVE ConnInv(d)'
  <2>1. conn'[d] = IF d = c THEN x ELSE g[d] BY <1>1, <1>2
  <2> QED BY <1>1, <1>3, <1>4, <1>6, <2>1 DEF server, Inv, ConnInv, done, Same
<1> QED BY <1>4, <1>7, <1>8 DEF Inv

\* The command of a connection.
LEMMA CommandInv == ASSUME Inv, NEW c \in Conns, CommandStep(c) PROVE Inv'
<1>0. conn \in [Conns -> ConnType] /\ conn[c] \in ConnType BY DEF Inv, TypeOK
<1>1. PICK k \in Cmd!run(conn[c].cmd, Restart) : conn' = [conn EXCEPT ![c].cmd = k]
  BY DEF CommandStep
<1>2. k \in Cmd!CmdType /\ ~Cmd!done(conn[c].cmd) BY <1>0, CommandSteps DEF ConnType
<1> DEFINE x == [conn[c] EXCEPT !.cmd = k]
<1>3. x \in ConnType BY <1>0, <1>2 DEF ConnType
<1>4. conn' = [conn EXCEPT ![c] = x] BY <1>0, <1>1
<1>5. TypeOK' BY <1>0, <1>3, <1>4 DEF CommandStep, server, Inv, TypeOK
<1>6. ASSUME NEW d \in Conns PROVE ConnInv(d)'
  BY <1>0, <1>2, <1>4 DEF CommandStep, server, Inv, ConnType, ConnInv, done
<1> QED BY <1>5, <1>6 DEF CommandStep, Inv

\* Steps of the server that no connection sees, but for the end of its context.
LEMMA ServerInv ==
    ASSUME Inv, AcceptEnds \/ Leave \/ CloseServer \/ UNCHANGED vars
    PROVE  Inv'
<1>1. TypeOK' BY DEF AcceptEnds, Leave, CloseServer, vars, server, Inv, TypeOK
<1>2. ASSUME NEW d \in Conns PROVE ConnInv(d)'
  BY DEF AcceptEnds, Leave, CloseServer, vars, server, Inv, TypeOK, ConnInv, done
<1> QED BY <1>1, <1>2 DEF AcceptEnds, Leave, CloseServer, vars, server, Inv

LEMMA NextInv == Inv /\ [Next]_vars => Inv'
<1> SUFFICES ASSUME Inv, [Next]_vars PROVE Inv' OBVIOUS
<1>1. CASE ServerSteps BY <1>1, ServerInv, ServerOnConn DEF ServerSteps
<1>2. CASE PathSteps BY <1>2, PathInv DEF PathSteps
<1>3. ASSUME NEW c \in Conns, RunSteps(c) \/ CommandStep(c) PROVE Inv'
  BY <1>3, RunInv, CommandInv DEF RunSteps
<1>4. ASSUME NEW c \in Conns, InnerSteps(c) PROVE Inv'
  BY <1>4, MovesInv, ReadInv, AnnounceInv, RecordInv, PublisherRemoveInv
  DEF InnerSteps
<1>5. ASSUME NEW c \in Conns, PeerSteps(c) \/ FrameSteps(c) PROVE Inv'
  BY <1>5, MovesInv, PublishFailsInv DEF PeerSteps, FrameSteps
<1>6. CASE Finished \/ UNCHANGED vars BY <1>6, ServerInv DEF Finished
<1> QED BY <1>1, <1>2, <1>3, <1>4, <1>5, <1>6 DEF Next

\* In every state each connection holds what its place says, for any number of
\* connections, with or without a command.
THEOREM RTMPInvariant == Spec => []Inv
  BY InitInv, NextInv, PTL DEF Spec

\* The types of the server, the connections and the path.
THEOREM RTMPTypeCorrect == Spec => []TypeOK
<1>1. Inv => TypeOK BY DEF Inv
<1> QED BY <1>1, RTMPInvariant, PTL

\* A connection that has ended is known neither to the path nor to the server,
\* and its RTCP senders and its command have ended before it (the deferred
\* calls of rtmp_conn.go on every way out).
THEOREM RTMPNothingLeftBehind == Spec => []NothingLeftBehind
<1>1. Inv => NothingLeftBehind
  BY DEF Inv, ConnInv, NothingLeftBehind, done, Cmd!done, Cmd!process
<1> QED BY <1>1, RTMPInvariant, PTL

\* A connection that plays or publishes is in the list of the server with the
\* matching state, unless it is on its way out, and the frames of the path find
\* its buffer (rtmp_server.go apiRTMPConnsList, rtmp_conn.go OnReaderFrame).
THEOREM RTMPWorkersAreListed == Spec => []WorkersAreListed
<1>1. Inv => WorkersAreListed
  <2> SUFFICES ASSUME Inv, NEW c \in Conns
               PROVE  /\ pa.readers[c] = "play" => conn[c].ring
                      /\ (conn[c].pc \notin {"none", "ended"} /\ ~done(c)) =>
                          /\ c \in conns
                          /\ pa.readers[c] = "play" => apiRTMPConnsList[c] = "read"
                          /\ (pa.source = c /\ pa.ready) => apiRTMPConnsList[c] = "publish"
    BY DEF WorkersAreListed
  <2>1. c \in conns => apiRTMPConnsList[c] = conn[c].state BY DEF apiRTMPConnsList
  <2>2. conn[c].pc \in {"none", "run", "close", "command", "ended"}
    BY DEF Inv, TypeOK, ConnType
  <2> QED BY <2>1, <2>2 DEF Inv, ConnInv, done
<1> QED BY <1>1, RTMPInvariant, PTL

=============================================================================
