----------------------------- MODULE RTSPProofs -----------------------------
(***************************************************************************)
(* Proofs of the safety of the RTSP sessions, for any number of sessions   *)
(* and of API requests that kick them.                                     *)
(***************************************************************************)
EXTENDS RTSP, TLAPS

Ending == {"onClose", "remove", "gone"}
Publishing == {"prePublish", "publish"}

\* What a session that no kick has found holds, by the place its goroutine has
\* reached, by the state of the library, and by what the path did to it.
OwnInv(s) ==
    /\ se[s].pc \notin Ending \cup {"none"} => s \in sessions
    /\ se[s].pc \in {"none", "announced"} => se[s].ss = "initial"
    /\ se[s].pc \in {"held", "setUp"} => se[s].ss \in {"initial", "preRead"}
    /\ se[s].pc = "played" => se[s].ss = "preRead"
    /\ se[s].pc = "pause" => se[s].ss = "read"
    /\ se[s].ss = "read" => se[s].pc \in Ending \cup {"idle", "pause"}
    /\ se[s].ss # "initial" /\ se[s].pc # "gone" => se[s].path # NilPath
    /\ se[s].pc \in {"setUp", "announced"} => se[s].res # NilPath
    /\ se[s].badTrack => se[s].pc \in Ending \cup {"error"}
    /\ se[s].onReadCmd = "running" <=>
        se[s].ss = "read" /\ se[s].pc \in {"idle", "onClose"} /\ runOnRead[se[s].path]
    /\ pa.readers[s] # "none" /\ ~se[s].badTrack =>
        /\ se[s].pc # "gone"
        /\ IF se[s].pc = "setUp" THEN se[s].res = gen
             ELSE se[s].ss \in {"preRead", "read"} /\ se[s].path = gen
    /\ pa.source = s =>
        /\ se[s].pc # "gone"
        /\ \/ se[s].pc = "announced" /\ se[s].res = gen
           \/ se[s].ss \in Publishing /\ se[s].path = gen
        /\ pa.ready <=> se[s].ss = "publish"
    /\ ~se[s].closed =>
        /\ se[s].pc = "setUp" \/ (se[s].pc = "idle" /\ se[s].ss = "preRead") =>
            pa.readers[s] = "prePlay"
        /\ se[s].pc \in {"played", "pause"} \/ (se[s].pc = "idle" /\ se[s].ss = "read") =>
            pa.readers[s] = "play"
        /\ se[s].pc = "announced" \/ (se[s].pc = "idle" /\ se[s].ss \in Publishing) =>
            pa.source = s

\* What every session holds.
SessionInv(s) ==
    /\ s \in sessions => se[s].pc \notin Ending \cup {"none"}
    /\ se[s].kicked => se[s].closed
    /\ se[s].state = se[s].ss
    /\ se[s].pc \notin Ending \cup {"authPause", "error"} => se[s].authFailures <= 3
    /\ ~se[s].kicked => OwnInv(s)

\* What holds of the path alone.
ViewInv ==
    /\ pa.ready => pa.source # Nil
    /\ ~pa.open => pa.source = Nil /\ \A s \in Sessions : pa.readers[s] = "none"

\* An API request works on a session that it has marked.
KickInv == \A k \in Kickers : kick[k].pc # "idle" =>
                kick[k].target \in Sessions /\ se[kick[k].target].kicked

Inv ==
    /\ TypeOK
    /\ ViewInv
    /\ KickInv
    /\ HandlersDontPanic
    /\ \A s \in Sessions : SessionInv(s)

USE OtherSourceAssumption, NilAssumption DEF Nil, path

LEMMA NilIsNoPath == NilPath \notin Paths BY DEF NilPath, Paths
LEMMA FirstPath == 1 \in Paths BY MaxPathsAssumption DEF Paths

LEMMA InitInv == Init => Inv
<1> SUFFICES ASSUME Init PROVE Inv OBVIOUS
<1> USE DEF Init, Unopened, NewPath, NoKick
<1>0. PICK d \in BOOLEAN : pa = NewPath(d) OBVIOUS
<1>1. TypeOK BY <1>0, FirstPath DEF TypeOK, SessionType, PathType, KickType
<1>2. \A s \in Sessions : SessionInv(s) BY <1>0 DEF SessionInv, OwnInv, Ending, Publishing
<1>3. ViewInv /\ KickInv /\ HandlersDontPanic BY <1>0 DEF ViewInv, KickInv, HandlersDontPanic
<1> QED BY <1>1, <1>2, <1>3 DEF Inv

\* No step forgets that a session was kicked: the API requests keep theirs.
LEMMA KicksKept ==
    ASSUME Inv, Alive, \A t \in Sessions : se[t].kicked => se'[t].kicked,
           UNCHANGED <<kick, panicked>>
    PROVE  KickInv' /\ HandlersDontPanic'
  BY DEF Inv, KickInv, HandlersDontPanic, Alive

\* Two records of a session that differ at most in pc, res and closed.
Same(x, y) ==
    /\ x.ss = y.ss /\ x.state = y.state /\ x.path = y.path
    /\ x.onReadCmd = y.onReadCmd /\ x.authFailures = y.authFailures
    /\ x.kicked = y.kicked /\ x.badTrack = y.badTrack

\* The answer that t has been set up has come.
Answered(t) == se'[t].pc = "setUp" /\ se'[t].res = gen

\* A session that does not act itself: it is left alone, or dropped by the path
\* and then closed, or the answer to its request has come.
LEMMA Others ==
    ASSUME Inv, NEW t \in Sessions, UNCHANGED <<gen, runOnRead>>,
           Same(se'[t], se[t]), se[t].closed => se'[t].closed,
           t \in sessions' <=> t \in sessions,
           \/ se'[t].pc = se[t].pc /\ se'[t].res = se[t].res
           \/ se[t].pc = "held" /\ se'[t].pc = "error"
           \/ se[t].pc = "held" /\ Answered(t) /\ pa'.readers[t] = "prePlay",
           \/ pa'.readers[t] = pa.readers[t]
           \/ pa'.readers[t] = "none" /\ (pa.readers[t] # "none" => se'[t].closed)
           \/ Answered(t) /\ pa'.readers[t] = "prePlay",
           pa.source = t => pa'.source = t \/ se'[t].closed,
           pa'.source = t => pa.source = t /\ pa'.ready = pa.ready
    PROVE  SessionInv(t)'
<1>1. SessionInv(t) /\ gen # NilPath BY NilIsNoPath DEF Inv, TypeOK
<1>2. CASE se'[t].pc = se[t].pc /\ se'[t].res = se[t].res
  BY <1>1, <1>2 DEF SessionInv, OwnInv, Same, Answered, Ending, Publishing
<1>3. CASE se[t].pc = "held" BY <1>1, <1>3 DEF SessionInv, OwnInv, Same, Answered, Ending, Publishing
<1> QED BY <1>2, <1>3

\* A step of one session that leaves the places of the others at the path.
LEMMA OneSession ==
    ASSUME Inv, Alive, NEW s \in Sessions, NEW x \in SessionType,
           se' = [se EXCEPT ![s] = x], se[s].kicked => x.kicked,
           UNCHANGED <<kick, ctxDone, gen, runOnRead, mix, panicked>>,
           sessions' \subseteq Sessions,
           \A t \in Sessions \ {s} : t \in sessions' <=> t \in sessions,
           pa' \in PathType, ViewInv', pa'.ready = pa.ready, pa'.source = pa.source,
           \A t \in Sessions \ {s} : pa'.readers[t] = pa.readers[t],
           SessionInv(s)'
    PROVE  Inv'
<1>0. se \in [Sessions -> SessionType] BY DEF Inv, TypeOK
<1>1. TypeOK' BY <1>0 DEF Inv, TypeOK
<1>2. se'[s] = x /\ \A t \in Sessions \ {s} : se'[t] = se[t] BY <1>0
<1>3. KickInv' /\ HandlersDontPanic' BY <1>2, KicksKept
<1>4. ASSUME NEW t \in Sessions \ {s} PROVE SessionInv(t)'
  <2>1. Same(se'[t], se[t]) /\ se'[t] = se[t] BY <1>2 DEF Same
  <2> QED BY <2>1, Others
<1> QED BY <1>1, <1>3, <1>4 DEF Inv

\* A panic changes nothing else, and the session is one that was kicked or
\* keeps an old command.
LEMMA PanicInv ==
    ASSUME Inv, Panic, Kicked \/ \E s \in Sessions : KeepsOldCmd(s)
    PROVE  Inv'
<1>1. TypeOK' BY DEF Panic, Inv, TypeOK
<1>2. ViewInv' /\ KickInv' /\ HandlersDontPanic'
  BY DEF Panic, Inv, ViewInv, KickInv, HandlersDontPanic, Kicked, KeepsOldCmd
<1>3. ASSUME NEW t \in Sessions PROVE SessionInv(t)'
  BY DEF Panic, Inv, SessionInv, OwnInv
<1> QED BY <1>1, <1>2, <1>3 DEF Inv

\* A session whose credentials were accepted, or not asked for.
LEMMA LoginFacts ==
    ASSUME NEW y \in SessionType, NEW o \in loggedIn(y)
    PROVE  /\ o \in SessionType /\ Same([o EXCEPT !.authFailures = y.authFailures], y)
           /\ o.closed = y.closed /\ o.pc = y.pc /\ o.res = y.res
           /\ o.authFailures <= y.authFailures
  BY DEF loggedIn, SessionType, Same

\* z is y with the path of its answer.
Given(z, y) ==
    /\ z.path = y.res /\ z.pc = y.pc /\ z.ss = y.ss /\ z.state = y.state
    /\ z.closed = y.closed /\ z.onReadCmd = y.onReadCmd
    /\ z.authFailures = y.authFailures /\ z.kicked = y.kicked /\ z.badTrack = y.badTrack

LEMMA GivenFacts ==
    ASSUME NEW y \in SessionType
    PROVE  givenPath(y) \in SessionType /\ Given(givenPath(y), y)
  BY DEF givenPath, Given, SessionType

\* x is z at pc p, in the state st.
MovedTo(x, z, p, st) ==
    /\ x.pc = p /\ x.ss = st /\ x.state = st /\ x.path = z.path
    /\ x.closed = z.closed /\ x.onReadCmd = z.onReadCmd
    /\ x.authFailures = z.authFailures /\ x.kicked = z.kicked /\ x.badTrack = z.badTrack

LEMMA MovedFacts ==
    ASSUME NEW z \in SessionType, NEW st \in {"preRead", "prePublish"}
    PROVE  LET x == [z EXCEPT !.pc = "idle", !.state = st, !.ss = st]
           IN x \in SessionType /\ MovedTo(x, z, "idle", st)
  BY DEF SessionType, MovedTo

\* Steps of the goroutine of a session that the path takes no part in.
LEMMA OwnSteps ==
    ASSUME Inv, Alive, NEW s \in Sessions,
           \/ OnSessionOpen(s) \/ OnSessionClose(s) \/ LoginFails(s)
           \/ AuthPauseEnds(s) \/ Refused(s) \/ SetUp(s) \/ SetUpBadTrack(s)
           \/ Announced(s)
    PROVE  Inv'
<1>0. /\ se \in [Sessions -> SessionType] /\ se[s] \in SessionType /\ SessionInv(s)
      /\ pa \in PathType /\ ViewInv /\ sessions \subseteq Sessions
  BY DEF Inv, TypeOK
<1>v. pa' = pa => pa' \in PathType /\ ViewInv' BY <1>0 DEF ViewInv
<1> USE DEF Takes
<1>1. ASSUME OnSessionOpen(s) PROVE Inv'
  <2> DEFINE x == [se[s] EXCEPT !.pc = "idle"]
  <2>1. x \in SessionType BY <1>0 DEF SessionType
  <2>2. /\ se' = [se EXCEPT ![s] = x] /\ UNCHANGED <<kick, ctxDone, path, panicked>>
        /\ sessions' \subseteq Sessions
        /\ \A t \in Sessions \ {s} : t \in sessions' <=> t \in sessions
    BY <1>0, <1>1 DEF OnSessionOpen
  <2>3. SessionInv(s)'
    BY <1>0, <1>1, <2>2 DEF OnSessionOpen, SessionInv, OwnInv, SessionType, Ending, Publishing
  <2>4. se[s].kicked => x.kicked BY <1>0 DEF SessionType
  <2> HIDE DEF x
  <2> QED BY <1>v, <2>1, <2>2, <2>3, <2>4, OneSession
<1>2. ASSUME OnSessionClose(s) PROVE Inv'
  <2> DEFINE x == [se[s] EXCEPT !.pc = IF s \in sessions THEN "onClose" ELSE "gone"]
  <2>1. x \in SessionType BY <1>0 DEF SessionType
  <2>2. /\ se' = [se EXCEPT ![s] = x] /\ UNCHANGED <<kick, ctxDone, path, panicked>>
        /\ sessions' \subseteq Sessions
        /\ \A t \in Sessions \ {s} : t \in sessions' <=> t \in sessions
    BY <1>0, <1>2 DEF OnSessionClose
  <2>3. SessionInv(s)'
    BY <1>0, <1>2, <2>2 DEF OnSessionClose, SessionInv, OwnInv, SessionType, Ending, Publishing
  <2>4. se[s].kicked => x.kicked BY <1>0 DEF SessionType
  <2> HIDE DEF x
  <2> QED BY <1>v, <2>1, <2>2, <2>3, <2>4, OneSession
<1>3. ASSUME LoginFails(s) PROVE Inv'
  <2> DEFINE n == se[s].authFailures + 1
             x == [se[s] EXCEPT !.authFailures = n, !.pc = IF n > 3 THEN "authPause" ELSE "idle"]
  <2>a. n \in Nat BY <1>0 DEF SessionType
  <2>1. x \in SessionType
    <3> HIDE DEF n
    <3> QED BY <1>0, <2>a DEF SessionType
  <2>2. /\ se' = [se EXCEPT ![s] = x] /\ UNCHANGED <<kick, ctxDone, path, panicked>>
        /\ sessions' \subseteq Sessions
        /\ \A t \in Sessions \ {s} : t \in sessions' <=> t \in sessions
    BY <1>0, <1>3 DEF LoginFails
  <2>3. SessionInv(s)'
    BY <1>0, <1>3, <2>2 DEF LoginFails, SessionInv, OwnInv, SessionType, Ending, Publishing
  <2>4. se[s].kicked => x.kicked BY <1>0 DEF SessionType
  <2> HIDE DEF x
  <2> QED BY <1>v, <2>1, <2>2, <2>3, <2>4, OneSession
<1>4. ASSUME AuthPauseEnds(s) PROVE Inv'
  <2> DEFINE x == [se[s] EXCEPT !.pc = "error"]
  <2>1. x \in SessionType BY <1>0 DEF SessionType
  <2>2. /\ se' = [se EXCEPT ![s] = x] /\ UNCHANGED <<kick, ctxDone, path, panicked>>
        /\ sessions' \subseteq Sessions
        /\ \A t \in Sessions \ {s} : t \in sessions' <=> t \in sessions
    BY <1>0, <1>4 DEF AuthPauseEnds
  <2>3. SessionInv(s)'
    BY <1>0, <1>4, <2>2 DEF AuthPauseEnds, SessionInv, OwnInv, SessionType, Ending, Publishing
  <2>4. se[s].kicked => x.kicked BY <1>0 DEF SessionType
  <2> HIDE DEF x
  <2> QED BY <1>v, <2>1, <2>2, <2>3, <2>4, OneSession
<1>5. ASSUME Refused(s) PROVE Inv'
  <2>0. PICK o \in loggedIn(se[s]) : se' = [se EXCEPT ![s] = [o EXCEPT !.pc = "error"]]
    BY <1>5 DEF Refused
  <2>o. o \in SessionType /\ Same([o EXCEPT !.authFailures = se[s].authFailures], se[s])
        /\ o.closed = se[s].closed /\ o.authFailures <= se[s].authFailures
    BY <1>0, <2>0, LoginFacts
  <2> DEFINE x == [o EXCEPT !.pc = "error"]
  <2>1. x \in SessionType BY <2>o DEF SessionType
  <2>2. /\ se' = [se EXCEPT ![s] = x] /\ UNCHANGED <<kick, ctxDone, path, panicked>>
        /\ sessions' \subseteq Sessions
        /\ \A t \in Sessions \ {s} : t \in sessions' <=> t \in sessions
    BY <1>0, <1>5, <2>0 DEF Refused
  <2>3. SessionInv(s)'
    BY <1>0, <1>5, <2>2, <2>o DEF Refused, SessionInv, OwnInv, SessionType, Same, Ending, Publishing
  <2>4. se[s].kicked => x.kicked BY <2>o DEF SessionType, Same
  <2> HIDE DEF x
  <2> QED BY <1>v, <2>1, <2>2, <2>3, <2>4, OneSession
<1>6. ASSUME SetUp(s) PROVE Inv'
  <2> DEFINE y == givenPath(se[s])
             x == [y EXCEPT !.pc = "idle", !.state = "preRead", !.ss = "preRead"]
  <2>y. y \in SessionType /\ Given(y, se[s]) BY <1>0, GivenFacts
  <2>2. /\ se' = [se EXCEPT ![s] = x] /\ UNCHANGED <<sessions, kick, ctxDone, path, panicked>>
        /\ se[s].pc = "setUp"
    BY <1>0, <1>6 DEF SetUp
  <2> HIDE DEF y
  <2>1. /\ x \in SessionType /\ x.pc = "idle" /\ x.path = se[s].res
        /\ x.onReadCmd = se[s].onReadCmd /\ x.authFailures = se[s].authFailures
        /\ x.kicked = se[s].kicked /\ x.closed = se[s].closed
        /\ x.ss = "preRead" /\ x.state = "preRead" /\ x.badTrack = se[s].badTrack
    <3>1. x \in SessionType /\ MovedTo(x, y, "idle", "preRead") BY <2>y, MovedFacts
    <3> HIDE DEF x
    <3> QED BY <2>y, <3>1 DEF Given, MovedTo
  <2> HIDE DEF x
  <2>3. SessionInv(s)'
    <3>1. se'[s] = x BY <1>0, <2>2
    <3> QED BY <1>0, <2>1, <2>2, <3>1 DEF SessionInv, OwnInv, Ending, Publishing
  <2> QED BY <1>0, <1>v, <2>1, <2>2, <2>3, OneSession
<1>7. ASSUME SetUpBadTrack(s) PROVE Inv'
  <2> DEFINE y == givenPath(se[s])
             x == [y EXCEPT !.pc = "error", !.badTrack = se[s].badTrack \/ se[s].ss = "initial"]
  <2>y. y \in SessionType /\ Given(y, se[s]) BY <1>0, GivenFacts
  <2>2. /\ se' = [se EXCEPT ![s] = x] /\ UNCHANGED <<sessions, kick, ctxDone, path, panicked>>
        /\ se[s].pc = "setUp"
    BY <1>0, <1>7 DEF SetUpBadTrack
  <2> HIDE DEF y
  <2>1. /\ x \in SessionType /\ x.pc = "error" /\ x.path = se[s].res
        /\ x.onReadCmd = se[s].onReadCmd /\ x.authFailures = se[s].authFailures
        /\ x.kicked = se[s].kicked /\ x.closed = se[s].closed
        /\ x.ss = se[s].ss /\ x.state = se[s].state
        /\ x.badTrack = (se[s].badTrack \/ se[s].ss = "initial")
    <3> DEFINE b == se[s].badTrack \/ se[s].ss = "initial"
    <3>1. b \in BOOLEAN OBVIOUS
    <3> HIDE DEF b
    <3>2. /\ x \in SessionType /\ x.pc = "error" /\ x.path = y.path
          /\ x.onReadCmd = y.onReadCmd /\ x.authFailures = y.authFailures
          /\ x.kicked = y.kicked /\ x.closed = y.closed
          /\ x.ss = y.ss /\ x.state = y.state /\ x.badTrack = b
      <4>1. x = [y EXCEPT !.pc = "error", !.badTrack = b] BY DEF b
      <4> HIDE DEF x
      <4> QED BY <2>y, <3>1, <4>1 DEF SessionType
    <3> HIDE DEF x
    <3> QED BY <2>y, <3>2 DEF Given, b
  <2> HIDE DEF x
  <2>3. SessionInv(s)'
    <3>1. se'[s] = x BY <1>0, <2>2
    <3> QED BY <1>0, <2>1, <2>2, <3>1 DEF SessionInv, OwnInv, Ending, Publishing
  <2> QED BY <1>0, <1>v, <2>1, <2>2, <2>3, OneSession
<1>8. ASSUME Announced(s) PROVE Inv'
  <2> DEFINE y == givenPath(se[s])
             x == [y EXCEPT !.pc = "idle", !.state = "prePublish", !.ss = "prePublish"]
  <2>y. y \in SessionType /\ Given(y, se[s]) BY <1>0, GivenFacts
  <2>2. /\ se' = [se EXCEPT ![s] = x] /\ UNCHANGED <<sessions, kick, ctxDone, path, panicked>>
        /\ se[s].pc = "announced"
    BY <1>0, <1>8 DEF Announced
  <2> HIDE DEF y
  <2>1. /\ x \in SessionType /\ x.pc = "idle" /\ x.path = se[s].res
        /\ x.onReadCmd = se[s].onReadCmd /\ x.authFailures = se[s].authFailures
        /\ x.kicked = se[s].kicked /\ x.closed = se[s].closed
        /\ x.ss = "prePublish" /\ x.state = "prePublish" /\ x.badTrack = se[s].badTrack
    <3>1. x \in SessionType /\ MovedTo(x, y, "idle", "prePublish") BY <2>y, MovedFacts
    <3> HIDE DEF x
    <3> QED BY <2>y, <3>1 DEF Given, MovedTo
  <2> HIDE DEF x
  <2>3. SessionInv(s)'
    <3>1. se'[s] = x BY <1>0, <2>2
    <3> QED BY <1>0, <2>1, <2>2, <3>1 DEF SessionInv, OwnInv, Ending, Publishing
  <2> QED BY <1>0, <1>v, <2>1, <2>2, <2>3, OneSession
<1> QED BY <1>1, <1>2, <1>3, <1>4, <1>5, <1>6, <1>7, <1>8

\* What the path does when a reader comes or goes.
LEMMA ReaderAdded ==
    ASSUME NEW p \in PathType, NEW s \in Sessions, NEW q, q = handleReaderSetupPlayPost(p, s)
    PROVE  /\ q \in PathType /\ q.readers[s] = "prePlay"
           /\ q.ready = p.ready /\ q.source = p.source /\ q.open = p.open
           /\ \A t \in Sessions \ {s} : q.readers[t] = p.readers[t]
  BY DEF handleReaderSetupPlayPost, PathType

LEMMA ReaderRemoved ==
    ASSUME NEW p \in PathType, NEW s \in Sessions, NEW q, q = handleReaderRemove(p, s)
    PROVE  /\ q \in PathType /\ q.readers[s] = "none"
           /\ q.ready = p.ready /\ q.source = p.source /\ q.open = p.open
           /\ \A t \in Sessions \ {s} : q.readers[t] = p.readers[t]
<1> DEFINE b == p.onDemand /\ p.ready /\ (p.closeTimer \/ registered(p) \subseteq {s})
           r == [p.readers EXCEPT ![s] = "none"]
<1>1. b \in BOOLEAN OBVIOUS
<1>2. /\ r \in [Sessions -> {"none", "prePlay", "play"}] /\ r[s] = "none"
      /\ \A t \in Sessions \ {s} : r[t] = p.readers[t]
  BY DEF PathType
<1>3. q = [p EXCEPT !.readers = r, !.closeTimer = b] BY DEF handleReaderRemove
<1> HIDE DEF b, r
<1>4. /\ q \in PathType /\ q.readers = r
      /\ q.ready = p.ready /\ q.source = p.source /\ q.open = p.open
  BY <1>1, <1>2, <1>3 DEF PathType
<1> QED BY <1>2, <1>4

\* Steps that tell the path that one session reads, plays or pauses.
LEMMA ReaderSteps ==
    ASSUME Inv, Alive, NEW s \in Sessions,
           OnSetup(s) \/ OnPlay(s) \/ Played(s) \/ OnPause(s) \/ Paused(s)
    PROVE  Inv'
<1>0. /\ se \in [Sessions -> SessionType] /\ se[s] \in SessionType /\ SessionInv(s)
      /\ pa \in PathType /\ ViewInv /\ sessions \subseteq Sessions
  BY DEF Inv, TypeOK
<1>v. pa' = pa => pa' \in PathType /\ ViewInv' BY <1>0 DEF ViewInv
<1> USE DEF Takes
<1>1. ASSUME OnSetup(s) PROVE Inv'
  <2>0. PICK o \in loggedIn(se[s]) :
          \/ /\ pa.ready /\ pa' = handleReaderSetupPlayPost(pa, s)
             /\ se' = [se EXCEPT ![s] = [o EXCEPT !.pc = "setUp", !.res = gen]]
          \/ /\ ~pa.ready /\ UNCHANGED pa
             /\ se' = [se EXCEPT ![s] = [o EXCEPT !.pc = "held"]]
    BY <1>1 DEF OnSetup
  <2>o. /\ o \in SessionType /\ Same([o EXCEPT !.authFailures = se[s].authFailures], se[s])
        /\ o.closed = se[s].closed /\ o.res = se[s].res /\ o.authFailures <= se[s].authFailures
    BY <1>0, <2>0, LoginFacts
  <2>g. gen \in Paths /\ gen # NilPath BY NilIsNoPath DEF Inv, TypeOK
  <2> DEFINE x == IF pa.ready THEN [o EXCEPT !.pc = "setUp", !.res = gen]
                              ELSE [o EXCEPT !.pc = "held"]
  <2>1. /\ x \in SessionType /\ x.kicked = se[s].kicked /\ x.closed = se[s].closed
        /\ x.ss = se[s].ss /\ x.state = se[s].state /\ x.path = se[s].path
        /\ x.onReadCmd = se[s].onReadCmd /\ x.badTrack = se[s].badTrack
        /\ x.authFailures <= se[s].authFailures
        /\ pa.ready => x.pc = "setUp" /\ x.res = gen
        /\ ~pa.ready => x.pc = "held"
    BY <2>o, <2>g DEF SessionType, Same
  <2>2. se' = [se EXCEPT ![s] = x] /\ UNCHANGED <<sessions, kick, ctxDone, gen, runOnRead, mix, panicked>>
    BY <1>1, <2>0 DEF OnSetup
  <2>a. se[s].pc = "idle" /\ se[s].ss \in {"initial", "preRead"} /\ s \in sessions /\ pa.open
    BY <1>1 DEF OnSetup
  <2> HIDE DEF x
  <2>3. /\ pa' \in PathType /\ pa'.ready = pa.ready /\ pa'.source = pa.source /\ pa'.open = pa.open
        /\ pa'.readers[s] = IF pa.ready THEN "prePlay" ELSE pa.readers[s]
        /\ \A t \in Sessions \ {s} : pa'.readers[t] = pa.readers[t]
    <3>1. CASE pa.ready
      <4>1. pa' = handleReaderSetupPlayPost(pa, s) BY <2>0, <3>1
      <4>3. /\ pa' \in PathType /\ pa'.readers[s] = "prePlay"
            /\ pa'.ready = pa.ready /\ pa'.source = pa.source /\ pa'.open = pa.open
            /\ \A t \in Sessions \ {s} : pa'.readers[t] = pa.readers[t]
        BY <1>0, <4>1, ReaderAdded
      <4> QED BY <3>1, <4>3
    <3>2. CASE ~pa.ready BY <1>0, <2>0, <3>2
    <3> QED BY <3>1, <3>2
  <2>4. ViewInv' BY <1>0, <2>3, <2>a DEF ViewInv
  <2>5. SessionInv(s)'
    <3>1. se'[s] = x BY <1>0, <2>2
    <3>2. x.authFailures <= 3
      <4>1. se[s].authFailures \in Nat /\ x.authFailures \in Nat BY <1>0, <2>1 DEF SessionType
      <4>2. se[s].authFailures <= 3 BY <1>0, <2>a DEF SessionInv, Ending
      <4> QED BY <2>1, <4>1, <4>2
    <3> QED BY <1>0, <2>1, <2>2, <2>3, <2>a, <2>g, <3>1, <3>2
      DEF SessionInv, OwnInv, Ending, Publishing
  <2>6. se[s].kicked => x.kicked BY <2>1
  <2> HIDE DEF x
  <2> QED BY <1>0, <1>v, <2>1, <2>2, <2>3, <2>4, <2>5, <2>6, OneSession
<1>2. ASSUME OnPlay(s), se[s].path # NilPath PROVE Inv'
  <2> DEFINE x == [se[s] EXCEPT !.pc = "played"]
  <2>1. x \in SessionType BY <1>0 DEF SessionType
  <2>2. se' = [se EXCEPT ![s] = x] /\ UNCHANGED <<sessions, kick, ctxDone, gen, runOnRead, mix, panicked>>
    BY <1>0, <1>2 DEF OnPlay
  <2>3. /\ pa' \in PathType /\ pa'.ready = pa.ready /\ pa'.source = pa.source
        /\ \A t \in Sessions \ {s} : pa'.readers[t] = pa.readers[t]
    BY <1>0, <1>2 DEF OnPlay, handleReaderPlay, PathType
  <2>4. ViewInv' BY <1>0, <1>2 DEF OnPlay, listens, handleReaderPlay, PathType, ViewInv
  <2>5. SessionInv(s)'
    BY <1>0, <1>2, <2>2, <2>3 DEF OnPlay, listens, handleReaderPlay, SessionInv, OwnInv, ViewInv, SessionType,
       PathType, Ending, Publishing
  <2>6. se[s].kicked => x.kicked BY <1>0 DEF SessionType
  <2> HIDE DEF x
  <2> QED BY <1>0, <1>v, <2>1, <2>2, <2>3, <2>4, <2>5, <2>6, OneSession
<1>3. ASSUME Played(s), se[s].path # NilPath PROVE Inv'
  <2> DEFINE x == [se[s] EXCEPT !.pc = "idle", 
                            !.onReadCmd = IF runOnRead[se[s].path] THEN "running" ELSE @,
                            !.state = "read", !.ss = "read"]
  <2>1. x \in SessionType BY <1>0 DEF SessionType
  <2>2. se' = [se EXCEPT ![s] = x] /\ UNCHANGED <<sessions, kick, ctxDone, gen, runOnRead, mix, panicked>>
    BY <1>0, <1>3 DEF Played
  <2>3. UNCHANGED pa BY <1>3 DEF Played
  <2>5. SessionInv(s)'
    BY <1>0, <1>3, <2>2, <2>3 DEF Played, SessionInv, OwnInv, ViewInv, SessionType,
       PathType, Ending, Publishing
  <2>6. se[s].kicked => x.kicked BY <1>0 DEF SessionType
  <2> HIDE DEF x
  <2> QED BY <1>0, <1>v, <2>1, <2>2, <2>3, <2>5, <2>6, OneSession
<1>4. ASSUME OnPause(s), se[s].onReadCmd # "closed" PROVE Inv'
  <2> DEFINE x == [pauseCmd(se[s]) EXCEPT !.pc = "pause"]
  <2>1. x \in SessionType BY <1>0 DEF SessionType, pauseCmd
  <2>2. se' = [se EXCEPT ![s] = x] /\ UNCHANGED <<sessions, kick, ctxDone, gen, runOnRead, mix, panicked>>
    BY <1>0, <1>4 DEF OnPause, pauseCmd
  <2>3. UNCHANGED pa BY <1>4 DEF OnPause
  <2>5. SessionInv(s)'
    BY <1>0, <1>4, <2>2, <2>3 DEF OnPause, SessionInv, OwnInv, ViewInv, SessionType,
       PathType, Ending, Publishing, pauseCmd
  <2>6. se[s].kicked => x.kicked BY <1>0 DEF SessionType, pauseCmd
  <2> HIDE DEF x
  <2> QED BY <1>0, <1>v, <2>1, <2>2, <2>3, <2>5, <2>6, OneSession
<1>5. ASSUME Paused(s), se[s].path # NilPath PROVE Inv'
  <2> DEFINE x == [se[s] EXCEPT !.pc = "idle", !.state = "preRead", !.ss = "preRead"]
  <2>1. x \in SessionType BY <1>0 DEF SessionType
  <2>2. se' = [se EXCEPT ![s] = x] /\ UNCHANGED <<sessions, kick, ctxDone, gen, runOnRead, mix, panicked>>
    BY <1>0, <1>5 DEF Paused
  <2>3. /\ pa' \in PathType /\ pa'.ready = pa.ready /\ pa'.source = pa.source
        /\ \A t \in Sessions \ {s} : pa'.readers[t] = pa.readers[t]
    BY <1>0, <1>5 DEF Paused, handleReaderPause, PathType
  <2>4. ViewInv' BY <1>0, <1>5 DEF Paused, handleReaderPause, PathType, ViewInv
  <2>5. SessionInv(s)'
    BY <1>0, <1>5, <2>2, <2>3 DEF Paused, listens, handleReaderPause, SessionInv, OwnInv, ViewInv, SessionType,
       PathType, Ending, Publishing
  <2>6. se[s].kicked => x.kicked BY <1>0 DEF SessionType
  <2> HIDE DEF x
  <2> QED BY <1>0, <1>v, <2>1, <2>2, <2>3, <2>4, <2>5, <2>6, OneSession
<1>6. se[s].kicked => Kicked BY DEF Kicked
<1>7. CASE OnPlay(s) /\ se[s].path = NilPath
  BY <1>0, <1>6, <1>7, PanicInv DEF OnPlay, SessionInv, OwnInv
<1>8. CASE Played(s) /\ se[s].path = NilPath
  BY <1>0, <1>6, <1>8, PanicInv DEF Played, SessionInv, OwnInv
<1>9. CASE OnPause(s) /\ se[s].onReadCmd = "closed"
  <2>1. ~se[s].kicked => KeepsOldCmd(s) BY <1>0, <1>9 DEF OnPause, SessionInv, OwnInv, KeepsOldCmd
  <2>2. Panic BY <1>9 DEF OnPause
  <2> QED BY <1>6, <2>1, <2>2, PanicInv
<1>10. CASE Paused(s) /\ se[s].path = NilPath
  BY <1>0, <1>6, <1>10, PanicInv DEF Paused, SessionInv, OwnInv
<1> QED BY <1>1, <1>2, <1>3, <1>4, <1>5, <1>7, <1>8, <1>9, <1>10

\* Who is closed is marked so; who is answered goes on.
LEMMA ClosingFacts ==
    ASSUME NEW f \in [Sessions -> SessionType], NEW ss
    PROVE  /\ closing(ss, f) \in [Sessions -> SessionType]
           /\ \A d \in Sessions : /\ Same(closing(ss, f)[d], f[d])
                                  /\ closing(ss, f)[d].pc = f[d].pc /\ closing(ss, f)[d].res = f[d].res
                                  /\ f[d].closed => closing(ss, f)[d].closed
                                  /\ d \in ss => closing(ss, f)[d].closed
<1>1. \A x \in SessionType : /\ [x EXCEPT !.closed = TRUE] \in SessionType
                             /\ Same([x EXCEPT !.closed = TRUE], x)
                             /\ [x EXCEPT !.closed = TRUE].pc = x.pc
                             /\ [x EXCEPT !.closed = TRUE].res = x.res
                             /\ [x EXCEPT !.closed = TRUE].closed
  BY DEF SessionType, Same
<1>2. \A x : Same(x, x) BY DEF Same
<1> QED BY <1>1, <1>2 DEF closing

LEMMA AnsweredFacts ==
    ASSUME NEW f \in [Sessions -> SessionType], gen \in Paths
    PROVE  /\ answered(f, TRUE) \in [Sessions -> SessionType]
           /\ answered(f, FALSE) \in [Sessions -> SessionType]
           /\ \A d \in Sessions :
                /\ Same(answered(f, TRUE)[d], f[d]) /\ Same(answered(f, FALSE)[d], f[d])
                /\ answered(f, TRUE)[d].closed = f[d].closed
                /\ answered(f, FALSE)[d].closed = f[d].closed
                /\ answered(f, TRUE)[d].pc = IF d \in Waiting THEN "setUp" ELSE f[d].pc
                /\ answered(f, TRUE)[d].res = IF d \in Waiting THEN gen ELSE f[d].res
                /\ answered(f, FALSE)[d].pc = IF d \in Waiting THEN "error" ELSE f[d].pc
                /\ d \notin Waiting => answered(f, FALSE)[d].res = f[d].res
<1> DEFINE ok(x) == [x EXCEPT !.pc = "setUp", !.res = gen]
           failed(x) == [x EXCEPT !.pc = "error", !.res = NilPath]
<1>0. ASSUME NEW x \in SessionType
      PROVE  /\ ok(x) \in SessionType /\ Same(ok(x), x)
             /\ ok(x).closed = x.closed /\ ok(x).pc = "setUp" /\ ok(x).res = gen
  BY DEF SessionType, Same
<1>1. ASSUME NEW x \in SessionType
      PROVE  /\ failed(x) \in SessionType /\ Same(failed(x), x)
             /\ failed(x).closed = x.closed /\ failed(x).pc = "error"
  BY DEF SessionType, Same
<1>2. \A x : Same(x, x) BY DEF Same
<1>3. \A d \in Sessions :
        /\ answered(f, TRUE)[d] = IF d \in Waiting THEN ok(f[d]) ELSE f[d]
        /\ answered(f, FALSE)[d] = IF d \in Waiting THEN failed(f[d]) ELSE f[d]
  BY DEF answered
<1>4. ASSUME NEW d \in Sessions, d \in Waiting
      PROVE  /\ answered(f, TRUE)[d] \in SessionType /\ answered(f, FALSE)[d] \in SessionType
             /\ Same(answered(f, TRUE)[d], f[d]) /\ Same(answered(f, FALSE)[d], f[d])
             /\ answered(f, TRUE)[d].closed = f[d].closed /\ answered(f, FALSE)[d].closed = f[d].closed
             /\ answered(f, TRUE)[d].pc = "setUp" /\ answered(f, TRUE)[d].res = gen
             /\ answered(f, FALSE)[d].pc = "error"
  <2>1. answered(f, TRUE)[d] = ok(f[d]) BY <1>3, <1>4
  <2>2. answered(f, FALSE)[d] = failed(f[d]) BY <1>3, <1>4
  <2>3. f[d] \in SessionType OBVIOUS
  <2> HIDE DEF ok, failed
  <2>4. /\ ok(f[d]) \in SessionType /\ Same(ok(f[d]), f[d])
        /\ ok(f[d]).closed = f[d].closed /\ ok(f[d]).pc = "setUp" /\ ok(f[d]).res = gen
    BY <1>0, <2>3
  <2>5. /\ failed(f[d]) \in SessionType /\ Same(failed(f[d]), f[d])
        /\ failed(f[d]).closed = f[d].closed /\ failed(f[d]).pc = "error"
    BY <1>1, <2>3
  <2> QED BY <2>1, <2>2, <2>4, <2>5
<1>5. ASSUME NEW d \in Sessions, d \notin Waiting
      PROVE  answered(f, TRUE)[d] = f[d] /\ answered(f, FALSE)[d] = f[d]
  BY <1>3, <1>5
<1>6. /\ answered(f, TRUE) = [d \in Sessions |-> answered(f, TRUE)[d]]
      /\ answered(f, FALSE) = [d \in Sessions |-> answered(f, FALSE)[d]]
  BY DEF answered
<1>7. \A d \in Sessions : answered(f, TRUE)[d] \in SessionType /\ answered(f, FALSE)[d] \in SessionType
  BY <1>4, <1>5
<1>8. answered(f, TRUE) \in [Sessions -> SessionType] /\ answered(f, FALSE) \in [Sessions -> SessionType]
  BY <1>6, <1>7
<1> QED BY <1>2, <1>4, <1>5, <1>8

\* Steps of the path and of the server that no session takes: each session is
\* left alone, dropped and closed, or answered.
LEMMA Together ==
    ASSUME Inv, Alive, se' \in [Sessions -> SessionType], pa' \in PathType, ctxDone' \in BOOLEAN,
           UNCHANGED <<sessions, kick, gen, runOnRead, mix, panicked>>, ViewInv',
           \A t \in Sessions :
             /\ Same(se'[t], se[t]) /\ (se[t].closed => se'[t].closed)
             /\ \/ se'[t].pc = se[t].pc /\ se'[t].res = se[t].res
                \/ se[t].pc = "held" /\ se'[t].pc = "error"
                \/ se[t].pc = "held" /\ Answered(t) /\ pa'.readers[t] = "prePlay"
             /\ \/ pa'.readers[t] = pa.readers[t]
                \/ pa'.readers[t] = "none" /\ (pa.readers[t] # "none" => se'[t].closed)
                \/ Answered(t) /\ pa'.readers[t] = "prePlay"
             /\ pa.source = t => pa'.source = t \/ se'[t].closed
             /\ pa'.source = t => pa.source = t /\ pa'.ready = pa.ready
    PROVE  Inv'
<1>1. TypeOK' BY DEF Inv, TypeOK
<1>2. KickInv' /\ HandlersDontPanic' BY KicksKept DEF Same
<1>3. \A t \in Sessions : SessionInv(t)' BY Others
<1> QED BY <1>1, <1>2, <1>3 DEF Inv

\* The path without its publisher.
LEMMA PublisherGone ==
    ASSUME NEW p \in PathType, NEW q, q = doPublisherRemove(p)
    PROVE  /\ q \in PathType /\ q.source = Nil /\ ~q.ready /\ q.open = p.open
           /\ \A t \in Sessions : q.readers[t] = "none"
  BY DEF doPublisherRemove, sourceSetNotReady, PathType

\* The path after a timer has expired, or when another publisher comes.
LEMMA SourceClosed ==
    ASSUME NEW p \in PathType, p.ready => p.source # Nil, NEW q, q = onDemandCloseSource(p)
    PROVE  /\ q \in PathType /\ q.source = Nil /\ ~q.ready /\ q.open = p.open
           /\ \A t \in Sessions :
                q.readers[t] = IF p.source = Nil THEN p.readers[t] ELSE "none"
<1>1. CASE p.source = Nil BY <1>1 DEF onDemandCloseSource
<1>2. CASE p.source # Nil
  <2>1. q = doPublisherRemove(p) BY <1>2 DEF onDemandCloseSource
  <2> QED BY <1>2, <2>1, PublisherGone
<1> QED BY <1>1, <1>2

LEMMA OverriddenFacts ==
    \A t \in Sessions : pa.source # Nil /\ (pa.readers[t] # "none" \/ pa.source = t)
                           => t \in overridden(pa)
  BY DEF overridden, registered

\* The path when its stream has come.
LEMMA SourceReady ==
    ASSUME NEW p \in PathType, NEW w \in SUBSET Sessions, NEW q, q = sourceSetReady(p, w)
    PROVE  /\ q \in PathType /\ q.ready /\ q.source = p.source /\ q.open = p.open
           /\ \A t \in Sessions : q.readers[t] = IF t \in w THEN "prePlay" ELSE p.readers[t]
<1> DEFINE b == p.onDemand /\ registered(p) \cup w = {}
           r == [c \in Sessions |-> IF c \in w THEN "prePlay" ELSE p.readers[c]]
<1>1. b \in BOOLEAN OBVIOUS
<1>2. r \in [Sessions -> {"none", "prePlay", "play"}] BY DEF PathType
<1>3. q = [p EXCEPT !.ready = TRUE, !.readers = r, !.closeTimer = b]
  BY DEF sourceSetReady
<1>4. \A t \in Sessions : r[t] = IF t \in w THEN "prePlay" ELSE p.readers[t] OBVIOUS
<1> HIDE DEF b, r
<1>5. /\ q \in PathType /\ q.ready /\ q.source = p.source /\ q.open = p.open
      /\ q.readers = r
  BY <1>1, <1>2, <1>3 DEF PathType
<1> QED BY <1>4, <1>5

\* The path loses its source; the sessions of cs are closed, and those that
\* waited may have got an error.
LEMMA Drops ==
    ASSUME Inv, Alive, NEW cs, NEW g \in [Sessions -> SessionType],
           \A t \in Sessions :
             /\ Same(g[t], se[t]) /\ g[t].closed = se[t].closed
             /\ \/ g[t].pc = se[t].pc /\ g[t].res = se[t].res
                \/ se[t].pc = "held" /\ g[t].pc = "error",
           se' = closing(cs, g), pa' \in PathType, ViewInv', pa'.source = Nil,
           UNCHANGED <<sessions, kick, ctxDone, gen, runOnRead, mix, panicked>>,
           \A t \in Sessions :
             /\ pa.source = t => t \in cs
             /\ \/ pa'.readers[t] = pa.readers[t]
                \/ pa'.readers[t] = "none" /\ (pa.readers[t] # "none" => t \in cs)
    PROVE  Inv'
<1>1. /\ se' \in [Sessions -> SessionType]
      /\ \A t \in Sessions : /\ Same(se'[t], g[t]) /\ se'[t].pc = g[t].pc /\ se'[t].res = g[t].res
                             /\ g[t].closed => se'[t].closed
                             /\ t \in cs => se'[t].closed
  BY ClosingFacts
<1>2. \A t \in Sessions : Same(se'[t], se[t]) BY <1>1 DEF Same
<1>3. ctxDone' \in BOOLEAN /\ \A t \in Sessions : pa'.source # t BY DEF Inv, TypeOK
<1>4. ASSUME NEW t \in Sessions
      PROVE  /\ Same(se'[t], se[t]) /\ (se[t].closed => se'[t].closed)
             /\ \/ se'[t].pc = se[t].pc /\ se'[t].res = se[t].res
                \/ se[t].pc = "held" /\ se'[t].pc = "error"
             /\ \/ pa'.readers[t] = pa.readers[t]
                \/ pa'.readers[t] = "none" /\ (pa.readers[t] # "none" => se'[t].closed)
             /\ pa.source = t => se'[t].closed
             /\ pa'.source # t
  BY <1>1, <1>2, <1>3
<1> QED BY <1>1, <1>3, <1>4, Together

LEMMA PathInv ==
    ASSUME Inv, Alive,
           \/ CloseServer \/ RequestsTimeOut \/ OnDemandClose \/ OtherReady \/ OtherGone
           \/ PathEnds \/ PathCreated
    PROVE  Inv'
<1>0. /\ se \in [Sessions -> SessionType] /\ pa \in PathType /\ ViewInv
      /\ Waiting \in SUBSET Sessions /\ ctxDone \in BOOLEAN /\ gen \in Paths
      /\ \A t \in Sessions : t \in Waiting <=> se[t].pc = "held"
  BY DEF Inv, TypeOK, Waiting
<1>s. \A t \in Sessions : Same(se[t], se[t]) BY DEF Same
<1>f. /\ answered(se, FALSE) \in [Sessions -> SessionType]
      /\ \A t \in Sessions :
            /\ Same(answered(se, FALSE)[t], se[t]) /\ answered(se, FALSE)[t].closed = se[t].closed
            /\ \/ answered(se, FALSE)[t].pc = se[t].pc /\ answered(se, FALSE)[t].res = se[t].res
               \/ se[t].pc = "held" /\ answered(se, FALSE)[t].pc = "error"
  BY <1>0, AnsweredFacts
<1>r. \A t \in Sessions : pa.readers[t] # "none" => t \in registered(pa) /\ t \in dropped(pa)
  BY DEF registered, dropped
<1>1. CASE CloseServer
  <2>1. se' = closing(sessions, se) /\ ctxDone' \in BOOLEAN /\ UNCHANGED <<sessions, kick, path, panicked>>
    BY <1>1 DEF CloseServer
  <2>2. ViewInv' BY <1>0, <2>1 DEF ViewInv
  <2> QED BY <1>0, <2>1, <2>2, ClosingFacts, Together
<1>2. CASE RequestsTimeOut \/ OnDemandClose
  <2>1. pa' = onDemandCloseSource(pa) /\ UNCHANGED <<sessions, kick, ctxDone, gen, runOnRead, mix, panicked>>
    BY <1>2 DEF RequestsTimeOut, OnDemandClose
  <2>2. /\ pa' \in PathType /\ pa'.source = Nil /\ ~pa'.ready /\ pa'.open = pa.open
        /\ \A t \in Sessions : pa'.readers[t] = IF pa.source = Nil THEN pa.readers[t] ELSE "none"
    BY <1>0, <2>1, SourceClosed DEF ViewInv
  <2>3. ViewInv' BY <1>0, <2>2 DEF ViewInv
  <2>4. \A t \in Sessions :
          /\ pa.source = t => t \in overridden(pa)
          /\ \/ pa'.readers[t] = pa.readers[t]
             \/ pa'.readers[t] = "none" /\ (pa.readers[t] # "none" => t \in overridden(pa))
    BY <2>2, OverriddenFacts
  <2>5. CASE se' = closing(overridden(pa), answered(se, FALSE))
    BY <1>f, <2>1, <2>2, <2>3, <2>4, <2>5, Drops
  <2>6. CASE se' = closing(overridden(pa), se)
    BY <1>0, <1>s, <2>1, <2>2, <2>3, <2>4, <2>6, Drops
  <2> QED BY <1>2, <2>5, <2>6 DEF RequestsTimeOut, OnDemandClose
<1>3. CASE OtherReady
  <2> DEFINE q == sourceSetReady(pa, Waiting)
  <2>1. /\ pa' = [q EXCEPT !.source = Other] /\ pa.source = Nil
        /\ se' = answered(se, TRUE) /\ UNCHANGED <<sessions, kick, ctxDone, gen, runOnRead, mix, panicked>>
        /\ pa.open
    BY <1>3 DEF OtherReady
  <2>a. /\ q \in PathType /\ q.open = pa.open
        /\ \A t \in Sessions : q.readers[t] = IF t \in Waiting THEN "prePlay" ELSE pa.readers[t]
    BY <1>0, SourceReady
  <2> HIDE DEF q
  <2>2. /\ pa' \in PathType /\ pa'.source = Other /\ pa'.open = pa.open
        /\ \A t \in Sessions : pa'.readers[t] = IF t \in Waiting THEN "prePlay" ELSE pa.readers[t]
    BY <2>1, <2>a DEF PathType
  <2>3. /\ se' \in [Sessions -> SessionType]
        /\ \A t \in Sessions : /\ Same(se'[t], se[t]) /\ se'[t].closed = se[t].closed
                               /\ se'[t].pc = IF t \in Waiting THEN "setUp" ELSE se[t].pc
                               /\ se'[t].res = IF t \in Waiting THEN gen ELSE se[t].res
    BY <1>0, <2>1, AnsweredFacts
  <2>4. ViewInv' BY <2>1, <2>2 DEF ViewInv
  <2>5. \A t \in Sessions :
          /\ pa.source # t /\ pa'.source # t
          /\ \/ se'[t].pc = se[t].pc /\ se'[t].res = se[t].res /\ pa'.readers[t] = pa.readers[t]
             \/ se[t].pc = "held" /\ Answered(t) /\ pa'.readers[t] = "prePlay"
    <3> TAKE t \in Sessions
    <3>1. pa.source # t /\ pa'.source # t BY <2>1, <2>2
    <3>2. CASE t \in Waiting BY <1>0, <2>2, <2>3, <3>1, <3>2 DEF Answered
    <3>3. CASE t \notin Waiting BY <2>2, <2>3, <3>1, <3>3
    <3> QED BY <3>2, <3>3
  <2> QED BY <1>0, <2>1, <2>2, <2>3, <2>4, <2>5, Together
<1>4. CASE OtherGone
  <2>1. /\ pa' = doPublisherRemove(pa) /\ pa.source = Other
        /\ se' = closing(dropped(pa), se) /\ UNCHANGED <<sessions, kick, ctxDone, gen, runOnRead, mix, panicked>>
    BY <1>4 DEF OtherGone
  <2>2. /\ pa' \in PathType /\ pa'.source = Nil /\ ~pa'.ready
        /\ \A t \in Sessions : pa'.readers[t] = "none" /\ pa.source # t
    BY <1>0, <2>1, PublisherGone
  <2>3. ViewInv' BY <2>2 DEF ViewInv
  <2> QED BY <1>0, <1>s, <1>r, <2>1, <2>2, <2>3, Drops
<1>5. CASE PathEnds
  <2> DEFINE cs == registered(pa) \cup ({pa.source} \cap Sessions)
             q == doPublisherRemove(pa)
  <2>1. /\ pa' = [q EXCEPT !.open = FALSE]
        /\ se' = closing(cs, answered(se, FALSE))
        /\ UNCHANGED <<sessions, kick, ctxDone, gen, runOnRead, mix, panicked>>
    BY <1>5 DEF PathEnds
  <2>a. /\ q \in PathType /\ q.source = Nil /\ ~q.ready
        /\ \A t \in Sessions : q.readers[t] = "none"
    BY <1>0, PublisherGone
  <2>3. \A t \in Sessions : pa.readers[t] # "none" \/ pa.source = t => t \in cs BY DEF registered
  <2> HIDE DEF cs, q
  <2>2. /\ pa' \in PathType /\ pa'.source = Nil /\ ~pa'.ready
        /\ \A t \in Sessions : pa'.readers[t] = "none"
    BY <2>1, <2>a DEF PathType
  <2>4. ViewInv' BY <2>2 DEF ViewInv
  <2> QED BY <1>f, <2>1, <2>2, <2>3, <2>4, Drops
<1>6. CASE PathCreated
  <2>1. /\ ~pa.open /\ gen < MaxPaths /\ gen' = gen + 1
        /\ UNCHANGED <<sessions, se, kick, ctxDone, runOnRead, mix, panicked>>
    BY <1>6 DEF PathCreated
  <2>2. PICK d \in BOOLEAN : pa' = NewPath(d) BY <1>6 DEF PathCreated
  <2>3. /\ pa' \in PathType /\ pa'.source = Nil /\ ~pa'.ready /\ pa'.open
        /\ \A t \in Sessions : pa'.readers[t] = "none"
    BY <2>2 DEF NewPath, PathType
  <2>4. gen' \in Paths BY <1>0, <2>1, MaxPathsAssumption DEF Paths
  <2>5. TypeOK' BY <2>1, <2>3, <2>4 DEF Inv, TypeOK
  <2>6. ViewInv' BY <2>3 DEF ViewInv
  <2>7. KickInv' /\ HandlersDontPanic' BY <2>1, KicksKept
  <2>8. ASSUME NEW t \in Sessions PROVE SessionInv(t)'
    <3>1. SessionInv(t) /\ pa.readers[t] = "none" /\ pa.source # t /\ pa'.source # t
      BY <1>0, <2>1, <2>3 DEF Inv, ViewInv
    <3> QED BY <2>1, <2>3, <3>1 DEF SessionInv, OwnInv
  <2> QED BY <2>5, <2>6, <2>7, <2>8 DEF Inv
<1> QED BY <1>1, <1>2, <1>3, <1>4, <1>5, <1>6

\* A step of one session that closes, drops or answers others on its way.
LEMMA OneAndOthers ==
    ASSUME Inv, Alive, NEW s \in Sessions, NEW g \in [Sessions -> SessionType],
           NEW x \in SessionType, se' = [g EXCEPT ![s] = x],
           se[s].kicked => x.kicked,
           UNCHANGED <<sessions, kick, ctxDone, gen, runOnRead, mix, panicked>>,
           pa' \in PathType, ViewInv', SessionInv(s)',
           \A t \in Sessions \ {s} :
             /\ Same(g[t], se[t]) /\ (se[t].closed => g[t].closed)
             /\ \/ g[t].pc = se[t].pc /\ g[t].res = se[t].res
                \/ se[t].pc = "held" /\ g[t].pc = "setUp" /\ g[t].res = gen /\ pa'.readers[t] = "prePlay"
             /\ \/ pa'.readers[t] = pa.readers[t]
                \/ pa'.readers[t] = "none" /\ (pa.readers[t] # "none" => g[t].closed)
                \/ g[t].pc = "setUp" /\ g[t].res = gen /\ pa'.readers[t] = "prePlay"
             /\ pa.source = t => pa'.source = t \/ g[t].closed
             /\ pa'.source = t => pa.source = t /\ pa'.ready = pa.ready
    PROVE  Inv'
<1>1. se'[s] = x /\ \A t \in Sessions \ {s} : se'[t] = g[t] OBVIOUS
<1>2. TypeOK' BY DEF Inv, TypeOK
<1>3. \A t \in Sessions : se[t].kicked => se'[t].kicked BY <1>1 DEF Same
<1>4. KickInv' /\ HandlersDontPanic' BY <1>3, KicksKept
<1>5. ASSUME NEW t \in Sessions \ {s} PROVE SessionInv(t)' BY <1>1, Others DEF Answered
<1> QED BY <1>2, <1>4, <1>5 DEF Inv

\* OnAnnounce: the previous publisher and its readers are closed.
LEMMA AnnounceInv == ASSUME Inv, Alive, NEW s \in Sessions, OnAnnounce(s) PROVE Inv'
<1>0. /\ se \in [Sessions -> SessionType] /\ se[s] \in SessionType /\ SessionInv(s)
      /\ pa \in PathType /\ ViewInv /\ gen \in Paths /\ gen # NilPath
  BY NilIsNoPath DEF Inv, TypeOK
<1> DEFINE cs == overridden(pa)
           g == closing(cs, se)
<1>1. /\ g \in [Sessions -> SessionType]
      /\ \A t \in Sessions : /\ Same(g[t], se[t]) /\ g[t].pc = se[t].pc /\ g[t].res = se[t].res
                             /\ se[t].closed => g[t].closed
                             /\ t \in cs => g[t].closed
  BY <1>0, ClosingFacts
<1>2. \A t \in Sessions : pa.source # Nil /\ (pa.readers[t] # "none" \/ pa.source = t) => t \in cs
  BY OverriddenFacts
<1>3. /\ pa' = handlePublisherAnnounce(pa, s)
      /\ UNCHANGED <<sessions, kick, ctxDone, gen, runOnRead, mix, panicked>>
      /\ se[s].pc = "idle" /\ se[s].ss = "initial" /\ s \in sessions /\ pa.open
  BY DEF OnAnnounce, Takes
<1>o. PICK o \in loggedIn(g[s]) : se' = [g EXCEPT ![s] = [o EXCEPT !.pc = "announced", !.res = gen]]
  BY DEF OnAnnounce
<1> DEFINE x == [o EXCEPT !.pc = "announced", !.res = gen]
<1>4. se' = [g EXCEPT ![s] = x] BY <1>o
<1>5. /\ pa' \in PathType /\ pa'.source = s /\ ~pa'.ready /\ pa'.open = pa.open
      /\ \A t \in Sessions : pa'.readers[t] = IF pa.source = Nil THEN pa.readers[t] ELSE "none"
  <2> DEFINE q == onDemandCloseSource(pa)
  <2>1. /\ q \in PathType /\ ~q.ready /\ q.open = pa.open
        /\ \A t \in Sessions : q.readers[t] = IF pa.source = Nil THEN pa.readers[t] ELSE "none"
    BY <1>0, SourceClosed DEF ViewInv
  <2>2. pa' = [q EXCEPT !.source = s] BY <1>3 DEF handlePublisherAnnounce
  <2> HIDE DEF q
  <2> QED BY <2>1, <2>2 DEF PathType
<1> HIDE DEF cs, g
<1>6. /\ x \in SessionType /\ x.pc = "announced" /\ x.res = gen
      /\ x.ss = se[s].ss /\ x.state = se[s].state
      /\ x.path = se[s].path /\ x.onReadCmd = se[s].onReadCmd
      /\ x.authFailures <= se[s].authFailures
      /\ x.kicked = se[s].kicked /\ x.badTrack = se[s].badTrack
      /\ se[s].closed => x.closed
  <2>1. g[s] \in SessionType /\ Same(g[s], se[s]) /\ (se[s].closed => g[s].closed) BY <1>1
  <2>2. /\ o \in SessionType /\ Same([o EXCEPT !.authFailures = g[s].authFailures], g[s])
        /\ o.closed = g[s].closed /\ o.authFailures <= g[s].authFailures
    BY <1>o, <2>1, LoginFacts
  <2>3. /\ x \in SessionType /\ x.pc = "announced" /\ x.res = gen
        /\ x.ss = o.ss /\ x.state = o.state /\ x.path = o.path /\ x.onReadCmd = o.onReadCmd
        /\ x.authFailures = o.authFailures /\ x.kicked = o.kicked
        /\ x.badTrack = o.badTrack /\ x.closed = o.closed
    BY <1>0, <2>2 DEF SessionType
  <2>4. /\ o.ss = g[s].ss /\ o.state = g[s].state /\ o.path = g[s].path
        /\ o.onReadCmd = g[s].onReadCmd /\ o.kicked = g[s].kicked /\ o.badTrack = g[s].badTrack
    BY <2>2 DEF SessionType, Same
  <2> HIDE DEF x
  <2> QED BY <2>1, <2>2, <2>3, <2>4 DEF Same
<1> HIDE DEF x
<1>7. ViewInv' BY <1>0, <1>3, <1>5 DEF ViewInv
<1>8. SessionInv(s)'
  <2>1. se'[s] = x BY <1>1, <1>4
  <2>2. x.authFailures <= 3
    <3>1. se[s].authFailures \in Nat /\ x.authFailures \in Nat BY <1>0, <1>6 DEF SessionType
    <3>2. se[s].authFailures <= 3 BY <1>0, <1>3 DEF SessionInv, Ending
    <3> QED BY <1>6, <3>1, <3>2
  <2>3. ~se[s].kicked => pa.readers[s] = "none" /\ ~se[s].badTrack
    BY <1>0, <1>3 DEF SessionInv, OwnInv, Ending
  <2>4. ~se[s].kicked => pa'.readers[s] = "none" BY <1>5, <2>3
  <2> QED BY <1>0, <1>3, <1>5, <1>6, <2>1, <2>2, <2>3, <2>4 DEF SessionInv, OwnInv, Ending, Publishing
<1>9. \A t \in Sessions \ {s} :
        /\ Same(g[t], se[t]) /\ (se[t].closed => g[t].closed)
        /\ g[t].pc = se[t].pc /\ g[t].res = se[t].res
        /\ \/ pa'.readers[t] = pa.readers[t]
           \/ pa'.readers[t] = "none" /\ (pa.readers[t] # "none" => g[t].closed)
        /\ pa.source = t => pa'.source = t \/ g[t].closed
        /\ pa'.source = t => pa.source = t /\ pa'.ready = pa.ready
  BY <1>1, <1>2, <1>5
<1>10. /\ g \in [Sessions -> SessionType] /\ x \in SessionType /\ (se[s].kicked => x.kicked)
       /\ UNCHANGED <<sessions, kick, ctxDone, gen, runOnRead, mix, panicked>> /\ pa' \in PathType
  BY <1>1, <1>3, <1>5, <1>6
<1> QED BY <1>4, <1>7, <1>8, <1>9, <1>10, OneAndOthers

\* OnRecord: the stream is there, and who waited for it becomes a reader.
LEMMA RecordInv == ASSUME Inv, Alive, NEW s \in Sessions, OnRecord(s) PROVE Inv'
<1>0. /\ se \in [Sessions -> SessionType] /\ se[s] \in SessionType /\ SessionInv(s)
      /\ pa \in PathType /\ ViewInv /\ sessions \subseteq Sessions
      /\ gen \in Paths /\ gen # NilPath
  BY NilIsNoPath DEF Inv, TypeOK
<1>a. se[s].pc = "idle" /\ se[s].ss = "prePublish" /\ s \in sessions BY DEF OnRecord, Takes
<1>1. CASE se[s].path = NilPath
  <2>1. Panic BY <1>0, <1>1 DEF OnRecord, listens
  <2>2. Kicked BY <1>0, <1>1, <1>a DEF SessionInv, OwnInv, Kicked
  <2> QED BY <2>1, <2>2, PanicInv
<1>2. CASE listens(s) /\ pa.source = s
  <2>l. se[s].path = gen BY <1>2 DEF listens
  <2> DEFINE g == answered(se, TRUE)
             x == [g[s] EXCEPT !.state = "publish", !.ss = "publish"]
  <2>0. \A t \in Sessions : t \in Waiting <=> se[t].pc = "held" BY DEF Waiting
  <2>1. /\ g \in [Sessions -> SessionType]
        /\ \A t \in Sessions : /\ Same(g[t], se[t]) /\ g[t].closed = se[t].closed
                               /\ g[t].pc = IF t \in Waiting THEN "setUp" ELSE se[t].pc
                               /\ g[t].res = IF t \in Waiting THEN gen ELSE se[t].res
    BY <1>0, AnsweredFacts
  <2>2. pa' = sourceSetReady(pa, Waiting) /\ UNCHANGED <<sessions, kick, ctxDone, gen, runOnRead, mix, panicked>>
    BY <1>0, <1>2, <2>l DEF OnRecord
  <2>3. se' = [g EXCEPT ![s] = x] BY <1>0, <1>2, <2>1, <2>l DEF OnRecord
  <2>4. /\ pa' \in PathType /\ pa'.source = s /\ pa'.ready /\ pa'.open = pa.open
        /\ \A t \in Sessions : pa'.readers[t] = IF t \in Waiting THEN "prePlay" ELSE pa.readers[t]
    <3>1. Waiting \in SUBSET Sessions BY DEF Waiting
    <3> QED BY <1>0, <1>2, <2>2, <3>1, SourceReady
  <2> HIDE DEF g
  <2>5. /\ x \in SessionType /\ x.pc = "idle" /\ x.ss = "publish" /\ x.state = "publish"
        /\ x.path = se[s].path /\ x.onReadCmd = se[s].onReadCmd
        /\ x.authFailures = se[s].authFailures
        /\ x.kicked = se[s].kicked /\ x.badTrack = se[s].badTrack /\ x.closed = se[s].closed
    <3>1. /\ g[s] \in SessionType /\ Same(g[s], se[s]) /\ g[s].closed = se[s].closed
          /\ g[s].pc = "idle"
      BY <1>a, <2>0, <2>1
    <3> QED BY <3>1 DEF SessionType, Same
  <2> HIDE DEF x
  <2>6. ViewInv' BY <1>0, <1>2, <2>4 DEF ViewInv
  <2>7. SessionInv(s)'
    <3>1. se'[s] = x BY <2>1, <2>3
    <3>2. pa'.readers[s] = pa.readers[s] BY <1>a, <2>0, <2>4
    <3> QED BY <1>0, <1>2, <1>a, <2>2, <2>4, <2>5, <2>l, <3>1, <3>2
      DEF SessionInv, OwnInv, Ending, Publishing
  <2>8. \A t \in Sessions \ {s} :
          /\ Same(g[t], se[t]) /\ (se[t].closed => g[t].closed)
          /\ pa.source # t /\ pa'.source # t
          /\ \/ g[t].pc = se[t].pc /\ g[t].res = se[t].res /\ pa'.readers[t] = pa.readers[t]
             \/ /\ se[t].pc = "held" /\ g[t].pc = "setUp" /\ g[t].res = gen
                /\ pa'.readers[t] = "prePlay"
    BY <1>2, <2>0, <2>1, <2>4
  <2>9. \A t \in Sessions \ {s} :
          /\ Same(g[t], se[t]) /\ (se[t].closed => g[t].closed)
          /\ \/ g[t].pc = se[t].pc /\ g[t].res = se[t].res
             \/ se[t].pc = "held" /\ g[t].pc = "setUp" /\ g[t].res = gen /\ pa'.readers[t] = "prePlay"
          /\ \/ pa'.readers[t] = pa.readers[t]
             \/ g[t].pc = "setUp" /\ g[t].res = gen /\ pa'.readers[t] = "prePlay"
          /\ pa.source # t /\ pa'.source # t
    BY <2>8
  <2>10. /\ g \in [Sessions -> SessionType] /\ x \in SessionType /\ (se[s].kicked => x.kicked)
         /\ UNCHANGED <<sessions, kick, ctxDone, gen, runOnRead, mix, panicked>> /\ pa' \in PathType
    BY <2>1, <2>2, <2>4, <2>5
  <2> QED BY <2>3, <2>6, <2>7, <2>9, <2>10, OneAndOthers
<1>3. CASE se[s].path # NilPath /\ ~(listens(s) /\ pa.source = s)
  <2> DEFINE x == [se[s] EXCEPT !.pc = "error"]
  <2>1. x \in SessionType /\ x.kicked = se[s].kicked BY <1>0 DEF SessionType
  <2>2. se' = [se EXCEPT ![s] = x] /\ UNCHANGED <<sessions, kick, ctxDone, path, panicked>>
    BY <1>3 DEF OnRecord
  <2>3. SessionInv(s)'
    BY <1>0, <1>a, <2>2 DEF SessionInv, OwnInv, SessionType, Ending, Publishing
  <2>4. ViewInv' BY <1>0, <2>2 DEF ViewInv
  <2> HIDE DEF x
  <2> QED BY <1>0, <2>1, <2>2, <2>3, <2>4, OneSession
<1> QED BY <1>1, <1>2, <1>3

\* OnPause of a publisher: its readers are closed.
LEMMA PausePublishInv == ASSUME Inv, Alive, NEW s \in Sessions, OnPausePublish(s) PROVE Inv'
<1>0. /\ se \in [Sessions -> SessionType] /\ se[s] \in SessionType /\ SessionInv(s)
      /\ pa \in PathType /\ ViewInv
  BY DEF Inv, TypeOK
<1>a. se[s].pc = "idle" /\ se[s].ss = "publish" /\ s \in sessions BY DEF OnPausePublish, Takes
<1>1. CASE se[s].path = NilPath
  <2>1. Panic BY <1>1 DEF OnPausePublish
  <2>2. Kicked BY <1>0, <1>1, <1>a DEF SessionInv, OwnInv, Kicked
  <2> QED BY <2>1, <2>2, PanicInv
<1>2. CASE se[s].path # NilPath
  <2> DEFINE cs == droppedBy(s)
             g == closing(cs, se)
             x == [g[s] EXCEPT !.state = "prePublish", !.ss = "prePublish"]
             mine == listens(s) /\ pa.source = s
  <2>1. /\ g \in [Sessions -> SessionType]
        /\ \A t \in Sessions : /\ Same(g[t], se[t]) /\ g[t].pc = se[t].pc /\ g[t].res = se[t].res
                               /\ se[t].closed => g[t].closed
                               /\ t \in cs => g[t].closed
    BY <1>0, ClosingFacts
  <2>2. /\ \A t \in Sessions : mine /\ pa.readers[t] # "none" => t \in cs
        /\ mine /\ pa.onDemand /\ pa.ready => s \in cs
    BY DEF droppedBy, dropped, registered
  <2>3. /\ pa' = IF listens(s) THEN handlePublisherPause(pa, s) ELSE pa
        /\ UNCHANGED <<sessions, kick, ctxDone, gen, runOnRead, mix, panicked>>
    BY <1>2 DEF OnPausePublish
  <2>4. se' = [g EXCEPT ![s] = x] BY <1>2, <2>1 DEF OnPausePublish
  <2>5. /\ pa' \in PathType /\ pa'.open = pa.open
        /\ ~mine => pa' = pa
        /\ mine => ~pa'.ready /\ (pa'.source = s \/ (pa'.source = Nil /\ s \in cs))
        /\ \A t \in Sessions : pa'.readers[t] = pa.readers[t] \/ (mine /\ pa'.readers[t] = "none")
    <3>1. CASE ~(mine /\ pa.ready)
      <4>1. pa' = pa BY <2>3, <3>1 DEF handlePublisherPause
      <4> QED BY <1>0, <3>1, <4>1 DEF PathType
    <3>2. CASE mine /\ pa.ready /\ pa.onDemand
      <4>1. pa' = doPublisherRemove(pa) BY <2>3, <3>2 DEF handlePublisherPause
      <4> QED BY <1>0, <2>2, <3>2, <4>1, PublisherGone
    <3>3. CASE mine /\ pa.ready /\ ~pa.onDemand
      <4>1. pa' = sourceSetNotReady(pa) BY <2>3, <3>3 DEF handlePublisherPause
      <4> QED BY <1>0, <3>3, <4>1 DEF sourceSetNotReady, PathType
    <3> QED BY <3>1, <3>2, <3>3
  <2>m. mine => pa.source = s /\ se[s].path = gen BY DEF listens
  <2>n. ~se[s].kicked /\ pa.source = s => mine
    <3>1. pa.source = s => pa.open BY <1>0 DEF ViewInv
    <3> QED BY <1>0, <1>a, <3>1 DEF SessionInv, OwnInv, listens
  <2> HIDE DEF cs, g, mine
  <2>6. /\ x \in SessionType /\ x.pc = "idle" /\ x.ss = "prePublish" /\ x.state = "prePublish"
        /\ x.path = se[s].path /\ x.onReadCmd = se[s].onReadCmd
        /\ x.authFailures = se[s].authFailures
        /\ x.kicked = se[s].kicked /\ x.badTrack = se[s].badTrack
        /\ se[s].closed => x.closed
        /\ s \in cs => x.closed
    <3>1. /\ g[s] \in SessionType /\ Same(g[s], se[s]) /\ (se[s].closed => g[s].closed)
          /\ g[s].pc = "idle" /\ (s \in cs => g[s].closed)
      BY <1>a, <2>1
    <3> QED BY <3>1 DEF SessionType, Same
  <2> HIDE DEF x
  <2>7. ViewInv' BY <1>0, <2>5, <2>m DEF ViewInv
  <2>8. SessionInv(s)'
    <3>1. se'[s] = x BY <2>1, <2>4
    <3>2. pa'.source = s => pa.source = s BY <2>5, <2>m
    <3>3. ~se[s].kicked => pa.readers[s] = "none" /\ ~se[s].badTrack
      BY <1>0, <1>a DEF SessionInv, OwnInv, Ending
    <3>4. ~se[s].kicked => pa'.readers[s] = "none" BY <2>5, <3>3
    <3> QED BY <1>0, <1>a, <2>3, <2>5, <2>6, <2>n, <3>1, <3>2, <3>3, <3>4
      DEF SessionInv, OwnInv, Ending, Publishing
  <2>9. \A t \in Sessions \ {s} :
          /\ Same(g[t], se[t]) /\ (se[t].closed => g[t].closed)
          /\ g[t].pc = se[t].pc /\ g[t].res = se[t].res
          /\ \/ pa'.readers[t] = pa.readers[t]
             \/ pa'.readers[t] = "none" /\ (pa.readers[t] # "none" => g[t].closed)
          /\ pa.source = t => pa'.source = t \/ g[t].closed
          /\ pa'.source = t => pa.source = t /\ pa'.ready = pa.ready
    BY <2>1, <2>2, <2>5, <2>m
  <2>10. /\ g \in [Sessions -> SessionType] /\ x \in SessionType /\ (se[s].kicked => x.kicked)
         /\ UNCHANGED <<sessions, kick, ctxDone, gen, runOnRead, mix, panicked>> /\ pa' \in PathType
    BY <2>1, <2>3, <2>5, <2>6
  <2> QED BY <2>4, <2>7, <2>8, <2>9, <2>10, OneAndOthers
<1> QED BY <1>1, <1>2

\* First part of OnClose, in the goroutine of the session or in a kick.
LEMMA CloseCmdInv == ASSUME Inv, Alive, NEW s \in Sessions, OnCloseCmd(s) PROVE Inv'
<1>0. /\ se \in [Sessions -> SessionType] /\ se[s] \in SessionType /\ SessionInv(s)
      /\ pa \in PathType /\ ViewInv /\ sessions \subseteq Sessions
      /\ kick \in [Kickers -> KickType] /\ KickInv /\ HandlersDontPanic
  BY DEF Inv, TypeOK
<1>1. UNCHANGED <<sessions, ctxDone, path, panicked>> /\ ~closeCmdPanics(se[s]) BY DEF OnCloseCmd
<1>2. ViewInv' BY <1>0, <1>1 DEF ViewInv
<1>3. CASE se[s].pc = "onClose" /\ se' = [se EXCEPT ![s] = [closeCmd(@) EXCEPT !.pc = "remove"]]
           /\ UNCHANGED kick
  <2> DEFINE x == [closeCmd(se[s]) EXCEPT !.pc = "remove"]
  <2>1. x \in SessionType /\ x.kicked = se[s].kicked BY <1>0 DEF SessionType, closeCmd
  <2>2. se' = [se EXCEPT ![s] = x] BY <1>3
  <2>3. SessionInv(s)'
    BY <1>0, <1>1, <1>3 DEF SessionInv, OwnInv, SessionType, Ending, Publishing,
       closeCmd, closesCmd, closeCmdPanics
  <2> HIDE DEF x
  <2> QED BY <1>0, <1>1, <1>2, <1>3, <2>1, <2>2, <2>3, OneSession
<1>4. ASSUME NEW k \in Kickers, kick[k] = [pc |-> "onClose", target |-> s],
             se' = [se EXCEPT ![s] = closeCmd(@)], kick' = [kick EXCEPT ![k].pc = "remove"]
      PROVE  Inv'
  <2> DEFINE x == closeCmd(se[s])
  <2>0. se[s].kicked BY <1>0, <1>4 DEF KickInv
  <2>1. /\ x \in SessionType /\ x.kicked = se[s].kicked /\ x.pc = se[s].pc /\ x.state = se[s].state
        /\ x.ss = se[s].ss /\ x.authFailures = se[s].authFailures /\ x.closed = se[s].closed
    BY <1>0 DEF SessionType, closeCmd
  <2> HIDE DEF x
  <2>2. /\ se'[s] = x /\ se' \in [Sessions -> SessionType]
        /\ \A t \in Sessions : t # s => se'[t] = se[t] /\ Same(se'[t], se[t])
    BY <1>0, <1>4, <2>1 DEF Same, x
  <2>3. /\ kick' \in [Kickers -> KickType]
        /\ \A j \in Kickers : kick'[j].target = kick[j].target /\ (kick'[j].pc # "idle" => kick[j].pc # "idle")
    BY <1>0, <1>4 DEF KickType
  <2>4. \A t \in Sessions : se[t].kicked => se'[t].kicked BY <2>1, <2>2
  <2>5. KickInv' /\ HandlersDontPanic'
    BY <1>0, <1>1, <2>3, <2>4 DEF KickInv, HandlersDontPanic, Alive
  <2>6. TypeOK' BY <1>1, <2>2, <2>3 DEF Inv, TypeOK
  <2>7. SessionInv(s)' BY <1>0, <1>1, <2>0, <2>1, <2>2 DEF SessionInv
  <2>8. ASSUME NEW t \in Sessions, t # s PROVE SessionInv(t)' BY <1>1, <2>2, <2>8, Others
  <2> QED BY <1>2, <2>5, <2>6, <2>7, <2>8 DEF Inv
<1> QED BY <1>3, <1>4 DEF OnCloseCmd

\* What the second part of OnClose does to the path and to the other sessions.
\* A path that has been replaced does nothing.
LEMMA ClosePathFacts ==
    ASSUME Inv, NEW s \in Sessions, se[s].ss # "initial", pa' = onClosePath(s, pa)
    PROVE  LET g == closing(droppedBy(s), se)
           IN /\ pa' \in PathType /\ ViewInv'
              /\ g \in [Sessions -> SessionType]
              /\ \A t \in Sessions : /\ Same(g[t], se[t]) /\ g[t].pc = se[t].pc
                                     /\ g[t].res = se[t].res /\ (se[t].closed => g[t].closed)
              /\ ~listens(s) => pa' = pa
              /\ listens(s) /\ se[s].ss \in {"preRead", "read"} =>
                    pa'.readers[s] = "none" /\ pa'.source = pa.source
              /\ listens(s) /\ se[s].ss \in Publishing =>
                    pa'.source # s /\ (pa'.readers[s] # "none" => pa.readers[s] # "none")
              /\ \A t \in Sessions : t # s =>
                    /\ \/ pa'.readers[t] = pa.readers[t]
                       \/ pa'.readers[t] = "none" /\ (pa.readers[t] # "none" => g[t].closed)
                    /\ pa.source = t => pa'.source = t
                    /\ pa'.source = t => pa.source = t /\ pa'.ready = pa.ready
<1>0. /\ se \in [Sessions -> SessionType] /\ se[s] \in SessionType
      /\ pa \in PathType /\ ViewInv
  BY DEF Inv, TypeOK
<1> DEFINE g == closing(droppedBy(s), se)
<1>1. /\ g \in [Sessions -> SessionType]
      /\ \A t \in Sessions : /\ Same(g[t], se[t]) /\ g[t].pc = se[t].pc /\ g[t].res = se[t].res
                             /\ se[t].closed => g[t].closed
                             /\ t \in droppedBy(s) => g[t].closed
  BY <1>0, ClosingFacts
<1>2. \A t \in Sessions : listens(s) /\ pa.source = s /\ pa.readers[t] # "none" => t \in droppedBy(s)
  BY DEF droppedBy, dropped, registered
<1> HIDE DEF g
<1>3. CASE listens(s) /\ se[s].ss \in {"preRead", "read"}
  <2>1. pa' = handleReaderRemove(pa, s) BY <1>3 DEF onClosePath
  <2>2. /\ pa' \in PathType /\ pa'.source = pa.source /\ pa'.ready = pa.ready /\ pa'.open = pa.open
        /\ pa'.readers[s] = "none"
        /\ \A t \in Sessions : t # s => pa'.readers[t] = pa.readers[t]
    <3>1. \A t \in Sessions \ {s} : pa'.readers[t] = pa.readers[t] BY <1>0, <2>1, ReaderRemoved
    <3> QED BY <1>0, <2>1, <3>1, ReaderRemoved
  <2>3. ViewInv' BY <1>0, <2>2 DEF ViewInv
  <2> QED BY <1>1, <1>3, <2>2, <2>3 DEF g, Publishing
<1>4. CASE listens(s) /\ se[s].ss \in Publishing
  <2>1. pa' = handlePublisherRemove(pa, s) BY <1>4 DEF onClosePath, Publishing
  <2>2. /\ pa' \in PathType /\ pa'.source # s
        /\ pa.source # s => pa' = pa
        /\ pa.source = s => /\ pa'.source = Nil /\ ~pa'.ready
                            /\ \A t \in Sessions : pa'.readers[t] = "none"
    <3>1. CASE pa.source # s BY <1>0, <2>1, <3>1 DEF handlePublisherRemove
    <3>2. CASE pa.source = s
      <4>1. pa' = doPublisherRemove(pa) BY <2>1, <3>2 DEF handlePublisherRemove
      <4>2. /\ pa' \in PathType /\ pa'.source = Nil /\ ~pa'.ready
            /\ \A t \in Sessions : pa'.readers[t] = "none"
        BY <1>0, <4>1, PublisherGone
      <4> QED BY <3>2, <4>2
    <3> QED BY <3>1, <3>2
  <2>3. ViewInv' BY <1>0, <2>2 DEF ViewInv
  <2>4. pa'.readers[s] # "none" => pa.readers[s] # "none" BY <2>2
  <2>5. ASSUME NEW t \in Sessions, t # s
        PROVE  /\ \/ pa'.readers[t] = pa.readers[t]
                  \/ pa'.readers[t] = "none" /\ (pa.readers[t] # "none" => g[t].closed)
               /\ pa.source = t => pa'.source = t
               /\ pa'.source = t => pa.source = t /\ pa'.ready = pa.ready
    BY <1>1, <1>2, <1>4, <2>2, <2>5
  <2> QED BY <1>1, <1>4, <2>2, <2>3, <2>4, <2>5 DEF g, Publishing
<1>5. CASE ~listens(s)
  <2>1. pa' = pa BY <1>5 DEF onClosePath
  <2>2. ViewInv' BY <1>0, <2>1 DEF ViewInv
  <2> QED BY <1>0, <1>1, <1>5, <2>1, <2>2 DEF g
<1> QED BY <1>0, <1>3, <1>4, <1>5 DEF SessionType, Publishing

\* Second part of OnClose.
LEMMA CloseRemoveInv == ASSUME Inv, Alive, NEW s \in Sessions, OnCloseRemove(s) PROVE Inv'
<1>0. /\ se \in [Sessions -> SessionType] /\ se[s] \in SessionType /\ SessionInv(s)
      /\ pa \in PathType /\ ViewInv /\ sessions \subseteq Sessions
      /\ kick \in [Kickers -> KickType] /\ KickInv /\ HandlersDontPanic
  BY DEF Inv, TypeOK
<1>1. UNCHANGED <<sessions, ctxDone, gen, runOnRead, mix, panicked>> /\ pa' = onClosePath(s, pa) BY DEF OnCloseRemove
<1>2. CASE se[s].pc = "remove" /\ se' = [leftPath(s) EXCEPT ![s].pc = "gone"] /\ UNCHANGED kick
  <2>1. CASE se[s].ss = "initial"
    <3> DEFINE x == [se[s] EXCEPT !.pc = "gone"]
    <3>1. x \in SessionType /\ x.kicked = se[s].kicked BY <1>0 DEF SessionType
    <3>2. se' = [se EXCEPT ![s] = x] BY <1>2, <2>1 DEF leftPath
    <3>3. pa' = pa /\ ViewInv' BY <1>0, <1>1, <2>1 DEF onClosePath, ViewInv
    <3>4. SessionInv(s)'
      BY <1>0, <1>1, <1>2, <2>1, <3>2, <3>3 DEF SessionInv, OwnInv, SessionType, Ending, Publishing
    <3> HIDE DEF x
    <3> QED BY <1>0, <1>1, <1>2, <3>1, <3>2, <3>3, <3>4, OneSession
  <2>2. CASE se[s].ss # "initial"
    <3> DEFINE g == closing(droppedBy(s), se)
               x == [g[s] EXCEPT !.path = NilPath, !.pc = "gone"]
    <3>1. /\ pa' \in PathType /\ ViewInv'
          /\ g \in [Sessions -> SessionType]
          /\ \A t \in Sessions : Same(g[t], se[t]) /\ g[t].pc = se[t].pc /\ g[t].res = se[t].res /\ (se[t].closed => g[t].closed)
          /\ ~listens(s) => pa' = pa
          /\ listens(s) /\ se[s].ss \in {"preRead", "read"} =>
                pa'.readers[s] = "none" /\ pa'.source = pa.source
          /\ listens(s) /\ se[s].ss \in Publishing =>
                pa'.source # s /\ (pa'.readers[s] # "none" => pa.readers[s] # "none")
          /\ \A t \in Sessions \ {s} :
                /\ \/ pa'.readers[t] = pa.readers[t]
                   \/ pa'.readers[t] = "none" /\ (pa.readers[t] # "none" => g[t].closed)
                /\ pa.source = t => pa'.source = t
                /\ pa'.source = t => pa.source = t /\ pa'.ready = pa.ready
      BY <1>1, <2>2, ClosePathFacts
    <3>2. se' = [g EXCEPT ![s] = x] BY <1>2, <2>2, <3>1 DEF leftPath
    <3> HIDE DEF g
    <3>3. /\ x \in SessionType /\ x.pc = "gone" /\ x.ss = se[s].ss /\ x.state = se[s].state
          /\ x.onReadCmd = se[s].onReadCmd /\ x.authFailures = se[s].authFailures
          /\ x.kicked = se[s].kicked /\ x.badTrack = se[s].badTrack
          /\ se[s].closed => x.closed
      <4>1. g[s] \in SessionType /\ Same(g[s], se[s]) /\ (se[s].closed => g[s].closed) BY <3>1
      <4> QED BY <4>1 DEF SessionType, Same
    <3> HIDE DEF x
    <3>4. SessionInv(s)'
      <4>1. se'[s] = x BY <3>1, <3>2
      <4>2. se[s].ss \in {"preRead", "read"} \cup Publishing
        BY <1>0, <2>2 DEF SessionType, Publishing
      <4>3. ASSUME ~se[s].kicked PROVE pa'.source # s /\ (se[s].badTrack \/ pa'.readers[s] = "none")
        <5>1. pa.source = s \/ pa.readers[s] # "none" => pa.open BY <1>0 DEF ViewInv
        <5>2. /\ pa.source = s => listens(s) /\ se[s].ss \in Publishing
              /\ pa.readers[s] # "none" /\ ~se[s].badTrack => listens(s) /\ se[s].ss \in {"preRead", "read"}
          BY <1>0, <1>2, <4>3, <5>1 DEF SessionInv, OwnInv, listens
        <5> QED BY <3>1, <4>2, <5>2 DEF Publishing
      <4> QED BY <1>0, <1>1, <1>2, <2>2, <3>1, <3>3, <4>1, <4>2, <4>3
        DEF SessionInv, OwnInv, Ending, Publishing
    <3>5. /\ g \in [Sessions -> SessionType] /\ x \in SessionType /\ (se[s].kicked => x.kicked)
          /\ UNCHANGED <<sessions, kick, ctxDone, gen, runOnRead, mix, panicked>> /\ pa' \in PathType /\ ViewInv'
      BY <1>1, <1>2, <3>1, <3>3
    <3>6. \A t \in Sessions \ {s} :
            /\ Same(g[t], se[t]) /\ (se[t].closed => g[t].closed)
            /\ g[t].pc = se[t].pc /\ g[t].res = se[t].res
            /\ \/ pa'.readers[t] = pa.readers[t]
               \/ pa'.readers[t] = "none" /\ (pa.readers[t] # "none" => g[t].closed)
            /\ pa.source = t => pa'.source = t \/ g[t].closed
            /\ pa'.source = t => pa.source = t /\ pa'.ready = pa.ready
      BY <3>1
    <3> QED BY <3>2, <3>4, <3>5, <3>6, OneAndOthers
  <2> QED BY <2>1, <2>2
<1>3. ASSUME NEW k \in Kickers, kick[k] = [pc |-> "remove", target |-> s],
             se' = leftPath(s), kick' = [kick EXCEPT ![k] = NoKick]
      PROVE  Inv'
  <2>0. se[s].kicked BY <1>0, <1>3 DEF KickInv
  <2>1. /\ kick' \in [Kickers -> KickType]
        /\ \A j \in Kickers : kick'[j].pc # "idle" => kick'[j] = kick[j]
    BY <1>0, <1>3 DEF KickType, NoKick
  <2>2. /\ se' \in [Sessions -> SessionType] /\ pa' \in PathType /\ ViewInv'
        /\ se'[s].pc = se[s].pc /\ se'[s].ss = se[s].ss /\ se'[s].state = se[s].state
        /\ se'[s].authFailures = se[s].authFailures /\ se'[s].kicked /\ se'[s].closed
        /\ \A t \in Sessions : t # s =>
            /\ Same(se'[t], se[t]) /\ (se[t].closed => se'[t].closed)
            /\ se'[t].pc = se[t].pc /\ se'[t].res = se[t].res
            /\ \/ pa'.readers[t] = pa.readers[t]
               \/ pa'.readers[t] = "none" /\ (pa.readers[t] # "none" => se'[t].closed)
            /\ pa.source = t => pa'.source = t \/ se'[t].closed
            /\ pa'.source = t => pa.source = t /\ pa'.ready = pa.ready
    <3>1. CASE se[s].ss = "initial"
      <4>1. se' = se /\ pa' = pa BY <1>1, <1>3, <3>1 DEF leftPath, onClosePath
      <4>2. \A t : Same(se[t], se[t]) BY DEF Same
      <4>3. ViewInv' BY <1>0, <4>1 DEF ViewInv
      <4>4. se[s].closed BY <1>0, <2>0 DEF SessionInv
      <4> QED BY <1>0, <2>0, <4>1, <4>2, <4>3, <4>4
    <3>2. CASE se[s].ss # "initial"
      <4> DEFINE g == closing(droppedBy(s), se)
                 x == [g[s] EXCEPT !.path = NilPath]
      <4>1. /\ pa' \in PathType /\ ViewInv'
            /\ g \in [Sessions -> SessionType]
            /\ \A t \in Sessions : Same(g[t], se[t]) /\ g[t].pc = se[t].pc /\ g[t].res = se[t].res /\ (se[t].closed => g[t].closed)
            /\ \A t \in Sessions : t # s =>
                /\ \/ pa'.readers[t] = pa.readers[t]
                   \/ pa'.readers[t] = "none" /\ (pa.readers[t] # "none" => g[t].closed)
                /\ pa.source = t => pa'.source = t
                /\ pa'.source = t => pa.source = t /\ pa'.ready = pa.ready
        BY <1>1, <3>2, ClosePathFacts
      <4>2. se' = [g EXCEPT ![s] = x] BY <1>3, <3>2, <4>1 DEF leftPath
      <4> HIDE DEF g
      <4>3. /\ x \in SessionType /\ x.pc = se[s].pc /\ x.ss = se[s].ss /\ x.state = se[s].state
            /\ x.authFailures = se[s].authFailures /\ x.kicked /\ x.closed
        <5>1. /\ g[s] \in SessionType /\ Same(g[s], se[s]) /\ g[s].closed /\ g[s].pc = se[s].pc
          BY <1>0, <2>0, <4>1 DEF SessionInv
        <5> QED BY <2>0, <5>1 DEF SessionType, Same
      <4> HIDE DEF x
      <4>4. se'[s] = x /\ \A t \in Sessions : t # s => se'[t] = g[t] BY <4>1, <4>2
      <4>5. se' \in [Sessions -> SessionType] BY <4>1, <4>2, <4>3
      <4> QED BY <4>1, <4>3, <4>4, <4>5
    <3> QED BY <3>1, <3>2
  <2>3. \A t \in Sessions : se[t].kicked => se'[t].kicked BY <2>2 DEF Same
  <2>4. KickInv' /\ HandlersDontPanic'
    BY <1>0, <1>1, <2>1, <2>3 DEF KickInv, HandlersDontPanic, Alive
  <2>5. TypeOK' BY <1>1, <2>1, <2>2 DEF Inv, TypeOK
  <2>6. SessionInv(s)' BY <1>0, <1>1, <2>2 DEF SessionInv
  <2>7. ASSUME NEW t \in Sessions, t # s PROVE SessionInv(t)' BY <1>1, <2>2, <2>7, Others
  <2> QED BY <2>2, <2>4, <2>5, <2>6, <2>7 DEF Inv
<1> QED BY <1>2, <1>3 DEF OnCloseRemove

\* The kicks themselves, and the panics they may cause.
LEMMA KickInvs ==
    ASSUME Inv, Alive, NEW k \in Kickers, NEW s \in Sessions, KickFind(k, s) \/ KickDelete(k)
    PROVE  Inv'
<1>0. /\ se \in [Sessions -> SessionType] /\ se[s] \in SessionType /\ SessionInv(s)
      /\ pa \in PathType /\ ViewInv /\ sessions \subseteq Sessions
      /\ kick \in [Kickers -> KickType] /\ KickInv /\ HandlersDontPanic
  BY DEF Inv, TypeOK
<1>1. CASE KickFind(k, s)
  <2> DEFINE x == [se[s] EXCEPT !.closed = TRUE, !.kicked = TRUE]
             y == [pc |-> "delete", target |-> s]
  <2>1. /\ x \in SessionType /\ x.kicked /\ x.closed /\ x.pc = se[s].pc
        /\ x.state = se[s].state /\ x.ss = se[s].ss /\ x.authFailures = se[s].authFailures
    BY <1>0 DEF SessionType
  <2>2. se' = [se EXCEPT ![s] = x] /\ kick' = [kick EXCEPT ![k] = y]
        /\ UNCHANGED <<sessions, ctxDone, path, panicked>>
    BY <1>0, <1>1 DEF KickFind
  <2>3. y \in KickType /\ y.target = s BY DEF KickType
  <2> HIDE DEF x, y
  <2>4. /\ se' \in [Sessions -> SessionType] /\ se'[s] = x
        /\ \A t \in Sessions : t # s => se'[t] = se[t] /\ Same(se'[t], se[t])
    BY <1>0, <2>1, <2>2 DEF Same
  <2>5. /\ kick' \in [Kickers -> KickType] /\ kick'[k] = y
        /\ \A j \in Kickers : j # k => kick'[j] = kick[j]
    BY <1>0, <2>2, <2>3
  <2>6. \A t \in Sessions : se[t].kicked => se'[t].kicked BY <2>1, <2>4
  <2>7. KickInv' BY <1>0, <2>1, <2>3, <2>4, <2>5, <2>6 DEF KickInv
  <2>8. HandlersDontPanic' BY <2>1, <2>4 DEF HandlersDontPanic, Kicked
  <2>9. TypeOK' BY <2>2, <2>4, <2>5 DEF Inv, TypeOK
  <2>10. SessionInv(s)' BY <1>0, <2>1, <2>2, <2>4 DEF SessionInv
  <2>11. ASSUME NEW t \in Sessions, t # s PROVE SessionInv(t)' BY <2>2, <2>4, <2>11, Others
  <2>12. ViewInv' BY <1>0, <2>2 DEF ViewInv
  <2> QED BY <2>7, <2>8, <2>9, <2>10, <2>11, <2>12 DEF Inv
<1>2. ASSUME KickDelete(k), ~Panic PROVE Inv'
  <2>1. /\ sessions' = sessions \ {kick[k].target} /\ kick' = [kick EXCEPT ![k].pc = "onClose"]
        /\ UNCHANGED <<se, ctxDone, path, panicked>> /\ kick[k].pc = "delete"
    BY <1>2 DEF KickDelete
  <2>2. /\ kick' \in [Kickers -> KickType]
        /\ \A j \in Kickers : kick'[j].target = kick[j].target /\ (kick'[j].pc # "idle" => kick[j].pc # "idle")
    BY <1>0, <2>1 DEF KickType
  <2>3. KickInv' /\ HandlersDontPanic' /\ ViewInv'
    BY <1>0, <2>1, <2>2 DEF KickInv, HandlersDontPanic, Alive, ViewInv
  <2>4. TypeOK' BY <2>1, <2>2 DEF Inv, TypeOK
  <2>5. ASSUME NEW t \in Sessions PROVE SessionInv(t)'
    <3>1. SessionInv(t) BY DEF Inv
    <3>2. t = kick[k].target => se[t].kicked BY <1>0, <2>1 DEF KickInv
    <3> QED BY <2>1, <3>1, <3>2 DEF SessionInv, OwnInv
  <2> QED BY <2>3, <2>4, <2>5 DEF Inv
<1>3. CASE KickDelete(k) /\ Panic
  <2>1. Kicked BY <1>0, <1>3 DEF KickDelete, KickInv, Kicked
  <2> QED BY <1>3, <2>1, PanicInv
<1> QED BY <1>1, <1>2, <1>3

LEMMA ClosePanicsInv ==
    ASSUME Inv, Alive, NEW s \in Sessions, OnClosePanics(s) \/ NoSession(s)
    PROVE  Inv'
<1>0. SessionInv(s) /\ KickInv BY DEF Inv
<1>1. Panic BY DEF OnClosePanics, NoSession
<1>2. se[s].kicked \/ KeepsOldCmd(s)
  <2>1. CASE NoSession(s)
    BY <1>0, <2>1 DEF NoSession, Takes, SessionInv, OwnInv, Ending
  <2>2. CASE OnClosePanics(s)
    <3>1. ASSUME NEW p \in {"onClose", "remove"}, s \in inOnClose(p), ~se[s].kicked
          PROVE  se[s].pc = p
      BY <1>0, <3>1 DEF inOnClose, KickInv
    <3> QED BY <1>0, <2>2, <3>1
      DEF OnClosePanics, SessionInv, OwnInv, closeCmdPanics, closesCmd, KeepsOldCmd, Ending
  <2> QED BY <2>1, <2>2
<1> QED BY <1>1, <1>2, PanicInv DEF Kicked

LEMMA NextInv == Inv /\ [Next]_vars => Inv'
<1> SUFFICES ASSUME Inv, [Next]_vars PROVE Inv' OBVIOUS
<1>1. CASE UNCHANGED vars
  <2>1. ASSUME NEW t \in Sessions PROVE SessionInv(t)'
    BY <1>1 DEF vars, Inv, SessionInv, OwnInv
  <2>2. TypeOK' /\ ViewInv' /\ KickInv' /\ HandlersDontPanic'
    BY <1>1 DEF vars, Inv, TypeOK, ViewInv, KickInv, HandlersDontPanic, Kicked, KeepsOldCmd
  <2> QED BY <2>1, <2>2 DEF Inv
<1>a. ASSUME ~UNCHANGED vars PROVE Alive
  <2> SUFFICES ASSUME panicked PROVE FALSE BY DEF Alive
  <2> QED BY <1>a DEF Next, Finished, Alive, Requests, Takes, CloseServer, OnSessionOpen,
       OnSessionClose, NoSession, LoginFails, AuthPauseEnds, Refused, OnSetup, SetUp,
       SetUpBadTrack, OnPlay, Played, OnPause, Paused, OnAnnounce, Announced, OnRecord,
       OnPausePublish, OnCloseCmd, OnCloseRemove, OnClosePanics, KickFind, KickDelete,
       RequestsTimeOut, OnDemandClose, OtherReady, OtherGone, PathEnds, PathCreated
<1>2. ASSUME NEW s \in Sessions, Requests(s), Alive PROVE Inv'
  BY <1>2, OwnSteps, ReaderSteps, AnnounceInv, RecordInv, PausePublishInv, ClosePanicsInv
  DEF Requests
<1>3. ASSUME NEW s \in Sessions,
             \/ OnSessionOpen(s) \/ OnSessionClose(s)
             \/ OnCloseCmd(s) \/ OnCloseRemove(s) \/ OnClosePanics(s),
             Alive
      PROVE  Inv'
  BY <1>3, OwnSteps, CloseCmdInv, CloseRemoveInv, ClosePanicsInv
<1>4. ASSUME NEW k \in Kickers, KickDelete(k) \/ \E s \in Sessions : KickFind(k, s), Alive
      PROVE  Inv'
  <2>1. \E s \in Sessions : TRUE
    BY <1>4 DEF KickDelete, Inv, KickInv
  <2> QED BY <1>4, <2>1, KickInvs
<1>5. ASSUME \/ CloseServer \/ RequestsTimeOut \/ OnDemandClose \/ OtherReady \/ OtherGone
             \/ PathEnds \/ PathCreated,
             Alive
      PROVE  Inv'
  BY <1>5, PathInv
<1> QED BY <1>1, <1>a, <1>2, <1>3, <1>4, <1>5 DEF Next, Finished

\* In every state each session that no kick has found has, at the path and in
\* the server, the place that its state says, for any number of sessions and
\* of API requests.
THEOREM RTSPInvariant == Spec => []Inv
  BY InitInv, NextInv, PTL DEF Spec

\* The types of the sessions, the API requests and the path.
THEOREM RTSPTypeCorrect == Spec => []TypeOK
<1>1. Inv => TypeOK BY DEF Inv
<1> QED BY <1>1, RTSPInvariant, PTL

\* A handler uses a nil session or a nil path, or closes runOnRead twice, only
\* after a kick (rtsp_server.go OnAPIRTSPSessionsKick), or in a session that
\* keeps the command of an earlier PLAY (rtsp_session.go OnPlay): no order of
\* requests, answers, timeouts, drops and closings does it otherwise, whatever
\* paths take the name one after the other.
THEOREM RTSPHandlersDontPanic == Spec => []HandlersDontPanic
<1>1. Inv => HandlersDontPanic BY DEF Inv
<1> QED BY <1>1, RTSPInvariant, PTL

\* A session that the library has closed is known neither to the path nor to
\* the server, and runOnRead has been closed (rtsp_session.go OnClose), unless
\* it was kicked or its first SETUP failed late.
THEOREM RTSPClosedSessionsLeave == Spec => []ClosedSessionsLeave
<1>1. Inv => ClosedSessionsLeave
  BY DEF Inv, SessionInv, OwnInv, ClosedSessionsLeave, Ending, Publishing
<1> QED BY <1>1, RTSPInvariant, PTL

\* Between two requests the state that the API shows, the state of the library
\* and the place at the path agree (rtsp_session.go: the handlers set the state
\* after the path has answered).
THEOREM RTSPSessionMatchesPath == Spec => []SessionMatchesPath
<1>1. Inv => SessionMatchesPath
  <2> SUFFICES ASSUME Inv, NEW s \in sessions, se[s].pc = "idle", ~se[s].closed, ~panicked
               PROVE  /\ se[s].state = se[s].ss
                      /\ se[s].ss # "initial" => listens(s)
                      /\ se[s].ss = "preRead" => pa.readers[s] = "prePlay"
                      /\ se[s].ss = "read" => pa.readers[s] = "play"
                      /\ pa.source = s <=> se[s].ss \in {"prePublish", "publish"}
                      /\ pa.source = s => (pa.ready <=> apiRTSPSessionsList[s] = "publish" /\ se[s].ss = "publish")
                      /\ se[s].onReadCmd = "running" <=> se[s].ss = "read" /\ runOnRead[se[s].path]
                      /\ se[s].authFailures <= 3
    BY DEF SessionMatchesPath
  <2>1. s \in Sessions /\ SessionInv(s) BY DEF Inv, TypeOK
  <2>2. se[s].ss = "publish" => apiRTSPSessionsList[s] = "publish"
    BY <2>1 DEF apiRTSPSessionsList, SessionInv
  <2>3. se[s].ss # "initial" => listens(s)
    <3>1. se[s].ss \in {"initial", "preRead", "read", "prePublish", "publish"} /\ ViewInv
      BY <2>1 DEF Inv, TypeOK, SessionType
    <3>2. ~se[s].kicked /\ ~se[s].badTrack BY <2>1 DEF SessionInv, OwnInv, Ending
    <3> QED BY <2>1, <3>1, <3>2 DEF SessionInv, OwnInv, ViewInv, listens, Publishing
  <2> QED BY <2>1, <2>2, <2>3 DEF SessionInv, OwnInv, Ending, Publishing
<1> QED BY <1>1, RTSPInvariant, PTL

=============================================================================
