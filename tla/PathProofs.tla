----------------------------- MODULE PathProofs -----------------------------
(***************************************************************************)
(* Proofs about Path, for every set of clients and sources and every       *)
(* accepted configuration.  The helpers of the path goroutine are treated  *)
(* one by one: each lemma says which type its result has, which fields it  *)
(* leaves alone (SameControl, SameRequests) and what it makes of the rest. *)
(***************************************************************************)
EXTENDS Path, FiniteSetTheorems, TLAPS

SameControl(p, q) ==
    /\ q.source = p.source /\ q.sourceReady = p.sourceReady /\ q.stream = p.stream
    /\ q.onDemandState = p.onDemandState /\ q.onDemandCloseTimer = p.onDemandCloseTimer

SameRequests(p, q) ==
    /\ q.onDemandReadyTimer = p.onDemandReadyTimer /\ q.res = p.res /\ q.stale = p.stale
    /\ q.describeRequests = p.describeRequests /\ q.setupPlayRequests = p.setupPlayRequests

Answers == {"none", "wait", "stream", "redirect", "error"}

\* Removing readers, panicking or telling a client to leave changes neither the
\* control state nor the requests.
LEMMA PanicAtFacts ==
    ASSUME NEW p \in PaType, NEW c, NEW site \in PanicSites
    PROVE  LET q == panicAt(p, c, site)
           IN q \in PaType /\ SameControl(p, q) /\ SameRequests(p, q)
BY DEF panicAt, PaType, PanicSites, SameControl, SameRequests

LEMMA CloseSourceFacts ==
    ASSUME NEW p \in PaType
    PROVE  LET q == closeSource(p)
           IN q \in PaType /\ SameControl(p, q) /\ SameRequests(p, q)
BY DEF closeSource, PaType, SameControl, SameRequests

LEMMA CountType ==
    ASSUME NEW p \in PaType, NEW rs \in SUBSET Readers
    PROVE  Cardinality(rs \cap playing(p)) \in Int /\ Cardinality(playing(p)) \in Int
<1>1. IsFiniteSet(playing(p)) /\ IsFiniteSet(rs \cap playing(p))
  BY FinitenessAssumption, FS_Subset DEF playing
<1> QED BY <1>1, FS_CardinalityType

LEMMA DoReaderRemoveFacts ==
    ASSUME NEW p \in PaType, NEW rs \in SUBSET Readers
    PROVE  LET q == doReaderRemove(p, rs)
           IN q \in PaType /\ SameControl(p, q) /\ SameRequests(p, q)
<1> DEFINE gone == rs \cap playing(p)
           bad == p.stream = NoStream /\ ~(gone \subseteq RTSPReaders)
           q == panicAt(p, bad, "readerRemove")
           rd == [r \in Readers |-> IF r \in rs THEN "none" ELSE q.readers[r]]
           n == q.countReaders - Cardinality(gone)
<1>0. doReaderRemove(p, rs) = [q EXCEPT !.countReaders = n, !.nonRTSPReaders = @ \ gone, !.readers = rd]
  BY DEF doReaderRemove
<1>c. Cardinality(gone) \in Int BY CountType
<1> HIDE DEF bad, gone
<1>1. q \in PaType /\ SameControl(p, q) /\ SameRequests(p, q)
  BY PanicAtFacts DEF PanicSites
<1> HIDE DEF q
<1>2. rd \in [Readers -> {"none", "prePlay", "play"}] BY <1>1 DEF PaType
<1>3. n \in Int BY <1>1, <1>c DEF PaType
<1> HIDE DEF rd, n
<1> DEFINE t == [q EXCEPT !.countReaders = n, !.nonRTSPReaders = @ \ gone, !.readers = rd]
<1>4. t \in PaType BY <1>1, <1>2, <1>3 DEF PaType
<1>5. SameControl(q, t) BY <1>1 DEF PaType, SameControl
<1>6. SameRequests(q, t) BY <1>1 DEF PaType, SameRequests
<1> HIDE DEF t
<1> QED BY <1>0, <1>1, <1>4, <1>5, <1>6 DEF SameControl, SameRequests, t

LEMMA CloseReadersFacts ==
    ASSUME NEW p \in PaType
    PROVE  LET q == closeReaders(p)
           IN q \in PaType /\ SameControl(p, q) /\ SameRequests(p, q)
<1> DEFINE rs == registered(p)
           q == doReaderRemove(p, rs)
<1>1. rs \in SUBSET Readers BY DEF registered
<1>2. closeReaders(p) = [q EXCEPT !.closed = @ \cup rs] BY DEF closeReaders
<1> HIDE DEF rs
<1>3. q \in PaType /\ SameControl(p, q) /\ SameRequests(p, q) BY <1>1, DoReaderRemoveFacts
<1> HIDE DEF q
<1> QED BY <1>1, <1>2, <1>3 DEF PaType, SameControl, SameRequests

LEMMA SourceSetNotReadyFacts ==
    ASSUME NEW p \in PaType
    PROVE  LET q == sourceSetNotReady(p)
           IN /\ q \in PaType /\ SameRequests(p, q)
              /\ q.sourceReady = FALSE /\ q.stream = NoStream
              /\ q.source = p.source /\ q.onDemandState = p.onDemandState
              /\ q.onDemandCloseTimer = p.onDemandCloseTimer
<1> DEFINE c == closeReaders(p)
           bad == p.stream = NoStream
           q == panicAt(c, bad, "streamClose")
<1>0. sourceSetNotReady(p) = [q EXCEPT !.onPublishCmd = FALSE, !.sourceReady = FALSE,
                                       !.stream = NoStream, !.nonRTSPReaders = {}]
  BY DEF sourceSetNotReady
<1>1. c \in PaType /\ SameControl(p, c) /\ SameRequests(p, c) BY CloseReadersFacts
<1> HIDE DEF bad, c
<1>2. q \in PaType /\ SameControl(c, q) /\ SameRequests(c, q) BY <1>1, PanicAtFacts DEF PanicSites
<1> HIDE DEF q
<1> DEFINE t == [q EXCEPT !.onPublishCmd = FALSE, !.sourceReady = FALSE,
                          !.stream = NoStream, !.nonRTSPReaders = {}]
<1>3. t \in PaType BY <1>2 DEF PaType
<1>4. t.sourceReady = FALSE /\ t.stream = NoStream /\ t.source = q.source
      /\ t.onDemandState = q.onDemandState /\ t.onDemandCloseTimer = q.onDemandCloseTimer
  BY <1>2 DEF PaType
<1>5. SameRequests(q, t) BY <1>2 DEF PaType, SameRequests
<1> HIDE DEF t
<1> QED BY <1>0, <1>1, <1>2, <1>3, <1>4, <1>5 DEF SameControl, SameRequests, t

LEMMA DoPublisherRemoveInitialFacts ==
    ASSUME NEW p \in PaType
    PROVE  LET q == doPublisherRemoveInitial(p)
           IN /\ q \in PaType /\ SameRequests(p, q)
              /\ q.source = "nil" /\ q.sourceReady = FALSE
              /\ q.stream = IF p.sourceReady THEN NoStream ELSE p.stream
              /\ q.onDemandState = p.onDemandState
              /\ q.onDemandCloseTimer = p.onDemandCloseTimer
<1> DEFINE d == [p EXCEPT !.countPublishers = @ - 1]
           n == sourceSetNotReady(d)
           q == IF p.sourceReady THEN n ELSE p
           t == [q EXCEPT !.source = "nil"]
<1>1. d \in PaType /\ SameControl(p, d) /\ SameRequests(p, d)
  BY DEF PaType, SameControl, SameRequests
<1>0. doPublisherRemoveInitial(p) = closeReaders(t) BY DEF doPublisherRemoveInitial
<1> HIDE DEF d
<1>2. /\ n \in PaType /\ SameRequests(d, n) /\ n.sourceReady = FALSE /\ n.stream = NoStream
      /\ n.onDemandState = d.onDemandState /\ n.onDemandCloseTimer = d.onDemandCloseTimer
  BY <1>1, SourceSetNotReadyFacts
<1> HIDE DEF n
<1>3. /\ q \in PaType /\ SameRequests(p, q) /\ q.sourceReady = FALSE
      /\ q.stream = IF p.sourceReady THEN NoStream ELSE p.stream
      /\ q.onDemandState = p.onDemandState /\ q.onDemandCloseTimer = p.onDemandCloseTimer
  <2>1. CASE p.sourceReady BY <2>1, <1>1, <1>2 DEF SameControl, SameRequests
  <2>2. CASE ~p.sourceReady BY <2>2 DEF SameRequests, PaType
  <2> QED BY <2>1, <2>2
<1> HIDE DEF q
<1>4. t \in PaType /\ SameRequests(q, t) BY <1>3 DEF PaType, SameRequests
<1>5. t.source = "nil" /\ t.sourceReady = q.sourceReady /\ t.stream = q.stream
      /\ t.onDemandState = q.onDemandState /\ t.onDemandCloseTimer = q.onDemandCloseTimer
  BY <1>3 DEF PaType
<1> HIDE DEF t
<1>6. LET u == closeReaders(t) IN u \in PaType /\ SameControl(t, u) /\ SameRequests(t, u)
  BY <1>4, CloseReadersFacts
<1> QED BY <1>0, <1>3, <1>4, <1>5, <1>6 DEF SameControl, SameRequests

LEMMA CloseStaticSourceFacts ==
    ASSUME NEW p \in PaType
    PROVE  LET q == closeStaticSource(p)
           IN /\ q \in PaType /\ SameRequests(p, q)
              /\ q.source = "nil" /\ q.sourceReady = FALSE
              /\ q.stream = IF p.sourceReady THEN NoStream ELSE p.stream
              /\ q.onDemandState = p.onDemandState
              /\ q.onDemandCloseTimer = p.onDemandCloseTimer
<1> DEFINE n == sourceSetNotReady(p)
           q == IF p.sourceReady THEN n ELSE p
           bad == q.source \notin Sources \cup Publishers
           r == panicAt(q, bad, "closeStatic")
           c == closeSource(r)
           t == [c EXCEPT !.source = "nil"]
<1>0. closeStaticSource(p) = t BY DEF closeStaticSource
<1>2. /\ n \in PaType /\ SameRequests(p, n) /\ n.sourceReady = FALSE /\ n.stream = NoStream
      /\ n.onDemandState = p.onDemandState /\ n.onDemandCloseTimer = p.onDemandCloseTimer
  BY SourceSetNotReadyFacts
<1> HIDE DEF n
<1>3. /\ q \in PaType /\ SameRequests(p, q) /\ q.sourceReady = FALSE
      /\ q.stream = IF p.sourceReady THEN NoStream ELSE p.stream
      /\ q.onDemandState = p.onDemandState /\ q.onDemandCloseTimer = p.onDemandCloseTimer
  <2>1. CASE p.sourceReady BY <2>1, <1>2 DEF SameRequests
  <2>2. CASE ~p.sourceReady BY <2>2 DEF SameRequests, PaType
  <2> QED BY <2>1, <2>2
<1> HIDE DEF q, bad
<1>4. r \in PaType /\ SameControl(q, r) /\ SameRequests(q, r) BY <1>3, PanicAtFacts DEF PanicSites
<1> HIDE DEF r
<1>5. c \in PaType /\ SameControl(r, c) /\ SameRequests(r, c) BY <1>4, CloseSourceFacts
<1> HIDE DEF c
<1>6. t \in PaType /\ SameRequests(c, t) BY <1>5 DEF PaType, SameRequests
<1>7. t.source = "nil" /\ t.sourceReady = c.sourceReady /\ t.stream = c.stream
      /\ t.onDemandState = c.onDemandState /\ t.onDemandCloseTimer = c.onDemandCloseTimer
  BY <1>5 DEF PaType
<1> HIDE DEF t
<1> QED BY <1>0, <1>3, <1>4, <1>5, <1>6, <1>7 DEF SameControl, SameRequests

\* Only a command whose publisher has not come yet has no source to close.
LEMMA CloseOnDemandCmdFacts ==
    ASSUME NEW p \in PaType
    PROVE  LET q == closeOnDemandCmd(p)
           IN /\ q \in PaType /\ SameRequests(p, q)
              /\ q.source = "nil"
              /\ q.sourceReady = (p.sourceReady /\ p.source = "nil")
              /\ q.stream = IF p.sourceReady /\ p.source # "nil" THEN NoStream ELSE p.stream
              /\ q.onDemandState = p.onDemandState
              /\ q.onDemandCloseTimer = p.onDemandCloseTimer
<1> DEFINE bad == ~p.onDemandCmd
           a == panicAt(p, bad, "closeCmd")
           q == [a EXCEPT !.onDemandCmd = FALSE]
           c == closeSource(q)
           i == doPublisherRemoveInitial(c)
<1>0. closeOnDemandCmd(p) = IF q.source = "nil" THEN q ELSE i BY DEF closeOnDemandCmd
<1> HIDE DEF bad
<1>1. a \in PaType /\ SameControl(p, a) /\ SameRequests(p, a) BY PanicAtFacts DEF PanicSites
<1> HIDE DEF a
<1>2a. q \in PaType BY <1>1 DEF PaType
<1>2. SameControl(a, q) /\ SameRequests(a, q) BY <1>1 DEF PaType, SameControl, SameRequests
<1> HIDE DEF q
<1>3. c \in PaType /\ SameControl(q, c) /\ SameRequests(q, c) BY <1>2a, CloseSourceFacts
<1> HIDE DEF c
<1>4. /\ i \in PaType /\ SameRequests(c, i) /\ i.source = "nil" /\ i.sourceReady = FALSE
      /\ i.stream = IF c.sourceReady THEN NoStream ELSE c.stream
      /\ i.onDemandState = c.onDemandState /\ i.onDemandCloseTimer = c.onDemandCloseTimer
  BY <1>3, DoPublisherRemoveInitialFacts
<1> HIDE DEF i
<1>5. p.sourceReady \in BOOLEAN BY DEF PaType
<1>6. CASE p.source = "nil" BY <1>6, <1>0, <1>1, <1>2a, <1>2, <1>5 DEF SameControl, SameRequests
<1>7. CASE p.source # "nil" BY <1>7, <1>0, <1>1, <1>2, <1>3, <1>4, <1>5 DEF SameControl, SameRequests
<1> QED BY <1>6, <1>7

LEMMA OnDemandCloseSourceFacts ==
    ASSUME NEW p \in PaType
    PROVE  LET q == onDemandCloseSource(p)
           IN /\ q \in PaType /\ SameRequests(p, q)
              /\ q.source = "nil" /\ q.onDemandState = "initial"
              /\ q.onDemandCloseTimer = (p.onDemandCloseTimer /\ p.onDemandState # "closing")
              /\ q.sourceReady = (p.sourceReady /\ ~hasStaticSource /\ p.source = "nil")
              /\ q.stream = IF p.sourceReady /\ ~q.sourceReady THEN NoStream ELSE p.stream
<1> DEFINE tm == p.onDemandCloseTimer /\ p.onDemandState # "closing"
           d == [p EXCEPT !.onDemandCloseTimer = tm, !.onDemandState = "initial"]
           s == closeStaticSource(d)
           c == closeOnDemandCmd(d)
<1>0. onDemandCloseSource(p) = IF hasStaticSource THEN s ELSE c BY DEF onDemandCloseSource
<1>t. tm \in BOOLEAN OBVIOUS
<1>b. hasStaticSource \in BOOLEAN BY DEF hasStaticSource
<1> HIDE DEF tm
<1>1. d \in PaType /\ SameRequests(p, d) BY <1>t DEF PaType, SameRequests
<1>2. d.onDemandCloseTimer = tm /\ d.onDemandState = "initial" /\ d.source = p.source
      /\ d.sourceReady = p.sourceReady /\ d.stream = p.stream /\ p.sourceReady \in BOOLEAN
  BY DEF PaType
<1> HIDE DEF d
<1>3. /\ s \in PaType /\ SameRequests(d, s) /\ s.source = "nil" /\ s.sourceReady = FALSE
      /\ s.stream = IF d.sourceReady THEN NoStream ELSE d.stream
      /\ s.onDemandState = d.onDemandState /\ s.onDemandCloseTimer = d.onDemandCloseTimer
  BY <1>1, CloseStaticSourceFacts
<1>4. /\ c \in PaType /\ SameRequests(d, c) /\ c.source = "nil"
      /\ c.sourceReady = (d.sourceReady /\ d.source = "nil")
      /\ c.stream = IF d.sourceReady /\ d.source # "nil" THEN NoStream ELSE d.stream
      /\ c.onDemandState = d.onDemandState /\ c.onDemandCloseTimer = d.onDemandCloseTimer
  BY <1>1, CloseOnDemandCmdFacts
<1> HIDE DEF s, c
<1>5. CASE hasStaticSource BY <1>5, <1>0, <1>1, <1>2, <1>3 DEF SameRequests, tm
<1>6. CASE ~hasStaticSource BY <1>6, <1>0, <1>1, <1>2, <1>4 DEF SameRequests, tm
<1> QED BY <1>5, <1>6, <1>b

(***************************************************************************)
(* The inductive invariant, field by field: Held and Agrees are            *)
(* HeldRequestsWait and, inside the loop of run(), OnDemandStateAgrees, of *)
(* an arbitrary value of the path struct.                                  *)
(***************************************************************************)
Waits(p) ==
    /\ \A d \in Describers : p.res[d] = "wait" <=> d \in p.describeRequests
    /\ \A r \in Readers : p.res[r] = "wait" <=> r \in p.setupPlayRequests

Held(p) ==
    /\ Waits(p)
    /\ ~p.stale /\ p.describeRequests \cup p.setupPlayRequests # {} =>
            p.onDemandReadyTimer /\ p.onDemandState = "waitingReady" /\ ~p.sourceReady

Timers(p) ==
    ~p.stale => /\ p.onDemandReadyTimer <=> p.onDemandState = "waitingReady"
                /\ p.onDemandCloseTimer <=> p.onDemandState = "closing"

Ready(p) ==
    /\ ~isOnDemand => p.onDemandState = "initial"
    /\ isOnDemand => (p.sourceReady <=> p.onDemandState \in {"ready", "closing"})
    /\ p.sourceReady <=> p.stream # NoStream

Good(p) == p \in PaType /\ Held(p) /\ Ready(p) /\ Timers(p)

\* The part of SourceMatchesConf that is about the path struct.
Owned(p) ==
    /\ ~hasStaticSource => p.source \notin Sources
    /\ conf.source = "publisher" /\ p.sourceReady => p.source \in Publishers
    /\ conf.source = "redirect" <=> p.source = "redirect"
    /\ conf.source = "redirect" => ~p.sourceReady
    /\ p.stale => hasStaticSource

LEMMA ConfFacts ==
    ASSUME conf \in Confs
    PROVE  /\ conf.source \in {"publisher", "static", "redirect"}
           /\ hasStaticSource \in BOOLEAN /\ isOnDemand \in BOOLEAN
           /\ hasStaticSource <=> conf.source = "static"
           /\ isOnDemand => conf.source # "redirect"
           /\ conf.runOnPublish \in BOOLEAN
BY ConfsAssumption DEF ConfType, ValidConf, hasStaticSource, isOnDemand

\* A source that stops leaves a path that is not ready, in its initial on
\* demand state.
LEMMA SourceStopsFacts ==
    ASSUME NEW p \in PaType, conf \in Confs,
           p.sourceReady /\ ~hasStaticSource => p.source # "nil",
           Ready(p)
    PROVE  LET q == sourceStops(p)
           IN /\ q \in PaType /\ SameRequests(p, q)
              /\ q.source \in {"nil", p.source}
              /\ q.sourceReady = FALSE /\ q.stream = NoStream
              /\ q.onDemandState = "initial"
              /\ q.onDemandCloseTimer = (p.onDemandCloseTimer /\ p.onDemandState # "closing")
<1> DEFINE c == onDemandCloseSource(p)
           n == sourceSetNotReady(p)
<1>0. sourceStops(p) = IF isOnDemand /\ p.onDemandState # "initial" THEN c ELSE n
  BY DEF sourceStops
<1>1. /\ c \in PaType /\ SameRequests(p, c) /\ c.source = "nil" /\ c.onDemandState = "initial"
      /\ c.onDemandCloseTimer = (p.onDemandCloseTimer /\ p.onDemandState # "closing")
      /\ c.sourceReady = (p.sourceReady /\ ~hasStaticSource /\ p.source = "nil")
      /\ c.stream = IF p.sourceReady /\ ~c.sourceReady THEN NoStream ELSE p.stream
  BY OnDemandCloseSourceFacts
<1>2. /\ n \in PaType /\ SameRequests(p, n) /\ n.sourceReady = FALSE /\ n.stream = NoStream
      /\ n.source = p.source /\ n.onDemandState = p.onDemandState
      /\ n.onDemandCloseTimer = p.onDemandCloseTimer
  BY SourceSetNotReadyFacts
<1> HIDE DEF c, n
<1>3. p.sourceReady \in BOOLEAN /\ p.onDemandCloseTimer \in BOOLEAN BY DEF PaType
<1>4. CASE isOnDemand /\ p.onDemandState # "initial"
  BY <1>4, <1>0, <1>1, <1>3 DEF Ready
<1>5. CASE ~(isOnDemand /\ p.onDemandState # "initial")
  <2>1. p.onDemandState = "initial" BY <1>5, ConfFacts DEF Ready
  <2> QED BY <2>1, <1>5, <1>0, <1>2, <1>3
<1> QED BY <1>4, <1>5

LEMMA DoPublisherRemoveFacts ==
    ASSUME NEW p \in PaType, conf \in Confs,
           p.sourceReady /\ ~hasStaticSource => p.source # "nil",
           Ready(p)
    PROVE  LET q == doPublisherRemove(p)
           IN /\ q \in PaType /\ SameRequests(p, q)
              /\ q.source = "nil" /\ q.sourceReady = FALSE /\ q.stream = NoStream
              /\ q.onDemandState = IF p.sourceReady THEN "initial" ELSE p.onDemandState
              /\ q.onDemandCloseTimer = (p.onDemandCloseTimer
                                          /\ (p.sourceReady => p.onDemandState # "closing"))
<1> DEFINE d == [p EXCEPT !.countPublishers = @ - 1]
           n == sourceStops(d)
           q == IF p.sourceReady THEN n ELSE p
           t == [q EXCEPT !.source = "nil"]
<1>0. doPublisherRemove(p) = closeReaders(t) BY DEF doPublisherRemove
<1>b. p.sourceReady \in BOOLEAN /\ p.onDemandCloseTimer \in BOOLEAN BY DEF PaType
<1>1. d \in PaType /\ SameControl(p, d) /\ SameRequests(p, d)
  BY DEF PaType, SameControl, SameRequests
<1> HIDE DEF d
<1>r. Ready(d) /\ (d.sourceReady /\ ~hasStaticSource => d.source # "nil")
  BY <1>1 DEF Ready, SameControl
<1>2. /\ n \in PaType /\ SameRequests(d, n) /\ n.sourceReady = FALSE /\ n.stream = NoStream
      /\ n.onDemandState = "initial"
      /\ n.onDemandCloseTimer = (d.onDemandCloseTimer /\ d.onDemandState # "closing")
  BY <1>1, <1>r, SourceStopsFacts
<1> HIDE DEF n
<1>3. /\ q \in PaType /\ SameRequests(p, q) /\ q.sourceReady = FALSE /\ q.stream = NoStream
      /\ q.onDemandState = IF p.sourceReady THEN "initial" ELSE p.onDemandState
      /\ q.onDemandCloseTimer = (p.onDemandCloseTimer
                                  /\ (p.sourceReady => p.onDemandState # "closing"))
  <2>1. CASE p.sourceReady BY <2>1, <1>b, <1>1, <1>2 DEF SameControl, SameRequests
  <2>2. CASE ~p.sourceReady BY <2>2, <1>b DEF SameRequests, Ready
  <2> QED BY <2>1, <2>2
<1> HIDE DEF q
<1>4. t \in PaType /\ SameRequests(q, t) BY <1>3 DEF PaType, SameRequests
<1>5. t.source = "nil" /\ t.sourceReady = q.sourceReady /\ t.stream = q.stream
      /\ t.onDemandState = q.onDemandState /\ t.onDemandCloseTimer = q.onDemandCloseTimer
  BY <1>3 DEF PaType
<1> HIDE DEF t
<1>6. LET u == closeReaders(t) IN u \in PaType /\ SameControl(t, u) /\ SameRequests(t, u)
  BY <1>4, CloseReadersFacts
<1> QED BY <1>0, <1>3, <1>4, <1>5, <1>6 DEF SameControl, SameRequests

\* Facts about answering requests.
LEMMA AnswerFacts ==
    ASSUME NEW p \in PaType, NEW reqs, NEW a \in Answers
    PROVE  LET q == answer(p, reqs, a)
           IN /\ q \in PaType /\ SameControl(p, q) /\ q.stale = p.stale
              /\ q.onDemandReadyTimer = p.onDemandReadyTimer
              /\ q.describeRequests = p.describeRequests
              /\ q.setupPlayRequests = p.setupPlayRequests
              /\ q.readers = p.readers
              /\ \A x \in Requesters : q.res[x] = IF x \in reqs THEN a ELSE p.res[x]
<1> DEFINE f == [x \in Requesters |-> IF x \in reqs THEN a ELSE p.res[x]]
<1>1. f \in [Requesters -> Answers] BY DEF PaType, Answers
<1>2. answer(p, reqs, a) = [p EXCEPT !.res = f] BY DEF answer
<1>3. \A x \in Requesters : f[x] = IF x \in reqs THEN a ELSE p.res[x] OBVIOUS
<1> HIDE DEF f
<1> DEFINE t == [p EXCEPT !.res = f]
<1>4. t \in PaType BY <1>1 DEF PaType, Answers
<1>5. SameControl(p, t) BY DEF PaType, SameControl
<1>6. /\ t.stale = p.stale /\ t.onDemandReadyTimer = p.onDemandReadyTimer /\ t.res = f
      /\ t.describeRequests = p.describeRequests /\ t.setupPlayRequests = p.setupPlayRequests
      /\ t.readers = p.readers
  BY DEF PaType
<1> HIDE DEF t
<1> QED BY <1>2, <1>3, <1>4, <1>5, <1>6 DEF t

LEMMA FailHeldFacts ==
    ASSUME NEW p \in PaType, Waits(p)
    PROVE  LET q == failHeld(p)
           IN /\ q \in PaType /\ SameControl(p, q) /\ q.stale = p.stale
              /\ q.onDemandReadyTimer = p.onDemandReadyTimer
              /\ q.describeRequests = {} /\ q.setupPlayRequests = {} /\ Waits(q)
<1> DEFINE rs == p.describeRequests \cup p.setupPlayRequests
           q == answer(p, rs, "error")
           t == [q EXCEPT !.describeRequests = {}, !.setupPlayRequests = {}]
<1>0. failHeld(p) = t BY DEF failHeld
<1>1. \A x \in Requesters : p.res[x] = "wait" => x \in rs BY DEF Waits, Requesters
<1> HIDE DEF rs
<1>2. /\ q \in PaType /\ SameControl(p, q) /\ q.stale = p.stale
      /\ q.onDemandReadyTimer = p.onDemandReadyTimer
      /\ \A x \in Requesters : q.res[x] = IF x \in rs THEN "error" ELSE p.res[x]
  BY AnswerFacts DEF Answers
<1> HIDE DEF q
<1>3. t \in PaType BY <1>2 DEF PaType
<1>4. SameControl(q, t) BY <1>2 DEF PaType, SameControl
<1>5. t.stale = q.stale /\ t.onDemandReadyTimer = q.onDemandReadyTimer /\ t.res = q.res
      /\ t.describeRequests = {} /\ t.setupPlayRequests = {}
  BY <1>2 DEF PaType
<1> HIDE DEF t
<1>6. Waits(t) BY <1>1, <1>2, <1>5 DEF Waits, Requesters
<1> QED BY <1>0, <1>2, <1>3, <1>4, <1>5, <1>6 DEF SameControl

\* Registering readers, which may reopen a source about to be closed.
LEMMA SetupPlayPostFacts ==
    ASSUME NEW p \in PaType, NEW rs \in SUBSET Readers, conf \in Confs
    PROVE  LET q == handleReaderSetupPlayPost(p, rs)
               reopen == rs # {} /\ isOnDemand /\ p.onDemandState = "closing"
           IN /\ q \in PaType /\ q.stale = p.stale
              /\ q.source = p.source /\ q.sourceReady = p.sourceReady /\ q.stream = p.stream
              /\ q.onDemandReadyTimer = p.onDemandReadyTimer
              /\ q.describeRequests = p.describeRequests
              /\ q.setupPlayRequests = p.setupPlayRequests
              /\ q.onDemandState = IF reopen THEN "ready" ELSE p.onDemandState
              /\ q.onDemandCloseTimer = (p.onDemandCloseTimer /\ ~reopen)
              /\ \A x \in Requesters : q.res[x] = IF x \in rs THEN "stream" ELSE p.res[x]
<1> DEFINE reopen == rs # {} /\ isOnDemand /\ p.onDemandState = "closing"
           rd == [r \in Readers |-> IF r \in rs THEN "prePlay" ELSE p.readers[r]]
           st == IF reopen THEN "ready" ELSE p.onDemandState
           tm == p.onDemandCloseTimer /\ ~reopen
           t == [p EXCEPT !.readers = rd, !.onDemandState = st, !.onDemandCloseTimer = tm]
           q == answer(t, rs, "stream")
<1>0. handleReaderSetupPlayPost(p, rs) = q BY DEF handleReaderSetupPlayPost
<1>1. rd \in [Readers -> {"none", "prePlay", "play"}] BY DEF PaType
<1>2. st \in {"initial", "waitingReady", "ready", "closing"} /\ tm \in BOOLEAN BY DEF PaType
<1> HIDE DEF rd, st, tm, reopen
<1>3. t \in PaType BY <1>1, <1>2 DEF PaType
<1>4. /\ t.source = p.source /\ t.sourceReady = p.sourceReady /\ t.stream = p.stream
      /\ t.stale = p.stale /\ t.onDemandReadyTimer = p.onDemandReadyTimer /\ t.res = p.res
  BY DEF PaType
<1>5. /\ t.describeRequests = p.describeRequests /\ t.setupPlayRequests = p.setupPlayRequests
      /\ t.onDemandState = st /\ t.onDemandCloseTimer = tm
  BY DEF PaType
<1> HIDE DEF t
<1>6. /\ q \in PaType /\ SameControl(t, q) /\ q.stale = t.stale
      /\ q.onDemandReadyTimer = t.onDemandReadyTimer
      /\ q.describeRequests = t.describeRequests /\ q.setupPlayRequests = t.setupPlayRequests
      /\ \A x \in Requesters : q.res[x] = IF x \in rs THEN "stream" ELSE t.res[x]
  BY <1>3, AnswerFacts DEF Answers
<1> HIDE DEF q
<1> QED BY <1>0, <1>4, <1>5, <1>6 DEF SameControl, st, tm, reopen

LEMMA ScheduleCloseFacts ==
    ASSUME NEW p \in PaType
    PROVE  LET q == onDemandScheduleClose(p)
           IN /\ q \in PaType /\ SameRequests(p, q)
              /\ q.source = p.source /\ q.sourceReady = p.sourceReady /\ q.stream = p.stream
              /\ q.onDemandState = "closing" /\ q.onDemandCloseTimer = TRUE
<1> DEFINE t == [p EXCEPT !.onDemandCloseTimer = TRUE, !.onDemandState = "closing"]
<1>1. t \in PaType BY DEF PaType
<1>2. SameRequests(p, t) BY DEF PaType, SameRequests
<1>3. t.source = p.source /\ t.sourceReady = p.sourceReady /\ t.stream = p.stream
      /\ t.onDemandState = "closing" /\ t.onDemandCloseTimer = TRUE
  BY DEF PaType
<1> HIDE DEF t
<1> QED BY <1>1, <1>2, <1>3 DEF onDemandScheduleClose, t

\* A source that becomes ready answers everyone on hold.
LEMMA SourceSetReadyFacts ==
    ASSUME NEW p \in PaType, NEW st \in Streams, conf \in Confs,
           Held(p), Ready(p), Timers(p), ~p.stale => ~p.sourceReady
    PROVE  LET q == sourceSetReady(p, st)
           IN Good(q) /\ q.source = p.source /\ q.sourceReady = TRUE /\ q.stale = p.stale
<1> DEFINE a == [p EXCEPT !.sourceReady = TRUE, !.stream = st, !.nonRTSPReaders = {}]
           ds == a.describeRequests
           rs == a.setupPlayRequests
           b == [a EXCEPT !.onDemandReadyTimer = FALSE, !.describeRequests = {},
                          !.setupPlayRequests = {}]
           c == answer(b, ds, "stream")
           d == handleReaderSetupPlayPost(c, rs)
           e == [d EXCEPT !.onDemandState = "ready"]
           f == onDemandScheduleClose(d)
           q == IF registered(d) # {} THEN e ELSE f
<1>0. sourceSetReady(p, st) = IF isOnDemand THEN q ELSE a BY DEF sourceSetReady, serveHeld
<1>s. st # NoStream
  BY FinitenessAssumption, FS_CardinalityType DEF Streams, NoStream
<1>1. a \in PaType BY DEF PaType
<1>2. SameRequests(p, a) BY DEF PaType, SameRequests
<1>3. /\ a.source = p.source /\ a.sourceReady = TRUE /\ a.stream = st
      /\ a.onDemandState = p.onDemandState /\ a.onDemandCloseTimer = p.onDemandCloseTimer
  BY DEF PaType
<1> HIDE DEF a
<1>4. CASE ~isOnDemand
  <2>1. p.onDemandState = "initial" /\ (~p.stale => ~p.onDemandReadyTimer /\ ~p.onDemandCloseTimer)
    BY <1>4 DEF Ready, Timers
  <2>2. p.stale \/ p.describeRequests \cup p.setupPlayRequests = {} BY <2>1 DEF Held
  <2>3. Held(a) BY <1>2, <2>2 DEF Held, Waits, SameRequests
  <2>4. Ready(a) BY <1>3, <1>4, <1>s, <2>1 DEF Ready
  <2>5. Timers(a) BY <1>2, <1>3, <2>1 DEF Timers, SameRequests
  <2> QED BY <1>0, <1>4, <1>1, <1>2, <1>3, <2>3, <2>4, <2>5 DEF Good, SameRequests
<1>5. CASE isOnDemand
  <2>1. b \in PaType BY <1>1 DEF PaType
  <2>2. SameControl(a, b) BY <1>1 DEF PaType, SameControl
  <2>3. b.stale = a.stale /\ b.res = a.res /\ b.onDemandReadyTimer = FALSE
        /\ b.describeRequests = {} /\ b.setupPlayRequests = {}
    BY <1>1 DEF PaType
  <2>r. rs \in SUBSET Readers /\ ds \in SUBSET Describers BY <1>1 DEF PaType
  <2>w. \A x \in Requesters : a.res[x] = "wait" => x \in ds \/ x \in rs
    BY <1>2 DEF Held, Waits, Requesters, SameRequests
  <2> HIDE DEF b, ds, rs
  <2>4. /\ c \in PaType /\ SameControl(b, c) /\ c.stale = b.stale
        /\ c.onDemandReadyTimer = FALSE /\ c.describeRequests = {} /\ c.setupPlayRequests = {}
        /\ \A x \in Requesters : c.res[x] = IF x \in ds THEN "stream" ELSE b.res[x]
    BY <2>1, <2>3, AnswerFacts DEF Answers
  <2> HIDE DEF c
  <2>5. /\ d \in PaType /\ d.stale = c.stale
        /\ d.source = c.source /\ d.sourceReady = c.sourceReady /\ d.stream = c.stream
        /\ d.onDemandReadyTimer = c.onDemandReadyTimer
        /\ d.describeRequests = c.describeRequests /\ d.setupPlayRequests = c.setupPlayRequests
        /\ d.onDemandCloseTimer => c.onDemandCloseTimer
        /\ \A x \in Requesters : d.res[x] = IF x \in rs THEN "stream" ELSE c.res[x]
    BY <2>4, <2>r, SetupPlayPostFacts
  <2> HIDE DEF d
  <2>6. \A x \in Requesters : d.res[x] # "wait" BY <2>3, <2>4, <2>5, <2>w
  <2>7. /\ f \in PaType /\ SameRequests(d, f) /\ f.source = d.source
        /\ f.sourceReady = d.sourceReady /\ f.stream = d.stream
        /\ f.onDemandState = "closing" /\ f.onDemandCloseTimer = TRUE
    BY <2>5, ScheduleCloseFacts
  <2> HIDE DEF f
  <2>8. e \in PaType /\ SameRequests(d, e) BY <2>5 DEF PaType, SameRequests
  <2>9. e.source = d.source /\ e.sourceReady = d.sourceReady /\ e.stream = d.stream
        /\ e.onDemandState = "ready" /\ e.onDemandCloseTimer = d.onDemandCloseTimer
    BY <2>5 DEF PaType
  <2> HIDE DEF e
  <2>10. ~p.stale => p.onDemandCloseTimer = FALSE
    BY <1>5 DEF Timers, Ready, PaType
  <2>11. /\ q \in PaType /\ SameRequests(d, q) /\ q.source = d.source
         /\ q.sourceReady = d.sourceReady /\ q.stream = d.stream
         /\ q.onDemandState \in {"ready", "closing"}
         /\ q.onDemandState = "closing" => q.onDemandCloseTimer = TRUE
         /\ q.onDemandState = "ready" => q.onDemandCloseTimer = d.onDemandCloseTimer
    BY <2>7, <2>8, <2>9
  <2> HIDE DEF q
  <2>12. q.source = p.source /\ q.sourceReady = TRUE /\ q.stream = st /\ q.stale = p.stale
    BY <2>11, <2>5, <2>4, <2>3, <2>2, <1>2, <1>3 DEF SameControl, SameRequests
  <2>13. Held(q)
    BY <2>11, <2>5, <2>4, <2>6 DEF Held, Waits, Requesters, SameRequests
  <2>14. Ready(q) BY <2>11, <2>12, <1>5, <1>s DEF Ready
  <2>15. Timers(q)
    BY <2>10, <2>11, <2>12, <2>5, <2>4, <2>3, <2>2, <1>3 DEF Timers, SameControl, SameRequests
  <2> QED BY <1>0, <1>5, <2>11, <2>12, <2>13, <2>14, <2>15 DEF Good
<1> QED BY <1>4, <1>5

(***************************************************************************)
(* The handlers keep Good and Owned.                                       *)
(***************************************************************************)
LEMMA SameIsGood ==
    ASSUME NEW p, Good(p), NEW q \in PaType, SameControl(p, q), SameRequests(p, q)
    PROVE  Good(q) /\ (Owned(p) => Owned(q))
BY DEF Good, Held, Waits, Ready, Timers, Owned, SameControl, SameRequests

\* When a publisher leaves or a source stops nobody is on hold, unless the
\* path was not ready.
LEMMA DoPublisherRemoveGood ==
    ASSUME NEW p, Good(p), Owned(p), conf \in Confs, conf.source # "redirect"
    PROVE  LET q == doPublisherRemove(p)
           IN Good(q) /\ Owned(q) /\ q.source = "nil" /\ ~q.sourceReady /\ q.stale = p.stale
<1> DEFINE q == doPublisherRemove(p)
<1>1. p \in PaType /\ Ready(p) /\ Held(p) /\ Timers(p) BY DEF Good
<1>2. p.sourceReady /\ ~hasStaticSource => p.source # "nil"
  BY ConfFacts, ClientsAssumption DEF Owned
<1>3. /\ q \in PaType /\ SameRequests(p, q)
      /\ q.source = "nil" /\ q.sourceReady = FALSE /\ q.stream = NoStream
      /\ q.onDemandState = IF p.sourceReady THEN "initial" ELSE p.onDemandState
      /\ q.onDemandCloseTimer = (p.onDemandCloseTimer
                                  /\ (p.sourceReady => p.onDemandState # "closing"))
  BY <1>1, <1>2, DoPublisherRemoveFacts
<1> HIDE DEF q
<1>b. p.sourceReady \in BOOLEAN /\ p.onDemandCloseTimer \in BOOLEAN BY <1>1 DEF PaType
<1>o. p.sourceReady => p.onDemandState # "waitingReady"
  BY <1>1, ConfFacts DEF Ready
<1>4. Held(q) BY <1>1, <1>3, <1>o DEF Held, Waits, SameRequests
<1>5. Ready(q) BY <1>1, <1>3, <1>b DEF Ready
<1>6. Timers(q) BY <1>1, <1>3, <1>b, <1>o DEF Timers, SameRequests
<1>7. Owned(q) BY <1>3, ClientsAssumption DEF Owned, SameRequests
<1> QED BY <1>3, <1>4, <1>5, <1>6, <1>7 DEF Good, SameRequests, q

LEMMA SourceStopsGood ==
    ASSUME NEW p, Good(p), Owned(p), conf \in Confs, conf.source # "redirect",
           p.sourceReady \/ hasStaticSource
    PROVE  LET q == sourceStops(p)
           IN /\ p.stale \/ p.sourceReady \/ p.onDemandState # "waitingReady" =>
                    Good(q) /\ Owned(q)
              /\ ~q.sourceReady /\ q.stale = p.stale /\ q.source \in {"nil", p.source}
<1> DEFINE q == sourceStops(p)
<1>1. p \in PaType /\ Ready(p) /\ Held(p) /\ Timers(p) BY DEF Good
<1>2. p.sourceReady /\ ~hasStaticSource => p.source # "nil"
  BY ConfFacts, ClientsAssumption DEF Owned
<1>3. /\ q \in PaType /\ SameRequests(p, q) /\ q.source \in {"nil", p.source}
      /\ q.sourceReady = FALSE /\ q.stream = NoStream /\ q.onDemandState = "initial"
      /\ q.onDemandCloseTimer = (p.onDemandCloseTimer /\ p.onDemandState # "closing")
  BY <1>1, <1>2, SourceStopsFacts
<1> HIDE DEF q
<1>4. ASSUME p.stale \/ p.sourceReady \/ p.onDemandState # "waitingReady"
      PROVE  Good(q) /\ Owned(q)
  <2>o. p.stale \/ p.onDemandState # "waitingReady" BY <1>1, <1>4, ConfFacts DEF Ready
  <2>1. Held(q) BY <1>1, <1>3, <2>o DEF Held, Waits, SameRequests
  <2>2. Ready(q) BY <1>3 DEF Ready
  <2>3. Timers(q) BY <1>1, <1>3, <2>o DEF Timers, SameRequests
  <2>4. Owned(q) BY <1>3, ClientsAssumption DEF Owned, SameRequests
  <2> QED BY <1>3, <2>1, <2>2, <2>3, <2>4 DEF Good
<1> QED BY <1>3, <1>4 DEF SameRequests, q

\* The first request of an idle on demand path starts the source.
LEMMA DemandFacts ==
    ASSUME NEW p \in PaType, NEW s \in Sources \cup {"nil"}
    PROVE  LET q == demand(p, s)
           IN /\ q \in PaType /\ q.res = p.res /\ q.stale = p.stale
              /\ q.describeRequests = p.describeRequests
              /\ q.setupPlayRequests = p.setupPlayRequests
              /\ q.sourceReady = p.sourceReady /\ q.stream = p.stream
              /\ q.onDemandCloseTimer = p.onDemandCloseTimer
              /\ q.source = IF p.onDemandState = "initial" /\ hasStaticSource
                            THEN s ELSE p.source
              /\ q.onDemandState = IF p.onDemandState = "initial"
                                   THEN "waitingReady" ELSE p.onDemandState
              /\ q.onDemandReadyTimer = (p.onDemandState = "initial" \/ p.onDemandReadyTimer)
<1> DEFINE a == [p EXCEPT !.source = s]
           b == [p EXCEPT !.onDemandCmd = TRUE]
           c == IF hasStaticSource THEN a ELSE b
           t == [c EXCEPT !.onDemandReadyTimer = TRUE, !.onDemandState = "waitingReady"]
<1>0. demand(p, s) = IF p.onDemandState = "initial" THEN t ELSE p
  BY DEF demand, onDemandStartSource, staticSourceCreate
<1>1. a \in PaType /\ b \in PaType BY DEF PaType
<1>2. /\ SameRequests(p, a) /\ a.source = s /\ a.sourceReady = p.sourceReady
      /\ a.stream = p.stream /\ a.onDemandCloseTimer = p.onDemandCloseTimer
  BY DEF PaType, SameRequests
<1>3. SameRequests(p, b) /\ SameControl(p, b) BY DEF PaType, SameRequests, SameControl
<1> HIDE DEF a, b
<1>4. /\ c \in PaType /\ SameRequests(p, c) /\ c.sourceReady = p.sourceReady
      /\ c.stream = p.stream /\ c.onDemandCloseTimer = p.onDemandCloseTimer
      /\ c.source = IF hasStaticSource THEN s ELSE p.source
  BY <1>1, <1>2, <1>3 DEF SameControl
<1> HIDE DEF c
<1>5. t \in PaType BY <1>4 DEF PaType
<1>6. /\ t.res = c.res /\ t.stale = c.stale /\ t.describeRequests = c.describeRequests
      /\ t.setupPlayRequests = c.setupPlayRequests /\ t.onDemandReadyTimer = TRUE
  BY <1>4 DEF PaType
<1>7. /\ t.sourceReady = c.sourceReady /\ t.stream = c.stream /\ t.source = c.source
      /\ t.onDemandCloseTimer = c.onDemandCloseTimer /\ t.onDemandState = "waitingReady"
  BY <1>4 DEF PaType
<1> HIDE DEF t
<1>8. p.onDemandReadyTimer \in BOOLEAN BY DEF PaType
<1>9. CASE p.onDemandState = "initial"
  BY <1>9, <1>0, <1>4, <1>5, <1>6, <1>7 DEF SameRequests
<1>10. CASE p.onDemandState # "initial" BY <1>10, <1>0, <1>8
<1> QED BY <1>9, <1>10

\* The path after a request was taken: answered, or on hold while a source
\* is started.
Taken(p, q, s) ==
    /\ Good(q) /\ Owned(q) /\ q.stale = p.stale /\ q.sourceReady = p.sourceReady
    /\ \/ q.source = p.source
       \/ q.source = s /\ s \in Sources /\ hasStaticSource /\ ~p.sourceReady

\* The caller x is about to wait.
LEMMA WaitFacts ==
    ASSUME NEW p \in PaType, NEW x \in Requesters
    PROVE  LET w == [p EXCEPT !.res[x] = "wait"]
           IN /\ w \in PaType /\ SameControl(p, w)
              /\ w.stale = p.stale /\ w.onDemandReadyTimer = p.onDemandReadyTimer
              /\ w.describeRequests = p.describeRequests
              /\ w.setupPlayRequests = p.setupPlayRequests
              /\ \A y \in Requesters : w.res[y] = IF y = x THEN "wait" ELSE p.res[y]
<1> DEFINE w == [p EXCEPT !.res[x] = "wait"]
<1>1. w \in PaType BY DEF PaType
<1>2. SameControl(p, w) BY DEF PaType, SameControl
<1>3. /\ w.stale = p.stale /\ w.onDemandReadyTimer = p.onDemandReadyTimer
      /\ w.describeRequests = p.describeRequests /\ w.setupPlayRequests = p.setupPlayRequests
  BY DEF PaType
<1>4. \A y \in Requesters : w.res[y] = IF y = x THEN "wait" ELSE p.res[y]
  BY DEF PaType
<1> HIDE DEF w
<1> QED BY <1>1, <1>2, <1>3, <1>4 DEF w

\* A request that is answered at once, by handleDescribe or handleReaderSetupPlay.
LEMMA AnsweredGood ==
    ASSUME NEW p, Good(p), Owned(p), NEW x \in Requesters, p.res[x] # "wait",
           NEW q \in PaType, SameControl(p, q),
           q.stale = p.stale, q.onDemandReadyTimer = p.onDemandReadyTimer,
           q.describeRequests = p.describeRequests,
           q.setupPlayRequests = p.setupPlayRequests,
           q.res[x] # "wait",
           \A y \in Requesters : y # x => q.res[y] = p.res[y]
    PROVE  Good(q) /\ Owned(q)
<1>1. p \in PaType /\ Held(p) /\ Ready(p) /\ Timers(p) BY DEF Good
<1>2. Waits(q) BY <1>1 DEF Held, Waits, Requesters
<1>3. Held(q) BY <1>1, <1>2 DEF Held, SameControl
<1>4. Ready(q) /\ Timers(q) BY <1>1 DEF Ready, Timers, SameControl
<1>5. Owned(q) BY DEF Owned, SameControl
<1> QED BY <1>3, <1>4, <1>5 DEF Good

\* A request that is put on hold: m is the path once the source was asked for.
LEMMA HeldGood ==
    ASSUME NEW p, Good(p), Owned(p), conf \in Confs, NEW x \in Requesters,
           ~p.sourceReady, isOnDemand,
           NEW s \in Sources \cup {"nil"},
           hasStaticSource /\ p.onDemandState = "initial" => s \in Sources,
           NEW w \in PaType, SameControl(p, w),
           w.stale = p.stale, w.onDemandReadyTimer = p.onDemandReadyTimer,
           w.describeRequests = p.describeRequests,
           w.setupPlayRequests = p.setupPlayRequests,
           \A y \in Requesters : w.res[y] = IF y = x THEN "wait" ELSE p.res[y],
           NEW t \in PaType, SameControl(demand(w, s), t),
           t.stale = demand(w, s).stale, t.res = demand(w, s).res,
           t.onDemandReadyTimer = demand(w, s).onDemandReadyTimer,
           \A d \in Describers : d \in t.describeRequests <=> d = x \/ d \in w.describeRequests,
           \A r \in Readers : r \in t.setupPlayRequests <=> r = x \/ r \in w.setupPlayRequests
    PROVE  Taken(p, t, s)
<1> DEFINE m == demand(w, s)
<1>1. p \in PaType /\ Held(p) /\ Ready(p) /\ Timers(p) BY DEF Good
<1>2. /\ m \in PaType /\ m.res = w.res /\ m.stale = w.stale
      /\ m.sourceReady = w.sourceReady /\ m.stream = w.stream
      /\ m.onDemandCloseTimer = w.onDemandCloseTimer
      /\ m.source = IF w.onDemandState = "initial" /\ hasStaticSource THEN s ELSE w.source
      /\ m.onDemandState = IF w.onDemandState = "initial" THEN "waitingReady" ELSE w.onDemandState
      /\ m.onDemandReadyTimer = (w.onDemandState = "initial" \/ w.onDemandReadyTimer)
  BY DemandFacts
<1>m. SameControl(m, t) /\ t.stale = m.stale /\ t.res = m.res
      /\ t.onDemandReadyTimer = m.onDemandReadyTimer
  OBVIOUS
<1> HIDE DEF m
<1>5. p.onDemandState \in {"initial", "waitingReady"}
  BY <1>1 DEF Ready, PaType
<1>6. Waits(t) BY <1>1, <1>2, <1>m DEF Held, Waits, Requesters
<1>7. t.onDemandState = "waitingReady" /\ ~t.sourceReady /\ t.stale = p.stale
      /\ t.sourceReady = p.sourceReady
  BY <1>2, <1>m, <1>5 DEF SameControl
<1>8. ~t.stale => t.onDemandReadyTimer /\ ~t.onDemandCloseTimer
  BY <1>2, <1>m, <1>5, <1>1 DEF SameControl, Timers
<1>9. Held(t) /\ Timers(t) BY <1>6, <1>7, <1>8 DEF Held, Timers
<1>10. Ready(t) BY <1>2, <1>m, <1>7, <1>1 DEF Ready, SameControl
<1>11. t.source = p.source \/ (t.source = s /\ s \in Sources /\ hasStaticSource /\ ~p.sourceReady)
  BY <1>2, <1>m, <1>5 DEF SameControl
<1>12. Owned(t)
  BY <1>11, <1>7, ConfFacts, ClientsAssumption DEF Owned
<1> QED BY <1>7, <1>9, <1>10, <1>11, <1>12 DEF Taken, Good

LEMMA HandleDescribeGood ==
    ASSUME NEW p, Good(p), Owned(p), conf \in Confs,
           NEW d \in Describers, p.res[d] # "wait", NEW s \in Sources \cup {"nil"},
           hasStaticSource /\ isOnDemand /\ ~p.sourceReady /\ p.onDemandState = "initial"
                => s \in Sources
    PROVE  Taken(p, handleDescribe([p EXCEPT !.res[d] = "wait"], d, s), s)
<1> DEFINE w == [p EXCEPT !.res[d] = "wait"]
           q == handleDescribe(w, d, s)
           m == demand(w, s)
           t == [m EXCEPT !.describeRequests = @ \cup {d}]
<1> SUFFICES Taken(p, q, s) OBVIOUS
<1>1. p \in PaType /\ d \in Requesters /\ d \notin Readers
  BY ClientsAssumption DEF Good, Requesters
<1>2. /\ w \in PaType /\ SameControl(p, w)
      /\ w.stale = p.stale /\ w.onDemandReadyTimer = p.onDemandReadyTimer
      /\ w.describeRequests = p.describeRequests /\ w.setupPlayRequests = p.setupPlayRequests
      /\ \A y \in Requesters : w.res[y] = IF y = d THEN "wait" ELSE p.res[y]
  BY <1>1, WaitFacts
<1> HIDE DEF w
<1>3. CASE w.source = "redirect" \/ w.sourceReady \/ ~isOnDemand
  <2>1. PICK a \in {"stream", "redirect", "error"} : q = answer(w, {d}, a)
    BY <1>3 DEF handleDescribe
  <2> HIDE DEF q
  <2>2. /\ q \in PaType /\ SameControl(w, q) /\ q.stale = w.stale
        /\ q.onDemandReadyTimer = w.onDemandReadyTimer
        /\ q.describeRequests = w.describeRequests /\ q.setupPlayRequests = w.setupPlayRequests
        /\ \A y \in Requesters : q.res[y] = IF y \in {d} THEN a ELSE w.res[y]
    BY <1>2, <2>1, AnswerFacts DEF Answers
  <2>3. SameControl(p, q) BY <1>2, <2>2 DEF SameControl
  <2>4. Good(q) /\ Owned(q)
    BY <1>1, <1>2, <2>2, <2>3, AnsweredGood
  <2> QED BY <1>2, <2>2, <2>3, <2>4 DEF Taken, SameControl
<1>4. CASE ~(w.source = "redirect" \/ w.sourceReady \/ ~isOnDemand)
  <2>1. q = t BY <1>4 DEF handleDescribe
  <2>2. m \in PaType /\ m.describeRequests = w.describeRequests
        /\ m.setupPlayRequests = w.setupPlayRequests
    BY <1>2, DemandFacts
  <2> HIDE DEF m, q
  <2>3. t \in PaType /\ SameControl(m, t) BY <2>2 DEF PaType, SameControl
  <2>4. /\ t.stale = m.stale /\ t.res = m.res /\ t.onDemandReadyTimer = m.onDemandReadyTimer
        /\ t.describeRequests = m.describeRequests \cup {d}
        /\ t.setupPlayRequests = m.setupPlayRequests
    BY <2>2 DEF PaType
  <2> HIDE DEF t
  <2>5. ~p.sourceReady /\ isOnDemand BY <1>4, <1>2 DEF SameControl
  <2>6. /\ \A e \in Describers : e \in t.describeRequests <=> e = d \/ e \in w.describeRequests
        /\ \A r \in Readers : r \in t.setupPlayRequests <=> r = d \/ r \in w.setupPlayRequests
    BY <2>2, <2>4, <1>1
  <2>7. Taken(p, t, s) BY <1>1, <1>2, <2>3, <2>4, <2>5, <2>6, HeldGood DEF m
  <2> QED BY <2>1, <2>7
<1> QED BY <1>3, <1>4

LEMMA HandleReaderSetupPlayGood ==
    ASSUME NEW p, Good(p), Owned(p), conf \in Confs,
           NEW r \in Readers, p.res[r] # "wait", NEW s \in Sources \cup {"nil"},
           hasStaticSource /\ isOnDemand /\ ~p.sourceReady /\ p.onDemandState = "initial"
                => s \in Sources
    PROVE  Taken(p, handleReaderSetupPlay([p EXCEPT !.res[r] = "wait"], r, s), s)
<1> DEFINE w == [p EXCEPT !.res[r] = "wait"]
           q == handleReaderSetupPlay(w, r, s)
           m == demand(w, s)
           t == [m EXCEPT !.setupPlayRequests = @ \cup {r}]
           h == handleReaderSetupPlayPost(w, {r})
<1> SUFFICES Taken(p, q, s) OBVIOUS
<1>1. p \in PaType /\ Held(p) /\ Ready(p) /\ Timers(p) /\ r \in Requesters /\ r \notin Describers
  BY ClientsAssumption DEF Good, Requesters
<1>2. /\ w \in PaType /\ SameControl(p, w)
      /\ w.stale = p.stale /\ w.onDemandReadyTimer = p.onDemandReadyTimer
      /\ w.describeRequests = p.describeRequests /\ w.setupPlayRequests = p.setupPlayRequests
      /\ \A y \in Requesters : w.res[y] = IF y = r THEN "wait" ELSE p.res[y]
  BY <1>1, WaitFacts
<1> HIDE DEF w
<1>3. CASE w.sourceReady
  <2>1. q = h BY <1>3 DEF handleReaderSetupPlay
  <2>2. /\ h \in PaType /\ h.stale = w.stale
        /\ h.source = w.source /\ h.sourceReady = w.sourceReady /\ h.stream = w.stream
        /\ h.onDemandReadyTimer = w.onDemandReadyTimer
        /\ h.describeRequests = w.describeRequests /\ h.setupPlayRequests = w.setupPlayRequests
        /\ h.onDemandState = IF isOnDemand /\ w.onDemandState = "closing"
                             THEN "ready" ELSE w.onDemandState
        /\ h.onDemandCloseTimer = (w.onDemandCloseTimer
                                    /\ ~(isOnDemand /\ w.onDemandState = "closing"))
        /\ \A y \in Requesters : h.res[y] = IF y \in {r} THEN "stream" ELSE w.res[y]
    BY <1>2, SetupPlayPostFacts
  <2> HIDE DEF q, h
  <2>3. Waits(h) BY <1>1, <1>2, <2>2 DEF Held, Waits, Requesters
  <2>4. p.sourceReady BY <1>3, <1>2 DEF SameControl
  <2>5. Held(h) BY <2>3, <2>4, <1>1, <1>2, <2>2 DEF Held, SameControl
  <2>6. Ready(h) BY <1>1, <1>2, <2>2 DEF Ready, SameControl
  <2>7. Timers(h) BY <1>1, <1>2, <2>2, <2>4, ConfFacts DEF Timers, Ready, SameControl
  <2>8. Owned(h) BY <1>2, <2>2 DEF Owned, SameControl
  <2> QED BY <2>1, <2>2, <2>5, <2>6, <2>7, <2>8, <1>2 DEF Taken, Good, SameControl
<1>4. CASE ~w.sourceReady /\ ~isOnDemand
  <2>1. q = answer(w, {r}, "error") BY <1>4 DEF handleReaderSetupPlay
  <2> HIDE DEF q
  <2>2. /\ q \in PaType /\ SameControl(w, q) /\ q.stale = w.stale
        /\ q.onDemandReadyTimer = w.onDemandReadyTimer
        /\ q.describeRequests = w.describeRequests /\ q.setupPlayRequests = w.setupPlayRequests
        /\ \A y \in Requesters : q.res[y] = IF y \in {r} THEN "error" ELSE w.res[y]
    BY <1>2, <2>1, AnswerFacts DEF Answers
  <2>3. SameControl(p, q) BY <1>2, <2>2 DEF SameControl
  <2>4. Good(q) /\ Owned(q)
    BY <1>1, <1>2, <2>2, <2>3, AnsweredGood
  <2> QED BY <1>2, <2>2, <2>3, <2>4 DEF Taken, SameControl
<1>5. CASE ~w.sourceReady /\ isOnDemand
  <2>1. q = t BY <1>5 DEF handleReaderSetupPlay
  <2>2. m \in PaType /\ m.describeRequests = w.describeRequests
        /\ m.setupPlayRequests = w.setupPlayRequests
    BY <1>2, DemandFacts
  <2> HIDE DEF m, q
  <2>3. t \in PaType /\ SameControl(m, t) BY <2>2 DEF PaType, SameControl
  <2>4. /\ t.stale = m.stale /\ t.res = m.res /\ t.onDemandReadyTimer = m.onDemandReadyTimer
        /\ t.setupPlayRequests = m.setupPlayRequests \cup {r}
        /\ t.describeRequests = m.describeRequests
    BY <2>2 DEF PaType
  <2> HIDE DEF t
  <2>5. ~p.sourceReady /\ isOnDemand BY <1>5, <1>2 DEF SameControl
  <2>6. /\ \A e \in Describers : e \in t.describeRequests <=> e = r \/ e \in w.describeRequests
        /\ \A x \in Readers : x \in t.setupPlayRequests <=> x = r \/ x \in w.setupPlayRequests
    BY <2>2, <2>4, <1>1
  <2>7. Taken(p, t, s) BY <1>1, <1>2, <2>3, <2>4, <2>5, <2>6, HeldGood DEF m
  <2> QED BY <2>1, <2>7
<1> QED BY <1>3, <1>4, <1>5

\* Playing, pausing and telling a client to leave touch the books about the
\* readers only.
LEMMA ClosedFacts ==
    ASSUME NEW p \in PaType, NEW c \in SUBSET (Readers \cup Publishers \cup Sources)
    PROVE  LET q == [p EXCEPT !.closed = c]
           IN q \in PaType /\ SameControl(p, q) /\ SameRequests(p, q) /\ q.panic = p.panic
BY DEF PaType, SameControl, SameRequests

LEMMA ReaderBooksFacts ==
    ASSUME NEW p \in PaType, NEW r \in Readers, NEW st \in {"prePlay", "play"},
           NEW n \in Int, NEW fr \in SUBSET Readers
    PROVE  LET q == [p EXCEPT !.countReaders = n, !.readers[r] = st, !.nonRTSPReaders = fr]
           IN q \in PaType /\ SameControl(p, q) /\ SameRequests(p, q)
<1> DEFINE rd == [p.readers EXCEPT ![r] = st]
           t == [p EXCEPT !.countReaders = n, !.readers = rd, !.nonRTSPReaders = fr]
<1>1. rd \in [Readers -> {"none", "prePlay", "play"}] BY DEF PaType
<1>2. [p EXCEPT !.countReaders = n, !.readers[r] = st, !.nonRTSPReaders = fr] = t
  BY DEF PaType
<1> HIDE DEF rd
<1>3. t \in PaType BY <1>1 DEF PaType
<1>4. SameControl(p, t) BY DEF PaType, SameControl
<1>5. SameRequests(p, t) BY DEF PaType, SameRequests
<1> HIDE DEF t
<1> QED BY <1>2, <1>3, <1>4, <1>5

LEMMA HandleReaderPlayFacts ==
    ASSUME NEW p \in PaType, NEW r \in Readers
    PROVE  LET q == handleReaderPlay(p, r)
           IN q \in PaType /\ SameControl(p, q) /\ SameRequests(p, q)
<1> DEFINE bad == p.stream = NoStream /\ r \notin RTSPReaders
           a == panicAt(p, bad, "readerAdd")
           n == a.countReaders + 1
           fr == a.nonRTSPReaders \cup ({r} \ RTSPReaders)
           t == [a EXCEPT !.countReaders = n, !.readers[r] = "play", !.nonRTSPReaders = fr]
<1>0. handleReaderPlay(p, r) = t BY DEF handleReaderPlay
<1> HIDE DEF bad
<1>1. a \in PaType /\ SameControl(p, a) /\ SameRequests(p, a) BY PanicAtFacts DEF PanicSites
<1> HIDE DEF a
<1>2. n \in Int /\ fr \in SUBSET Readers BY <1>1 DEF PaType
<1> HIDE DEF n, fr
<1>3. t \in PaType /\ SameControl(a, t) /\ SameRequests(a, t) BY <1>1, <1>2, ReaderBooksFacts
<1> HIDE DEF t
<1> QED BY <1>0, <1>1, <1>3 DEF SameControl, SameRequests

LEMMA HandleReaderPauseFacts ==
    ASSUME NEW p \in PaType, NEW r \in Readers
    PROVE  LET q == handleReaderPause(p, r)
           IN q \in PaType /\ SameControl(p, q) /\ SameRequests(p, q)
<1> DEFINE bad == p.stream = NoStream /\ r \notin RTSPReaders
           a == panicAt(p, bad, "readerRemove")
           n == a.countReaders - 1
           fr == a.nonRTSPReaders \ {r}
           t == [a EXCEPT !.countReaders = n, !.readers[r] = "prePlay", !.nonRTSPReaders = fr]
<1>0. handleReaderPause(p, r) = IF p.readers[r] = "play" THEN t ELSE p
  BY DEF handleReaderPause
<1> HIDE DEF bad
<1>1. a \in PaType /\ SameControl(p, a) /\ SameRequests(p, a) BY PanicAtFacts DEF PanicSites
<1> HIDE DEF a
<1>2. n \in Int /\ fr \in SUBSET Readers BY <1>1 DEF PaType
<1> HIDE DEF n, fr
<1>3. t \in PaType /\ SameControl(a, t) /\ SameRequests(a, t) BY <1>1, <1>2, ReaderBooksFacts
<1> HIDE DEF t
<1> QED BY <1>0, <1>1, <1>3 DEF SameControl, SameRequests

\* The last reader that leaves an on demand path schedules its closing.
LEMMA HandleReaderRemoveGood ==
    ASSUME NEW p, Good(p), Owned(p), NEW r \in Readers
    PROVE  LET q == handleReaderRemove(p, r)
           IN /\ Good(q) /\ Owned(q) /\ q.stale = p.stale
              /\ q.source = p.source /\ q.sourceReady = p.sourceReady
<1> DEFINE rs == {r} \cap registered(p)
           a == doReaderRemove(p, rs)
           c == onDemandScheduleClose(a)
           last == isOnDemand /\ registered(a) = {} /\ a.onDemandState = "ready"
<1>0. handleReaderRemove(p, r) = IF last THEN c ELSE a BY DEF handleReaderRemove
<1>1. p \in PaType /\ rs \in SUBSET Readers BY DEF Good, registered
<1> HIDE DEF rs
<1>2. a \in PaType /\ SameControl(p, a) /\ SameRequests(p, a) BY <1>1, DoReaderRemoveFacts
<1> HIDE DEF a
<1>3. Good(a) /\ Owned(a) BY <1>2, SameIsGood
<1>4. /\ c \in PaType /\ SameRequests(a, c)
      /\ c.source = a.source /\ c.sourceReady = a.sourceReady /\ c.stream = a.stream
      /\ c.onDemandState = "closing" /\ c.onDemandCloseTimer = TRUE
  BY <1>2, ScheduleCloseFacts
<1> HIDE DEF c
<1>5. CASE last
  <2>1. isOnDemand /\ a.onDemandState = "ready" /\ a.sourceReady
    BY <1>5, <1>3 DEF Good, Ready
  <2>2. Held(c) BY <1>3, <1>4, <2>1 DEF Good, Held, Waits, SameRequests
  <2>3. Ready(c) BY <1>3, <1>4, <2>1 DEF Good, Ready
  <2>4. Timers(c) BY <1>3, <1>4, <2>1 DEF Good, Timers, SameRequests
  <2>5. Owned(c) BY <1>3, <1>4 DEF Owned, SameRequests
  <2> QED BY <1>0, <1>2, <1>4, <1>5, <2>2, <2>3, <2>4, <2>5 DEF Good, SameControl, SameRequests
<1>6. CASE ~last BY <1>0, <1>2, <1>3, <1>6 DEF SameControl, SameRequests
<1> QED BY <1>5, <1>6

\* A publisher that is accepted replaces whoever was there.
LEMMA HandlePublisherAnnounceGood ==
    ASSUME NEW p, Good(p), Owned(p), conf \in Confs, NEW a \in Publishers
    PROVE  LET q == handlePublisherAnnounce(p, a)
           IN /\ Good(q) /\ Owned(q) /\ q.stale = p.stale
              /\ q.panic = "none" => q.source = a
              /\ q.sourceReady => p.sourceReady /\ p.source = "nil"
<1> DEFINE q == handlePublisherAnnounce(p, a)
           c == closeSource(p)
           d == doPublisherRemove(c)
           e == IF p.source = "nil" THEN p ELSE d
           t == [e EXCEPT !.source = a]
           b == panicAt(p, TRUE, "closePublisher")
<1>0. q = IF p.source = "redirect" THEN b ELSE t BY DEF handlePublisherAnnounce
<1>1. p \in PaType /\ Held(p) /\ Ready(p) /\ Timers(p) BY DEF Good
<1>2. CASE p.source = "redirect"
  <2>1. b \in PaType /\ SameControl(p, b) /\ SameRequests(p, b)
    BY <1>1, PanicAtFacts DEF PanicSites
  <2>2. b.panic # "none" BY <1>1 DEF panicAt, PaType
  <2>3. ~p.sourceReady
    BY <1>2 DEF Owned
  <2> HIDE DEF b
  <2>4. Good(b) /\ Owned(b) BY <2>1, SameIsGood
  <2> QED BY <1>0, <1>2, <2>1, <2>2, <2>3, <2>4 DEF SameControl, SameRequests
<1>3. CASE p.source # "redirect"
  <2>1. conf.source # "redirect" BY <1>3 DEF Owned
  <2>2. c \in PaType /\ SameControl(p, c) /\ SameRequests(p, c) BY <1>1, CloseSourceFacts
  <2> HIDE DEF c
  <2>3. Good(c) /\ Owned(c) BY <2>2, SameIsGood
  <2>4. Good(d) /\ Owned(d) /\ ~d.sourceReady /\ d.stale = c.stale
    BY <2>1, <2>3, DoPublisherRemoveGood
  <2> HIDE DEF d
  <2>5. /\ Good(e) /\ Owned(e) /\ e.stale = p.stale
        /\ e.sourceReady => p.sourceReady /\ p.source = "nil"
    BY <2>2, <2>4 DEF SameRequests
  <2> HIDE DEF e
  <2>6. e \in PaType BY <2>5 DEF Good
  <2>7. t \in PaType /\ SameRequests(e, t) BY <2>6 DEF PaType, SameRequests
  <2>8. /\ t.source = a /\ t.sourceReady = e.sourceReady /\ t.stream = e.stream
        /\ t.onDemandState = e.onDemandState /\ t.onDemandCloseTimer = e.onDemandCloseTimer
    BY <2>6 DEF PaType
  <2> HIDE DEF t
  <2>9. Good(t) BY <2>5, <2>7, <2>8 DEF Good, Held, Waits, Ready, Timers, SameRequests
  <2>10. Owned(t) BY <2>1, <2>5, <2>7, <2>8, ClientsAssumption DEF Owned, SameRequests
  <2> QED BY <1>0, <1>3, <2>5, <2>7, <2>8, <2>9, <2>10 DEF SameRequests
<1> QED BY <1>2, <1>3

\* Facts about the counter and the command of a publisher.
LEMMA CountPublishersFacts ==
    ASSUME NEW p \in PaType, NEW n \in Int
    PROVE  LET q == [p EXCEPT !.countPublishers = n]
           IN q \in PaType /\ SameControl(p, q) /\ SameRequests(p, q)
BY DEF PaType, SameControl, SameRequests

LEMMA OnPublishCmdFacts ==
    ASSUME NEW p \in PaType, NEW c \in BOOLEAN
    PROVE  LET q == [p EXCEPT !.onPublishCmd = c]
           IN q \in PaType /\ SameControl(p, q) /\ SameRequests(p, q)
BY DEF PaType, SameControl, SameRequests

LEMMA HandlePublisherRecordGood ==
    ASSUME NEW p, Good(p), Owned(p), conf \in Confs, NEW st \in Streams,
           p.source \in Publishers, ~p.stale => ~p.sourceReady
    PROVE  LET q == handlePublisherRecord(p, st)
           IN /\ Good(q) /\ Owned(q) /\ q.stale = p.stale
              /\ q.source = p.source /\ q.sourceReady = TRUE
<1> DEFINE n == p.countPublishers + 1
           a == [p EXCEPT !.countPublishers = n]
           b == sourceSetReady(a, st)
           c == b.onPublishCmd \/ conf.runOnPublish
           t == [b EXCEPT !.onPublishCmd = c]
<1>0. handlePublisherRecord(p, st) = t BY DEF handlePublisherRecord
<1>1. p \in PaType /\ n \in Int BY DEF Good, PaType
<1> HIDE DEF n
<1>2. a \in PaType /\ SameControl(p, a) /\ SameRequests(p, a)
  BY <1>1, CountPublishersFacts
<1> HIDE DEF a
<1>3. Good(a) /\ Owned(a) BY <1>2, SameIsGood
<1>4. Held(a) /\ Ready(a) /\ Timers(a) /\ (~a.stale => ~a.sourceReady)
  BY <1>2, <1>3 DEF Good, SameControl, SameRequests
<1>5. Good(b) /\ b.source = a.source /\ b.sourceReady = TRUE /\ b.stale = a.stale
  BY <1>2, <1>4, SourceSetReadyFacts
<1> HIDE DEF b
<1>6. b \in PaType /\ c \in BOOLEAN BY <1>5, ConfFacts DEF Good, PaType
<1> HIDE DEF c
<1>7. t \in PaType /\ SameControl(b, t) /\ SameRequests(b, t)
  BY <1>6, OnPublishCmdFacts
<1> HIDE DEF t
<1>8. b.source \in Publishers /\ b.stale = p.stale /\ b.source = p.source
  BY <1>2, <1>5 DEF SameControl, SameRequests
<1>c. p.source \notin Sources /\ p.source # "redirect" BY ClientsAssumption
<1>9. Owned(b) BY <1>c, <1>8 DEF Owned
<1>10. Good(t) /\ Owned(t) BY <1>5, <1>7, <1>9, SameIsGood
<1> QED BY <1>0, <1>5, <1>7, <1>8, <1>10 DEF SameControl, SameRequests

\* A publisher that pauses stops the source if it is the source.
LEMMA HandlePublisherPauseGood ==
    ASSUME NEW p, Good(p), Owned(p), conf \in Confs, NEW a \in Publishers
    PROVE  LET q == handlePublisherPause(p, a)
           IN /\ Good(q) /\ Owned(q) /\ q.stale = p.stale
              /\ IF p.source = a /\ p.sourceReady
                 THEN ~q.sourceReady /\ q.source \in {"nil", p.source} ELSE q = p
<1> DEFINE n == p.countPublishers - 1
           c == [p EXCEPT !.countPublishers = n]
           t == sourceStops(c)
<1>0. handlePublisherPause(p, a) = IF p.source = a /\ p.sourceReady THEN t ELSE p
  BY DEF handlePublisherPause
<1>1. p \in PaType /\ n \in Int BY DEF Good, PaType
<1> HIDE DEF n
<1>2. c \in PaType /\ SameControl(p, c) /\ SameRequests(p, c) BY <1>1, CountPublishersFacts
<1> HIDE DEF c
<1>3. Good(c) /\ Owned(c) BY <1>2, SameIsGood
<1>4. CASE p.source = a /\ p.sourceReady
  <2>1. conf.source # "redirect" BY <1>4 DEF Owned
  <2>2. c.sourceReady BY <1>2, <1>4 DEF SameControl
  <2>3. /\ Good(t) /\ Owned(t) /\ ~t.sourceReady /\ t.stale = c.stale
        /\ t.source \in {"nil", c.source}
    BY <1>3, <2>1, <2>2, SourceStopsGood
  <2> HIDE DEF t
  <2> QED BY <1>0, <1>2, <1>4, <2>3 DEF SameControl, SameRequests
<1>5. CASE ~(p.source = a /\ p.sourceReady)
  <2>1. handlePublisherPause(p, a) = p BY <1>0, <1>5
  <2> QED BY <1>5, <2>1
<1> QED BY <1>4, <1>5

LEMMA HandlePublisherRemoveGood ==
    ASSUME NEW p, Good(p), Owned(p), conf \in Confs, NEW a \in Publishers
    PROVE  LET q == handlePublisherRemove(p, a)
           IN /\ Good(q) /\ Owned(q) /\ q.stale = p.stale
              /\ IF p.source = a THEN ~q.sourceReady /\ q.source = "nil" ELSE q = p
<1> DEFINE t == doPublisherRemove(p)
<1>0. handlePublisherRemove(p, a) = IF p.source = a THEN t ELSE p
  BY DEF handlePublisherRemove
<1>1. CASE p.source = a
  <2>0. a # "redirect" BY ClientsAssumption
  <2>1. conf.source # "redirect" BY <1>1, <2>0 DEF Owned
  <2>2. Good(t) /\ Owned(t) /\ t.source = "nil" /\ ~t.sourceReady /\ t.stale = p.stale
    BY <2>1, DoPublisherRemoveGood
  <2> HIDE DEF t
  <2> QED BY <1>0, <1>1, <2>2
<1>2. CASE p.source # a
  <2>1. handlePublisherRemove(p, a) = p BY <1>0, <1>2
  <2> QED BY <1>2, <2>1
<1> QED BY <1>1, <1>2

LEMMA HandleSetNotReadyGood ==
    ASSUME NEW p, Good(p), Owned(p), conf \in Confs, NEW s \in Sources,
           p.source = s => p.stale \/ p.sourceReady
    PROVE  LET q == handleSourceStaticSetNotReady(p, s)
           IN /\ Good(q) /\ Owned(q) /\ q.stale = p.stale
              /\ IF p.source = s THEN ~q.sourceReady /\ q.source \in {"nil", s} ELSE q = p
<1> DEFINE t == sourceStops(p)
<1>0. handleSourceStaticSetNotReady(p, s) = IF p.source = s THEN t ELSE p
  BY DEF handleSourceStaticSetNotReady
<1>1. CASE p.source = s
  <2>0. s # "redirect" BY ClientsAssumption
  <2>1. conf.source # "redirect" /\ hasStaticSource BY <1>1, <2>0, ConfFacts DEF Owned
  <2>2. /\ Good(t) /\ Owned(t) /\ ~t.sourceReady /\ t.stale = p.stale
        /\ t.source \in {"nil", p.source}
    BY <1>1, <2>1, SourceStopsGood
  <2> HIDE DEF t
  <2> QED BY <1>0, <1>1, <2>2
<1>2. CASE p.source # s
  <2>1. handleSourceStaticSetNotReady(p, s) = p BY <1>0, <1>2
  <2> QED BY <1>2, <2>1
<1> QED BY <1>1, <1>2

\* There is always an address for a new stream: every publisher holds at most
\* one stream, and the path one more.
LEMMA NewStreamExists ==
    ASSUME pstream \in [Publishers -> Streams \cup {NoStream}],
           pa.stream \in Streams \cup {NoStream}
    PROVE  NewStream \in Streams
<1> DEFINE R == {pstream[p] : p \in Publishers}
           U == R \cup {pa.stream}
           n == Cardinality(Publishers)
<1>1. IsFiniteSet(Publishers) /\ n \in Nat BY FinitenessAssumption, FS_CardinalityType
<1>2. pstream \in Surjection(Publishers, R) BY DEF Surjection
<1>3. IsFiniteSet(R) /\ Cardinality(R) <= n BY <1>1, <1>2, FS_Surjection
<1> HIDE DEF n, R
<1>r. Cardinality(R) \in Nat BY <1>3, FS_CardinalityType
<1>u. /\ IsFiniteSet(U)
      /\ Cardinality(U) = IF pa.stream \in R THEN Cardinality(R) ELSE Cardinality(R) + 1
  BY <1>3, FS_AddElement
<1>4. IsFiniteSet(U) /\ Cardinality(U) <= n + 1 BY <1>1, <1>3, <1>r, <1>u
<1>5. Cardinality(Streams) = n + 2
  <2>1. 1 \in Int /\ n + 2 \in Int /\ 1 <= n + 2 BY <1>1
  <2>2. Cardinality(1 .. (n + 2)) = (n + 2) - 1 + 1 BY <2>1, FS_Interval
  <2> QED BY <1>1, <2>2 DEF Streams, n
<1> HIDE DEF U
<1>6. ~(Streams \subseteq U)
  <2>1. SUFFICES ASSUME Streams \subseteq U PROVE FALSE OBVIOUS
  <2>2. Cardinality(Streams) <= Cardinality(U) BY <1>4, <2>1, FS_Subset
  <2>3. Cardinality(U) \in Nat BY <1>4, FS_CardinalityType
  <2> QED BY <1>1, <1>4, <1>5, <2>2, <2>3
<1>7. \E st \in Streams : st # pa.stream /\ \A p \in Publishers : pstream[p] # st
  BY <1>6 DEF U, R
<1> QED BY <1>7 DEF NewStream

(***************************************************************************)
(* The inductive invariant.  HeldRequestsWait and OnDemandStateAgrees need *)
(* each other and TypeOK; ReadyMatchesOwner is what makes a SetReady meet  *)
(* a path that is not ready and a SetNotReady one that is, and             *)
(* SourceMatchesConf tells which sources a path can have at all.           *)
(***************************************************************************)
IInv ==
    /\ TypeOK /\ HeldRequestsWait /\ OnDemandStateAgrees
    /\ SourceMatchesConf /\ ReadyMatchesOwner

\* Everything in IInv but the path struct and ReadyMatchesOwner.
Rest ==
    /\ conf \in Confs
    /\ phase \in {"run", "exit", "wait", "done"} /\ ctxDone \in BOOLEAN
    /\ sess \in [Readers -> {"initial", "preRead", "read", "gone"}]
    /\ psess \in [Publishers -> {"initial", "prePublish", "publish", "gone"}]
    /\ pstream \in [Publishers -> Streams \cup {NoStream}]
    /\ spc \in [Sources -> {"off", "dial", "setReady", "ready", "failing", "closing", "pause"}]
    /\ ~hasStaticSource => \A s \in Sources : spc[s] = "off"

\* The part about the path struct.
Sound(p) == p \in PaType /\ Held(p) /\ Ready(p) /\ Owned(p)

LEMMA IInvSplit ==
    IInv <=> Rest /\ Sound(pa) /\ (InLoop => Timers(pa)) /\ ReadyMatchesOwner
<1>1. HeldRequestsWait <=> Held(pa) BY DEF HeldRequestsWait, Held, Waits
<1>2. OnDemandStateAgrees <=> Ready(pa) /\ (InLoop => Timers(pa))
  BY DEF OnDemandStateAgrees, Ready, Timers
<1>3. SourceMatchesConf <=> Owned(pa) /\ (~hasStaticSource => \A s \in Sources : spc[s] = "off")
  BY DEF SourceMatchesConf, Owned
<1> QED BY <1>1, <1>2, <1>3 DEF IInv, TypeOK, Rest, Sound

LEMMA IInvPrime ==
    ASSUME Rest', Sound(pa'), conf' = conf, InLoop' => Timers(pa'), ReadyMatchesOwner'
    PROVE  IInv'
<1>1. hasStaticSource' = hasStaticSource /\ isOnDemand' = isOnDemand
  BY DEF hasStaticSource, isOnDemand
<1>2. HeldRequestsWait' BY DEF Sound, HeldRequestsWait, Held, Waits
<1>3. OnDemandStateAgrees' BY <1>1 DEF Sound, OnDemandStateAgrees, Ready, Timers
<1>4. SourceMatchesConf' BY <1>1 DEF Sound, SourceMatchesConf, Owned, Rest
<1>5. TypeOK' BY DEF Sound, Rest, TypeOK
<1> QED BY <1>2, <1>3, <1>4, <1>5 DEF IInv

\* Applying a handler's result, or giving it up for the panic.
LEMMA ApplyFacts ==
    ASSUME Sound(pa), Timers(pa), NEW q, Good(q), Owned(q), Apply(q)
    PROVE  /\ Sound(pa') /\ Timers(pa')
           /\ pa'.panic = "none" => pa' = q /\ q.panic = "none"
<1>1. CASE q.panic = "none" BY <1>1 DEF Apply, Sound, Good
<1>2. CASE q.panic # "none"
  <2> DEFINE t == [pa EXCEPT !.panic = q.panic]
  <2>1. pa' = t BY <1>2 DEF Apply
  <2>2. q.panic \in PanicSites \cup {"none"} BY DEF Good, PaType
  <2>3. t \in PaType BY <2>2 DEF Sound, PaType
  <2>4. SameControl(pa, t) /\ SameRequests(pa, t) /\ t.panic = q.panic
    BY DEF Sound, PaType, SameControl, SameRequests
  <2> HIDE DEF t
  <2>5. Good(pa) /\ Owned(pa) BY DEF Sound, Good
  <2>6. Good(t) /\ Owned(t) BY <2>3, <2>4, <2>5, SameIsGood
  <2> QED BY <1>2, <2>1, <2>4, <2>6 DEF Sound, Good
<1> QED BY <1>1, <1>2

\* A step that leaves the source, its readiness and its owner alone.
LEMMA OwnerKept ==
    ASSUME ReadyMatchesOwner, Alive,
           pa'.panic = "none" => /\ pa'.source = pa.source /\ pa'.stale = pa.stale
                                 /\ pa'.sourceReady = pa.sourceReady,
           ctxDone => ctxDone',
           pa.source \in Publishers => psess'[pa.source] = psess[pa.source],
           pa.source \in Sources => spc'[pa.source] = spc[pa.source]
    PROVE  ReadyMatchesOwner'
BY DEF ReadyMatchesOwner, Alive

\* A step after which the path is not ready and no running source owns it.
LEMMA OwnerGone ==
    ASSUME pa'.panic = "none" /\ ~pa'.stale =>
              /\ ~pa'.sourceReady
              /\ pa'.source \in Sources => spc'[pa'.source] \notin {"ready", "failing", "closing"}
    PROVE  ReadyMatchesOwner'
BY DEF ReadyMatchesOwner, Alive

\* A step of somebody else: the struct changes outside the control state and
\* the requests, if at all.
LEMMA FrameStep ==
    ASSUME IInv, Alive, pa' \in PaType, SameControl(pa, pa'), SameRequests(pa, pa'),
           InLoop' => InLoop, Rest', conf' = conf, ctxDone => ctxDone',
           pa.source \in Publishers => psess'[pa.source] = psess[pa.source],
           pa.source \in Sources => spc'[pa.source] = spc[pa.source]
    PROVE  IInv'
<1>1. Rest /\ Sound(pa) /\ (InLoop => Timers(pa)) /\ ReadyMatchesOwner BY IInvSplit
<1>2. Sound(pa') BY <1>1 DEF Sound, Held, Waits, Ready, Owned, SameControl, SameRequests
<1>3. InLoop' => Timers(pa') BY <1>1 DEF Timers, SameControl, SameRequests
<1>4. ReadyMatchesOwner' BY <1>1, OwnerKept DEF SameControl, SameRequests
<1> QED BY <1>2, <1>3, <1>4, IInvPrime

LEMMA RunFacts ==
    ASSUME IInv, Running
    PROVE  /\ Rest /\ Good(pa) /\ Owned(pa) /\ Sound(pa) /\ Timers(pa)
           /\ ReadyMatchesOwner /\ Alive
BY IInvSplit DEF Running, InLoop, Good, Sound

(***************************************************************************)
(* The path goroutine's own steps.                                         *)
(***************************************************************************)
\* Closing the source on demand when nobody is on hold any more.
LEMMA CloseSourceGood ==
    ASSUME NEW p \in PaType, Waits(p), Ready(p), Owned(p), conf \in Confs,
           conf.source # "redirect",
           ~p.stale => /\ ~p.onDemandReadyTimer
                       /\ p.describeRequests \cup p.setupPlayRequests = {}
                       /\ p.onDemandCloseTimer => p.onDemandState = "closing"
    PROVE  LET q == onDemandCloseSource(p)
           IN Good(q) /\ Owned(q) /\ q.source = "nil" /\ ~q.sourceReady /\ q.stale = p.stale
<1> DEFINE q == onDemandCloseSource(p)
<1>1. /\ q \in PaType /\ SameRequests(p, q)
      /\ q.source = "nil" /\ q.onDemandState = "initial"
      /\ q.onDemandCloseTimer = (p.onDemandCloseTimer /\ p.onDemandState # "closing")
      /\ q.sourceReady = (p.sourceReady /\ ~hasStaticSource /\ p.source = "nil")
      /\ q.stream = IF p.sourceReady /\ ~q.sourceReady THEN NoStream ELSE p.stream
  BY OnDemandCloseSourceFacts
<1> HIDE DEF q
<1>2. ~hasStaticSource /\ p.sourceReady => p.source # "nil"
  BY ConfFacts, ClientsAssumption DEF Owned
<1>3. ~q.sourceReady /\ q.stream = NoStream BY <1>1, <1>2 DEF Ready, PaType
<1>4. Held(q) BY <1>1 DEF Held, Waits, SameRequests
<1>5. Ready(q) BY <1>1, <1>3 DEF Ready
<1>6. Timers(q) BY <1>1 DEF Timers, SameRequests
<1>7. Owned(q) BY <1>1, <1>3, ClientsAssumption DEF Owned, SameRequests
<1> QED BY <1>1, <1>3, <1>4, <1>5, <1>6, <1>7 DEF Good, SameRequests, q

\* An armed timer belongs to an on demand path.
LEMMA TimerMeansDemand ==
    ASSUME Rest, Sound(pa), Timers(pa), pa.onDemandReadyTimer \/ pa.onDemandCloseTimer
    PROVE  conf.source # "redirect"
<1>1. conf \in Confs BY DEF Rest
<1>2. CASE pa.stale BY <1>1, <1>2, ConfFacts DEF Sound, Owned
<1>3. CASE ~pa.stale
  <2>1. isOnDemand BY <1>3 DEF Timers, Sound, Ready
  <2> QED BY <1>1, <2>1, ConfFacts
<1> QED BY <1>2, <1>3

LEMMA ReadyTimerFiresKeeps == IInv /\ ReadyTimerFires => IInv'
<1> SUFFICES ASSUME IInv, ReadyTimerFires PROVE IInv' OBVIOUS
<1> DEFINE a == [pa EXCEPT !.onDemandReadyTimer = FALSE]
           b == failHeld(a)
           q == onDemandCloseSource(b)
<1>1. /\ Running /\ pa.onDemandReadyTimer /\ Apply(q)
      /\ phase' = (IF conf.regexp THEN "exit" ELSE phase)
      /\ UNCHANGED <<conf, ctxDone, sess, psess, pstream, spc>>
  BY DEF ReadyTimerFires
<1>2. Rest /\ Good(pa) /\ Owned(pa) /\ Sound(pa) /\ Timers(pa) BY <1>1, RunFacts
<1>3. pa \in PaType BY <1>2 DEF Good
<1>4. a \in PaType /\ SameControl(pa, a) BY <1>3 DEF PaType, SameControl
<1>5. /\ a.onDemandReadyTimer = FALSE /\ a.res = pa.res /\ a.stale = pa.stale
      /\ a.describeRequests = pa.describeRequests /\ a.setupPlayRequests = pa.setupPlayRequests
  BY <1>3 DEF PaType
<1> HIDE DEF a
<1>6. Waits(a) BY <1>2, <1>5 DEF Good, Held, Waits
<1>7. /\ b \in PaType /\ SameControl(a, b) /\ b.stale = a.stale
      /\ b.onDemandReadyTimer = a.onDemandReadyTimer
      /\ b.describeRequests = {} /\ b.setupPlayRequests = {} /\ Waits(b)
  BY <1>4, <1>6, FailHeldFacts
<1> HIDE DEF b
<1>8. Ready(b) /\ Owned(b)
  BY <1>2, <1>4, <1>5, <1>7 DEF Good, Ready, Owned, SameControl
<1>9. ~b.stale => (b.onDemandCloseTimer => b.onDemandState = "closing")
  BY <1>2, <1>4, <1>5, <1>7 DEF Timers, SameControl
<1>10. conf.source # "redirect" /\ conf \in Confs BY <1>1, <1>2, TimerMeansDemand DEF Rest
<1>11. Good(q) /\ Owned(q) /\ q.source = "nil" /\ ~q.sourceReady
  BY <1>5, <1>7, <1>8, <1>9, <1>10, CloseSourceGood
<1> HIDE DEF q
<1>12. Sound(pa') /\ Timers(pa') /\ (pa'.panic = "none" => pa' = q)
  BY <1>1, <1>2, <1>11, ApplyFacts
<1>13. ReadyMatchesOwner' BY <1>11, <1>12, OwnerGone, ClientsAssumption
<1>14. Rest' BY <1>1, <1>2 DEF Rest, hasStaticSource
<1> QED BY <1>1, <1>12, <1>13, <1>14, IInvPrime

LEMMA CloseTimerFiresKeeps == IInv /\ CloseTimerFires => IInv'
<1> SUFFICES ASSUME IInv, CloseTimerFires PROVE IInv' OBVIOUS
<1> DEFINE a == [pa EXCEPT !.onDemandCloseTimer = FALSE]
           q == onDemandCloseSource(a)
<1>1. /\ Running /\ pa.onDemandCloseTimer /\ Apply(q)
      /\ phase' = (IF conf.regexp THEN "exit" ELSE phase)
      /\ UNCHANGED <<conf, ctxDone, sess, psess, pstream, spc>>
  BY DEF CloseTimerFires
<1>2. Rest /\ Good(pa) /\ Owned(pa) /\ Sound(pa) /\ Timers(pa) BY <1>1, RunFacts
<1>3. pa \in PaType BY <1>2 DEF Good
<1>4. a \in PaType /\ SameRequests(pa, a) BY <1>3 DEF PaType, SameRequests
<1>5. /\ a.source = pa.source /\ a.sourceReady = pa.sourceReady /\ a.stream = pa.stream
      /\ a.onDemandState = pa.onDemandState /\ a.onDemandCloseTimer = FALSE
  BY <1>3 DEF PaType
<1> HIDE DEF a
<1>6. Waits(a) BY <1>2, <1>4 DEF Good, Held, Waits, SameRequests
<1>7. Ready(a) /\ Owned(a) BY <1>2, <1>4, <1>5 DEF Good, Ready, Owned, SameRequests
<1>8. ~a.stale => ~a.onDemandReadyTimer /\ a.describeRequests \cup a.setupPlayRequests = {}
  BY <1>1, <1>2, <1>4 DEF Good, Held, Timers, SameRequests
<1>9. conf.source # "redirect" /\ conf \in Confs BY <1>1, <1>2, TimerMeansDemand DEF Rest
<1>10. Good(q) /\ Owned(q) /\ q.source = "nil" /\ ~q.sourceReady
  BY <1>4, <1>5, <1>6, <1>7, <1>8, <1>9, CloseSourceGood
<1> HIDE DEF q
<1>11. Sound(pa') /\ Timers(pa') /\ (pa'.panic = "none" => pa' = q)
  BY <1>1, <1>2, <1>10, ApplyFacts
<1>12. ReadyMatchesOwner' BY <1>10, <1>11, OwnerGone, ClientsAssumption
<1>13. Rest' BY <1>1, <1>2 DEF Rest, hasStaticSource
<1> QED BY <1>1, <1>11, <1>12, <1>13, IInvPrime

\* After the tail of run() nobody is on hold; the timers no longer matter.
LEMMA RunTailKeeps == IInv /\ RunTail => IInv'
<1> SUFFICES ASSUME IInv, RunTail PROVE IInv' OBVIOUS
<1> DEFINE f == failHeld(pa)
           n == f.countReaders - Cardinality(playing(pa))
           cl == closeSource(pa).closed \cup registered(pa)
           q == [f EXCEPT !.onDemandReadyTimer = FALSE, !.onDemandCloseTimer = FALSE,
                          !.onInitCmd = FALSE, !.onDemandCmd = FALSE,
                          !.countReaders = n, !.nonRTSPReaders = {}, !.closed = cl]
<1>1. /\ Alive /\ phase = "exit" /\ Apply(q) /\ ctxDone' = TRUE
      /\ phase' = (IF pa.source \in Sources \cup Publishers THEN "wait" ELSE "done")
      /\ UNCHANGED <<conf, sess, psess, pstream, spc>>
  BY DEF RunTail
<1>2. Rest /\ Sound(pa) /\ (InLoop => Timers(pa)) /\ ReadyMatchesOwner BY IInvSplit
<1>3. pa \in PaType /\ Waits(pa) BY <1>2 DEF Sound, Held
<1>4. /\ f \in PaType /\ SameControl(pa, f) /\ f.stale = pa.stale
      /\ f.describeRequests = {} /\ f.setupPlayRequests = {} /\ Waits(f)
  BY <1>3, FailHeldFacts
<1>5. cl \in SUBSET (Readers \cup Publishers \cup Sources)
  BY <1>3, CloseSourceFacts DEF registered, PaType
<1>6. n \in Int
  <2>1. Cardinality(playing(pa)) \in Int BY <1>3, CountType
  <2> QED BY <1>4, <2>1 DEF PaType
<1> HIDE DEF f, cl, n
<1>7. q \in PaType BY <1>4, <1>5, <1>6 DEF PaType
<1>8. /\ q.source = f.source /\ q.sourceReady = f.sourceReady /\ q.stream = f.stream
      /\ q.onDemandState = f.onDemandState
  BY <1>4 DEF PaType
<1>9. /\ q.stale = f.stale /\ q.res = f.res /\ q.describeRequests = f.describeRequests
      /\ q.setupPlayRequests = f.setupPlayRequests
  BY <1>4 DEF PaType
<1> HIDE DEF q
<1>10. Held(q) BY <1>4, <1>9 DEF Held, Waits
<1>11. Ready(q) /\ Owned(q) BY <1>2, <1>4, <1>8, <1>9 DEF Sound, Ready, Owned, SameControl
<1>12. Sound(pa') /\ (pa'.panic = "none" => pa' = q)
  <2>1. CASE q.panic = "none" BY <1>1, <1>7, <1>10, <1>11, <2>1 DEF Apply, Sound
  <2>2. CASE q.panic # "none"
    <3> DEFINE t == [pa EXCEPT !.panic = q.panic]
    <3>1. pa' = t BY <1>1, <2>2 DEF Apply
    <3>2. q.panic \in PanicSites \cup {"none"} BY <1>7 DEF PaType
    <3>3. t \in PaType BY <1>3, <3>2 DEF PaType
    <3>4. SameControl(pa, t) /\ SameRequests(pa, t) /\ t.panic = q.panic
      BY <1>3 DEF PaType, SameControl, SameRequests
    <3> HIDE DEF t
    <3>5. Sound(t)
      BY <1>2, <3>3, <3>4 DEF Sound, Held, Waits, Ready, Owned, SameControl, SameRequests
    <3> QED BY <2>2, <3>1, <3>4, <3>5
  <2> QED BY <2>1, <2>2
<1>13. ReadyMatchesOwner' BY <1>1, <1>2, <1>4, <1>8, <1>9, <1>12, OwnerKept DEF SameControl
<1>14. Rest' BY <1>1, <1>2 DEF Rest, hasStaticSource
<1>15. ~InLoop' BY <1>1 DEF InLoop
<1> QED BY <1>1, <1>12, <1>13, <1>14, <1>15, IInvPrime

LEMMA PathStepKeeps == IInv /\ PathStep => IInv'
<1> SUFFICES ASSUME IInv, PathStep PROVE IInv' OBVIOUS
<1>1. Rest /\ Sound(pa) BY IInvSplit
<1>2. pa \in PaType BY <1>1 DEF Sound
<1>3. CASE Close
  <2>1. Rest' /\ (InLoop' => InLoop) BY <1>1, <1>3 DEF Close, Rest, hasStaticSource, InLoop
  <2> QED BY <1>2, <1>3, <2>1, FrameStep DEF Close, Running, SameControl, SameRequests
<1>4. CASE CtxDoneSeen
  <2>1. Rest' /\ (InLoop' => InLoop)
    BY <1>1, <1>4 DEF CtxDoneSeen, Running, Rest, hasStaticSource, InLoop
  <2> QED BY <1>2, <1>4, <2>1, FrameStep DEF CtxDoneSeen, Running, SameControl, SameRequests
<1>5. CASE SourcesJoined
  <2>1. Rest' /\ (InLoop' => InLoop)
    BY <1>1, <1>5 DEF SourcesJoined, Rest, hasStaticSource, InLoop
  <2> QED BY <1>2, <1>5, <2>1, FrameStep DEF SourcesJoined, SameControl, SameRequests
<1> QED
  BY <1>3, <1>4, <1>5, ReadyTimerFiresKeeps, CloseTimerFiresKeeps, RunTailKeeps DEF PathStep

(***************************************************************************)
(* The static sources.                                                     *)
(***************************************************************************)
SourceStates == {"off", "dial", "setReady", "ready", "failing", "closing", "pause"}
Attached == {"ready", "failing", "closing"}

\* A source moves without calling the path.
LEMMA SourceMoves ==
    ASSUME IInv, Alive, NEW s \in Sources, spc[s] # "off", NEW to \in SourceStates,
           spc' = [spc EXCEPT ![s] = to],
           pa' \in PaType, SameControl(pa, pa'), SameRequests(pa, pa'),
           UNCHANGED <<conf, phase, ctxDone, sess, psess, pstream>>,
           pa.source = s /\ ~pa.stale =>
                /\ pa.sourceReady => to \in Attached \/ (ctxDone /\ to \in {"pause", "off"})
                /\ to \in Attached => pa.sourceReady
    PROVE  IInv'
<1>1. Rest /\ Sound(pa) /\ (InLoop => Timers(pa)) /\ ReadyMatchesOwner BY IInvSplit
<1>2. hasStaticSource BY <1>1 DEF Rest
<1>3. Rest' BY <1>1, <1>2 DEF Rest, hasStaticSource, SourceStates
<1>4. InLoop' => InLoop BY DEF InLoop
<1>5. CASE pa.source # s
  <2>1. pa.source \in Sources => spc'[pa.source] = spc[pa.source] BY <1>1, <1>5 DEF Rest
  <2> QED BY <1>3, <1>4, <2>1, FrameStep
<1>6. CASE pa.source = s
  <2>1. Sound(pa') BY <1>1 DEF Sound, Held, Waits, Ready, Owned, SameControl, SameRequests
  <2>2. InLoop' => Timers(pa') BY <1>1, <1>4 DEF Timers, SameControl, SameRequests
  <2>3. spc'[s] = to BY <1>1 DEF Rest
  <2>4. ReadyMatchesOwner'
    BY <1>6, <2>3 DEF ReadyMatchesOwner, Attached, SameControl, SameRequests
  <2> QED BY <1>3, <2>1, <2>2, <2>4, IInvPrime
<1> QED BY <1>5, <1>6

\* What ReadyMatchesOwner says of the current static source.
LEMMA CurrentSource ==
    ASSUME IInv, Alive, NEW s \in Sources, pa.source = s, ~pa.stale
    PROVE  /\ pa.sourceReady => spc[s] \in Attached \/ (ctxDone /\ spc[s] \in {"pause", "off"})
           /\ spc[s] \in Attached => pa.sourceReady
<1>1. ReadyMatchesOwner BY IInvSplit
<1>2. s \notin Publishers BY ClientsAssumption
<1> QED BY <1>1, <1>2 DEF ReadyMatchesOwner, Attached

LEMMA SourceSetReadyKeeps ==
    ASSUME IInv, NEW s \in Sources, SourceSetReady(s) PROVE IInv'
<1> DEFINE v == pa.stale \/ pa.source # s
           a == [pa EXCEPT !.stale = v]
           st == NewStream
           q == sourceSetReady(a, st)
<1>1. /\ Running /\ spc[s] = "setReady" /\ Apply(q) /\ spc' = [spc EXCEPT ![s] = "ready"]
      /\ UNCHANGED <<conf, phase, ctxDone, sess, psess, pstream>>
  BY DEF SourceSetReady
<1>2. /\ Rest /\ Good(pa) /\ Owned(pa) /\ Sound(pa) /\ Timers(pa) /\ Alive
      /\ ReadyMatchesOwner
  BY <1>1, RunFacts
<1>3. pa \in PaType /\ v \in BOOLEAN /\ conf \in Confs BY <1>2 DEF Good, PaType, Rest
<1>4. st \in Streams BY <1>2, <1>3, NewStreamExists DEF Rest, PaType
<1> HIDE DEF st, v
<1>5. a \in PaType /\ SameControl(pa, a) BY <1>3 DEF PaType, SameControl
<1>6. /\ a.stale = v /\ a.onDemandReadyTimer = pa.onDemandReadyTimer /\ a.res = pa.res
      /\ a.describeRequests = pa.describeRequests /\ a.setupPlayRequests = pa.setupPlayRequests
  BY <1>3 DEF PaType
<1> HIDE DEF a
<1>7. ~a.stale => ~pa.stale /\ pa.source = s BY <1>6 DEF v
<1>8. ~a.stale => ~a.sourceReady
  BY <1>1, <1>2, <1>5, <1>7, CurrentSource DEF SameControl, Attached
<1>9. Held(a) /\ Ready(a) /\ Timers(a)
  BY <1>2, <1>5, <1>6, <1>7 DEF Good, Held, Waits, Ready, Timers, SameControl
<1>10. Good(q) /\ q.source = a.source /\ q.sourceReady = TRUE /\ q.stale = a.stale
  BY <1>3, <1>4, <1>5, <1>8, <1>9, SourceSetReadyFacts
<1> HIDE DEF q
<1>11. hasStaticSource BY <1>1, <1>2 DEF Rest
<1>12. conf.source = "static" /\ pa.source # "redirect"
  BY <1>2, <1>3, <1>11, ConfFacts DEF Owned
<1>13. Owned(q) BY <1>5, <1>10, <1>11, <1>12 DEF Owned, SameControl
<1>14. Sound(pa') /\ Timers(pa') /\ (pa'.panic = "none" => pa' = q)
  BY <1>1, <1>2, <1>10, <1>13, ApplyFacts
<1>15. spc'[s] = "ready" BY <1>1, <1>2 DEF Rest
<1>16. ReadyMatchesOwner'
  BY <1>5, <1>7, <1>10, <1>14, <1>15 DEF ReadyMatchesOwner, Alive, SameControl
<1>17. Rest' BY <1>1, <1>2, <1>11 DEF Rest, hasStaticSource
<1> QED BY <1>1, <1>14, <1>16, <1>17, IInvPrime

LEMMA SourceSetNotReadyKeeps ==
    ASSUME IInv, NEW s \in Sources, SourceSetNotReady(s) PROVE IInv'
<1> DEFINE q == handleSourceStaticSetNotReady(pa, s)
           c == IF spc[s] = "closing" THEN q.closed \ {s} ELSE q.closed
           e == [q EXCEPT !.closed = c]
<1>1. /\ Running /\ spc[s] \in {"failing", "closing"} /\ Apply(e)
      /\ ExitIfUnused(q) /\ spc' = AfterNotReady(s)
      /\ UNCHANGED <<conf, ctxDone, sess, psess, pstream>>
  BY DEF SourceSetNotReady, Ended
<1>2. /\ Rest /\ Good(pa) /\ Owned(pa) /\ Sound(pa) /\ Timers(pa) /\ Alive
      /\ ReadyMatchesOwner
  BY <1>1, RunFacts
<1>3. pa \in PaType /\ conf \in Confs BY <1>2 DEF Good, Rest
<1>4. pa.source = s => pa.stale \/ pa.sourceReady
  BY <1>1, <1>2, CurrentSource DEF Attached
<1>5. /\ Good(q) /\ Owned(q) /\ q.stale = pa.stale
      /\ IF pa.source = s THEN ~q.sourceReady /\ q.source \in {"nil", s} ELSE q = pa
  BY <1>2, <1>3, <1>4, HandleSetNotReadyGood
<1> HIDE DEF q
<1>6. q \in PaType BY <1>5 DEF Good
<1>7. c \in SUBSET (Readers \cup Publishers \cup Sources) BY <1>6 DEF PaType
<1> HIDE DEF c
<1>8. e \in PaType /\ SameControl(q, e) /\ SameRequests(q, e) BY <1>6, <1>7, ClosedFacts
<1> HIDE DEF e
<1>9. Good(e) /\ Owned(e) BY <1>5, <1>8, SameIsGood
<1>10. Sound(pa') /\ Timers(pa') /\ (pa'.panic = "none" => pa' = e)
  BY <1>1, <1>2, <1>9, ApplyFacts
<1>11. /\ spc'[s] \in {"off", "pause"} /\ spc' \in [Sources -> SourceStates]
       /\ \A t \in Sources : t # s => spc'[t] = spc[t]
  BY <1>1, <1>2 DEF Rest, AfterNotReady, SourceStates
<1>12. ReadyMatchesOwner'
  <2>1. CASE pa.source = s
    <3>1. pa'.panic = "none" => ~pa'.sourceReady /\ pa'.source \in {"nil", s}
      BY <1>5, <1>8, <1>10, <2>1 DEF SameControl
    <3> QED BY <1>11, <3>1, OwnerGone, ClientsAssumption
  <2>2. CASE pa.source # s
    BY <1>1, <1>2, <1>5, <1>8, <1>10, <1>11, <2>2, OwnerKept DEF SameControl, SameRequests
  <2> QED BY <2>1, <2>2
<1>13. hasStaticSource BY <1>1, <1>2 DEF Rest
<1>14. phase' \in {"run", "exit", "wait", "done"} BY <1>1, <1>2 DEF ExitIfUnused, Rest
<1>15. Rest' BY <1>1, <1>2, <1>11, <1>13, <1>14 DEF Rest, hasStaticSource, SourceStates
<1> QED BY <1>1, <1>10, <1>12, <1>15, IInvPrime

LEMMA SourceStepKeeps ==
    ASSUME IInv, NEW s \in Sources, SourceStep(s) PROVE IInv'
<1>1. Rest /\ Sound(pa) BY IInvSplit
<1>2. pa \in PaType /\ SameControl(pa, pa) /\ SameRequests(pa, pa)
  BY <1>1 DEF Sound, SameControl, SameRequests
<1>3. Alive => (pa.source = s /\ ~pa.stale =>
        /\ pa.sourceReady => spc[s] \in Attached \/ (ctxDone /\ spc[s] \in {"pause", "off"})
        /\ spc[s] \in Attached => pa.sourceReady)
  BY CurrentSource
<1>4. CASE SourceDialed(s)
  <2>1. PICK to \in {"setReady", "pause"} : spc' = [spc EXCEPT ![s] = to]
    BY <1>4 DEF SourceDialed
  <2>2. Alive /\ spc[s] = "dial" /\ pa' = pa
        /\ UNCHANGED <<conf, phase, ctxDone, sess, psess, pstream>>
    BY <1>4 DEF SourceDialed
  <2> QED BY <1>2, <1>3, <2>1, <2>2, SourceMoves DEF SourceStates, Attached
<1>5. CASE SourceSetReadyTerminated(s)
  <2>1. Alive /\ spc[s] = "setReady" /\ pa' = pa /\ spc' = [spc EXCEPT ![s] = "pause"]
        /\ UNCHANGED <<conf, phase, ctxDone, sess, psess, pstream>>
    BY <1>5 DEF SourceSetReadyTerminated
  <2> QED BY <1>2, <1>3, <2>1, SourceMoves DEF SourceStates, Attached
<1>6. CASE SourceFails(s)
  <2>1. Alive /\ spc[s] = "ready" /\ pa' = pa /\ spc' = [spc EXCEPT ![s] = "failing"]
        /\ UNCHANGED <<conf, phase, ctxDone, sess, psess, pstream>>
    BY <1>6 DEF SourceFails
  <2> QED BY <1>2, <1>3, <2>1, SourceMoves DEF SourceStates, Attached
<1>7. CASE SourceRetries(s)
  <2>1. Alive /\ spc[s] = "pause" /\ pa' = pa /\ spc' = [spc EXCEPT ![s] = "dial"]
        /\ UNCHANGED <<conf, phase, ctxDone, sess, psess, pstream>> /\ ~ctxDone
    BY <1>7 DEF SourceRetries, Cancelled
  <2> QED BY <1>2, <1>3, <2>1, SourceMoves DEF SourceStates, Attached
<1>8. CASE SourceCancelled(s)
  <2> DEFINE c == IF spc[s] = "ready" THEN pa.closed ELSE pa.closed \ {s}
             to == IF spc[s] = "ready" THEN "closing" ELSE "off"
  <2>1. /\ Alive /\ spc[s] \in {"dial", "ready", "pause"} /\ pa' = [pa EXCEPT !.closed = c]
        /\ spc' = [spc EXCEPT ![s] = to]
        /\ UNCHANGED <<conf, phase, ctxDone, sess, psess, pstream>>
    BY <1>1, <1>8 DEF SourceCancelled, Rest
  <2>2. c \in SUBSET (Readers \cup Publishers \cup Sources) BY <1>2 DEF PaType
  <2>3. pa' \in PaType /\ SameControl(pa, pa') /\ SameRequests(pa, pa')
    BY <1>2, <2>1, <2>2, ClosedFacts
  <2>4. /\ pa.source = s /\ ~pa.stale =>
            /\ pa.sourceReady => to \in Attached \/ (ctxDone /\ to \in {"pause", "off"})
            /\ to \in Attached => pa.sourceReady
        /\ to \in SourceStates /\ spc[s] # "off"
    BY <1>3, <2>1 DEF Attached, SourceStates
  <2> HIDE DEF c, to
  <2> QED BY <2>1, <2>3, <2>4, SourceMoves
<1>9. CASE SourceSetNotReadyTerminated(s)
  <2> DEFINE c == IF spc[s] = "closing" THEN pa.closed \ {s} ELSE pa.closed
             to == IF spc[s] = "closing" THEN "off" ELSE "pause"
  <2>1. /\ Alive /\ spc[s] \in {"failing", "closing"} /\ pa' = [pa EXCEPT !.closed = c]
        /\ spc' = [spc EXCEPT ![s] = to] /\ ctxDone
        /\ UNCHANGED <<conf, phase, ctxDone, sess, psess, pstream>>
    BY <1>1, <1>9 DEF SourceSetNotReadyTerminated, AfterNotReady, Ended, Rest
  <2>2. c \in SUBSET (Readers \cup Publishers \cup Sources) BY <1>2 DEF PaType
  <2>3. pa' \in PaType /\ SameControl(pa, pa') /\ SameRequests(pa, pa')
    BY <1>2, <2>1, <2>2, ClosedFacts
  <2>4. to \in {"pause", "off"} /\ to \in SourceStates /\ to \notin Attached /\ spc[s] # "off"
    BY <2>1 DEF Attached, SourceStates
  <2> HIDE DEF c, to
  <2> QED BY <2>1, <2>3, <2>4, SourceMoves
<1> QED
  BY <1>4, <1>5, <1>6, <1>7, <1>8, <1>9, SourceSetReadyKeeps, SourceSetNotReadyKeeps
  DEF SourceStep

(***************************************************************************)
(* Describers, readers and publishers.                                     *)
(***************************************************************************)
\* Taking a request, whose handler may spawn a static source.
LEMMA RequestTaken ==
    ASSUME IInv, Running, NEW s \in NewSource, NEW q, Taken(pa, q, s), Apply(q),
           spc' = Spawned(q), UNCHANGED <<conf, phase, ctxDone, psess, pstream>>,
           sess' \in [Readers -> {"initial", "preRead", "read", "gone"}]
    PROVE  IInv'
<1>1. /\ Rest /\ Good(pa) /\ Owned(pa) /\ Sound(pa) /\ Timers(pa) /\ Alive
      /\ ReadyMatchesOwner
  BY RunFacts
<1>2. Sound(pa') /\ Timers(pa') /\ (pa'.panic = "none" => pa' = q)
  BY <1>1, ApplyFacts DEF Taken
<1>3. CASE q.source = pa.source
  <2>1. spc' = spc BY <1>3 DEF Spawned
  <2>2. ReadyMatchesOwner' BY <1>1, <1>2, <1>3, <2>1, OwnerKept DEF Taken
  <2>3. Rest' BY <1>1, <2>1 DEF Rest, hasStaticSource
  <2> QED BY <1>2, <2>2, <2>3, IInvPrime
<1>4. CASE q.source # pa.source
  <2>1. q.source = s /\ s \in Sources /\ hasStaticSource /\ ~q.sourceReady
    BY <1>4 DEF Taken
  <2>2. spc' = [spc EXCEPT ![s] = "dial"] BY <1>4, <2>1 DEF Spawned
  <2>3. spc'[s] = "dial" BY <1>1, <2>1, <2>2 DEF Rest
  <2>4. ReadyMatchesOwner' BY <1>2, <2>1, <2>3, OwnerGone
  <2>5. Rest' BY <1>1, <2>1, <2>2 DEF Rest, hasStaticSource
  <2> QED BY <1>2, <2>4, <2>5, IInvPrime
<1> QED BY <1>3, <1>4

LEMMA NewSourceFacts ==
    ASSUME NEW s \in NewSource
    PROVE  /\ s \in Sources \cup {"nil"}
           /\ hasStaticSource /\ isOnDemand /\ ~pa.sourceReady /\ pa.onDemandState = "initial"
                => s \in Sources
BY DEF NewSource

LEMMA DescribeKeeps ==
    ASSUME IInv, NEW d \in Describers, Describe(d) PROVE IInv'
<1>1. PICK s \in NewSource :
        LET q == handleDescribe([pa EXCEPT !.res[d] = "wait"], d, s)
        IN /\ Running /\ pa.res[d] # "wait" /\ Apply(q) /\ spc' = Spawned(q)
           /\ UNCHANGED <<conf, phase, ctxDone, sess, psess, pstream>>
  BY DEF Describe
<1>2. Rest /\ Good(pa) /\ Owned(pa) /\ conf \in Confs BY <1>1, RunFacts DEF Rest
<1> DEFINE q == handleDescribe([pa EXCEPT !.res[d] = "wait"], d, s)
<1>3. Taken(pa, q, s) BY <1>1, <1>2, NewSourceFacts, HandleDescribeGood
<1>4. Running /\ Apply(q) /\ spc' = Spawned(q)
      /\ UNCHANGED <<conf, phase, ctxDone, sess, psess, pstream>>
  BY <1>1
<1> HIDE DEF q
<1> QED BY <1>2, <1>3, <1>4, RequestTaken DEF Rest

LEMMA ReaderSetupPlayKeeps ==
    ASSUME IInv, NEW r \in Readers, ReaderSetupPlay(r) PROVE IInv'
<1>1. PICK s \in NewSource :
        LET q == handleReaderSetupPlay([pa EXCEPT !.res[r] = "wait"], r, s)
        IN /\ Running /\ Idle(r) /\ Apply(q) /\ spc' = Spawned(q)
           /\ UNCHANGED <<conf, phase, ctxDone, sess, psess, pstream>>
  BY DEF ReaderSetupPlay
<1>2. Rest /\ Good(pa) /\ Owned(pa) /\ conf \in Confs /\ pa.res[r] # "wait"
  BY <1>1, RunFacts DEF Rest, Idle
<1> DEFINE q == handleReaderSetupPlay([pa EXCEPT !.res[r] = "wait"], r, s)
<1>3. Taken(pa, q, s) BY <1>1, <1>2, NewSourceFacts, HandleReaderSetupPlayGood
<1>4. Running /\ Apply(q) /\ spc' = Spawned(q)
      /\ UNCHANGED <<conf, phase, ctxDone, sess, psess, pstream>>
  BY <1>1
<1> HIDE DEF q
<1> QED BY <1>2, <1>3, <1>4, RequestTaken DEF Rest

\* A reader picks up its answer.
LEMMA ReaderResumes ==
    ASSUME IInv, Alive, NEW r \in Readers, pa.res[r] = "stream",
           pa' = [pa EXCEPT !.res[r] = "none"],
           sess' \in [Readers -> {"initial", "preRead", "read", "gone"}],
           UNCHANGED <<conf, phase, ctxDone, psess, pstream, spc>>
    PROVE  IInv'
<1> DEFINE t == [pa EXCEPT !.res[r] = "none"]
<1>1. Rest /\ Sound(pa) /\ (InLoop => Timers(pa)) /\ ReadyMatchesOwner BY IInvSplit
<1>2. pa \in PaType /\ r \in Requesters BY <1>1 DEF Sound, Requesters
<1>3. t \in PaType BY <1>2 DEF PaType
<1>4. SameControl(pa, t) BY <1>2 DEF PaType, SameControl
<1>5. /\ t.stale = pa.stale /\ t.onDemandReadyTimer = pa.onDemandReadyTimer
      /\ t.describeRequests = pa.describeRequests /\ t.setupPlayRequests = pa.setupPlayRequests
  BY <1>2 DEF PaType
<1>6. \A y \in Requesters : t.res[y] = IF y = r THEN "none" ELSE pa.res[y]
  BY <1>2 DEF PaType
<1>7. pa' = t OBVIOUS
<1> HIDE DEF t
<1>8. Waits(t) BY <1>1, <1>5, <1>6 DEF Sound, Held, Waits, Requesters
<1>9. Held(t) BY <1>1, <1>4, <1>5, <1>8 DEF Sound, Held, SameControl
<1>10. Ready(t) /\ Owned(t) BY <1>1, <1>4, <1>5 DEF Sound, Ready, Owned, SameControl
<1>11. InLoop' => Timers(t) BY <1>1, <1>4, <1>5 DEF InLoop, Timers, SameControl
<1>12. ReadyMatchesOwner' BY <1>1, <1>4, <1>5, <1>7, OwnerKept DEF SameControl
<1>13. Rest' BY <1>1 DEF Rest, hasStaticSource
<1> QED BY <1>3, <1>7, <1>9, <1>10, <1>11, <1>12, <1>13, IInvPrime DEF Sound

\* A handler that leaves the source of the path alone.
LEMMA SameSourceStep ==
    ASSUME IInv, Running, NEW q, Good(q), Owned(q), q.source = pa.source,
           q.sourceReady = pa.sourceReady, q.stale = pa.stale, Apply(q),
           sess' \in [Readers -> {"initial", "preRead", "read", "gone"}],
           UNCHANGED <<conf, phase, ctxDone, psess, pstream, spc>>
    PROVE  IInv'
<1>1. /\ Rest /\ Sound(pa) /\ Timers(pa) /\ Alive /\ ReadyMatchesOwner BY RunFacts
<1>2. Sound(pa') /\ Timers(pa') /\ (pa'.panic = "none" => pa' = q) BY <1>1, ApplyFacts
<1>3. ReadyMatchesOwner' BY <1>1, <1>2, OwnerKept
<1>4. Rest' BY <1>1 DEF Rest, hasStaticSource
<1> QED BY <1>2, <1>3, <1>4, IInvPrime

LEMMA ReaderStepKeeps ==
    ASSUME IInv, NEW r \in Readers, ReaderStep(r) PROVE IInv'
<1>1. Rest /\ Sound(pa) BY IInvSplit
<1>2. pa \in PaType BY <1>1 DEF Sound
<1> DEFINE SessType == [Readers -> {"initial", "preRead", "read", "gone"}]
<1>3. CASE ReaderSetUp(r)
  <2>1. sess' \in SessType BY <1>1, <1>3 DEF ReaderSetUp, Rest
  <2> QED BY <1>3, <2>1, ReaderResumes DEF ReaderSetUp
<1>4. CASE ReaderSetupBadTrack(r)
  <2>1. sess' \in SessType BY <1>1, <1>4 DEF ReaderSetupBadTrack, Rest
  <2> QED BY <1>4, <2>1, ReaderResumes DEF ReaderSetupBadTrack
<1>5. CASE ReaderPlay(r)
  <2> DEFINE q == handleReaderPlay(pa, r)
  <2>1. Running /\ Apply(q) /\ UNCHANGED <<conf, phase, ctxDone, psess, pstream, spc>>
    BY <1>5 DEF ReaderPlay
  <2>2. sess' \in SessType BY <1>1, <1>5 DEF ReaderPlay, Rest
  <2>3. q \in PaType /\ SameControl(pa, q) /\ SameRequests(pa, q)
    BY <1>2, HandleReaderPlayFacts
  <2> HIDE DEF q
  <2>4. Good(pa) /\ Owned(pa) BY <2>1, RunFacts
  <2>5. Good(q) /\ Owned(q) BY <2>3, <2>4, SameIsGood
  <2> QED BY <2>1, <2>2, <2>3, <2>5, SameSourceStep DEF SameControl, SameRequests
<1>6. CASE ReaderPause(r)
  <2> DEFINE q == handleReaderPause(pa, r)
  <2>1. Running /\ Apply(q) /\ UNCHANGED <<conf, phase, ctxDone, psess, pstream, spc>>
    BY <1>6 DEF ReaderPause
  <2>2. sess' \in SessType BY <1>1, <1>6 DEF ReaderPause, Rest
  <2>3. q \in PaType /\ SameControl(pa, q) /\ SameRequests(pa, q)
    BY <1>2, HandleReaderPauseFacts
  <2> HIDE DEF q
  <2>4. Good(pa) /\ Owned(pa) BY <2>1, RunFacts
  <2>5. Good(q) /\ Owned(q) BY <2>3, <2>4, SameIsGood
  <2> QED BY <2>1, <2>2, <2>3, <2>5, SameSourceStep DEF SameControl, SameRequests
<1>7. CASE ReaderRemove(r)
  <2> DEFINE q == handleReaderRemove(pa, r)
             c == q.closed \ {r}
             e == [q EXCEPT !.closed = c]
  <2>1. Running /\ Apply(e) /\ UNCHANGED <<conf, phase, ctxDone, psess, pstream, spc>>
    BY <1>7 DEF ReaderRemove
  <2>2. sess' \in SessType BY <1>1, <1>7 DEF ReaderRemove, Rest
  <2>3. Good(pa) /\ Owned(pa) BY <2>1, RunFacts
  <2>4. /\ Good(q) /\ Owned(q) /\ q.stale = pa.stale
        /\ q.source = pa.source /\ q.sourceReady = pa.sourceReady
    BY <2>3, HandleReaderRemoveGood
  <2> HIDE DEF q
  <2>5. q \in PaType /\ c \in SUBSET (Readers \cup Publishers \cup Sources)
    BY <2>4 DEF Good, PaType
  <2> HIDE DEF c
  <2>6. e \in PaType /\ SameControl(q, e) /\ SameRequests(q, e) BY <2>5, ClosedFacts
  <2> HIDE DEF e
  <2>7. Good(e) /\ Owned(e) BY <2>4, <2>6, SameIsGood
  <2> QED BY <2>1, <2>2, <2>4, <2>6, <2>7, SameSourceStep DEF SameControl, SameRequests
<1>8. CASE ReaderRemoveTerminated(r)
  <2> DEFINE c == pa.closed \ {r}
  <2>1. c \in SUBSET (Readers \cup Publishers \cup Sources) BY <1>2 DEF PaType
  <2>2. /\ Alive /\ pa' = [pa EXCEPT !.closed = c]
        /\ UNCHANGED <<conf, phase, ctxDone, psess, pstream, spc>>
    BY <1>8 DEF ReaderRemoveTerminated
  <2>3. Rest' BY <1>1, <1>8 DEF ReaderRemoveTerminated, Rest, hasStaticSource
  <2> HIDE DEF c
  <2>4. pa' \in PaType /\ SameControl(pa, pa') /\ SameRequests(pa, pa')
    BY <1>2, <2>1, <2>2, ClosedFacts
  <2>5. InLoop' => InLoop BY <2>2 DEF InLoop
  <2> QED BY <2>2, <2>3, <2>4, <2>5, FrameStep
<1> QED BY <1>3, <1>4, <1>5, <1>6, <1>7, <1>8, ReaderSetupPlayKeeps DEF ReaderStep

LEMMA PublisherStepKeeps ==
    ASSUME IInv, NEW p \in Publishers, PublisherStep(p) PROVE IInv'
<1>1. Rest /\ Sound(pa) /\ ReadyMatchesOwner BY IInvSplit
<1>2. pa \in PaType /\ conf \in Confs /\ p \notin Sources
  BY <1>1, ClientsAssumption DEF Sound, Rest
<1>3. CASE PublisherAnnounce(p)
  <2> DEFINE q == handlePublisherAnnounce(pa, p)
  <2>1. /\ Running /\ Apply(q) /\ psess' = [psess EXCEPT ![p] = "prePublish"]
        /\ UNCHANGED <<conf, phase, ctxDone, sess, pstream, spc>>
    BY <1>3 DEF PublisherAnnounce
  <2>2. Good(pa) /\ Owned(pa) /\ Timers(pa) /\ Alive BY <2>1, RunFacts
  <2>3. /\ Good(q) /\ Owned(q) /\ q.stale = pa.stale /\ (q.panic = "none" => q.source = p)
        /\ q.sourceReady => pa.sourceReady /\ pa.source = "nil"
    BY <1>2, <2>2, HandlePublisherAnnounceGood
  <2> HIDE DEF q
  <2>4. Sound(pa') /\ Timers(pa') /\ (pa'.panic = "none" => pa' = q /\ q.panic = "none")
    BY <1>1, <2>1, <2>2, <2>3, ApplyFacts
  <2>5. ~q.stale => ~q.sourceReady
    BY <1>1, <2>2, <2>3, ClientsAssumption DEF ReadyMatchesOwner
  <2>6. ReadyMatchesOwner' BY <1>2, <2>3, <2>4, <2>5, OwnerGone
  <2>7. Rest' BY <1>1, <2>1 DEF Rest, hasStaticSource
  <2> QED BY <2>1, <2>4, <2>6, <2>7, IInvPrime
<1>4. CASE PublisherRecord(p)
  <2> DEFINE st == NewStream
             q == handlePublisherRecord(pa, st)
  <2>1. /\ Running /\ Apply(q) /\ psess[p] = "prePublish" /\ pa.source = p
        /\ psess' = [psess EXCEPT ![p] = "publish"] /\ pstream' = [pstream EXCEPT ![p] = st]
        /\ UNCHANGED <<conf, phase, ctxDone, sess, spc>>
    BY <1>4 DEF PublisherRecord
  <2>2. Good(pa) /\ Owned(pa) /\ Timers(pa) /\ Alive BY <2>1, RunFacts
  <2>3. st \in Streams BY <1>1, <1>2, NewStreamExists DEF Rest, PaType
  <2> HIDE DEF st
  <2>4. ~pa.stale => ~pa.sourceReady
    BY <1>1, <1>2, <2>1, <2>2 DEF ReadyMatchesOwner
  <2>5. /\ Good(q) /\ Owned(q) /\ q.stale = pa.stale /\ q.source = pa.source
        /\ q.sourceReady = TRUE
    BY <1>2, <2>1, <2>2, <2>3, <2>4, HandlePublisherRecordGood
  <2> HIDE DEF q
  <2>6. Sound(pa') /\ Timers(pa') /\ (pa'.panic = "none" => pa' = q)
    BY <1>1, <2>1, <2>2, <2>5, ApplyFacts
  <2>7. psess'[p] = "publish" BY <1>1, <2>1 DEF Rest
  <2>8. ReadyMatchesOwner'
    BY <1>2, <2>1, <2>5, <2>6, <2>7 DEF ReadyMatchesOwner, Alive
  <2>9. Rest' BY <1>1, <2>1, <2>3 DEF Rest, hasStaticSource
  <2> QED BY <2>1, <2>6, <2>8, <2>9, IInvPrime
<1>5. CASE PublisherPause(p)
  <2> DEFINE q == handlePublisherPause(pa, p)
  <2>1. /\ Running /\ Apply(q) /\ ExitIfUnused(q)
        /\ psess' = [psess EXCEPT ![p] = "prePublish"]
        /\ pstream' = [pstream EXCEPT ![p] = NoStream]
        /\ UNCHANGED <<conf, ctxDone, sess, spc>>
    BY <1>5 DEF PublisherPause
  <2>2. Good(pa) /\ Owned(pa) /\ Timers(pa) /\ Alive BY <2>1, RunFacts
  <2>3. /\ Good(q) /\ Owned(q) /\ q.stale = pa.stale
        /\ IF pa.source = p /\ pa.sourceReady
           THEN ~q.sourceReady /\ q.source \in {"nil", pa.source} ELSE q = pa
    BY <1>2, <2>2, HandlePublisherPauseGood
  <2> HIDE DEF q
  <2>4. Sound(pa') /\ Timers(pa') /\ (pa'.panic = "none" => pa' = q)
    BY <1>1, <2>1, <2>2, <2>3, ApplyFacts
  <2>5. ReadyMatchesOwner'
    <3>1. CASE pa.source = p
      BY <1>2, <2>3, <2>4, <3>1, OwnerGone, ClientsAssumption
    <3>2. CASE pa.source # p
      BY <1>1, <2>1, <2>2, <2>3, <2>4, <3>2, OwnerKept DEF Rest
    <3> QED BY <3>1, <3>2
  <2>6. phase' \in {"run", "exit", "wait", "done"} BY <1>1, <2>1 DEF ExitIfUnused, Rest
  <2>7. Rest' BY <1>1, <2>1, <2>6 DEF Rest, hasStaticSource
  <2> QED BY <2>1, <2>4, <2>5, <2>7, IInvPrime
<1>6. CASE PublisherRemove(p)
  <2> DEFINE q == handlePublisherRemove(pa, p)
             c == q.closed \ {p}
             e == [q EXCEPT !.closed = c]
  <2>1. /\ Running /\ Apply(e) /\ ExitIfUnused(q)
        /\ psess' = [psess EXCEPT ![p] = "initial"]
        /\ pstream' = [pstream EXCEPT ![p] = NoStream]
        /\ UNCHANGED <<conf, ctxDone, sess, spc>>
    BY <1>6 DEF PublisherRemove
  <2>2. Good(pa) /\ Owned(pa) /\ Timers(pa) /\ Alive BY <2>1, RunFacts
  <2>3. /\ Good(q) /\ Owned(q) /\ q.stale = pa.stale
        /\ IF pa.source = p THEN ~q.sourceReady /\ q.source = "nil" ELSE q = pa
    BY <1>2, <2>2, HandlePublisherRemoveGood
  <2> HIDE DEF q
  <2>4. q \in PaType /\ c \in SUBSET (Readers \cup Publishers \cup Sources)
    BY <2>3 DEF Good, PaType
  <2> HIDE DEF c
  <2>5. e \in PaType /\ SameControl(q, e) /\ SameRequests(q, e) BY <2>4, ClosedFacts
  <2> HIDE DEF e
  <2>6. Good(e) /\ Owned(e) BY <2>3, <2>5, SameIsGood
  <2>7. Sound(pa') /\ Timers(pa') /\ (pa'.panic = "none" => pa' = e)
    BY <1>1, <2>1, <2>2, <2>6, ApplyFacts
  <2>8. ReadyMatchesOwner'
    <3>1. CASE pa.source = p
      BY <2>3, <2>5, <2>7, <3>1, OwnerGone, ClientsAssumption DEF SameControl
    <3>2. CASE pa.source # p
      BY <1>1, <2>1, <2>2, <2>3, <2>5, <2>7, <3>2, OwnerKept
      DEF Rest, SameControl, SameRequests
    <3> QED BY <3>1, <3>2
  <2>9. phase' \in {"run", "exit", "wait", "done"} BY <1>1, <2>1 DEF ExitIfUnused, Rest
  <2>10. Rest' BY <1>1, <2>1, <2>9 DEF Rest, hasStaticSource
  <2> QED BY <2>1, <2>7, <2>8, <2>10, IInvPrime
<1>7. CASE PublisherRemoveTerminated(p)
  <2> DEFINE c == pa.closed \ {p}
  <2>1. c \in SUBSET (Readers \cup Publishers \cup Sources) BY <1>2 DEF PaType
  <2>2. /\ Alive /\ pa' = [pa EXCEPT !.closed = c] /\ ctxDone
        /\ psess' = [psess EXCEPT ![p] = "gone"]
        /\ pstream' = [pstream EXCEPT ![p] = NoStream]
        /\ UNCHANGED <<conf, phase, ctxDone, sess, spc>>
    BY <1>7 DEF PublisherRemoveTerminated
  <2>3. Rest' BY <1>1, <2>2 DEF Rest, hasStaticSource
  <2> HIDE DEF c
  <2>4. pa' \in PaType /\ SameControl(pa, pa') /\ SameRequests(pa, pa')
    BY <1>2, <2>1, <2>2, ClosedFacts
  <2>5. Sound(pa')
    BY <1>1, <2>4 DEF Sound, Held, Waits, Ready, Owned, SameControl, SameRequests
  <2>6. InLoop' => Timers(pa')
    BY <2>2, <2>4, IInvSplit DEF InLoop, Timers, SameControl, SameRequests
  <2>7. \A x \in Publishers : psess'[x] = IF x = p THEN "gone" ELSE psess[x]
    BY <1>1, <2>2 DEF Rest
  <2>8. ReadyMatchesOwner'
    BY <1>1, <1>2, <2>2, <2>4, <2>7 DEF ReadyMatchesOwner, Alive, SameControl, SameRequests
  <2> QED BY <2>2, <2>3, <2>5, <2>6, <2>8, IInvPrime
<1> QED BY <1>3, <1>4, <1>5, <1>6, <1>7 DEF PublisherStep

(***************************************************************************)
(* The theorems.                                                           *)
(***************************************************************************)
LEMMA InitIInv == Init => IInv
<1> SUFFICES ASSUME Init PROVE IInv OBVIOUS
<1>1. PICK s \in Sources \cup {"nil", "redirect"} :
        /\ s = "redirect" <=> conf.source = "redirect"
        /\ s \in Sources <=> hasStaticSource /\ ~conf.sourceOnDemand
        /\ spc = [t \in Sources |-> IF t = s THEN "dial" ELSE "off"]
        /\ pa = [source |-> s, sourceReady |-> FALSE, stream |-> NoStream,
                 nonRTSPReaders |-> {}, readers |-> [r \in Readers |-> "none"],
                 describeRequests |-> {}, setupPlayRequests |-> {},
                 onDemandCmd |-> FALSE, onPublishCmd |-> FALSE,
                 onInitCmd |-> conf.runOnInit,
                 onDemandReadyTimer |-> FALSE, onDemandCloseTimer |-> FALSE,
                 onDemandState |-> "initial",
                 countPublishers |-> 0, countReaders |-> 0,
                 closed |-> {}, res |-> [q \in Requesters |-> "none"],
                 panic |-> "none", stale |-> FALSE]
  BY DEF Init
<1>2. conf \in Confs /\ conf.runOnInit \in BOOLEAN
  BY ConfsAssumption DEF Init, ConfType
<1>3. pa \in PaType BY <1>1, <1>2 DEF PaType
<1>4. /\ pa.sourceReady = FALSE /\ pa.stream = NoStream /\ pa.source = s
      /\ pa.onDemandState = "initial" /\ pa.stale = FALSE
      /\ pa.onDemandReadyTimer = FALSE /\ pa.onDemandCloseTimer = FALSE
      /\ pa.describeRequests = {} /\ pa.setupPlayRequests = {}
      /\ pa.res = [q \in Requesters |-> "none"]
  BY <1>1
<1>5. Held(pa) BY <1>4 DEF Held, Waits, Requesters
<1>6. Ready(pa) /\ Timers(pa) BY <1>4 DEF Ready, Timers
<1>7. Owned(pa) BY <1>1, <1>4 DEF Owned
<1>8. ReadyMatchesOwner BY <1>1, <1>4 DEF ReadyMatchesOwner
<1>9. Rest
  <2>1. ~hasStaticSource => \A t \in Sources : spc[t] = "off" BY <1>1
  <2>2. spc \in [Sources -> {"off", "dial", "setReady", "ready", "failing", "closing", "pause"}]
    BY <1>1
  <2> QED BY <2>1, <2>2 DEF Init, Rest, NoStream
<1> QED BY <1>3, <1>5, <1>6, <1>7, <1>8, <1>9, IInvSplit DEF Sound

LEMMA NextIInv == IInv /\ [Next]_vars => IInv'
<1> SUFFICES ASSUME IInv, [Next]_vars PROVE IInv' OBVIOUS
<1>1. CASE UNCHANGED vars
  BY <1>1 DEF vars, IInv, TypeOK, HeldRequestsWait, OnDemandStateAgrees, SourceMatchesConf,
              ReadyMatchesOwner, Alive, InLoop, isOnDemand, hasStaticSource
<1>2. CASE Next
  BY <1>1, <1>2, PathStepKeeps, SourceStepKeeps, DescribeKeeps, ReaderStepKeeps,
     PublisherStepKeeps DEF Next, Terminated
<1> QED BY <1>1, <1>2

\* The inductive invariant holds in every reachable state of the path.
THEOREM InductiveInvariant == Spec => []IInv
BY InitIInv, NextIInv, PTL DEF Spec

\* Every field of the path, and what each client and source believes, keeps
\* its type, panics included.
THEOREM TypeCorrect == Spec => []TypeOK
<1>1. IInv => TypeOK BY DEF IInv
<1> QED BY <1>1, InductiveInvariant, PTL

\* No request for a stream is lost, whatever the number of clients: whoever
\* waits is on a list, and the ready timer runs as long as a list is not empty.
THEOREM RequestsNeverLost == Spec => []HeldRequestsWait
<1>1. IInv => HeldRequestsWait BY DEF IInv
<1> QED BY <1>1, InductiveInvariant, PTL

\* The on demand state machine, its timers and the readiness of the source
\* never disagree while the path runs.
THEOREM OnDemandConsistent == Spec => []OnDemandStateAgrees
<1>1. IInv => OnDemandStateAgrees BY DEF IInv
<1> QED BY <1>1, InductiveInvariant, PTL

\* Which sources a path can have, given its configuration.
THEOREM SourceKind == Spec => []SourceMatchesConf
<1>1. IInv => SourceMatchesConf BY DEF IInv
<1> QED BY <1>1, InductiveInvariant, PTL

\* The path is ready exactly while its current source is.
THEOREM ReadyIffOwnerReady == Spec => []ReadyMatchesOwner
<1>1. IInv => ReadyMatchesOwner BY DEF IInv
<1> QED BY <1>1, InductiveInvariant, PTL

\* What one step of a path may do to its life, as the manager sees it.
LifeStep ==
    \/ UNCHANGED <<phase, ctxDone, conf>>
    \/ phase = "run" /\ ctxDone' = TRUE /\ UNCHANGED <<phase, conf>>
    \/ phase = "run" /\ (ctxDone \/ conf.regexp) /\ phase' = "exit" /\ UNCHANGED <<ctxDone, conf>>
    \/ phase = "exit" /\ ctxDone' = TRUE /\ phase' \in {"wait", "done"} /\ UNCHANGED conf
    \/ phase = "wait" /\ ctxDone /\ phase' = "done" /\ UNCHANGED <<ctxDone, conf>>

\* A path that waits for its sources is cancelled.
CancelledAtEnd == phase \in {"run", "exit"} \/ ctxDone

LEMMA StepLife == CancelledAtEnd /\ [Next]_vars => LifeStep
<1> SUFFICES ASSUME CancelledAtEnd, [Next]_vars PROVE LifeStep OBVIOUS
<1>1. CASE UNCHANGED vars \/ Terminated
  BY <1>1 DEF vars, Terminated, LifeStep
<1>2. CASE ReadyTimerFires \/ CloseTimerFires
  BY <1>2 DEF ReadyTimerFires, CloseTimerFires, Running, LifeStep
<1>3. CASE Close \/ CtxDoneSeen
  BY <1>3 DEF Close, CtxDoneSeen, Running, LifeStep
<1>4. CASE RunTail \/ SourcesJoined
  BY <1>4 DEF RunTail, SourcesJoined, LifeStep, CancelledAtEnd
<1>5. CASE \E s \in Sources : SourceStep(s)
  BY <1>5 DEF SourceStep, SourceDialed, SourceSetReady, SourceSetReadyTerminated, SourceFails,
              SourceCancelled, SourceSetNotReady, SourceSetNotReadyTerminated, SourceRetries,
              ExitIfUnused, Running, LifeStep
<1>6. CASE \E d \in Describers : Describe(d)
  BY <1>6 DEF Describe, LifeStep
<1>7. CASE \E r \in Readers : ReaderStep(r)
  BY <1>7 DEF ReaderStep, ReaderSetupPlay, ReaderSetUp, ReaderSetupBadTrack, ReaderPlay,
              ReaderPause, ReaderRemove, ReaderRemoveTerminated, LifeStep
<1>8. CASE \E p \in Publishers : PublisherStep(p)
  BY <1>8 DEF PublisherStep, PublisherAnnounce, PublisherRecord, PublisherPause, PublisherRemove,
              PublisherRemoveTerminated, ExitIfUnused, Running, LifeStep
<1> QED
  BY <1>1, <1>2, <1>3, <1>4, <1>5, <1>6, <1>7, <1>8 DEF Next, PathStep

\* A path implements the life that the path manager counts on.
THEOREM RefinesPathLife == Spec => ImplementsPathLife
<1>1. Init => Life!Init /\ CancelledAtEnd
  <2> SUFFICES ASSUME Init PROVE Life!Init /\ CancelledAtEnd OBVIOUS
  <2>1. phase = "run" /\ ctxDone = FALSE /\ conf \in Confs BY DEF Init
  <2>2. conf.regexp \in BOOLEAN BY <2>1, ConfsAssumption DEF ConfType
  <2> QED BY <2>1, <2>2 DEF Life!Init, LifeOf, CancelledAtEnd
<1>2. CancelledAtEnd /\ [Next]_vars => CancelledAtEnd'
  BY StepLife DEF LifeStep, CancelledAtEnd
<1>3. CancelledAtEnd /\ [Next]_vars => [Life!Next]_(Life!vars)
  <2> SUFFICES ASSUME LifeStep PROVE [Life!Next]_(Life!vars)
    BY StepLife
  <2>1. CASE UNCHANGED <<phase, ctxDone, conf>>
    BY <2>1 DEF Life!vars, LifeOf
  <2>2. CASE phase = "run" /\ ctxDone' = TRUE /\ UNCHANGED <<phase, conf>>
    BY <2>2 DEF Life!Next, Life!Cancel, LifeOf
  <2>3. CASE phase = "run" /\ (ctxDone \/ conf.regexp) /\ phase' = "exit" /\ UNCHANGED <<ctxDone, conf>>
    BY <2>3 DEF Life!Next, Life!Leave, LifeOf
  <2>4. CASE phase = "exit" /\ ctxDone' = TRUE /\ phase' = "wait" /\ UNCHANGED conf
    BY <2>4 DEF Life!Next, Life!Release, LifeOf
  <2>5. CASE phase = "exit" /\ ctxDone' = TRUE /\ phase' = "done" /\ UNCHANGED conf
    BY <2>5 DEF Life!Next, Life!End, LifeOf
  <2>6. CASE phase = "wait" /\ ctxDone /\ phase' = "done" /\ UNCHANGED <<ctxDone, conf>>
    <3>1. ctxDone' = TRUE \/ (ctxDone' # TRUE /\ ctxDone')
      BY <2>6
    <3> QED BY <2>6, <3>1 DEF Life!Next, Life!End, LifeOf
  <2> QED BY <2>1, <2>2, <2>3, <2>4, <2>5, <2>6 DEF LifeStep
<1> QED
  BY <1>1, <1>2, <1>3, PTL DEF Spec, ImplementsPathLife, Life!Spec

(***************************************************************************)
(* The second invariant: what the path knows of its readers, whom it has   *)
(* told to leave, whom it counts, and the panics it can meet.  It rests on *)
(* IInv.  Again each helper is treated once: Neat is kept, readers that    *)
(* are removed are told to leave (Drops), and the places where it can      *)
(* panic are named.                                                        *)
(***************************************************************************)
\* The count and the stream's own list are those of the readers that play, and
\* only RTSP sessions can be registered while there is no stream.
Neat(p) ==
    /\ p.countReaders = Cardinality(playing(p))
    /\ ~p.stale => p.nonRTSPReaders = playing(p) \ RTSPReaders
    /\ p.stream = NoStream => registered(p) \subseteq RTSPReaders

SameReaders(p, q) ==
    /\ q.readers = p.readers /\ q.countReaders = p.countReaders
    /\ q.nonRTSPReaders = p.nonRTSPReaders

SameRest(p, q) == q.countPublishers = p.countPublishers /\ q.onDemandCmd = p.onDemandCmd

\* Nobody is told to stay, and a reader of p that q does not know was closed.
Drops(p, q) ==
    /\ p.closed \subseteq q.closed
    /\ \A r \in Readers : q.readers[r] = p.readers[r]
                          \/ (q.readers[r] = "none" /\ r \in q.closed)

Emptied(q) == \A r \in Readers : q.readers[r] = "none"

LEMMA NeatKept ==
    ASSUME NEW p, NEW q, Neat(p), SameReaders(p, q), q.stale = p.stale, q.stream = p.stream
    PROVE  Neat(q)
BY DEF Neat, SameReaders, playing, registered

LEMMA DropsTrans ==
    ASSUME NEW p, NEW q, NEW u, Drops(p, q), Drops(q, u)
    PROVE  Drops(p, u)
BY DEF Drops

LEMMA PanicAtBooks ==
    ASSUME NEW p \in PaType, NEW c, NEW site \in PanicSites
    PROVE  LET q == panicAt(p, c, site)
           IN /\ SameReaders(p, q) /\ SameRest(p, q) /\ q.closed = p.closed
              /\ ~c => q.panic = p.panic
              /\ q.panic \in {p.panic, site}
BY DEF panicAt, PaType, PanicSites, SameReaders, SameRest

LEMMA CloseSourceBooks ==
    ASSUME NEW p \in PaType
    PROVE  LET q == closeSource(p)
           IN /\ SameReaders(p, q) /\ SameRest(p, q) /\ q.panic = p.panic
              /\ Drops(p, q)
              /\ p.source \in Sources \cup Publishers => p.source \in q.closed
BY DEF closeSource, PaType, SameReaders, SameRest, Drops

LEMMA DoReaderRemoveBooks ==
    ASSUME NEW p \in PaType, NEW rs \in SUBSET Readers, Neat(p)
    PROVE  LET q == doReaderRemove(p, rs)
           IN /\ Neat(q) /\ SameRest(p, q) /\ q.closed = p.closed /\ q.panic = p.panic
              /\ \A r \in Readers : q.readers[r] = IF r \in rs THEN "none" ELSE p.readers[r]
<1> DEFINE gone == rs \cap playing(p)
           bad == p.stream = NoStream /\ ~(gone \subseteq RTSPReaders)
           q == panicAt(p, bad, "readerRemove")
           rd == [r \in Readers |-> IF r \in rs THEN "none" ELSE q.readers[r]]
           n == q.countReaders - Cardinality(gone)
           fr == q.nonRTSPReaders \ gone
           t == [q EXCEPT !.countReaders = n, !.nonRTSPReaders = fr, !.readers = rd]
<1>0. doReaderRemove(p, rs) = t BY DEF doReaderRemove
<1>1. ~bad BY DEF Neat, playing, registered
<1>2. IsFiniteSet(playing(p)) BY FinitenessAssumption, FS_Subset DEF playing
<1>3. Cardinality(playing(p) \ rs) = Cardinality(playing(p)) - Cardinality(gone)
  <2>1. playing(p) \cap rs = gone OBVIOUS
  <2> QED BY <1>2, <2>1, FS_Difference
<1>4. fr = q.nonRTSPReaders \ gone OBVIOUS
<1>g. gone = rs \cap playing(p) OBVIOUS
<1> HIDE DEF bad, gone
<1>5. q \in PaType /\ SameControl(p, q) /\ SameRequests(p, q)
  BY PanicAtFacts DEF PanicSites
<1>6. SameReaders(p, q) /\ SameRest(p, q) /\ q.closed = p.closed /\ q.panic = p.panic
  BY <1>1, PanicAtBooks DEF PanicSites
<1> HIDE DEF q
<1>7. rd \in [Readers -> {"none", "prePlay", "play"}] BY <1>5 DEF PaType
<1>8. \A r \in Readers : rd[r] = IF r \in rs THEN "none" ELSE p.readers[r]
  BY <1>6 DEF SameReaders
<1>9. n = Cardinality(playing(p) \ rs) BY <1>3, <1>6 DEF Neat, SameReaders
<1> HIDE DEF rd, n, fr
<1>10. /\ t.readers = rd /\ t.countReaders = n /\ t.nonRTSPReaders = fr
       /\ t.closed = q.closed /\ t.panic = q.panic /\ t.stale = q.stale /\ t.stream = q.stream
       /\ SameRest(q, t)
  BY <1>5 DEF PaType, SameRest
<1> HIDE DEF t
<1>11. playing(t) = playing(p) \ rs BY <1>8, <1>10 DEF playing
<1>12. registered(t) \subseteq registered(p) BY <1>8, <1>10 DEF registered
<1>13. t.stale = p.stale /\ t.stream = p.stream BY <1>5, <1>10 DEF SameControl, SameRequests
<1>14. ~p.stale => fr = (playing(p) \ rs) \ RTSPReaders
  BY <1>4, <1>6, <1>g DEF Neat, SameReaders
<1>15. Neat(t) BY <1>9, <1>10, <1>11, <1>12, <1>13, <1>14 DEF Neat
<1> QED BY <1>0, <1>6, <1>8, <1>10, <1>15 DEF SameRest

LEMMA CloseReadersBooks ==
    ASSUME NEW p \in PaType, Neat(p)
    PROVE  LET q == closeReaders(p)
           IN /\ Neat(q) /\ SameRest(p, q) /\ q.panic = p.panic
              /\ Drops(p, q) /\ Emptied(q)
<1> DEFINE rs == registered(p)
           q == doReaderRemove(p, rs)
           cl == q.closed \cup rs
           t == [q EXCEPT !.closed = cl]
<1>1. rs \in SUBSET Readers BY DEF registered
<1>2. closeReaders(p) = t BY DEF closeReaders
<1>r. \A r \in Readers : r \in rs <=> p.readers[r] # "none" BY DEF registered
<1> HIDE DEF rs
<1>3. q \in PaType /\ SameControl(p, q) /\ SameRequests(p, q) BY <1>1, DoReaderRemoveFacts
<1>4. /\ Neat(q) /\ SameRest(p, q) /\ q.closed = p.closed /\ q.panic = p.panic
      /\ \A r \in Readers : q.readers[r] = IF r \in rs THEN "none" ELSE p.readers[r]
  BY <1>1, DoReaderRemoveBooks
<1> HIDE DEF q
<1>5. /\ SameReaders(q, t) /\ SameRest(q, t) /\ t.closed = cl /\ t.panic = q.panic
      /\ t.stale = q.stale /\ t.stream = q.stream
  BY <1>3 DEF PaType, SameReaders, SameRest
<1>c. q.closed \subseteq cl /\ rs \subseteq cl OBVIOUS
<1> HIDE DEF t, cl
<1>6. Neat(t) BY <1>4, <1>5, NeatKept
<1>7. Drops(p, t) /\ Emptied(t) BY <1>4, <1>5, <1>r, <1>c DEF Drops, Emptied, SameReaders
<1> QED BY <1>2, <1>4, <1>5, <1>6, <1>7 DEF SameRest

LEMMA SourceSetNotReadyBooks ==
    ASSUME NEW p \in PaType, Neat(p), p.stream # NoStream
    PROVE  LET q == sourceSetNotReady(p)
           IN /\ Neat(q) /\ SameRest(p, q) /\ q.panic = p.panic
              /\ Drops(p, q) /\ Emptied(q)
<1> DEFINE c == closeReaders(p)
           bad == p.stream = NoStream
           q == panicAt(c, bad, "streamClose")
           t == [q EXCEPT !.onPublishCmd = FALSE, !.sourceReady = FALSE,
                          !.stream = NoStream, !.nonRTSPReaders = {}]
<1>0. sourceSetNotReady(p) = t BY DEF sourceSetNotReady
<1>b. ~bad OBVIOUS
<1>1. c \in PaType /\ SameControl(p, c) /\ SameRequests(p, c) BY CloseReadersFacts
<1>2. Neat(c) /\ SameRest(p, c) /\ c.panic = p.panic /\ Drops(p, c) /\ Emptied(c)
  BY CloseReadersBooks
<1> HIDE DEF bad, c
<1>3. q \in PaType /\ SameControl(c, q) /\ SameRequests(c, q) BY <1>1, PanicAtFacts DEF PanicSites
<1>4. SameReaders(c, q) /\ SameRest(c, q) /\ q.closed = c.closed /\ q.panic = c.panic
  BY <1>1, <1>b, PanicAtBooks DEF PanicSites
<1> HIDE DEF q
<1>5. /\ t.readers = q.readers /\ t.countReaders = q.countReaders /\ t.nonRTSPReaders = {}
      /\ t.closed = q.closed /\ t.panic = q.panic /\ SameRest(q, t)
  BY <1>3 DEF PaType, SameRest
<1> HIDE DEF t
<1>6. Emptied(t) /\ Drops(p, t) BY <1>2, <1>4, <1>5 DEF Emptied, Drops, SameReaders
<1>7. playing(t) = {} /\ playing(c) = {} /\ registered(t) = {}
  BY <1>2, <1>6 DEF Emptied, playing, registered
<1>8. Neat(t) BY <1>2, <1>4, <1>5, <1>7 DEF Neat, SameReaders
<1> QED BY <1>0, <1>2, <1>4, <1>5, <1>6, <1>8 DEF SameRest

\* The streams of a path that is ready, as far as the helpers need it.
Streaming(p) == p.sourceReady <=> p.stream # NoStream

LEMMA DoPublisherRemoveInitialBooks ==
    ASSUME NEW p \in PaType, Neat(p), Streaming(p)
    PROVE  LET q == doPublisherRemoveInitial(p)
           IN /\ Neat(q) /\ q.onDemandCmd = p.onDemandCmd /\ q.panic = p.panic
              /\ Drops(p, q) /\ Emptied(q)
<1> DEFINE d == [p EXCEPT !.countPublishers = @ - 1]
           n == sourceSetNotReady(d)
           q == IF p.sourceReady THEN n ELSE p
           t == [q EXCEPT !.source = "nil"]
<1>0. doPublisherRemoveInitial(p) = closeReaders(t) BY DEF doPublisherRemoveInitial
<1>1. d \in PaType /\ SameControl(p, d) /\ SameRequests(p, d)
  BY DEF PaType, SameControl, SameRequests
<1>2. /\ SameReaders(p, d) /\ d.onDemandCmd = p.onDemandCmd /\ d.panic = p.panic
      /\ d.closed = p.closed
  BY DEF PaType, SameReaders
<1> HIDE DEF d
<1>3. Neat(d) /\ Drops(p, d)
  BY <1>1, <1>2, NeatKept DEF SameControl, SameRequests, Drops, SameReaders
<1>4. n \in PaType BY <1>1, SourceSetNotReadyFacts
<1>5. p.sourceReady => /\ Neat(n) /\ SameRest(d, n) /\ n.panic = d.panic
                       /\ Drops(d, n)
  BY <1>1, <1>3, SourceSetNotReadyBooks DEF SameControl, Streaming
<1> HIDE DEF n
<1>6. /\ q \in PaType /\ Neat(q) /\ q.onDemandCmd = p.onDemandCmd /\ q.panic = p.panic
      /\ Drops(p, q)
  <2>1. CASE p.sourceReady BY <2>1, <1>2, <1>3, <1>4, <1>5, DropsTrans DEF SameRest
  <2>2. CASE ~p.sourceReady BY <2>2 DEF Drops
  <2> QED BY <2>1, <2>2
<1> HIDE DEF q
<1>7. t \in PaType BY <1>6 DEF PaType
<1>8. /\ SameReaders(q, t) /\ SameRest(q, t) /\ t.panic = q.panic /\ t.closed = q.closed
      /\ t.stale = q.stale /\ t.stream = q.stream
  BY <1>6 DEF PaType, SameReaders, SameRest
<1> HIDE DEF t
<1>9. Neat(t) /\ Drops(q, t) BY <1>6, <1>8, NeatKept DEF Drops, SameReaders
<1>10. LET u == closeReaders(t)
       IN /\ Neat(u) /\ SameRest(t, u) /\ u.panic = t.panic /\ Drops(t, u) /\ Emptied(u)
  BY <1>7, <1>9, CloseReadersBooks
<1>11. Drops(p, t) BY <1>6, <1>9, DropsTrans
<1>12. Drops(p, closeReaders(t)) BY <1>10, <1>11, DropsTrans
<1> QED BY <1>0, <1>6, <1>8, <1>10, <1>12 DEF SameRest

LEMMA CloseStaticSourceBooks ==
    ASSUME NEW p \in PaType, Neat(p), Streaming(p)
    PROVE  LET q == closeStaticSource(p)
           IN /\ Neat(q) /\ q.onDemandCmd = p.onDemandCmd /\ Drops(p, q)
              /\ q.panic \in {p.panic, "closeStatic"}
              /\ p.source \in Sources \cup Publishers =>
                    q.panic = p.panic /\ p.source \in q.closed
              /\ p.sourceReady => Emptied(q)
<1> DEFINE n == sourceSetNotReady(p)
           q == IF p.sourceReady THEN n ELSE p
           bad == q.source \notin Sources \cup Publishers
           r == panicAt(q, bad, "closeStatic")
           c == closeSource(r)
           t == [c EXCEPT !.source = "nil"]
<1>0. closeStaticSource(p) = t BY DEF closeStaticSource
<1>1. n \in PaType /\ n.source = p.source BY SourceSetNotReadyFacts
<1>2. p.sourceReady => /\ Neat(n) /\ SameRest(p, n) /\ n.panic = p.panic
                       /\ Drops(p, n) /\ Emptied(n)
  BY SourceSetNotReadyBooks DEF Streaming
<1> HIDE DEF n
<1>3. /\ q \in PaType /\ Neat(q) /\ q.onDemandCmd = p.onDemandCmd /\ q.panic = p.panic
      /\ Drops(p, q) /\ q.source = p.source /\ (p.sourceReady => Emptied(q))
  <2>1. CASE p.sourceReady BY <2>1, <1>1, <1>2 DEF SameRest
  <2>2. CASE ~p.sourceReady BY <2>2 DEF Drops
  <2> QED BY <2>1, <2>2
<1>b. p.source \in Sources \cup Publishers => ~bad BY <1>3
<1> HIDE DEF q, bad
<1>4. r \in PaType /\ SameControl(q, r) /\ SameRequests(q, r) BY <1>3, PanicAtFacts DEF PanicSites
<1>5. /\ SameReaders(q, r) /\ SameRest(q, r) /\ r.closed = q.closed
      /\ ~bad => r.panic = q.panic
      /\ r.panic \in {q.panic, "closeStatic"}
  BY <1>3, PanicAtBooks DEF PanicSites
<1> HIDE DEF r
<1>6. c \in PaType /\ SameControl(r, c) /\ SameRequests(r, c) BY <1>4, CloseSourceFacts
<1>7. /\ SameReaders(r, c) /\ SameRest(r, c) /\ c.panic = r.panic /\ Drops(r, c)
      /\ r.source \in Sources \cup Publishers => r.source \in c.closed
  BY <1>4, CloseSourceBooks
<1> HIDE DEF c
<1>8. /\ SameReaders(c, t) /\ SameRest(c, t) /\ t.panic = c.panic /\ t.closed = c.closed
      /\ t.stale = c.stale /\ t.stream = c.stream
  BY <1>6 DEF PaType, SameReaders, SameRest
<1> HIDE DEF t
<1>9. /\ SameReaders(q, t) /\ t.stale = q.stale /\ t.stream = q.stream
      /\ q.closed \subseteq t.closed
  BY <1>4, <1>5, <1>6, <1>7, <1>8 DEF SameReaders, SameControl, SameRequests, Drops
<1>10. Neat(t) BY <1>3, <1>9, NeatKept
<1>11. Drops(q, t) BY <1>9 DEF Drops, SameReaders
<1>12. Drops(p, t) BY <1>3, <1>11, DropsTrans
<1>13. p.sourceReady => Emptied(t) BY <1>3, <1>9 DEF Emptied, SameReaders
<1>14. p.source \in Sources \cup Publishers => p.source \in t.closed
  BY <1>3, <1>4, <1>7, <1>8 DEF SameControl
<1>15. t.onDemandCmd = p.onDemandCmd BY <1>3, <1>5, <1>7, <1>8 DEF SameRest
<1> QED BY <1>0, <1>b, <1>3, <1>5, <1>7, <1>8, <1>10, <1>12, <1>13, <1>14, <1>15

LEMMA CloseOnDemandCmdBooks ==
    ASSUME NEW p \in PaType, Neat(p), Streaming(p)
    PROVE  LET q == closeOnDemandCmd(p)
           IN /\ Neat(q) /\ q.onDemandCmd = FALSE /\ Drops(p, q)
              /\ q.panic \in {p.panic, "closeCmd"}
              /\ p.source \in Sources \cup Publishers => p.source \in q.closed
              /\ p.source # "nil" => Emptied(q)
<1> DEFINE bad == ~p.onDemandCmd
           a == panicAt(p, bad, "closeCmd")
           q == [a EXCEPT !.onDemandCmd = FALSE]
           c == closeSource(q)
           i == doPublisherRemoveInitial(c)
<1>0. closeOnDemandCmd(p) = IF q.source = "nil" THEN q ELSE i BY DEF closeOnDemandCmd
<1> HIDE DEF bad
<1>1. a \in PaType /\ SameControl(p, a) /\ SameRequests(p, a) BY PanicAtFacts DEF PanicSites
<1>2. SameReaders(p, a) /\ a.closed = p.closed /\ a.panic \in {p.panic, "closeCmd"}
  BY PanicAtBooks DEF PanicSites
<1> HIDE DEF a
<1>3. q \in PaType BY <1>1 DEF PaType
<1>4. SameControl(a, q) /\ SameRequests(a, q) BY <1>1 DEF PaType, SameControl, SameRequests
<1>5. SameReaders(a, q) /\ q.closed = a.closed /\ q.panic = a.panic /\ q.onDemandCmd = FALSE
  BY <1>1 DEF PaType, SameReaders
<1> HIDE DEF q
<1>6. SameReaders(p, q) /\ q.stale = p.stale /\ q.stream = p.stream /\ q.closed = p.closed
      /\ q.source = p.source /\ q.sourceReady = p.sourceReady
  BY <1>1, <1>2, <1>4, <1>5 DEF SameReaders, SameControl, SameRequests
<1>7. Neat(q) /\ Drops(p, q) BY <1>6, NeatKept DEF Drops, SameReaders
<1>8. c \in PaType /\ SameControl(q, c) /\ SameRequests(q, c) BY <1>3, CloseSourceFacts
<1>9. /\ SameReaders(q, c) /\ SameRest(q, c) /\ c.panic = q.panic /\ Drops(q, c)
      /\ q.source \in Sources \cup Publishers => q.source \in c.closed
  BY <1>3, CloseSourceBooks
<1> HIDE DEF c
<1>10. Neat(c) /\ Streaming(c) /\ Drops(p, c)
  BY <1>6, <1>7, <1>8, <1>9, NeatKept, DropsTrans DEF Streaming, SameControl, SameRequests
<1>11. /\ Neat(i) /\ i.onDemandCmd = c.onDemandCmd /\ i.panic = c.panic
       /\ Drops(c, i) /\ Emptied(i)
  BY <1>8, <1>10, DoPublisherRemoveInitialBooks
<1> HIDE DEF i
<1>12. Drops(p, i) BY <1>10, <1>11, DropsTrans
<1>13. CASE p.source = "nil"
  BY <1>13, <1>0, <1>2, <1>5, <1>6, <1>7, ClientsAssumption
<1>14. CASE p.source # "nil"
  BY <1>14, <1>0, <1>2, <1>5, <1>6, <1>9, <1>11, <1>12 DEF SameRest, Drops
<1> QED BY <1>13, <1>14

LEMMA OnDemandCloseSourceBooks ==
    ASSUME NEW p \in PaType, Neat(p), Streaming(p)
    PROVE  LET q == onDemandCloseSource(p)
           IN /\ Neat(q) /\ Drops(p, q)
              /\ q.onDemandCmd = (hasStaticSource /\ p.onDemandCmd)
              /\ \/ q.panic = p.panic
                 \/ ~hasStaticSource /\ q.panic = "closeCmd"
                 \/ hasStaticSource /\ q.panic = "closeStatic" /\ p.source \notin Sources \cup Publishers
              /\ p.source \in Sources \cup Publishers => p.source \in q.closed
              /\ p.sourceReady /\ (hasStaticSource \/ p.source # "nil") => Emptied(q)
<1> DEFINE tm == p.onDemandCloseTimer /\ p.onDemandState # "closing"
           d == [p EXCEPT !.onDemandCloseTimer = tm, !.onDemandState = "initial"]
           s == closeStaticSource(d)
           c == closeOnDemandCmd(d)
<1>0. onDemandCloseSource(p) = IF hasStaticSource THEN s ELSE c BY DEF onDemandCloseSource
<1>t. tm \in BOOLEAN OBVIOUS
<1>b. hasStaticSource \in BOOLEAN BY DEF hasStaticSource
<1> HIDE DEF tm
<1>1. d \in PaType /\ SameRequests(p, d) BY <1>t DEF PaType, SameRequests
<1>2. /\ d.source = p.source /\ d.sourceReady = p.sourceReady /\ d.stream = p.stream
      /\ SameReaders(p, d) /\ SameRest(p, d) /\ d.closed = p.closed /\ d.panic = p.panic
  BY DEF PaType, SameReaders, SameRest
<1>c. p.onDemandCmd \in BOOLEAN BY DEF PaType
<1> HIDE DEF d
<1>3. Neat(d) /\ Streaming(d) /\ Drops(p, d)
  BY <1>1, <1>2, NeatKept DEF Streaming, Drops, SameReaders, SameRequests
<1>4. /\ Neat(s) /\ s.onDemandCmd = d.onDemandCmd /\ Drops(d, s)
      /\ s.panic \in {d.panic, "closeStatic"}
      /\ d.source \in Sources \cup Publishers => s.panic = d.panic /\ d.source \in s.closed
      /\ d.sourceReady => Emptied(s)
  BY <1>1, <1>3, CloseStaticSourceBooks
<1>5. /\ Neat(c) /\ c.onDemandCmd = FALSE /\ Drops(d, c)
      /\ c.panic \in {d.panic, "closeCmd"}
      /\ d.source \in Sources \cup Publishers => d.source \in c.closed
      /\ d.source # "nil" => Emptied(c)
  BY <1>1, <1>3, CloseOnDemandCmdBooks
<1> HIDE DEF s, c
<1>6. Drops(p, s) /\ Drops(p, c) BY <1>3, <1>4, <1>5, DropsTrans
<1>7. CASE hasStaticSource BY <1>7, <1>0, <1>2, <1>4, <1>6, <1>c DEF SameRest
<1>8. CASE ~hasStaticSource BY <1>8, <1>0, <1>2, <1>5, <1>6
<1> QED BY <1>7, <1>8, <1>b

\* What a panic of onDemandCloseSource on p says about the path.
ClosePanics(p, site) ==
    /\ isOnDemand
    /\ \/ ~hasStaticSource /\ site = "closeCmd"
       \/ hasStaticSource /\ site = "closeStatic" /\ p.source \notin Sources \cup Publishers

\* A source that stops takes the readers with it.
LEMMA SourceStopsBooks ==
    ASSUME NEW p \in PaType, conf \in Confs, Neat(p), Ready(p), p.sourceReady,
           hasStaticSource \/ p.source # "nil",
           isOnDemand /\ p.onDemandCmd => ~hasStaticSource
    PROVE  LET q == sourceStops(p)
           IN /\ Neat(q) /\ Drops(p, q) /\ Emptied(q)
              /\ q.panic = p.panic \/ ClosePanics(p, q.panic)
              /\ isOnDemand => /\ q.onDemandCmd = FALSE
                               /\ p.source \in Sources \cup Publishers => p.source \in q.closed
              /\ ~isOnDemand => SameRest(p, q)
<1> DEFINE c == onDemandCloseSource(p)
           n == sourceSetNotReady(p)
<1>0. sourceStops(p) = IF isOnDemand /\ p.onDemandState # "initial" THEN c ELSE n
  BY DEF sourceStops
<1>1. Streaming(p) /\ p.stream # NoStream BY DEF Ready, Streaming
<1>2. /\ Neat(c) /\ Drops(p, c)
      /\ c.onDemandCmd = (hasStaticSource /\ p.onDemandCmd)
      /\ \/ c.panic = p.panic
         \/ ~hasStaticSource /\ c.panic = "closeCmd"
         \/ hasStaticSource /\ c.panic = "closeStatic" /\ p.source \notin Sources \cup Publishers
      /\ p.source \in Sources \cup Publishers => p.source \in c.closed
      /\ Emptied(c)
  BY <1>1, OnDemandCloseSourceBooks
<1>3. Neat(n) /\ SameRest(p, n) /\ n.panic = p.panic /\ Drops(p, n) /\ Emptied(n)
  BY <1>1, SourceSetNotReadyBooks
<1> HIDE DEF c, n
<1>4. p.onDemandCmd \in BOOLEAN /\ isOnDemand \in BOOLEAN BY ConfFacts DEF PaType
<1>5. CASE isOnDemand
  <2>1. p.onDemandState # "initial" BY <1>5 DEF Ready
  <2>2. c.onDemandCmd = FALSE BY <1>2, <1>4, <1>5
  <2> QED BY <1>0, <1>2, <1>5, <2>1, <2>2 DEF ClosePanics
<1>6. CASE ~isOnDemand BY <1>0, <1>3, <1>6
<1> QED BY <1>5, <1>6

\* The removal of the publisher: p.source is a publisher.
LEMMA DoPublisherRemoveBooks ==
    ASSUME NEW p \in PaType, conf \in Confs, Neat(p), Ready(p), p.source \in Publishers,
           isOnDemand /\ p.onDemandCmd => ~hasStaticSource
    PROVE  LET q == doPublisherRemove(p)
           IN /\ Neat(q) /\ Drops(p, q) /\ Emptied(q)
              /\ q.panic = p.panic \/ ClosePanics(p, q.panic)
              /\ p.sourceReady /\ isOnDemand => q.onDemandCmd = FALSE /\ p.source \in q.closed
              /\ ~p.sourceReady => q.onDemandCmd = p.onDemandCmd
              /\ ~isOnDemand => /\ q.onDemandCmd = p.onDemandCmd
                                /\ q.countPublishers = IF p.sourceReady
                                        THEN p.countPublishers - 1 ELSE p.countPublishers
<1> DEFINE d == [p EXCEPT !.countPublishers = @ - 1]
           n == sourceStops(d)
           q == IF p.sourceReady THEN n ELSE p
           t == [q EXCEPT !.source = "nil"]
<1>0. doPublisherRemove(p) = closeReaders(t) BY DEF doPublisherRemove
<1>n. p.source # "nil" BY ClientsAssumption
<1>1. d \in PaType /\ SameControl(p, d) /\ SameRequests(p, d)
  BY DEF PaType, SameControl, SameRequests
<1>2. /\ SameReaders(p, d) /\ d.onDemandCmd = p.onDemandCmd /\ d.panic = p.panic
      /\ d.closed = p.closed /\ d.countPublishers = p.countPublishers - 1
  BY DEF PaType, SameReaders
<1> HIDE DEF d
<1>3. Neat(d) /\ Drops(p, d)
  BY <1>1, <1>2, NeatKept DEF SameControl, SameRequests, Drops, SameReaders
<1>4. Ready(d) /\ (d.sourceReady /\ ~hasStaticSource => d.source # "nil")
  BY <1>1, <1>n DEF Ready, SameControl
<1>5. n \in PaType BY <1>1, <1>4, SourceStopsFacts
<1>6. ASSUME p.sourceReady
      PROVE  /\ Neat(n) /\ Drops(d, n)
             /\ n.panic = d.panic \/ ClosePanics(d, n.panic)
             /\ isOnDemand => /\ n.onDemandCmd = FALSE
                              /\ d.source \in Sources \cup Publishers => d.source \in n.closed
             /\ ~isOnDemand => SameRest(d, n)
  <2>1. d.sourceReady /\ (hasStaticSource \/ d.source # "nil")
    BY <1>1, <1>n, <1>6 DEF SameControl
  <2>2. isOnDemand /\ d.onDemandCmd => ~hasStaticSource BY <1>2
  <2> QED BY <1>1, <1>3, <1>4, <2>1, <2>2, SourceStopsBooks
<1> HIDE DEF n
<1>7. /\ q \in PaType /\ Neat(q) /\ Drops(p, q)
      /\ q.panic = p.panic \/ ClosePanics(p, q.panic)
      /\ p.sourceReady /\ isOnDemand => q.onDemandCmd = FALSE /\ p.source \in q.closed
      /\ ~p.sourceReady => q.onDemandCmd = p.onDemandCmd
      /\ ~isOnDemand => /\ q.onDemandCmd = p.onDemandCmd
                        /\ q.countPublishers = IF p.sourceReady
                                THEN p.countPublishers - 1 ELSE p.countPublishers
  <2>1. CASE p.sourceReady
    <3>1. q = n BY <2>1
    <3>2. Drops(p, n) BY <1>3, <1>6, <2>1, DropsTrans
    <3>3. n.panic = p.panic \/ ClosePanics(p, n.panic)
      BY <1>1, <1>2, <1>6, <2>1 DEF ClosePanics, SameControl
    <3> HIDE DEF q
    <3> QED BY <1>1, <1>2, <1>5, <1>6, <2>1, <3>1, <3>2, <3>3 DEF SameControl, SameRest
  <2>2. CASE ~p.sourceReady BY <2>2 DEF Drops
  <2> QED BY <2>1, <2>2
<1> HIDE DEF q
<1>8. t \in PaType BY <1>7 DEF PaType
<1>9. /\ SameReaders(q, t) /\ SameRest(q, t) /\ t.panic = q.panic /\ t.closed = q.closed
      /\ t.stale = q.stale /\ t.stream = q.stream
  BY <1>7 DEF PaType, SameReaders, SameRest
<1> HIDE DEF t
<1>10. Neat(t) /\ Drops(q, t) BY <1>7, <1>9, NeatKept DEF Drops, SameReaders
<1> DEFINE u == closeReaders(t)
<1>11. Neat(u) /\ SameRest(t, u) /\ u.panic = t.panic /\ Drops(t, u) /\ Emptied(u)
  BY <1>8, <1>10, CloseReadersBooks
<1> HIDE DEF u
<1>12. Drops(p, t) BY <1>7, <1>10, DropsTrans
<1>13. Drops(p, u) BY <1>11, <1>12, DropsTrans
<1>14. p.sourceReady /\ isOnDemand => p.source \in u.closed
  BY <1>7, <1>9, <1>11 DEF Drops
<1> QED BY <1>0, <1>7, <1>9, <1>11, <1>13, <1>14 DEF SameRest, u

(***************************************************************************)
(* The invariant itself.                                                   *)
(***************************************************************************)
Counted(p) ==
    ~isOnDemand => p.countPublishers = IF p.sourceReady /\ p.source \in Publishers THEN 1 ELSE 0

\* What is open on a path: nothing without on demand start, and on a static
\* path a source, as soon as one was asked for.
Opened(p) ==
    /\ ~isOnDemand => ~p.onDemandReadyTimer /\ ~p.onDemandCloseTimer /\ ~p.onDemandCmd
    /\ hasStaticSource =>
        /\ ~p.onDemandCmd
        /\ ~isOnDemand => p.source \in Sources
        /\ ~p.stale /\ p.onDemandState = "waitingReady" => p.source \in Sources
        /\ ~p.stale /\ p.onDemandState # "initial" => p.source # "nil"

Used(p) ==
    /\ p.onDemandState = "ready" => registered(p) # {}
    /\ p.onDemandCmd => p.onDemandState # "initial"

Books(p) == Neat(p) /\ Counted(p) /\ Opened(p) /\ Used(p)

LastToldToLeave(p) == p.onDemandState = "closing" => registered(p) \subseteq p.closed

\* A panic at this site is one of those PanicsKnown allows.
PanicAllowed(p, site) ==
    \/ site \in {"none", "readerAdd"}
    \/ site = "closeCmd" /\ conf.runOnDemand
    \/ site = "closeStatic" /\ hasStaticSource /\ isOnDemand /\ p.stale
    \/ site = "closePublisher" /\ conf.source = "redirect"

\* The second half of ReadersFollowStream.
Told ==
    \A r \in Readers :
        /\ Alive /\ InLoop /\ pa.readers[r] = "none"
        /\ sess[r] \in {"preRead", "read"} \/ pa.res[r] = "stream"
        => r \in pa.closed

\* A reader plays, and waits, only in the states in which it may.
Played ==
    Alive => \A r \in Readers :
        /\ pa.readers[r] = "play" => sess[r] \in {"read", "gone"}
        /\ pa.res[r] \in {"wait", "stream"} => sess[r] \in {"initial", "preRead"}

\* The part of ReadyMatchesOwner that survives a stale SetReady.
OwnerReady ==
    Alive /\ pa.source \in Sources /\ spc[pa.source] \in Attached => pa.sourceReady

JInv ==
    /\ InLoop => Neat(pa) /\ Counted(pa)
    /\ ~InLoop => pa.countReaders = 0 /\ ~pa.onDemandCmd
    /\ Opened(pa) /\ Used(pa)
    /\ ~ctxDone => LastToldToLeave(pa)
    /\ Told /\ Played /\ OwnerReady /\ PublisherFeedsStream
    /\ PanicsKnown

\* A stream that goes away takes the readers with it.
Swaps(p, q) ==
    ~q.stale /\ p.stream # NoStream /\ q.stream # p.stream =>
        q.stream = NoStream /\ registered(q) = {}

LEMMA JInvPrime ==
    ASSUME conf' = conf, InLoop' => Neat(pa') /\ Counted(pa'),
           ~InLoop' => pa'.countReaders = 0 /\ ~pa'.onDemandCmd,
           Opened(pa'), Used(pa'), ~ctxDone' => LastToldToLeave(pa'),
           Told', Played', OwnerReady', PublisherFeedsStream', PanicAllowed(pa', pa'.panic)
    PROVE  JInv'
<1>1. hasStaticSource' = hasStaticSource /\ isOnDemand' = isOnDemand
  BY DEF hasStaticSource, isOnDemand
<1>2. InLoop' => Neat(pa)' /\ Counted(pa)'
  BY <1>1 DEF Neat, Counted, playing, registered
<1>3. Opened(pa)' BY <1>1 DEF Opened
<1>4. Used(pa)' /\ (~ctxDone' => LastToldToLeave(pa)') BY DEF Used, LastToldToLeave, registered
<1>5. PanicsKnown' BY <1>1 DEF PanicsKnown, PanicAllowed
<1> QED BY <1>2, <1>3, <1>4, <1>5 DEF JInv

LEMMA JFacts ==
    ASSUME JInv
    PROVE  /\ InLoop => Books(pa)
           /\ Opened(pa) /\ Used(pa) /\ (~ctxDone => LastToldToLeave(pa))
           /\ Told /\ Played /\ OwnerReady /\ PublisherFeedsStream
           /\ PanicAllowed(pa, pa.panic)
BY DEF JInv, Books, PanicsKnown, PanicAllowed

\* A path that ended in a panic keeps the books of the state it panicked in.
LEMMA PanicStep ==
    ASSUME IInv, JInv, Running, NEW site \in PanicSites, PanicAllowed(pa, site),
           pa' = [pa EXCEPT !.panic = site], conf' = conf, ctxDone' = ctxDone,
           phase' \in {"run", "exit"}
    PROVE  JInv' /\ Swaps(pa, pa')
<1>1. pa \in PaType BY IInvSplit DEF Sound
<1>2. pa'.panic = site /\ SameControl(pa, pa') /\ SameRequests(pa, pa') /\ SameReaders(pa, pa')
      /\ SameRest(pa, pa') /\ pa'.closed = pa.closed
  BY <1>1 DEF PaType, SameControl, SameRequests, SameReaders, SameRest
<1>3. InLoop /\ InLoop' /\ ~Alive' BY <1>2 DEF Running, InLoop, Alive, PanicSites
<1>4. Books(pa) /\ Opened(pa) /\ Used(pa) /\ (~ctxDone => LastToldToLeave(pa))
  BY <1>3, JFacts
<1>5. Neat(pa') BY <1>2, <1>4, NeatKept DEF Books, SameControl, SameRequests
<1>6. Counted(pa') /\ Opened(pa') /\ Used(pa') /\ (~ctxDone => LastToldToLeave(pa'))
  BY <1>2, <1>4 DEF Books, Counted, Opened, Used, LastToldToLeave, registered,
                    SameControl, SameRequests, SameReaders, SameRest
<1>7. PanicAllowed(pa', pa'.panic) BY <1>2 DEF PanicAllowed, SameRequests
<1>8. Told' /\ Played' /\ OwnerReady' /\ PublisherFeedsStream'
  BY <1>3 DEF Told, Played, OwnerReady, PublisherFeedsStream
<1>9. Swaps(pa, pa') BY <1>2 DEF Swaps, SameControl
<1> QED BY <1>3, <1>5, <1>6, <1>7, <1>8, <1>9, JInvPrime

\* A handler that ran: what has to be shown of its result q.
LEMMA HandlerStep ==
    ASSUME IInv, JInv, Running, NEW q \in PaType, Apply(q),
           conf' = conf, ctxDone' = ctxDone, phase' \in {"run", "exit"},
           PanicAllowed(pa, q.panic),
           q.panic = "none" => Books(q) /\ (~ctxDone => LastToldToLeave(q)) /\ Swaps(pa, q),
           pa' = q /\ q.panic = "none" => Told' /\ Played' /\ OwnerReady' /\ PublisherFeedsStream'
    PROVE  JInv' /\ Swaps(pa, pa')
<1>1. CASE q.panic # "none"
  <2>1. pa' = [pa EXCEPT !.panic = q.panic] /\ q.panic \in PanicSites
    BY <1>1 DEF Apply, PaType
  <2> QED BY <2>1, PanicStep
<1>2. CASE q.panic = "none"
  <2>1. pa' = q BY <1>2 DEF Apply
  <2>2. InLoop' BY DEF InLoop
  <2>3. PanicAllowed(pa', pa'.panic) BY <1>2, <2>1 DEF PanicAllowed
  <2> QED BY <1>2, <2>1, <2>2, <2>3, JInvPrime DEF Books
<1> QED BY <1>1, <1>2

\* Nobody who does not leave by itself is dropped, put on hold or let in.
Calm(p, q) ==
    \A r \in Readers :
        /\ r \in p.closed => r \in q.closed
        /\ q.readers[r] = "none" => p.readers[r] = "none" \/ r \in q.closed
        /\ q.readers[r] = "play" => p.readers[r] = "play"
        /\ q.res[r] = "stream" => \/ p.res[r] = "stream"
                                  \/ p.res[r] = "wait" /\ q.readers[r] # "none"
        /\ q.res[r] = "wait" => p.res[r] = "wait"

LEMMA CalmStep ==
    ASSUME Told, Played, Alive, Calm(pa, pa'), sess' = sess, InLoop' => InLoop
    PROVE  Told' /\ Played'
<1>1. Told'
  <2> SUFFICES ASSUME NEW r \in Readers, Alive', InLoop', pa'.readers[r] = "none",
                      sess[r] \in {"preRead", "read"} \/ pa'.res[r] = "stream"
               PROVE  r \in pa'.closed
    BY DEF Told
  <2> QED BY DEF Told, Calm
<1>2. Played' BY DEF Played, Calm
<1> QED BY <1>1, <1>2

LEMMA DropsCalm ==
    ASSUME NEW p, NEW q, Drops(p, q), q.res = p.res
    PROVE  Calm(p, q)
BY DEF Drops, Calm

LEMMA EmptyRegistered == ASSUME NEW q, Emptied(q) PROVE registered(q) = {}
BY DEF Emptied, registered

(***************************************************************************)
(* Steps that do not run a handler of the path.                            *)
(***************************************************************************)
LEMMA QuietStep ==
    ASSUME IInv, JInv, Alive, SameControl(pa, pa'), SameReaders(pa, pa'), SameRest(pa, pa'),
           pa'.onDemandReadyTimer = pa.onDemandReadyTimer, pa'.stale = pa.stale,
           pa'.panic = pa.panic, conf' = conf, InLoop' <=> InLoop, ctxDone => ctxDone',
           ~ctxDone' => pa.closed \cap Readers \subseteq pa'.closed,
           Told', Played', OwnerReady', PublisherFeedsStream'
    PROVE  JInv' /\ Swaps(pa, pa')
<1>1. /\ InLoop => Neat(pa) /\ Counted(pa)
      /\ ~InLoop => pa.countReaders = 0 /\ ~pa.onDemandCmd
      /\ Opened(pa) /\ Used(pa) /\ (~ctxDone => LastToldToLeave(pa))
  BY DEF JInv
<1>2. InLoop => Neat(pa') BY <1>1, NeatKept DEF SameControl
<1>3. (InLoop => Counted(pa')) /\ Opened(pa')
  BY <1>1 DEF Counted, Opened, SameControl, SameRest
<1>4. registered(pa') = registered(pa) BY DEF registered, SameReaders
<1>5. Used(pa') BY <1>1, <1>4 DEF Used, SameControl, SameRest
<1>6. ~ctxDone' => LastToldToLeave(pa')
  BY <1>1, <1>4 DEF LastToldToLeave, registered, SameControl
<1>7. ~InLoop' => pa'.countReaders = 0 /\ ~pa'.onDemandCmd
  BY <1>1 DEF SameReaders, SameRest
<1>8. PanicAllowed(pa', pa'.panic) BY JFacts DEF PanicAllowed
<1>9. Swaps(pa, pa') BY DEF Swaps, SameControl
<1> QED BY <1>2, <1>3, <1>5, <1>6, <1>7, <1>8, <1>9, JInvPrime

\* The publishers and what they feed are left alone.
LEMMA FeedKept ==
    ASSUME PublisherFeedsStream, Alive,
           pa'.source = pa.source /\ pa'.sourceReady = pa.sourceReady /\ pa'.stream = pa.stream,
           pa'.stale = pa.stale, ctxDone => ctxDone',
           pa.closed \cap Publishers \subseteq pa'.closed,
           psess' = psess, pstream' = pstream
    PROVE  PublisherFeedsStream'
BY DEF PublisherFeedsStream, Alive

\* The source is gone, and if it was a publisher that recorded it was told so.
LEMMA FeedGone ==
    ASSUME PublisherFeedsStream, Alive, pa'.stale = pa.stale,
           ctxDone => ctxDone', pa'.source = "nil",
           pa.closed \cap Publishers \subseteq pa'.closed,
           pa.source \in Publishers => pa.source \in pa'.closed,
           psess' = psess, pstream' = pstream
    PROVE  PublisherFeedsStream'
BY ClientsAssumption DEF PublisherFeedsStream, Alive

LEMMA OwnerReadyKept ==
    ASSUME OwnerReady, Alive, pa'.source = pa.source, pa'.sourceReady = pa.sourceReady, spc' = spc
    PROVE  OwnerReady'
BY DEF OwnerReady, Alive

LEMMA OwnerReadyGone ==
    ASSUME pa'.source \notin Sources
    PROVE  OwnerReady'
BY DEF OwnerReady

\* A source moves without calling the path.
LEMMA SourceMovesJ ==
    ASSUME IInv, JInv, Alive, NEW s \in Sources, NEW to,
           spc' = [spc EXCEPT ![s] = to], to \in Attached => spc[s] \in Attached,
           NEW c \in SUBSET (Readers \cup Publishers \cup Sources),
           pa.closed \ {s} \subseteq c,
           pa' = [pa EXCEPT !.closed = c], InLoop' <=> InLoop,
           UNCHANGED <<conf, ctxDone, sess, psess, pstream>>
    PROVE  JInv' /\ Swaps(pa, pa')
<1>1. Rest /\ Sound(pa) BY IInvSplit
<1>2. pa \in PaType /\ s \notin Readers /\ s \notin Publishers
  BY <1>1, ClientsAssumption DEF Sound
<1>3. /\ SameControl(pa, pa') /\ SameRequests(pa, pa') /\ SameReaders(pa, pa')
      /\ SameRest(pa, pa') /\ pa'.panic = pa.panic /\ pa'.closed = c
  BY <1>2 DEF PaType, SameControl, SameRequests, SameReaders, SameRest
<1>4. pa.closed \cap Readers \subseteq pa'.closed /\ pa.closed \cap Publishers \subseteq pa'.closed
  BY <1>2, <1>3
<1>5. Told /\ Played /\ OwnerReady /\ PublisherFeedsStream BY JFacts
<1>6. Calm(pa, pa') BY <1>3, <1>4 DEF Calm, SameRequests, SameReaders
<1>8. Told' /\ Played' BY <1>5, <1>6, CalmStep
<1>9. PublisherFeedsStream' BY <1>3, <1>4, <1>5, FeedKept DEF SameControl, SameRequests
<1>10. OwnerReady'
  BY <1>1, <1>3, <1>5 DEF OwnerReady, Rest, SameControl
<1> QED BY <1>3, <1>4, <1>8, <1>9, <1>10, QuietStep DEF SameRequests

LEMMA SourceMoveStepsJ ==
    ASSUME IInv, JInv, NEW s \in Sources,
           \/ SourceDialed(s) \/ SourceSetReadyTerminated(s) \/ SourceFails(s)
           \/ SourceCancelled(s) \/ SourceSetNotReadyTerminated(s) \/ SourceRetries(s)
    PROVE  JInv' /\ Swaps(pa, pa')
<1>1. Rest /\ Sound(pa) BY IInvSplit
<1>2. pa \in PaType BY <1>1 DEF Sound
<1>3. pa.closed \in SUBSET (Readers \cup Publishers \cup Sources)
      /\ pa = [pa EXCEPT !.closed = pa.closed] /\ pa.closed \ {s} \subseteq pa.closed
  BY <1>2 DEF PaType
<1>p. InLoop' <=> InLoop
  BY DEF SourceDialed, SourceSetReadyTerminated, SourceFails, SourceCancelled,
         SourceSetNotReadyTerminated, SourceRetries, InLoop
<1>4. CASE SourceDialed(s)
  <2>1. PICK to \in {"setReady", "pause"} : spc' = [spc EXCEPT ![s] = to]
    BY <1>4 DEF SourceDialed
  <2>2. Alive /\ pa' = [pa EXCEPT !.closed = pa.closed] /\ UNCHANGED <<conf, ctxDone, sess, psess, pstream>>
    BY <1>3, <1>4 DEF SourceDialed
  <2>3. to \notin Attached BY DEF Attached
  <2> QED BY <1>p, <1>3, <2>1, <2>2, <2>3, SourceMovesJ
<1>5. CASE SourceSetReadyTerminated(s)
  <2>1. Alive /\ pa' = [pa EXCEPT !.closed = pa.closed] /\ spc' = [spc EXCEPT ![s] = "pause"]
        /\ UNCHANGED <<conf, ctxDone, sess, psess, pstream>>
    BY <1>3, <1>5 DEF SourceSetReadyTerminated
  <2>2. "pause" \notin Attached BY DEF Attached
  <2> QED BY <1>p, <1>3, <2>1, <2>2, SourceMovesJ
<1>6. CASE SourceFails(s)
  <2>1. Alive /\ pa' = [pa EXCEPT !.closed = pa.closed] /\ spc' = [spc EXCEPT ![s] = "failing"]
        /\ UNCHANGED <<conf, ctxDone, sess, psess, pstream>> /\ spc[s] \in Attached
    BY <1>3, <1>6 DEF SourceFails, Attached
  <2> QED BY <1>p, <1>3, <2>1, SourceMovesJ
<1>7. CASE SourceRetries(s)
  <2>1. Alive /\ pa' = [pa EXCEPT !.closed = pa.closed] /\ spc' = [spc EXCEPT ![s] = "dial"]
        /\ UNCHANGED <<conf, ctxDone, sess, psess, pstream>>
    BY <1>3, <1>7 DEF SourceRetries
  <2>2. "dial" \notin Attached BY DEF Attached
  <2> QED BY <1>p, <1>3, <2>1, <2>2, SourceMovesJ
<1>8. CASE SourceCancelled(s)
  <2> DEFINE c == IF spc[s] = "ready" THEN pa.closed ELSE pa.closed \ {s}
             to == IF spc[s] = "ready" THEN "closing" ELSE "off"
  <2>1. /\ Alive /\ pa' = [pa EXCEPT !.closed = c] /\ spc' = [spc EXCEPT ![s] = to]
        /\ UNCHANGED <<conf, ctxDone, sess, psess, pstream>>
    BY <1>1, <1>8 DEF SourceCancelled, Rest
  <2>2. c \in SUBSET (Readers \cup Publishers \cup Sources) /\ pa.closed \ {s} \subseteq c
    BY <1>3
  <2>3. to \in Attached => spc[s] \in Attached BY DEF Attached
  <2> HIDE DEF c, to
  <2> QED BY <1>p, <2>1, <2>2, <2>3, SourceMovesJ
<1>9. CASE SourceSetNotReadyTerminated(s)
  <2> DEFINE c == IF spc[s] = "closing" THEN pa.closed \ {s} ELSE pa.closed
             to == IF spc[s] = "closing" THEN "off" ELSE "pause"
  <2>1. /\ Alive /\ pa' = [pa EXCEPT !.closed = c] /\ spc' = [spc EXCEPT ![s] = to]
        /\ UNCHANGED <<conf, ctxDone, sess, psess, pstream>>
    BY <1>1, <1>9 DEF SourceSetNotReadyTerminated, AfterNotReady, Ended, Rest
  <2>2. c \in SUBSET (Readers \cup Publishers \cup Sources) /\ pa.closed \ {s} \subseteq c
    BY <1>3
  <2>3. to \notin Attached BY DEF Attached
  <2> HIDE DEF c, to
  <2> QED BY <1>p, <2>1, <2>2, <2>3, SourceMovesJ
<1> QED BY <1>4, <1>5, <1>6, <1>7, <1>8, <1>9

\* Close, CtxDoneSeen and SourcesJoined leave the path struct alone.
LEMMA PhaseStepsJ ==
    ASSUME IInv, JInv, Close \/ CtxDoneSeen \/ SourcesJoined
    PROVE  JInv' /\ Swaps(pa, pa')
<1>1. /\ Alive /\ pa' = pa /\ (ctxDone => ctxDone')
      /\ UNCHANGED <<conf, sess, psess, pstream, spc>>
  BY DEF Close, CtxDoneSeen, SourcesJoined, Running
<1>2. InLoop' <=> InLoop BY DEF Close, CtxDoneSeen, SourcesJoined, Running, InLoop
<1>3. Told /\ Played /\ OwnerReady /\ PublisherFeedsStream BY JFacts
<1>4. Calm(pa, pa') BY <1>1 DEF Calm
<1>5. Told' /\ Played' BY <1>1, <1>2, <1>3, <1>4, CalmStep
<1>6. PublisherFeedsStream' BY <1>1, <1>3, FeedKept
<1>7. OwnerReady' BY <1>1, <1>3, OwnerReadyKept
<1> QED BY <1>1, <1>2, <1>5, <1>6, <1>7, QuietStep DEF SameControl, SameReaders, SameRest

\* Answering the held requests changes nothing else.
LEMMA FailHeldBooks ==
    ASSUME NEW p \in PaType
    PROVE  LET q == failHeld(p)
           IN /\ SameReaders(p, q) /\ SameRest(p, q) /\ q.closed = p.closed /\ q.panic = p.panic
              /\ \A r \in Readers : q.res[r] \in {p.res[r], "error"}
<1> DEFINE rs == p.describeRequests \cup p.setupPlayRequests
           f == [x \in Requesters |-> IF x \in rs THEN "error" ELSE p.res[x]]
           q == [p EXCEPT !.res = f]
           t == [q EXCEPT !.describeRequests = {}, !.setupPlayRequests = {}]
<1>0. failHeld(p) = t BY DEF failHeld, answer
<1>1. \A r \in Readers : f[r] \in {p.res[r], "error"} BY DEF Requesters
<1>2. f \in [Requesters -> Answers] BY DEF PaType, Answers
<1> HIDE DEF f
<1>3. q \in PaType BY <1>2 DEF PaType, Answers
<1>4. SameReaders(p, q) /\ SameRest(p, q) /\ q.closed = p.closed /\ q.panic = p.panic /\ q.res = f
  BY DEF PaType, SameReaders, SameRest
<1> HIDE DEF q
<1>5. SameReaders(q, t) /\ SameRest(q, t) /\ t.closed = q.closed /\ t.panic = q.panic /\ t.res = q.res
  BY <1>3 DEF PaType, SameReaders, SameRest
<1> HIDE DEF t
<1> QED BY <1>0, <1>1, <1>4, <1>5 DEF SameReaders, SameRest

(***************************************************************************)
(* The timers and the tail of run().                                       *)
(***************************************************************************)
\* onDemandCloseSource() on b, the path once the timer is disarmed and the
\* requests on hold, if any, were failed.
LEMMA CloseStepJ ==
    ASSUME IInv, JInv, Running, isOnDemand,
           hasStaticSource /\ ~pa.stale => pa.source \in Sources \cup Publishers,
           NEW b \in PaType,
           b.source = pa.source /\ b.sourceReady = pa.sourceReady /\ b.stream = pa.stream,
           b.stale = pa.stale, SameReaders(pa, b), SameRest(pa, b),
           b.closed = pa.closed, b.panic = pa.panic,
           \A r \in Readers : b.res[r] \in {pa.res[r], "error"},
           Apply(onDemandCloseSource(b)), phase' \in {"run", "exit"},
           UNCHANGED <<conf, ctxDone, sess, psess, pstream, spc>>
    PROVE  JInv' /\ Swaps(pa, pa')
<1> DEFINE q == onDemandCloseSource(b)
<1>1. Rest /\ Sound(pa) /\ Owned(pa) /\ Alive /\ conf \in Confs BY RunFacts DEF Rest
<1>2. InLoop BY DEF Running, InLoop
<1>3. Books(pa) /\ Told /\ Played /\ OwnerReady /\ PublisherFeedsStream BY <1>2, JFacts
<1>4. Neat(b) /\ Streaming(b)
  BY <1>1, <1>3, NeatKept DEF Books, Streaming, Sound, Ready
<1>5. /\ q \in PaType /\ SameRequests(b, q)
      /\ q.source = "nil" /\ q.onDemandState = "initial"
      /\ q.sourceReady = (b.sourceReady /\ ~hasStaticSource /\ b.source = "nil")
      /\ q.stream = IF b.sourceReady /\ ~q.sourceReady THEN NoStream ELSE b.stream
  BY OnDemandCloseSourceFacts
<1>6. /\ Neat(q) /\ Drops(b, q)
      /\ q.onDemandCmd = (hasStaticSource /\ b.onDemandCmd)
      /\ \/ q.panic = b.panic
         \/ ~hasStaticSource /\ q.panic = "closeCmd"
         \/ hasStaticSource /\ q.panic = "closeStatic" /\ b.source \notin Sources \cup Publishers
      /\ b.source \in Sources \cup Publishers => b.source \in q.closed
      /\ b.sourceReady /\ (hasStaticSource \/ b.source # "nil") => Emptied(q)
  BY <1>4, OnDemandCloseSourceBooks
<1>q. Apply(q) OBVIOUS
<1> HIDE DEF q
<1>7. ~hasStaticSource /\ pa.sourceReady => pa.source # "nil"
  BY <1>1, ConfFacts, ClientsAssumption DEF Owned
<1>8. ~q.onDemandCmd BY <1>3, <1>6 DEF Books, Opened, SameRest
<1>9. Books(q) BY <1>5, <1>6, <1>8 DEF Books, Counted, Opened, Used
<1>10. LastToldToLeave(q) BY <1>5 DEF LastToldToLeave
<1>11. Swaps(pa, q)
  <2>1. pa.sourceReady => q.stream = NoStream /\ Emptied(q) BY <1>5, <1>6, <1>7
  <2>2. ~pa.sourceReady => q.stream = pa.stream BY <1>5
  <2> QED BY <2>1, <2>2, EmptyRegistered DEF Swaps
<1>12. ~hasStaticSource => conf.runOnDemand BY DEF isOnDemand
<1>13. PanicAllowed(pa, q.panic)
  BY <1>1, <1>6, <1>12 DEF PanicAllowed, Alive
<1>14. Calm(pa, q)
  BY <1>5, <1>6 DEF Calm, Drops, SameRequests, SameReaders
<1>15. q.closed \in SUBSET (Readers \cup Publishers \cup Sources) /\ pa.closed \subseteq q.closed
  BY <1>5, <1>6 DEF PaType, Drops
<1>16. ASSUME pa' = q PROVE Told' /\ Played' /\ OwnerReady' /\ PublisherFeedsStream'
  <2>1. Told' /\ Played' BY <1>1, <1>2, <1>3, <1>14, <1>16, CalmStep
  <2>2. OwnerReady' BY <1>5, <1>16, OwnerReadyGone, ClientsAssumption
  <2>3. PublisherFeedsStream'
    BY <1>1, <1>3, <1>5, <1>6, <1>15, <1>16, FeedGone DEF SameRequests
  <2> QED BY <2>1, <2>2, <2>3
<1> QED BY <1>5, <1>q, <1>9, <1>10, <1>11, <1>13, <1>16, HandlerStep

LEMMA ReadyTimerFiresJ == ASSUME IInv, JInv, ReadyTimerFires PROVE JInv' /\ Swaps(pa, pa')
<1> DEFINE a == [pa EXCEPT !.onDemandReadyTimer = FALSE]
           b == failHeld(a)
<1>1. /\ Running /\ pa.onDemandReadyTimer /\ Apply(onDemandCloseSource(b))
      /\ phase' = (IF conf.regexp THEN "exit" ELSE phase)
      /\ UNCHANGED <<conf, ctxDone, sess, psess, pstream, spc>>
  BY DEF ReadyTimerFires
<1>2. Rest /\ Good(pa) /\ Owned(pa) /\ Sound(pa) /\ Timers(pa) BY <1>1, RunFacts
<1>3. pa \in PaType /\ Opened(pa) /\ conf \in Confs BY <1>2, JFacts DEF Good, Rest
<1>4. a \in PaType BY <1>3 DEF PaType
<1>5. /\ a.source = pa.source /\ a.sourceReady = pa.sourceReady /\ a.stream = pa.stream
      /\ a.stale = pa.stale /\ SameReaders(pa, a) /\ SameRest(pa, a)
      /\ a.closed = pa.closed /\ a.panic = pa.panic /\ a.res = pa.res
  BY <1>3 DEF PaType, SameReaders, SameRest
<1>6. a.describeRequests = pa.describeRequests /\ a.setupPlayRequests = pa.setupPlayRequests
  BY <1>3 DEF PaType
<1> HIDE DEF a
<1>7. Waits(a) BY <1>2, <1>5, <1>6 DEF Good, Held, Waits
<1>8. b \in PaType /\ SameControl(a, b) /\ b.stale = a.stale BY <1>4, <1>7, FailHeldFacts
<1>9. /\ SameReaders(a, b) /\ SameRest(a, b) /\ b.closed = a.closed /\ b.panic = a.panic
      /\ \A r \in Readers : b.res[r] \in {a.res[r], "error"}
  BY <1>4, FailHeldBooks
<1> HIDE DEF b
<1>10. isOnDemand BY <1>1, <1>3, ConfFacts DEF Opened
<1>11. hasStaticSource /\ ~pa.stale => pa.source \in Sources \cup Publishers
  BY <1>1, <1>2, <1>3 DEF Opened, Timers
<1>12. phase' \in {"run", "exit"} BY <1>1 DEF Running
<1>13. /\ b.source = pa.source /\ b.sourceReady = pa.sourceReady /\ b.stream = pa.stream
       /\ b.stale = pa.stale /\ SameReaders(pa, b) /\ SameRest(pa, b)
       /\ b.closed = pa.closed /\ b.panic = pa.panic
       /\ \A r \in Readers : b.res[r] \in {pa.res[r], "error"}
  BY <1>5, <1>8, <1>9 DEF SameControl, SameReaders, SameRest
<1> QED BY <1>1, <1>8, <1>10, <1>11, <1>12, <1>13, CloseStepJ

LEMMA CloseTimerFiresJ == ASSUME IInv, JInv, CloseTimerFires PROVE JInv' /\ Swaps(pa, pa')
<1> DEFINE b == [pa EXCEPT !.onDemandCloseTimer = FALSE]
<1>1. /\ Running /\ pa.onDemandCloseTimer /\ Apply(onDemandCloseSource(b))
      /\ phase' = (IF conf.regexp THEN "exit" ELSE phase)
      /\ UNCHANGED <<conf, ctxDone, sess, psess, pstream, spc>>
  BY DEF CloseTimerFires
<1>2. Rest /\ Good(pa) /\ Owned(pa) /\ Sound(pa) /\ Timers(pa) BY <1>1, RunFacts
<1>3. pa \in PaType /\ Opened(pa) /\ conf \in Confs BY <1>2, JFacts DEF Good, Rest
<1>4. b \in PaType BY <1>3 DEF PaType
<1>5. /\ b.source = pa.source /\ b.sourceReady = pa.sourceReady /\ b.stream = pa.stream
      /\ b.stale = pa.stale /\ SameReaders(pa, b) /\ SameRest(pa, b)
      /\ b.closed = pa.closed /\ b.panic = pa.panic /\ b.res = pa.res
  BY <1>3 DEF PaType, SameReaders, SameRest
<1> HIDE DEF b
<1>6. isOnDemand BY <1>1, <1>3, ConfFacts DEF Opened
<1>7. hasStaticSource /\ ~pa.stale => pa.source \in Sources \cup Publishers
  <2>1. ~pa.stale => pa.onDemandState = "closing" BY <1>1, <1>2 DEF Timers
  <2>2. hasStaticSource => pa.source # "redirect" BY <1>2, <1>3, ConfFacts DEF Owned
  <2> QED BY <1>3, <2>1, <2>2 DEF Opened, PaType
<1>8. phase' \in {"run", "exit"} BY <1>1 DEF Running
<1> QED BY <1>1, <1>4, <1>5, <1>6, <1>7, <1>8, CloseStepJ

LEMMA RunTailJ == ASSUME IInv, JInv, RunTail PROVE JInv' /\ Swaps(pa, pa')
<1> DEFINE f == failHeld(pa)
           n == f.countReaders - Cardinality(playing(pa))
           cl == closeSource(pa).closed \cup registered(pa)
           q == [f EXCEPT !.onDemandReadyTimer = FALSE, !.onDemandCloseTimer = FALSE,
                          !.onInitCmd = FALSE, !.onDemandCmd = FALSE,
                          !.countReaders = n, !.nonRTSPReaders = {}, !.closed = cl]
<1>1. /\ Alive /\ phase = "exit" /\ Apply(q) /\ ctxDone' = TRUE
      /\ phase' = (IF pa.source \in Sources \cup Publishers THEN "wait" ELSE "done")
      /\ UNCHANGED <<conf, sess, psess, pstream, spc>>
  BY DEF RunTail
<1>2. Rest /\ Sound(pa) BY IInvSplit
<1>3. pa \in PaType /\ Waits(pa) BY <1>2 DEF Sound, Held
<1>i. InLoop /\ ~InLoop' BY <1>1 DEF InLoop
<1>4. Books(pa) /\ Opened(pa) /\ Used(pa) /\ Told /\ Played /\ OwnerReady /\ PublisherFeedsStream
  BY <1>i, JFacts
<1>5. f \in PaType /\ SameControl(pa, f) /\ f.stale = pa.stale BY <1>3, FailHeldFacts
<1>6. /\ SameReaders(pa, f) /\ SameRest(pa, f) /\ f.closed = pa.closed /\ f.panic = pa.panic
      /\ \A r \in Readers : f.res[r] \in {pa.res[r], "error"}
  BY <1>3, FailHeldBooks
<1>7. pa.closed \subseteq cl BY <1>3 DEF closeSource, PaType
<1>8. n = 0
  <2>1. Cardinality(playing(pa)) \in Int BY <1>3, CountType
  <2> QED BY <1>4, <1>6, <2>1 DEF Books, Neat, SameReaders
<1> HIDE DEF f, cl, n
<1>9. /\ q.source = f.source /\ q.sourceReady = f.sourceReady /\ q.stream = f.stream
      /\ q.onDemandState = f.onDemandState /\ q.stale = f.stale
      /\ q.onDemandReadyTimer = FALSE /\ q.onDemandCloseTimer = FALSE /\ q.onDemandCmd = FALSE
  BY <1>5 DEF PaType
<1>10. /\ q.countReaders = n /\ q.readers = f.readers /\ q.closed = cl /\ q.panic = f.panic
       /\ q.res = f.res
  BY <1>5 DEF PaType
<1> HIDE DEF q
<1>11. q.panic = "none" BY <1>1, <1>6, <1>10 DEF Alive
<1>12. pa' = q BY <1>1, <1>11 DEF Apply
<1>13. Opened(q) BY <1>4, <1>5, <1>9 DEF Opened, SameControl
<1>14. Used(q) BY <1>4, <1>5, <1>6, <1>9, <1>10 DEF Used, registered, SameControl, SameReaders
<1>15. Calm(pa, q) BY <1>6, <1>7, <1>10 DEF Calm, SameReaders
<1>16. Told' /\ Played' BY <1>1, <1>4, <1>12, <1>15, <1>i, CalmStep
<1>17. OwnerReady' BY <1>1, <1>4, <1>5, <1>9, <1>12, OwnerReadyKept DEF SameControl
<1>18. PublisherFeedsStream'
  BY <1>1, <1>4, <1>5, <1>7, <1>9, <1>10, <1>12, FeedKept DEF SameControl
<1>19. Swaps(pa, pa') BY <1>5, <1>9, <1>12 DEF Swaps, SameControl
<1>20. PanicAllowed(pa', pa'.panic) BY <1>11, <1>12 DEF PanicAllowed
<1> QED BY <1>1, <1>8, <1>9, <1>10, <1>12, <1>13, <1>14, <1>16, <1>17, <1>18, <1>19, <1>20,
           <1>i, JInvPrime

(***************************************************************************)
(* A source that becomes ready.                                            *)
(***************************************************************************)
LEMMA AnswerBooks ==
    ASSUME NEW p \in PaType, NEW reqs, NEW a \in Answers
    PROVE  LET q == answer(p, reqs, a)
           IN SameReaders(p, q) /\ SameRest(p, q) /\ q.closed = p.closed /\ q.panic = p.panic
BY DEF answer, PaType, SameReaders, SameRest

LEMMA SetupPlayPostBooks ==
    ASSUME NEW p \in PaType, NEW rs \in SUBSET Readers, conf \in Confs
    PROVE  LET q == handleReaderSetupPlayPost(p, rs)
           IN /\ SameRest(p, q) /\ q.closed = p.closed /\ q.panic = p.panic
              /\ q.countReaders = p.countReaders /\ q.nonRTSPReaders = p.nonRTSPReaders
              /\ \A r \in Readers : q.readers[r] = IF r \in rs THEN "prePlay" ELSE p.readers[r]
<1> DEFINE reopen == rs # {} /\ isOnDemand /\ p.onDemandState = "closing"
           rd == [r \in Readers |-> IF r \in rs THEN "prePlay" ELSE p.readers[r]]
           st == IF reopen THEN "ready" ELSE p.onDemandState
           tm == p.onDemandCloseTimer /\ ~reopen
           t == [p EXCEPT !.readers = rd, !.onDemandState = st, !.onDemandCloseTimer = tm]
           q == answer(t, rs, "stream")
<1>0. handleReaderSetupPlayPost(p, rs) = q BY DEF handleReaderSetupPlayPost
<1>1. rd \in [Readers -> {"none", "prePlay", "play"}] BY DEF PaType
<1>r. \A r \in Readers : rd[r] = IF r \in rs THEN "prePlay" ELSE p.readers[r] OBVIOUS
<1>2. st \in {"initial", "waitingReady", "ready", "closing"} /\ tm \in BOOLEAN BY DEF PaType
<1> HIDE DEF rd, st, tm, reopen
<1>3. t \in PaType BY <1>1, <1>2 DEF PaType
<1>4. /\ SameRest(p, t) /\ t.closed = p.closed /\ t.panic = p.panic /\ t.readers = rd
      /\ t.countReaders = p.countReaders /\ t.nonRTSPReaders = p.nonRTSPReaders
  BY DEF PaType, SameRest
<1> HIDE DEF t
<1>5. SameReaders(t, q) /\ SameRest(t, q) /\ q.closed = t.closed /\ q.panic = t.panic
  BY <1>3, AnswerBooks DEF Answers
<1> HIDE DEF q
<1> QED BY <1>0, <1>r, <1>4, <1>5 DEF SameReaders, SameRest

LEMMA SourceSetReadyBooks ==
    ASSUME NEW p \in PaType, NEW st \in Streams, conf \in Confs, Neat(p),
           ~p.stale => p.stream = NoStream,
           p.setupPlayRequests \cap playing(p) = {}
    PROVE  LET q == sourceSetReady(p, st)
               rs == IF isOnDemand THEN p.setupPlayRequests ELSE {}
           IN /\ Neat(q) /\ SameRest(p, q) /\ q.closed = p.closed /\ q.panic = p.panic
              /\ q.stream = st /\ q.stale = p.stale
              /\ \A r \in Readers :
                    /\ q.readers[r] = IF r \in rs THEN "prePlay" ELSE p.readers[r]
                    /\ q.res[r] = IF r \in rs THEN "stream" ELSE p.res[r]
              /\ isOnDemand => \/ q.onDemandState = "ready" /\ registered(q) # {}
                               \/ q.onDemandState = "closing" /\ registered(q) = {}
              /\ ~isOnDemand => /\ q.onDemandState = p.onDemandState
                                /\ q.onDemandReadyTimer = p.onDemandReadyTimer
                                /\ q.onDemandCloseTimer = p.onDemandCloseTimer
<1> DEFINE a == [p EXCEPT !.sourceReady = TRUE, !.stream = st, !.nonRTSPReaders = {}]
           ds == a.describeRequests
           rs == a.setupPlayRequests
           b == [a EXCEPT !.onDemandReadyTimer = FALSE, !.describeRequests = {},
                          !.setupPlayRequests = {}]
           c == answer(b, ds, "stream")
           d == handleReaderSetupPlayPost(c, rs)
           e == [d EXCEPT !.onDemandState = "ready"]
           f == onDemandScheduleClose(d)
           q == IF registered(d) # {} THEN e ELSE f
<1>0. sourceSetReady(p, st) = IF isOnDemand THEN q ELSE a BY DEF sourceSetReady, serveHeld
<1>s. st # NoStream
  BY FinitenessAssumption, FS_CardinalityType DEF Streams, NoStream
<1>o. isOnDemand \in BOOLEAN BY ConfFacts
<1>1. a \in PaType BY DEF PaType
<1>2. SameRequests(p, a) BY DEF PaType, SameRequests
<1>3. /\ SameRest(p, a) /\ a.closed = p.closed /\ a.panic = p.panic /\ a.stream = st
      /\ a.readers = p.readers /\ a.countReaders = p.countReaders /\ a.nonRTSPReaders = {}
      /\ a.onDemandState = p.onDemandState /\ a.onDemandCloseTimer = p.onDemandCloseTimer
  BY DEF PaType, SameRest
<1> HIDE DEF a
<1>4. Neat(a)
  <2>1. playing(a) = playing(p) BY <1>3 DEF playing
  <2>2. ~p.stale => playing(p) \subseteq RTSPReaders BY DEF Neat, playing, registered
  <2> QED BY <1>2, <1>3, <1>s, <2>1, <2>2 DEF Neat, SameRequests
<1>5. CASE ~isOnDemand BY <1>0, <1>2, <1>3, <1>4, <1>5 DEF SameRequests
<1>6. CASE isOnDemand
  <2>1. b \in PaType BY <1>1 DEF PaType
  <2>2. SameReaders(a, b) /\ SameRest(a, b) /\ b.closed = a.closed /\ b.panic = a.panic
        /\ b.stream = a.stream /\ b.stale = a.stale /\ b.res = a.res
    BY <1>1 DEF PaType, SameReaders, SameRest
  <2>r. rs \in SUBSET Readers /\ ds \in SUBSET Describers /\ rs = p.setupPlayRequests
    BY <1>1, <1>2 DEF PaType, SameRequests
  <2> HIDE DEF b, ds, rs
  <2>4. /\ c \in PaType /\ SameControl(b, c) /\ c.stale = b.stale
        /\ \A x \in Requesters : c.res[x] = IF x \in ds THEN "stream" ELSE b.res[x]
    BY <2>1, AnswerFacts DEF Answers
  <2>5. SameReaders(b, c) /\ SameRest(b, c) /\ c.closed = b.closed /\ c.panic = b.panic
    BY <2>1, AnswerBooks DEF Answers
  <2> HIDE DEF c
  <2>6. /\ d \in PaType /\ d.stale = c.stale /\ d.stream = c.stream
        /\ \A x \in Requesters : d.res[x] = IF x \in rs THEN "stream" ELSE c.res[x]
    BY <2>4, <2>r, SetupPlayPostFacts
  <2>7. /\ SameRest(c, d) /\ d.closed = c.closed /\ d.panic = c.panic
        /\ d.countReaders = c.countReaders /\ d.nonRTSPReaders = c.nonRTSPReaders
        /\ \A r \in Readers : d.readers[r] = IF r \in rs THEN "prePlay" ELSE c.readers[r]
    BY <2>4, <2>r, SetupPlayPostBooks
  <2> HIDE DEF d
  <2>8. \A r \in Readers : r \in Requesters /\ r \notin ds
    BY <2>r, ClientsAssumption DEF Requesters
  <2>9. /\ SameRest(p, d) /\ d.closed = p.closed /\ d.panic = p.panic /\ d.stream = st
        /\ d.stale = p.stale /\ d.countReaders = p.countReaders /\ d.nonRTSPReaders = {}
    BY <1>2, <1>3, <2>2, <2>4, <2>5, <2>6, <2>7
    DEF SameRest, SameReaders, SameControl, SameRequests
  <2>10. \A r \in Readers : /\ d.readers[r] = IF r \in rs THEN "prePlay" ELSE p.readers[r]
                            /\ d.res[r] = IF r \in rs THEN "stream" ELSE p.res[r]
    BY <1>2, <1>3, <2>2, <2>4, <2>5, <2>6, <2>7, <2>8 DEF SameReaders, SameRequests
  <2>11. playing(d) = playing(a)
    BY <1>3, <2>r, <2>10 DEF playing
  <2>12. Neat(d)
    BY <1>2, <1>3, <1>4, <1>s, <2>9, <2>11 DEF Neat, SameRequests
  <2>13. /\ SameReaders(d, e) /\ SameRest(d, e) /\ e.closed = d.closed /\ e.panic = d.panic
         /\ e.stream = d.stream /\ e.stale = d.stale /\ e.res = d.res /\ e.onDemandState = "ready"
    BY <2>6 DEF PaType, SameReaders, SameRest
  <2>14. /\ SameReaders(d, f) /\ SameRest(d, f) /\ f.closed = d.closed /\ f.panic = d.panic
         /\ f.stream = d.stream /\ f.stale = d.stale /\ f.res = d.res
         /\ f.onDemandState = "closing"
    BY <2>6 DEF onDemandScheduleClose, PaType, SameReaders, SameRest
  <2> HIDE DEF e, f
  <2>15. registered(e) = registered(d) /\ registered(f) = registered(d)
    BY <2>13, <2>14 DEF registered, SameReaders
  <2>16. /\ SameReaders(d, q) /\ SameRest(d, q) /\ q.closed = d.closed /\ q.panic = d.panic
         /\ q.stream = d.stream /\ q.stale = d.stale /\ q.res = d.res
         /\ \/ q.onDemandState = "ready" /\ registered(q) # {}
            \/ q.onDemandState = "closing" /\ registered(q) = {}
    BY <2>13, <2>14, <2>15
  <2> HIDE DEF q
  <2>17. Neat(q) BY <2>12, <2>16, NeatKept
  <2> QED BY <1>0, <1>6, <2>r, <2>9, <2>10, <2>16, <2>17 DEF SameReaders, SameRest
<1> QED BY <1>5, <1>6, <1>o

\* Readers on hold are not playing.
LEMMA HeldDoNotPlay ==
    ASSUME IInv, JInv, Running
    PROVE  pa.setupPlayRequests \cap playing(pa) = {}
<1>1. Held(pa) /\ Alive /\ Played BY RunFacts, JFacts DEF Good
<1> QED BY <1>1 DEF Held, Waits, Played, playing

\* After sourceSetReady() on a, the path with its count or its staleness
\* updated; t is what the handler makes of the result in the end.
LEMMA BecomesReady ==
    ASSUME IInv, JInv, Running, NEW a \in PaType, SameControl(pa, a),
           SameReaders(pa, a), a.onDemandCmd = pa.onDemandCmd, a.closed = pa.closed,
           a.panic = pa.panic, a.res = pa.res, pa.stale => a.stale,
           a.setupPlayRequests = pa.setupPlayRequests,
           a.onDemandReadyTimer = pa.onDemandReadyTimer,
           ~a.stale => ~a.sourceReady,
           pa.source = "nil" => a.stale \/ ~hasStaticSource,
           ~isOnDemand => a.countPublishers = IF a.source \in Publishers THEN 1 ELSE 0,
           NEW st \in Streams,
           NEW t \in PaType, SameControl(sourceSetReady(a, st), t),
           SameRequests(sourceSetReady(a, st), t), SameReaders(sourceSetReady(a, st), t),
           SameRest(sourceSetReady(a, st), t), t.closed = sourceSetReady(a, st).closed,
           t.panic = sourceSetReady(a, st).panic,
           t.source = pa.source, t.sourceReady
    PROVE  /\ Books(t) /\ LastToldToLeave(t) /\ Swaps(pa, t) /\ Calm(pa, t)
           /\ t.panic = "none" /\ t.closed = pa.closed /\ t.stream = st
<1> DEFINE q == sourceSetReady(a, st)
<1>1. Rest /\ Good(pa) /\ Sound(pa) /\ Owned(pa) /\ Alive /\ conf \in Confs
  BY RunFacts DEF Rest
<1>2. InLoop BY DEF Running, InLoop
<1>3. Books(pa) /\ Played BY <1>2, JFacts
<1>4. Neat(a)
  BY <1>3 DEF Books, Neat, SameReaders, SameControl, playing, registered
<1>5. ~a.stale => a.stream = NoStream
  BY <1>1 DEF Sound, Ready, SameControl
<1>6. a.setupPlayRequests \cap playing(a) = {}
  BY HeldDoNotPlay DEF playing, SameReaders
<1> DEFINE rs == IF isOnDemand THEN a.setupPlayRequests ELSE {}
<1>7. /\ Neat(q) /\ SameRest(a, q) /\ q.closed = a.closed /\ q.panic = a.panic
      /\ q.stream = st /\ q.stale = a.stale
      /\ \A r \in Readers :
            /\ q.readers[r] = IF r \in rs THEN "prePlay" ELSE a.readers[r]
            /\ q.res[r] = IF r \in rs THEN "stream" ELSE a.res[r]
      /\ isOnDemand => \/ q.onDemandState = "ready" /\ registered(q) # {}
                       \/ q.onDemandState = "closing" /\ registered(q) = {}
      /\ ~isOnDemand => /\ q.onDemandState = a.onDemandState
                        /\ q.onDemandReadyTimer = a.onDemandReadyTimer
                        /\ q.onDemandCloseTimer = a.onDemandCloseTimer
  BY <1>1, <1>4, <1>5, <1>6, SourceSetReadyBooks
<1> HIDE DEF q, rs
<1>8. Neat(t) BY <1>7, NeatKept DEF q, SameControl, SameRequests
<1>9. registered(t) = registered(q) BY DEF registered, SameReaders, q
<1>10. SameControl(q, t) /\ SameRequests(q, t) /\ SameReaders(q, t) /\ SameRest(q, t)
       /\ t.closed = q.closed /\ t.panic = q.panic
  BY DEF q
<1>11. Counted(t) BY <1>7, <1>10 DEF Counted, SameControl, SameRest
<1>12. t.onDemandCmd = pa.onDemandCmd BY <1>7, <1>10 DEF SameRest
<1>13. ~isOnDemand => t.onDemandState = "initial"
  BY <1>1, <1>7, <1>10 DEF Sound, Ready, SameControl
<1>14. isOnDemand => \/ t.onDemandState = "ready" /\ registered(t) # {}
                     \/ t.onDemandState = "closing" /\ registered(t) = {}
  BY <1>7, <1>9, <1>10 DEF SameControl
<1>15. Opened(t)
  <2>1. ~isOnDemand => ~t.onDemandReadyTimer /\ ~t.onDemandCloseTimer /\ ~t.onDemandCmd
    BY <1>3, <1>7, <1>10, <1>12 DEF Books, Opened, SameControl, SameRequests
  <2>2. t.stale = a.stale BY <1>7, <1>10 DEF SameRequests
  <2>3. hasStaticSource /\ ~t.stale => t.source # "nil" BY <2>2
  <2>4. hasStaticSource => ~t.onDemandCmd /\ (~isOnDemand => t.source \in Sources)
    BY <1>3, <1>12 DEF Books, Opened
  <2>5. t.onDemandState # "waitingReady" BY <1>1, <1>13, <1>14, ConfFacts
  <2> QED BY <2>1, <2>3, <2>4, <2>5 DEF Opened
<1>16. Used(t)
  <2>1. ~isOnDemand => ~t.onDemandCmd BY <1>3, <1>12 DEF Books, Opened
  <2> QED BY <1>1, <1>13, <1>14, <2>1, ConfFacts DEF Used
<1>17. LastToldToLeave(t) BY <1>1, <1>13, <1>14, ConfFacts DEF LastToldToLeave
<1>18. Swaps(pa, t)
  <2>1. t.stale = a.stale BY <1>7, <1>10 DEF SameRequests
  <2>2. ~t.stale => pa.stream = NoStream BY <1>5, <2>1 DEF SameControl
  <2> QED BY <2>2 DEF Swaps
<1>19. Calm(pa, t)
  <2>1. \A r \in Readers : r \in rs => pa.res[r] = "wait"
    BY <1>1 DEF Good, Held, Waits, rs
  <2> QED BY <1>7, <1>10, <2>1 DEF Calm, SameReaders, SameRequests
<1> QED BY <1>1, <1>7, <1>8, <1>10, <1>11, <1>15, <1>16, <1>17, <1>18, <1>19
        DEF Books, Alive, SameControl

LEMMA BooksKept ==
    ASSUME NEW p, NEW q, Books(p), SameControl(p, q), SameReaders(p, q), SameRest(p, q),
           q.onDemandReadyTimer = p.onDemandReadyTimer, q.stale = p.stale
    PROVE  Books(q) /\ registered(q) = registered(p)
<1>1. Neat(q) BY NeatKept DEF Books, SameControl
<1>2. registered(q) = registered(p) BY DEF registered, SameReaders
<1>3. Counted(q) /\ Opened(q) /\ Used(q)
  BY <1>2 DEF Books, Counted, Opened, Used, SameControl, SameRest
<1> QED BY <1>1, <1>2, <1>3 DEF Books

LEMMA ClosedBooks ==
    ASSUME NEW p \in PaType, NEW c \in SUBSET (Readers \cup Publishers \cup Sources)
    PROVE  LET q == [p EXCEPT !.closed = c]
           IN SameReaders(p, q) /\ SameRest(p, q) /\ q.closed = c /\ q.panic = p.panic
BY DEF PaType, SameReaders, SameRest

LEMMA SourceSetReadyJ ==
    ASSUME IInv, JInv, NEW s \in Sources, SourceSetReady(s)
    PROVE  JInv' /\ Swaps(pa, pa')
<1> DEFINE v == pa.stale \/ pa.source # s
           a == [pa EXCEPT !.stale = v]
           st == NewStream
           q == sourceSetReady(a, st)
<1>1. /\ Running /\ spc[s] = "setReady" /\ Apply(q) /\ spc' = [spc EXCEPT ![s] = "ready"]
      /\ UNCHANGED <<conf, phase, ctxDone, sess, psess, pstream>>
  BY DEF SourceSetReady
<1>2. Rest /\ Good(pa) /\ Owned(pa) /\ Sound(pa) /\ Timers(pa) /\ Alive BY <1>1, RunFacts
<1>i. InLoop /\ InLoop' BY <1>1 DEF Running, InLoop
<1>b. Books(pa) /\ Told /\ Played /\ PublisherFeedsStream BY <1>i, JFacts
<1>3. pa \in PaType /\ v \in BOOLEAN /\ conf \in Confs BY <1>2 DEF Good, PaType, Rest
<1>4. st \in Streams BY <1>2, <1>3, NewStreamExists DEF Rest, PaType
<1>v. (pa.stale => v) /\ (~v => ~pa.stale /\ pa.source = s) OBVIOUS
<1> HIDE DEF st, v
<1>5. a \in PaType /\ SameControl(pa, a) BY <1>3 DEF PaType, SameControl
<1>6. /\ a.stale = v /\ a.onDemandReadyTimer = pa.onDemandReadyTimer /\ a.res = pa.res
      /\ a.setupPlayRequests = pa.setupPlayRequests /\ a.describeRequests = pa.describeRequests
  BY <1>3 DEF PaType
<1>7. SameReaders(pa, a) /\ SameRest(pa, a) /\ a.closed = pa.closed /\ a.panic = pa.panic
  BY <1>3 DEF PaType, SameReaders, SameRest
<1> HIDE DEF a
<1>8. ~a.stale => ~a.sourceReady
  BY <1>1, <1>2, <1>5, <1>6, <1>v, CurrentSource DEF SameControl, Attached
<1>9. Held(a) /\ Ready(a) /\ Timers(a)
  BY <1>2, <1>5, <1>6, <1>v DEF Good, Held, Waits, Ready, Timers, SameControl
<1>10. Good(q) /\ q.source = a.source /\ q.sourceReady = TRUE /\ q.stale = a.stale
  BY <1>3, <1>4, <1>5, <1>8, <1>9, SourceSetReadyFacts
<1>11. hasStaticSource BY <1>1, <1>2 DEF Rest
<1>12. ~isOnDemand => a.countPublishers = IF a.source \in Publishers THEN 1 ELSE 0
  BY <1>5, <1>7, <1>b, <1>11, ClientsAssumption DEF Books, Counted, Opened, SameControl, SameRest
<1>13. pa.source = "nil" => a.stale \/ ~hasStaticSource BY <1>6, <1>v, ClientsAssumption
<1>14. q \in PaType /\ q.source = pa.source BY <1>5, <1>10 DEF Good, SameControl
<1>15. /\ SameControl(q, q) /\ SameRequests(q, q) /\ SameReaders(q, q) /\ SameRest(q, q)
  BY DEF SameControl, SameRequests, SameReaders, SameRest
<1>16. pa.stale => a.stale BY <1>6, <1>v
<1>17. a.onDemandCmd = pa.onDemandCmd BY <1>7 DEF SameRest
<1>18. /\ Books(q) /\ LastToldToLeave(q) /\ Swaps(pa, q) /\ Calm(pa, q)
       /\ q.panic = "none" /\ q.closed = pa.closed /\ q.stream = st
  BY <1>1, <1>4, <1>5, <1>6, <1>7, <1>8, <1>10, <1>12, <1>13, <1>14, <1>15, <1>16, <1>17,
     BecomesReady
<1> HIDE DEF q
<1>19. PanicAllowed(pa, q.panic) BY <1>18 DEF PanicAllowed
<1>20. ASSUME pa' = q PROVE Told' /\ Played' /\ OwnerReady' /\ PublisherFeedsStream'
  <2>1. Told' /\ Played' BY <1>1, <1>2, <1>i, <1>b, <1>18, <1>20, CalmStep
  <2>2. OwnerReady' BY <1>10, <1>20 DEF OwnerReady
  <2>3. PublisherFeedsStream'
    <3>1. ~pa'.stale => ~pa.stale /\ pa.source = s /\ s \notin Publishers
      BY <1>6, <1>v, <1>10, <1>20, ClientsAssumption
    <3> QED BY <1>1, <1>2, <1>b, <1>14, <1>18, <1>20, <3>1 DEF PublisherFeedsStream, Alive
  <2> QED BY <2>1, <2>2, <2>3
<1>21. phase' \in {"run", "exit"} BY <1>1 DEF Running
<1> QED BY <1>1, <1>14, <1>18, <1>19, <1>20, <1>21, HandlerStep

\* A source that stops, after the count of the publishers was updated.
LEMMA StopsJ ==
    ASSUME IInv, JInv, Running, pa.sourceReady, pa.source \in Sources \cup Publishers,
           NEW c \in PaType, SameControl(pa, c), SameRequests(pa, c), SameReaders(pa, c),
           c.onDemandCmd = pa.onDemandCmd, c.closed = pa.closed, c.panic = pa.panic,
           ~isOnDemand => c.countPublishers = 0
    PROVE  LET q == sourceStops(c)
           IN /\ q \in PaType /\ Books(q) /\ LastToldToLeave(q) /\ Swaps(pa, q) /\ Drops(pa, q)
              /\ q.res = pa.res /\ q.stale = pa.stale /\ ~q.sourceReady
              /\ PanicAllowed(pa, q.panic)
              /\ IF isOnDemand THEN q.source = "nil" /\ pa.source \in q.closed
                               ELSE q.source = pa.source
<1> DEFINE q == sourceStops(c)
<1>1. /\ Rest /\ Good(pa) /\ Owned(pa) /\ Sound(pa) /\ Alive /\ conf \in Confs
  BY RunFacts DEF Rest
<1>i. InLoop BY DEF Running, InLoop
<1>2. Books(pa) BY <1>i, JFacts
<1>3. Neat(c) BY <1>2, NeatKept DEF Books, SameControl, SameRequests
<1>4. Ready(c) /\ c.sourceReady /\ c.source = pa.source BY <1>1 DEF Sound, Ready, SameControl
<1>5. c.source # "nil" BY <1>4, ClientsAssumption
<1>6. isOnDemand /\ c.onDemandCmd => ~hasStaticSource BY <1>2 DEF Books, Opened
<1>7. /\ q \in PaType /\ SameRequests(c, q) /\ q.source \in {"nil", c.source}
      /\ q.sourceReady = FALSE /\ q.stream = NoStream /\ q.onDemandState = "initial"
      /\ q.onDemandCloseTimer = (c.onDemandCloseTimer /\ c.onDemandState # "closing")
  BY <1>1, <1>4, <1>5, SourceStopsFacts
<1>8. /\ Neat(q) /\ Drops(c, q) /\ Emptied(q)
      /\ q.panic = c.panic \/ ClosePanics(c, q.panic)
      /\ isOnDemand => /\ q.onDemandCmd = FALSE
                       /\ c.source \in Sources \cup Publishers => c.source \in q.closed
      /\ ~isOnDemand => SameRest(c, q)
  BY <1>1, <1>3, <1>4, <1>5, <1>6, SourceStopsBooks
<1>9. isOnDemand => q.source = "nil"
  <2>1. isOnDemand => q = onDemandCloseSource(c)
    BY <1>4 DEF sourceStops, Ready
  <2> QED BY <2>1, OnDemandCloseSourceFacts
<1>10. ~isOnDemand => q.source = pa.source
  <2>1. ~isOnDemand => q = sourceSetNotReady(c) BY DEF sourceStops
  <2> QED BY <1>4, <2>1, SourceSetNotReadyFacts
<1> HIDE DEF q
<1>11. registered(q) = {} BY <1>8, EmptyRegistered
<1>12. Drops(pa, q) BY <1>8 DEF Drops, SameReaders
<1>13. Counted(q) BY <1>7, <1>8 DEF Counted, SameRest
<1>14. q.onDemandCmd = FALSE
  <2>1. ~isOnDemand => q.onDemandCmd = FALSE
    <3>1. pa.onDemandCmd \in BOOLEAN BY <1>1 DEF Good, PaType
    <3> QED BY <1>2, <1>8, <3>1 DEF Books, Opened, SameRest
  <2> QED BY <1>1, <1>8, <2>1, ConfFacts
<1>15. Opened(q)
  <2>1. ~isOnDemand => ~q.onDemandReadyTimer /\ ~q.onDemandCloseTimer
    BY <1>2, <1>7 DEF Books, Opened, SameControl, SameRequests
  <2>2. hasStaticSource /\ ~isOnDemand => q.source \in Sources
    BY <1>2, <1>10 DEF Books, Opened
  <2> QED BY <1>7, <1>14, <2>1, <2>2 DEF Opened
<1>16. Used(q) /\ LastToldToLeave(q) BY <1>7, <1>14 DEF Used, LastToldToLeave
<1>17. Swaps(pa, q) BY <1>7, <1>11 DEF Swaps
<1>18. PanicAllowed(pa, q.panic)
  <2>1. isOnDemand /\ ~hasStaticSource => conf.runOnDemand BY DEF isOnDemand
  <2> QED BY <1>1, <1>4, <1>8, <2>1 DEF PanicAllowed, ClosePanics, Alive
<1>19. Books(q) BY <1>8, <1>13, <1>15, <1>16 DEF Books
<1>20. q.res = pa.res /\ q.stale = pa.stale BY <1>7 DEF SameRequests
<1>21. IF isOnDemand THEN q.source = "nil" /\ pa.source \in q.closed ELSE q.source = pa.source
  BY <1>4, <1>8, <1>9, <1>10
<1> QED BY <1>7, <1>12, <1>16, <1>17, <1>18, <1>19, <1>20, <1>21 DEF q

LEMMA SourceSetNotReadyJ ==
    ASSUME IInv, JInv, NEW s \in Sources, SourceSetNotReady(s)
    PROVE  JInv' /\ Swaps(pa, pa')
<1> DEFINE q == handleSourceStaticSetNotReady(pa, s)
           c == IF spc[s] = "closing" THEN q.closed \ {s} ELSE q.closed
           e == [q EXCEPT !.closed = c]
<1>1. /\ Running /\ spc[s] \in {"failing", "closing"} /\ Apply(e)
      /\ ExitIfUnused(q) /\ spc' = AfterNotReady(s)
      /\ UNCHANGED <<conf, ctxDone, sess, psess, pstream>>
  BY DEF SourceSetNotReady, Ended
<1>2. Rest /\ Good(pa) /\ Sound(pa) /\ Owned(pa) /\ Alive BY <1>1, RunFacts
<1>p. phase' \in {"run", "exit"} BY <1>1 DEF ExitIfUnused, Running
<1>i. InLoop /\ InLoop' BY <1>1, <1>p DEF Running, InLoop
<1>3. Books(pa) /\ Told /\ Played /\ OwnerReady /\ PublisherFeedsStream BY <1>i, JFacts
<1>4. pa \in PaType /\ s \notin Readers /\ s \notin Publishers /\ s # "nil"
  BY <1>2, ClientsAssumption DEF Good
<1>5. /\ spc'[s] \in {"off", "pause"} /\ \A t \in Sources : t # s => spc'[t] = spc[t]
  BY <1>1, <1>2 DEF Rest, AfterNotReady
<1>6. CASE pa.source = s
  <2>1. q = sourceStops(pa) BY <1>6 DEF handleSourceStaticSetNotReady
  <2>2. pa.sourceReady BY <1>1, <1>2, <1>3, <1>6 DEF OwnerReady, Attached
  <2>3. ~isOnDemand => pa.countPublishers = 0 BY <1>3, <1>4, <1>6 DEF Books, Counted
  <2>4. SameControl(pa, pa) /\ SameRequests(pa, pa) /\ SameReaders(pa, pa)
    BY DEF SameControl, SameRequests, SameReaders
  <2>5. /\ q \in PaType /\ Books(q) /\ LastToldToLeave(q) /\ Swaps(pa, q) /\ Drops(pa, q)
        /\ q.res = pa.res /\ q.stale = pa.stale /\ ~q.sourceReady
        /\ PanicAllowed(pa, q.panic)
        /\ IF isOnDemand THEN q.source = "nil" /\ pa.source \in q.closed
                         ELSE q.source = pa.source
    BY <1>1, <1>4, <1>6, <2>1, <2>2, <2>3, <2>4, StopsJ
  <2> HIDE DEF q
  <2>6. c \in SUBSET (Readers \cup Publishers \cup Sources) /\ q.closed \ {s} \subseteq c
    BY <2>5 DEF PaType
  <2> HIDE DEF c
  <2>7. e \in PaType /\ SameControl(q, e) /\ SameRequests(q, e)
    BY <2>5, <2>6, ClosedFacts
  <2>8. SameReaders(q, e) /\ SameRest(q, e) /\ e.closed = c /\ e.panic = q.panic
    BY <2>5, <2>6, ClosedBooks
  <2> HIDE DEF e
  <2>9. Books(e) /\ registered(e) = registered(q)
    BY <2>5, <2>7, <2>8, BooksKept DEF SameRequests
  <2>10. LastToldToLeave(e)
    BY <1>4, <2>5, <2>6, <2>7, <2>8, <2>9 DEF LastToldToLeave, SameControl, registered
  <2>11. Swaps(pa, e) BY <2>5, <2>7, <2>9 DEF Swaps, SameControl, SameRequests
  <2>12. Calm(pa, e)
    BY <1>4, <2>5, <2>6, <2>7, <2>8 DEF Calm, Drops, SameRequests, SameReaders
  <2>13. ASSUME pa' = e PROVE Told' /\ Played' /\ OwnerReady' /\ PublisherFeedsStream'
    <3>1. Told' /\ Played' BY <1>1, <1>2, <1>i, <1>3, <2>12, <2>13, CalmStep
    <3>2. e.source \in {"nil", s} BY <1>6, <2>5, <2>7 DEF SameControl
    <3>3. OwnerReady' BY <1>5, <2>13, <3>2, ClientsAssumption DEF OwnerReady, Attached
    <3>4. /\ pa'.stale = pa.stale /\ pa'.source \notin Publishers
          /\ \A x \in Publishers : x \in pa.closed => x \in pa'.closed
      BY <1>4, <2>5, <2>6, <2>7, <2>8, <2>13, <3>2, ClientsAssumption DEF Drops, SameRequests
    <3>5. PublisherFeedsStream'
      BY <1>1, <1>2, <1>3, <1>4, <1>6, <3>4 DEF PublisherFeedsStream, Alive
    <3> QED BY <3>1, <3>3, <3>5
  <2>14. PanicAllowed(pa, e.panic) BY <2>5, <2>8
  <2> QED BY <1>1, <1>p, <2>7, <2>9, <2>10, <2>11, <2>13, <2>14, HandlerStep
<1>7. CASE pa.source # s
  <2>1. q = pa BY <1>7 DEF handleSourceStaticSetNotReady
  <2> DEFINE cl == IF spc[s] = "closing" THEN pa.closed \ {s} ELSE pa.closed
             to == IF spc[s] = "closing" THEN "off" ELSE "pause"
             f == [pa EXCEPT !.closed = cl]
  <2>2. e = f BY <2>1
  <2>3. cl \in SUBSET (Readers \cup Publishers \cup Sources) /\ pa.closed \ {s} \subseteq cl
    BY <1>4 DEF PaType
  <2>4. spc' = [spc EXCEPT ![s] = to] /\ to \notin Attached
    BY <1>1, <1>2 DEF AfterNotReady, Rest, Attached
  <2>5. Apply(f) BY <1>1, <2>2
  <2> HIDE DEF cl, to, q, e
  <2>6. f.panic = pa.panic BY <1>4 DEF PaType
  <2>7. pa' = f BY <1>2, <2>5, <2>6 DEF Apply, Alive
  <2> QED BY <1>1, <1>2, <1>i, <2>3, <2>4, <2>7, SourceMovesJ
<1> QED BY <1>6, <1>7

(***************************************************************************)
(* Requests: DESCRIBE and SETUP.                                           *)
(***************************************************************************)
LEMMA WaitBooks ==
    ASSUME NEW p \in PaType, NEW x \in Requesters
    PROVE  LET w == [p EXCEPT !.res[x] = "wait"]
           IN SameReaders(p, w) /\ SameRest(p, w) /\ w.closed = p.closed /\ w.panic = p.panic
BY DEF PaType, SameReaders, SameRest

LEMMA DemandBooks ==
    ASSUME NEW p \in PaType, NEW s \in Sources \cup {"nil"}
    PROVE  LET q == demand(p, s)
           IN /\ SameReaders(p, q) /\ q.closed = p.closed /\ q.panic = p.panic
              /\ q.countPublishers = p.countPublishers
              /\ q.onDemandCmd = (p.onDemandCmd \/ (p.onDemandState = "initial" /\ ~hasStaticSource))
<1> DEFINE a == [p EXCEPT !.source = s]
           b == [p EXCEPT !.onDemandCmd = TRUE]
           c == IF hasStaticSource THEN a ELSE b
           t == [c EXCEPT !.onDemandReadyTimer = TRUE, !.onDemandState = "waitingReady"]
<1>0. demand(p, s) = IF p.onDemandState = "initial" THEN t ELSE p
  BY DEF demand, onDemandStartSource, staticSourceCreate
<1>1. a \in PaType /\ b \in PaType /\ p.onDemandCmd \in BOOLEAN BY DEF PaType
<1>2. /\ SameReaders(p, a) /\ SameRest(p, a) /\ a.closed = p.closed /\ a.panic = p.panic
  BY DEF PaType, SameReaders, SameRest
<1>3. /\ SameReaders(p, b) /\ b.closed = p.closed /\ b.panic = p.panic
      /\ b.countPublishers = p.countPublishers /\ b.onDemandCmd = TRUE
  BY DEF PaType, SameReaders
<1> HIDE DEF a, b
<1>4. /\ c \in PaType /\ SameReaders(p, c) /\ c.closed = p.closed /\ c.panic = p.panic
      /\ c.countPublishers = p.countPublishers
      /\ c.onDemandCmd = IF hasStaticSource THEN p.onDemandCmd ELSE TRUE
  BY <1>1, <1>2, <1>3 DEF SameRest
<1> HIDE DEF c
<1>5. SameReaders(c, t) /\ SameRest(c, t) /\ t.closed = c.closed /\ t.panic = c.panic
  BY <1>4 DEF PaType, SameReaders, SameRest
<1> HIDE DEF t
<1>6. hasStaticSource \in BOOLEAN BY DEF hasStaticSource
<1>7. CASE p.onDemandState = "initial"
  BY <1>0, <1>1, <1>4, <1>5, <1>6, <1>7 DEF SameReaders, SameRest
<1>8. CASE p.onDemandState # "initial" BY <1>0, <1>1, <1>8 DEF SameReaders
<1> QED BY <1>7, <1>8

\* The path with a request on hold.
LEMMA OnHoldBooks ==
    ASSUME IInv, JInv, Running, isOnDemand, ~pa.sourceReady,
           NEW w \in PaType, SameControl(pa, w), w.stale = pa.stale,
           SameReaders(pa, w), SameRest(pa, w), w.closed = pa.closed, w.panic = pa.panic,
           NEW s \in Sources \cup {"nil"},
           hasStaticSource /\ pa.onDemandState = "initial" => s \in Sources,
           NEW t, SameControl(demand(w, s), t), t.stale = demand(w, s).stale,
           SameReaders(demand(w, s), t), SameRest(demand(w, s), t),
           t.closed = demand(w, s).closed, t.panic = demand(w, s).panic
    PROVE  /\ Books(t) /\ (~ctxDone => LastToldToLeave(t))
           /\ t.readers = pa.readers /\ t.stream = pa.stream
           /\ t.closed = pa.closed /\ t.panic = pa.panic
<1> DEFINE m == demand(w, s)
<1>i. InLoop BY DEF Running, InLoop
<1>1. Books(pa) /\ (~ctxDone => LastToldToLeave(pa)) BY <1>i, JFacts
<1>2. /\ m.stale = w.stale /\ m.stream = w.stream /\ m.sourceReady = w.sourceReady
      /\ m.source = IF w.onDemandState = "initial" /\ hasStaticSource THEN s ELSE w.source
      /\ m.onDemandState = IF w.onDemandState = "initial" THEN "waitingReady" ELSE w.onDemandState
  BY DemandFacts
<1>3. /\ SameReaders(w, m) /\ m.closed = w.closed /\ m.panic = w.panic
      /\ m.countPublishers = w.countPublishers
      /\ m.onDemandCmd = (w.onDemandCmd \/ (w.onDemandState = "initial" /\ ~hasStaticSource))
  BY DemandBooks
<1>4. /\ SameControl(m, t) /\ SameReaders(m, t) /\ SameRest(m, t) /\ t.closed = m.closed
      /\ t.panic = m.panic /\ t.stale = m.stale
  OBVIOUS
<1> HIDE DEF m
<1>5. SameReaders(pa, t) /\ t.stale = pa.stale /\ t.stream = pa.stream
  BY <1>2, <1>3, <1>4 DEF SameReaders, SameControl
<1>6. Neat(t) BY <1>1, <1>5, NeatKept DEF Books
<1>7. registered(t) = registered(pa) BY <1>5 DEF registered, SameReaders
<1>8. /\ t.onDemandState = (IF pa.onDemandState = "initial" THEN "waitingReady" ELSE pa.onDemandState)
      /\ t.source = IF pa.onDemandState = "initial" /\ hasStaticSource THEN s ELSE pa.source
      /\ t.onDemandCmd = (pa.onDemandCmd \/ (pa.onDemandState = "initial" /\ ~hasStaticSource))
      /\ t.closed = pa.closed /\ t.panic = pa.panic
  BY <1>2, <1>3, <1>4 DEF SameControl, SameRest
<1>9. Counted(t) BY DEF Counted
<1>10. Opened(t) BY <1>1, <1>5, <1>8, ClientsAssumption DEF Books, Opened
<1>11. Used(t) BY <1>1, <1>7, <1>8 DEF Books, Used
<1>12. ~ctxDone => LastToldToLeave(t) BY <1>1, <1>7, <1>8 DEF LastToldToLeave
<1> QED BY <1>5, <1>6, <1>8, <1>9, <1>10, <1>11, <1>12 DEF Books, SameReaders

\* A request was taken, and q is what became of the path.
LEMMA RequestJ ==
    ASSUME IInv, JInv, Running, NEW s \in NewSource, NEW q, Taken(pa, q, s),
           Books(q), ~ctxDone => LastToldToLeave(q), q.stream = pa.stream,
           q.closed = pa.closed, q.panic = pa.panic, Apply(q), spc' = Spawned(q),
           UNCHANGED <<conf, phase, ctxDone, sess, psess, pstream>>,
           pa' = q => Told' /\ Played'
    PROVE  JInv' /\ Swaps(pa, pa')
<1>1. Rest /\ Alive BY RunFacts
<1>2. OwnerReady /\ PublisherFeedsStream BY JFacts
<1>3. q \in PaType BY DEF Taken, Good
<1>4. q.panic = "none" /\ pa' = q BY <1>1 DEF Alive, Apply
<1>5. Swaps(pa, q) BY DEF Swaps
<1>6. PanicAllowed(pa, q.panic) BY <1>4 DEF PanicAllowed
<1>7. OwnerReady' /\ PublisherFeedsStream'
  <2>1. CASE q.source = pa.source
    <3>1. spc' = spc BY <2>1 DEF Spawned
    <3> QED BY <1>1, <1>2, <1>4, <2>1, <3>1, OwnerReadyKept, FeedKept DEF Taken
  <2>2. CASE q.source # pa.source
    <3>1. q.source = s /\ s \in Sources /\ ~pa.sourceReady /\ ~q.sourceReady
      BY <2>2 DEF Taken
    <3>2. spc' = [spc EXCEPT ![s] = "dial"] BY <2>2, <3>1 DEF Spawned
    <3>3. spc'[s] = "dial" BY <1>1, <3>1, <3>2 DEF Rest
    <3>4. OwnerReady' BY <1>4, <3>1, <3>3 DEF OwnerReady, Attached
    <3>5. PublisherFeedsStream'
      BY <1>1, <1>2, <1>4, <3>1, ClientsAssumption DEF PublisherFeedsStream, Alive, Taken
    <3> QED BY <3>4, <3>5
  <2> QED BY <2>1, <2>2
<1>8. phase' \in {"run", "exit"} BY DEF Running
<1> QED BY <1>3, <1>4, <1>5, <1>6, <1>7, <1>8, HandlerStep

LEMMA DescribeJ ==
    ASSUME IInv, JInv, NEW d \in Describers, Describe(d)
    PROVE  JInv' /\ Swaps(pa, pa')
<1>1. PICK s \in NewSource :
        LET q == handleDescribe([pa EXCEPT !.res[d] = "wait"], d, s)
        IN /\ Running /\ pa.res[d] # "wait" /\ Apply(q) /\ spc' = Spawned(q)
           /\ UNCHANGED <<conf, phase, ctxDone, sess, psess, pstream>>
  BY DEF Describe
<1>2. Rest /\ Good(pa) /\ Owned(pa) /\ Alive /\ conf \in Confs BY <1>1, RunFacts DEF Rest
<1> DEFINE w == [pa EXCEPT !.res[d] = "wait"]
           q == handleDescribe(w, d, s)
           m == demand(w, s)
           t == [m EXCEPT !.describeRequests = @ \cup {d}]
<1>3. Taken(pa, q, s) BY <1>1, <1>2, NewSourceFacts, HandleDescribeGood
<1>4. Running /\ Apply(q) /\ spc' = Spawned(q)
      /\ UNCHANGED <<conf, phase, ctxDone, sess, psess, pstream>>
  BY <1>1
<1>i. InLoop /\ InLoop' BY <1>4 DEF Running, InLoop
<1>5. Books(pa) /\ (~ctxDone => LastToldToLeave(pa)) /\ Told /\ Played BY <1>i, JFacts
<1>6. pa \in PaType /\ d \in Requesters /\ d \notin Readers
  BY <1>2, ClientsAssumption DEF Good, Requesters
<1>7. /\ w \in PaType /\ SameControl(pa, w) /\ w.stale = pa.stale
      /\ w.onDemandReadyTimer = pa.onDemandReadyTimer
      /\ \A y \in Requesters : w.res[y] = IF y = d THEN "wait" ELSE pa.res[y]
  BY <1>6, WaitFacts
<1>8. SameReaders(pa, w) /\ SameRest(pa, w) /\ w.closed = pa.closed /\ w.panic = pa.panic
  BY <1>6, WaitBooks
<1> HIDE DEF w
<1>9. /\ Books(q) /\ (~ctxDone => LastToldToLeave(q)) /\ q.stream = pa.stream
      /\ q.closed = pa.closed /\ q.panic = pa.panic /\ q.readers = pa.readers
      /\ \A r \in Readers : q.res[r] = pa.res[r]
  <2>1. CASE w.source # "redirect" /\ ~w.sourceReady /\ isOnDemand
    <3>1. q = t BY <2>1 DEF handleDescribe
    <3>2. m \in PaType /\ m.res = w.res BY <1>7, NewSourceFacts, DemandFacts
    <3> HIDE DEF m, q
    <3>3. SameControl(m, t) /\ t.stale = m.stale /\ SameReaders(m, t) /\ SameRest(m, t)
          /\ t.closed = m.closed /\ t.panic = m.panic /\ t.res = m.res
      BY <3>2 DEF PaType, SameControl, SameReaders, SameRest
    <3> HIDE DEF t
    <3>4. ~pa.sourceReady BY <1>7, <2>1 DEF SameControl
    <3>5. /\ Books(t) /\ (~ctxDone => LastToldToLeave(t))
          /\ t.readers = pa.readers /\ t.stream = pa.stream
          /\ t.closed = pa.closed /\ t.panic = pa.panic
      BY <1>4, <1>7, <1>8, <2>1, <3>3, <3>4, NewSourceFacts, OnHoldBooks DEF m
    <3> QED BY <1>6, <1>7, <3>1, <3>2, <3>3, <3>5 DEF Requesters
  <2>2. CASE ~(w.source # "redirect" /\ ~w.sourceReady /\ isOnDemand)
    <3>1. PICK a \in Answers : q = answer(w, {d}, a)
      BY <2>2 DEF handleDescribe, Answers
    <3> HIDE DEF q
    <3>2. /\ q \in PaType /\ SameControl(w, q) /\ q.stale = w.stale
          /\ q.onDemandReadyTimer = w.onDemandReadyTimer
          /\ \A x \in Requesters : q.res[x] = IF x \in {d} THEN a ELSE w.res[x]
      BY <1>7, <3>1, AnswerFacts
    <3>3. SameReaders(w, q) /\ SameRest(w, q) /\ q.closed = w.closed /\ q.panic = w.panic
      BY <1>7, <3>1, AnswerBooks
    <3>4. /\ SameControl(pa, q) /\ SameReaders(pa, q) /\ SameRest(pa, q) /\ q.stale = pa.stale
          /\ q.onDemandReadyTimer = pa.onDemandReadyTimer
          /\ q.closed = pa.closed /\ q.panic = pa.panic
      BY <1>7, <1>8, <3>2, <3>3 DEF SameControl, SameReaders, SameRest
    <3>5. Books(q) /\ registered(q) = registered(pa) BY <1>5, <3>4, BooksKept
    <3>6. ~ctxDone => LastToldToLeave(q) BY <1>5, <3>4, <3>5 DEF LastToldToLeave, SameControl
    <3>7. \A r \in Readers : q.res[r] = pa.res[r] BY <1>6, <1>7, <3>2 DEF Requesters
    <3> QED BY <3>4, <3>5, <3>6, <3>7 DEF SameControl, SameReaders
  <2> QED BY <2>1, <2>2
<1> HIDE DEF q
<1>10. Calm(pa, q) BY <1>9 DEF Calm
<1>11. pa' = q => Told' /\ Played' BY <1>2, <1>4, <1>i, <1>5, <1>10, CalmStep
<1> QED BY <1>3, <1>4, <1>9, <1>11, RequestJ

LEMMA ReaderSetupPlayJ ==
    ASSUME IInv, JInv, NEW r \in Readers, ReaderSetupPlay(r)
    PROVE  JInv' /\ Swaps(pa, pa')
<1>1. PICK s \in NewSource :
        LET q == handleReaderSetupPlay([pa EXCEPT !.res[r] = "wait"], r, s)
        IN /\ Running /\ Idle(r) /\ sess[r] \in {"initial", "preRead"}
           /\ Apply(q) /\ spc' = Spawned(q)
           /\ UNCHANGED <<conf, phase, ctxDone, sess, psess, pstream>>
  BY DEF ReaderSetupPlay
<1>2. Rest /\ Good(pa) /\ Owned(pa) /\ Sound(pa) /\ Alive /\ conf \in Confs
      /\ pa.res[r] \notin {"wait", "stream"}
  BY <1>1, RunFacts DEF Rest, Idle
<1> DEFINE w == [pa EXCEPT !.res[r] = "wait"]
           q == handleReaderSetupPlay(w, r, s)
           m == demand(w, s)
           t == [m EXCEPT !.setupPlayRequests = @ \cup {r}]
           h == handleReaderSetupPlayPost(w, {r})
<1>3. Taken(pa, q, s) BY <1>1, <1>2, NewSourceFacts, HandleReaderSetupPlayGood
<1>4. Running /\ Apply(q) /\ spc' = Spawned(q)
      /\ UNCHANGED <<conf, phase, ctxDone, sess, psess, pstream>>
  BY <1>1
<1>i. InLoop /\ InLoop' BY <1>4 DEF Running, InLoop
<1>5. Books(pa) /\ (~ctxDone => LastToldToLeave(pa)) /\ Told /\ Played BY <1>i, JFacts
<1>6. pa \in PaType /\ r \in Requesters BY <1>2 DEF Good, Requesters
<1>7. /\ w \in PaType /\ SameControl(pa, w) /\ w.stale = pa.stale
      /\ w.onDemandReadyTimer = pa.onDemandReadyTimer
      /\ \A y \in Requesters : w.res[y] = IF y = r THEN "wait" ELSE pa.res[y]
  BY <1>6, WaitFacts
<1>8. SameReaders(pa, w) /\ SameRest(pa, w) /\ w.closed = pa.closed /\ w.panic = pa.panic
  BY <1>6, WaitBooks
<1>n. pa.readers[r] # "play" BY <1>1, <1>2, <1>5 DEF Played
<1> HIDE DEF w
<1>9. /\ Books(q) /\ (~ctxDone => LastToldToLeave(q)) /\ q.stream = pa.stream
      /\ q.closed = pa.closed /\ q.panic = pa.panic
      /\ \A x \in Readers : x # r => q.readers[x] = pa.readers[x] /\ q.res[x] = pa.res[x]
      /\ q.readers[r] \in {pa.readers[r], "prePlay"}
      /\ q.res[r] = "stream" => q.readers[r] # "none"
  <2>1. CASE w.sourceReady
    <3>1. q = h BY <2>1 DEF handleReaderSetupPlay
    <3>2. /\ h \in PaType /\ h.stale = w.stale
          /\ h.source = w.source /\ h.sourceReady = w.sourceReady /\ h.stream = w.stream
          /\ h.onDemandReadyTimer = w.onDemandReadyTimer
          /\ h.onDemandState = IF isOnDemand /\ w.onDemandState = "closing"
                               THEN "ready" ELSE w.onDemandState
          /\ h.onDemandCloseTimer = (w.onDemandCloseTimer
                                      /\ ~(isOnDemand /\ w.onDemandState = "closing"))
          /\ \A y \in Requesters : h.res[y] = IF y \in {r} THEN "stream" ELSE w.res[y]
      BY <1>2, <1>7, SetupPlayPostFacts
    <3>3. /\ SameRest(w, h) /\ h.closed = w.closed /\ h.panic = w.panic
          /\ h.countReaders = w.countReaders /\ h.nonRTSPReaders = w.nonRTSPReaders
          /\ \A x \in Readers : h.readers[x] = IF x \in {r} THEN "prePlay" ELSE w.readers[x]
      BY <1>2, <1>7, SetupPlayPostBooks
    <3> HIDE DEF q, h
    <3>4. \A x \in Readers : h.readers[x] = IF x = r THEN "prePlay" ELSE pa.readers[x]
      BY <1>8, <3>3 DEF SameReaders
    <3>5. playing(h) = playing(pa) BY <1>n, <3>4 DEF playing
    <3>6. pa.stream # NoStream /\ h.stream = pa.stream
      BY <1>2, <1>7, <2>1, <3>2 DEF Sound, Ready, SameControl
    <3>7. Neat(h) BY <1>5, <1>7, <1>8, <3>2, <3>3, <3>5, <3>6 DEF Books, Neat, SameReaders
    <3>8. r \in registered(h) BY <3>4 DEF registered
    <3>9. Counted(h) BY <1>5, <1>7, <1>8, <3>2, <3>3 DEF Books, Counted, SameControl, SameRest
    <3>10. Opened(h)
      <4>1. h.source = pa.source /\ h.stale = pa.stale /\ h.onDemandCmd = pa.onDemandCmd
            /\ h.onDemandReadyTimer = pa.onDemandReadyTimer
            /\ (h.onDemandCloseTimer => pa.onDemandCloseTimer)
            /\ (h.onDemandState = "waitingReady" => pa.onDemandState = "waitingReady")
            /\ (h.onDemandState # "initial" => pa.onDemandState # "initial")
        BY <1>7, <1>8, <3>2, <3>3 DEF SameControl, SameRest
      <4> QED BY <1>5, <4>1 DEF Books, Opened
    <3>11. Used(h)
      BY <1>5, <1>7, <1>8, <3>2, <3>3, <3>8 DEF Books, Used, SameControl, SameRest
    <3>12. h.onDemandState # "closing"
      BY <1>2, <1>7, <3>2 DEF Sound, Ready, SameControl
    <3>13. LastToldToLeave(h) BY <3>12 DEF LastToldToLeave
    <3>14. \A x \in Readers : x # r => h.res[x] = pa.res[x] BY <1>7, <3>2 DEF Requesters
    <3> QED BY <1>8, <3>1, <3>3, <3>4, <3>6, <3>7, <3>9, <3>10, <3>11, <3>13, <3>14 DEF Books
  <2>2. CASE ~w.sourceReady /\ isOnDemand
    <3>1. q = t BY <2>2 DEF handleReaderSetupPlay
    <3>2. m \in PaType /\ m.res = w.res BY <1>7, NewSourceFacts, DemandFacts
    <3> HIDE DEF m, q
    <3>3. SameControl(m, t) /\ t.stale = m.stale /\ SameReaders(m, t) /\ SameRest(m, t)
          /\ t.closed = m.closed /\ t.panic = m.panic /\ t.res = m.res
      BY <3>2 DEF PaType, SameControl, SameReaders, SameRest
    <3> HIDE DEF t
    <3>4. ~pa.sourceReady BY <1>7, <2>2 DEF SameControl
    <3>5. /\ Books(t) /\ (~ctxDone => LastToldToLeave(t))
          /\ t.readers = pa.readers /\ t.stream = pa.stream
          /\ t.closed = pa.closed /\ t.panic = pa.panic
      BY <1>4, <1>7, <1>8, <2>2, <3>3, <3>4, NewSourceFacts, OnHoldBooks DEF m
    <3>6. t.res[r] = "wait" /\ \A x \in Readers : x # r => t.res[x] = pa.res[x]
      BY <1>6, <1>7, <3>2, <3>3 DEF Requesters
    <3> QED BY <3>1, <3>5, <3>6
  <2>3. CASE ~w.sourceReady /\ ~isOnDemand
    <3>1. q = answer(w, {r}, "error") BY <2>3 DEF handleReaderSetupPlay
    <3> HIDE DEF q
    <3>2. /\ q \in PaType /\ SameControl(w, q) /\ q.stale = w.stale
          /\ q.onDemandReadyTimer = w.onDemandReadyTimer
          /\ \A x \in Requesters : q.res[x] = IF x \in {r} THEN "error" ELSE w.res[x]
      BY <1>7, <3>1, AnswerFacts DEF Answers
    <3>3. SameReaders(w, q) /\ SameRest(w, q) /\ q.closed = w.closed /\ q.panic = w.panic
      BY <1>7, <3>1, AnswerBooks DEF Answers
    <3>4. /\ SameControl(pa, q) /\ SameReaders(pa, q) /\ SameRest(pa, q) /\ q.stale = pa.stale
          /\ q.onDemandReadyTimer = pa.onDemandReadyTimer
          /\ q.closed = pa.closed /\ q.panic = pa.panic
      BY <1>7, <1>8, <3>2, <3>3 DEF SameControl, SameReaders, SameRest
    <3>5. Books(q) /\ registered(q) = registered(pa) BY <1>5, <3>4, BooksKept
    <3>6. ~ctxDone => LastToldToLeave(q) BY <1>5, <3>4, <3>5 DEF LastToldToLeave, SameControl
    <3>7. q.res[r] = "error" /\ \A x \in Readers : x # r => q.res[x] = pa.res[x]
      BY <1>6, <1>7, <3>2 DEF Requesters
    <3> QED BY <3>4, <3>5, <3>6, <3>7 DEF SameControl, SameReaders
  <2> QED BY <2>1, <2>2, <2>3
<1> HIDE DEF q
<1>10. ASSUME pa' = q PROVE Told' /\ Played'
  <2>1. Played' BY <1>1, <1>2, <1>4, <1>5, <1>9, <1>n, <1>10 DEF Played
  <2>2. Told'
    <3> SUFFICES ASSUME NEW x \in Readers, pa'.readers[x] = "none",
                        sess[x] \in {"preRead", "read"} \/ pa'.res[x] = "stream"
                 PROVE  x \in pa'.closed
      BY <1>4 DEF Told
    <3> QED BY <1>2, <1>i, <1>5, <1>9, <1>10 DEF Told
  <2> QED BY <2>1, <2>2
<1> QED BY <1>3, <1>4, <1>9, <1>10, RequestJ

(***************************************************************************)
(* The readers.                                                            *)
(***************************************************************************)
\* A reader picks up its answer.
LEMMA ReaderResumesJ ==
    ASSUME IInv, JInv, Alive, NEW r \in Readers, pa.res[r] = "stream",
           pa' = [pa EXCEPT !.res[r] = "none"], NEW to,
           sess' = [sess EXCEPT ![r] = to],
           to = "preRead" \/ (to \in {"initial", "gone"} /\ sess[r] = "initial"),
           UNCHANGED <<conf, phase, ctxDone, psess, pstream, spc>>
    PROVE  JInv' /\ Swaps(pa, pa')
<1>1. Rest /\ Sound(pa) BY IInvSplit
<1>2. pa \in PaType /\ r \in Requesters BY <1>1 DEF Sound, Requesters
<1>3. SameControl(pa, pa') /\ SameReaders(pa, pa') /\ SameRest(pa, pa')
  BY <1>2 DEF PaType, SameControl, SameReaders, SameRest
<1>4. /\ pa'.onDemandReadyTimer = pa.onDemandReadyTimer /\ pa'.stale = pa.stale
      /\ pa'.panic = pa.panic /\ pa'.closed = pa.closed
  BY <1>2 DEF PaType
<1>5. \A x \in Readers : pa'.res[x] = IF x = r THEN "none" ELSE pa.res[x]
  BY <1>2 DEF PaType, Requesters
<1>6. \A x \in Readers : sess'[x] = IF x = r THEN to ELSE sess[x] BY <1>1 DEF Rest
<1>7. Told /\ Played /\ OwnerReady /\ PublisherFeedsStream BY JFacts
<1>8. InLoop' <=> InLoop BY DEF InLoop
<1>9. Told'
  <2> SUFFICES ASSUME NEW x \in Readers, Alive', InLoop', pa'.readers[x] = "none",
                      sess'[x] \in {"preRead", "read"} \/ pa'.res[x] = "stream"
               PROVE  x \in pa'.closed
    BY DEF Told
  <2> QED BY <1>3, <1>4, <1>5, <1>6, <1>7, <1>8 DEF Told, SameReaders
<1>10. Played'
  <2>1. pa.readers[r] # "play" BY <1>7 DEF Played
  <2> QED BY <1>3, <1>5, <1>6, <1>7, <2>1 DEF Played, SameReaders
<1>11. OwnerReady' BY <1>3, <1>7, OwnerReadyKept DEF SameControl
<1>12. PublisherFeedsStream' BY <1>3, <1>4, <1>7, FeedKept DEF SameControl
<1> QED BY <1>3, <1>4, <1>8, <1>9, <1>10, <1>11, <1>12, QuietStep

\* The books after one reader, which did not play, does.
LEMMA HandleReaderPlayBooks ==
    ASSUME NEW p \in PaType, NEW r \in Readers, Neat(p), p.readers[r] # "play", p.panic = "none"
    PROVE  LET q == handleReaderPlay(p, r)
           IN /\ SameRest(p, q) /\ q.closed = p.closed /\ q.panic \in {"none", "readerAdd"}
              /\ \A x \in Readers : q.readers[x] = IF x = r THEN "play" ELSE p.readers[x]
              /\ q.panic = "none" => Neat(q)
<1> DEFINE bad == p.stream = NoStream /\ r \notin RTSPReaders
           a == panicAt(p, bad, "readerAdd")
           n == a.countReaders + 1
           fr == a.nonRTSPReaders \cup ({r} \ RTSPReaders)
           rd == [a.readers EXCEPT ![r] = "play"]
           t == [a EXCEPT !.countReaders = n, !.readers[r] = "play", !.nonRTSPReaders = fr]
<1>0. handleReaderPlay(p, r) = t BY DEF handleReaderPlay
<1>b. bad => a.panic = "readerAdd" BY DEF panicAt, PaType
<1>d. bad <=> p.stream = NoStream /\ r \notin RTSPReaders OBVIOUS
<1> HIDE DEF bad
<1>1. a \in PaType /\ SameControl(p, a) /\ SameRequests(p, a) BY PanicAtFacts DEF PanicSites
<1>2. SameReaders(p, a) /\ SameRest(p, a) /\ a.closed = p.closed /\ a.panic \in {"none", "readerAdd"}
  BY PanicAtBooks DEF PanicSites
<1> HIDE DEF a
<1>3. \A x \in Readers : rd[x] = IF x = r THEN "play" ELSE p.readers[x]
  BY <1>1, <1>2 DEF PaType, SameReaders
<1>4. /\ t.readers = rd /\ t.countReaders = n /\ t.nonRTSPReaders = fr /\ SameRest(a, t)
      /\ t.closed = a.closed /\ t.panic = a.panic /\ t.stale = a.stale /\ t.stream = a.stream
  BY <1>1 DEF PaType, SameRest
<1> HIDE DEF t, rd
<1>5. playing(t) = playing(p) \cup {r} /\ r \notin playing(p) BY <1>3, <1>4 DEF playing
<1>6. IsFiniteSet(playing(p)) BY FinitenessAssumption, FS_Subset DEF playing
<1>7. Cardinality(playing(t)) = Cardinality(playing(p)) + 1 BY <1>5, <1>6, FS_AddElement
<1>8. t.countReaders = Cardinality(playing(t)) BY <1>2, <1>4, <1>7 DEF Neat, SameReaders
<1>9. t.stale = p.stale /\ t.stream = p.stream BY <1>1, <1>4 DEF SameControl, SameRequests
<1>10. ~t.stale => t.nonRTSPReaders = playing(t) \ RTSPReaders
  BY <1>2, <1>4, <1>5, <1>9 DEF Neat, SameReaders
<1>11. registered(t) = registered(p) \cup {r} BY <1>3, <1>4 DEF registered
<1>12. t.panic = "none" => Neat(t)
  BY <1>b, <1>d, <1>4, <1>8, <1>9, <1>10, <1>11 DEF Neat
<1> QED BY <1>0, <1>2, <1>3, <1>4, <1>12 DEF SameRest

LEMMA ReaderPlayJ ==
    ASSUME IInv, JInv, NEW r \in Readers, ReaderPlay(r)
    PROVE  JInv' /\ Swaps(pa, pa')
<1> DEFINE q == handleReaderPlay(pa, r)
<1>1. /\ Running /\ Idle(r) /\ sess[r] = "preRead" /\ Apply(q)
      /\ sess' = [sess EXCEPT ![r] = "read"]
      /\ UNCHANGED <<conf, phase, ctxDone, psess, pstream, spc>>
  BY DEF ReaderPlay
<1>2. Rest /\ Good(pa) /\ Sound(pa) /\ Alive /\ pa \in PaType BY <1>1, RunFacts DEF Good
<1>i. InLoop /\ InLoop' BY <1>1 DEF Running, InLoop
<1>3. /\ Books(pa) /\ (~ctxDone => LastToldToLeave(pa))
      /\ Told /\ Played /\ OwnerReady /\ PublisherFeedsStream
  BY <1>i, JFacts
<1>4. pa.readers[r] # "play" BY <1>1, <1>2, <1>3 DEF Played
<1>5. q \in PaType /\ SameControl(pa, q) /\ SameRequests(pa, q) BY <1>2, HandleReaderPlayFacts
<1>6. /\ SameRest(pa, q) /\ q.closed = pa.closed /\ q.panic \in {"none", "readerAdd"}
      /\ \A x \in Readers : q.readers[x] = IF x = r THEN "play" ELSE pa.readers[x]
      /\ q.panic = "none" => Neat(q)
  BY <1>2, <1>3, <1>4, HandleReaderPlayBooks DEF Books, Alive
<1> HIDE DEF q
<1>7. registered(q) = registered(pa) \cup {r} BY <1>6 DEF registered
<1>8. Counted(q) /\ Opened(q) /\ Used(q)
  BY <1>3, <1>5, <1>6, <1>7
  DEF Books, Counted, Opened, Used, SameControl, SameRequests, SameRest
<1>9. ~ctxDone => LastToldToLeave(q)
  <2>1. pa.readers[r] = "none" => r \in pa.closed BY <1>1, <1>2, <1>3, <1>i DEF Told
  <2>2. pa.readers[r] # "none" => r \in registered(pa) BY DEF registered
  <2> QED BY <1>3, <1>5, <1>6, <1>7, <2>1, <2>2 DEF LastToldToLeave, SameControl
<1>10. Swaps(pa, q) BY <1>5 DEF Swaps, SameControl
<1>11. PanicAllowed(pa, q.panic) BY <1>6 DEF PanicAllowed
<1>12. ASSUME pa' = q PROVE Told' /\ Played' /\ OwnerReady' /\ PublisherFeedsStream'
  <2>1. \A x \in Readers : sess'[x] = IF x = r THEN "read" ELSE sess[x]
    BY <1>1, <1>2 DEF Rest
  <2>2. Told'
    <3> SUFFICES ASSUME NEW x \in Readers, pa'.readers[x] = "none",
                        sess'[x] \in {"preRead", "read"} \/ pa'.res[x] = "stream"
                 PROVE  x \in pa'.closed
      BY DEF Told
    <3> QED BY <1>2, <1>i, <1>3, <1>5, <1>6, <1>12, <2>1 DEF Told, SameRequests
  <2>3. Played'
    BY <1>1, <1>2, <1>3, <1>5, <1>6, <1>12, <2>1 DEF Played, Idle, SameRequests
  <2>4. OwnerReady' BY <1>1, <1>2, <1>3, <1>5, <1>12, OwnerReadyKept DEF SameControl
  <2>5. PublisherFeedsStream'
    BY <1>1, <1>2, <1>3, <1>5, <1>6, <1>12, FeedKept DEF SameControl, SameRequests
  <2> QED BY <2>2, <2>3, <2>4, <2>5
<1>13. phase' \in {"run", "exit"} BY <1>1 DEF Running
<1> QED BY <1>1, <1>5, <1>6, <1>8, <1>9, <1>10, <1>11, <1>12, <1>13, HandlerStep DEF Books

LEMMA HandleReaderPauseBooks ==
    ASSUME NEW p \in PaType, NEW r \in RTSPReaders, Neat(p), p.readers[r] = "play"
    PROVE  LET q == handleReaderPause(p, r)
           IN /\ SameRest(p, q) /\ q.closed = p.closed /\ q.panic = p.panic /\ Neat(q)
              /\ \A x \in Readers : q.readers[x] = IF x = r THEN "prePlay" ELSE p.readers[x]
<1> DEFINE bad == p.stream = NoStream /\ r \notin RTSPReaders
           a == panicAt(p, bad, "readerRemove")
           n == a.countReaders - 1
           fr == a.nonRTSPReaders \ {r}
           rd == [a.readers EXCEPT ![r] = "prePlay"]
           t == [a EXCEPT !.countReaders = n, !.readers[r] = "prePlay", !.nonRTSPReaders = fr]
<1>0. handleReaderPause(p, r) = t BY DEF handleReaderPause
<1>r. r \in Readers BY ClientsAssumption
<1>b. ~bad OBVIOUS
<1> HIDE DEF bad
<1>1. a \in PaType /\ SameControl(p, a) /\ SameRequests(p, a) BY PanicAtFacts DEF PanicSites
<1>2. SameReaders(p, a) /\ SameRest(p, a) /\ a.closed = p.closed /\ a.panic = p.panic
  BY <1>b, PanicAtBooks DEF PanicSites
<1> HIDE DEF a
<1>3. \A x \in Readers : rd[x] = IF x = r THEN "prePlay" ELSE p.readers[x]
  BY <1>1, <1>2, <1>r DEF PaType, SameReaders
<1>4. /\ t.readers = rd /\ t.countReaders = n /\ t.nonRTSPReaders = fr /\ SameRest(a, t)
      /\ t.closed = a.closed /\ t.panic = a.panic /\ t.stale = a.stale /\ t.stream = a.stream
  BY <1>1 DEF PaType, SameRest
<1> HIDE DEF t, rd
<1>5. playing(t) = playing(p) \ {r} /\ r \in playing(p) BY <1>3, <1>4, <1>r DEF playing
<1>6. IsFiniteSet(playing(p)) BY FinitenessAssumption, FS_Subset DEF playing
<1>7. Cardinality(playing(t)) = Cardinality(playing(p)) - 1 BY <1>5, <1>6, FS_RemoveElement
<1>8. t.countReaders = Cardinality(playing(t)) BY <1>2, <1>4, <1>7 DEF Neat, SameReaders
<1>9. t.stale = p.stale /\ t.stream = p.stream BY <1>1, <1>4 DEF SameControl, SameRequests
<1>10. ~t.stale => t.nonRTSPReaders = playing(t) \ RTSPReaders
  BY <1>2, <1>4, <1>5, <1>9 DEF Neat, SameReaders
<1>11. registered(t) = registered(p) BY <1>3, <1>4 DEF registered
<1>12. Neat(t) BY <1>8, <1>9, <1>10, <1>11 DEF Neat
<1> QED BY <1>0, <1>2, <1>3, <1>4, <1>12 DEF SameRest

LEMMA ReaderPauseJ ==
    ASSUME IInv, JInv, NEW r \in Readers, ReaderPause(r)
    PROVE  JInv' /\ Swaps(pa, pa')
<1> DEFINE q == handleReaderPause(pa, r)
<1>1. /\ Running /\ r \in RTSPReaders /\ sess[r] = "read" /\ Apply(q)
      /\ sess' = [sess EXCEPT ![r] = "preRead"]
      /\ UNCHANGED <<conf, phase, ctxDone, psess, pstream, spc>>
  BY DEF ReaderPause
<1>2. Rest /\ Good(pa) /\ Sound(pa) /\ Alive /\ pa \in PaType BY <1>1, RunFacts DEF Good
<1>i. InLoop /\ InLoop' BY <1>1 DEF Running, InLoop
<1>3. /\ Books(pa) /\ (~ctxDone => LastToldToLeave(pa))
      /\ Told /\ Played /\ OwnerReady /\ PublisherFeedsStream
  BY <1>i, JFacts
<1>5. q \in PaType /\ SameControl(pa, q) /\ SameRequests(pa, q) BY <1>2, HandleReaderPauseFacts
<1>6. /\ SameRest(pa, q) /\ q.closed = pa.closed /\ q.panic = pa.panic /\ Neat(q)
      /\ \A x \in Readers : q.readers[x] = IF x = r /\ pa.readers[r] = "play"
                                           THEN "prePlay" ELSE pa.readers[x]
  <2>1. CASE pa.readers[r] = "play"
    BY <1>1, <1>2, <1>3, <2>1, HandleReaderPauseBooks DEF Books
  <2>2. CASE pa.readers[r] # "play"
    BY <1>3, <2>2 DEF handleReaderPause, Books, SameRest
  <2> QED BY <2>1, <2>2
<1> HIDE DEF q
<1>7. registered(q) = registered(pa) BY <1>6 DEF registered
<1>8. Counted(q) /\ Opened(q) /\ Used(q)
  BY <1>3, <1>5, <1>6, <1>7
  DEF Books, Counted, Opened, Used, SameControl, SameRequests, SameRest
<1>9. ~ctxDone => LastToldToLeave(q) BY <1>3, <1>5, <1>6, <1>7 DEF LastToldToLeave, SameControl
<1>10. Swaps(pa, q) BY <1>5 DEF Swaps, SameControl
<1>11. PanicAllowed(pa, q.panic) BY <1>2, <1>6 DEF PanicAllowed, Alive
<1>12. ASSUME pa' = q PROVE Told' /\ Played' /\ OwnerReady' /\ PublisherFeedsStream'
  <2>1. \A x \in Readers : sess'[x] = IF x = r THEN "preRead" ELSE sess[x]
    BY <1>1, <1>2 DEF Rest
  <2>2. Told'
    <3> SUFFICES ASSUME NEW x \in Readers, pa'.readers[x] = "none",
                        sess'[x] \in {"preRead", "read"} \/ pa'.res[x] = "stream"
                 PROVE  x \in pa'.closed
      BY DEF Told
    <3> QED BY <1>1, <1>2, <1>i, <1>3, <1>5, <1>6, <1>12, <2>1 DEF Told, SameRequests
  <2>3. Played'
    BY <1>1, <1>2, <1>3, <1>5, <1>6, <1>12, <2>1 DEF Played, SameRequests
  <2>4. OwnerReady' BY <1>1, <1>2, <1>3, <1>5, <1>12, OwnerReadyKept DEF SameControl
  <2>5. PublisherFeedsStream'
    BY <1>1, <1>2, <1>3, <1>5, <1>6, <1>12, FeedKept DEF SameControl, SameRequests
  <2> QED BY <2>2, <2>3, <2>4, <2>5
<1>13. phase' \in {"run", "exit"} BY <1>1 DEF Running
<1> QED BY <1>1, <1>5, <1>6, <1>8, <1>9, <1>10, <1>11, <1>12, <1>13, HandlerStep DEF Books

LEMMA ReaderSetUpJ ==
    ASSUME IInv, JInv, NEW r \in Readers, ReaderSetUp(r)
    PROVE  JInv' /\ Swaps(pa, pa')
BY ReaderResumesJ DEF ReaderSetUp

LEMMA ReaderSetupBadTrackJ ==
    ASSUME IInv, JInv, NEW r \in Readers, ReaderSetupBadTrack(r)
    PROVE  JInv' /\ Swaps(pa, pa')
<1> DEFINE to == IF sess[r] = "initial" THEN "gone" ELSE sess[r]
<1>1. Rest /\ Played BY IInvSplit, JFacts
<1>2. sess[r] \in {"initial", "preRead"} BY <1>1 DEF ReaderSetupBadTrack, Played
<1>3. to = "preRead" \/ (to \in {"initial", "gone"} /\ sess[r] = "initial") BY <1>2
<1>4. /\ Alive /\ pa.res[r] = "stream" /\ pa' = [pa EXCEPT !.res[r] = "none"]
      /\ sess' = [sess EXCEPT ![r] = to]
      /\ UNCHANGED <<conf, phase, ctxDone, psess, pstream, spc>>
  BY <1>1 DEF ReaderSetupBadTrack, Rest
<1> HIDE DEF to
<1> QED BY <1>3, <1>4, ReaderResumesJ

\* The books after a reader has left; the last one schedules the closing.
LEMMA HandleReaderRemoveBooks ==
    ASSUME IInv, JInv, Running, NEW r \in Readers
    PROVE  LET q == handleReaderRemove(pa, r)
           IN /\ Books(q) /\ q.closed = pa.closed /\ q.panic = "none"
              /\ q.stream = pa.stream /\ q.res = pa.res
              /\ registered(q) = registered(pa) \ {r}
              /\ \A x \in Readers : q.readers[x] = IF x = r THEN "none" ELSE pa.readers[x]
              /\ q.onDemandState = "closing" => pa.onDemandState = "closing" \/ registered(q) = {}
<1> DEFINE rs == {r} \cap registered(pa)
           a == doReaderRemove(pa, rs)
           c == onDemandScheduleClose(a)
           last == isOnDemand /\ registered(a) = {} /\ a.onDemandState = "ready"
           q == handleReaderRemove(pa, r)
<1>0. q = IF last THEN c ELSE a BY DEF handleReaderRemove
<1>1. Rest /\ Good(pa) /\ Alive /\ pa \in PaType BY RunFacts DEF Good
<1>2. Books(pa) BY JFacts DEF Running, InLoop
<1>3. rs \in SUBSET Readers BY DEF registered
<1>4. \A x \in Readers : x \in rs <=> x = r /\ pa.readers[x] # "none" BY DEF registered
<1> HIDE DEF rs
<1>5. a \in PaType /\ SameControl(pa, a) /\ SameRequests(pa, a) BY <1>1, <1>3, DoReaderRemoveFacts
<1>6. /\ Neat(a) /\ SameRest(pa, a) /\ a.closed = pa.closed /\ a.panic = pa.panic
      /\ \A x \in Readers : a.readers[x] = IF x \in rs THEN "none" ELSE pa.readers[x]
  BY <1>1, <1>2, <1>3, DoReaderRemoveBooks DEF Books
<1> HIDE DEF a
<1>7. \A x \in Readers : a.readers[x] = IF x = r THEN "none" ELSE pa.readers[x] BY <1>4, <1>6
<1>8. registered(a) = registered(pa) \ {r} BY <1>7 DEF registered
<1>9. /\ c \in PaType /\ SameRequests(a, c)
      /\ c.source = a.source /\ c.sourceReady = a.sourceReady /\ c.stream = a.stream
      /\ c.onDemandState = "closing" /\ c.onDemandCloseTimer = TRUE
  BY <1>5, ScheduleCloseFacts
<1>10. SameReaders(a, c) /\ SameRest(a, c) /\ c.closed = a.closed /\ c.panic = a.panic
  BY <1>5 DEF onDemandScheduleClose, PaType, SameReaders, SameRest
<1> HIDE DEF c
<1>11. a.panic = "none" BY <1>1, <1>6 DEF Alive
<1>12. Counted(a) /\ Opened(a)
  BY <1>2, <1>5, <1>6 DEF Books, Counted, Opened, SameControl, SameRequests, SameRest
<1>13. CASE last
  <2>1. registered(c) = registered(a) BY <1>10 DEF registered, SameReaders
  <2>2. Neat(c) BY <1>6, <1>9, <1>10, NeatKept DEF SameRequests
  <2>3. Counted(c) BY <1>9, <1>10, <1>12 DEF Counted, SameRest
  <2>4. Opened(c) BY <1>9, <1>10, <1>12, <1>13 DEF Opened, SameRest, SameRequests
  <2>5. Used(c) BY <1>9 DEF Used
  <2>6. c.panic = "none" /\ c.closed = pa.closed /\ c.stream = pa.stream /\ c.res = pa.res
    BY <1>5, <1>6, <1>9, <1>10, <1>11 DEF SameControl, SameRequests
  <2>7. registered(c) = {} BY <1>13, <2>1
  <2> QED BY <1>0, <1>7, <1>8, <1>10, <1>13, <2>1, <2>2, <2>3, <2>4, <2>5, <2>6, <2>7
          DEF Books, SameReaders
<1>14. CASE ~last
  <2>1. ~isOnDemand => a.onDemandState = "initial" BY <1>1, <1>5 DEF Good, Ready, SameControl
  <2>2. Used(a)
    BY <1>2, <1>5, <1>6, <1>14, <2>1 DEF Books, Used, SameControl, SameRest
  <2>3. a.stream = pa.stream /\ a.res = pa.res /\ a.onDemandState = pa.onDemandState
    BY <1>5 DEF SameControl, SameRequests
  <2> QED BY <1>0, <1>6, <1>7, <1>8, <1>11, <1>12, <1>14, <2>2, <2>3 DEF Books
<1> QED BY <1>13, <1>14

LEMMA ReaderRemoveJ ==
    ASSUME IInv, JInv, NEW r \in Readers, ReaderRemove(r)
    PROVE  JInv' /\ Swaps(pa, pa')
<1> DEFINE q == handleReaderRemove(pa, r)
           c == q.closed \ {r}
           e == [q EXCEPT !.closed = c]
<1>1. /\ Running /\ Idle(r) /\ Apply(e) /\ sess' = [sess EXCEPT ![r] = "initial"]
      /\ UNCHANGED <<conf, phase, ctxDone, psess, pstream, spc>>
  BY DEF ReaderRemove
<1>2. Rest /\ Good(pa) /\ Owned(pa) /\ Alive BY <1>1, RunFacts
<1>i. InLoop /\ InLoop' BY <1>1 DEF Running, InLoop
<1>3. /\ Told /\ Played /\ OwnerReady /\ PublisherFeedsStream
      /\ ~ctxDone => LastToldToLeave(pa)
  BY JFacts
<1>4. /\ Good(q) /\ q.stale = pa.stale
      /\ q.source = pa.source /\ q.sourceReady = pa.sourceReady
  BY <1>2, HandleReaderRemoveGood
<1>5. /\ Books(q) /\ q.closed = pa.closed /\ q.panic = "none"
      /\ q.stream = pa.stream /\ q.res = pa.res
      /\ registered(q) = registered(pa) \ {r}
      /\ \A x \in Readers : q.readers[x] = IF x = r THEN "none" ELSE pa.readers[x]
      /\ q.onDemandState = "closing" => pa.onDemandState = "closing" \/ registered(q) = {}
  BY <1>1, HandleReaderRemoveBooks
<1> HIDE DEF q
<1>6. q \in PaType /\ c \in SUBSET (Readers \cup Publishers \cup Sources)
      /\ c = pa.closed \ {r}
  BY <1>4, <1>5 DEF Good, PaType
<1> HIDE DEF c
<1>7. e \in PaType /\ SameControl(q, e) /\ SameRequests(q, e) BY <1>6, ClosedFacts
<1>8. SameReaders(q, e) /\ SameRest(q, e) /\ e.closed = c /\ e.panic = q.panic
  BY <1>6, ClosedBooks
<1> HIDE DEF e
<1>9. Books(e) /\ registered(e) = registered(q) BY <1>5, <1>7, <1>8, BooksKept DEF SameRequests
<1>10. ~ctxDone => LastToldToLeave(e)
  BY <1>3, <1>5, <1>6, <1>7, <1>8, <1>9 DEF LastToldToLeave, SameControl
<1>11. Swaps(pa, e) BY <1>5, <1>7 DEF Swaps, SameControl
<1>12. PanicAllowed(pa, e.panic) BY <1>5, <1>8 DEF PanicAllowed
<1>13. ASSUME pa' = e PROVE Told' /\ Played' /\ OwnerReady' /\ PublisherFeedsStream'
  <2>1. \A x \in Readers : sess'[x] = IF x = r THEN "initial" ELSE sess[x]
    BY <1>1, <1>2 DEF Rest
  <2>2. \A x \in Readers : /\ pa'.readers[x] = IF x = r THEN "none" ELSE pa.readers[x]
                           /\ pa'.res[x] = pa.res[x]
    BY <1>5, <1>7, <1>8, <1>13 DEF SameReaders, SameRequests
  <2>3. pa'.closed = pa.closed \ {r} BY <1>6, <1>8, <1>13
  <2>4. pa.res[r] \notin {"wait", "stream"} BY <1>1 DEF Idle
  <2>5. Told'
    <3> SUFFICES ASSUME NEW x \in Readers, pa'.readers[x] = "none",
                        sess'[x] \in {"preRead", "read"} \/ pa'.res[x] = "stream"
                 PROVE  x \in pa'.closed
      BY DEF Told
    <3>1. x # r BY <2>1, <2>2, <2>4
    <3> QED BY <1>2, <1>i, <1>3, <2>1, <2>2, <2>3, <3>1 DEF Told
  <2>6. Played' BY <1>2, <1>3, <2>1, <2>2, <2>4 DEF Played
  <2>7. OwnerReady' BY <1>1, <1>2, <1>3, <1>4, <1>7, <1>13, OwnerReadyKept DEF SameControl
  <2>8. r \notin Publishers BY ClientsAssumption
  <2>9. PublisherFeedsStream'
    BY <1>1, <1>2, <1>3, <1>4, <1>5, <1>7, <1>13, <2>3, <2>8, FeedKept
    DEF SameControl, SameRequests
  <2> QED BY <2>5, <2>6, <2>7, <2>9
<1>14. phase' \in {"run", "exit"} BY <1>1 DEF Running
<1> QED BY <1>1, <1>7, <1>9, <1>10, <1>11, <1>12, <1>13, <1>14, HandlerStep

LEMMA ReaderRemoveTerminatedJ ==
    ASSUME IInv, JInv, NEW r \in Readers, ReaderRemoveTerminated(r)
    PROVE  JInv' /\ Swaps(pa, pa')
<1> DEFINE c == pa.closed \ {r}
<1>1. /\ Alive /\ ctxDone /\ Idle(r) /\ sess' = [sess EXCEPT ![r] = "gone"]
      /\ pa' = [pa EXCEPT !.closed = c]
      /\ UNCHANGED <<conf, phase, ctxDone, psess, pstream, spc>>
  BY DEF ReaderRemoveTerminated
<1>2. Rest /\ pa \in PaType BY IInvSplit DEF Sound
<1>3. c \in SUBSET (Readers \cup Publishers \cup Sources) /\ c = pa.closed \ {r}
  BY <1>2 DEF PaType
<1> HIDE DEF c
<1>4. SameControl(pa, pa') /\ SameRequests(pa, pa') BY <1>1, <1>2, <1>3, ClosedFacts
<1>5. SameReaders(pa, pa') /\ SameRest(pa, pa') /\ pa'.closed = c /\ pa'.panic = pa.panic
  BY <1>1, <1>2, <1>3, ClosedBooks
<1>6. Told /\ Played /\ OwnerReady /\ PublisherFeedsStream BY JFacts
<1>7. InLoop' <=> InLoop BY <1>1 DEF InLoop
<1>8. \A x \in Readers : sess'[x] = IF x = r THEN "gone" ELSE sess[x] BY <1>1, <1>2 DEF Rest
<1>9. \A x \in Readers : pa'.readers[x] = pa.readers[x] /\ pa'.res[x] = pa.res[x]
  BY <1>4, <1>5 DEF SameReaders, SameRequests
<1>10. pa.res[r] \notin {"wait", "stream"} BY <1>1 DEF Idle
<1>11. Told'
  <2> SUFFICES ASSUME NEW x \in Readers, Alive', InLoop', pa'.readers[x] = "none",
                      sess'[x] \in {"preRead", "read"} \/ pa'.res[x] = "stream"
               PROVE  x \in pa'.closed
    BY DEF Told
  <2>1. x # r BY <1>8, <1>9, <1>10
  <2> QED BY <1>1, <1>3, <1>5, <1>6, <1>7, <1>8, <1>9, <2>1 DEF Told
<1>12. Played' BY <1>1, <1>6, <1>8, <1>9, <1>10 DEF Played
<1>13. OwnerReady' BY <1>1, <1>4, <1>6, OwnerReadyKept DEF SameControl
<1>14. r \notin Publishers BY ClientsAssumption
<1>15. PublisherFeedsStream'
  BY <1>1, <1>3, <1>4, <1>5, <1>6, <1>14, FeedKept DEF SameControl, SameRequests
<1> QED BY <1>1, <1>4, <1>5, <1>7, <1>11, <1>12, <1>13, <1>15, QuietStep DEF SameRequests

LEMMA ReaderStepJ ==
    ASSUME IInv, JInv, NEW r \in Readers, ReaderStep(r)
    PROVE  JInv' /\ Swaps(pa, pa')
BY ReaderSetupPlayJ, ReaderSetUpJ, ReaderSetupBadTrackJ, ReaderPlayJ, ReaderPauseJ,
   ReaderRemoveJ, ReaderRemoveTerminatedJ DEF ReaderStep

(***************************************************************************)
(* The publishers.                                                         *)
(***************************************************************************)
\* Other publishers than p are left alone, and none of them fed the path.
LEMMA FeedMoves ==
    ASSUME PublisherFeedsStream, Alive,
           psess \in [Publishers -> {"initial", "prePublish", "publish", "gone"}],
           NEW p \in Publishers, NEW to, psess' = [psess EXCEPT ![p] = to],
           to # "publish", pa'.stale = pa.stale, ctxDone' = ctxDone,
           \A x \in Publishers : x # p /\ x \in pa.closed => x \in pa'.closed,
           \A x \in Publishers : x # p /\ pa.source = x => x \in pa'.closed,
           pa'.source \in Publishers => pa'.source = p /\ to = "prePublish"
    PROVE  PublisherFeedsStream'
<1>1. \A x \in Publishers : psess'[x] = IF x = p THEN to ELSE psess[x] OBVIOUS
<1> QED BY <1>1 DEF PublisherFeedsStream, Alive

\* A publisher leaves the path, by itself or because another one comes; c is
\* the path after it was told to.
LEMMA RemovedJ ==
    ASSUME IInv, JInv, Running, pa.source \in Publishers,
           NEW c \in PaType, SameControl(pa, c), SameRequests(pa, c), SameReaders(pa, c),
           SameRest(pa, c), pa.closed \subseteq c.closed, c.panic = pa.panic
    PROVE  LET q == doPublisherRemove(c)
           IN /\ q \in PaType /\ Books(q) /\ LastToldToLeave(q) /\ Swaps(pa, q) /\ Drops(pa, q)
              /\ Drops(c, q) /\ registered(q) = {}
              /\ q.res = pa.res /\ q.stale = pa.stale /\ ~q.sourceReady /\ q.stream = NoStream
              /\ PanicAllowed(pa, q.panic) /\ q.source = "nil"
<1> DEFINE q == doPublisherRemove(c)
<1>1. /\ Rest /\ Good(pa) /\ Owned(pa) /\ Sound(pa) /\ Alive /\ conf \in Confs /\ pa \in PaType
  BY RunFacts DEF Rest, Good
<1>2. Books(pa) BY JFacts DEF Running, InLoop
<1>3. Neat(c) BY <1>2, NeatKept DEF Books, SameControl, SameRequests
<1>4. Ready(c) /\ c.source = pa.source /\ c.sourceReady = pa.sourceReady
      /\ c.onDemandState = pa.onDemandState /\ c.onDemandCloseTimer = pa.onDemandCloseTimer
  BY <1>1 DEF Sound, Ready, SameControl
<1>5. c.source \in Publishers /\ c.source # "nil" /\ c.source \notin Sources
  BY <1>4, ClientsAssumption
<1>6. isOnDemand /\ c.onDemandCmd => ~hasStaticSource BY <1>2 DEF Books, Opened, SameRest
<1>7. /\ q \in PaType /\ SameRequests(c, q)
      /\ q.source = "nil" /\ q.sourceReady = FALSE /\ q.stream = NoStream
      /\ q.onDemandState = IF c.sourceReady THEN "initial" ELSE c.onDemandState
      /\ q.onDemandCloseTimer = (c.onDemandCloseTimer
                                  /\ (c.sourceReady => c.onDemandState # "closing"))
  BY <1>1, <1>4, <1>5, DoPublisherRemoveFacts
<1>8. /\ Neat(q) /\ Drops(c, q) /\ Emptied(q)
      /\ q.panic = c.panic \/ ClosePanics(c, q.panic)
      /\ c.sourceReady /\ isOnDemand => q.onDemandCmd = FALSE /\ c.source \in q.closed
      /\ ~c.sourceReady => q.onDemandCmd = c.onDemandCmd
      /\ ~isOnDemand => /\ q.onDemandCmd = c.onDemandCmd
                        /\ q.countPublishers = IF c.sourceReady
                                THEN c.countPublishers - 1 ELSE c.countPublishers
  BY <1>1, <1>3, <1>4, <1>5, <1>6, DoPublisherRemoveBooks
<1> HIDE DEF q
<1>b. pa.sourceReady \in BOOLEAN /\ isOnDemand \in BOOLEAN BY <1>1, ConfFacts DEF PaType
<1>9. registered(q) = {} BY <1>8, EmptyRegistered
<1>10. Drops(pa, q) BY <1>8 DEF Drops, SameReaders
<1>11. Counted(q)
  <2>1. ~isOnDemand => c.countPublishers = IF c.sourceReady THEN 1 ELSE 0
    BY <1>2, <1>4, <1>5 DEF Books, Counted, SameRest
  <2> QED BY <1>4, <1>7, <1>8, <1>b, <2>1 DEF Counted
<1>12. q.onDemandState \in {"initial", "waitingReady"}
  <2>1. pa.onDemandState \in {"initial", "waitingReady", "ready", "closing"} BY <1>1 DEF PaType
  <2> QED BY <1>1, <1>4, <1>7, <1>b, <2>1 DEF Good, Ready
<1>13. Opened(q)
  <2>1. ~isOnDemand => ~q.onDemandReadyTimer /\ ~q.onDemandCloseTimer /\ ~q.onDemandCmd
    BY <1>2, <1>4, <1>7, <1>8 DEF Books, Opened, SameRequests, SameRest
  <2>2. hasStaticSource => isOnDemand BY <1>2, <1>4, <1>5 DEF Books, Opened
  <2>3. hasStaticSource => ~q.onDemandCmd
    BY <1>2, <1>8, <1>b, <2>2 DEF Books, Opened, SameRest
  <2>4. hasStaticSource /\ ~q.stale => q.onDemandState # "waitingReady"
    BY <1>2, <1>4, <1>5, <1>7 DEF Books, Opened, SameRequests
  <2> QED BY <1>12, <2>1, <2>2, <2>3, <2>4 DEF Opened
<1>14. Used(q)
  <2>1. q.onDemandCmd => ~pa.sourceReady /\ pa.onDemandCmd
    BY <1>2, <1>4, <1>8, <1>b DEF Books, Opened, SameRest
  <2>2. q.onDemandCmd => q.onDemandState # "initial"
    BY <1>2, <1>4, <1>7, <2>1 DEF Books, Used
  <2> QED BY <1>12, <2>2 DEF Used
<1>15. LastToldToLeave(q) BY <1>12 DEF LastToldToLeave
<1>16. Swaps(pa, q) BY <1>7, <1>9 DEF Swaps
<1>17. PanicAllowed(pa, q.panic)
  <2>1. isOnDemand /\ ~hasStaticSource => conf.runOnDemand BY DEF isOnDemand
  <2> QED BY <1>1, <1>5, <1>8, <2>1 DEF PanicAllowed, ClosePanics, Alive
<1>18. Books(q) BY <1>8, <1>11, <1>13, <1>14 DEF Books
<1>19. q.res = pa.res /\ q.stale = pa.stale BY <1>7 DEF SameRequests
<1> QED BY <1>7, <1>8, <1>9, <1>10, <1>15, <1>16, <1>17, <1>18, <1>19 DEF q

\* An announcement that the path accepts, in the two cases: nobody was there,
\* or the previous publisher is told to leave and removed.
LEMMA PublisherAnnounceJ ==
    ASSUME IInv, JInv, NEW p \in Publishers, PublisherAnnounce(p)
    PROVE  JInv' /\ Swaps(pa, pa')
<1> DEFINE q == handlePublisherAnnounce(pa, p)
<1>1. /\ Running /\ ~announceRefused(pa) /\ Apply(q)
      /\ psess' = [psess EXCEPT ![p] = "prePublish"]
      /\ UNCHANGED <<conf, phase, ctxDone, sess, pstream, spc>>
  BY DEF PublisherAnnounce
<1>2. Rest /\ Good(pa) /\ Owned(pa) /\ Sound(pa) /\ Alive /\ conf \in Confs /\ pa \in PaType
  BY <1>1, RunFacts DEF Rest, Good
<1>i. InLoop /\ InLoop' BY <1>1 DEF Running, InLoop
<1>3. Books(pa) /\ Told /\ Played /\ OwnerReady /\ PublisherFeedsStream
      /\ (~ctxDone => LastToldToLeave(pa))
  BY <1>i, JFacts
<1>4. p # "nil" /\ p # "redirect" /\ p \notin Sources BY ClientsAssumption
<1>5. phase' \in {"run", "exit"} BY <1>1 DEF Running
<1>6. CASE pa.source = "redirect"
  <2>1. q = panicAt(pa, TRUE, "closePublisher") BY <1>6 DEF handlePublisherAnnounce
  <2>2. q = [pa EXCEPT !.panic = "closePublisher"] BY <1>2, <2>1 DEF panicAt, Alive
  <2>3. q.panic = "closePublisher" BY <1>2, <2>2 DEF PaType
  <2>4. pa' = [pa EXCEPT !.panic = "closePublisher"] BY <1>1, <2>3 DEF Apply
  <2>5. PanicAllowed(pa, "closePublisher") BY <1>2, <1>6 DEF PanicAllowed, Owned
  <2>6. "closePublisher" \in PanicSites BY DEF PanicSites
  <2> QED BY <1>1, <1>5, <2>4, <2>5, <2>6, PanicStep
<1>7. CASE pa.source = "nil"
  <2> DEFINE t == [pa EXCEPT !.source = p]
  <2>1. q = t BY <1>7 DEF handlePublisherAnnounce
  <2>2. t \in PaType BY <1>2 DEF PaType
  <2>3. /\ SameRequests(pa, t) /\ SameReaders(pa, t) /\ SameRest(pa, t) /\ t.source = p
        /\ t.closed = pa.closed /\ t.panic = pa.panic /\ t.sourceReady = pa.sourceReady
        /\ t.stream = pa.stream /\ t.onDemandState = pa.onDemandState
        /\ t.onDemandCloseTimer = pa.onDemandCloseTimer
    BY <1>2 DEF PaType, SameRequests, SameReaders, SameRest
  <2> HIDE DEF t
  <2>4. hasStaticSource => isOnDemand BY <1>3, <1>7, ClientsAssumption DEF Books, Opened
  <2>5. ~isOnDemand => ~pa.sourceReady
    BY <1>2, <1>7, <2>4, ConfFacts, ClientsAssumption DEF Owned
  <2>6. Counted(t) BY <1>3, <1>7, <2>3, <2>5 DEF Books, Counted, SameRest
  <2>7. Opened(t)
    BY <1>3, <1>4, <1>7, <2>3, <2>4, ClientsAssumption DEF Books, Opened, SameRequests, SameRest
  <2>8. registered(t) = registered(pa) BY <2>3 DEF registered, SameReaders
  <2>9. Neat(t) BY <1>3, <2>3, NeatKept DEF Books, SameRequests
  <2>10. Used(t) BY <1>3, <2>3, <2>8 DEF Books, Used, SameRest
  <2>11. ~ctxDone => LastToldToLeave(t) BY <1>3, <2>3, <2>8 DEF LastToldToLeave
  <2>12. Swaps(pa, t) BY <2>3 DEF Swaps
  <2>13. PanicAllowed(pa, t.panic) BY <1>2, <2>3 DEF PanicAllowed, Alive
  <2>14. Calm(pa, t) BY <2>3 DEF Calm, SameReaders, SameRequests
  <2>15. ASSUME pa' = t PROVE Told' /\ Played' /\ OwnerReady' /\ PublisherFeedsStream'
    <3>1. Told' /\ Played' BY <1>1, <1>2, <1>i, <1>3, <2>14, <2>15, CalmStep
    <3>2. OwnerReady' BY <1>4, <2>3, <2>15, OwnerReadyGone
    <3>3. \A x \in Publishers : pa.source # x BY <1>7, ClientsAssumption
    <3>4. PublisherFeedsStream'
      BY <1>1, <1>2, <1>3, <2>3, <2>15, <3>3, FeedMoves DEF Rest, SameRequests
    <3> QED BY <3>1, <3>2, <3>4
  <2> QED BY <1>1, <1>5, <2>1, <2>2, <2>6, <2>7, <2>9, <2>10, <2>11, <2>12, <2>13, <2>15,
             HandlerStep DEF Books
<1>8. CASE pa.source # "redirect" /\ pa.source # "nil"
  <2> DEFINE c == closeSource(pa)
             d == doPublisherRemove(c)
             t == [d EXCEPT !.source = p]
  <2>1. q = t BY <1>8 DEF handlePublisherAnnounce
  <2>2. ~hasStaticSource BY <1>1, <1>8 DEF announceRefused
  <2>3. pa.source \in Publishers BY <1>2, <1>8, <2>2 DEF Owned, PaType
  <2>4. c \in PaType /\ SameControl(pa, c) /\ SameRequests(pa, c) BY <1>2, CloseSourceFacts
  <2>5. /\ SameReaders(pa, c) /\ SameRest(pa, c) /\ c.panic = pa.panic /\ Drops(pa, c)
        /\ pa.source \in Sources \cup Publishers => pa.source \in c.closed
    BY <1>2, CloseSourceBooks
  <2> HIDE DEF c
  <2>6. /\ d \in PaType /\ Books(d) /\ LastToldToLeave(d) /\ Swaps(pa, d) /\ Drops(pa, d)
        /\ Drops(c, d) /\ registered(d) = {}
        /\ d.res = pa.res /\ d.stale = pa.stale /\ ~d.sourceReady /\ d.stream = NoStream
        /\ PanicAllowed(pa, d.panic) /\ d.source = "nil"
    BY <1>1, <2>3, <2>4, <2>5, RemovedJ DEF Drops
  <2> HIDE DEF d
  <2>7. t \in PaType BY <2>6 DEF PaType
  <2>8. /\ SameRequests(d, t) /\ SameReaders(d, t) /\ SameRest(d, t) /\ t.source = p
        /\ t.closed = d.closed /\ t.panic = d.panic /\ t.sourceReady = d.sourceReady
        /\ t.stream = d.stream /\ t.onDemandState = d.onDemandState
        /\ t.onDemandCloseTimer = d.onDemandCloseTimer
    BY <2>6 DEF PaType, SameRequests, SameReaders, SameRest
  <2> HIDE DEF t
  <2>9. registered(t) = registered(d) BY <2>8 DEF registered, SameReaders
  <2>10. Neat(t) BY <2>6, <2>8, NeatKept DEF Books, SameRequests
  <2>11. Counted(t) /\ Opened(t) /\ Used(t)
    BY <2>2, <2>6, <2>8, <2>9 DEF Books, Counted, Opened, Used, SameRequests, SameRest
  <2>12. LastToldToLeave(t) BY <2>6, <2>9 DEF LastToldToLeave
  <2>13. Swaps(pa, t) BY <2>6, <2>8, <2>9 DEF Swaps
  <2>14. PanicAllowed(pa, t.panic) BY <2>6, <2>8
  <2>15. Drops(pa, t) /\ t.res = pa.res BY <2>6, <2>8 DEF Drops, SameReaders, SameRequests
  <2>16. Calm(pa, t) BY <2>15, DropsCalm
  <2>17. pa.source \in t.closed BY <2>3, <2>5, <2>6, <2>8 DEF Drops
  <2>18. ASSUME pa' = t PROVE Told' /\ Played' /\ OwnerReady' /\ PublisherFeedsStream'
    <3>1. Told' /\ Played' BY <1>1, <1>2, <1>i, <1>3, <2>16, <2>18, CalmStep
    <3>2. OwnerReady' BY <1>4, <2>8, <2>18, OwnerReadyGone
    <3>3. pa.closed \subseteq t.closed /\ t.stale = pa.stale /\ t.source = p
      BY <2>6, <2>8, <2>15 DEF Drops, SameRequests
    <3>4. PublisherFeedsStream'
      BY <1>1, <1>2, <1>3, <2>17, <2>18, <3>3, FeedMoves DEF Rest
    <3> QED BY <3>1, <3>2, <3>4
  <2> QED BY <1>1, <1>5, <2>1, <2>7, <2>10, <2>11, <2>12, <2>13, <2>14, <2>18, HandlerStep
          DEF Books
<1> QED BY <1>6, <1>7, <1>8

LEMMA PublisherRecordJ ==
    ASSUME IInv, JInv, NEW p \in Publishers, PublisherRecord(p)
    PROVE  JInv' /\ Swaps(pa, pa')
<1> DEFINE st == NewStream
           n == pa.countPublishers + 1
           a == [pa EXCEPT !.countPublishers = n]
           b == sourceSetReady(a, st)
           c == b.onPublishCmd \/ conf.runOnPublish
           t == [b EXCEPT !.onPublishCmd = c]
<1>1. /\ Running /\ pa.source = p /\ psess[p] = "prePublish" /\ Apply(handlePublisherRecord(pa, st))
      /\ psess' = [psess EXCEPT ![p] = "publish"] /\ pstream' = [pstream EXCEPT ![p] = st]
      /\ UNCHANGED <<conf, phase, ctxDone, sess, spc>>
  BY DEF PublisherRecord
<1>2. /\ Rest /\ Good(pa) /\ Owned(pa) /\ Sound(pa) /\ Alive /\ conf \in Confs /\ pa \in PaType
      /\ ReadyMatchesOwner
  BY <1>1, RunFacts DEF Rest, Good
<1>3. handlePublisherRecord(pa, st) = t BY DEF handlePublisherRecord
<1>i. InLoop /\ InLoop' BY <1>1 DEF Running, InLoop
<1>4. Books(pa) /\ Told /\ Played /\ OwnerReady /\ PublisherFeedsStream BY <1>i, JFacts
<1>5. p # "nil" /\ p \notin Sources BY ClientsAssumption
<1>6. st \in Streams BY <1>2, NewStreamExists DEF Rest, PaType
<1>7. ~pa.stale => ~pa.sourceReady BY <1>1, <1>2, <1>5 DEF ReadyMatchesOwner
<1>8. ~isOnDemand => n = 1
  <2>1. ~isOnDemand => ~hasStaticSource BY <1>1, <1>4, <1>5 DEF Books, Opened
  <2>2. ~isOnDemand => ~pa.sourceReady BY <1>2, <1>7, <2>1 DEF Owned
  <2> QED BY <1>4, <2>2 DEF Books, Counted
<1>9. n \in Int BY <1>2 DEF PaType
<1> HIDE DEF st, n
<1>10. a \in PaType /\ SameControl(pa, a) /\ SameRequests(pa, a)
  BY <1>2, <1>9, CountPublishersFacts
<1>11. /\ SameReaders(pa, a) /\ a.onDemandCmd = pa.onDemandCmd /\ a.closed = pa.closed
       /\ a.panic = pa.panic /\ a.countPublishers = n
  BY <1>2 DEF PaType, SameReaders
<1> HIDE DEF a
<1>12. Good(a) BY <1>2, <1>10, SameIsGood
<1>13. ~a.stale => ~a.sourceReady BY <1>7, <1>10 DEF SameControl, SameRequests
<1>14. Good(b) /\ b.source = a.source /\ b.sourceReady = TRUE /\ b.stale = a.stale
  BY <1>2, <1>6, <1>10, <1>12, <1>13, SourceSetReadyFacts DEF Good
<1>15. b \in PaType /\ c \in BOOLEAN BY <1>2, <1>14, ConfFacts DEF Good, PaType
<1> HIDE DEF b, c
<1>16. t \in PaType /\ SameControl(b, t) /\ SameRequests(b, t) BY <1>15, OnPublishCmdFacts
<1>17. SameReaders(b, t) /\ SameRest(b, t) /\ t.closed = b.closed /\ t.panic = b.panic
  BY <1>15 DEF PaType, SameReaders, SameRest
<1> HIDE DEF t
<1>18. t.source = pa.source /\ t.sourceReady /\ t.stale = pa.stale
  BY <1>10, <1>14, <1>16 DEF SameControl, SameRequests
<1>19. ~isOnDemand => a.countPublishers = IF a.source \in Publishers THEN 1 ELSE 0
  BY <1>1, <1>8, <1>10, <1>11 DEF SameControl
<1>20. pa.source = "nil" => a.stale \/ ~hasStaticSource BY <1>1, <1>5
<1>21. /\ Books(t) /\ LastToldToLeave(t) /\ Swaps(pa, t) /\ Calm(pa, t)
       /\ t.panic = "none" /\ t.closed = pa.closed /\ t.stream = st
  <2>1. /\ SameControl(sourceSetReady(a, st), t) /\ SameRequests(sourceSetReady(a, st), t)
        /\ SameReaders(sourceSetReady(a, st), t) /\ SameRest(sourceSetReady(a, st), t)
        /\ t.closed = sourceSetReady(a, st).closed /\ t.panic = sourceSetReady(a, st).panic
    BY <1>16, <1>17 DEF b
  <2>2. /\ a.res = pa.res /\ (pa.stale => a.stale)
        /\ a.setupPlayRequests = pa.setupPlayRequests
        /\ a.onDemandReadyTimer = pa.onDemandReadyTimer
    BY <1>10 DEF SameRequests
  <2> QED BY <1>1, <1>6, <1>10, <1>11, <1>13, <1>16, <1>18, <1>19, <1>20, <2>1, <2>2, BecomesReady
<1>22. PanicAllowed(pa, t.panic) BY <1>21 DEF PanicAllowed
<1>23. ASSUME pa' = t PROVE Told' /\ Played' /\ OwnerReady' /\ PublisherFeedsStream'
  <2>1. Told' /\ Played' BY <1>1, <1>2, <1>i, <1>4, <1>21, <1>23, CalmStep
  <2>2. OwnerReady' BY <1>1, <1>5, <1>18, <1>23, OwnerReadyGone
  <2>3. \A x \in Publishers : /\ psess'[x] = IF x = p THEN "publish" ELSE psess[x]
                              /\ pstream'[x] = IF x = p THEN st ELSE pstream[x]
    BY <1>1, <1>2 DEF Rest
  <2>4. PublisherFeedsStream'
    BY <1>1, <1>2, <1>4, <1>18, <1>21, <1>23, <2>3 DEF PublisherFeedsStream, Alive
  <2> QED BY <2>1, <2>2, <2>4
<1>24. phase' \in {"run", "exit"} BY <1>1 DEF Running
<1> QED BY <1>1, <1>3, <1>16, <1>21, <1>22, <1>23, <1>24, HandlerStep

LEMMA PublisherPauseJ ==
    ASSUME IInv, JInv, NEW p \in Publishers, PublisherPause(p)
    PROVE  JInv' /\ Swaps(pa, pa')
<1> DEFINE n == pa.countPublishers - 1
           c == [pa EXCEPT !.countPublishers = n]
           q == sourceStops(c)
<1>1. /\ Running /\ Apply(handlePublisherPause(pa, p)) /\ ExitIfUnused(handlePublisherPause(pa, p))
      /\ psess' = [psess EXCEPT ![p] = "prePublish"]
      /\ UNCHANGED <<conf, ctxDone, sess, spc>>
  BY DEF PublisherPause
<1>2. Rest /\ Good(pa) /\ Owned(pa) /\ Sound(pa) /\ Alive /\ pa \in PaType
  BY <1>1, RunFacts DEF Good
<1>p. phase' \in {"run", "exit"} BY <1>1 DEF ExitIfUnused, Running
<1>i. InLoop /\ InLoop' BY <1>1, <1>p DEF Running, InLoop
<1>3. Books(pa) /\ Told /\ Played /\ OwnerReady /\ PublisherFeedsStream BY <1>i, JFacts
<1>4. p # "nil" /\ p \notin Sources BY ClientsAssumption
<1>5. CASE pa.source = p /\ pa.sourceReady
  <2>1. handlePublisherPause(pa, p) = q BY <1>5 DEF handlePublisherPause
  <2>2. n \in Int /\ (~isOnDemand => n = 0) BY <1>2, <1>3, <1>5 DEF PaType, Books, Counted
  <2> HIDE DEF n
  <2>3. c \in PaType /\ SameControl(pa, c) /\ SameRequests(pa, c)
    BY <1>2, <2>2, CountPublishersFacts
  <2>4. /\ SameReaders(pa, c) /\ c.onDemandCmd = pa.onDemandCmd /\ c.closed = pa.closed
        /\ c.panic = pa.panic /\ c.countPublishers = n
    BY <1>2 DEF PaType, SameReaders
  <2> HIDE DEF c
  <2>5. /\ q \in PaType /\ Books(q) /\ LastToldToLeave(q) /\ Swaps(pa, q) /\ Drops(pa, q)
        /\ q.res = pa.res /\ q.stale = pa.stale /\ ~q.sourceReady
        /\ PanicAllowed(pa, q.panic)
        /\ IF isOnDemand THEN q.source = "nil" /\ pa.source \in q.closed
                         ELSE q.source = pa.source
    BY <1>1, <1>5, <2>2, <2>3, <2>4, StopsJ
  <2> HIDE DEF q
  <2>6. Calm(pa, q) BY <2>5, DropsCalm
  <2>7. ASSUME pa' = q PROVE Told' /\ Played' /\ OwnerReady' /\ PublisherFeedsStream'
    <3>1. Told' /\ Played' BY <1>1, <1>2, <1>i, <1>3, <2>6, <2>7, CalmStep
    <3>2. q.source \in {"nil", p} /\ pa.closed \subseteq q.closed BY <1>5, <2>5 DEF Drops
    <3>3. OwnerReady' BY <1>4, <2>7, <3>2, ClientsAssumption, OwnerReadyGone
    <3>4. PublisherFeedsStream'
      BY <1>1, <1>2, <1>3, <1>5, <2>5, <2>7, <3>2, ClientsAssumption, FeedMoves DEF Rest
    <3> QED BY <3>1, <3>3, <3>4
  <2> QED BY <1>1, <1>p, <2>1, <2>5, <2>7, HandlerStep
<1>6. CASE ~(pa.source = p /\ pa.sourceReady)
  <2>1. pa' = pa BY <1>1, <1>2, <1>6 DEF handlePublisherPause, Apply, Alive
  <2>2. Calm(pa, pa') BY <2>1 DEF Calm
  <2>3. Told' /\ Played' BY <1>1, <1>2, <1>i, <1>3, <2>2, CalmStep
  <2>4. OwnerReady' BY <1>1, <1>2, <1>3, <2>1, OwnerReadyKept
  <2>5. \A x \in Publishers : /\ psess'[x] = IF x = p THEN "prePublish" ELSE psess[x]
                              /\ pstream'[x] = IF x = p THEN NoStream ELSE pstream[x]
    BY <1>2 DEF Rest, PublisherPause
  <2>6. PublisherFeedsStream'
    BY <1>1, <1>2, <1>3, <2>1, <2>5 DEF PublisherFeedsStream, Alive
  <2> QED BY <1>1, <1>2, <1>i, <2>1, <2>3, <2>4, <2>6, QuietStep
          DEF SameControl, SameReaders, SameRest
<1> QED BY <1>5, <1>6

\* A publisher that is not the source any more leaves.
LEMMA PublisherLeavesJ ==
    ASSUME IInv, JInv, Alive, NEW p \in Publishers, pa.source # p \/ ctxDone, NEW to,
           to # "publish",
           pa' = [pa EXCEPT !.closed = pa.closed \ {p}], psess' = [psess EXCEPT ![p] = to],
           pstream' = [pstream EXCEPT ![p] = NoStream], InLoop' <=> InLoop,
           UNCHANGED <<conf, ctxDone, sess, spc>>
    PROVE  JInv' /\ Swaps(pa, pa')
<1> DEFINE c == pa.closed \ {p}
<1>1. Rest /\ pa \in PaType BY IInvSplit DEF Sound
<1>2. c \in SUBSET (Readers \cup Publishers \cup Sources) /\ c = pa.closed \ {p}
  BY <1>1 DEF PaType
<1>3. pa' = [pa EXCEPT !.closed = c] OBVIOUS
<1> HIDE DEF c
<1>4. SameControl(pa, pa') /\ SameRequests(pa, pa') BY <1>1, <1>2, <1>3, ClosedFacts
<1>5. SameReaders(pa, pa') /\ SameRest(pa, pa') /\ pa'.closed = c /\ pa'.panic = pa.panic
  BY <1>1, <1>2, <1>3, ClosedBooks
<1>6. p \notin Readers BY ClientsAssumption
<1>7. Told /\ Played /\ OwnerReady /\ PublisherFeedsStream BY JFacts
<1>8. Calm(pa, pa') BY <1>2, <1>4, <1>5, <1>6 DEF Calm, SameReaders, SameRequests
<1>9. Told' /\ Played' BY <1>7, <1>8, CalmStep
<1>10. OwnerReady' BY <1>4, <1>7, OwnerReadyKept DEF SameControl
<1>11. \A x \in Publishers : /\ psess'[x] = IF x = p THEN to ELSE psess[x]
                             /\ pstream'[x] = IF x = p THEN NoStream ELSE pstream[x]
  BY <1>1 DEF Rest
<1>12. PublisherFeedsStream'
  BY <1>2, <1>4, <1>5, <1>7, <1>11 DEF PublisherFeedsStream, Alive, SameControl, SameRequests
<1>13. pa.closed \cap Readers \subseteq pa'.closed BY <1>2, <1>5, <1>6
<1> QED BY <1>4, <1>5, <1>9, <1>10, <1>12, <1>13, QuietStep DEF SameRequests

LEMMA PublisherRemoveJ ==
    ASSUME IInv, JInv, NEW p \in Publishers, PublisherRemove(p)
    PROVE  JInv' /\ Swaps(pa, pa')
<1> DEFINE h == handlePublisherRemove(pa, p)
           q == doPublisherRemove(pa)
           c == q.closed \ {p}
           e == [q EXCEPT !.closed = c]
<1>1. /\ Running /\ Apply([h EXCEPT !.closed = h.closed \ {p}]) /\ ExitIfUnused(h)
      /\ psess' = [psess EXCEPT ![p] = "initial"]
      /\ pstream' = [pstream EXCEPT ![p] = NoStream]
      /\ UNCHANGED <<conf, ctxDone, sess, spc>>
  BY DEF PublisherRemove
<1>2. Rest /\ Good(pa) /\ Owned(pa) /\ Sound(pa) /\ Alive /\ pa \in PaType
  BY <1>1, RunFacts DEF Good
<1>p. phase' \in {"run", "exit"} BY <1>1 DEF ExitIfUnused, Running
<1>i. InLoop /\ InLoop' BY <1>1, <1>p DEF Running, InLoop
<1>3. Books(pa) /\ Told /\ Played /\ OwnerReady /\ PublisherFeedsStream BY <1>i, JFacts
<1>4. p # "nil" /\ p \notin Sources /\ p \notin Readers BY ClientsAssumption
<1>5. CASE pa.source = p
  <2>1. h = q BY <1>5 DEF handlePublisherRemove
  <2>2. Apply(e) BY <1>1, <2>1
  <2>3. SameControl(pa, pa) /\ SameRequests(pa, pa) /\ SameReaders(pa, pa) /\ SameRest(pa, pa)
    BY DEF SameControl, SameRequests, SameReaders, SameRest
  <2>4. /\ q \in PaType /\ Books(q) /\ LastToldToLeave(q) /\ Swaps(pa, q) /\ Drops(pa, q)
        /\ registered(q) = {}
        /\ q.res = pa.res /\ q.stale = pa.stale /\ ~q.sourceReady /\ q.stream = NoStream
        /\ PanicAllowed(pa, q.panic) /\ q.source = "nil"
    BY <1>1, <1>2, <1>5, <2>3, RemovedJ
  <2> HIDE DEF q, h
  <2>5. c \in SUBSET (Readers \cup Publishers \cup Sources) /\ c = q.closed \ {p}
    BY <2>4 DEF PaType
  <2> HIDE DEF c
  <2>6. e \in PaType /\ SameControl(q, e) /\ SameRequests(q, e) BY <2>4, <2>5, ClosedFacts
  <2>7. SameReaders(q, e) /\ SameRest(q, e) /\ e.closed = c /\ e.panic = q.panic
    BY <2>4, <2>5, ClosedBooks
  <2> HIDE DEF e
  <2>8. Books(e) /\ registered(e) = registered(q) BY <2>4, <2>6, <2>7, BooksKept DEF SameRequests
  <2>9. LastToldToLeave(e) BY <2>4, <2>8 DEF LastToldToLeave
  <2>10. Swaps(pa, e) BY <2>4, <2>6, <2>8 DEF Swaps, SameControl
  <2>11. PanicAllowed(pa, e.panic) BY <2>4, <2>7
  <2>12. Calm(pa, e)
    BY <1>4, <2>4, <2>5, <2>6, <2>7 DEF Calm, Drops, SameReaders, SameRequests
  <2>13. ASSUME pa' = e PROVE Told' /\ Played' /\ OwnerReady' /\ PublisherFeedsStream'
    <3>1. Told' /\ Played' BY <1>1, <1>2, <1>i, <1>3, <2>12, <2>13, CalmStep
    <3>2. /\ e.source = "nil" /\ e.stale = pa.stale
          /\ \A x \in Publishers : x # p /\ x \in pa.closed => x \in e.closed
      BY <2>4, <2>5, <2>6, <2>7 DEF SameControl, SameRequests, Drops
    <3>3. OwnerReady' BY <2>13, <3>2, ClientsAssumption, OwnerReadyGone
    <3>4. PublisherFeedsStream'
      BY <1>1, <1>2, <1>3, <1>5, <2>13, <3>2, ClientsAssumption, FeedMoves DEF Rest
    <3> QED BY <3>1, <3>3, <3>4
  <2> QED BY <1>1, <1>p, <2>2, <2>6, <2>8, <2>9, <2>10, <2>11, <2>13, HandlerStep
<1>6. CASE pa.source # p
  <2>1. h = pa BY <1>6 DEF handlePublisherRemove
  <2> DEFINE f == [pa EXCEPT !.closed = pa.closed \ {p}]
  <2>2. Apply(f) BY <1>1, <2>1
  <2>3. f.panic = pa.panic BY <1>2 DEF PaType
  <2>4. pa' = f BY <1>2, <2>2, <2>3 DEF Apply, Alive
  <2> HIDE DEF h
  <2> QED BY <1>1, <1>2, <1>i, <1>6, <2>4, PublisherLeavesJ
<1> QED BY <1>5, <1>6

LEMMA PublisherStepJ ==
    ASSUME IInv, JInv, NEW p \in Publishers, PublisherStep(p)
    PROVE  JInv' /\ Swaps(pa, pa')
<1>1. CASE PublisherRemoveTerminated(p)
  <2>1. InLoop' <=> InLoop BY <1>1 DEF PublisherRemoveTerminated, InLoop
  <2> QED BY <1>1, <2>1, PublisherLeavesJ DEF PublisherRemoveTerminated
<1> QED BY <1>1, PublisherAnnounceJ, PublisherRecordJ, PublisherPauseJ, PublisherRemoveJ
        DEF PublisherStep

LEMMA InitJ == Init => JInv
<1> SUFFICES ASSUME Init PROVE JInv OBVIOUS
<1>1. Rest /\ Sound(pa) BY InitIInv, IInvSplit
<1>2. PICK s \in Sources \cup {"nil", "redirect"} :
        /\ s \in Sources <=> hasStaticSource /\ ~conf.sourceOnDemand
        /\ spc = [t \in Sources |-> IF t = s THEN "dial" ELSE "off"]
        /\ pa.source = s /\ ~pa.sourceReady /\ pa.stream = NoStream
        /\ pa.nonRTSPReaders = {} /\ pa.readers = [r \in Readers |-> "none"]
        /\ ~pa.onDemandCmd /\ ~pa.onDemandReadyTimer /\ ~pa.onDemandCloseTimer
        /\ pa.onDemandState = "initial"
        /\ pa.countPublishers = 0 /\ pa.countReaders = 0
        /\ pa.res = [q \in Requesters |-> "none"] /\ pa.panic = "none"
  BY DEF Init
<1>3. InLoop /\ sess = [r \in Readers |-> "initial"] /\ psess = [p \in Publishers |-> "initial"]
  BY DEF Init, InLoop
<1>4. playing(pa) = {} /\ registered(pa) = {} BY <1>2 DEF playing, registered
<1>5. Neat(pa) /\ Counted(pa)
  <2>1. Cardinality({}) = 0 BY FS_EmptySet
  <2> QED BY <1>2, <1>4, <2>1 DEF Neat, Counted
<1>6. Opened(pa)
  <2>1. hasStaticSource /\ ~isOnDemand => ~conf.sourceOnDemand BY DEF isOnDemand
  <2> QED BY <1>2, <2>1 DEF Opened
<1>7. Used(pa) /\ LastToldToLeave(pa) /\ PanicsKnown
  BY <1>2 DEF Used, LastToldToLeave, PanicsKnown
<1>8. Told /\ Played BY <1>2, <1>3 DEF Told, Played, Requesters
<1>9. OwnerReady BY <1>2 DEF OwnerReady, Attached
<1>10. PublisherFeedsStream BY <1>2, <1>3, ClientsAssumption DEF PublisherFeedsStream
<1> QED BY <1>3, <1>5, <1>6, <1>7, <1>8, <1>9, <1>10 DEF JInv

\* The body of StreamNeverSwapped.
NeverSwaps ==
    ~pa'.stale /\ pa.stream # NoStream /\ pa'.stream # pa.stream =>
        pa'.stream = NoStream /\ registered(pa') = {}

LEMMA NextJ == IInv /\ JInv /\ [Next]_vars => JInv' /\ NeverSwaps
<1> SUFFICES ASSUME IInv, JInv, [Next]_vars PROVE JInv' /\ Swaps(pa, pa')
  BY DEF NeverSwaps, Swaps
<1>1. CASE UNCHANGED vars
  <2>1. /\ conf' = conf /\ pa' = pa /\ phase' = phase /\ ctxDone' = ctxDone /\ sess' = sess
        /\ psess' = psess /\ pstream' = pstream /\ spc' = spc
    BY <1>1 DEF vars
  <2>2. InLoop' <=> InLoop BY <2>1 DEF InLoop
  <2>3. JInv'
    BY <2>1, <2>2 DEF JInv, Neat, Counted, Opened, Used, LastToldToLeave, Told, Played,
       OwnerReady, PublisherFeedsStream, PanicsKnown, Alive, playing, registered,
       isOnDemand, hasStaticSource
  <2> QED BY <2>1, <2>3 DEF Swaps
<1>2. CASE PathStep
  BY <1>2, ReadyTimerFiresJ, CloseTimerFiresJ, RunTailJ, PhaseStepsJ DEF PathStep
<1>3. CASE \E s \in Sources : SourceStep(s)
  BY <1>3, SourceMoveStepsJ, SourceSetReadyJ, SourceSetNotReadyJ DEF SourceStep
<1>4. CASE \E d \in Describers : Describe(d) BY <1>4, DescribeJ
<1>5. CASE \E r \in Readers : ReaderStep(r) BY <1>5, ReaderStepJ
<1>6. CASE \E p \in Publishers : PublisherStep(p) BY <1>6, PublisherStepJ
<1> QED BY <1>1, <1>2, <1>3, <1>4, <1>5, <1>6 DEF Next, Terminated

\* The second invariant holds in every reachable state of the path.
THEOREM BooksInvariant == Spec => []JInv
BY InductiveInvariant, InitJ, NextJ, PTL DEF Spec

\* The number of readers that is exported is the number of readers that play,
\* and the number of publishers is 1 while one records, for every number of
\* clients and every order of plays, pauses, removals and source changes.
THEOREM CountsNeverDrift == Spec => []CountsExact
<1>1. JInv => CountsExact BY DEF JInv, Neat, Counted, CountsExact
<1> QED BY <1>1, BooksInvariant, PTL

\* The stream forwards to exactly the playing readers that need it, and no
\* reader is dropped by the path without being told to leave.
THEOREM DroppedReadersAreTold == Spec => []ReadersFollowStream
<1>1. JInv => ReadersFollowStream BY DEF JInv, Neat, Told, ReadersFollowStream
<1> QED BY <1>1, BooksInvariant, PTL

\* A publisher that records and was not told to leave feeds the stream of the
\* path, whatever overrides, pauses and on demand closings happened.
THEOREM RecordingPublisherFeeds == Spec => []PublisherFeedsStream
<1>1. JInv => PublisherFeedsStream BY DEF JInv
<1> QED BY <1>1, BooksInvariant, PTL

\* An on demand source is open only for somebody.
THEOREM NothingOpenForNobody == Spec => []OpenOnlyForReaders
<1>1. JInv => OpenOnlyForReaders BY DEF JInv, Used, LastToldToLeave, OpenOnlyForReaders
<1> QED BY <1>1, BooksInvariant, PTL

\* No other panic than the four that are known can be reached, by any number
\* of clients: the path never closes or detaches from a stream that is nil.
THEOREM NoOtherPanic == Spec => []PanicsKnown
<1>1. JInv => PanicsKnown BY DEF JInv
<1> QED BY <1>1, BooksInvariant, PTL

\* A stream goes away only together with all readers of the path.
THEOREM StreamsAreNotSwapped == Spec => StreamNeverSwapped
<1>1. IInv /\ JInv /\ [Next]_vars => [NeverSwaps]_vars BY NextJ
<1>2. StreamNeverSwapped <=> [][NeverSwaps]_vars BY DEF StreamNeverSwapped, NeverSwaps
<1> QED BY <1>1, <1>2, InductiveInvariant, BooksInvariant, PTL DEF Spec

=============================================================================
