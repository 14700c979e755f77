------------------------------ MODULE PathView ------------------------------
(***************************************************************************)
(* A path as its clients see it: who is registered as a reader, who is its *)
(* source, and whether it has a stream.  The servers for RTSP and RTMP     *)
(* keep such a record for the path their clients use; the goroutine behind *)
(* it, with its timers and its on demand sources, is module Path.          *)
(***************************************************************************)
CONSTANTS
    Clients,  \* sessions or connections of the server
    Other     \* a source that is not one of them

Nil == "nil"

PathType == [readers: [Clients -> {"none", "prePlay", "play"}],
             source: Clients \cup {Nil, Other},
             ready: BOOLEAN,
             open: BOOLEAN,
             onDemand: BOOLEAN,    \* runOnDemand, or sourceOnDemand
             closeTimer: BOOLEAN]  \* the on demand source may be closed

NewPath(demand) == [readers |-> [c \in Clients |-> "none"], source |-> Nil,
                    ready |-> FALSE, open |-> TRUE,
                    onDemand |-> demand, closeTimer |-> FALSE]

registered(p) == {c \in Clients : p.readers[c] # "none"}

\* The source stops: the stream goes, the readers are removed (and closed).
sourceSetNotReady(p) ==
    [p EXCEPT !.ready = FALSE, !.readers = [c \in Clients |-> "none"], !.closeTimer = FALSE]

doPublisherRemove(p) == [sourceSetNotReady(p) EXCEPT !.source = Nil]

\* Whom doPublisherRemove closes: the readers and, since the stream of a path
\* that is on demand stops by onDemandCloseSource, the publisher itself.
dropped(p) ==
    registered(p) \cup (IF p.onDemand /\ p.ready THEN {p.source} \cap Clients ELSE {})

\* The stream is there: the requests on hold become readers.  On demand and
\* without readers, the timer that closes the source starts.
sourceSetReady(p, waiting) ==
    [p EXCEPT !.ready = TRUE,
              !.readers = [c \in Clients |-> IF c \in waiting THEN "prePlay" ELSE @[c]],
              !.closeTimer = p.onDemand /\ registered(p) \cup waiting = {}]

handleReaderSetupPlayPost(p, c) ==
    [p EXCEPT !.readers[c] = "prePlay", !.closeTimer = FALSE]

\* The path takes a reader even if it has dropped it since it was set up; a
\* path that has ended ignores the call, like the ones below.
handleReaderPlay(p, c) == IF p.open THEN [p EXCEPT !.readers[c] = "play"] ELSE p

handleReaderPause(p, c) ==
    IF p.readers[c] = "play" THEN [p EXCEPT !.readers[c] = "prePlay"] ELSE p

handleReaderRemove(p, c) ==
    [p EXCEPT !.readers[c] = "none",
              !.closeTimer = p.onDemand /\ p.ready /\ (@ \/ registered(p) \subseteq {c})]

\* A timer of an on demand path expires: the source, if it has come, goes.
onDemandCloseSource(p) == IF p.source = Nil THEN p ELSE doPublisherRemove(p)

\* Whom the path closes then, or when another publisher announces itself: the
\* publisher and the readers.
overridden(p) ==
    IF p.source = Nil THEN {} ELSE registered(p) \cup ({p.source} \cap Clients)

handlePublisherAnnounce(p, c) == [onDemandCloseSource(p) EXCEPT !.source = c]

\* On demand, a publisher that pauses is closed and is the source no more.
handlePublisherPause(p, c) ==
    IF p.source = c /\ p.ready
      THEN IF p.onDemand THEN doPublisherRemove(p) ELSE sourceSetNotReady(p)
      ELSE p

handlePublisherRemove(p, c) == IF p.source = c THEN doPublisherRemove(p) ELSE p

=============================================================================
