---------------------------- MODULE ConfWatcher -----------------------------
(***************************************************************************)
(* The watcher of the configuration file (confwatcher/confwatcher.go) and  *)
(* the loop of the core that it signals (core/core.go).                    *)
(*                                                                         *)
(* The watched path leads to a file, directly or through a symbolic link,  *)
(* or to nothing.  A file is saved in two steps, truncation and write, and *)
(* every change of the directory is an event that fsnotify queues.  Time   *)
(* is reduced to whether minInterval has passed since the last signal; the *)
(* steps of a save may take longer than additionalWait.                    *)
(***************************************************************************)
EXTENDS Naturals, Sequences

CONSTANTS
    Files,       \* files that the watched path may lead to
    MaxChanges,  \* changes of the directory (bound)
    MaxIdle      \* receives from the closed channel that are told apart (bound)

ASSUME BoundsAssumption == "" \notin Files /\ MaxChanges \in Nat /\ MaxIdle \in Nat

VARIABLES
    link,      \* the file that the watched path leads to, if that exists
    content,   \* the complete content each file had last, a number
    exists,    \* the file at link exists
    partial,   \* it is being saved
    changes,   \* number of changes so far
    events,    \* inner.Events
    innerClosed,  \* inner.Close() has been called
    pc,        \* run(): "select", "sleep", "signal", "ended"
    previousWatchedPath,
    recent,    \* time.Since(lastCalled) < minInterval
    drained,   \* Close() receives from w.signal
    core,      \* the core: "loop", "reload", "close", "join", "done"
    loaded,    \* the content the core has loaded, 0 for no or half a file
    received,  \* signals that the core has received
    missed     \* since the last load an event was dropped because of minInterval,
               \* or the link was found to lead where it had led

fs == <<link, content, exists, partial, changes>>
watcher == <<innerClosed, pc, previousWatchedPath, recent, drained>>
loop == <<core, loaded, received>>
vars == <<fs, events, watcher, loop, missed>>

\* What EvalSymlinks(watchedPath) returns.
target == IF exists THEN link ELSE ""

Init ==
    /\ link \in Files /\ content \in [Files -> 1..2] /\ content[link] = 1
    /\ exists = TRUE /\ partial = FALSE /\ changes = 0
    /\ events = <<>> /\ innerClosed = FALSE
    /\ pc = "select" /\ previousWatchedPath = target /\ recent = FALSE
    /\ drained = FALSE
    /\ core = "loop" /\ loaded = content[link] /\ received = 0
    /\ missed = FALSE

-----------------------------------------------------------------------------
(* The file system and fsnotify. *)

\* The directory changes: an event about path is queued.
changed(path, op) ==
    /\ changes < MaxChanges /\ changes' = changes + 1
    /\ events' = IF innerClosed THEN events ELSE Append(events, [path |-> path, op |-> op])
    /\ UNCHANGED <<watcher, loop, missed>>

Truncate ==
    /\ exists /\ ~partial
    /\ partial' = TRUE
    /\ changed(link, "write")
    /\ UNCHANGED <<link, content, exists>>

\* The save ends, with a content that the file never had.
Write ==
    /\ exists /\ partial
    /\ partial' = FALSE /\ content' = [content EXCEPT ![link] = changes + 3]
    /\ changed(link, "write")
    /\ UNCHANGED <<link, exists>>

Remove ==
    /\ exists
    /\ exists' = FALSE /\ partial' = FALSE
    /\ changed(link, "remove")
    /\ UNCHANGED <<link, content>>

Create ==
    /\ ~exists
    /\ exists' = TRUE /\ partial' = TRUE
    /\ changed(link, "create")
    /\ UNCHANGED <<link, content>>

\* The symbolic link is replaced by one to another file.
Retarget(f) ==
    /\ exists /\ f # link /\ ~partial
    /\ link' = f
    /\ changed("link", "create")
    /\ UNCHANGED <<content, exists, partial>>

MinIntervalPasses ==
    /\ recent
    /\ recent' = FALSE
    /\ UNCHANGED <<fs, events, innerClosed, pc, previousWatchedPath, drained, loop, missed>>

-----------------------------------------------------------------------------
(* run(). *)

\* Mutant: a link that leads elsewhere is not noticed.
isChange_event(path, op) == path = target /\ op \in {"write", "create"}

\* The event calls for a reload.
isChange(path, op) ==
    \/ target # previousWatchedPath
    \/ path = target /\ op \in {"write", "create"}

\* What run() does with an event; the zero event of a closed channel is about
\* the working directory.
handle(path, op) ==
    /\ previousWatchedPath' = IF ~recent /\ (target = "" \/ isChange(path, op))
                              THEN target ELSE previousWatchedPath
    /\ pc' = IF ~recent /\ target # "" /\ isChange(path, op) THEN "sleep" ELSE "select"
    /\ missed' = (missed \/ recent \/ (path = "link" /\ target = previousWatchedPath))
    /\ UNCHANGED <<fs, innerClosed, recent, drained, loop>>

Event ==
    /\ pc = "select" /\ events # <<>>
    /\ handle(Head(events).path, Head(events).op)
    /\ events' = Tail(events)

ZeroEvent ==
    /\ pc = "select" /\ innerClosed
    /\ handle("cwd", "none")
    /\ UNCHANGED events

\* After additionalWait.
SleepEnds ==
    /\ pc = "sleep"
    /\ pc' = "signal" /\ recent' = TRUE
    /\ UNCHANGED <<fs, events, innerClosed, previousWatchedPath, drained, loop, missed>>

\* The core receives the signal.
Signal ==
    /\ pc = "signal" /\ core = "loop"
    /\ pc' = "select"
    /\ core' = "reload" /\ received' = received + 1
    /\ UNCHANGED <<fs, events, innerClosed, previousWatchedPath, recent, drained, loaded, missed>>

\* The goroutine of Close() receives it.
SignalDrained ==
    /\ pc = "signal" /\ drained
    /\ pc' = "select"
    /\ UNCHANGED <<fs, events, innerClosed, previousWatchedPath, recent, drained, loop, missed>>

\* inner.Errors: an error of fsnotify, for example the overflow of the kernel's
\* queue, or the channel is closed.  w.signal is closed.
InnerErrors ==
    /\ pc = "select"
    /\ pc' = "ended"
    /\ UNCHANGED <<fs, events, innerClosed, previousWatchedPath, recent, drained, loop, missed>>

-----------------------------------------------------------------------------
(* The core. *)

\* A receive from the closed w.signal.
SignalClosed ==
    /\ core = "loop" /\ pc = "ended"
    /\ core' = "reload"
    /\ received' = IF received < changes + MaxIdle THEN received + 1 ELSE received
    /\ UNCHANGED <<fs, events, watcher, loaded, missed>>

\* conf.Load.  Without the file it fails, unless the file has its default name;
\* half of a file may be valid or not.  A failure ends the server.
Reload ==
    /\ core = "reload"
    /\ \/ /\ core' = "loop"
          /\ loaded' = (IF ~exists \/ partial THEN 0 ELSE content[link])
          /\ missed' = FALSE
       \/ /\ ~exists \/ partial
          /\ core' = "close"
          /\ UNCHANGED <<loaded, missed>>
    /\ UNCHANGED <<fs, events, watcher, received>>

\* p.ctx is done.
CtxDone ==
    /\ core = "loop"
    /\ core' = "close"
    /\ UNCHANGED <<fs, events, watcher, loaded, received, missed>>

\* Mutant: nobody receives the signals that the core does not.
Close_undrained ==
    /\ core = "close"
    /\ core' = "join"
    /\ innerClosed' = TRUE /\ events' = <<>>
    /\ UNCHANGED <<fs, pc, previousWatchedPath, recent, drained, loaded, received, missed>>

Close ==
    /\ core = "close"
    /\ core' = "join"
    /\ drained' = TRUE
    /\ innerClosed' = TRUE /\ events' = <<>>
    /\ UNCHANGED <<fs, pc, previousWatchedPath, recent, loaded, received, missed>>

Closed ==
    /\ core = "join" /\ pc = "ended"
    /\ core' = "done"
    /\ UNCHANGED <<fs, events, watcher, loaded, received, missed>>

Run == Event \/ ZeroEvent \/ SleepEnds \/ Signal \/ SignalDrained

Next ==
    \/ Truncate \/ Write \/ Remove \/ Create \/ (\E f \in Files : Retarget(f))
    \/ MinIntervalPasses
    \/ Event \/ ZeroEvent \/ SleepEnds \/ Signal \/ SignalDrained \/ InnerErrors
    \/ SignalClosed \/ Reload \/ CtxDone \/ Close \/ Closed

\* Both goroutines run, time passes, and of several cases that stay ready select
\* takes each in the end.
Fairness ==
    /\ WF_vars(Run) /\ WF_vars(SignalClosed \/ Reload \/ Close \/ Closed)
    /\ WF_vars(MinIntervalPasses)
    /\ SF_vars(innerClosed /\ InnerErrors)

Spec == Init /\ [][Next]_vars /\ Fairness

-----------------------------------------------------------------------------
(* Properties. *)

\* Types of the state.
TypeOK ==
    /\ link \in Files /\ content \in [Files -> Nat]
    /\ exists \in BOOLEAN /\ partial \in BOOLEAN
    /\ changes \in 0..MaxChanges
    /\ events \in Seq([path: Files \cup {"link"}, op: {"write", "create", "remove"}])
    /\ innerClosed \in BOOLEAN
    /\ pc \in {"select", "sleep", "signal", "ended"}
    /\ previousWatchedPath \in Files \cup {""}
    /\ recent \in BOOLEAN /\ drained \in BOOLEAN
    /\ core \in {"loop", "reload", "close", "join", "done"}
    /\ loaded \in Nat /\ received \in Nat /\ missed \in BOOLEAN

\* The core runs with the content that the file has.
UpToDate == exists /\ ~partial => loaded = content[link]

\* Once the file is left alone, a core that runs ends up with its content,
\* however it was saved, removed and created again or replaced through the link,
\* and however events and signals interleave.  There are two ways to miss a
\* change: an event within minInterval of the last signal, which is dropped, and
\* a link that leads back to its old file before the event is read.
ChangesAreLoaded == <>[](core = "loop" => UpToDate \/ missed)

\* Close() returns although run() may be sending a signal that the core no
\* longer receives.
CloseReturns == core = "close" ~> core = "done"

\* "Watch returns a channel that is called after the configuration file has
\* changed": the core receives no more signals than there were changes.
SignalsFollowChanges == received <= changes

=============================================================================
