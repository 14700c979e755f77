# A TLA+ verification of rtsp-simple-server

This directory holds a TLA+ model of the core of rtsp-simple-server, the TLC
configurations that check it on small instances, and TLAPS proofs for instances
of any size. `PROJECT.json` lists, for every definition that models code, the
source lines it stands for.

## 1. The system

The server receives media streams from *publishers* (RTSP sessions, RTMP
connections) or pulls them from *static sources* (remote RTSP or RTMP servers)
and distributes them to *readers* (RTSP sessions, RTMP connections, HLS
remuxers). Each stream has a name, its *path*.

Every component is one goroutine, or a few, in a `select` loop. Calls between
components are rendezvous on unbuffered channels: the caller sends a request
that contains a reply channel and blocks, with the cancellation of the callee's
context as the way out. Contexts form a tree (core, then path manager and
servers, then paths and remuxers), so cancelling a parent cancels its children.

| component | state | operations | hard because |
|---|---|---|---|
| path (`core/path.go`) | source, readiness, stream, readers, requests on hold, on demand state and two timers, commands, counters | describe, announce, record, pause and remove of publishers, setup, play, pause and remove of readers, ready and not ready of static sources, timers, close | a timer against a late answer; a publisher that overrides another; a source that was closed and does not know yet; mutual recursion of the release operations |
| static sources (`core/rtsp_source.go`, `rtmp_source.go`) | connection, retry pause | connect, set ready, fail, set not ready, retry, cancel | they call the path and the path waits for them |
| path manager (`core/path_manager.go`) | configurations by name, paths by name | reload, describe, announce, setup, path close, close | old and new path of one name at the same time; a caller holds a path that ends |
| HLS server, remuxers (`core/hls_server.go`, `hls_remuxer.go`) | remuxers by name; for each one two goroutines, queue of requests, muxer | HTTP requests, source ready, remuxer close, inactivity, close | four kinds of goroutines that wait for one another |
| core (`core/core.go`) and API (`core/api.go`) | configuration, the resources created from it | reload (file, API), selective close and create, shutdown | stale configuration copies, order of resources, failure half way |
| RTSP server, sessions (`core/rtsp_server.go`, `rtsp_session.go`, `rtsp_conn.go`) | sessions by id under a read-write lock; for each one its state, its path, runOnRead; failed logins of the connection | session open and close, announce, setup, play, record, pause, kick, list, close | the library, the path and the API each act on a session from a goroutine of their own |
| RTMP server, connections (`core/rtmp_server.go`, `rtmp_conn.go`) | connections by id; for each one two goroutines and two that close its socket and ring buffer | accept, read, publish, close of a connection, kick, list, close | a connection has a dozen ways out and is told to end from four sides |
| HLS muxer (`hls/`), DTS estimator (`h264/dtsestimator.go`) | segments, playlist window, names, read positions | write video and audio, rotate, playlist, read, close | a segment is read while it is written, named by the second it is created in, and deleted while read |
| configuration (`conf/`) and API (`core/api.go`) | options and what is derived from them | load, set, add, edit and remove a path, reload | filled and derived values go through a copy and are filled again |
| configuration watcher (`confwatcher/`) | time of the last signal, the resolved link | file event, signal, error, close | dropped events, links, its signal against the end of its only receiver |
| external commands (`externalcmd/`) | the process | start, restart, close | close against start and restart |
| logger, metrics, pprof, statistics, rlimit, codecs | | | only read state, or are byte transformations |

What makes them correct:

* path: no request is ever lost; timers and on demand state agree; the path is
  ready exactly while its source is; counters are exact; readers never see
  their stream exchanged; it ends when it is closed and its on demand source is
  released when nobody is left;
* path manager: no path is left running unseen, clients are only sent to paths
  with the current configuration, reloads disturb only what changed, closing
  ends everything;
* core: every resource runs with the settings that are valid now and points to
  living partners, whatever was reloaded before; the API shows the configuration in effect;
* HLS: no remuxer unseen, requests answered, readers removed from the path,
  nothing blocks the path manager, closing ends everything;
* RTMP and RTSP: however a client ends, nothing of it stays at the path, in the
  map or as a process; who is told to end does; what the API lists is what
  happens; no order of events makes a handler panic;
* HLS muxer: what the playlist lists can be fetched and keeps its number, decoding times grow,
  no response hangs on a complete segment;
* configuration: a sequence of changes leads to a configuration that a restart would
  load to the same result, and touches nothing that no request named;
* watcher: the last content of the file is loaded, closing returns.

## 2. Modules

| module | models |
|---|---|
| `Path` | one path with its clients and static sources |
| `PathLife` | abstract: what a path promises to the path manager about its life |
| `PathManager` | the path manager, on top of paths that behave as `PathLife` says |
| `HLS` | the HLS server, its remuxers and their HTTP clients |
| `HLSMuxer` | the muxer of one remuxer: segments, playlist, responses that read them |
| `DTSEstimator` | the estimator of decoding times, a function on its record; used by `HLSMuxer` |
| `Core` | the core: which resources exist, reloads from the file and the API |
| `Conf`, `ConfAPI` | what a configuration is after checking and filling; sequences of API requests on it |
| `ConfWatcher` | the watcher of the configuration file, the file system and the loop of the core |
| `RTMP` | the RTMP server and its connections |
| `RTSP` | the RTSP server and its sessions |
| `PathView` | a path as the clients of `RTMP` and `RTSP` see it |
| `ExternalCmd` | an external command, as a record that `RTMP` keeps per connection |
| `MC*` | instances for TLC |
| `PathProofs`, `PathManagerProofs`, `HLSProofs`, `RTMPProofs`, `RTSPProofs`, `CoreProofs`, `HLSMuxerProofs`, `ConfAPIProofs` | TLAPS proofs, each of the module in its name |

### Path

`pa` is the Go struct. Each handler is an operator on that record with the name
of the Go method (`handleReaderPlay`, `onDemandCloseSource`, ...), so that nested
calls compose as they do in the code; an action then applies one handler and
updates the caller's side. Call and handler are one step, as the rendezvous
makes them; a request on hold leaves its caller in `res = "wait"`. The reader
sides (`sess`), publisher sides (`psess`, `pstream`) and the goroutines of the
static sources (`spc`) have their own state, because what they believe and what
the path believes differ for a while whenever one of them is closed: `closed`
holds those whose `Close()` was called and who have not yet noticed. `phase`
follows `run()`: in its loop, after `break outer`, waiting for the source, gone.

A nil dereference or a failed type assertion sets `pa.panic` to its place and
the process stops (`Alive`). `pa.stale` is a history variable: it becomes TRUE
when the path accepts SetReady from a source that is not its current one.
Several invariants are stated only as long as that did not happen, because they
do fail afterwards (section 6).

Left out: frames and RTCP, the contents of SDP, authentication (in
`PathManager`), the API list, wording of errors.

### PathManager

Go maps are functions with a `NoConf` or `NoPath` value for a missing key. A
configuration is a record of its contents and of the reload that created it,
which is enough to tell pointer equality, used to find obsolete paths, from
`Equal`, used to keep configurations. The result of `authenticate` is a choice
for the configurations that ask for credentials. A client that was handed a
path calls it in a later step. `shadowed` is a history variable: the names that
got a configuration of their own while a path of a regular expression had the
name, and have not got a path of their own since.

### HLS

One action for each case of each `select`, one for each place where the inner
goroutine of a remuxer can block. The request that the server is forwarding
(`fwd`) blocks its loop, `notify` blocks the path manager and `telling` the path,
as in the code. Paths are reduced to the readiness of their source and the set of
remuxers that they have registered (`attached`). A setup is on its way to the path
(`asked`), on hold there (`held`) or accepted; those on hold are accepted in the
step that makes the source ready, before the path manager hears of it. A handler that reads a file may meet a client that
stops reading (`stalled`), and `forsaken` holds the handlers that waited for a remuxer that has ended. The contents of the files and the credentials
that `handleRequest` checks are reduced to its two outcomes: the handler returns, or
reads a file of the muxer until that ends.

### Core

Settings that are passed to the same constructors and compared by the same
conditions are one field of the configuration: `common` stands for the RTSP
address, the timeouts and the buffer count, `encryption` for the encryption and
rtspDisable, and so on. `Reads` and `Refs` are read off the constructor calls of
`createResources`, the `close...` operators off the conditions of
`closeResources`; that the two fit together is what the run checks. Resources
are closed and created one step at a time, so that requests of the API, failures, the end
of the core and logging come in between. The goroutines of the API that deliver a
configuration are `pending`. Once its context is cancelled the resources begin to end on their
own; the model leaves that to the step that closes them.

### RTMP

A connection has two program counters, one for `run()` and one for `runInner()`,
because the first waits for the second while it looks at the context. Each
return of `runInner`, `runRead` and `runPublish` is an action of its own, and the
deferred calls that belong to it are part of that action. `done(c)` is the
context of the connection, cancelled by its own kick, by the path or with the
server. The goroutines that close the socket and the ring buffer when the
context is done are conditions (`socketClosed`, `pullInterrupted`) and not
actions: nothing observes the moment at which they run. The command of
`runOnConnect` is a record of `ExternalCmd`, whose steps are interleaved with
the rest. A read or write of a frame succeeds without visible effect or fails.

### RTSP

gortsplib is external: it calls the handlers of a session one after the other
from one goroutine and changes its state (`ss`) after a handler has succeeded; a
kick comes from a goroutine of the API. A handler is therefore cut at each place
where the other goroutine can act between two effects that it sees: while the request is at
the path, and between the change at the path and that of the state. The lock of
the map is explicit where a handler waits for it (`writeLockFree`). A path may end
and another take its name: `gen` counts them, a session keeps the one it was given
(`path`, `res`) and calls that one, and each has its own `runOnRead`, without which
PLAY leaves the session's old command as it is. A nil session or path, and
the second close of a channel, set `panicked`.

### PathView and the path

`RTMP` and `RTSP` compose the clients with a smaller path: who is registered,
who is the source, whether there is a stream, whether it is on demand and whether
its close timer runs. Its operators carry the names of
the handlers in `path.go` and do to these fields what those handlers do, the
branches for on demand paths included. That a timer expires is an action of the module that uses it
(`OnDemandClose`, `RequestsTimeOut`); that the source is ready or lost is one, too. What the full path does with its clients is the subject
of `Path`, in which the clients are reduced to what they owe the path.

### HLSMuxer

Segments are kept for ever in `tsFiles`, so that properties can speak of deleted
ones; the window, the names and the queue are as in the code. A segment holds as
many units as there were writes. The wakeup of the condition variable is a step
of its own (`Broadcast`), as the code sends it after releasing the mutex. Video
arrives in every mixture of groups of no, one or two B frames; times are small
integers, with the offset and the segment duration in the proportion of the
code. `hlsSegmentCount` and `hlsSegmentDuration` are options, the other
constants of the module are constants of the code.

### Conf and ConfAPI

An option is abstracted to what the checks tell apart: missing, valid in one of
the ways that matter, invalid. `Accepted` collects the error returns of
`CheckAndFillMissing`, `Filled` what it leaves behind when there is none; `raw`
removes what JSON does not carry, which is what the copy made by the API loses.
Requests are applied one after the other; how requests and reloads overlap is in `Core`.

### ConfWatcher

The directory changes by truncation and write, removal, creation and moving of
the link, in any order with the events that these produce. Time is one bit: has
`minInterval` passed since the last signal. `missed` is a history variable that remembers the two
cases in which a change is not noticed, so that the property can say there is no third.

## 3. Runs

| run | instance | shows |
|---|---|---|
| `path` | eight configurations of every kind, two readers (one RTSP, one not), two publishers, a describer, two source objects | the invariants of a path, that a stream is never exchanged under its readers, and that a path implements `PathLife` |
| `path_live` | on demand paths, fairness | requests are answered, close ends, the source or command is released |
| `path_manager` | one name, `all`, two contents, three path objects, one client, two reloads; fairness | the safety and liveness of the manager |
| `hls` | one path, two requests, two remuxers, with and without `hlsAlwaysRemux`; fairness | the safety and liveness of the HLS server |
| `core` | two reloads among 16 files, two API requests at a time | every resource runs with the current settings and living partners, the API agrees with the core, nothing is ever stuck |
| `rtmp` | two connections, or one and its command; fairness | nothing stays behind, what works is listed, who is told to end does |
| `rtsp` | two sessions, on demand path or not; with four refused logins, or two kicks at a time, or a path that is replaced | the state of the session, of the library and of the path agree; what is closed leaves; only kicks and an old command kept by a second PLAY panic |
| `hls_muxer` | seven video frames, up to seven audio units, two listed segments, one response; fairness | the playlist can be served, decoding times grow, responses end |
| `config` | five files, two requests | what is in effect is what would be loaded; nothing else is touched |
| `conf_watcher` | two files, five changes; fairness | changes are loaded, Close returns |
| `claim_kick`, `claim_watch` | the instances of `rtsp` and `conf_watcher` | the deviations of section 6 |

Three properties join what belongs together. `PathsMatchConf` of
`PathManager` is `MappedPathsCurrent` and `PlainPathsExist`; `HandlersAccounted`
of `HLS` is `WaitingIsHeld`, `HeldOnce` and `FilesHaveMuxer`: a handler is held by
the server or by one remuxer that can still answer it, or it was forsaken, or it
reads from a muxer that was created; `ReferencesAlive` of `Core` is about
the partners of a resource and the pointers of the metrics server.

Bounds. Two readers are needed because RTSP sessions and other readers are
treated differently by the stream; two publishers for an override; two source
objects for the one that is ending and the one that is being started. `MaxDrift`
bounds the drift of `countPublishers`, which on some paths has no bound. Three path objects allow an old path
that is ending, its replacement and the next one. In `hls` a remuxer object is reused
when it has ended and the map does not hold it; handlers that still wait for it or
read from its muxer are remembered without it (`forsaken`, and `None` as the remuxer of a
file). A path has one remuxer at a time, so that two objects suffice: with three the run has the same states. Deadlock is not checked in `hls`, as the model may stop after a
shutdown, after a panic, and in the deadlock described in section 6.

In `core` two reloads
suffice because each starts from a state that `ResourcesMatchConf` and `ReferencesAlive`
describe completely; the files differ from a base in settings whose resources are disjoint, so that one change
can't hide the effect of another.

Configurations: `MCPath` enumerates the kinds of paths (publisher, with and
without override and fallback, regular expression, redirect, runOnDemand, static,
static on demand) and not every product of flags, as the flags act on separate
parts of the state. A path accepts a
publisher although it has an on demand source, as long as that is not running; `path`
includes one such publisher, together with one reader and one source object. In
`path_live` nobody publishes on such a path: the publisher keeps the
source from being used.

`rtmp`: two connections make one replace the other as publisher and one read what
the other publishes; the command interacts with its own connection only, so
that one connection is enough for it. `rtsp`: two kicks are needed for two of the same session, two sessions for an
override; four refused logins pass the limit of three, and two paths (`MaxPaths`) allow
a session to play on one and then on its successor. `Mixes` keeps refused logins,
kicks and replaced paths to separate behaviours, which is what makes the run finish;
the proofs have no such bound and cover all combinations. Sessions and kicks are interchangeable, and the
run has no temporal property, so it uses symmetry. `hls_muxer`: seven frames fill the window of two
segments and rotate out of it, with two groups of B frames; two seconds let segments share
a name or not. `config`: a fault in what is filled or derived needs one request to get into the copy and
another to take effect. `conf_watcher`: five changes allow two saves, each with its truncation, and a move
of the link.

Deadlock is not checked in `hls` (above), in `hls_muxer`, which stops when the stream is
over, and in `conf_watcher`, which stops when the core has been closed.
Elsewhere the end of the instance is an action of its own, or there is none, so
that TLC reports every other state without a successor.

Fairness. Weak fairness of what the server's own goroutines do: timers that are
armed fire, a cancelled context is seen, a source that is dialing or pausing
reacts to its cancellation, readers that were closed leave, callers that hold a
path call it. Clients and remote servers owe nothing, with one exception: an HTTP
client that has not stalled reads the file of a closed muxer to its end. Nothing in the code
makes it, as `hls_server.go:100` sets no write timeout; therefore `HLSCloseCompletes`
has the assumption that no client stalls for good, and clients are free to stall. In `hls` several callers
compete for one `select`, which chooses at random among those that are ready:
strong fairness for those, weak fairness for the rest. `rtmp`: goroutines run;
a handshake, a read and a write end because the code sets deadlines on the
socket; requests on hold end because the path has a timer; a process that got
the signal ends. A frame is owed only in the sense that a read on a closed
socket or ring buffer fails. `hls_muxer`: the writer leaves the call it is in, and the HTTP server
reads a response on. `conf_watcher`: both goroutines run and time passes; the error
of a closed fsnotify watcher competes with queued events in one `select`, hence strong fairness.

## 4. Proofs

Every safety invariant and every action property that a run checks is also a
theorem, for every value of the constants that satisfies the assumptions named
below; so is the refinement of `PathLife` by `Path`. None of the properties is
inductive as it stands, so each module has an invariant of its own, which was checked
with TLC on the instances of section 3 as well.

`PathProofs` has two layers. The first, `IInv`, is the conjunction of `TypeOK`,
`HeldRequestsWait`, `OnDemandStateAgrees`, `SourceMatchesConf` and
`ReadyMatchesOwner`: that a request on hold has an armed timer needs the
agreement of timer and state, which needs to know who the source is, and so on.
`RefinesPathLife` follows from it. The second, `JInv`, rests on the first and is about the books
that the path keeps:

* `Neat`: the count of readers and the stream's own list are those of the
  readers that play, and only RTSP sessions can be registered while there is no
  stream; `Counted` says the same of the publisher;
* `Opened`, `Used`, `LastToldToLeave`: what is open on which kind of path, that
  somebody uses it, and that whoever is still registered while it is about to be closed was
  told to leave;
* `Told`, `Played`: a reader that the path has dropped was told so, also when
  the answer to its SETUP is still on the way; who plays or waits is in a state
  of its session in which it may;
* `OwnerReady`: the part of `ReadyMatchesOwner` that survives a stale SetReady;
* `PublisherFeedsStream` and `PanicsKnown` themselves.

It gives `CountsExact`, `ReadersFollowStream`, `PublisherFeedsStream`,
`OpenOnlyForReaders`, `PanicsKnown` and, for each step, `StreamNeverSwapped`. In
both layers each helper of `path.go` is treated once, by lemmas on the record it
gets and the one it returns, innermost first, in the order in which they call one another; the actions then cite the lemmas
of the handlers. Assumptions: the kinds of clients are disjoint and
finite where they are counted, and the configurations are those that
`checkAndFillMissing` accepts.

`PathManagerProofs` proves `NoOrphanPath`, `MappedPathsCurrent` and
`PlainPathsExist` (together `PathsMatchConf`), and `ReloadKeepsUnchanged` for any number of names,
expressions, paths and reloads. The invariant adds to them `TypeOK` and
`PlainPathsRun`: the path of a plain configuration that is in the map runs and is not
cancelled; without it the end of a path could empty the map for a plain
name. What `PlainPathsExist` says of a name with a configuration of its own holds outside `shadowed`;
the proof shows that a reload and a later request keep that set exact.

`HLSProofs` proves `NoOrphanRemuxer`, `WaitingIsHeld`, `HeldOnce` and `FilesHaveMuxer`
(together `HandlersAccounted`), and `EndedRemuxersDetached` for any number of paths, remuxer objects and requests,
from the only assumption that `None` is none of these. The invariant adds
`Mapped` (the map holds every remuxer that has not ended also while the server
is closing), `Phases` (the inner goroutine is over when the loop is, and its queue is empty; a remuxer
that is ready has a muxer and an empty queue; a reader that is still setting up
is not registered) and `Places` (who waits is at the server, in a queue or forsaken;
who reads does so from a remuxer that has not ended, or is remembered without one). `WaitingIsHeld` needs
`HeldOnce`: otherwise the answer to one request could leave another copy of it behind in a
queue. `FilesHaveMuxer` needs `Phases`, as a handler starts to read when the loop is
ready, and the muxer belongs to the inner goroutine.

`RTMPProofs` proves `NothingLeftBehind` and `WorkersAreListed` for any number of
connections. `ConnInv` says what a connection holds at the path, in the map, as
ring buffer, RTCP sender and process, by the places that `run` and `runInner` have
reached; a connection may be registered at the path only at the places from which
every way out goes through the deferred removal. Assumed: the other publisher
and `Nil` are no connections.

`RTSPProofs` proves `HandlersDontPanic`, `ClosedSessionsLeave` and
`SessionMatchesPath` for any number of sessions, kicks and paths that replace one
another, with refused logins, kicks and replacements in any combination. `OwnInv` describes a session that
no kick has found, by the place of its goroutine, the state of the library
and what the path did to it; `SessionInv` adds what holds of every session, also a kicked one;
`KickInv` says that a kick only works on a session it has marked, which is why the
absence of kicks excludes the panics other than that of `KeepsOldCmd`; `ViewInv` is about the path alone. A
command runs exactly while the session reads from a path that has runOnRead, which is what
tells the one exception from the rest. Assumed: the other source and `Nil`
are no sessions.

`CoreProofs` proves `ResourcesMatchConf`, `ReferencesAlive` and
`APIShowsCurrent`, and that a core which has ended has closed everything, for
any configurations, any number of reloads and of API requests. The invariant
follows `closeResources` and `createResources` position by position:
`CloseInv` (who points to a resource that goes, goes too, and what stays fits the
new configuration), `CreateInv` (what was kept fits, and what it points to is
there already), `LoopInv`, `RefsInv`, `MetricsInv` and `ShownInv`. The part of the argument that depends on
the code's lists of settings and pointers is a lemma on the tables `Reads` and `Refs`
and the two orders. Assumed: the configurations are typed, and `Nil` is neither a
configuration nor a resource.

`HLSMuxerProofs` proves `PlaylistIsServed` and `DecodingTimesGrow` for streams of any
length, any number of readers and every size of the playlist. `QueueInv`: the
playlist lists the youngest segments in order; `NamesInv`: each name stands for
a listed segment that has it, and each listed segment has its name unless another
took it. For the decoding times, `Phase` enumerates where in a group of frames
the estimator is and how far the last decoding time is behind what is to come; that it is
preserved by each arrival replaces an induction over the stream. `TimesAssumption`: what
the estimator counts in milliseconds before it knows better stays below the offset (4 ms against
the 2 s of the code), and a frame lasts more than 1.5 ms.

`ConfAPIProofs` proves `ReloadIsIdentity` and `ChangesOnlyWhatIsNamed` for every set of
files, names and bodies and any number of requests. The invariant says that the
configuration in effect is complete and accepted, and that
`CheckAndFillMissing`, given its own copy without what JSON does not carry, makes
the same configuration of it; that in turn rests on lemmas saying that filling is idempotent and that what is
derived depends on the options alone. `InputsAssumption`: files and bodies are
typed and name no derived option, as the options that are derived have no JSON or YAML name.

Only model-checked: everything temporal (`RequestsAnswered`, `CloseEnds`,
`DemandReleased`, `CallersReturn`, `CloseCompletes`, `CallersReleased`,
`IdleRemuxersEnd`, `HLSCloseCompletes`, `CancelledConnsEnd`, `ReadersReachTheEnd`,
`ChangesAreLoaded`, `CloseReturns`), because liveness under fairness is out of reach of
the prover. Both properties of `ConfWatcher` are of this kind, so it has no proofs.

## 5. Mutants

Each property has a mutant: an operator next to the definition it replaces
(`handleReaderPause_counted` for `handleReaderPause`), which makes the kind of mistake the property
is there to find. TLC finds the property violated under each.

## 6. Where the code and its documentation part

Two of these are runs of their own:

* `claim_kick`: a session that is kicked during its ANNOUNCE, when the path has taken it as its
  publisher and the state of the session has not changed yet, stays the publisher: `OnClose`
  sees the state Initial and removes nothing, and the library's `OnSessionClose` finds no session in the map
  (`rtsp_server.go:293-301`, `rtsp_server.go:409-415`, `rtsp_session.go:115-123`). A
  SETUP that is at the path during the kick leaves a reader behind in the same way;
* `claim_watch`: after an error of fsnotify the channel of the watcher is closed,
  and the core takes each receive from it for a change of the file
  (`confwatcher.go:101-106`, `core.go:136-150`).

These the models contain as well, as exceptions that the properties name, unless another place is given:

* SetReady does not say who calls. A source that was closed while it waited for
  the path makes the path ready again, and the next on demand close asserts a
  source that is nil (`path.go:350`, `path.go:513`; `pa.stale`);
* a path that is closed while a client publishes leaves the runOnPublish command
  running, which the configuration file says is terminated
  (`rtsp-simple-server.yml:217`, `path.go:411-457`);
* a SETUP that fails on a track that does not exist leaves the session
  registered, and the on demand source open for nobody
  (`rtsp-simple-server.yml:158`, `rtsp_session.go:225-231`; `badTrack`, and
  `GhostReader` in `DemandReleased`);
* a path created from `all` keeps its settings after a reload gave its name an
  entry of its own (`rtsp-simple-server.yml:123-124`, `path_manager.go:144-156`;
  `shadowed` in `PathsMatchConf`);
* with `hlsAlwaysRemux`, a source that comes back before the previous remuxer
  has ended is not remuxed (`rtsp-simple-server.yml:101`, `hls_server.go:107-110`; in
  the model, and no property speaks of it);
* changes of the configuration file "are detected and applied" according to the
  repository's `README.md:159`. The level of the logger is not compared by a
  reload and does not change (`logLevel` in `ResourcesMatchConf`), and events within
  `minInterval` of a reload are dropped, and with them the last write of a file, until
  the next change (`missed` in `ChangesAreLoaded`; a test of the watcher expects the drop);
* `newRTSPServer` does not store runOnConnect, so that the command never runs for
  RTSP clients although the configuration file describes it without such a
  restriction (`rtsp-simple-server.yml:36-41`; it is therefore not part of `RTSP`);
* the signal that ends a command is SIGQUIT on Unix, the configuration file says
  SIGINT (the model has one signal).

Other behaviour that the models contain, against which no document speaks:

* an announcement on a redirect path fails a type assertion (`path.go:694`);
* a runOnDemand path whose publisher came without being asked for closes a nil
  command (`path.go:517`);
* a reader that plays after its source was lost dereferences a nil stream
  (`path.go:788`); `PanicsKnown` says that these are all the panics;
* an on demand path with a static source accepts publishers while it is idle
  (`path.go:682`);
* `CountPublishers` is decremented twice on some runOnDemand paths and not at all
  when a path is closed while a client publishes (`path.go:615`, `path.go:446`);
* an HLS remuxer that is closed between the creation of its muxer and
  `remuxerReady` blocks for ever (`Deadlocked`), requests that wait for a remuxer that fails
  are never answered (`Forsaken`), and a client that stops reading in the middle of a file
  keeps its handler in `w.Write`, as there is no write timeout
  (`hls_server.go:100`); in each case closing the server does not return.
  `HLSCloseCompletes` says that these three are all that can hold it up, apart from a panic;
* while a reload replaces the logger, whoever logs dereferences a nil pointer;
* two changes through the API that overlap may lose one of them, although both
  are answered with success;
* the RTMP server leaves its pointer in the metrics server when it ends;
* an HLS server that a reload replaces does not remux, with `hlsAlwaysRemux`, the
  paths that are ready already;
* a request or a frame that arrives after a kick finds no session and
  dereferences nil, a pause or a second kick at the same time closes runOnRead
  twice, and two kicks change the map under a read lock (`rtsp_server.go:385-420`). Without any
  kick, a session that plays, pauses, and is set up and plays again on a path that has replaced
  its own and has no runOnRead keeps the closed command and closes it twice (`rtsp_session.go:260`;
  `KeepsOldCmd`). `HandlersDontPanic` says that nothing else leads to a panic;
* a kick holds the read lock while it waits for the process of runOnRead;
* a process that ignores the signal blocks the Close() of its command and with
  it the connection, the path and the server;
* two segments created in one second have one name: the first can't be fetched
  any more and its deletion takes away the second (`tsfile.go:29`);
* adding the path `all` through the API overwrites `~^.*$`; editing or
  removing `all` is always refused, as it was renamed when it was loaded; removing the last path brings `~^.*$` back.

## 7. Not modelled, and the plan

Not modelled: codecs, MPEG-TS and RTMP encodings (byte transformations without
state), the logger, the HTTP side of the metrics and pprof servers (they only
read), resource limits, the reading of YAML and of environment variables
(reflection over the options; a path without options in the file together
with an environment variable for it dereferences nil), the sending of RTCP
reports, frames and the protocols spoken with remote servers.

What remains are proofs, in this order:

1. that the operators of `PathView`, which `RTMP` and `RTSP` build on, are what the
   handlers of `Path` do to the fields that both have;
2. the safety halves of the temporal properties: that what waits always has an action that is
   able to release it, without which fairness would not help;
3. type correctness of `ConfWatcher`, and shorter proofs where two lemmas of
   `PathProofs` treat one helper in both layers.
