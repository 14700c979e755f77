---------------------------- MODULE PathManager ----------------------------
(***************************************************************************)
(* The path manager (core/path_manager.go): it owns the configurations and *)
(* the running paths, creates paths for the clients that ask for them and  *)
(* replaces paths when the configuration is reloaded.                      *)
(*                                                                         *)
(* A path is what PathLife promises: the manager sees it being created,    *)
(* cancelled and reporting that it has ended.  A configuration is an       *)
(* object: `val' is what PathConf.Equal compares, `gen' tells apart two    *)
(* objects with the same contents.  Go maps are total functions in which   *)
(* a missing key has the value NoConf or NoPath.                           *)
(***************************************************************************)
EXTENDS Naturals

CONSTANTS
    Names,       \* names of paths, which are also the keys of plain confs
    Regexps,     \* keys of the confs that are regular expressions
    Matches,     \* the pairs <<regexp, name>> that match
    Vals,        \* contents of configurations
    Restricted,  \* pairs <<val, kind>>: the conf asks for credentials
    Paths,       \* path objects alive at the same time (bound)
    Clients,     \* callers of OnDescribe, OnReaderSetupPlay, OnPublisherAnnounce
    MaxReloads,  \* reloads of the configuration (bound)
    NoConf,      \* nil *conf.PathConf
    NoPath       \* nil *path

Keys == Names \cup Regexps
Kinds == {"read", "publish"}
Confs == [val: Vals, gen: Nat]

ASSUME KeysAssumption ==
    /\ Names \cap Regexps = {}
    /\ Matches \subseteq Regexps \X Names
    /\ Restricted \subseteq Vals \X Kinds

ASSUME BoundsAssumption ==
    /\ NoPath \notin Paths
    /\ NoConf \notin Vals \cup Confs
    /\ MaxReloads \in Nat

VARIABLES
    pathConfs,  \* pm.pathConfs
    paths,      \* pm.paths
    path,       \* the path objects
    pmRun,      \* the manager's goroutine is in its loop
    pmDone,     \* pm.ctx is cancelled
    reloads,    \* number of reloads so far
    client,     \* the path that the manager has handed to each caller
    shadowed    \* history: names whose own configuration has not got a path
                \* yet, because that of a regular expression had the name

vars == <<pathConfs, paths, path, pmRun, pmDone, reloads, client, shadowed>>

(***************************************************************************)
(* Helpers of the manager                                                  *)
(***************************************************************************)
\* The keys that a name may be resolved to: the plain one if there is one,
\* else any regular expression that matches (Go iterates maps in any order).
findPathConf(n) ==
    IF pathConfs[n] # NoConf THEN {n}
    ELSE {k \in Regexps : pathConfs[k] # NoConf /\ <<k, n>> \in Matches}

\* Whether the client can be accepted, given the credentials it may have.
authenticate(c, kind) ==
    IF <<c.val, kind>> \in Restricted THEN BOOLEAN ELSE {TRUE}

Off == [name |-> "", confName |-> "", conf |-> NoConf, life |-> "off", cancelled |-> FALSE]

Ended == {"off", "gone"}

\* Objects that can be allocated: nobody holds a pointer to them.
Unused == {p \in Paths : /\ path[p].life \in Ended
                         /\ \A c \in Clients : client[c] # p
                         /\ \A n \in Names : paths[n] # p}

newPath(n, k, c) ==
    [name |-> n, confName |-> k, conf |-> c, life |-> "run", cancelled |-> FALSE]

\* The context of a path is a child of the manager's.
Cancelled(p) == path[p].cancelled \/ pmDone

\* One new path object for each name in ns.
Allocations(ns, free) ==
    {f \in [ns -> free] : \A m, n \in ns : f[m] = f[n] => m = n}

\* createPath for each n in the domain of ids, from the plain configuration.
createPaths(ps, confs, ns, ids) ==
    [p \in Paths |->
        IF \E n \in ns : ids[n] = p
        THEN LET n == CHOOSE m \in ns : ids[m] = p IN newPath(n, n, confs[n])
        ELSE ps[p]]

mapPaths(m, ns, ids) == [n \in Names |-> IF n \in ns THEN ids[n] ELSE m[n]]

\* newPathManager.
Init ==
    /\ pathConfs \in [Keys -> [val: Vals, gen: {0}] \cup {NoConf}]
    /\ LET plain == {n \in Names : pathConfs[n] # NoConf}
       IN \E ids \in Allocations(plain, Paths) :
            /\ path = createPaths([p \in Paths |-> Off], pathConfs, plain, ids)
            /\ paths = mapPaths([n \in Names |-> NoPath], plain, ids)
    /\ pmRun = TRUE
    /\ pmDone = FALSE
    /\ reloads = 0
    /\ client = [c \in Clients |-> NoPath]
    /\ shadowed = {}

(***************************************************************************)
(* The manager's goroutine                                                 *)
(***************************************************************************)
\* Mutant: every configuration object is replaced.
updatedConfs_all(new) ==
    [k \in Keys |-> IF new[k] = NoConf THEN NoConf ELSE [val |-> new[k], gen |-> reloads + 1]]

\* Removes, updates and adds configurations; one whose contents have not
\* changed keeps its object.
updatedConfs(new) ==
    [k \in Keys |->
        CASE new[k] = NoConf -> NoConf
          [] new[k] # NoConf /\ pathConfs[k] # NoConf /\ pathConfs[k].val = new[k] -> pathConfs[k]
          [] OTHER -> [val |-> new[k], gen |-> reloads + 1]]

\* Mutant: only paths whose configuration is gone are removed.
obsolete_goneOnly(confs) ==
    {n \in Names : paths[n] # NoPath /\ confs[path[paths[n]].confName] = NoConf}

\* Names of the paths whose configuration is gone or is another object.
obsolete(confs) ==
    {n \in Names : paths[n] # NoPath /\ confs[path[paths[n]].confName] # path[paths[n]].conf}

\* Names of the plain configurations that have no path.
missing(confs, kept) == {n \in Names : confs[n] # NoConf /\ kept[n] = NoPath}

ConfReload ==
    /\ pmRun /\ reloads < MaxReloads
    /\ \E new \in [Keys -> Vals \cup {NoConf}] :
        LET confs == updatedConfs(new)
            old == obsolete(confs)
            kept == [n \in Names |-> IF n \in old THEN NoPath ELSE paths[n]]
            closed == [p \in Paths |->
                        IF \E n \in old : paths[n] = p
                        THEN [path[p] EXCEPT !.cancelled = TRUE] ELSE path[p]]
            added == missing(confs, kept)
        IN \E ids \in Allocations(added, Unused) :
            /\ pathConfs' = confs
            /\ path' = createPaths(closed, confs, added, ids)
            /\ paths' = mapPaths(kept, added, ids)
            /\ shadowed' = {n \in Names : confs[n] # NoConf /\ kept[n] # NoPath
                                           /\ path[kept[n]].confName # n}
    /\ reloads' = reloads + 1
    /\ UNCHANGED <<pmRun, pmDone, client>>

\* Mutant: the notification of an old path removes the new one.
isMapped_byName(p) == paths[path[p].name] # NoPath

\* The path that reports its end is still the one of that name.
isMapped(p) == paths[path[p].name] = p

\* OnPathClose, the last thing a path does; its goroutine is gone afterwards.
PathClose(p) ==
    /\ pmRun /\ path[p].life = "leaving" /\ Cancelled(p)
    /\ paths' = IF isMapped(p) THEN [paths EXCEPT ![path[p].name] = NoPath] ELSE paths
    /\ path' = [path EXCEPT ![p].life = "gone", ![p].cancelled = TRUE]
    /\ UNCHANGED <<pathConfs, pmRun, pmDone, reloads, client, shadowed>>

PathCloseTerminated(p) ==
    /\ path[p].life = "leaving" /\ pmDone
    /\ UNCHANGED <<pathConfs, paths, pmRun, pmDone, reloads, client, shadowed>>
    /\ path' = [path EXCEPT ![p].life = "gone", ![p].cancelled = TRUE]

isMissing(n) == paths[n] = NoPath

\* The cases describe, readerSetupPlay and publisherAnnounce.  A request that
\* finds no configuration or is not authenticated changes nothing.
Request(c, n, kind) ==
    /\ pmRun /\ client[c] = NoPath
    /\ \E k \in findPathConf(n) :
        /\ TRUE \in authenticate(pathConfs[k], kind)
        /\ \/ /\ ~isMissing(n)
              /\ client' = [client EXCEPT ![c] = paths[n]]
              /\ UNCHANGED <<path, paths, shadowed>>
           \/ /\ isMissing(n)
              /\ \E p \in Unused :
                    /\ path' = [path EXCEPT ![p] = newPath(n, k, pathConfs[k])]
                    /\ paths' = [paths EXCEPT ![n] = p]
                    /\ client' = [client EXCEPT ![c] = p]
              /\ shadowed' = shadowed \ {n}
    /\ UNCHANGED <<pathConfs, pmRun, pmDone, reloads>>

\* pathManager.close().
Close ==
    /\ pmRun /\ ~pmDone
    /\ pmDone' = TRUE
    /\ UNCHANGED <<pathConfs, paths, path, pmRun, reloads, client, shadowed>>

CtxDoneSeen ==
    /\ pmRun /\ pmDone
    /\ pmRun' = FALSE
    /\ UNCHANGED <<pathConfs, paths, path, pmDone, reloads, client, shadowed>>

(***************************************************************************)
(* Paths, as PathLife describes them                                       *)
(***************************************************************************)
\* Mutant: a path does not look at its context.
PathLeave_regexpOnly(p) ==
    /\ path[p].life = "run"
    /\ path[p].confName \in Regexps
    /\ path' = [path EXCEPT ![p].life = "leaving"]
    /\ UNCHANGED <<pathConfs, paths, pmRun, pmDone, reloads, client, shadowed>>

PathLeave(p) ==
    /\ path[p].life = "run"
    /\ Cancelled(p) \/ path[p].confName \in Regexps
    /\ path' = [path EXCEPT ![p].life = "leaving"]
    /\ UNCHANGED <<pathConfs, paths, pmRun, pmDone, reloads, client, shadowed>>

\* Mutant: a path that leaves does not cancel its context.
PathRelease_open(p) ==
    /\ path[p].life = "leaving" /\ pmDone
    /\ path' = [path EXCEPT ![p].cancelled = TRUE]
    /\ UNCHANGED <<pathConfs, paths, pmRun, pmDone, reloads, client, shadowed>>

PathRelease(p) ==
    /\ path[p].life = "leaving" /\ ~path[p].cancelled
    /\ path' = [path EXCEPT ![p].cancelled = TRUE]
    /\ UNCHANGED <<pathConfs, paths, pmRun, pmDone, reloads, client, shadowed>>

(***************************************************************************)
(* Clients: the second half of OnDescribe, OnReaderSetupPlay and           *)
(* OnPublisherAnnounce calls the path that the first half has returned.    *)
(***************************************************************************)
CallPath(c) ==
    /\ client[c] # NoPath /\ path[client[c]].life = "run"
    /\ client' = [client EXCEPT ![c] = NoPath]
    /\ UNCHANGED <<pathConfs, paths, path, pmRun, pmDone, reloads, shadowed>>

CallPathTerminated(c) ==
    /\ client[c] # NoPath /\ Cancelled(client[c])
    /\ client' = [client EXCEPT ![c] = NoPath]
    /\ UNCHANGED <<pathConfs, paths, path, pmRun, pmDone, reloads, shadowed>>

\* pathManager.close() has returned.
Closed ==
    /\ ~pmRun /\ \A p \in Paths : path[p].life \in Ended
    /\ UNCHANGED vars

Next ==
    \/ ConfReload \/ Close \/ CtxDoneSeen \/ Closed
    \/ \E p \in Paths : PathClose(p) \/ PathCloseTerminated(p) \/ PathLeave(p) \/ PathRelease(p)
    \/ \E c \in Clients : CallPath(c) \/ CallPathTerminated(c)
    \/ \E c \in Clients, n \in Names, kind \in Kinds : Request(c, n, kind)

Spec == Init /\ [][Next]_vars

(***************************************************************************)
(* Safety                                                                  *)
(***************************************************************************)
PathType == [name: Names, confName: Keys, conf: Confs,
             life: {"run", "leaving", "gone"}, cancelled: BOOLEAN]

\* Types of the state.
TypeOK ==
    /\ pathConfs \in [Keys -> Confs \cup {NoConf}]
    /\ paths \in [Names -> Paths \cup {NoPath}]
    /\ \A p \in Paths : path[p] = Off \/ path[p] \in PathType
    /\ DOMAIN path = Paths
    /\ pmRun \in BOOLEAN /\ pmDone \in BOOLEAN
    /\ reloads \in 0 .. MaxReloads
    /\ client \in [Clients -> Paths \cup {NoPath}]
    /\ shadowed \subseteq Names

\* A path that serves clients can be found: as long as it runs and was not told
\* to close it is the path of its name, so no reload or late notification
\* leaves a path, its source and its readers behind.
NoOrphanPath ==
    \A p \in Paths : path[p].life = "run" /\ ~path[p].cancelled => paths[path[p].name] = p

\* A path that new clients are sent to has not ended and runs with the
\* configuration object that the manager holds now under the key the path was
\* created from, which is its name or an expression that matches the name.
MappedPathsCurrent ==
    \A n \in Names : paths[n] # NoPath =>
        /\ path[paths[n]].name = n
        /\ path[paths[n]].life # "off"
        /\ path[paths[n]].life = "gone" => pmDone
        /\ pathConfs[path[paths[n]].confName] = path[paths[n]].conf
        /\ path[paths[n]].confName = n \/ <<path[paths[n]].confName, n>> \in Matches

\* A name with a configuration of its own has a path, and one made from that
\* configuration, whose source and commands depend on it.  The exception are
\* names in shadowed: when a reload brought the configuration, a path of a
\* regular expression was there, which goes on with its old settings
\* (path_manager.go:144-156) until it ends, and after that there is no path
\* until a client asks for it or the next reload comes.
PlainPathsExist ==
    ~pmDone => \A n \in Names : pathConfs[n] # NoConf =>
        \/ paths[n] # NoPath /\ path[paths[n]].confName = n
        \/ n \in shadowed

\* The paths follow the configuration through every sequence of reloads, ends
\* and requests, but for one case: clients are sent to paths whose settings are
\* the current ones of the key they were created from (MappedPathsCurrent), and
\* that key is the name itself if the name has a configuration of its own,
\* unless that came while a path of a regular expression had the name
\* (PlainPathsExist).
PathsMatchConf == MappedPathsCurrent /\ PlainPathsExist

\* A reload closes only paths whose configuration is gone or has changed.
ReloadKeepsUnchanged ==
    [][\A p \in Paths :
        /\ path[p].life = "run" /\ ~path[p].cancelled /\ path'[p].cancelled
        => \/ pathConfs'[path[p].confName] = NoConf
           \/ pathConfs'[path[p].confName].val # path[p].conf.val]_vars

(***************************************************************************)
(* Liveness: the goroutines of the manager and of the paths keep going, and*)
(* callers that were handed a path call it.                                *)
(***************************************************************************)
PathFairness(p) ==
    /\ WF_vars(PathRelease(p))
    /\ WF_vars(PathClose(p) \/ PathCloseTerminated(p))
    /\ WF_vars(Cancelled(p) /\ PathLeave(p))

FairSpec ==
    /\ Spec
    /\ WF_vars(CtxDoneSeen)
    /\ \A p \in Paths : PathFairness(p)
    /\ \A c \in Clients : WF_vars(CallPath(c) \/ CallPathTerminated(c))

\* A caller that was handed a path which ends before it is called still
\* returns.
CallersReturn == \A c \in Clients : client[c] # NoPath ~> client[c] = NoPath

\* close() returns: the manager and every path, also the ones that a reload
\* had already taken out of the map, end.
CloseCompletes == pmDone ~> ~pmRun /\ \A p \in Paths : path[p].life \in Ended

=============================================================================
