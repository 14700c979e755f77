------------------------------ MODULE ConfAPI -------------------------------
(***************************************************************************)
(* The configuration that the API keeps (core/api.go) through sequences of *)
(* requests that set options and add, edit and remove paths, and of        *)
(* reloads of the file.  The requests come one after the other: those that *)
(* overlap, and the delivery of the result to the core, are the subject of *)
(* module Core.                                                            *)
(***************************************************************************)
EXTENDS Conf, Naturals

CONSTANTS
    FileConfs,    \* contents that the file may have
    SetBodies,    \* bodies of config/set: functions from options to values
    PathBodies,   \* bodies of config/paths/add and edit
    MaxRequests   \* requests and reloads (bound)

VARIABLES
    conf,      \* a.conf
    last,      \* the last request and its status
    requests   \* how many there were

vars == <<conf, last, requests>>

\* conf.Load.
Load(c) == Accepted(c) /\ conf' = Filled(c)

Init ==
    /\ \E c \in FileConfs : Accepted(c) /\ conf = Filled(c)
    /\ last = [op |-> "none", name |-> "", body |-> <<>>, status |-> 200]
    /\ requests = 0

\* Mutant: the copy keeps what was derived from the original.
cloneStruct_deep(c) == c

\* A round trip through JSON, which has no derived values.
cloneStruct(c) == raw(c)

\* Mutant: the options that the body does not have are reset.
fillStruct_fresh(dest, in) ==
    [f \in DOMAIN dest |-> IF f \in DOMAIN in THEN in[f]
                           ELSE IF f \in DOMAIN Missing THEN Missing[f] ELSE dest[f]]

\* The options that the body has replace those of dest.
fillStruct(dest, in) ==
    [f \in DOMAIN dest |-> IF f \in DOMAIN in THEN in[f] ELSE dest[f]]

\* A file names no derived value, and neither can a body; config/set cannot
\* name the paths.
ASSUME InputsAssumption ==
    /\ \A c \in FileConfs : isConf(c) /\ raw(c) = c
    /\ \A in \in SetBodies : /\ isConf(fillStruct(Empty, in))
                             /\ DOMAIN in \cap (Derived \cup {"paths"}) = {}
    /\ \A in \in PathBodies : /\ fillStruct(Missing, in) \in PathType
                              /\ DOMAIN in \cap Derived = {}

\* The answer to a request that makes newConf of the clone, or is refused.
answer(op, name, body, refused, newConf) ==
    /\ requests < MaxRequests /\ requests' = requests + 1
    /\ \/ /\ ~refused /\ Accepted(newConf)
          /\ conf' = Filled(newConf)
          /\ last' = [op |-> op, name |-> name, body |-> body, status |-> 200]
       \/ /\ refused \/ ~Accepted(newConf)
          /\ last' = [op |-> op, name |-> name, body |-> body, status |-> 400]
          /\ UNCHANGED conf

\* The clone with another set of paths.
withPaths(paths) == [cloneStruct(conf) EXCEPT !.paths = paths]

onConfigSet(in) ==
    answer("set", "", in, FALSE, fillStruct(cloneStruct(conf), in))

onConfigPathsAdd(name, in) ==
    LET paths == cloneStruct(conf).paths IN
    answer("add", name, in, name \in DOMAIN paths,
           withPaths([n \in DOMAIN paths \cup {name} |->
                         IF n = name THEN fillStruct(Missing, in) ELSE paths[n]]))

onConfigPathsEdit(name, in) ==
    LET paths == cloneStruct(conf).paths IN
    answer("edit", name, in, name \notin DOMAIN paths,
           withPaths([n \in DOMAIN paths |->
                         IF n = name THEN fillStruct(paths[n], in) ELSE paths[n]]))

onConfigPathsDelete(name) ==
    LET paths == cloneStruct(conf).paths IN
    answer("remove", name, <<>>, name \notin DOMAIN paths,
           withPaths([n \in DOMAIN paths \ {name} |-> paths[n]]))

\* The core has loaded the file again.
OnConfReload(c) ==
    /\ requests < MaxRequests /\ requests' = requests + 1
    /\ Load(c)
    /\ last' = [op |-> "reload", name |-> "", body |-> <<>>, status |-> 200]

Next ==
    \/ \E in \in SetBodies : onConfigSet(in)
    \/ \E name \in PathNames : \/ \E in \in PathBodies : onConfigPathsAdd(name, in)
                               \/ \E in \in PathBodies : onConfigPathsEdit(name, in)
                               \/ onConfigPathsDelete(name)
    \/ \E c \in FileConfs : OnConfReload(c)
    \/ requests = MaxRequests /\ UNCHANGED vars  \* the bound is reached

Spec == Init /\ [][Next]_vars

-----------------------------------------------------------------------------
(* Properties. *)

\* Everything derived agrees with the options it derives from, and everything
\* that can be filled is: written to a file and loaded again, the configuration
\* is accepted and comes out the same.  This is what makes a request without
\* effect one that restarts nothing, and a refused edit of one path a matter of
\* that path only.
ReloadIsIdentity == Accepted(raw(conf)) /\ Filled(raw(conf)) = conf

\* After a request old has become new, with the options of the body only: the
\* others are derived, or it is the protocol that a path has now got a use for.
onlyBody(old, new, body) ==
    \A f \in DOMAIN old \ (DOMAIN body \cup Derived) :
        new[f] = old[f] \/ (f = "sourceProtocol" /\ old[f] = "")

\* What the request of the last step may have changed.
onlyNamed ==
    LET other == DOMAIN conf.paths \ {last'.name}
        emptied == last'.op = "remove" /\ other = {}
    IN  /\ last'.status = 400 => conf' = conf
        /\ last'.status = 200 /\ last'.op = "set" => onlyBody(conf, conf', last'.body)
        /\ last'.status = 200 /\ last'.op # "set" =>
              /\ [conf' EXCEPT !.paths = conf.paths] = conf
              /\ DOMAIN conf'.paths \ {last'.name} = other \/ last'.name = "all" \/ emptied
              /\ \A n \in other : (n = All /\ last'.name = "all")
                                  \/ conf'.paths[n] = conf.paths[n]
              /\ last'.op = "add" => last'.name \notin DOMAIN conf.paths
              /\ last'.op = "edit" =>
                    onlyBody(conf.paths[last'.name], conf'.paths[last'.name], last'.body)

\* A request changes what it names and nothing else: config/set no path, the
\* others no option and no path but theirs, an edit no option of the path that
\* its body does not have; an addition replaces no path of that name; a request
\* that is refused changes nothing.  Two exceptions: adding "all" replaces
\* "~^.*$", and the removal of the last path brings "~^.*$" back.
ChangesOnlyWhatIsNamed ==
    [][last'.op \in {"set", "add", "edit", "remove"} => onlyNamed]_vars

=============================================================================
