-------------------------------- MODULE Core --------------------------------
(***************************************************************************)
(* The core (core/core.go) and the configuration requests of the API       *)
(* (core/api.go): which resources exist, which settings they were created  *)
(* with, to which other resources they point, and how a reload, from the   *)
(* file or from the API, replaces some of them.                            *)
(*                                                                         *)
(* Settings that are passed to the same constructors and compared by the   *)
(* same conditions are one field.  An instance of a resource is a record   *)
(* of its settings and of the instances it points to; instances are told   *)
(* apart by the number of the reload that created them.                    *)
(***************************************************************************)
EXTENDS Naturals, Sequences

CONSTANTS
    Values,      \* values of a field; Off disables what can be disabled
    Off,
    FileConfs,   \* contents that the configuration file may have
    FirstConfs,  \* its contents when the server starts
    Changes,     \* pairs <<field, value>> that clients of the API ask for
    Clients,     \* configuration requests being served at the same time (bound)
    MaxReloads,  \* number of reloads (bound)
    Nil

Fields == {"logLevel", "log", "metrics", "pprof", "common", "readBufferSize", "paths",
           "encryption", "clients", "rtsp", "rtsps", "runOnConnect", "rtmp", "hls", "api"}

Resources == {"logger", "metrics", "pprof", "pathManager", "rtspServer", "rtspsServer",
              "rtmpServer", "hlsServer", "api"}

ConfType == [Fields -> Values]

ASSUME ConfAssumption ==
    /\ FileConfs \subseteq ConfType /\ FirstConfs \subseteq FileConfs
    /\ Changes \subseteq Fields \X Values
    /\ Nil \notin ConfType \cup Nat
    /\ {Off, "no", "strict", "optional"} \subseteq Values
    /\ MaxReloads \in Nat

VARIABLES
    conf,     \* p.conf
    newConf,  \* the configuration that is being applied, Nil when closing
    stage,    \* "create", "loop", "close" or "done"
    pos,      \* position in the order of creation or of closing
    closing,  \* the resources that closeResources will close
    inst,     \* the resources
    reloads,  \* number of reloads
    mset,     \* the pointers of the metrics server
    apiConf,  \* a.conf
    clone,    \* the copy of a.conf that each client's request works on
    pending,  \* the configuration that a goroutine of the API wants to set
    ctxDone,  \* p.ctx is cancelled
    crashed   \* the process has panicked

vars == <<conf, newConf, stage, pos, closing, inst, reloads, mset, apiConf, clone, pending,
          ctxDone, crashed>>

coreVars == <<conf, newConf, stage, pos, closing, inst, reloads, mset>>

(***************************************************************************)
(* What the resources are made of                                          *)
(***************************************************************************)
CreateOrder == <<"logger", "metrics", "pprof", "pathManager", "rtspServer", "rtspsServer",
                 "rtmpServer", "hlsServer", "api">>

CloseOrder == <<"api", "rtspsServer", "rtspServer", "pathManager", "hlsServer", "rtmpServer",
                "pprof", "metrics", "logger">>

\* The settings that the constructors get.
Reads == [logger |-> {"logLevel", "log"}, metrics |-> {"metrics"}, pprof |-> {"pprof"},
          pathManager |-> {"common", "readBufferSize", "paths"},
          rtspServer |-> {"common", "readBufferSize", "encryption", "clients", "rtsp", "runOnConnect"},
          rtspsServer |-> {"common", "readBufferSize", "encryption", "clients", "rtsps", "runOnConnect"},
          rtmpServer |-> {"common", "rtmp", "runOnConnect"},
          hlsServer |-> {"common", "hls"},
          api |-> {"api"}]

\* The resources that the constructors get.
Refs == [r \in Resources |->
            CASE r \in {"logger", "metrics", "pprof"} -> {}
              [] r = "pathManager" -> {"metrics"}
              [] r \in {"rtspServer", "rtspsServer", "rtmpServer"} -> {"metrics", "pathManager"}
              [] r = "hlsServer" -> {"pathManager"}
              [] r = "api" -> {"pathManager", "rtspServer", "rtspsServer", "rtmpServer"}]

\* The resources that report themselves to the metrics server.
Measured == {"pathManager", "rtspServer", "rtspsServer", "rtmpServer"}

enabled(r, c) ==
    CASE r \in {"logger", "pathManager"} -> TRUE
      [] r = "rtspServer" -> c["encryption"] \in {"no", "optional"}
      [] r = "rtspsServer" -> c["encryption"] \in {"strict", "optional"}
      [] r = "rtmpServer" -> c["rtmp"] # Off
      [] r = "hlsServer" -> c["hls"] # Off
      [] r \in {"metrics", "pprof", "api"} -> c[r] # Off

\* An instance of r, told from the others by its number.
InstanceType(r) == [id: Nat, made: [Reads[r] -> Values], refs: [Refs[r] -> Nat \cup {Nil}]]

ASSUME InstanceAssumption == \A r \in Resources : Nil \notin InstanceType(r)

Exists(r) == inst[r] # Nil
pointer(r) == IF Exists(r) THEN inst[r].id ELSE Nil

create(r) == [id |-> reloads,
              made |-> [f \in Reads[r] |-> conf[f]],
              refs |-> [d \in Refs[r] |-> pointer(d)]]

(***************************************************************************)
(* Which resources a new configuration closes                              *)
(***************************************************************************)
differs(new, fs) == \E f \in fs : new[f] # conf[f]

closeMetrics(new) == differs(new, {"metrics"})

\* Mutant: the path manager keeps a metrics server that is closed.
closePathManager_keep(new) == differs(new, {"common", "readBufferSize"})

closePathManager(new) == differs(new, {"common", "readBufferSize"}) \/ closeMetrics(new)

closeRTSPServer(new) ==
    \/ differs(new, {"encryption", "common", "clients", "rtsp", "runOnConnect"})
    \/ closeMetrics(new) \/ closePathManager(new)

closeRTSPSServer(new) ==
    \/ differs(new, {"encryption", "common", "clients", "rtsps", "runOnConnect"})
    \/ closeMetrics(new) \/ closePathManager(new)

\* Mutant: runOnConnect is not compared.
closeRTMPServer_fewer(new) ==
    \/ differs(new, {"rtmp", "common"})
    \/ closeMetrics(new) \/ closePathManager(new)

closeRTMPServer(new) ==
    \/ differs(new, {"rtmp", "common", "runOnConnect"})
    \/ closeMetrics(new) \/ closePathManager(new)

closeHLSServer(new) == differs(new, {"hls", "common"}) \/ closePathManager(new)

closeAPI(new) ==
    \/ differs(new, {"api"}) \/ closePathManager(new)
    \/ closeRTSPServer(new) \/ closeRTSPSServer(new) \/ closeRTMPServer(new)

toClose(new) ==
    {r \in Resources :
        CASE r = "logger" -> differs(new, {"log"})
          [] r = "metrics" -> closeMetrics(new)
          [] r = "pprof" -> differs(new, {"pprof"})
          [] r = "pathManager" -> closePathManager(new)
          [] r = "rtspServer" -> closeRTSPServer(new)
          [] r = "rtspsServer" -> closeRTSPSServer(new)
          [] r = "rtmpServer" -> closeRTMPServer(new)
          [] r = "hlsServer" -> closeHLSServer(new)
          [] r = "api" -> closeAPI(new)}

\* New(): the configuration is loaded and the resources are about to be created.
Init ==
    /\ conf \in FirstConfs
    /\ newConf = Nil
    /\ stage = "create" /\ pos = 1
    /\ closing = {}
    /\ inst = [r \in Resources |-> Nil]
    /\ reloads = 0
    /\ mset = [r \in Measured |-> Nil]
    /\ apiConf = conf
    /\ clone = [k \in Clients |-> Nil] /\ pending = [k \in Clients |-> Nil]
    /\ ctxDone = FALSE
    /\ crashed = FALSE

(***************************************************************************)
(* closeResources and createResources                                      *)
(***************************************************************************)
\* The path manager takes the new paths, unless it will be closed.
onConfReload(new) ==
    IF "pathManager" \notin toClose(new)
    THEN [inst EXCEPT !["pathManager"].made["paths"] = new["paths"]] ELSE inst

StartReload(new) ==
    /\ newConf' = new
    /\ closing' = toClose(new)
    /\ inst' = onConfReload(new)
    /\ stage' = "close" /\ pos' = 1
    /\ UNCHANGED <<conf, reloads, mset>>

\* closeResources(nil).
StartExit ==
    /\ newConf' = Nil
    /\ closing' = Resources
    /\ stage' = "close" /\ pos' = 1
    /\ ctxDone' = TRUE
    /\ UNCHANGED <<conf, inst, reloads, mset>>

Handling == {k \in Clients : clone[k] # Nil}

\* Mutant: the API is not told.
apiAfterClose_stale(r) == apiConf

\* An API that is not closed gets the new configuration.
apiAfterClose(r) ==
    IF r = "api" /\ Exists("api") /\ "api" \notin closing THEN newConf ELSE apiConf

\* One resource after the other.  The API and its handlers end together; the
\* RTMP server is the one that leaves its pointer in the metrics server.
CloseStep ==
    /\ stage = "close" /\ pos <= Len(CloseOrder)
    /\ LET r == CloseOrder[pos]
           end == r \in closing /\ Exists(r)
       IN /\ r = "api" /\ end => Handling = {}
          /\ inst' = IF end THEN [inst EXCEPT ![r] = Nil] ELSE inst
          /\ mset' = IF end /\ r \in Measured \ {"rtmpServer"} /\ inst[r].refs["metrics"] # Nil
                     THEN [mset EXCEPT ![r] = Nil] ELSE mset
          /\ apiConf' = apiAfterClose(r)
    /\ pos' = pos + 1
    /\ UNCHANGED <<conf, newConf, stage, closing, reloads, clone, pending, ctxDone, crashed>>

CloseEnd ==
    /\ stage = "close" /\ pos > Len(CloseOrder)
    /\ \/ /\ newConf # Nil
          /\ conf' = newConf
          /\ stage' = "create" /\ pos' = 1
          /\ reloads' = reloads + 1
       \/ /\ newConf = Nil
          /\ stage' = "done"
          /\ UNCHANGED <<conf, pos, reloads>>
    /\ UNCHANGED <<newConf, closing, inst, mset, apiConf, clone, pending, ctxDone, crashed>>

\* A new metrics server knows nobody yet.
metricsAfterCreate(r) ==
    IF r = "metrics" THEN [m \in Measured |-> Nil]
    ELSE IF r \in Measured /\ Exists("metrics") THEN [mset EXCEPT ![r] = reloads] ELSE mset

CreateStep ==
    /\ stage = "create" /\ pos <= Len(CreateOrder)
    /\ LET r == CreateOrder[pos]
           new == enabled(r, conf) /\ ~Exists(r)
       IN /\ inst' = IF new THEN [inst EXCEPT ![r] = create(r)] ELSE inst
          /\ mset' = IF new THEN metricsAfterCreate(r) ELSE mset
          /\ apiConf' = IF new /\ r = "api" THEN conf ELSE apiConf
    /\ pos' = pos + 1
    /\ UNCHANGED <<conf, newConf, stage, closing, reloads, clone, pending, ctxDone, crashed>>

\* A file or a listener can't be opened.  The error is logged, which panics
\* when there is no logger.
CreateFails ==
    /\ stage = "create" /\ pos <= Len(CreateOrder)
    /\ CreateOrder[pos] # "pathManager"
    /\ enabled(CreateOrder[pos], conf) /\ ~Exists(CreateOrder[pos])
    /\ crashed' = ~Exists("logger")
    /\ StartExit
    /\ UNCHANGED <<apiConf, clone, pending>>

CreateEnd ==
    /\ stage = "create" /\ pos > Len(CreateOrder)
    /\ stage' = "loop"
    /\ UNCHANGED <<conf, newConf, pos, closing, inst, reloads, mset, apiConf, clone, pending,
                   ctxDone, crashed>>

(***************************************************************************)
(* run()                                                                   *)
(***************************************************************************)
FileChanged ==
    /\ stage = "loop" /\ reloads < MaxReloads
    /\ \E c \in FileConfs : StartReload(c)
    /\ UNCHANGED <<apiConf, clone, pending, ctxDone, crashed>>

FileInvalid ==
    /\ stage = "loop"
    /\ StartExit
    /\ UNCHANGED <<apiConf, clone, pending, crashed>>

APIConfigSet(k) ==
    /\ stage = "loop" /\ pending[k] # Nil
    /\ StartReload(pending[k])
    /\ pending' = [pending EXCEPT ![k] = Nil]
    /\ UNCHANGED <<apiConf, clone, ctxDone, crashed>>

\* OnAPIConfigSet gives up.
APIConfigSetTerminated(k) ==
    /\ ctxDone /\ pending[k] # Nil
    /\ pending' = [pending EXCEPT ![k] = Nil]
    /\ UNCHANGED <<coreVars, apiConf, clone, ctxDone, crashed>>

CtxDoneSeen ==
    /\ stage = "loop" /\ ctxDone
    /\ StartExit
    /\ UNCHANGED <<apiConf, clone, pending, crashed>>

\* Core.close().
Close ==
    /\ ~ctxDone
    /\ ctxDone' = TRUE
    /\ UNCHANGED <<coreVars, apiConf, clone, pending, crashed>>

\* A goroutine of a resource calls Core.Log while there is no logger.
LogWithoutLogger ==
    /\ ~Exists("logger") /\ \E r \in Resources : Exists(r)
    /\ crashed' = TRUE
    /\ UNCHANGED <<coreVars, apiConf, clone, pending, ctxDone>>

(***************************************************************************)
(* The API: onConfigSet, onConfigPathsAdd, onConfigPathsEdit and           *)
(* onConfigPathsDelete clone the configuration, change the clone and store *)
(* it, each under the mutex, and leave its delivery to a goroutine.        *)
(***************************************************************************)
ConfigClone(k) ==
    /\ Exists("api") /\ clone[k] = Nil /\ pending[k] = Nil
    /\ reloads < MaxReloads
    /\ clone' = [clone EXCEPT ![k] = apiConf]
    /\ UNCHANGED <<coreVars, apiConf, pending, ctxDone, crashed>>

ConfigStore(k) ==
    /\ clone[k] # Nil
    /\ \E ch \in Changes :
        LET c == [clone[k] EXCEPT ![ch[1]] = ch[2]]
        IN /\ apiConf' = c
           /\ pending' = [pending EXCEPT ![k] = c]
    /\ clone' = [clone EXCEPT ![k] = Nil]
    /\ UNCHANGED <<coreVars, ctxDone, crashed>>

\* CheckAndFillMissing refuses the change.
ConfigRefused(k) ==
    /\ clone[k] # Nil
    /\ clone' = [clone EXCEPT ![k] = Nil]
    /\ UNCHANGED <<coreVars, apiConf, pending, ctxDone, crashed>>

Step ==
    \/ CloseStep \/ CloseEnd \/ CreateStep \/ CreateFails \/ CreateEnd
    \/ FileChanged \/ FileInvalid \/ CtxDoneSeen \/ Close \/ LogWithoutLogger
    \/ \E k \in Clients : \/ APIConfigSet(k) \/ APIConfigSetTerminated(k)
                          \/ ConfigClone(k) \/ ConfigStore(k) \/ ConfigRefused(k)

\* The process has ended.
Terminated ==
    /\ crashed \/ stage = "done"
    /\ UNCHANGED vars

\* Nothing happens after a panic.
Next == (~crashed /\ Step) \/ Terminated

Spec == Init /\ [][Next]_vars

(***************************************************************************)
(* Safety                                                                  *)
(***************************************************************************)
\* Types of the state.
TypeOK ==
    /\ conf \in ConfType /\ apiConf \in ConfType
    /\ newConf \in ConfType \cup {Nil}
    /\ stage \in {"create", "loop", "close", "done"}
    /\ pos \in 1 .. 10
    /\ closing \subseteq Resources
    /\ inst = [r \in Resources |-> inst[r]]
    /\ \A r \in Resources : Exists(r) => inst[r] \in InstanceType(r)
    /\ reloads \in Nat
    /\ mset \in [Measured -> Nat \cup {Nil}]
    /\ clone \in [Clients -> ConfType \cup {Nil}]
    /\ pending \in [Clients -> ConfType \cup {Nil}]
    /\ ctxDone \in BOOLEAN /\ crashed \in BOOLEAN

\* Between two reloads exactly the resources that the configuration asks for
\* exist, and each was created with the settings that are valid now, whatever
\* the sequence of reloads and whichever resources they spared.  The level of
\* the logger is the exception: it is not compared.
ResourcesMatchConf ==
    stage = "loop" => \A r \in Resources :
        /\ Exists(r) <=> enabled(r, conf)
        /\ Exists(r) => \A f \in Reads[r] \ {"logLevel"} : inst[r].made[f] = conf[f]

\* Nothing points to a resource that was closed or replaced.  During a reload
\* the HLS and RTMP servers outlive the path manager, which answers
\* "terminated"; the metrics server, told by the others of their coming and
\* going, keeps the last RTMP server when RTMP is disabled.
ReferencesAlive ==
    /\ \A r \in Resources : Exists(r) => \A d \in Refs[r] :
        \/ inst[r].refs[d] = pointer(d)
        \/ stage # "loop" /\ d = "pathManager" /\ r \in {"hlsServer", "rtmpServer"}
    /\ stage = "loop" /\ Exists("metrics") => \A r \in Measured :
        mset[r] = pointer(r) \/ (r = "rtmpServer" /\ ~Exists(r))

\* The API shows the current configuration, and bases the next change on it,
\* as soon as no accepted change is on its way.
APIShowsCurrent ==
    stage = "loop" /\ ~ctxDone /\ Exists("api") /\ (\A k \in Clients : pending[k] = Nil) => apiConf = conf

=============================================================================
