----------------------------- MODULE CoreProofs -----------------------------
(***************************************************************************)
(* Proofs of the safety of the core: whatever the configurations are, and  *)
(* for any number of reloads and of API requests.                          *)
(***************************************************************************)
EXTENDS Core, TLAPS

\* A resource, if it exists, is what configuration c asks for.
Fits(r, c) ==
    Exists(r) => /\ enabled(r, c)
                 /\ \A f \in Reads[r] \ {"logLevel"} : inst[r].made[f] = c[f]

\* It exists if configuration c asks for it.
Complete(r, c) == enabled(r, c) => Exists(r)

LoopInv == stage = "loop" => \A r \in Resources : Fits(r, conf) /\ Complete(r, conf)

\* While the resources are created: what is left of the previous configuration
\* fits the new one, and so does what it points to.
CreateInv ==
    stage = "create" =>
        /\ \A r \in Resources : Fits(r, conf)
        /\ \A i \in 1 .. 9 : i < pos => Complete(CreateOrder[i], conf)
        /\ \A r \in Resources : Exists(r) => \A d \in Refs[r] : Complete(d, conf)

\* While they are closed: who points to a resource that goes, goes too.
CloseInv ==
    stage = "close" =>
        /\ \A r \in Resources : \A d \in Refs[r] : d \in closing => r \in closing
        /\ \A i \in 1 .. 9 : i < pos /\ CloseOrder[i] \in closing => ~Exists(CloseOrder[i])
        /\ newConf = Nil => closing = Resources /\ ctxDone
        /\ newConf # Nil => \A r \in Resources \ closing : Fits(r, newConf) /\ Complete(r, newConf)

\* Pointers are those of living instances, but for servers that are about to be
\* closed after the path manager.
RefsInv ==
    \A r \in Resources : Exists(r) => \A d \in Refs[r] :
        \/ inst[r].refs[d] = pointer(d)
        \/ stage = "close" /\ d = "pathManager" /\ r \in {"hlsServer", "rtmpServer"} /\ r \in closing

MetricsInv ==
    Exists("metrics") => \A r \in Measured :
        mset[r] = pointer(r) \/ (r = "rtmpServer" /\ ~Exists(r))

\* What the API shows, as soon as closeResources has told it.
ShownInv ==
    ~ctxDone /\ Exists("api") /\ (\A k \in Clients : pending[k] = Nil) =>
        /\ stage \in {"create", "loop"} => apiConf = conf
        /\ stage = "close" /\ pos > 1 => apiConf = newConf

\* When the core has ended no resource is left.
AllClosed == stage = "done" => \A r \in Resources : ~Exists(r)

Inv == /\ TypeOK /\ LoopInv /\ CreateInv /\ CloseInv
       /\ RefsInv /\ MetricsInv /\ ShownInv /\ AllClosed

-----------------------------------------------------------------------------
\* The tables of the core: what depends on what, and in which order resources
\* are created and closed.
LEMMA RefsTable ==
    /\ Refs["logger"] = {} /\ Refs["metrics"] = {} /\ Refs["pprof"] = {}
    /\ Refs["pathManager"] = {"metrics"}
    /\ Refs["rtspServer"] = {"metrics", "pathManager"}
    /\ Refs["rtspsServer"] = {"metrics", "pathManager"}
    /\ Refs["rtmpServer"] = {"metrics", "pathManager"}
    /\ Refs["hlsServer"] = {"pathManager"}
    /\ Refs["api"] = {"pathManager", "rtspServer", "rtspsServer", "rtmpServer"}
    /\ \A r \in Resources : Refs[r] \subseteq Resources \ {"api", "logger", "hlsServer"}
    /\ \A r \in Measured : "metrics" \in Refs[r]
  BY DEF Refs, Resources, Measured

LEMMA CreateTable ==
    /\ Len(CreateOrder) = 9
    /\ CreateOrder[1] = "logger" /\ CreateOrder[2] = "metrics" /\ CreateOrder[3] = "pprof"
    /\ CreateOrder[4] = "pathManager" /\ CreateOrder[5] = "rtspServer"
    /\ CreateOrder[6] = "rtspsServer" /\ CreateOrder[7] = "rtmpServer"
    /\ CreateOrder[8] = "hlsServer" /\ CreateOrder[9] = "api"
  BY DEF CreateOrder

LEMMA CloseTable ==
    /\ Len(CloseOrder) = 9
    /\ CloseOrder[1] = "api" /\ CloseOrder[2] = "rtspsServer" /\ CloseOrder[3] = "rtspServer"
    /\ CloseOrder[4] = "pathManager" /\ CloseOrder[5] = "hlsServer"
    /\ CloseOrder[6] = "rtmpServer" /\ CloseOrder[7] = "pprof"
    /\ CloseOrder[8] = "metrics" /\ CloseOrder[9] = "logger"
  BY DEF CloseOrder

\* Every resource is created after the ones it points to, and once.
LEMMA CreateOrderFacts ==
    /\ \A i \in 1 .. 9 : CreateOrder[i] \in Resources
    /\ \A r \in Resources : \E i \in 1 .. 9 : CreateOrder[i] = r
    /\ \A i \in 1 .. 9 : \A d \in Refs[CreateOrder[i]] : \E j \in 1 .. 9 : j < i /\ CreateOrder[j] = d
<1>1. ASSUME NEW i \in 1 .. 9
      PROVE  /\ CreateOrder[i] \in Resources
             /\ \A d \in Refs[CreateOrder[i]] : \E j \in 1 .. 9 : j < i /\ CreateOrder[j] = d
  <2>1. \/ i = 1 \/ i = 2 \/ i = 3 \/ i = 4 \/ i = 5 \/ i = 6 \/ i = 7 \/ i = 8 \/ i = 9 OBVIOUS
  <2> QED BY <2>1, CreateTable, RefsTable DEF Resources
<1>2. ASSUME NEW r \in Resources PROVE \E i \in 1 .. 9 : CreateOrder[i] = r
  <2>1. \/ r = "logger" \/ r = "metrics" \/ r = "pprof" \/ r = "pathManager" \/ r = "rtspServer"
        \/ r = "rtspsServer" \/ r = "rtmpServer" \/ r = "hlsServer" \/ r = "api"
    BY DEF Resources
  <2> QED BY <2>1, CreateTable
<1> QED BY <1>1, <1>2

\* Every resource is closed once, and before the ones it points to, but for the
\* HLS and RTMP servers, which are closed after the path manager.
LEMMA CloseOrderFacts ==
    /\ \A i \in 1 .. 9 : CloseOrder[i] \in Resources
    /\ \A r \in Resources : \E i \in 1 .. 9 : CloseOrder[i] = r
    /\ \A i, j \in 1 .. 9 : CloseOrder[i] = CloseOrder[j] => i = j
    /\ \A i \in 1 .. 9 : \A r \in Resources : CloseOrder[i] \in Refs[r] =>
            \/ CloseOrder[i] = "pathManager" /\ r \in {"hlsServer", "rtmpServer"}
            \/ \E j \in 1 .. 9 : j < i /\ CloseOrder[j] = r
<1>0. ASSUME NEW i \in 1 .. 9
      PROVE  \/ i = 1 \/ i = 2 \/ i = 3 \/ i = 4 \/ i = 5 \/ i = 6 \/ i = 7 \/ i = 8 \/ i = 9
  OBVIOUS
<1>1. ASSUME NEW r \in Resources
      PROVE  \/ r = "logger" \/ r = "metrics" \/ r = "pprof" \/ r = "pathManager" \/ r = "rtspServer"
             \/ r = "rtspsServer" \/ r = "rtmpServer" \/ r = "hlsServer" \/ r = "api"
  BY DEF Resources
<1>2. \A i \in 1 .. 9 : CloseOrder[i] \in Resources BY <1>0, CloseTable DEF Resources
<1>3. \A r \in Resources : \E i \in 1 .. 9 : CloseOrder[i] = r BY <1>1, CloseTable
<1>4. \A i, j \in 1 .. 9 : CloseOrder[i] = CloseOrder[j] => i = j BY <1>0, CloseTable
<1>5. ASSUME NEW i \in 1 .. 9, NEW r \in Resources, CloseOrder[i] \in Refs[r]
      PROVE  \/ CloseOrder[i] = "pathManager" /\ r \in {"hlsServer", "rtmpServer"}
             \/ \E j \in 1 .. 9 : j < i /\ CloseOrder[j] = r
  BY <1>0, <1>1, <1>5, CloseTable, RefsTable
<1> QED BY <1>2, <1>3, <1>4, <1>5

\* closeResources spares a resource only if its settings stay as they are, the
\* paths excepted, and only if it spares what the resource points to.
LEMMA SparedFacts ==
    ASSUME NEW new \in ConfType, conf \in ConfType, NEW r \in Resources
    PROVE  /\ r \notin toClose(new) =>
                /\ \A f \in Reads[r] \ {"logLevel", "paths"} : new[f] = conf[f]
                /\ enabled(r, new) <=> enabled(r, conf)
           /\ \A d \in Refs[r] : d \in toClose(new) => r \in toClose(new)
<1>1. \/ r = "logger" \/ r = "metrics" \/ r = "pprof" \/ r = "pathManager" \/ r = "rtspServer"
      \/ r = "rtspsServer" \/ r = "rtmpServer" \/ r = "hlsServer" \/ r = "api"
  BY DEF Resources
<1>2. /\ "logger" \in toClose(new) <=> differs(new, {"log"})
      /\ "metrics" \in toClose(new) <=> closeMetrics(new)
      /\ "pprof" \in toClose(new) <=> differs(new, {"pprof"})
      /\ "pathManager" \in toClose(new) <=> closePathManager(new)
      /\ "rtspServer" \in toClose(new) <=> closeRTSPServer(new)
      /\ "rtspsServer" \in toClose(new) <=> closeRTSPSServer(new)
      /\ "rtmpServer" \in toClose(new) <=> closeRTMPServer(new)
      /\ "hlsServer" \in toClose(new) <=> closeHLSServer(new)
      /\ "api" \in toClose(new) <=> closeAPI(new)
  BY DEF toClose, Resources
<1>3. \A d \in Refs[r] : d \in toClose(new) => r \in toClose(new)
  BY <1>1, <1>2, RefsTable DEF closePathManager, closeRTSPServer, closeRTSPSServer,
     closeRTMPServer, closeHLSServer, closeAPI
<1>4. ASSUME r \notin toClose(new)
      PROVE  \A f \in Reads[r] \ {"logLevel", "paths"} : new[f] = conf[f]
  BY <1>1, <1>2, <1>4 DEF Reads, differs, closeMetrics, closePathManager, closeRTSPServer,
     closeRTSPSServer, closeRTMPServer, closeHLSServer, closeAPI
<1>5. ASSUME r \notin toClose(new) PROVE enabled(r, new) <=> enabled(r, conf)
  <2>1. CASE r \in {"logger", "pathManager"} BY <2>1 DEF enabled
  <2>2. CASE r \in {"rtspServer", "rtspsServer"}
    <3>1. new["encryption"] = conf["encryption"] BY <1>4, <1>5, <2>2 DEF Reads
    <3> QED BY <2>2, <3>1 DEF enabled
  <2>3. CASE r = "rtmpServer"
    <3>1. new["rtmp"] = conf["rtmp"] BY <1>4, <1>5, <2>3 DEF Reads
    <3> QED BY <2>3, <3>1 DEF enabled
  <2>4. CASE r = "hlsServer"
    <3>1. new["hls"] = conf["hls"] BY <1>4, <1>5, <2>4 DEF Reads
    <3> QED BY <2>4, <3>1 DEF enabled
  <2>5. CASE r \in {"metrics", "pprof", "api"}
    <3>1. new[r] = conf[r] BY <1>4, <1>5, <2>5 DEF Reads
    <3> QED BY <2>5, <3>1 DEF enabled
  <2> QED BY <1>1, <2>1, <2>2, <2>3, <2>4, <2>5
<1> QED BY <1>3, <1>4, <1>5

-----------------------------------------------------------------------------
USE ConfAssumption, InstanceAssumption

LEMMA InitInv == Init => Inv
<1> SUFFICES ASSUME Init PROVE Inv OBVIOUS
<1>1. \A r \in Resources : ~Exists(r) /\ pointer(r) = Nil BY DEF Init, Exists, pointer
<1>2. conf \in ConfType BY DEF Init
<1>3. TypeOK
  <2>1. inst = [r \in Resources |-> inst[r]] BY DEF Init
  <2>2. mset \in [Measured -> Nat \cup {Nil}] BY DEF Init
  <2>3. /\ clone \in [Clients -> ConfType \cup {Nil}]
        /\ pending \in [Clients -> ConfType \cup {Nil}]
    BY DEF Init
  <2>4. /\ apiConf \in ConfType /\ newConf \in ConfType \cup {Nil}
        /\ stage \in {"create", "loop", "close", "done"} /\ pos \in 1 .. 10
    BY <1>2 DEF Init
  <2>5. closing \subseteq Resources /\ reloads \in Nat BY DEF Init
  <2>6. ctxDone \in BOOLEAN /\ crashed \in BOOLEAN BY DEF Init
  <2> QED BY <1>1, <1>2, <2>1, <2>2, <2>3, <2>4, <2>5, <2>6 DEF TypeOK
<1>4. LoopInv /\ CloseInv /\ AllClosed BY DEF Init, LoopInv, CloseInv, AllClosed
<1>5. RefsInv /\ CreateInv BY <1>1 DEF Init, RefsInv, CreateInv, Fits
<1>6. MetricsInv /\ ShownInv BY <1>1 DEF MetricsInv, ShownInv, Resources
<1> QED BY <1>3, <1>4, <1>5, <1>6 DEF Inv

\* Steps that leave the core alone.
LEMMA CoreKept ==
    ASSUME Inv, UNCHANGED coreVars, TypeOK', ctxDone => ctxDone', ShownInv'
    PROVE  Inv'
<1> USE DEF coreVars
<1>1. LoopInv' /\ CreateInv' /\ AllClosed'
  BY DEF Inv, LoopInv, CreateInv, AllClosed, Fits, Complete, Exists
<1>2. CloseInv' BY DEF Inv, CloseInv, Fits, Complete, Exists
<1>3. RefsInv' /\ MetricsInv' BY DEF Inv, RefsInv, MetricsInv, Exists, pointer
<1> QED BY <1>1, <1>2, <1>3 DEF Inv

LEMMA APISteps ==
    ASSUME Inv, NEW k \in Clients,
           APIConfigSetTerminated(k) \/ ConfigClone(k) \/ ConfigStore(k) \/ ConfigRefused(k)
    PROVE  Inv'
<1>0. /\ UNCHANGED coreVars /\ (ctxDone => ctxDone')
  BY DEF APIConfigSetTerminated, ConfigClone, ConfigStore, ConfigRefused
<1>1. CASE APIConfigSetTerminated(k)
  <2>1. TypeOK' BY <1>1 DEF Inv, TypeOK, APIConfigSetTerminated, coreVars, Exists
  <2>2. ShownInv' BY <1>1 DEF APIConfigSetTerminated, ShownInv
  <2> QED BY <1>0, <2>1, <2>2, CoreKept
<1>2. CASE ConfigClone(k)
  <2>1. TypeOK' BY <1>2 DEF Inv, TypeOK, ConfigClone, coreVars, Exists
  <2>2. ShownInv' BY <1>2 DEF Inv, ConfigClone, ShownInv, coreVars, Exists
  <2> QED BY <1>0, <2>1, <2>2, CoreKept
<1>3. CASE ConfigStore(k)
  <2>1. PICK ch \in Changes : LET c == [clone[k] EXCEPT ![ch[1]] = ch[2]]
                              IN apiConf' = c /\ pending' = [pending EXCEPT ![k] = c]
    BY <1>3 DEF ConfigStore
  <2> DEFINE c == [clone[k] EXCEPT ![ch[1]] = ch[2]]
  <2>2. c \in ConfType BY <1>3 DEF ConfigStore, ConfType, Inv, TypeOK
  <2> HIDE DEF c
  <2>3. /\ apiConf' = c /\ pending' = [pending EXCEPT ![k] = c]
        /\ clone' = [clone EXCEPT ![k] = Nil] /\ UNCHANGED <<coreVars, ctxDone, crashed>>
    BY <1>3, <2>1 DEF ConfigStore, c
  <2>4. TypeOK' BY <2>2, <2>3 DEF Inv, TypeOK, coreVars, Exists
  <2>5. pending'[k] # Nil BY <2>2, <2>3 DEF Inv, TypeOK
  <2>6. ShownInv' BY <2>5 DEF ShownInv
  <2> QED BY <1>0, <2>4, <2>6, CoreKept
<1>4. CASE ConfigRefused(k)
  <2>1. TypeOK' BY <1>4 DEF Inv, TypeOK, ConfigRefused, coreVars, Exists
  <2>2. ShownInv' BY <1>4 DEF Inv, ConfigRefused, ShownInv, coreVars, Exists
  <2> QED BY <1>0, <2>1, <2>2, CoreKept
<1> QED BY <1>1, <1>2, <1>3, <1>4

LEMMA OutsideSteps ==
    ASSUME Inv, Close \/ LogWithoutLogger \/ UNCHANGED vars
    PROVE  Inv'
<1>0. UNCHANGED <<coreVars, apiConf, clone, pending>> /\ (ctxDone => ctxDone')
      /\ ctxDone' \in BOOLEAN /\ crashed' \in BOOLEAN
  BY DEF Close, LogWithoutLogger, vars, coreVars, Inv, TypeOK
<1>1. TypeOK' BY <1>0 DEF Inv, TypeOK, coreVars, Exists
<1>2. ShownInv' BY <1>0 DEF Inv, ShownInv, coreVars, Exists
<1> QED BY <1>0, <1>1, <1>2, CoreKept

\* The core gives up: from now on everything is closed.
LEMMA ExitInv ==
    ASSUME Inv, stage \in {"create", "loop"}, StartExit,
           UNCHANGED <<apiConf, clone, pending>>, crashed' \in BOOLEAN
    PROVE  Inv'
<1>1. TypeOK' BY DEF StartExit, Inv, TypeOK, Exists
<1>2. LoopInv' /\ CreateInv' /\ AllClosed' BY DEF StartExit, LoopInv, CreateInv, AllClosed
<1>3. CloseInv' BY RefsTable DEF StartExit, CloseInv
<1>4. RefsInv' BY DEF StartExit, Inv, RefsInv, Exists, pointer
<1>5. MetricsInv' /\ ShownInv'
  BY DEF StartExit, Inv, MetricsInv, ShownInv, Exists, pointer
<1> QED BY <1>1, <1>2, <1>3, <1>4, <1>5 DEF Inv

\* A reload begins: who is spared fits the new configuration already.
LEMMA ReloadInv ==
    ASSUME Inv, stage = "loop", NEW new \in ConfType, StartReload(new),
           UNCHANGED <<apiConf, clone, ctxDone, crashed>>,
           pending' \in [Clients -> ConfType \cup {Nil}]
    PROVE  Inv'
<1>0. /\ conf \in ConfType /\ inst = [r \in Resources |-> inst[r]]
      /\ \A r \in Resources : Exists(r) => inst[r] \in InstanceType(r)
      /\ \A r \in Resources : Fits(r, conf) /\ Complete(r, conf)
      /\ \A r \in Resources : Exists(r) => \A d \in Refs[r] : inst[r].refs[d] = pointer(d)
  BY DEF Inv, TypeOK, LoopInv, RefsInv
<1>1. /\ newConf' = new /\ closing' = toClose(new) /\ stage' = "close" /\ pos' = 1
      /\ UNCHANGED <<conf, reloads, mset>> /\ inst' = onConfReload(new)
  BY DEF StartReload
<1>2. /\ inst' = [r \in Resources |-> inst'[r]]
      /\ \A r \in Resources : /\ inst'[r] # Nil <=> inst[r] # Nil
                              /\ inst[r] # Nil => /\ inst'[r] \in InstanceType(r)
                                                  /\ inst'[r].id = inst[r].id
                                                  /\ inst'[r].refs = inst[r].refs
      /\ \A r \in Resources : r # "pathManager" => inst'[r] = inst[r]
      /\ "pathManager" \notin toClose(new) =>
            /\ inst'["pathManager"].made["paths"] = new["paths"]
            /\ \A f \in Reads["pathManager"] \ {"paths"} :
                  inst'["pathManager"].made[f] = inst["pathManager"].made[f]
  <2>1. CASE "pathManager" \in toClose(new)
    BY <1>0, <1>1, <2>1 DEF onConfReload, Exists
  <2>2. CASE "pathManager" \notin toClose(new)
    <3> DEFINE p == inst["pathManager"]
               y == [p EXCEPT !.made["paths"] = new["paths"]]
    <3>0. "pathManager" \in Resources BY DEF Resources
    <3>1. Exists("pathManager") BY <1>0, <3>0 DEF Complete, enabled
    <3>2. p \in InstanceType("pathManager") BY <1>0, <3>0, <3>1
    <3>3. /\ Reads["pathManager"] = {"common", "readBufferSize", "paths"}
          /\ new["paths"] \in Values
      BY DEF Reads, ConfType, Fields
    <3>4. /\ y \in InstanceType("pathManager") /\ y.id = p.id /\ y.refs = p.refs
          /\ y.made["paths"] = new["paths"]
          /\ \A f \in Reads["pathManager"] \ {"paths"} : y.made[f] = p.made[f]
      BY <3>2, <3>3 DEF InstanceType
    <3>5. inst' = [inst EXCEPT !["pathManager"] = y] BY <1>0, <1>1, <2>2, <3>0 DEF onConfReload
    <3>6. y # Nil BY <3>0, <3>4
    <3> HIDE DEF y
    <3> QED BY <1>0, <3>0, <3>1, <3>4, <3>5, <3>6 DEF Exists
  <2> QED BY <2>1, <2>2
<1>3. TypeOK'
  <2>1. toClose(new) \subseteq Resources BY DEF toClose
  <2> QED BY <1>1, <1>2, <2>1 DEF Inv, TypeOK, Exists
<1>4. LoopInv' /\ CreateInv' /\ AllClosed' BY <1>1 DEF LoopInv, CreateInv, AllClosed
<1>5. RefsInv'
  <2>1. \A d \in Resources : pointer(d)' = pointer(d) BY <1>2 DEF pointer, Exists
  <2>2. ASSUME NEW r \in Resources, inst'[r] # Nil, NEW d \in Refs[r]
        PROVE  inst'[r].refs[d] = pointer(d)'
    <3>1. d \in Resources BY RefsTable
    <3>2. Exists(r) /\ inst'[r].refs = inst[r].refs BY <1>2, <2>2 DEF Exists
    <3> QED BY <1>0, <2>1, <3>1, <3>2
  <2> QED BY <2>2 DEF RefsInv, Exists
<1>6. MetricsInv' BY <1>1, <1>2 DEF Inv, MetricsInv, Exists, pointer, Measured, Resources
<1>7. ShownInv' BY <1>1 DEF ShownInv
<1>8. ASSUME NEW r \in Resources \ toClose(new) PROVE Fits(r, new)' /\ Complete(r, new)'
  <2>0. /\ enabled(r, new) <=> enabled(r, conf)
        /\ \A f \in Reads[r] \ {"logLevel", "paths"} : new[f] = conf[f]
    BY <1>0, <1>8, SparedFacts
  <2>1. Complete(r, new)' BY <1>0, <1>2, <2>0 DEF Complete, Exists
  <2>2. ASSUME inst'[r] # Nil, NEW f \in Reads[r] \ {"logLevel"} PROVE inst'[r].made[f] = new[f]
    <3>1. Exists(r) /\ inst[r].made[f] = conf[f] BY <1>0, <1>2, <2>2 DEF Fits, Exists
    <3>2. CASE r = "pathManager" BY <1>2, <1>8, <2>0, <2>2, <3>1, <3>2
    <3>3. CASE r # "pathManager"
      <4>1. f # "paths" BY <3>3 DEF Reads, Resources
      <4> QED BY <1>2, <2>0, <3>1, <3>3, <4>1
    <3> QED BY <3>2, <3>3
  <2>3. Fits(r, new)' BY <1>0, <1>2, <2>0, <2>2 DEF Fits, Exists
  <2> QED BY <2>1, <2>3
<1>9. CloseInv'
  <2>1. \A r \in Resources : \A d \in Refs[r] : d \in closing' => r \in closing'
    BY <1>0, <1>1, SparedFacts
  <2>2. newConf' # Nil BY <1>1
  <2>3. \A r \in Resources \ closing' : Fits(r, newConf)' /\ Complete(r, newConf)'
    BY <1>1, <1>8 DEF Fits, Complete, Exists
  <2> QED BY <1>1, <2>1, <2>2, <2>3 DEF CloseInv
<1> QED BY <1>3, <1>4, <1>5, <1>6, <1>7, <1>9 DEF Inv

\* One resource is closed, or spared.
LEMMA CloseStepInv == ASSUME Inv, CloseStep PROVE Inv'
<1> DEFINE r == CloseOrder[pos]
           end == r \in closing /\ Exists(r)
<1>0. /\ pos \in 1 .. 9 /\ stage = "close" /\ r \in Resources /\ CloseInv /\ RefsInv
      /\ inst = [q \in Resources |-> inst[q]]
      /\ \A q \in Resources : Exists(q) => inst[q] \in InstanceType(q)
      /\ mset \in [Measured -> Nat \cup {Nil}]
  BY CloseTable, CloseOrderFacts DEF CloseStep, Inv, TypeOK
<1>1. /\ pos' = pos + 1
      /\ UNCHANGED <<conf, newConf, stage, closing, reloads, clone, pending, ctxDone, crashed>>
      /\ inst' = IF end THEN [inst EXCEPT ![r] = Nil] ELSE inst
      /\ apiConf' = apiAfterClose(r)
      /\ mset' = IF end /\ r \in Measured \ {"rtmpServer"} /\ inst[r].refs["metrics"] # Nil
                 THEN [mset EXCEPT ![r] = Nil] ELSE mset
  BY DEF CloseStep
<1>2. pos = 1 <=> r = "api" BY <1>0, CloseTable, CloseOrderFacts
<1> HIDE DEF r
<1>3. /\ inst' = [q \in Resources |-> inst'[q]]
      /\ \A q \in Resources : inst'[q] = IF q = r /\ end THEN Nil ELSE inst[q]
  BY <1>0, <1>1
<1>4. /\ \A q \in Resources : Exists(q)' <=> Exists(q) /\ ~(q = r /\ end)
      /\ \A q \in Resources : Exists(q)' => inst'[q] = inst[q]
      /\ \A q \in Resources : q # r \/ ~end => pointer(q)' = pointer(q)
      /\ \A q \in Resources : ~Exists(q)' => pointer(q)' = Nil
  BY <1>3 DEF Exists, pointer
<1>5. r = "api" /\ ~end /\ Exists("api") => apiConf' = newConf /\ newConf # Nil
  BY <1>0, <1>1 DEF apiAfterClose, CloseInv
<1>6. r # "api" \/ ~Exists("api") \/ end => apiConf' = apiConf
  BY <1>1 DEF apiAfterClose
<1> HIDE DEF end
<1>7. TypeOK'
  <2>1. apiConf' \in ConfType BY <1>5, <1>6 DEF Inv, TypeOK
  <2>2. mset' \in [Measured -> Nat \cup {Nil}] BY <1>0, <1>1
  <2>3. \A q \in Resources : Exists(q)' => inst'[q] \in InstanceType(q) BY <1>0, <1>4
  <2>4. pos' \in 1 .. 10 BY <1>0, <1>1
  <2> QED BY <1>1, <1>3, <2>1, <2>2, <2>3, <2>4 DEF Inv, TypeOK
<1>8. LoopInv' /\ CreateInv' /\ AllClosed' BY <1>0, <1>1 DEF LoopInv, CreateInv, AllClosed
<1>9. CloseInv'
  <2>1. ASSUME NEW i \in 1 .. 9, i < pos', CloseOrder[i] \in closing PROVE ~Exists(CloseOrder[i])'
    <3>1. CloseOrder[i] \in Resources BY CloseOrderFacts
    <3>2. CASE i < pos
      <4>1. ~Exists(CloseOrder[i]) BY <1>0, <2>1, <3>2 DEF CloseInv
      <4> QED BY <1>4, <3>1, <4>1
    <3>3. CASE i = pos
      <4>1. CloseOrder[i] = r BY <3>3 DEF r
      <4>2. Exists(r) => end BY <2>1, <4>1 DEF end
      <4> QED BY <1>4, <3>1, <4>1, <4>2
    <3> QED BY <1>0, <1>1, <2>1, <3>2, <3>3
  <2>2. ASSUME newConf # Nil, NEW q \in Resources \ closing
        PROVE  Fits(q, newConf)' /\ Complete(q, newConf)'
    <3>1. ~(q = r /\ end) BY DEF end
    <3>2. Fits(q, newConf) /\ Complete(q, newConf) BY <1>0, <2>2 DEF CloseInv
    <3>3. inst'[q] = inst[q] BY <1>3, <3>1
    <3> QED BY <1>1, <3>2, <3>3 DEF Fits, Complete, Exists
  <2> QED BY <1>0, <1>1, <2>1, <2>2 DEF CloseInv
<1>10. RefsInv'
  <2>1. ASSUME NEW q \in Resources, Exists(q)', NEW d \in Refs[q]
        PROVE  \/ inst'[q].refs[d] = pointer(d)'
               \/ d = "pathManager" /\ q \in {"hlsServer", "rtmpServer"} /\ q \in closing
    <3>0. Exists(q) /\ inst'[q] = inst[q] /\ d \in Resources BY <1>4, <2>1, RefsTable
    <3>1. CASE d # r \/ ~end BY <1>0, <1>4, <3>0, <3>1 DEF RefsInv
    <3>2. CASE d = r /\ end
      <4>1. q \in closing BY <1>0, <3>2 DEF CloseInv, end
      <4>2. ASSUME NEW j \in 1 .. 9, j < pos, CloseOrder[j] = q PROVE FALSE
        BY <1>0, <3>0, <4>1, <4>2 DEF CloseInv
      <4>3. CloseOrder[pos] \in Refs[q] BY <3>2 DEF r
      <4> QED BY <1>0, <3>2, <4>1, <4>2, <4>3, CloseOrderFacts DEF r
    <3> QED BY <3>1, <3>2
  <2> QED BY <1>0, <1>1, <2>1 DEF RefsInv
<1>11. MetricsInv'
  <2>1. ASSUME Exists("metrics")', NEW q \in Measured, ~(q = "rtmpServer" /\ ~Exists(q)')
        PROVE  mset'[q] = pointer(q)'
    <3>0. q \in Resources /\ "metrics" \in Refs[q] /\ "metrics" \in Resources
      BY RefsTable DEF Measured, Resources
    <3>1. Exists("metrics") BY <1>4, <2>1, <3>0
    <3>2. mset[q] = pointer(q) \/ (q = "rtmpServer" /\ ~Exists(q))
      BY <3>1 DEF Inv, MetricsInv
    <3>3. CASE q = r /\ end
      <4>1. ~Exists(q)' /\ q # "rtmpServer" BY <1>4, <2>1, <3>0, <3>3
      <4>2. Exists(q) BY <3>3 DEF end
      <4>3. inst[q].refs["metrics"] = pointer("metrics") BY <1>0, <3>0, <4>2 DEF RefsInv
      <4>4. pointer("metrics") # Nil
        BY <1>0, <3>0, <3>1 DEF pointer, InstanceType
      <4>5. mset'[q] = Nil BY <1>0, <1>1, <3>3, <4>1, <4>3, <4>4
      <4> QED BY <1>4, <3>0, <4>1, <4>5
    <3>4. CASE ~(q = r /\ end)
      <4>1. pointer(q)' = pointer(q) BY <1>4, <3>0, <3>4
      <4>2. mset'[q] = mset[q] BY <1>0, <1>1, <3>4
      <4>3. ~(q = "rtmpServer" /\ ~Exists(q)) BY <1>4, <2>1, <3>0
      <4> QED BY <3>2, <4>1, <4>2, <4>3
    <3> QED BY <3>3, <3>4
  <2> QED BY <2>1 DEF MetricsInv
<1>12. ShownInv'
  <2>1. ASSUME ~ctxDone, Exists("api")', \A k \in Clients : pending[k] = Nil
        PROVE  apiConf' = newConf
    <3>0. "api" \in Resources BY DEF Resources
    <3>1. Exists("api") /\ ~("api" = r /\ end) BY <1>4, <2>1, <3>0
    <3>2. CASE r = "api" BY <1>5, <3>1, <3>2
    <3>3. CASE r # "api"
      <4>1. pos > 1 BY <1>0, <1>2, <3>3
      <4>2. apiConf = newConf BY <1>0, <2>1, <3>1, <4>1 DEF Inv, ShownInv
      <4> QED BY <1>6, <3>3, <4>2
    <3> QED BY <3>2, <3>3
  <2> QED BY <1>0, <1>1, <2>1 DEF ShownInv
<1> QED BY <1>7, <1>8, <1>9, <1>10, <1>11, <1>12 DEF Inv

\* closeResources has returned: who was to go is gone.
LEMMA CloseEndInv == ASSUME Inv, CloseEnd PROVE Inv'
<1>0. /\ pos = 10 /\ stage = "close" /\ CloseInv /\ RefsInv
      /\ UNCHANGED <<newConf, closing, inst, mset, apiConf, clone, pending, ctxDone, crashed>>
  BY CloseTable DEF CloseEnd, Inv, TypeOK
<1>1. ASSUME NEW r \in Resources, r \in closing PROVE ~Exists(r)
  <2>1. PICK i \in 1 .. 9 : CloseOrder[i] = r BY CloseOrderFacts
  <2> QED BY <1>0, <1>1, <2>1 DEF CloseInv
<1>2. RefsInv'
  <2>1. \A r \in Resources : Exists(r) => \A d \in Refs[r] : inst[r].refs[d] = pointer(d)
    BY <1>0, <1>1 DEF RefsInv
  <2> QED BY <1>0, <2>1 DEF RefsInv, Exists, pointer
<1>3. MetricsInv' BY <1>0 DEF Inv, MetricsInv, Exists, pointer
<1>4. CASE newConf # Nil
  <2>1. conf' = newConf /\ stage' = "create" /\ pos' = 1 /\ reloads' = reloads + 1
    BY <1>4 DEF CloseEnd
  <2>2. TypeOK' BY <1>0, <1>4, <2>1 DEF Inv, TypeOK, Exists
  <2>3. LoopInv' /\ CloseInv' /\ AllClosed' BY <2>1 DEF LoopInv, CloseInv, AllClosed
  <2>4. CreateInv'
    <3>1. \A r \in Resources : Fits(r, newConf) BY <1>0, <1>1, <1>4 DEF CloseInv, Fits
    <3>2. ASSUME NEW r \in Resources, Exists(r), NEW d \in Refs[r] PROVE Complete(d, newConf)
      <4>1. r \notin closing /\ d \in Resources BY <1>1, <3>2, RefsTable
      <4>2. d \notin closing BY <1>0, <4>1 DEF CloseInv
      <4> QED BY <1>0, <1>4, <4>1, <4>2 DEF CloseInv
    <3> QED BY <1>0, <2>1, <3>1, <3>2 DEF CreateInv, Fits, Complete, Exists
  <2>5. ShownInv' BY <1>0, <2>1 DEF Inv, ShownInv, Exists
  <2> QED BY <1>2, <1>3, <2>2, <2>3, <2>4, <2>5 DEF Inv
<1>5. CASE newConf = Nil
  <2>1. stage' = "done" /\ UNCHANGED <<conf, pos, reloads>> BY <1>5 DEF CloseEnd
  <2>2. TypeOK' BY <1>0, <2>1 DEF Inv, TypeOK, Exists
  <2>3. LoopInv' /\ CloseInv' /\ CreateInv' BY <2>1 DEF LoopInv, CloseInv, CreateInv
  <2>4. AllClosed' BY <1>0, <1>1, <1>5 DEF CloseInv, AllClosed, Exists
  <2>5. ShownInv' BY <2>1 DEF ShownInv
  <2> QED BY <1>2, <1>3, <2>2, <2>3, <2>4, <2>5 DEF Inv
<1> QED BY <1>4, <1>5

\* A new instance has the settings of now and points to living instances.
LEMMA CreateFacts ==
    ASSUME Inv, NEW r \in Resources
    PROVE  /\ create(r) \in InstanceType(r) /\ create(r) # Nil
           /\ create(r).id = reloads
           /\ \A f \in Reads[r] : create(r).made[f] = conf[f]
           /\ \A d \in Refs[r] : create(r).refs[d] = pointer(d)
<1>1. Reads[r] \subseteq Fields
  <2>1. \/ r = "logger" \/ r = "metrics" \/ r = "pprof" \/ r = "pathManager" \/ r = "rtspServer"
        \/ r = "rtspsServer" \/ r = "rtmpServer" \/ r = "hlsServer" \/ r = "api"
    BY DEF Resources
  <2> QED BY <2>1 DEF Reads, Fields
<1>2. [f \in Reads[r] |-> conf[f]] \in [Reads[r] -> Values] BY <1>1 DEF Inv, TypeOK, ConfType
<1>3. \A d \in Refs[r] : pointer(d) \in Nat \cup {Nil}
  BY RefsTable DEF pointer, Inv, TypeOK, InstanceType
<1>4. [d \in Refs[r] |-> pointer(d)] \in [Refs[r] -> Nat \cup {Nil}] BY <1>3
<1>5. create(r) \in InstanceType(r) BY <1>2, <1>4 DEF create, InstanceType, Inv, TypeOK
<1> QED BY <1>5 DEF create

\* One resource is created, or needs not be.
LEMMA CreateStepInv == ASSUME Inv, CreateStep PROVE Inv'
<1> DEFINE r == CreateOrder[pos]
           new == enabled(r, conf) /\ ~Exists(r)
<1>0. /\ pos \in 1 .. 9 /\ stage = "create" /\ r \in Resources /\ CreateInv
      /\ inst = [q \in Resources |-> inst[q]]
      /\ \A q \in Resources : Exists(q) => inst[q] \in InstanceType(q)
      /\ mset \in [Measured -> Nat \cup {Nil}] /\ reloads \in Nat
      /\ \A q \in Resources : Exists(q) => \A d \in Refs[q] : inst[q].refs[d] = pointer(d)
  BY CreateTable, CreateOrderFacts DEF CreateStep, Inv, TypeOK, RefsInv
<1>1. /\ pos' = pos + 1
      /\ UNCHANGED <<conf, newConf, stage, closing, reloads, clone, pending, ctxDone, crashed>>
      /\ inst' = IF new THEN [inst EXCEPT ![r] = create(r)] ELSE inst
      /\ mset' = IF new THEN metricsAfterCreate(r) ELSE mset
      /\ apiConf' = IF new /\ r = "api" THEN conf ELSE apiConf
  BY DEF CreateStep
<1>2. ASSUME NEW d \in Refs[r] PROVE d \in Resources /\ Complete(d, conf)
  BY <1>0, CreateOrderFacts, RefsTable DEF CreateInv
<1> HIDE DEF r
<1>3. /\ create(r) \in InstanceType(r) /\ create(r) # Nil
      /\ create(r).id = reloads
      /\ \A f \in Reads[r] : create(r).made[f] = conf[f]
      /\ \A d \in Refs[r] : create(r).refs[d] = pointer(d)
  BY <1>0, CreateFacts
<1>4. /\ inst' = [q \in Resources |-> inst'[q]]
      /\ \A q \in Resources : inst'[q] = IF q = r /\ new THEN create(r) ELSE inst[q]
  BY <1>0, <1>1
<1>5. /\ \A q \in Resources : Exists(q)' <=> Exists(q) \/ (q = r /\ new)
      /\ \A q \in Resources : q # r \/ ~new => pointer(q)' = pointer(q) /\ inst'[q] = inst[q]
      /\ new => inst'[r] = create(r)
      /\ \A q \in Resources : ~Exists(q)' => pointer(q)' = Nil
      /\ new => ~Exists(r) /\ enabled(r, conf)
  <2>1. \A q \in Resources : Exists(q)' <=> Exists(q) \/ (q = r /\ new)
    BY <1>3, <1>4 DEF Exists
  <2>2. \A q \in Resources : q # r \/ ~new => pointer(q)' = pointer(q) /\ inst'[q] = inst[q]
    BY <1>4 DEF Exists, pointer
  <2>3. new => inst'[r] = create(r) BY <1>0, <1>4
  <2>5. \A q \in Resources : ~Exists(q)' => pointer(q)' = Nil BY DEF Exists, pointer
  <2>6. new => ~Exists(r) /\ enabled(r, conf) OBVIOUS
  <2> QED BY <2>1, <2>2, <2>3, <2>5, <2>6
<1>6. enabled(r, conf) => inst'[r] # Nil
  <2>1. CASE new BY <1>3, <1>5, <2>1
  <2>2. CASE ~new BY <1>0, <1>5, <2>2 DEF Exists
  <2> QED BY <2>1, <2>2
<1> HIDE DEF new
<1>7. TypeOK'
  <2>1. mset' \in [Measured -> Nat \cup {Nil}] BY <1>0, <1>1 DEF metricsAfterCreate
  <2>2. \A q \in Resources : Exists(q)' => inst'[q] \in InstanceType(q) BY <1>0, <1>3, <1>5
  <2>3. pos' \in 1 .. 10 BY <1>0, <1>1
  <2> QED BY <1>1, <1>4, <2>1, <2>2, <2>3 DEF Inv, TypeOK
<1>8. LoopInv' /\ CloseInv' /\ AllClosed' BY <1>0, <1>1 DEF LoopInv, CloseInv, AllClosed
<1>9. \A q \in Resources : Complete(q, conf) => Complete(q, conf)'
  BY <1>1, <1>5 DEF Complete
<1>10. CreateInv'
  <2>1. ASSUME NEW q \in Resources PROVE Fits(q, conf)'
    <3>1. CASE q = r /\ new BY <1>1, <1>3, <1>5, <3>1 DEF Fits
    <3>2. CASE ~(q = r /\ new) BY <1>0, <1>1, <1>5, <3>2 DEF CreateInv, Fits
    <3> QED BY <3>1, <3>2
  <2>2. ASSUME NEW i \in 1 .. 9, i < pos' PROVE Complete(CreateOrder[i], conf)'
    <3>1. CASE i < pos BY <1>0, <1>9, <3>1, CreateOrderFacts DEF CreateInv
    <3>2. CASE i = pos BY <1>1, <1>6, <3>2 DEF Complete, Exists, r
    <3> QED BY <1>0, <1>1, <2>2, <3>1, <3>2
  <2>3. ASSUME NEW q \in Resources, Exists(q)', NEW d \in Refs[q] PROVE Complete(d, conf)'
    <3>1. d \in Resources BY RefsTable
    <3>2. Complete(d, conf) BY <1>0, <1>2, <1>5, <2>3 DEF CreateInv
    <3> QED BY <1>9, <3>1, <3>2
  <2> QED BY <1>1, <2>1, <2>2, <2>3 DEF CreateInv, Fits, Complete
<1>11. ASSUME NEW q \in Resources, Exists(q), r \in Refs[q] PROVE ~new
  <2>1. Complete(r, conf) BY <1>0, <1>11 DEF CreateInv
  <2> QED BY <1>5, <2>1 DEF Complete
<1>12. RefsInv'
  <2>1. ASSUME NEW q \in Resources, Exists(q)', NEW d \in Refs[q]
        PROVE  inst'[q].refs[d] = pointer(d)'
    <3>0. d \in Resources /\ d # q BY RefsTable DEF Resources
    <3>1. CASE q = r /\ new
      <4>1. pointer(d)' = pointer(d) BY <1>5, <3>0, <3>1
      <4> QED BY <1>3, <1>5, <3>1, <4>1
    <3>2. CASE ~(q = r /\ new)
      <4>1. Exists(q) /\ inst'[q] = inst[q] BY <1>5, <2>1, <3>2
      <4>2. d # r \/ ~new BY <1>11, <4>1
      <4> QED BY <1>0, <1>5, <3>0, <4>1, <4>2
    <3> QED BY <3>1, <3>2
  <2> QED BY <2>1 DEF RefsInv
<1>13. MetricsInv'
  <2>0. "metrics" \in Resources /\ Measured \subseteq Resources /\ "metrics" \notin Measured
    BY DEF Resources, Measured
  <2>1. CASE ~new BY <1>1, <1>5, <2>0, <2>1 DEF Inv, MetricsInv
  <2>2. CASE new /\ r = "metrics"
    <3>1. ASSUME NEW q \in Measured PROVE mset'[q] = pointer(q)'
      <4>1. ~Exists(q) BY <1>11, <2>0, <2>2, RefsTable
      <4>2. ~Exists(q)' BY <1>5, <2>0, <2>2, <4>1
      <4>3. mset'[q] = Nil BY <1>1, <2>2 DEF metricsAfterCreate
      <4> QED BY <1>5, <2>0, <4>2, <4>3
    <3> QED BY <3>1 DEF MetricsInv
  <2>3. CASE new /\ r # "metrics"
    <3> SUFFICES ASSUME Exists("metrics")', NEW q \in Measured
                 PROVE  mset'[q] = pointer(q)' \/ (q = "rtmpServer" /\ ~Exists(q)')
      BY DEF MetricsInv
    <3>1. Exists("metrics") BY <1>5, <2>0, <2>3
    <3>2. CASE q = r
      <4>1. mset' = [mset EXCEPT ![r] = reloads] BY <1>1, <2>3, <3>1, <3>2 DEF metricsAfterCreate
      <4>2. mset'[q] = reloads BY <1>0, <3>2, <4>1
      <4>3. pointer(q)' = reloads BY <1>1, <1>3, <1>5, <2>3, <3>2 DEF pointer, Exists
      <4> QED BY <4>2, <4>3
    <3>3. CASE q # r
      <4>1. mset'[q] = mset[q] BY <1>0, <1>1, <2>3, <3>3 DEF metricsAfterCreate
      <4>2. pointer(q)' = pointer(q) /\ (Exists(q)' <=> Exists(q)) BY <1>5, <2>0, <3>3
      <4> QED BY <3>1, <4>1, <4>2 DEF Inv, MetricsInv
    <3> QED BY <3>2, <3>3
  <2> QED BY <2>1, <2>2, <2>3
<1>14. ShownInv'
  <2>0. "api" \in Resources BY DEF Resources
  <2>1. CASE new /\ r = "api" BY <1>0, <1>1, <2>1 DEF ShownInv
  <2>2. CASE ~(new /\ r = "api") BY <1>0, <1>1, <1>5, <2>0, <2>2 DEF Inv, ShownInv
  <2> QED BY <2>1, <2>2
<1> QED BY <1>7, <1>8, <1>10, <1>12, <1>13, <1>14 DEF Inv

\* createResources has returned: everything that is enabled is there.
LEMMA CreateEndInv == ASSUME Inv, CreateEnd PROVE Inv'
<1>0. /\ pos = 10 /\ stage = "create" /\ CreateInv /\ stage' = "loop"
      /\ UNCHANGED <<conf, newConf, pos, closing, inst, reloads, mset, apiConf, clone, pending,
                     ctxDone, crashed>>
  BY CreateTable DEF CreateEnd, Inv, TypeOK
<1>1. TypeOK' BY <1>0 DEF Inv, TypeOK, Exists
<1>2. \A r \in Resources : Fits(r, conf) /\ Complete(r, conf)
  BY <1>0, CreateOrderFacts DEF CreateInv
<1>3. LoopInv' BY <1>0, <1>2 DEF LoopInv, Fits, Complete, Exists
<1>4. CreateInv' /\ CloseInv' /\ AllClosed' BY <1>0 DEF CreateInv, CloseInv, AllClosed
<1>5. RefsInv' BY <1>0 DEF Inv, RefsInv, Exists, pointer
<1>6. MetricsInv' /\ ShownInv' BY <1>0 DEF Inv, MetricsInv, ShownInv, Exists, pointer
<1> QED BY <1>1, <1>3, <1>4, <1>5, <1>6 DEF Inv

LEMMA NextInv == Inv /\ [Next]_vars => Inv'
<1> SUFFICES ASSUME Inv, [Next]_vars PROVE Inv' OBVIOUS
<1>1. CASE CloseStep \/ CloseEnd \/ CreateStep \/ CreateEnd
  BY <1>1, CloseStepInv, CloseEndInv, CreateStepInv, CreateEndInv
<1>2. CASE CreateFails BY <1>2, ExitInv DEF CreateFails
<1>3. CASE FileInvalid \/ CtxDoneSeen BY <1>3, ExitInv DEF FileInvalid, CtxDoneSeen, Inv, TypeOK
<1>4. CASE FileChanged
  <2>1. PICK c \in FileConfs : StartReload(c) BY <1>4 DEF FileChanged
  <2>2. c \in ConfType OBVIOUS
  <2>3. pending' \in [Clients -> ConfType \cup {Nil}] /\ stage = "loop"
        /\ UNCHANGED <<apiConf, clone, ctxDone, crashed>>
    BY <1>4 DEF FileChanged, Inv, TypeOK
  <2> QED BY <2>1, <2>2, <2>3, ReloadInv
<1>5. ASSUME NEW k \in Clients, APIConfigSet(k) PROVE Inv'
  <2>1. pending[k] \in ConfType BY <1>5 DEF APIConfigSet, Inv, TypeOK
  <2>2. pending' \in [Clients -> ConfType \cup {Nil}] BY <1>5 DEF APIConfigSet, Inv, TypeOK
  <2>3. stage = "loop" /\ StartReload(pending[k]) /\ UNCHANGED <<apiConf, clone, ctxDone, crashed>>
    BY <1>5 DEF APIConfigSet
  <2> QED BY <2>1, <2>2, <2>3, ReloadInv
<1>6. ASSUME NEW k \in Clients,
             APIConfigSetTerminated(k) \/ ConfigClone(k) \/ ConfigStore(k) \/ ConfigRefused(k)
      PROVE  Inv'
  BY <1>6, APISteps
<1>7. CASE Close \/ LogWithoutLogger \/ Terminated \/ UNCHANGED vars
  BY <1>7, OutsideSteps DEF Terminated
<1> QED BY <1>1, <1>2, <1>3, <1>4, <1>5, <1>6, <1>7 DEF Next, Step

\* In every state of a reload the resources are on their way from one
\* configuration to the other, for any configurations and any number of reloads.
THEOREM CoreInvariant == Spec => []Inv
  BY InitInv, NextInv, PTL DEF Spec

\* The types of the state; every instance has the settings and the pointers
\* that its constructor takes.
THEOREM CoreTypeCorrect == Spec => []TypeOK
<1>1. Inv => TypeOK BY DEF Inv
<1> QED BY <1>1, CoreInvariant, PTL

\* Between two reloads exactly the resources that the configuration asks for
\* exist, with the settings that are valid now (core.go closeResources and
\* createResources), whatever the sequence of reloads.
THEOREM CoreResourcesMatchConf == Spec => []ResourcesMatchConf
<1>1. Inv => ResourcesMatchConf BY DEF Inv, LoopInv, Fits, Complete, ResourcesMatchConf
<1> QED BY <1>1, CoreInvariant, PTL

\* Nothing points to a resource that was closed or replaced, but for the HLS
\* and RTMP servers during a reload that closes them too, and for the RTMP
\* server in the metrics (core.go createResources, metrics.go).
THEOREM CoreReferencesAlive == Spec => []ReferencesAlive
<1>1. Inv => ReferencesAlive BY DEF Inv, RefsInv, MetricsInv, ReferencesAlive
<1> QED BY <1>1, CoreInvariant, PTL

\* The API shows the current configuration as soon as no accepted change is on
\* its way (core.go closeResources, api.go OnConfReload).
THEOREM CoreAPIShowsCurrent == Spec => []APIShowsCurrent
<1>1. Inv => APIShowsCurrent BY DEF Inv, ShownInv, APIShowsCurrent
<1> QED BY <1>1, CoreInvariant, PTL

\* When the core has ended, after closeResources(nil), no resource is left,
\* even if the creation of one of them failed half way.
THEOREM CoreAllClosed == Spec => []AllClosed
<1>1. Inv => AllClosed BY DEF Inv
<1> QED BY <1>1, CoreInvariant, PTL

=============================================================================
