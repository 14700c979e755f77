------------------------- MODULE PathManagerProofs -------------------------
(***************************************************************************)
(* The safety properties of the path manager, for any set of names,        *)
(* regular expressions, configurations, clients and path objects.          *)
(***************************************************************************)
EXTENDS PathManager, TLAPS

\* The path of a plain configuration that clients are sent to is running and
\* was not told to close: it cannot leave on its own.
PlainPathsRun ==
    ~pmDone => \A n \in Names :
        paths[n] # NoPath /\ path[paths[n]].confName \in Names =>
            path[paths[n]].life = "run" /\ ~path[paths[n]].cancelled

IInv == TypeOK /\ NoOrphanPath /\ MappedPathsCurrent /\ PlainPathsExist /\ PlainPathsRun

\* createPaths puts a new path at each address that was allocated and leaves
\* the others alone.
LEMMA Created ==
    ASSUME NEW ps, NEW confs, NEW ns, NEW free, NEW ids \in Allocations(ns, free),
           free \subseteq Paths
    PROVE  /\ DOMAIN createPaths(ps, confs, ns, ids) = Paths
           /\ \A n \in ns : /\ ids[n] \in free
                            /\ createPaths(ps, confs, ns, ids)[ids[n]] = newPath(n, n, confs[n])
           /\ \A p \in Paths : (\A n \in ns : ids[n] # p) => createPaths(ps, confs, ns, ids)[p] = ps[p]
           /\ \A m, n \in ns : ids[m] = ids[n] => m = n
<1>1. ids \in [ns -> free] /\ \A m, n \in ns : ids[m] = ids[n] => m = n
  BY DEF Allocations
<1>2. ASSUME NEW n \in ns
      PROVE  ids[n] \in free /\ createPaths(ps, confs, ns, ids)[ids[n]] = newPath(n, n, confs[n])
  <2>1. ids[n] \in free /\ ids[n] \in Paths
    BY <1>1
  <2>2. (CHOOSE m \in ns : ids[m] = ids[n]) = n
    BY <1>1
  <2> QED
    BY <2>1, <2>2 DEF createPaths
<1>3. ASSUME NEW p \in Paths, \A n \in ns : ids[n] # p
      PROVE  createPaths(ps, confs, ns, ids)[p] = ps[p]
  BY <1>3 DEF createPaths
<1> QED
  BY <1>1, <1>2, <1>3 DEF createPaths

\* A new path object has the type of one.
LEMMA NewPathType ==
    ASSUME NEW n \in Names, NEW k \in Keys, NEW c \in Confs
    PROVE  /\ newPath(n, k, c) \in PathType
           /\ newPath(n, k, c).name = n /\ newPath(n, k, c).confName = k
           /\ newPath(n, k, c).conf = c /\ newPath(n, k, c).life = "run"
           /\ newPath(n, k, c).cancelled = FALSE
  BY DEF newPath, PathType

LEMMA OffFields == Off.life = "off" /\ Off.cancelled = FALSE
  BY DEF Off

\* A path object that has been allocated has the type of one.
LEMMA Allocated ==
    ASSUME TypeOK, NEW p \in Paths, path[p].life # "off"
    PROVE  path[p] \in PathType
  BY OffFields DEF TypeOK

\* newPathManager establishes the invariant.
LEMMA InitInv == Init => IInv
<1> SUFFICES ASSUME Init PROVE IInv
  OBVIOUS
<1> DEFINE plain == {n \in Names : pathConfs[n] # NoConf}
           none == [p \in Paths |-> Off]
<1>1. PICK ids \in Allocations(plain, Paths) :
        /\ path = createPaths(none, pathConfs, plain, ids)
        /\ paths = mapPaths([n \in Names |-> NoPath], plain, ids)
  BY DEF Init
<1>2. /\ pathConfs \in [Keys -> Confs \cup {NoConf}] /\ pmRun = TRUE /\ pmDone = FALSE
      /\ reloads = 0 /\ client = [c \in Clients |-> NoPath] /\ shadowed = {}
  BY DEF Init, Confs
<1>3. /\ DOMAIN path = Paths
      /\ \A n \in plain : ids[n] \in Paths /\ path[ids[n]] = newPath(n, n, pathConfs[n])
      /\ \A p \in Paths : (\A n \in plain : ids[n] # p) => path[p] = none[p]
  <2> HIDE DEF plain, none
  <2> QED BY <1>1, Created
<1>4. \A n \in plain : pathConfs[n] \in Confs /\ n \in Keys /\ n \in Names
  BY <1>2 DEF Keys
<1>5. /\ paths \in [Names -> Paths \cup {NoPath}]
      /\ \A n \in Names : paths[n] # NoPath => n \in plain /\ paths[n] = ids[n]
      /\ \A n \in plain : paths[n] = ids[n]
  BY <1>1, <1>3 DEF mapPaths
<1>6. \A n \in plain :
        /\ path[ids[n]] \in PathType /\ path[ids[n]].name = n /\ path[ids[n]].confName = n
        /\ path[ids[n]].conf = pathConfs[n] /\ path[ids[n]].life = "run"
        /\ path[ids[n]].cancelled = FALSE
  <2> HIDE DEF plain, none
  <2> TAKE n \in plain
  <2>1. path[ids[n]] = newPath(n, n, pathConfs[n])
    BY <1>3
  <2>2. pathConfs[n] \in Confs /\ n \in Keys /\ n \in Names
    BY <1>4
  <2> QED BY <2>1, <2>2 DEF newPath, PathType
<1>7. TypeOK
  <2>1. \A p \in Paths : path[p] = Off \/ path[p] \in PathType
    BY <1>3, <1>6
  <2>2. reloads \in 0 .. MaxReloads
    BY <1>2, BoundsAssumption
  <2> QED
    BY <2>1, <2>2, <1>2, <1>3, <1>5 DEF TypeOK
<1>8. NoOrphanPath
  BY <1>3, <1>5, <1>6, OffFields DEF NoOrphanPath
<1>9. MappedPathsCurrent
  BY <1>5, <1>6 DEF MappedPathsCurrent
<1>10. PlainPathsExist
  <2>1. \A n \in Names : pathConfs[n] # NoConf => paths[n] # NoPath /\ path[paths[n]].confName = n
    BY <1>3, <1>5, <1>6, BoundsAssumption
  <2> QED BY <2>1 DEF PlainPathsExist
<1>11. PlainPathsRun
  BY <1>5, <1>6 DEF PlainPathsRun
<1> QED
  BY <1>7, <1>8, <1>9, <1>10, <1>11 DEF IInv

\* Reloading the configuration keeps the invariant.
LEMMA ReloadInv == IInv /\ ConfReload => IInv'
<1> SUFFICES ASSUME IInv, ConfReload PROVE IInv'
  OBVIOUS
<1> USE DEF IInv
<1>1. PICK new \in [Keys -> Vals \cup {NoConf}] :
        \E ids \in Allocations(
            missing(updatedConfs(new),
                    [n \in Names |-> IF n \in obsolete(updatedConfs(new)) THEN NoPath ELSE paths[n]]),
            Unused) :
          /\ pathConfs' = updatedConfs(new)
          /\ path' = createPaths(
                [p \in Paths |->
                    IF \E n \in obsolete(updatedConfs(new)) : paths[n] = p
                    THEN [path[p] EXCEPT !.cancelled = TRUE] ELSE path[p]],
                updatedConfs(new),
                missing(updatedConfs(new),
                    [n \in Names |-> IF n \in obsolete(updatedConfs(new)) THEN NoPath ELSE paths[n]]),
                ids)
          /\ paths' = mapPaths(
                [n \in Names |-> IF n \in obsolete(updatedConfs(new)) THEN NoPath ELSE paths[n]],
                missing(updatedConfs(new),
                    [n \in Names |-> IF n \in obsolete(updatedConfs(new)) THEN NoPath ELSE paths[n]]),
                ids)
          /\ shadowed' = {n \in Names :
                /\ updatedConfs(new)[n] # NoConf
                /\ [m \in Names |-> IF m \in obsolete(updatedConfs(new)) THEN NoPath ELSE paths[m]][n] # NoPath
                /\ path[[m \in Names |-> IF m \in obsolete(updatedConfs(new)) THEN NoPath ELSE paths[m]][n]].confName # n}
  BY DEF ConfReload
<1> DEFINE confs == updatedConfs(new)
           old == obsolete(confs)
           kept == [n \in Names |-> IF n \in old THEN NoPath ELSE paths[n]]
           closed == [p \in Paths |-> IF \E n \in old : paths[n] = p
                                      THEN [path[p] EXCEPT !.cancelled = TRUE] ELSE path[p]]
           added == missing(confs, kept)
<1>2. PICK ids \in Allocations(added, Unused) :
        /\ pathConfs' = confs
        /\ path' = createPaths(closed, confs, added, ids)
        /\ paths' = mapPaths(kept, added, ids)
        /\ shadowed' = {n \in Names : confs[n] # NoConf /\ kept[n] # NoPath
                                       /\ path[kept[n]].confName # n}
  BY <1>1
<1>3. UNCHANGED <<pmRun, pmDone, client>> /\ reloads < MaxReloads /\ reloads' = reloads + 1
  BY DEF ConfReload
<1>4. confs \in [Keys -> Confs \cup {NoConf}]
  BY DEF updatedConfs, TypeOK, Confs
<1>5. added \subseteq Names /\ \A n \in added : confs[n] # NoConf /\ confs[n] \in Confs /\ n \in Keys
  BY <1>4 DEF missing, Keys
<1>6. Unused \subseteq Paths
  BY DEF Unused
<1>7. /\ DOMAIN path' = Paths
      /\ \A n \in added : ids[n] \in Unused /\ path'[ids[n]] = newPath(n, n, confs[n])
      /\ \A p \in Paths : (\A n \in added : ids[n] # p) => path'[p] = closed[p]
      /\ \A m, n \in added : ids[m] = ids[n] => m = n
  <2> HIDE DEF confs, added, closed, kept
  <2> QED BY <1>2, <1>6, Created
<1>8. \A n \in added :
        /\ path'[ids[n]] \in PathType /\ path'[ids[n]].name = n /\ path'[ids[n]].confName = n
        /\ path'[ids[n]].conf = confs[n] /\ path'[ids[n]].life = "run"
        /\ path'[ids[n]].cancelled = FALSE
  <2> HIDE DEF confs, added, closed, kept
  <2> TAKE n \in added
  <2>1. path'[ids[n]] = newPath(n, n, confs[n])
    BY <1>7
  <2>2. confs[n] \in Confs /\ n \in Keys /\ n \in Names
    BY <1>5
  <2> QED BY <2>1, <2>2 DEF newPath, PathType
<1>9. /\ paths' \in [Names -> Paths \cup {NoPath}]
      /\ \A n \in added : paths'[n] = ids[n]
      /\ \A n \in Names \ added : paths'[n] = kept[n]
  BY <1>2, <1>5, <1>6, <1>7 DEF mapPaths, TypeOK
<1>10. \A n \in Names : /\ n \in old => paths[n] # NoPath
                        /\ kept[n] # NoPath => kept[n] = paths[n] /\ n \notin old
  BY DEF obsolete
\* A path object that is not allocated now keeps all but `cancelled'.
<1>11. ASSUME NEW p \in Paths, path[p].life # "off", \A n \in added : ids[n] # p
       PROVE  /\ path'[p] \in PathType
              /\ path'[p].name = path[p].name /\ path'[p].confName = path[p].confName
              /\ path'[p].conf = path[p].conf /\ path'[p].life = path[p].life
              /\ path'[p].cancelled = (path[p].cancelled \/ \E n \in old : paths[n] = p)
  <2>1. path[p] \in PathType
    BY <1>11, Allocated
  <2>2. path'[p] = closed[p]
    BY <1>7, <1>11
  <2> HIDE DEF old
  <2> QED BY <2>1, <2>2 DEF PathType
<1>12. ASSUME NEW p \in Paths, path[p].life = "off", \A n \in added : ids[n] # p
       PROVE  path'[p] = Off
  <2>1. path[p] = Off
    BY <1>12 DEF TypeOK, PathType
  <2>2. \A n \in old : paths[n] # p
    BY <1>12, <1>10 DEF MappedPathsCurrent, obsolete
  <2> QED
    BY <2>1, <2>2, <1>7, <1>12
\* A path that stays mapped is not an object that is allocated now.
<1>13. ASSUME NEW n \in Names \ added, paths'[n] # NoPath
       PROVE  /\ paths'[n] = paths[n] /\ n \notin old /\ paths[n] \in Paths
              /\ path[paths[n]].life # "off" /\ path[paths[n]].name = n
              /\ \A m \in added : ids[m] # paths[n]
              /\ \A m \in old : paths[m] # paths[n]
  <2>1. paths'[n] = paths[n] /\ n \notin old /\ paths[n] \in Paths
    BY <1>9, <1>10, <1>13 DEF TypeOK
  <2>2. path[paths[n]].life # "off" /\ path[paths[n]].name = n
    BY <2>1, <1>13 DEF MappedPathsCurrent
  <2>3. \A m \in added : ids[m] # paths[n]
    BY <1>7, <2>1 DEF Unused
  <2>4. \A m \in old : m \in Names /\ paths[m] # NoPath
    BY DEF obsolete
  <2>5. \A m \in old : paths[m] # paths[n]
    <3> SUFFICES ASSUME NEW m \in old, paths[m] = paths[n] PROVE FALSE
      OBVIOUS
    <3>1. path[paths[m]].name = m
      BY <2>4 DEF MappedPathsCurrent
    <3> QED BY <3>1, <2>1, <2>2
  <2> QED BY <2>1, <2>2, <2>3, <2>5
<1> HIDE DEF confs, added, closed, kept, old
<1>14. TypeOK'
  <2>1. \A p \in Paths : path'[p] = Off \/ path'[p] \in PathType
    <3> TAKE p \in Paths
    <3>1. CASE \E n \in added : ids[n] = p
      BY <3>1, <1>8
    <3>2. CASE \A n \in added : ids[n] # p
      BY <3>2, <1>11, <1>12
    <3> QED BY <3>1, <3>2
  <2>2. reloads' \in 0 .. MaxReloads
    BY <1>3, BoundsAssumption DEF TypeOK
  <2>3. UNCHANGED <<pmRun, pmDone, client>>
    BY <1>3
  <2>4. pathConfs' \in [Keys -> Confs \cup {NoConf}]
    BY <1>2, <1>4
  <2> QED
    BY <2>1, <2>2, <2>3, <2>4, <1>2, <1>7, <1>9 DEF TypeOK
<1>15. NoOrphanPath'
  <2> SUFFICES ASSUME NEW p \in Paths, path'[p].life = "run", ~path'[p].cancelled
               PROVE  paths'[path'[p].name] = p
    BY DEF NoOrphanPath
  <2>1. CASE \E n \in added : ids[n] = p
    BY <2>1, <1>8, <1>9
  <2>2. CASE \A n \in added : ids[n] # p
    <3>1. path[p].life # "off"
      BY <2>2, <1>12, OffFields
    <3>2. /\ path[p].life = "run" /\ ~path[p].cancelled /\ path'[p].name = path[p].name
          /\ \A n \in old : paths[n] # p
      BY <3>1, <2>2, <1>11, Allocated DEF PathType
    <3>3. paths[path[p].name] = p /\ path[p].name \in Names
      BY <3>1, <3>2, Allocated DEF NoOrphanPath, PathType
    <3>4. path[p].name \notin old
      BY <3>2, <3>3
    <3>5. kept[path[p].name] = p
      BY <3>3, <3>4 DEF kept
    <3>6. p # NoPath
      BY BoundsAssumption
    <3>7. path[p].name \notin added
      BY <3>5, <3>6 DEF added, missing
    <3> QED BY <3>2, <3>3, <3>5, <3>7, <1>9
  <2> QED BY <2>1, <2>2
<1>16. MappedPathsCurrent'
  <2> SUFFICES ASSUME NEW n \in Names, paths'[n] # NoPath
               PROVE  /\ path'[paths'[n]].name = n
                      /\ path'[paths'[n]].life # "off"
                      /\ path'[paths'[n]].life = "gone" => pmDone'
                      /\ pathConfs'[path'[paths'[n]].confName] = path'[paths'[n]].conf
                      /\ \/ path'[paths'[n]].confName = n
                         \/ <<path'[paths'[n]].confName, n>> \in Matches
    BY DEF MappedPathsCurrent
  <2>1. CASE n \in added
    BY <2>1, <1>2, <1>8, <1>9
  <2>2. CASE n \notin added
    <3>1. /\ paths'[n] = paths[n] /\ n \notin old /\ paths[n] \in Paths /\ paths[n] # NoPath
          /\ path[paths[n]].life # "off" /\ \A m \in added : ids[m] # paths[n]
      BY <2>2, <1>13
    <3>2. /\ path'[paths[n]].name = path[paths[n]].name
          /\ path'[paths[n]].confName = path[paths[n]].confName
          /\ path'[paths[n]].conf = path[paths[n]].conf
          /\ path'[paths[n]].life = path[paths[n]].life
      BY <3>1, <1>11
    <3>3. confs[path[paths[n]].confName] = path[paths[n]].conf
      BY <3>1 DEF old, obsolete
    <3> QED BY <3>1, <3>2, <3>3, <1>2, <1>3 DEF MappedPathsCurrent
  <2> QED BY <2>1, <2>2
<1>17. PlainPathsExist'
  <2> SUFFICES ASSUME NEW n \in Names, pathConfs'[n] # NoConf, n \notin shadowed'
               PROVE  paths'[n] # NoPath /\ path'[paths'[n]].confName = n
    BY DEF PlainPathsExist
  <2>1. CASE n \in added
    BY <2>1, <1>6, <1>7, <1>8, <1>9, BoundsAssumption
  <2>2. CASE n \notin added
    <3>1. kept[n] # NoPath /\ paths'[n] = kept[n]
      BY <2>2, <1>2, <1>9 DEF added, missing
    <3>2. path[kept[n]].confName = n
      BY <3>1, <1>2
    <3>3. /\ paths'[n] = paths[n] /\ paths[n] \in Paths
          /\ path[paths[n]].life # "off" /\ \A m \in added : ids[m] # paths[n]
      BY <3>1, <2>2, <1>13
    <3> QED BY <3>1, <3>2, <3>3, <1>11
  <2> QED BY <2>1, <2>2
<1>18. PlainPathsRun'
  <2> SUFFICES ASSUME ~pmDone', NEW n \in Names, paths'[n] # NoPath,
                      path'[paths'[n]].confName \in Names
               PROVE  path'[paths'[n]].life = "run" /\ ~path'[paths'[n]].cancelled
    BY DEF PlainPathsRun
  <2>1. CASE n \in added
    BY <2>1, <1>8, <1>9
  <2>2. CASE n \notin added
    <3>1. /\ paths'[n] = paths[n] /\ paths[n] \in Paths /\ paths[n] # NoPath
          /\ path[paths[n]].life # "off" /\ \A m \in added : ids[m] # paths[n]
          /\ \A m \in old : paths[m] # paths[n]
      BY <2>2, <1>13
    <3>2. /\ path'[paths[n]].confName = path[paths[n]].confName
          /\ path'[paths[n]].life = path[paths[n]].life
          /\ path'[paths[n]].cancelled = (path[paths[n]].cancelled \/ \E m \in old : paths[m] = paths[n])
      BY <3>1, <1>11
    <3>3. path[paths[n]].life = "run" /\ ~path[paths[n]].cancelled
      BY <3>1, <3>2, <1>3 DEF PlainPathsRun
    <3> QED BY <3>1, <3>2, <3>3
  <2> QED BY <2>1, <2>2
<1> QED
  BY <1>14, <1>15, <1>16, <1>17, <1>18 DEF IInv

\* A step that changes at most the life and the `cancelled' flag of one path
\* object, and possibly unmaps it, keeps the invariant.
LEMMA PathStepInv ==
    ASSUME IInv, NEW p \in Paths, PathLeave(p) \/ PathRelease(p) \/ PathCloseTerminated(p) \/ PathClose(p)
    PROVE  IInv'
<1> USE DEF IInv
<1>1. /\ UNCHANGED <<pathConfs, pmRun, pmDone, reloads, client, shadowed>>
      /\ path[p].life \in {"run", "leaving"}
      /\ paths' = paths \/ (PathClose(p) /\ isMapped(p) /\ paths' = [paths EXCEPT ![path[p].name] = NoPath])
  BY DEF PathLeave, PathRelease, PathCloseTerminated, PathClose
<1>2. path[p] \in PathType /\ path[p].life # "off"
  BY <1>1, Allocated
<1>3. PICK l \in {"run", "leaving", "gone"}, b \in BOOLEAN :
        path' = [path EXCEPT ![p] = [path[p] EXCEPT !.life = l, !.cancelled = b]]
  <2>1. CASE PathLeave(p)
    <3>1. path' = [path EXCEPT ![p] = [path[p] EXCEPT !.life = "leaving", !.cancelled = path[p].cancelled]]
      BY <2>1, <1>2 DEF PathLeave, PathType, TypeOK
    <3>2. path[p].cancelled \in BOOLEAN
      BY <1>2 DEF PathType
    <3> QED BY <3>1, <3>2
  <2>2. CASE PathRelease(p)
    BY <2>2, <1>1, <1>2 DEF PathRelease, PathType, TypeOK
  <2>3. CASE PathCloseTerminated(p) \/ PathClose(p)
    BY <2>3 DEF PathCloseTerminated, PathClose, TypeOK
  <2> QED BY <2>1, <2>2, <2>3
<1>4. /\ path'[p] \in PathType /\ path'[p].name = path[p].name
      /\ path'[p].confName = path[p].confName /\ path'[p].conf = path[p].conf
      /\ path'[p].life = l
      /\ \A q \in Paths \ {p} : path'[q] = path[q]
      /\ DOMAIN path' = Paths
  BY <1>2, <1>3 DEF TypeOK, PathType
<1>5. path'[p].life # "run"
  <2>1. CASE PathLeave(p)
    BY <2>1, <1>2 DEF PathLeave, PathType, TypeOK
  <2>2. CASE PathRelease(p)
    BY <2>2, <1>1, <1>2 DEF PathRelease, PathType, TypeOK
  <2>3. CASE PathCloseTerminated(p) \/ PathClose(p)
    BY <2>3, <1>2 DEF PathCloseTerminated, PathClose, TypeOK, PathType
  <2> QED BY <2>1, <2>2, <2>3
<1>6. \A n \in Names : paths'[n] # NoPath => paths'[n] = paths[n] /\ paths[n] \in Paths
  BY <1>1, <1>2 DEF TypeOK, PathType
<1>7. TypeOK'
  <2>1. paths' \in [Names -> Paths \cup {NoPath}]
    BY <1>1, <1>2 DEF TypeOK, PathType
  <2> QED BY <2>1, <1>1, <1>4 DEF TypeOK
<1>8. NoOrphanPath'
  <2> SUFFICES ASSUME NEW q \in Paths, path'[q].life = "run", ~path'[q].cancelled
               PROVE  paths'[path'[q].name] = q
    BY DEF NoOrphanPath
  <2>1. path[q].life = "run" /\ ~path[q].cancelled /\ path'[q].name = path[q].name
    BY <1>4, <1>5
  <2>2. paths[path[q].name] = q /\ path[q] \in PathType
    BY <2>1, Allocated DEF NoOrphanPath
  <2>3. CASE paths' = paths
    BY <2>1, <2>2, <2>3
  <2>4. CASE PathClose(p) /\ isMapped(p) /\ paths' = [paths EXCEPT ![path[p].name] = NoPath]
    <3>1. path[p].life = "leaving" /\ paths[path[p].name] = p
      BY <2>4 DEF PathClose, isMapped
    <3>2. path[q].name # path[p].name
      BY <3>1, <2>1, <2>2
    <3> QED BY <3>2, <2>1, <2>2, <2>4, <1>2 DEF TypeOK, PathType
  <2> QED BY <2>3, <2>4, <1>1
<1>9. ASSUME NEW n \in Names, paths[n] = p, paths'[n] = p, path'[p].life = "gone"
      PROVE  pmDone
  <2>1. path[p].name = n
    BY <1>9, BoundsAssumption DEF MappedPathsCurrent
  <2>2. ~PathClose(p)
    BY <2>1, <1>9, BoundsAssumption DEF PathClose, isMapped, TypeOK
  <2>3. ~PathLeave(p) /\ ~PathRelease(p)
    <3>1. CASE PathLeave(p)
      BY <3>1, <1>9, <1>2 DEF PathLeave, TypeOK, PathType
    <3>2. CASE PathRelease(p)
      BY <3>2, <1>9, <1>2 DEF PathRelease, TypeOK, PathType
    <3> QED BY <3>1, <3>2
  <2> QED BY <2>2, <2>3 DEF PathCloseTerminated
<1>10. MappedPathsCurrent'
  <2> SUFFICES ASSUME NEW n \in Names, paths'[n] # NoPath
               PROVE  /\ path'[paths'[n]].name = n
                      /\ path'[paths'[n]].life # "off"
                      /\ path'[paths'[n]].life = "gone" => pmDone'
                      /\ pathConfs'[path'[paths'[n]].confName] = path'[paths'[n]].conf
                      /\ \/ path'[paths'[n]].confName = n
                         \/ <<path'[paths'[n]].confName, n>> \in Matches
    BY DEF MappedPathsCurrent
  <2>1. paths'[n] = paths[n] /\ paths[n] \in Paths /\ paths[n] # NoPath
    BY <1>6
  <2>2. CASE paths[n] = p
    BY <2>1, <2>2, <1>1, <1>4, <1>9 DEF MappedPathsCurrent
  <2>3. CASE paths[n] # p
    BY <2>1, <2>3, <1>1, <1>4 DEF MappedPathsCurrent
  <2> QED BY <2>2, <2>3
<1>11. ASSUME ~pmDone, paths[path[p].name] = p PROVE path[p].confName \notin Names
  <2>1. ASSUME path[p].confName \in Names PROVE FALSE
    <3>1. path[p].life = "run" /\ ~path[p].cancelled
      BY <1>11, <1>2, <2>1, BoundsAssumption DEF PlainPathsRun, PathType
    <3>2. PathLeave(p)
      BY <3>1 DEF PathRelease, PathCloseTerminated, PathClose
    <3> QED BY <3>1, <3>2, <1>11, <2>1, KeysAssumption DEF PathLeave, Cancelled
  <2> QED BY <2>1
<1>12. PlainPathsExist'
  <2> SUFFICES ASSUME ~pmDone', NEW n \in Names, pathConfs'[n] # NoConf, n \notin shadowed'
               PROVE  paths'[n] # NoPath /\ path'[paths'[n]].confName = n
    BY DEF PlainPathsExist
  <2>1. paths[n] # NoPath /\ path[paths[n]].confName = n /\ paths[n] \in Paths
    BY <1>1 DEF PlainPathsExist, TypeOK
  <2>2. paths'[n] = paths[n]
    <3> SUFFICES ASSUME paths'[n] # paths[n] PROVE FALSE
      OBVIOUS
    <3>1. isMapped(p) /\ n = path[p].name /\ paths[n] = p
      BY <1>1, <1>2 DEF TypeOK, PathType, isMapped
    <3> QED BY <3>1, <2>1, <1>1, <1>11 DEF isMapped
  <2> QED BY <2>1, <2>2, <1>4
<1>13. PlainPathsRun'
  <2> SUFFICES ASSUME ~pmDone', NEW n \in Names, paths'[n] # NoPath,
                      path'[paths'[n]].confName \in Names
               PROVE  path'[paths'[n]].life = "run" /\ ~path'[paths'[n]].cancelled
    BY DEF PlainPathsRun
  <2>1. paths'[n] = paths[n] /\ paths[n] \in Paths /\ paths[n] # NoPath
    BY <1>6
  <2>2. paths[n] # p
    <3> SUFFICES ASSUME paths[n] = p PROVE FALSE
      OBVIOUS
    <3>1. path[p].name = n
      BY <2>1 DEF MappedPathsCurrent
    <3> QED BY <3>1, <1>1, <1>4, <1>11, <2>1
  <2> QED BY <2>1, <2>2, <1>1, <1>4 DEF PlainPathsRun
<1> QED
  BY <1>7, <1>8, <1>10, <1>12, <1>13

\* A request hands out a path, after creating it if there is none.
LEMMA RequestInv ==
    ASSUME IInv, NEW c \in Clients, NEW n \in Names, NEW kind \in Kinds, Request(c, n, kind)
    PROVE  IInv'
<1> USE DEF IInv
<1>1. UNCHANGED <<pathConfs, pmRun, pmDone, reloads>>
  BY DEF Request
<1>2. CASE /\ ~isMissing(n)
           /\ client' = [client EXCEPT ![c] = paths[n]]
           /\ UNCHANGED <<path, paths, shadowed>>
  <2>1. TypeOK'
    BY <1>1, <1>2 DEF TypeOK
  <2> QED
    BY <2>1, <1>1, <1>2 DEF NoOrphanPath, MappedPathsCurrent, PlainPathsExist, PlainPathsRun
<1>3. ASSUME NEW k \in findPathConf(n), isMissing(n), NEW p \in Unused,
             path' = [path EXCEPT ![p] = newPath(n, k, pathConfs[k])],
             paths' = [paths EXCEPT ![n] = p], client' = [client EXCEPT ![c] = p],
             shadowed' = shadowed \ {n}
      PROVE  IInv'
  <2>1. /\ p \in Paths /\ p # NoPath /\ path[p].life \in Ended /\ paths[n] = NoPath
        /\ \A m \in Names : paths[m] # p
    BY <1>3, BoundsAssumption DEF Unused, isMissing
  <2>2. k \in Keys /\ pathConfs[k] # NoConf /\ (k = n \/ <<k, n>> \in Matches)
    BY DEF findPathConf, Keys
  <2>3. pathConfs[k] \in Confs
    BY <2>2 DEF TypeOK
  <2>4. /\ path'[p] \in PathType /\ path'[p].name = n /\ path'[p].confName = k
        /\ path'[p].conf = pathConfs[k] /\ path'[p].life = "run" /\ ~path'[p].cancelled
        /\ \A q \in Paths \ {p} : path'[q] = path[q]
        /\ DOMAIN path' = Paths
    BY <2>1, <2>2, <2>3, <1>3 DEF newPath, PathType, TypeOK
  <2>5. /\ paths'[n] = p /\ \A m \in Names \ {n} : paths'[m] = paths[m]
        /\ paths' \in [Names -> Paths \cup {NoPath}]
    BY <2>1, <1>3 DEF TypeOK
  <2>6. \A m \in Names \ {n} : paths'[m] # NoPath => paths[m] \in Paths \ {p} /\ path'[paths[m]] = path[paths[m]]
    BY <2>1, <2>4, <2>5 DEF TypeOK
  <2>7. TypeOK'
    BY <2>1, <2>4, <2>5, <1>1, <1>3 DEF TypeOK
  <2>8. NoOrphanPath'
    <3> SUFFICES ASSUME NEW q \in Paths, path'[q].life = "run", ~path'[q].cancelled
                 PROVE  paths'[path'[q].name] = q
      BY DEF NoOrphanPath
    <3>1. CASE q = p
      BY <3>1, <2>4, <2>5
    <3>2. CASE q # p
      <4>1. paths[path[q].name] = q /\ path'[q] = path[q] /\ path[q].name \in Names
        BY <3>2, <2>4, Allocated DEF NoOrphanPath, PathType
      <4>2. path[q].name # n
        BY <4>1, <2>1, BoundsAssumption
      <4> QED BY <4>1, <4>2, <2>5
    <3> QED BY <3>1, <3>2
  <2>9. MappedPathsCurrent'
    <3> SUFFICES ASSUME NEW m \in Names, paths'[m] # NoPath
                 PROVE  /\ path'[paths'[m]].name = m
                        /\ path'[paths'[m]].life # "off"
                        /\ path'[paths'[m]].life = "gone" => pmDone'
                        /\ pathConfs'[path'[paths'[m]].confName] = path'[paths'[m]].conf
                        /\ \/ path'[paths'[m]].confName = m
                           \/ <<path'[paths'[m]].confName, m>> \in Matches
      BY DEF MappedPathsCurrent
    <3>1. CASE m = n
      BY <3>1, <2>2, <2>4, <2>5, <1>1
    <3>2. CASE m # n
      BY <3>2, <2>5, <2>6, <1>1 DEF MappedPathsCurrent
    <3> QED BY <3>1, <3>2
  <2>10. PlainPathsExist'
    <3> SUFFICES ASSUME ~pmDone', NEW m \in Names, pathConfs'[m] # NoConf, m \notin shadowed'
                 PROVE  paths'[m] # NoPath /\ path'[paths'[m]].confName = m
      BY DEF PlainPathsExist
    <3>1. CASE m = n
      <4>1. k = n
        BY <3>1, <1>1, <1>3 DEF findPathConf
      <4> QED BY <3>1, <4>1, <2>1, <2>4, <2>5
    <3>2. CASE m # n
      BY <3>2, <2>5, <2>6, <1>1, <1>3 DEF PlainPathsExist
    <3> QED BY <3>1, <3>2
  <2>11. PlainPathsRun'
    <3> SUFFICES ASSUME ~pmDone', NEW m \in Names, paths'[m] # NoPath,
                        path'[paths'[m]].confName \in Names
                 PROVE  path'[paths'[m]].life = "run" /\ ~path'[paths'[m]].cancelled
      BY DEF PlainPathsRun
    <3>1. CASE m = n
      BY <3>1, <2>4, <2>5
    <3>2. CASE m # n
      BY <3>2, <2>5, <2>6, <1>1 DEF PlainPathsRun
    <3> QED BY <3>1, <3>2
  <2> QED BY <2>7, <2>8, <2>9, <2>10, <2>11
<1> QED
  BY <1>2, <1>3 DEF Request

\* The steps that leave the maps and the path objects alone.
LEMMA OtherInv ==
    ASSUME IInv, UNCHANGED <<pathConfs, paths, path, reloads, shadowed>>, TypeOK', pmDone => pmDone'
    PROVE  IInv'
  BY DEF IInv, NoOrphanPath, MappedPathsCurrent, PlainPathsExist, PlainPathsRun

LEMMA NextInv == IInv /\ [Next]_vars => IInv'
<1> SUFFICES ASSUME IInv, [Next]_vars PROVE IInv'
  OBVIOUS
<1> USE DEF IInv
<1>1. CASE ConfReload
  BY <1>1, ReloadInv
<1>2. CASE \E p \in Paths : PathClose(p) \/ PathCloseTerminated(p) \/ PathLeave(p) \/ PathRelease(p)
  BY <1>2, PathStepInv
<1>3. CASE \E c \in Clients, n \in Names, kind \in Kinds : Request(c, n, kind)
  BY <1>3, RequestInv
<1>4. CASE Close
  <2>1. TypeOK'
    BY <1>4 DEF Close, TypeOK
  <2> QED BY <2>1, <1>4, OtherInv DEF Close
<1>5. CASE CtxDoneSeen
  <2>1. TypeOK'
    BY <1>5 DEF CtxDoneSeen, TypeOK
  <2> QED BY <2>1, <1>5, OtherInv DEF CtxDoneSeen
<1>6. CASE \E c \in Clients : CallPath(c) \/ CallPathTerminated(c)
  <2>1. TypeOK'
    BY <1>6 DEF CallPath, CallPathTerminated, TypeOK
  <2> QED BY <2>1, <1>6, OtherInv DEF CallPath, CallPathTerminated
<1>7. CASE UNCHANGED vars \/ Closed
  <2>1. TypeOK'
    BY <1>7 DEF Closed, vars, TypeOK
  <2> QED BY <2>1, <1>7, OtherInv DEF Closed, vars
<1> QED
  BY <1>1, <1>2, <1>3, <1>4, <1>5, <1>6, <1>7 DEF Next

\* The invariants of the path manager hold together, whatever the number of
\* names, configurations, reloads and clients.
THEOREM ManagerInvariant == Spec => []IInv
<1>1. Init => IInv
  BY InitInv
<1>2. IInv /\ [Next]_vars => IInv'
  BY NextInv
<1> QED
  BY <1>1, <1>2, PTL DEF Spec

\* No path is left running outside of the manager's map.
THEOREM NoPathLeftBehind == Spec => []NoOrphanPath
<1>1. IInv => NoOrphanPath
  BY DEF IInv
<1> QED
  BY <1>1, ManagerInvariant, PTL

\* Clients are sent to paths that run with the current configuration object.
THEOREM PathsAreCurrent == Spec => []MappedPathsCurrent
<1>1. IInv => MappedPathsCurrent
  BY DEF IInv
<1> QED
  BY <1>1, ManagerInvariant, PTL

\* A name with a configuration of its own has a path made from it, unless the
\* configuration was loaded while a path of a regular expression had the name.
THEOREM PlainPathsAreThere == Spec => []PlainPathsExist
<1>1. IInv => PlainPathsExist
  BY DEF IInv
<1> QED
  BY <1>1, ManagerInvariant, PTL

\* Reloads, requests and ends keep the paths in step with the configuration: a
\* mapped path has the current settings of the key it was created from, and
\* that is the name itself where the name has a configuration, but for the
\* names in shadowed (path_manager.go:144-156 leaves such a path running).
THEOREM PathsFollowConf == Spec => []PathsMatchConf
<1>1. IInv => PathsMatchConf
  BY DEF IInv, PathsMatchConf
<1> QED
  BY <1>1, ManagerInvariant, PTL

\* A reload closes no path whose configuration has not changed.
THEOREM ReloadIsSelective == Spec => ReloadKeepsUnchanged
<1> DEFINE Kept ==
      \A p \in Paths :
        /\ path[p].life = "run" /\ ~path[p].cancelled /\ path'[p].cancelled
        => \/ pathConfs'[path[p].confName] = NoConf
           \/ pathConfs'[path[p].confName].val # path[p].conf.val
<1>1. IInv /\ [Next]_vars => [Kept]_vars
  <2> SUFFICES ASSUME IInv, Next,
                      NEW p \in Paths, path[p].life = "run", ~path[p].cancelled, path'[p].cancelled
               PROVE  \/ pathConfs'[path[p].confName] = NoConf
                      \/ pathConfs'[path[p].confName].val # path[p].conf.val
    OBVIOUS
  <2> USE DEF IInv
  <2>1. path[p] \in PathType /\ paths[path[p].name] = p /\ path[p].name \in Names /\ p # NoPath
    BY Allocated, BoundsAssumption DEF NoOrphanPath, PathType
  <2>2. pathConfs[path[p].confName] = path[p].conf /\ path[p].confName \in Keys
    BY <2>1 DEF MappedPathsCurrent, PathType
  <2>3. CASE ConfReload
    <3>1. PICK new \in [Keys -> Vals \cup {NoConf}] :
            /\ pathConfs' = updatedConfs(new)
            /\ \E ns, ids : path' = createPaths(
                [q \in Paths |->
                    IF \E n \in obsolete(updatedConfs(new)) : paths[n] = q
                    THEN [path[q] EXCEPT !.cancelled = TRUE] ELSE path[q]],
                updatedConfs(new), ns, ids)
              /\ \A n \in ns : ids[n] \in Unused
      BY <2>3 DEF ConfReload, Allocations
    <3>2. PICK ns, ids :
            /\ path' = createPaths(
                [q \in Paths |->
                    IF \E n \in obsolete(updatedConfs(new)) : paths[n] = q
                    THEN [path[q] EXCEPT !.cancelled = TRUE] ELSE path[q]],
                updatedConfs(new), ns, ids)
            /\ \A n \in ns : ids[n] \in Unused
      BY <3>1
    <3>3. \A n \in ns : ids[n] # p
      BY <3>2, <2>1 DEF Unused
    <3>4. path'[p] = IF \E n \in obsolete(updatedConfs(new)) : paths[n] = p
                     THEN [path[p] EXCEPT !.cancelled = TRUE] ELSE path[p]
      BY <3>2, <3>3 DEF createPaths
    <3>5. PICK n \in obsolete(updatedConfs(new)) : paths[n] = p
      BY <3>4
    <3>6. updatedConfs(new)[path[p].confName] # path[p].conf
      BY <3>5 DEF obsolete
    <3>7. path[p].conf # NoConf
      BY <2>1, BoundsAssumption DEF PathType
    <3> QED BY <3>1, <3>6, <3>7, <2>2 DEF updatedConfs
  <2>4. CASE \E q \in Paths : PathClose(q) \/ PathCloseTerminated(q) \/ PathLeave(q) \/ PathRelease(q)
    BY <2>1, <2>4 DEF PathClose, PathCloseTerminated, PathLeave, PathRelease, TypeOK, PathType
  <2>5. CASE \E c \in Clients, n \in Names, kind \in Kinds : Request(c, n, kind)
    BY <2>1, <2>5 DEF Request, Unused, TypeOK
  <2>6. CASE Close \/ CtxDoneSeen \/ Closed \/ \E c \in Clients : CallPath(c) \/ CallPathTerminated(c)
    BY <2>6 DEF Close, CtxDoneSeen, Closed, CallPath, CallPathTerminated, vars
  <2> QED
    BY <2>3, <2>4, <2>5, <2>6 DEF Next
<1> QED
  BY <1>1, ManagerInvariant, PTL DEF Spec, ReloadKeepsUnchanged

=============================================================================
