SPECIFICATION Spec
CONSTANTS
    off = off  k1 = k1  k2 = k2
    Off = off
    Nil = Nil
    Values <- MCValues
    FileConfs <- MCFileConfs
    FirstConfs <- MCFirstConfs
    Changes <- MCChanges
    Clients = {k1, k2}
    MaxReloads = 2
INVARIANTS
    ResourcesMatchConf
    ReferencesAlive
    APIShowsCurrent
