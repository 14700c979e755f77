SPECIFICATION Spec
CONSTANTS
    Nil = Nil
    PathNames <- MCPathNames
    FileConfs <- MCFileConfs
    SetBodies <- MCSetBodies
    PathBodies <- MCPathBodies
    MaxRequests = 2
INVARIANTS
    ReloadIsIdentity
PROPERTIES
    ChangesOnlyWhatIsNamed
