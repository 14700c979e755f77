SPECIFICATION Spec
CONSTANTS
    Files <- MCFiles
    MaxChanges = 5
    MaxIdle = 1
PROPERTIES
    ChangesAreLoaded
    CloseReturns
CHECK_DEADLOCK FALSE
