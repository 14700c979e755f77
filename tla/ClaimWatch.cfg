SPECIFICATION Spec
CONSTANTS
    Files <- MCFiles
    MaxChanges = 3
    MaxIdle = 1
INVARIANTS
    SignalsFollowChanges
