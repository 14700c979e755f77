SPECIFICATION Spec
CONSTANTS
    s1 = s1  s2 = s2  k1 = k1  k2 = k2
    Sessions = {s1, s2}
    Kickers = {k1, k2}
    Other = Other
    MaxLogins = 4
    MaxPaths = 2
    Mixes = {{"login"}, {"kick"}, {"replace"}}
SYMMETRY Symmetric
INVARIANTS
    HandlersDontPanic
    ClosedSessionsLeave
    SessionMatchesPath
