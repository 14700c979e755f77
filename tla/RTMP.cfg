SPECIFICATION Spec
CONSTANTS
    c1 = c1  c2 = c2
    Conns = {c1, c2}
    MaxConns <- MCMaxConns
    Restart = TRUE
    Other = Other
INVARIANTS
    NothingLeftBehind
    WorkersAreListed
PROPERTIES
    CancelledConnsEnd
