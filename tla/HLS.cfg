SPECIFICATION FairSpec
CONSTANTS
    n1 = n1  m1 = m1  m2 = m2  q1 = q1  q2 = q2
    None = None
    Names = {n1}
    Remuxers = {m1, m2}
    Requests = {q1, q2}
INVARIANTS
    NoOrphanRemuxer
    HandlersAccounted
    EndedRemuxersDetached
PROPERTIES
    CallersReleased
    IdleRemuxersEnd
    HLSCloseCompletes
CHECK_DEADLOCK FALSE
