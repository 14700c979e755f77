SPECIFICATION FairSpec
CONSTANTS
    a = a  all = all  x = x  y = y  q1 = q1  q2 = q2  q3 = q3  c1 = c1
    NoConf = NoConf  NoPath = NoPath
    Names = {a}
    Regexps = {all}
    Matches <- AllMatches
    Vals = {x, y}
    Restricted <- YRestricted
    Paths = {q1, q2, q3}
    Clients = {c1}
    MaxReloads = 2
INVARIANTS
    NoOrphanPath
    PathsMatchConf
PROPERTIES
    ReloadKeepsUnchanged
    CallersReturn
    CloseCompletes
