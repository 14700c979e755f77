SPECIFICATION LiveSpec
CONSTANTS
    r1 = r1  r2 = r2  p1 = p1  p2 = p2  d1 = d1  s1 = s1  s2 = s2
    Readers = {r1, r2}
    RTSPReaders = {r1}
    Publishers = {p1}
    Describers = {}
    Sources = {s1}
    Confs <- AllOnDemandConfs
    MaxDrift = 2
PROPERTIES
    RequestsAnswered
    CloseEnds
    DemandReleased
