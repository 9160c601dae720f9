CONSTANTS
    None = None
    Unparseable = Unparseable
    id1 = id1
    id2 = id2
    t1 = t1
    t2 = t2
    Keys <- TwoKeys
    TicksPerSecond = 1
    Requests = {r1, r2}
    Admins = {a1}
    MaxNow = 2
SPECIFICATION Spec
SYMMETRY Symmetry
INVARIANTS
    TypeOK
    AdmissionFollowsOneKeySet
    BurstBound
