CONSTANTS
    None = None
    Unparseable = Unparseable
    TicksPerSecond = 1
    id1 = id1
    id2 = id2
    t1 = t1
    t2 = t2
    m1 = m1
    Keys <- CacheKeys
    Requests = {r1}
    Models = {m1, m2}
    Bodies = {b1, b2}
    IdemKeys = {i1}
    Calls <- ChatOnly
    Costs = {}
    MaxCost = 0
    Calendar <- Days
    Revocable = {}
    MaxNow = 0
    MaxGen = 1
SPECIFICATION Spec
INVARIANTS
    HitIsOfOwnScope
    HitIsOfOwnRuntime
