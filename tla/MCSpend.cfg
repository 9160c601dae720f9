CONSTANTS
    None = None
    Unparseable = Unparseable
    TicksPerSecond = 1
    id1 = id1
    id2 = id2
    t1 = t1
    t2 = t2
    m1 = m1
    Keys <- BudgetKeys
    Requests = {r1, r2}
    Models = {m1}
    Bodies = {b1}
    IdemKeys = {}
    Calls <- OneOfEach
    Costs = {1, 2}
    MaxCost = 2
    Calendar <- Days
    Revocable = {id1}
    MaxNow = 1
    MaxGen = 0
SPECIFICATION Spec
SYMMETRY Symmetry
INVARIANTS
    TypeOK
    OvershootBound
    NeverOvercounts
    ChargedExactlyOnce
