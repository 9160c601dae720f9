\* Startup, drain and readiness: two requests in flight, three configurations.
SPECIFICATION Spec
CONSTANTS
    c1 = c1
    c2 = c2
    Connectors = {c1, c2}
    Backing <- ThreeConfigurations
    Requests = {r1, r2}
CHECK_DEADLOCK FALSE
INVARIANTS
    ExitStatusIsTrue
    CutOnlyAfterTimeout
PROPERTIES
    ExitsAfterSignal
    ReadinessSettles
