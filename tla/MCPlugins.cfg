\* Two requests in the chain at once.
SPECIFICATION Spec
CONSTANTS
    m1 = m1
    m2 = m2
    Models = {m1, m2}
    Chain <- ThreePlugins
    b1 = b1
    b2 = b2
    Bodies = {b1, b2}
    Redacted <- Redaction
    Requests = {r1, r2}
INVARIANTS
    ForwardedThroughTheChain
    RejectedByTheLastToRun
    InterruptedAfterOwnBudget
PROPERTIES
    GuestsDoNotBlock
