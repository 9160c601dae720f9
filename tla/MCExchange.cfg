SPECIFICATION Spec
CONSTANTS
    None = None
    Statuses = {200, 400, 503}
    Tokens = {1, 2}
    Pricing <- PricingValue
    Models <- ModelsValue
    Unregistered <- UnregisteredValue
    ClaudeNames = {"claude-x"}
    Scripts <- ScriptsValue
INVARIANTS
    TypeOK
    TrailMatchesAttempts
    ForwardedIsTheResponse
    ChargedForWhatWasForwarded
    PricedAsServed
    ClientIsToldTheTruth
PROPERTIES
    ImplementsUpstream
    HungProvidersDoNotBlock
    NothingStaysPending
