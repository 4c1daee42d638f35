SPECIFICATION Spec
CONSTANTS
    Requests <- SomeRequests
    Networks <- AllNetworks
    Tokens <- AllTokens
INVARIANTS
    ReviewedAsSent
    ShownOrWarned
    VTellsParity
