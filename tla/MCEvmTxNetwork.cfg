SPECIFICATION Spec
CONSTANTS
    Requests <- OnePerNetwork
    Networks <- AllNetworks
    Tokens <- AllTokens
INVARIANTS
    SupportedChainsAccepted
