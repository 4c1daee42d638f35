SPECIFICATION ItemsSpec
CONSTANTS
    PageLen = 4
    Room = 11
    Messages <- MCMessages
    Paths <- MCPaths
    Address <- MCAddress
    Amounts <- MCAmounts
    Tokens <- MCTokens
INVARIANTS
    EveryItemReadable
    SignsWhatWasRead
