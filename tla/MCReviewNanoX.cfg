SPECIFICATION Spec
CONSTANTS
    ExtraScreens = 0
    Reviews <- AllReviews
INVARIANTS
    TypeOK
    ApprovedAfterReading
PROPERTIES
    RightReads
    ImplementsLine
    RightReachesApproval
