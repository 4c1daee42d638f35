SPECIFICATION Spec
CONSTANTS
    ExtraScreens = 1
    Builds <- AllBuilds
    Reviews <- AllReviews
INVARIANT ApprovedAfterReading
PROPERTIES
    StaleSkipHarmless
    ImplementsLine
    RightReachesEnd
