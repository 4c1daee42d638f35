SPECIFICATION Spec
CONSTANTS
    ExtraScreens = 0
    MAX_DEPTH = 3
    Tree <- ShallowTree
INVARIANT KnowsWhereItIs
PROPERTIES
    ReturnsWhereItBegan
    WalkEnds
