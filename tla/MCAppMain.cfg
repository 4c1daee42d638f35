SPECIFICATION Spec
CONSTANTS
    Exceptions <- MCExceptions
    FailingReviews <- OwnReviews
    COIN_SECRET_REQUIRED_CLICKS = 2
INVARIANTS
    TypeOK
    AnsweredOnScreen
    WarnsIffBlind
PROPERTIES
    ImplementsRpc
