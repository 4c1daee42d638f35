SPECIFICATION Spec
CONSTANTS
    NB_MAX_DISPLAYED_PAIRS_IN_REVIEW = 2
    MAX_CACHED_ITEMS = 2
    MAX_CHARS = 25
    MaxAnswers = 3
    Reviews <- AllReviews
INVARIANTS
    NothingFromElsewhere
    ApprovedAfterReading
    AnswersFinal
