SPECIFICATION KeySpec
CONSTANTS
    Signatures <- AllSignatures
    Transaction <- Type2
INVARIANTS
    NothingLeftOver
    AnswersTheSignature
