SPECIFICATION FairSpec
CONSTANTS
    Letters <- MCLetters
    Answers <- MCAnswers
    MaxMoves = 3
    MaxQueue = 3
CHECK_DEADLOCK FALSE
INVARIANTS
    TypeOK
    OwnAnswerOnly
    IdleIsSettled
    WholeAnswer
    NothingUnsaved
PROPERTIES
    GenerationEnds
