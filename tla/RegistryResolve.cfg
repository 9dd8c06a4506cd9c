SPECIFICATION FairSpec
CONSTANTS
    Digests = {d1, d2}
    Absent = Absent
CHECK_DEADLOCK FALSE
INVARIANTS
    AnswerIsCurrent
    HonestRegistryAnswers
    RequestsBounded
PROPERTIES
    OperationEnds
