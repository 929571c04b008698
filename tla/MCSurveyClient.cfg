SPECIFICATION FairSpec
CONSTANTS
    q1 = q1
    q2 = q2
    Survey <- TwoQuestions
    v1 = v1
    Value = {v1}
    MaxAnswers = 9
    MaxFault = 1
    MaxBack = 2
CHECK_DEADLOCK FALSE
INVARIANTS
    TypeOK
    ClosedIsFinal
PROPERTIES
    DeletesOnlyAcknowledged
    InterviewEnds
    SessionsImplementLifecycle
