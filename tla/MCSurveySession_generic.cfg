SPECIFICATION Spec
CONSTANTS
    q1 = q1
    q2 = q2
    q3 = q3
    q4 = q4
    Survey <- FourQuestions
    v1 = v1
    v2 = v2
    Value = {v1, v2}
    MaxAnswers = 9
    Mode = "generic"
    MaxNext = 1
INVARIANTS
    GivenIsPrefix
    NextIsFirstUnanswered
    FinishedIffComplete
    TagMeansSameProgress
    AcceptedIsStored
PROPERTIES
    ImplementsLifecycle
