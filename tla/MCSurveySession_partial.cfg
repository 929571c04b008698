SPECIFICATION Spec
CONSTANTS
    q1 = q1
    q2 = q2
    q3 = q3
    q4 = q4
    Survey <- ThreeQuestions
    v1 = v1
    v2 = v2
    Value = {v1, v2}
    MaxAnswers = 9
    Mode = "python"
    MaxNext = 2
INVARIANTS
    AcceptedIsStored
