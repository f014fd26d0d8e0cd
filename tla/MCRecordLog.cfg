SPECIFICATION Spec
CONSTANTS
    r1 = r1
    r2 = r2
    r3 = r3
    Records = {r1, r2, r3}
    MaxCrashes = 2
SYMMETRY Interchangeable
INVARIANTS DurableSurvives AnswersHold
CHECK_DEADLOCK FALSE
