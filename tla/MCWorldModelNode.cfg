CONSTANTS
    Freshness = 0
    Ttl = 1
    Skew = 0
    MaxTime = 2
    PairWait = 1
    MaxCalls = 5
    MaxRegress = 1
    Parameters <- Compositions
SPECIFICATION Spec
INVARIANTS
    OneEpoch
    AnswersSound
CHECK_DEADLOCK FALSE
