CONSTANTS
    c1 = c1  c2 = c2
    Command <- TwoTargets
    Threads = 2
    SnapshotAge = 1
    StateAge = 1
    Tolerance = 1
    LeastChange = 1
    MaxPosition = 2
    Scenarios <- LateStatesOrFaults
SPECIFICATION FairSpec
INVARIANTS
    CompletedIsObserved
    UndispatchedNeverTaken
PROPERTIES
    ClosedIsFinal
    CommandsAnswered
CHECK_DEADLOCK FALSE
