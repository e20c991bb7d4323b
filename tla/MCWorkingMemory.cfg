CONSTANTS
    Evidence <- Mixed
    Ttl = 2
    Skew = 0
    RecentCapacity = 4
    EntityCapacity = 1
    SemanticCapacity = 1
    MaxTime = 6
    MaxReceipt = 1
SPECIFICATION Spec
INVARIANTS
    SemanticsSound
    WindowsExact
    CurrentIsNewest
