CONSTANTS
    Evidence <- Mixed
    Freshness = 2
    Ttl = 3
    Skew = 0
    Capacity = 2
    MaxTime = 6
    MaxReceipt = 0
SPECIFICATION Spec
INVARIANTS
    ReferencesGrounded
    AdmissionsOrdered
PROPERTIES
    AdmittedOnce
