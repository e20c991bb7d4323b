CONSTANTS
    Kinds = {"physical", "depth", "audio", "rgbd"}
    Source = {"s", "t"}
    PairWait = 1
    Retention = 2
    Skew = 0
    Capacity = 2
    MaxTime = 3
    MaxEpoch = 2
SPECIFICATION Spec
INVARIANTS
    SessionsIsolated
    NoPartnersWait
PROPERTIES
    AdmittedInOrder
