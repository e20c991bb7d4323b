CONSTANTS
    owner = owner  inference = inference
    m1 = m1  m2 = m2  m3 = m3
    v1 = v1  v2 = v2  k1 = k1  k2 = k2  a = a  b = b
    Client <- Clients
    MemoryId <- Ids
    Key <- Keys
    Value <- Values
    Provenance = {owner, inference}
    CorrectionProvenance = {owner}
    Nil = Nil
    MaxTime = 1
    ClockMayRegress = TRUE
SPECIFICATION Spec
CONSTRAINT Bounded
SYMMETRY Symmetric
INVARIANTS
    TypeOK
    ConflictsExact
    RevisionsSound
    ToldIsStored
    ResolutionsJustified
PROPERTIES
    HistoryImmutable
