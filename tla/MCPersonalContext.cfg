CONSTANTS
    owner = owner
    m1 = m1  m2 = m2  m3 = m3
    v1 = v1  v2 = v2  a = a
    taste = taste  episode = episode  foreign = foreign
    Client = {a}
    MemoryId <- Ids
    Key = {taste, episode, foreign}
    Value <- Values
    Provenance = {owner}
    CorrectionProvenance = {owner}
    Nil = Nil
    MaxTime = 0
    ClockMayRegress = FALSE
    OwnerKeys = {taste, episode}
    ContextKeys = {taste}
SPECIFICATION CSpec
SYMMETRY Symmetric
INVARIANTS
    SnapshotOfOneState
    OnlyWritersRefuse
