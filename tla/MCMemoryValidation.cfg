CONSTANTS
    owner = owner
    m1 = m1  m2 = m2  m3 = m3
    v1 = v1  v2 = v2  k1 = k1  k2 = k2  a = a
    Client <- One
    MemoryId <- Ids3
    Key <- Keys
    Value <- Values
    Provenance = {owner}
    CorrectionProvenance = {owner}
    Nil = Nil
    MaxTime = 0
    ClockMayRegress = FALSE
    Norm <- VariantKeys
    OtherWrites = {"create", "correct", "retract"}
SPECIFICATION VSpec
SYMMETRY Symmetric
INVARIANTS
    ApplySound
    PolicyAccepts
PROPERTIES
    CorrectionsJustified
    AppliedAsDecided
