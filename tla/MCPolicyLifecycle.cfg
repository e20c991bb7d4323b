SPECIFICATION PSpec
CONSTANTS
    None = None
    Teacher = Teacher
    ScenarioOf <- MCScenarioOf
    Answers <- MCAnswers
    Events <- MCEvents
    SourceRange <- MCSourceRange
    Blueprints <- MCBlueprints
    Rules <- MCRules
    RollbackRules <- MCRollbackRules
    RollbackClaims <- MCRollbackClaims
    Authorities <- MCAuthorities
    Libraries <- MCLibraries
    MaxEvents = 7
    MaxPartition = 2
    MaxVersions = 2
    MaxFamilies = 1
    Oversized <- MCOversized
INVARIANTS
    EpisodesSound
    RegistrySound
    ReleasesSound
CHECK_DEADLOCK FALSE
