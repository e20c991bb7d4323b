CONSTANTS
    Evidence <- Seen
    Items <- SeenItems
    Confidence <- SeenConfidence
    Requests <- CallerRequests
    Offers <- CallerOffers
    SubMicro = {1}
    Robot = "ayyo"
    Ttl = 1
    Freshness = 0
    Skew = 1
    RecentCapacity = 5
    EntityCapacity = 1
    SemanticCapacity = 2
    MaxTime = 2
    MaxReceipt = 0
    MaxEvidence = 4
    MaxProposals = 2
    MaxDiagnostics = 4
    DecisionType = {"ACCEPT_NEW", "REJECT"}
    MaxSelection = 3
    MaxCharacters = 9
    ProposalSize = 3
    DiagnosticSize = 1
SPECIFICATION CSpec
INVARIANTS
    DiscoveryExact
    ReviewsSound
