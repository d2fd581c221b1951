SPECIFICATION ProvenanceSpec
CONSTANTS
    None = None
    Actors = {"owner", "agent", "helper"} OwnerActor = "owner" AgentActor = "agent"
    Authorities <- MCCallers
    ProposalIds = {1} AgreementIds = {1}
    AssessmentIds = {1} DecisionIds = {1, 2}
    TermChoices <- MCTerms
    Blockers = {"m"} Grounds = {"g"} MaxVersion = 2
    GrantIds = {1} SpecChoices <- MCSpecs MaxGeneration = 2
    ActionIds = {} RequestChoices = {} Contents = {"t", "m"} Novel = {"m"}
    MaxReports = 0 ObservationKinds = {"finding", "adapt", "progress"}
    MaxOperations = 7 MaxCitations = 2
CONSTRAINTS IdsInOrder FewRewritten ReportsMakeSomething CitedWhereEstablished
CHECK_DEADLOCK FALSE
INVARIANTS DelegatesKnowTheWhole FoundWhereUsed
PROPERTIES SettlementFreezesPursuit ReachIsGranted
