SPECIFICATION Spec
CONSTANTS
    None = None
    Actors = {"owner", "agent"} OwnerActor = "owner" AgentActor = "agent"
    Authorities <- MCAuthorities
    ProposalIds = {1, 2} AgreementIds = {1, 2}
    AssessmentIds = {1, 2} DecisionIds = {1, 2, 3, 4}
    TermChoices <- MCBareTerms
    Blockers = {} Grounds = {} MaxVersion = 1
    GrantIds = {1} SpecChoices <- MCNativeSpecs MaxGeneration = 3
    ActionIds = {1} RequestChoices <- MCRequest Contents = {}
    MaxReports = 1 ObservationKinds = {"progress"}
CONSTRAINT IdsInOrder
CHECK_DEADLOCK FALSE
PROPERTY NothingRevives
