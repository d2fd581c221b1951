SPECIFICATION Spec
CONSTANTS
    None = None
    Actors = {"owner", "agent"} OwnerActor = "owner" AgentActor = "agent"
    Authorities <- MCAuthorities
    ProposalIds = {1} AgreementIds = {1}
    AssessmentIds = {1} DecisionIds = {1, 2}
    TermChoices <- MCBareTerms
    Blockers = {} Grounds = {"g"} MaxVersion = 2
    GrantIds = {1, 2} SpecChoices <- MCNativeSpecs MaxGeneration = 2
    ActionIds = {1} RequestChoices <- MCRequest Contents = {}
    MaxReports = 1 ObservationKinds = {"adapt"}
CONSTRAINT IdsInOrder
CHECK_DEADLOCK FALSE
PROPERTY QueueIsSafe
