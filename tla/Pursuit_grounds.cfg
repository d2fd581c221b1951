SPECIFICATION Spec
CONSTANTS
    None = None
    Actors = {"owner", "agent"} OwnerActor = "owner" AgentActor = "agent"
    Authorities <- MCAuthorities
    ProposalIds = {1} AgreementIds = {1}
    AssessmentIds = {1, 2} DecisionIds = {1, 2, 3}
    TermChoices <- MCTerms
    Blockers = {"b"} Grounds = {"g"} MaxVersion = 2
    GrantIds = {} SpecChoices = {} MaxGeneration = 1
    ActionIds = {} RequestChoices = {} Contents = {}
    MaxReports = 0 ObservationKinds = {"finding"}
CONSTRAINT IdsInOrder
CHECK_DEADLOCK FALSE
INVARIANT FulfilledResolvesEveryBlocker
PROPERTY ActivationOnFreshGrounds
