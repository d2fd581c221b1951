SPECIFICATION Spec
CONSTANTS
    None = None
    Actors = {"owner", "agent"} OwnerActor = "owner" AgentActor = "agent"
    Authorities <- MCAuthorities
    ProposalIds = {1, 2, 3} AgreementIds = {1, 2, 3}
    AssessmentIds = {1, 2} DecisionIds = {1, 2, 3, 4}
    TermChoices <- MCBareTerms
    Blockers = {"b"} Grounds = {} MaxVersion = 1
    GrantIds = {} SpecChoices = {} MaxGeneration = 1
    ActionIds = {} RequestChoices = {} Contents = {}
    MaxReports = 0 ObservationKinds = {}
CONSTRAINT IdsInOrder
CHECK_DEADLOCK FALSE
INVARIANTS TypeOK LinearHistory AgreementStands
PROPERTIES SupersededNeverReturns
