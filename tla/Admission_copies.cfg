SPECIFICATION Spec
CONSTANTS
    None = None
    Names = {"t", "i"}
    Inputs <- MCInputs
    Holds <- MCHolds
    Caps <- MCCaps
    MaxPage = 5
    MaxDepth = 3
    MaxSchema = 3
    MaxRows = 3
    Interval = 4
CONSTRAINT Explored
CHECK_DEADLOCK FALSE
INVARIANTS ReplayIsLastCommit AdmissionIsExact
PROPERTY WalkEnds
