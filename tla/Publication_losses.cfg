SPECIFICATION Spec
CONSTANTS
    None = None
    Procs = {p, q}
    MaxDirs = 2
    MaxFiles = 4
    MaxHarm = 2
    MaxLosses = 2
SYMMETRY Symmetric
CHECK_DEADLOCK FALSE
INVARIANTS AuthorityIsOne WitnessSurvives
PROPERTY ImplementsRegister
