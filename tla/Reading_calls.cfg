SPECIFICATION ReadSpec
CONSTANTS
    None = None
    Torn = Torn
    Provision = Provision
    Requests = {r1, r2}
    MaxDamage = 1
    MaxCrashes = 1
    Worlds <- MCWorlds
    PageLimits <- MCPageLimits
    Probes <- MCProbes
    SourceCeiling = 9
    IoCeiling = 90
    MaxMoves = 1
SYMMETRY Symmetric
CONSTRAINT Explored
CHECK_DEADLOCK FALSE
INVARIANTS AnswersAreTheHistory NothingWithoutPermission WorkIsReserved CoverageIsExact
