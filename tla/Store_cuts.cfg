SPECIFICATION FairSpec
CONSTANTS
    None = None
    Torn = Torn
    Provision = Provision
    Requests = {r1, r2}
    MaxDamage = 2
    MaxCrashes = 3
CHECK_DEADLOCK FALSE
INVARIANTS WitnessTellsTheTruth LiveShowsEverything
PROPERTIES NoAutomaticAbort ImplementsLedger OpensAgain
