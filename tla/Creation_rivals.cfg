SPECIFICATION FairSpec
CONSTANTS
    c1 = c1
    c2 = c2
    p = p
    s1 = s1
    s2 = s2
    short = short
    long = long
    None = None
    Changes = {c1, c2}
    Paths = {p}
    Starts = {s1, s2}
    Encodings = {short, long}
    Intents <- RivalIntents
    MaxDirectories = 2
    MaxWork = 1
    MaxFailures = 2
    MaxMoves = 2
INVARIANTS OriginalIsTheFirst WorkNeedsInclusion AnswersCanBeReliedOn
PROPERTIES ImplementsInclusion PendingCreationCompletes
CHECK_DEADLOCK FALSE
