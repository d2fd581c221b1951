SPECIFICATION Spec
CHECK_DEADLOCK FALSE
CONSTANTS
    o1 = o1
    o2 = o2
    amy = amy
    bob = bob
    k = k
    k2 = k2
    b1 = b1
    b2 = b2
    g = g
    first = first
    later = later
    None = None
    Ids = {o1, o2}
    Actors = {amy, bob}
    Contents = {k, k2}
    Bytes = {b1, b2}
    Grounds = {g}
    Versions = {0, 1}
    Effects = {first, later}
    Kernel <- KernelAnswer
    Requests <- SharingRequests
    Worlds <- SharingWorlds
    MaxMoves = 2
    MaxFailures = 0
INVARIANTS AlwaysReadable ContentStands ReadsAreHistory
