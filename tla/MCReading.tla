----------------------------- MODULE MCReading -----------------------------
(***************************************************************************)
(* Small instances of Reading: two operations, a host that withdraws one   *)
(* permission or moves its version, and pages of one or two records.       *)
(***************************************************************************)
EXTENDS Reading, TLC

Symmetric == Permutations(Requests)

World(version, permits) == [version |-> version, permits |-> permits]

MCWorlds ==
    {World(0, Permits), World(1, Permits), World(0, {"history", "content", "custody"}),
     World(0, {"owner", "custody"}), World(0, {"owner", "history", "content"})}

Limits(scanned, returned, reply) ==
    [scanned |-> scanned, returned |-> returned, reply |-> reply]

MCPageLimits ==
    {Limits(1, 2, 3), Limits(2, 1, 3), Limits(2, 2, 3), Limits(2, 2, 2),
     Limits(2, 2, 1), Limits(2, 2, 0)}

Whole(n, r) == [at |-> n, operation |-> r]

\* Requests nobody resolved: positions and cursors made up.
MCProbes ==
    LET From(cursor, r, s, limits) ==
            [after |-> Whole(0, None), through |-> Whole(2, r), selection |-> s,
             cursor |-> cursor, limits |-> limits]
        Cursor(at, op, r, s) ==
            [after |-> Whole(0, None), through |-> Whole(2, r), selection |-> s,
             last |-> Whole(at, op)]
    IN  {From(Cursor(1, op, r, s), r, s, Limits(2, 2, 3)) :
            op \in Requests, r \in Requests, s \in {{r1} : r1 \in Requests}}
        \cup {From(Cursor(1, op, r, Requests), r, {r}, Limits(2, 2, 3)) :
                op \in Requests, r \in Requests}

\* Explored: what callers of a writer were told makes no difference to a
\* reader; a writer's steps before the lease and after a failure make none to
\* the call; a host that has moved is left at the end of the call; and a walk
\* goes on over a store whose journal is where it was.
Explored ==
    /\ \A r \in Requests : verdict[r] # "absent"
    /\ call # None => At("down")
    /\ moves > 0 => call # None \/ answer # None
    /\ walk # None =>
         /\ moves = 0 /\ wal # None /\ objects = 1
         /\ call # None => call.about = None
         /\ walk.ended => answer # None
=============================================================================
