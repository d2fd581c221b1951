----------------------------- MODULE MCCreation -----------------------------
(***************************************************************************)
(* Creation on two Changes, and the requests that make it hard.            *)
(***************************************************************************)
EXTENDS Creation

CONSTANTS c1, c2, p, s1, s2, short, long

Ask1(start, raw) == [change |-> c1, path |-> p, start |-> start, raw |-> raw]

Ask2 == [change |-> c2, path |-> p, start |-> s2, raw |-> short]

\* One request in two encodings, the same Change with another Start, and
\* another Change that names the same path.
RivalIntents == {Ask1(s1, short), Ask1(s1, long), Ask1(s2, short), Ask2}
=============================================================================
