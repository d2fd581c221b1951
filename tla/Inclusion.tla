------------------------------ MODULE Inclusion ------------------------------
(***************************************************************************)
(* What the register and the originals promise together, abstractly        *)
(* (CHANGEKERNEL_SYSTEM.md, "Inclusion"): the first complete request for a  *)
(* Change is retained for good, one original is bound to it before its     *)
(* Start is accepted, inclusion is confirmed before ordinary use is         *)
(* activated, no step is undone, and progress is reported only once it is   *)
(* true.                                                                   *)
(***************************************************************************)
CONSTANTS Changes, Requests, Originals, None

VARIABLES retained,   \* the request kept for each Change, or None
          original,   \* the original bound to it, or None
          standing,   \* how far its creation has come
          told        \* the progress callers were ever told of it

Standings == {"absent", "reserved", "bound", "started", "included", "active"}

Answers == {"pending inclusion", "pending activation", "ready"}

\* What each answer says has happened.
Proves(a) ==
    CASE a = "pending inclusion"  -> {"started", "included", "active"}
      [] a = "pending activation" -> {"included", "active"}
      [] a = "ready"              -> {"active"}

Init ==
    /\ retained = [c \in Changes |-> None]
    /\ original = [c \in Changes |-> None]
    /\ standing = [c \in Changes |-> "absent"]
    /\ told = [c \in Changes |-> {}]

Moves(c, from, to) ==
    /\ standing[c] = from
    /\ standing' = [standing EXCEPT ![c] = to]

Reserve(c, q) ==
    /\ Moves(c, "absent", "reserved")
    /\ retained' = [retained EXCEPT ![c] = q]
    /\ UNCHANGED <<original, told>>

Bind(c, o) ==
    /\ Moves(c, "reserved", "bound")
    /\ \A other \in Changes : original[other] # o
    /\ original' = [original EXCEPT ![c] = o]
    /\ UNCHANGED <<retained, told>>

Start(c) ==
    /\ Moves(c, "bound", "started")
    /\ UNCHANGED <<retained, original, told>>

Include(c) ==
    /\ Moves(c, "started", "included")
    /\ UNCHANGED <<retained, original, told>>

Activate(c) ==
    /\ Moves(c, "included", "active")
    /\ UNCHANGED <<retained, original, told>>

Tell(c, a) ==
    /\ standing[c] \in Proves(a)
    /\ told' = [told EXCEPT ![c] = @ \cup {a}]
    /\ UNCHANGED <<retained, original, standing>>

Next ==
    \E c \in Changes :
        \/ \E q \in Requests : Reserve(c, q)
        \/ \E o \in Originals : Bind(c, o)
        \/ Start(c) \/ Include(c) \/ Activate(c)
        \/ \E a \in Answers : Tell(c, a)

vars == <<retained, original, standing, told>>

Spec == Init /\ [][Next]_vars
=============================================================================
