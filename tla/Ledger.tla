------------------------------- MODULE Ledger -------------------------------
(***************************************************************************)
(* What one Change's original promises its callers, whatever happens to    *)
(* the process or to the files underneath: an append-only log in which     *)
(* each operation appears at most once, one attempt at a time, and answers *)
(* about an operation that are given only when no attempt of it can still  *)
(* take effect, and that are then the truth.                               *)
(***************************************************************************)
EXTENDS Naturals, Sequences

CONSTANTS Requests,   \* operations callers may ask to append
          None

VARIABLES log,        \* operations that took effect, in order
          attempt,    \* the operation whose fate is still open, or None
          verdict     \* what the callers were last told of each operation

Verdicts == {"none", "asked", "accepted", "absent"}

InLog(r) == \E i \in DOMAIN log : log[i] = r

Init ==
    /\ log = <<>>
    /\ attempt = None
    /\ verdict = [r \in Requests |-> "none"]

\* A caller asks for an operation that has not taken effect.
Submit(r) ==
    /\ attempt = None
    /\ ~InLog(r)
    /\ attempt' = r
    /\ verdict' = [verdict EXCEPT ![r] = "asked"]
    /\ UNCHANGED log

\* The open attempt takes effect, once.
Commit ==
    /\ attempt # None
    /\ ~InLog(attempt)
    /\ log' = Append(log, attempt)
    /\ UNCHANGED <<attempt, verdict>>

\* The attempt is closed: whatever it did, it will do nothing more.
Conclude ==
    /\ attempt # None
    /\ attempt' = None
    /\ UNCHANGED <<log, verdict>>

\* A caller is told the truth about an operation nobody is attempting.
Answer(r) ==
    /\ attempt # r
    /\ verdict' = [verdict EXCEPT ![r] = IF InLog(r) THEN "accepted" ELSE "absent"]
    /\ UNCHANGED <<log, attempt>>

Next == Commit \/ Conclude \/ \E r \in Requests : Submit(r) \/ Answer(r)

vars == <<log, attempt, verdict>>

Spec == Init /\ [][Next]_vars
=============================================================================
