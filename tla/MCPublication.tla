--------------------------- MODULE MCPublication ---------------------------
(***************************************************************************)
(* Small instances of Publication: two processes, the directory and one    *)
(* copy of it.                                                             *)
(***************************************************************************)
EXTENDS Publication, TLC

Symmetric == Permutations(Procs)
=============================================================================
