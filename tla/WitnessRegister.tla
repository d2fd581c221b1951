-------------------------- MODULE WitnessRegister --------------------------
(***************************************************************************)
(* What publishing a witness promises the store (adapters/sqlite/          *)
(* control.rs): one register whose values form a chain.                    *)
(*                                                                         *)
(* `shown' is the chain of values up to the one a reader is shown, `kept'  *)
(* the part of it that was acknowledged.  A publication adds one value to  *)
(* what is shown.  Losing power may take back values, but none that was    *)
(* acknowledged.                                                           *)
(***************************************************************************)
EXTENDS Naturals, Sequences

CONSTANTS Marks     \* values that can be published

VARIABLES shown, kept

Init == shown = <<>> /\ kept = <<>>

Publish ==
    /\ \E m \in Marks : shown' = Append(shown, m)
    /\ UNCHANGED kept

Acknowledge ==
    /\ Len(shown) > Len(kept)
    /\ kept' = shown
    /\ UNCHANGED shown

LosePower ==
    /\ \E n \in Len(kept) .. Len(shown) : shown' = SubSeq(shown, 1, n)
    /\ UNCHANGED kept

Next == Publish \/ Acknowledge \/ LosePower

Spec == Init /\ [][Next]_<<shown, kept>>
=============================================================================
