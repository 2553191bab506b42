------------------------------ MODULE MCFwkCore ------------------------------
(* Small instances of FwkCore for TLC. *)
EXTENDS FwkCore

\* The code treats all event structures alike.
Symmetry == Permutations(Slots)

=============================================================================
