------------------------------- MODULE MCTimer -------------------------------
(* Small instances of Timer for TLC. *)
EXTENDS Timer

\* The code treats all alarms alike, and so do the instances that stop all of
\* them, but for those whose callback stops its own alarm.
Symmetry == Permutations(SelfStop) \cup Permutations(Alarms \ SelfStop)

=============================================================================
