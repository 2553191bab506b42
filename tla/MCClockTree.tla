----------------------------- MODULE MCClockTree -----------------------------
(***************************************************************************)
(* The tree of the walk-throughs of clock_management_framework.md: a root, *)
(* its child, and two children of that.                                    *)
(***************************************************************************)
EXTENDS ClockTree

MCClocks == 0 .. 3
MCParent == (0 :> None) @@ (1 :> 0) @@ (2 :> 1) @@ (3 :> 1)

\* Nothing runs, or a leaf and what is above it.
MCBootStates == {{}, {0, 1, 2}}

\* Two siblings start and stop again; a rate changes about a start; rates change
\* while earlier changes are on their way.
MCPlans == {<<4, 0>>, <<1, 1>>, <<0, 3>>}

\* Two calls at once.
MCTwoAsks == {<<2, 0>>}
=============================================================================
