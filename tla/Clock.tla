-------------------------------- MODULE Clock --------------------------------
(***************************************************************************)
(* What the modules about clocks share.                                    *)
(***************************************************************************)
CONSTANT None  \* Nobody, or nothing under way.

\* enum mod_clock_state
States == {"RUNNING", "STOPPED"}
==============================================================================
