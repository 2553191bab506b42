-------------------------------- MODULE MCDvfs ---------------------------------
(***************************************************************************)
(* Three operating points.  The supply may start below the lowest of them, *)
(* where only a stopped clock is supported.                                *)
(***************************************************************************)
EXTENDS Dvfs

MCLevels == 1 .. 3
MCVoltage == <<2, 3, 4>>
MCFrequency == <<10, 20, 30>>
MCBootVoltages == 1 .. 4
MCBootFrequencies == {0, 10, 20, 30}
===============================================================================
