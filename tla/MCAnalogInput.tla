--------------------------- MODULE MCAnalogInput ---------------------------
(***************************************************************************)
(* Raw readings out of range at both ends, on both sides of a percentage   *)
(* step, and at percentages 0, 1, 2, 3, 99 and 100: neighbours less than,  *)
(* exactly and more than a deadband of two apart.                          *)
(***************************************************************************)
EXTENDS AnalogInput

MCCounts == Percentages
MCReadings == {-1, 0, 40, 41, 82, 123, 4054, 4094, 4095, 4096}
=============================================================================
