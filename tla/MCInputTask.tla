----------------------------- MODULE MCInputTask -----------------------------
(***************************************************************************)
(* All four inputs report their first value through a queue of one, which  *)
(* they share with the network callbacks.  Then the slider and one of the  *)
(* twins, button and toggle, move, or the encoder turns; the rest keep     *)
(* still.  A counter of 0..1, two readings and a debounce that has always    *)
(* run out keep the product of the drivers small: MCDrivers has the rest.  *)
(***************************************************************************)
EXTENDS InputTask

MCCounts == -1..100
=============================================================================
