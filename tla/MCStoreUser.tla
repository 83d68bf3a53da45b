---------------------------- MODULE MCStoreUser ----------------------------
(***************************************************************************)
(* The two parts of a station with no task of their own, one per behaviour *)
(* because they share nothing: the store under its user, and the codecs.   *)
(* The store has three entries, two inputs and the system source: it fills *)
(* with faults alone, with inputs alone and with both.  The codecs have    *)
(* eight-bit types for the 32-bit ones; the sequence counter takes all of  *)
(* its values and goes over the wrap.                                      *)
(***************************************************************************)
EXTENDS StoreUser, Wire

VARIABLE part     \* "store" or "codecs": the one at work

partsVars == <<part, userVars, wireVars>>

PartsInit == part \in {"store", "codecs"} /\ UserInit /\ WireInit

PartsNext ==
    \/ part = "store" /\ UserNext /\ UNCHANGED <<part, wireVars>>
    \/ part = "codecs" /\ WireNext /\ UNCHANGED <<part, userVars>>

PartsSpec == PartsInit /\ [][PartsNext]_partsVars

MCInt32Min == -128
=============================================================================
