--------------------------- MODULE MCWifiManager ---------------------------
(***************************************************************************)
(* Any order of connect() and disconnect() against a driver whose events   *)
(* are handled up to three late.                                           *)
(***************************************************************************)
EXTENDS WifiManager
=============================================================================
