----------------------------- MODULE MCDataMap -----------------------------
(***************************************************************************)
(* Instances of DataMap for TLC.                                           *)
(***************************************************************************)
EXTENDS DataMap
=============================================================================
