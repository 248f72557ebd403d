--------------------------- MODULE MCThreadChain ----------------------------
(***************************************************************************)
(* Instances of ThreadChain for TLC.                                       *)
(***************************************************************************)
EXTENDS ThreadChain

CONSTANTS a, b

(* The activators take turns.                                              *)
AlternatingActivators == [k \in 1 .. Starts |-> IF k % 2 = 1 THEN a ELSE b]
=============================================================================
