--------------------------- MODULE MCSignalPuffer ---------------------------
(***************************************************************************)
(* Instances of SignalPuffer for TLC.                                      *)
(***************************************************************************)
EXTENDS SignalPuffer

(* In the runs with many threads the counter of the puffer leaves its      *)
(* range; they explore it up to CountSlack beyond.                         *)
CONSTANT CountSlack

CountBounded == puffer.count \in (0 - CountSlack) .. (PufferLength + CountSlack)
=============================================================================
