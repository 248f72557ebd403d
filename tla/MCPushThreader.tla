--------------------------- MODULE MCPushThreader ---------------------------
(***************************************************************************)
(* Instances of PushThreader for TLC.                                      *)
(***************************************************************************)
EXTENDS PushThreader
=============================================================================
