---------------------------- MODULE MCFlowWindow ----------------------------
(***************************************************************************)
(* FlowWindow on a window of at most 4 bytes (MaxWindow stands for         *)
(* 2^31 - 1), starting from 3.                                             *)
(***************************************************************************)
EXTENDS FlowWindow
=============================================================================
