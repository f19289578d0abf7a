--------------------------- MODULE MCBoardReader ---------------------------
(***************************************************************************)
(* BoardReader on small instances for TLC.                                 *)
(***************************************************************************)
EXTENDS BoardReader, TLC

AllFaults == {"crash", "hang", "spawn", "exit"}
=============================================================================
