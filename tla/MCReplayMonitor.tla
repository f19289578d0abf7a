--------------------------- MODULE MCReplayMonitor ---------------------------
(***************************************************************************)
(* ReplayMonitor on small instances for TLC.                               *)
(***************************************************************************)
EXTENDS ReplayMonitor, TLC

PollSymmetry == Permutations(Polls)
=============================================================================
