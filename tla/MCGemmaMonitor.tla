--------------------------- MODULE MCGemmaMonitor ---------------------------
(***************************************************************************)
(* GemmaMonitor on a small instance for TLC.                               *)
(***************************************************************************)
EXTENDS GemmaMonitor, TLC
=============================================================================
