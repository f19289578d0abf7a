----------------------------- MODULE MCSafeStop -----------------------------
(***************************************************************************)
(* SafeStop on small instances for TLC.                                    *)
(***************************************************************************)
EXTENDS SafeStop, TLC

BoardSymmetry == Permutations(Boards)
=============================================================================
