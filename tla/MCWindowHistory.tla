-------------------------- MODULE MCWindowHistory --------------------------
(***************************************************************************)
(* WindowHistory on a small instance for TLC.                              *)
(***************************************************************************)
EXTENDS WindowHistory, TLC

Symmetry == Permutations(Requests)
=============================================================================
