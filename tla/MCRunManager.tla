---------------------------- MODULE MCRunManager ----------------------------
(***************************************************************************)
(* The run manager on small instances, and against its abstract            *)
(* specification.                                                          *)
(***************************************************************************)
EXTENDS RunManagerRecovery, TLC

Symmetry == Permutations(Threads) \cup Permutations(Workers)
=============================================================================
