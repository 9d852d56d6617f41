---------------------------- MODULE MCChiefTurn ----------------------------
(***************************************************************************)
(* Three messages of one user over a line of two: one is refused when both *)
(* places are taken.                                                       *)
(***************************************************************************)
EXTENDS ChiefTurn
=============================================================================
