---------------------------- MODULE MCDevConfirm ----------------------------
(***************************************************************************)
(* The push gate on small instances: two pushes, each of which can be  *)
(* asked, answered, timed out, torn, crashed under and swept.              *)
(***************************************************************************)
EXTENDS DevConfirm, TLC

Symmetry == Permutations(Pushes)
=============================================================================
