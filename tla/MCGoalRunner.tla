---------------------------- MODULE MCGoalRunner ----------------------------
(***************************************************************************)
(* Up to two runs of a goal of four cycles, beside one turn of its user,   *)
(* with three writes of the agents and one kill.                           *)
(***************************************************************************)
EXTENDS GoalRunner
=============================================================================
