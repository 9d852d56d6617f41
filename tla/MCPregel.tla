------------------------------ MODULE MCPregel ------------------------------
(***************************************************************************)
(* A graph with everything in it: a, b and e start together, a with two    *)
(* questions, b with one, e with none; b leads to d behind a gate; c joins *)
(* a and d, which end in different steps, and may go back to a.            *)
(***************************************************************************)
EXTENDS Pregel, TLC
CONSTANTS a, b, c, d, e

MCEdges == {<<b, d>>}
MCJoins == {[from |-> {a, d}, to |-> c]}
MCRoutes == [n \in Nodes |-> IF n = c THEN {{}, {a}} ELSE {{}}]
MCQuestions == [n \in Nodes |-> IF n = a THEN 2 ELSE IF n = b THEN 1 ELSE 0]

\* What JoinsWait asks of a graph: only the join leads to c.
ASSUME JoinsAreAlone == JoinsLeadAlone
=============================================================================
