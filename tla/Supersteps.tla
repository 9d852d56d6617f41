----------------------------- MODULE Supersteps -----------------------------
(***************************************************************************)
(* What the graph engine promises of a thread's stored state: it moves by  *)
(* whole super-steps.  A step takes in the writes of all its tasks at once *)
(* and names the tasks of the next; a new input starts over at the entry.  *)
(***************************************************************************)
EXTENDS Naturals

CONSTANTS Nodes, Entry
VARIABLES values, next

Init == values = [n \in Nodes |-> 0] /\ next = {}

Step ==
    /\ next # {}
    /\ values' = [n \in Nodes |-> IF n \in next THEN values[n] + 1 ELSE values[n]]
    /\ next' \in SUBSET Nodes

Input == next' = Entry /\ values' = values

Next == Step \/ Input

Spec == Init /\ [][Next]_<<values, next>>
=============================================================================
