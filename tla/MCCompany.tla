----------------------------- MODULE MCCompany -----------------------------
(***************************************************************************)
(* The company on a small instance: two threads share two connections    *)
(* of one slot each, two agents hand over to each other, one guarded call. *)
(***************************************************************************)
EXTENDS Company, TLC
CONSTANTS chief, pm, c1, c2

MCHandoffs == (chief :> {pm}) @@ (pm :> {chief})
MCUsable == (chief :> {c1, c2}) @@ (pm :> {c1})
MCSlots == (c1 :> 1) @@ (c2 :> 1)
MCBudget == (c1 :> 1) @@ (c2 :> 1)
=============================================================================
