------------------------------- MODULE Mailbox -------------------------------
(***************************************************************************)
(* What the run manager promises a thread's callers (PRD v2.0.0, the soak: *)
(* nothing lost, nothing duplicated, order kept): every accepted input     *)
(* lands in the thread's state once, in the order of acceptance, whatever  *)
(* crashes in between.                                                     *)
(***************************************************************************)
EXTENDS Naturals, Sequences

CONSTANTS Threads, Inputs

VARIABLES
    sent,    \* the inputs accepted on each thread
    landed   \* the inputs in each thread's state

Init == sent = [t \in Threads |-> <<>>] /\ landed = [t \in Threads |-> <<>>]

Accept(t) ==
    /\ \E i \in Inputs : sent' = [sent EXCEPT ![t] = Append(@, i)]
    /\ UNCHANGED landed

Deliver(t) ==
    /\ Len(landed[t]) < Len(sent[t])
    /\ landed' = [landed EXCEPT ![t] = Append(@, sent[t][Len(@) + 1])]
    /\ UNCHANGED sent

Next == \E t \in Threads : Accept(t) \/ Deliver(t)

Spec == Init /\ [][Next]_<<sent, landed>>

\* The n-th input accepted on a thread is followed by the n-th delivery.
Delivery ==
    \A t \in Threads, n \in Inputs : n <= Len(sent[t]) ~> n <= Len(landed[t])
=============================================================================
