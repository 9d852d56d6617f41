------------------------- MODULE RunManagerInvariant -------------------------
(***************************************************************************)
(* The inductive invariant of the run manager: SoleWriter, OneRunning and  *)
(* QueuedArePending, and what they need to survive each step.              *)
(***************************************************************************)
EXTENDS RunManager

\* A worker with a job holds a running row, and its thread is marked busy.
JobsRun ==
    \A w \in Workers : Active(w) =>
        /\ job[w] \in RunIds
        /\ runs[job[w]].status = "running"
        /\ ThreadOf(w) \in busy

\* Two workers never serve the same thread.
ThreadsApart ==
    \A v, w \in Workers : Active(v) /\ Active(w) /\ v # w => ThreadOf(v) # ThreadOf(w)

\* While the engine is up every running row has its worker.
RowsHeld ==
    phase = "up" =>
        \A r \in WithStatus("running") : \E w \in Workers : Active(w) /\ job[w] = r

\* Before start has finished nothing is queued and no worker has begun.
QuietUntilUp ==
    phase # "up" =>
        /\ queue = <<>>
        /\ busy = {}
        /\ \A t \in Threads : backlog[t] = <<>>
        /\ \A w \in Workers : pc[w] = "idle"

\* The run start is deciding about is one it has just cancelled.
LimboCancelled ==
    limbo # 0 => /\ phase = "boot"
                 /\ limbo \in RunIds
                 /\ runs[limbo].status = "cancelled"

\* Queues hold rows, and a backlog holds rows of its own thread.
QueuesHoldRows ==
    /\ \A i \in DOMAIN queue : queue[i] \in RunIds
    /\ \A t \in Threads : \A i \in DOMAIN backlog[t] :
        backlog[t][i] \in RunIds /\ runs[backlog[t][i]].thread = t

IInv ==
    /\ TypeOK
    /\ JobsRun
    /\ ThreadsApart
    /\ RowsHeld
    /\ OneRunning
    /\ QuietUntilUp
    /\ LimboCancelled
    /\ QueuesHoldRows
    /\ QueuedArePending
    /\ SoleWriter
=============================================================================
