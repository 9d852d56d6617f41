------------------------------- MODULE Pregel -------------------------------
(***************************************************************************)
(* One thread of a compiled graph (graph/pregel.py, graph/state.py) over   *)
(* its checkpoint saver (graph/checkpoint.py): super-steps of concurrent   *)
(* tasks, joins, interrupts with their answers, the checkpoint after each  *)
(* step and the rows that record a task before it, failures and crashes.   *)
(*                                                                         *)
(* Only one run at a time is on a thread (the run manager sees to that).   *)
(* A channel is the number of writes its reducer has taken from a node.    *)
(***************************************************************************)
EXTENDS Integers, FiniteSets

CONSTANTS
    Nodes,
    Entry,       \* targets of START
    Edges,       \* pairs of nodes: plain edges
    Joins,       \* waiting edges, records [from, to]
    Routes,      \* for each node, the sets of nodes its branches and gotos may choose
    Questions,   \* how often each node calls interrupt
    Before,      \* interrupt_before
    After,       \* interrupt_after
    Limit,       \* recursion_limit
    Sync,        \* durability: "sync", or else "async"
    MaxInputs,   \* bound: inputs to the thread
    MaxFaults    \* bound: crashes and failing nodes

ASSUME GraphAssumption ==
    /\ Entry \in SUBSET Nodes
    /\ Edges \in SUBSET (Nodes \X Nodes)
    /\ Joins \in SUBSET [from: SUBSET Nodes, to: Nodes]
    /\ Routes \in [Nodes -> SUBSET SUBSET Nodes]
    /\ Questions \in [Nodes -> Nat]
    /\ Before \in SUBSET Nodes /\ After \in SUBSET Nodes
    /\ Limit \in Nat /\ Sync \in BOOLEAN
    /\ MaxInputs \in Nat /\ MaxFaults \in Nat

VARIABLES
    disk,      \* the newest checkpoint stored
    rows,      \* the writes stored for it: questions, answers and a result per node
    run,       \* "off", "head" (of the loop), "step" or "closing"
    mem,       \* the checkpoint the run works from
    saved,     \* it is stored
    called,    \* tasks of the step that have not come back
    stopped,   \* tasks of the step that came back with a question
    inputs, faults,
    recorded,  \* history: results ever stored for each node
    dropped    \* history: results given up by a new input

memory == <<run, mem, saved, called, stopped>>
vars == <<disk, rows, memory, inputs, faults, recorded, dropped>>

Checkpoint == [step: Nat \cup {-1}, source: {"input", "loop"}, values: [Nodes -> Nat], seen: [Joins -> SUBSET Nodes],
               next: SUBSET Nodes, skip: BOOLEAN]
Row == [asked: Nat, given: Nat, result: SUBSET SUBSET Nodes]
\* A result holds the targets its node chose; a row without one has none.
NoRow == [asked |-> 0, given |-> 0, result |-> {}]
NoRows == [n \in Nodes |-> NoRow]

HasResult(n) == rows[n].result # {}
Done == IF saved THEN {n \in mem.next : HasResult(n)} ELSE {}
Open(n) == rows[n].asked > rows[n].given /\ ~HasResult(n)

-----------------------------------------------------------------------------
(***************************************************************************)
(* Scheduling (_schedule, _apply).                                         *)
(***************************************************************************)

\* Mutant of Fires: one of the joined nodes is enough.
FiresOnAny(j, fin) == fin \cap j.from # {}

Fires(j, fin) == j.from \subseteq mem.seen[j] \cup fin /\ fin \cap j.from # {}

\* What a join still remembers: a node that had come before may be processed
\* after the join has fired, and counts towards the next time.
Seen(j, fin) ==
    IF Fires(j, fin) THEN SUBSET (fin \cap mem.seen[j])
                     ELSE {mem.seen[j] \cup (fin \cap j.from)}

Targets(fin) ==
    {e[2] : e \in {x \in Edges : x[1] \in fin}}
      \cup {j.to : j \in {k \in Joins : Fires(k, fin)}}
      \cup UNION UNION {rows[n].result : n \in fin}

\* Mutant of Applied: of several tasks the step keeps one.
AppliedOne(values, fin) ==
    LET one == {CHOOSE x \in fin : TRUE}
    IN  [n \in Nodes |-> IF n \in one THEN values[n] + 1 ELSE values[n]]

Applied(values, fin) == [n \in Nodes |-> IF n \in fin THEN values[n] + 1 ELSE values[n]]

-----------------------------------------------------------------------------
(***************************************************************************)
(* A run begins (_run up to the loop).                                     *)
(***************************************************************************)

Begin(m, stored) ==
    /\ run = "off" /\ saved
    /\ run' = "head"
    /\ mem' = m
    /\ saved' = stored
    /\ UNCHANGED <<disk, called, stopped, faults, recorded>>

\* A new input: the step that was under way, if any, is given up.  A gate that
\* was passed for it is passed for the first step of the new one.
Input ==
    /\ inputs < MaxInputs
    /\ inputs' = inputs + 1
    /\ Begin([disk EXCEPT !.step = @ + 1, !.source = "input", !.next = Entry], FALSE)
    /\ UNCHANGED <<rows, dropped>>

\* No input: the run goes on where the checkpoint and its rows stand.
Continue ==
    /\ disk.next # {}
    /\ Begin(disk, TRUE)
    /\ UNCHANGED <<rows, inputs, dropped>>

\* An answer goes to every task that ever asked at this checkpoint.
Resume ==
    /\ \E n \in disk.next : Open(n)
    /\ Begin(disk, TRUE)
    /\ rows' = [n \in Nodes |-> IF rows[n].asked > 0 THEN [rows[n] EXCEPT !.given = @ + 1]
                                                     ELSE rows[n]]
    /\ UNCHANGED <<inputs, dropped>>

-----------------------------------------------------------------------------
(***************************************************************************)
(* The loop (_run, run_one).                                               *)
(***************************************************************************)

\* Mutant of MaySave: the put waits for the step that waits for it.
MaySaveAfterTasks == ~saved /\ called = {}

MaySave == ~saved

\* Storing a checkpoint; with "async" the next step is already under way.
Save ==
    /\ MaySave
    /\ disk' = [mem EXCEPT !.skip = @ /\ mem.source = "loop"]
    /\ rows' = NoRows
    /\ saved' = TRUE
    /\ dropped' = [n \in Nodes |-> IF mem.source = "input" /\ n \in disk.next /\ HasResult(n)
                                   THEN dropped[n] + 1 ELSE dropped[n]]
    /\ UNCHANGED <<run, mem, called, stopped, inputs, faults, recorded>>

Ready == run = "head" /\ (saved \/ ~Sync)

Over == Ready /\ (mem.next = {} \/ mem.step >= Limit)
Gate == Ready /\ ~Over /\ ~mem.skip /\ mem.next \cap Before # {}

\* Nothing is left to do, or the recursion limit is reached.
Stop ==
    /\ Over
    /\ run' = "closing"
    /\ UNCHANGED <<disk, rows, mem, saved, called, stopped, inputs, faults, recorded, dropped>>

\* interrupt_before: the same step is stored again, to be let through next time.
PauseBefore ==
    /\ Gate
    /\ saved
    /\ run' = "closing"
    /\ mem' = [mem EXCEPT !.source = "loop", !.skip = TRUE]
    /\ saved' = FALSE
    /\ UNCHANGED <<disk, rows, called, stopped, inputs, faults, recorded, dropped>>

\* Mutant of ToRun: what is recorded already is run again.
ToRunAll == mem.next

ToRun == mem.next \ Done

\* All tasks without a recorded result are called together.
CallAll ==
    /\ Ready /\ ~Over /\ ~Gate
    /\ run' = "step"
    /\ mem' = [mem EXCEPT !.skip = FALSE]
    /\ called' = ToRun
    /\ stopped' = {}
    /\ UNCHANGED <<disk, rows, saved, inputs, faults, recorded, dropped>>

\* A task's row is stored before its outcome counts, and after its checkpoint.
Return(n, row) ==
    /\ n \in called
    /\ saved
    /\ called' = called \ {n}
    /\ rows' = [rows EXCEPT ![n] = row]
    /\ UNCHANGED <<disk, run, mem, saved, inputs, faults, dropped>>

NodeAsks(n) ==
    /\ rows[n].given < Questions[n]
    /\ Return(n, [rows[n] EXCEPT !.asked = rows[n].given + 1])
    /\ stopped' = stopped \cup {n}
    /\ UNCHANGED recorded

NodeReturns(n) ==
    /\ rows[n].given >= Questions[n]
    /\ \E chosen \in Routes[n] : Return(n, [rows[n] EXCEPT !.result = {chosen}])
    /\ recorded' = [recorded EXCEPT ![n] = @ + 1]
    /\ UNCHANGED stopped

\* A node raises: the others are cancelled and the run fails.
NodeFails(n) ==
    /\ n \in called
    /\ faults < MaxFaults
    /\ faults' = faults + 1
    /\ run' = "off"
    /\ called' = {}
    /\ stopped' = {}
    /\ UNCHANGED <<disk, rows, mem, saved, inputs, recorded, dropped>>

\* Some task waits for an answer: the step is left as its rows record it.
Pause ==
    /\ run = "step" /\ called = {} /\ stopped # {}
    /\ run' = "closing"
    /\ UNCHANGED <<disk, rows, mem, saved, called, stopped, inputs, faults, recorded, dropped>>

\* The barrier: all writes are applied, the next step scheduled and put.
Advance ==
    /\ run = "step" /\ called = {} /\ stopped = {}
    /\ \E seen \in [Joins -> SUBSET Nodes] :
          /\ \A j \in Joins : seen[j] \in Seen(j, mem.next)
          /\ mem' = [step |-> mem.step + 1, source |-> "loop", values |-> Applied(mem.values, mem.next),
                     seen |-> seen, next |-> Targets(mem.next), skip |-> FALSE]
    /\ saved' = FALSE
    /\ run' = IF mem.next \cap After # {} THEN "closing" ELSE "head"
    /\ UNCHANGED <<disk, rows, called, stopped, inputs, faults, recorded, dropped>>

Close ==
    /\ run = "closing" /\ saved
    /\ run' = "off"
    /\ stopped' = {}
    /\ UNCHANGED <<disk, rows, mem, saved, called, inputs, faults, recorded, dropped>>

Crash ==
    /\ run # "off" /\ faults < MaxFaults
    /\ faults' = faults + 1
    /\ run' = "off"
    /\ mem' = disk
    /\ saved' = TRUE
    /\ called' = {}
    /\ stopped' = {}
    /\ UNCHANGED <<disk, rows, inputs, recorded, dropped>>

-----------------------------------------------------------------------------
Init ==
    /\ disk = [step |-> -1, source |-> "loop", values |-> [n \in Nodes |-> 0], seen |-> [j \in Joins |-> {}],
               next |-> {}, skip |-> FALSE]
    /\ rows = NoRows
    /\ run = "off"
    /\ mem = disk
    /\ saved = TRUE
    /\ called = {}
    /\ stopped = {}
    /\ inputs = 0
    /\ faults = 0
    /\ recorded = [n \in Nodes |-> 0]
    /\ dropped = [n \in Nodes |-> 0]

Loop == Save \/ Stop \/ PauseBefore \/ CallAll \/ Pause \/ Advance \/ Close

Next ==
    \/ Input \/ Continue \/ Resume \/ Loop \/ Crash
    \/ \E n \in Nodes : NodeAsks(n) \/ NodeReturns(n) \/ NodeFails(n)

\* The event loop gets on, and no node runs for ever.
Fairness == WF_vars(Loop) /\ \A n \in Nodes : WF_vars(NodeAsks(n) \/ NodeReturns(n))

Spec == Init /\ [][Next]_vars /\ Fairness

-----------------------------------------------------------------------------
TypeOK ==
    /\ disk \in Checkpoint /\ mem \in Checkpoint
    /\ rows \in [Nodes -> Row]
    /\ run \in {"off", "head", "step", "closing"}
    /\ saved \in BOOLEAN
    /\ called \in SUBSET Nodes /\ stopped \in SUBSET Nodes
    /\ inputs \in Nat /\ faults \in Nat
    /\ recorded \in [Nodes -> Nat] /\ dropped \in [Nodes -> Nat]

\* Every result a node ever got stored counts exactly once: it is applied, or
\* recorded for the step under way, or was given up by a new input.  Neither a
\* failure nor a crash at any point runs a recorded task again, applies it
\* twice or loses it (pregel.py: "a crash mid-step re-runs only the unfinished
\* ones").  It needs that no entry node is gated: a gate that a new input has run
\* past closes again after a crash, on a step with results.
ExactlyOnce ==
    \A n \in Nodes :
       recorded[n] = disk.values[n] + (IF n \in disk.next /\ HasResult(n) THEN 1 ELSE 0) + dropped[n]

\* A graph in which one join, and nothing else, leads to the join's target.
JoinsLeadAlone ==
    \A j \in Joins :
       /\ j.to \notin Entry
       /\ \A e \in Edges : e[2] # j.to
       /\ \A n \in Nodes : \A chosen \in Routes[n] : j.to \notin chosen
       /\ \A k \in Joins : k.to = j.to => k = j

\* The target of a join runs no more often than any node it waits for, also
\* when the joined nodes finish in different steps with crashes, pauses and
\* new inputs between them (_schedule, barriers).  It needs that nothing but the
\* join leads to the target.
JoinsWait ==
    \A j \in Joins : \A n \in j.from : disk.values[j.to] <= disk.values[n]

\* The stored state moves by whole super-steps (Supersteps).
Stored == INSTANCE Supersteps WITH values <- disk.values, next <- disk.next
WholeSteps == Stored!Spec

\* A run ends or pauses, whatever order its tasks and writes come back in.
RunsEnd == run # "off" ~> run = "off"
=============================================================================
