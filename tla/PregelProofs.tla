----------------------------- MODULE PregelProofs -----------------------------
(***************************************************************************)
(* For any graph, any inputs, answers, failures and crashes, stored before *)
(* or behind the step: the stored state moves by whole super-steps; where  *)
(* no entry node is gated every result counts exactly once; and a node     *)
(* that only a join leads to never runs ahead of the nodes it waits for.   *)
(***************************************************************************)
EXTENDS Pregel, TLAPS

-----------------------------------------------------------------------------
(***************************************************************************)
(* The inductive invariant.                                                *)
(***************************************************************************)

\* What a checkpoint that is not stored yet will do to the one that is.
StartsOver == mem.source = "input" /\ mem.values = disk.values /\ mem.next = Entry
Repeats == mem.source = "loop" /\ mem.values = disk.values /\ mem.next = disk.next
Steps ==
    /\ mem.source = "loop" /\ disk.next # {}
    /\ mem.values = Applied(disk.values, disk.next)
    /\ \A n \in disk.next : HasResult(n)

Remembered ==
    /\ saved => mem.values = disk.values /\ mem.next = disk.next
    /\ ~saved => StartsOver \/ Repeats \/ Steps

\* A step counts on every one of its tasks, and none is called in vain.
Stepping ==
    /\ called # {} => run = "step"
    /\ run = "step" =>
          /\ mem.next # {} /\ called \subseteq mem.next
          /\ ~saved => called = mem.next
          /\ saved => \A n \in mem.next : n \in called \cup stopped \/ HasResult(n)
          /\ saved => \A n \in called : ~HasResult(n)

GraphInv == TypeOK /\ Remembered /\ Stepping

\* A gate that stops a step stops it before any of its tasks has a result.
Gated ==
    /\ (\E n \in disk.next : HasResult(n)) => disk.skip \/ disk.next \cap Before = {}
    /\ run = "head" /\ mem.skip => (saved /\ disk.skip) \/ mem.next \cap Before = {}
    /\ run = "head" /\ saved /\ disk.skip => mem.skip
    /\ run = "step" => mem.next \cap Before = {} \/ (saved /\ disk.skip)
    /\ ~saved /\ Repeats => \A n \in disk.next : ~HasResult(n)

OnceInv == GraphInv /\ Gated /\ ExactlyOnce

-----------------------------------------------------------------------------
(***************************************************************************)
(* Types.                                                                  *)
(***************************************************************************)

LEMMA CheckpointFields ==
    ASSUME NEW c \in Checkpoint
    PROVE  /\ c.step \in Nat \cup {-1} /\ c.source \in {"input", "loop"} /\ c.values \in [Nodes -> Nat]
           /\ c.seen \in [Joins -> SUBSET Nodes] /\ c.next \in SUBSET Nodes /\ c.skip \in BOOLEAN
BY DEF Checkpoint

LEMMA RowFields ==
    ASSUME NEW row \in Row
    PROVE  row.asked \in Nat /\ row.given \in Nat /\ row.result \in SUBSET SUBSET Nodes
BY DEF Row

LEMMA NoRowsTyped == NoRows \in [Nodes -> Row]
BY DEF NoRows, NoRow, Row

LEMMA AppliedTyped ==
    ASSUME NEW values \in [Nodes -> Nat], NEW fin \in SUBSET Nodes
    PROVE  Applied(values, fin) \in [Nodes -> Nat]
BY DEF Applied

LEMMA TargetsTyped ==
    ASSUME rows \in [Nodes -> Row], NEW fin \in SUBSET Nodes
    PROVE  Targets(fin) \in SUBSET Nodes
<1>1. {e[2] : e \in {x \in Edges : x[1] \in fin}} \subseteq Nodes
  BY GraphAssumption
<1>2. {j.to : j \in {k \in Joins : Fires(k, fin)}} \subseteq Nodes
  BY GraphAssumption
<1>3. UNION UNION {rows[n].result : n \in fin} \subseteq Nodes
  <2>1. \A n \in fin : rows[n].result \in SUBSET SUBSET Nodes
    BY RowFields
  <2> QED
    BY <2>1
<1> QED
  BY <1>1, <1>2, <1>3 DEF Targets

LEMMA InitTyped == Init => TypeOK
<1> SUFFICES ASSUME Init PROVE TypeOK
  OBVIOUS
<1>1. disk \in Checkpoint
  BY DEF Init, Checkpoint
<1> QED
  BY <1>1, NoRowsTyped DEF Init, TypeOK

LEMMA SaveTyped == ASSUME TypeOK, Save PROVE TypeOK'
<1>1. disk' \in Checkpoint
  <2>1. disk' = [mem EXCEPT !.skip = mem.skip /\ mem.source = "loop"] /\ mem \in Checkpoint
    BY DEF Save, TypeOK
  <2> QED
    BY <2>1 DEF Checkpoint
<1>2. dropped' \in [Nodes -> Nat]
  BY DEF Save, TypeOK
<1> QED
  BY <1>1, <1>2, NoRowsTyped DEF Save, TypeOK

LEMMA BeginTyped ==
    ASSUME TypeOK, NEW m \in Checkpoint, NEW stored \in BOOLEAN, Begin(m, stored),
           rows' \in [Nodes -> Row], inputs' \in Nat, UNCHANGED dropped
    PROVE  TypeOK'
BY DEF TypeOK, Begin

LEMMA InputTyped == ASSUME TypeOK, Input PROVE TypeOK'
<1>1. [disk EXCEPT !.step = @ + 1, !.source = "input", !.next = Entry] \in Checkpoint
  <2>1. disk \in Checkpoint /\ disk.step + 1 \in Nat \cup {-1}
    BY CheckpointFields DEF TypeOK
  <2> QED
    BY <2>1, GraphAssumption DEF Checkpoint
<1>2. inputs' \in Nat
  BY DEF Input, TypeOK
<1> QED
  BY <1>1, <1>2, BeginTyped DEF Input, TypeOK

LEMMA ContinueTyped == ASSUME TypeOK, Continue PROVE TypeOK'
BY BeginTyped DEF Continue, TypeOK

LEMMA ResumeTyped == ASSUME TypeOK, Resume PROVE TypeOK'
<1>1. rows' \in [Nodes -> Row]
  <2>1. ASSUME NEW n \in Nodes PROVE rows[n] \in Row /\ [rows[n] EXCEPT !.given = @ + 1] \in Row
    <3>1. rows[n] \in Row
      BY DEF TypeOK
    <3> QED
      BY <3>1 DEF Row
  <2> QED
    BY <2>1 DEF Resume
<1> QED
  BY <1>1, BeginTyped DEF Resume, TypeOK

LEMMA StopTyped ==
    ASSUME TypeOK, Stop \/ Pause \/ Close \/ Crash \/ (\E n \in Nodes : NodeFails(n))
    PROVE  TypeOK'
<1>1. CASE Crash \/ (\E n \in Nodes : NodeFails(n))
  <2>1. faults' \in Nat
    BY <1>1 DEF Crash, NodeFails, TypeOK
  <2> QED
    BY <1>1, <2>1 DEF Crash, NodeFails, TypeOK
<1>2. CASE Stop \/ Pause \/ Close
  BY <1>2 DEF Stop, Pause, Close, TypeOK
<1> QED
  BY <1>1, <1>2

LEMMA GateTyped == ASSUME TypeOK, PauseBefore \/ CallAll PROVE TypeOK'
<1>1. mem' \in Checkpoint
  BY DEF PauseBefore, CallAll, TypeOK, Checkpoint
<1>2. called' \in SUBSET Nodes /\ stopped' \in SUBSET Nodes
  BY CheckpointFields DEF PauseBefore, CallAll, ToRun, TypeOK
<1> QED
  BY <1>1, <1>2 DEF PauseBefore, CallAll, TypeOK

LEMMA ReturnTyped ==
    ASSUME TypeOK, NEW n \in Nodes, NodeAsks(n) \/ NodeReturns(n)
    PROVE  TypeOK'
<1>1. rows[n] \in Row
  BY DEF TypeOK
<1>2. CASE NodeAsks(n)
  <2>1. [rows[n] EXCEPT !.asked = rows[n].given + 1] \in Row
    BY <1>1 DEF Row
  <2> QED
    BY <1>2, <2>1 DEF NodeAsks, Return, TypeOK
<1>3. CASE NodeReturns(n)
  <2>1. PICK chosen \in Routes[n] : Return(n, [rows[n] EXCEPT !.result = {chosen}])
    BY <1>3 DEF NodeReturns
  <2>2. chosen \in SUBSET Nodes
    BY GraphAssumption
  <2>3. [rows[n] EXCEPT !.result = {chosen}] \in Row
    BY <1>1, <2>2 DEF Row
  <2>4. recorded' \in [Nodes -> Nat]
    BY <1>3 DEF NodeReturns, TypeOK
  <2> QED
    BY <1>3, <2>1, <2>3, <2>4 DEF NodeReturns, Return, TypeOK
<1> QED
  BY <1>2, <1>3

LEMMA AdvanceTyped == ASSUME TypeOK, Advance PROVE TypeOK'
<1>1. PICK seen \in [Joins -> SUBSET Nodes] :
         mem' = [step |-> mem.step + 1, source |-> "loop", values |-> Applied(mem.values, mem.next),
                 seen |-> seen, next |-> Targets(mem.next), skip |-> FALSE]
  BY DEF Advance
<1>2. /\ Applied(mem.values, mem.next) \in [Nodes -> Nat] /\ Targets(mem.next) \in SUBSET Nodes
      /\ mem.step + 1 \in Nat \cup {-1}
  <2>1. mem.values \in [Nodes -> Nat] /\ mem.next \in SUBSET Nodes /\ mem.step \in Nat \cup {-1}
    BY CheckpointFields DEF TypeOK
  <2> QED
    BY <2>1, AppliedTyped, TargetsTyped DEF TypeOK
<1>3. mem' \in Checkpoint
  BY <1>1, <1>2 DEF Checkpoint
<1> QED
  BY <1>3 DEF Advance, TypeOK

LEMMA StepTyped == ASSUME TypeOK, [Next]_vars PROVE TypeOK'
<1>1. CASE UNCHANGED vars
  BY <1>1 DEF vars, memory, TypeOK
<1> QED
  BY <1>1, SaveTyped, InputTyped, ContinueTyped, ResumeTyped, StopTyped, GateTyped, ReturnTyped, AdvanceTyped
     DEF Next, Loop

-----------------------------------------------------------------------------
(***************************************************************************)
(* What is remembered, and what is under way.                              *)
(***************************************************************************)

LEMMA InitGraph == Init => GraphInv
<1> SUFFICES ASSUME Init PROVE GraphInv
  OBVIOUS
<1>1. Remembered /\ Stepping
  BY DEF Init, Remembered, Stepping
<1> QED
  BY <1>1, InitTyped DEF GraphInv

LEMMA NoResults == \A n \in Nodes : NoRows[n].result = {}
BY DEF NoRows, NoRow

\* The checkpoint in memory becomes the one stored.
LEMMA SaveGraph == ASSUME GraphInv, Save PROVE GraphInv'
<1>1. /\ disk'.values = mem.values /\ disk'.next = mem.next
      /\ saved' = TRUE /\ ~saved /\ rows' = NoRows /\ UNCHANGED <<run, mem, called, stopped>>
  <2>1. mem \in Checkpoint
    BY DEF GraphInv, TypeOK
  <2> QED
    BY <2>1 DEF Save, MaySave, Checkpoint
<1>2. Remembered'
  BY <1>1 DEF Remembered
<1>3. Stepping'
  <2>1. \A n \in mem.next : ~HasResult(n)'
    <3>1. mem.next \subseteq Nodes
      BY CheckpointFields DEF GraphInv, TypeOK
    <3> QED
      BY <1>1, <3>1, NoResults DEF HasResult
  <2> QED
    BY <1>1, <2>1 DEF GraphInv, Stepping
<1> QED
  BY <1>2, <1>3, SaveTyped DEF GraphInv

\* A run begins where the stored checkpoint stands, or starts over.
LEMMA BeginGraph == ASSUME GraphInv, Input \/ Continue \/ Resume PROVE GraphInv'
<1>1. TypeOK'
  BY InputTyped, ContinueTyped, ResumeTyped DEF GraphInv
<1>2. UNCHANGED <<disk, called>> /\ run = "off" /\ run' = "head"
  BY DEF Input, Continue, Resume, Begin
<1>3. Stepping'
  BY <1>2 DEF GraphInv, Stepping
<1>4. Remembered'
  <2>1. CASE Input
    <3>1. saved' = FALSE /\ mem' = [disk EXCEPT !.step = @ + 1, !.source = "input", !.next = Entry]
      BY <2>1 DEF Input, Begin
    <3>2. mem'.source = "input" /\ mem'.values = disk.values /\ mem'.next = Entry
      BY <3>1 DEF GraphInv, TypeOK, Checkpoint
    <3> QED
      BY <1>2, <3>1, <3>2 DEF Remembered, StartsOver
  <2>2. CASE Continue \/ Resume
    BY <1>2, <2>2 DEF Continue, Resume, Begin, Remembered
  <2> QED
    BY <2>1, <2>2
<1> QED
  BY <1>1, <1>3, <1>4 DEF GraphInv

\* The ends of a run, orderly or not.
LEMMA StopGraph ==
    ASSUME GraphInv, Stop \/ Pause \/ Close \/ Crash \/ (\E n \in Nodes : NodeFails(n))
    PROVE  GraphInv'
<1>1. TypeOK'
  BY StopTyped DEF GraphInv
<1>2. run' # "step" /\ called' = {}
  BY DEF Stop, Ready, Over, Pause, Close, Crash, NodeFails, GraphInv, Stepping
<1>3. Stepping'
  BY <1>2 DEF Stepping
<1>4. UNCHANGED <<disk, rows>> /\ (UNCHANGED <<mem, saved>> \/ (mem' = disk /\ saved' = TRUE))
  BY DEF Stop, Pause, Close, Crash, NodeFails
<1>5. Remembered'
  BY <1>4 DEF GraphInv, Remembered, StartsOver, Repeats, Steps, HasResult
<1> QED
  BY <1>1, <1>3, <1>5 DEF GraphInv

LEMMA PauseBeforeGraph == ASSUME GraphInv, PauseBefore PROVE GraphInv'
<1>1. /\ mem' = [mem EXCEPT !.source = "loop", !.skip = TRUE] /\ mem \in Checkpoint
      /\ saved /\ saved' = FALSE /\ run = "head" /\ run' = "closing" /\ UNCHANGED <<disk, called, rows>>
  BY DEF PauseBefore, Gate, Ready, GraphInv, TypeOK
<1>2. mem'.source = "loop" /\ mem'.values = mem.values /\ mem'.next = mem.next
  BY <1>1 DEF Checkpoint
<1>3. Remembered'
  BY <1>1, <1>2 DEF GraphInv, Remembered, Repeats
<1>4. Stepping'
  BY <1>1 DEF GraphInv, Stepping
<1> QED
  BY <1>3, <1>4, GateTyped DEF GraphInv

LEMMA CallGraph == ASSUME GraphInv, CallAll PROVE GraphInv'
<1>1. /\ mem' = [mem EXCEPT !.skip = FALSE] /\ mem \in Checkpoint /\ mem.next # {}
      /\ run' = "step" /\ called' = mem.next \ Done /\ stopped' = {} /\ UNCHANGED <<disk, rows, saved>>
  BY DEF CallAll, Ready, Over, ToRun, GraphInv, TypeOK
<1>2. mem'.source = mem.source /\ mem'.values = mem.values /\ mem'.next = mem.next
  BY <1>1 DEF Checkpoint
<1>3. Remembered'
  BY <1>1, <1>2 DEF GraphInv, Remembered, StartsOver, Repeats, Steps, HasResult
<1>4. Stepping'
  BY <1>1, <1>2 DEF Done, Stepping, HasResult
<1> QED
  BY <1>3, <1>4, GateTyped DEF GraphInv

\* A task comes back: its row is the only thing stored.
LEMMA ReturnGraph ==
    ASSUME GraphInv, NEW n \in Nodes, NodeAsks(n) \/ NodeReturns(n)
    PROVE  /\ GraphInv'
           /\ saved /\ n \in disk.next /\ ~HasResult(n) /\ run = "step"
           /\ HasResult(n)' <=> NodeReturns(n)
           /\ \A k \in Nodes : k # n => (HasResult(k)' <=> HasResult(k))
<1>1. /\ n \in called /\ saved /\ called' = called \ {n}
      /\ UNCHANGED <<disk, run, mem, saved>>
  BY DEF NodeAsks, NodeReturns, Return
<1>2. run = "step" /\ n \in mem.next /\ n \in disk.next /\ ~HasResult(n)
  BY <1>1 DEF GraphInv, Stepping, Remembered
<1>3. rows[n] \in Row /\ rows \in [Nodes -> Row]
  BY DEF GraphInv, TypeOK
<1>4. \A k \in Nodes : k # n => (HasResult(k)' <=> HasResult(k))
  BY <1>3 DEF NodeAsks, NodeReturns, Return, HasResult
<1>5. CASE NodeAsks(n)
  <2>1. rows'[n].result = rows[n].result
    BY <1>3, <1>5 DEF NodeAsks, Return, Row
  <2>2. ~HasResult(n)'
    BY <1>2, <2>1 DEF HasResult
  <2>3. ~NodeReturns(n)
    BY <1>5, <1>3, RowFields, GraphAssumption DEF NodeAsks, NodeReturns
  <2>4. stopped' = stopped \cup {n}
    BY <1>5 DEF NodeAsks
  <2>5. Stepping'
    <3>1. \A k \in mem.next : k \in Nodes
      BY CheckpointFields DEF GraphInv, TypeOK
    <3> QED
      BY <1>1, <1>2, <1>4, <2>4, <3>1 DEF GraphInv, Stepping
  <2>6. Remembered'
    BY <1>1 DEF GraphInv, Remembered
  <2>7. TypeOK'
    BY <1>5, ReturnTyped DEF GraphInv
  <2> QED
    BY <1>1, <1>2, <1>4, <2>2, <2>3, <2>5, <2>6, <2>7 DEF GraphInv
<1>6. CASE NodeReturns(n)
  <2>1. PICK chosen \in Routes[n] : rows' = [rows EXCEPT ![n] = [rows[n] EXCEPT !.result = {chosen}]]
    BY <1>6 DEF NodeReturns, Return
  <2>2. rows'[n].result = {chosen}
    BY <1>3, <2>1 DEF Row
  <2>3. HasResult(n)'
    BY <2>2 DEF HasResult
  <2>4. stopped' = stopped
    BY <1>6 DEF NodeReturns
  <2>5. Stepping'
    <3>1. \A k \in mem.next : k \in Nodes
      BY CheckpointFields DEF GraphInv, TypeOK
    <3> QED
      BY <1>1, <1>2, <1>4, <2>3, <2>4, <3>1 DEF GraphInv, Stepping
  <2>6. Remembered'
    BY <1>1 DEF GraphInv, Remembered
  <2>7. TypeOK'
    BY <1>6, ReturnTyped DEF GraphInv
  <2> QED
    BY <1>1, <1>2, <1>4, <1>6, <2>3, <2>5, <2>6, <2>7 DEF GraphInv
<1> QED
  BY <1>5, <1>6

\* The barrier: all of the step's tasks have a result, which is what it applies.
LEMMA AdvanceGraph ==
    ASSUME GraphInv, Advance
    PROVE  GraphInv' /\ Steps' /\ mem'.skip = FALSE
<1>1. PICK seen \in [Joins -> SUBSET Nodes] :
         mem' = [step |-> mem.step + 1, source |-> "loop", values |-> Applied(mem.values, mem.next),
                 seen |-> seen, next |-> Targets(mem.next), skip |-> FALSE]
  BY DEF Advance
<1>2. run = "step" /\ called = {} /\ stopped = {} /\ run' # "step" /\ UNCHANGED <<disk, rows, called>> /\ saved' = FALSE
  BY DEF Advance
<1>3. saved /\ mem.next # {} /\ \A n \in mem.next : HasResult(n)
  BY <1>2 DEF GraphInv, Stepping
<1>4. mem.next = disk.next /\ mem.values = disk.values
  BY <1>3 DEF GraphInv, Remembered
<1>5. Steps'
  BY <1>1, <1>2, <1>3, <1>4 DEF Steps, HasResult, Applied
<1>6. Remembered' /\ Stepping'
  BY <1>2, <1>5 DEF Remembered, Stepping
<1> QED
  BY <1>1, <1>5, <1>6, AdvanceTyped DEF GraphInv

LEMMA StepGraph == ASSUME GraphInv, [Next]_vars PROVE GraphInv'
<1>1. CASE UNCHANGED vars
  BY <1>1 DEF vars, memory, GraphInv, TypeOK, Remembered, StartsOver, Repeats, Steps, Stepping, HasResult
<1> QED
  BY <1>1, SaveGraph, BeginGraph, StopGraph, PauseBeforeGraph, CallGraph, ReturnGraph, AdvanceGraph DEF Next, Loop

-----------------------------------------------------------------------------
(***************************************************************************)
(* Whole steps.                                                            *)
(***************************************************************************)

LEMMA StepsWhole == ASSUME GraphInv, [Next]_vars PROVE [Stored!Next]_<<disk.values, disk.next>>
<1>1. CASE Save
  <2>1. disk'.values = mem.values /\ disk'.next = mem.next /\ ~saved
    <3>1. mem \in Checkpoint
      BY DEF GraphInv, TypeOK
    <3> QED
      BY <1>1, <3>1 DEF Save, MaySave, Checkpoint
  <2>2. CASE StartsOver
    BY <2>1, <2>2 DEF StartsOver, Stored!Next, Stored!Input
  <2>3. CASE Repeats
    BY <2>1, <2>3 DEF Repeats
  <2>4. CASE Steps
    <3>1. mem.next \in SUBSET Nodes
      BY CheckpointFields DEF GraphInv, TypeOK
    <3>2. Stored!Step
      BY <2>1, <2>4, <3>1 DEF Steps, Applied, Stored!Step
    <3> QED
      BY <3>2 DEF Stored!Next
  <2> QED
    BY <2>1, <2>2, <2>3, <2>4 DEF GraphInv, Remembered
<1>2. CASE ~Save
  <2>1. UNCHANGED disk
    BY <1>2 DEF Next, Loop, vars, Input, Continue, Resume, Begin, Stop, PauseBefore, CallAll, NodeAsks, NodeReturns,
                Return, NodeFails, Pause, Advance, Close, Crash
  <2> QED
    BY <2>1
<1> QED
  BY <1>1, <1>2

\* The state a thread stores moves by whole super-steps, whatever fails between.
THEOREM StoresWholeSteps == Spec => WholeSteps
<1>1. Init => Stored!Init
  BY DEF Init, Stored!Init
<1>2. GraphInv /\ [Next]_vars => [Stored!Next]_<<disk.values, disk.next>>
  BY StepsWhole
<1>3. GraphInv /\ [Next]_vars => GraphInv'
  BY StepGraph
<1> QED
  BY <1>1, <1>2, <1>3, InitGraph, PTL DEF Spec, WholeSteps, Stored!Spec

\* Every variable has its type.
THEOREM GraphTyped == Spec => []TypeOK
<1>1. GraphInv /\ [Next]_vars => GraphInv'
  BY StepGraph
<1>2. GraphInv => TypeOK
  BY DEF GraphInv
<1> QED
  BY <1>1, <1>2, InitGraph, PTL DEF Spec

-----------------------------------------------------------------------------
(***************************************************************************)
(* Exactly once.                                                           *)
(***************************************************************************)

Counted(n) == IF n \in disk.next /\ HasResult(n) THEN 1 ELSE 0

LEMMA InitOnce == Init => OnceInv
<1> SUFFICES ASSUME Init PROVE OnceInv
  OBVIOUS
<1>1. Gated
  BY DEF Init, Gated
<1>2. ExactlyOnce
  BY DEF Init, ExactlyOnce
<1> QED
  BY <1>1, <1>2, InitGraph DEF OnceInv

\* A stored checkpoint takes over what its rows held.
LEMMA SaveOnce == ASSUME OnceInv, Save PROVE Gated' /\ ExactlyOnce'
<1>1. mem \in Checkpoint /\ disk \in Checkpoint /\ GraphInv
  BY DEF OnceInv, GraphInv, TypeOK
<1>2. /\ disk'.values = mem.values /\ disk'.next = mem.next
      /\ disk'.skip = (mem.skip /\ mem.source = "loop")
      /\ saved' = TRUE /\ ~saved /\ rows' = NoRows /\ UNCHANGED <<run, mem, called, stopped, recorded>>
  BY <1>1 DEF Save, MaySave, Checkpoint
<1>3. \A n \in Nodes : ~HasResult(n)'
  BY <1>2, NoResults DEF HasResult
<1>4. mem.next \subseteq Nodes /\ disk.next \subseteq Nodes
  BY <1>1, CheckpointFields
<1>5. Gated'
  BY <1>1, <1>2, <1>3, <1>4 DEF OnceInv, Gated
<1>6. ASSUME NEW n \in Nodes
      PROVE recorded'[n] = disk'.values[n] + Counted(n)' + dropped'[n]
  <2>1. Counted(n)' = 0
    BY <1>3 DEF Counted
  <2>2. recorded[n] = disk.values[n] + Counted(n) + dropped[n]
    BY DEF OnceInv, ExactlyOnce, Counted
  <2>3. disk.values[n] \in Nat /\ mem.values[n] \in Nat /\ dropped[n] \in Nat /\ recorded[n] \in Nat
    BY <1>1, CheckpointFields DEF GraphInv, TypeOK
  <2>4. dropped'[n] = IF mem.source = "input" /\ n \in disk.next /\ HasResult(n) THEN dropped[n] + 1 ELSE dropped[n]
    BY DEF Save
  <2>5. CASE StartsOver
    BY <1>2, <2>1, <2>2, <2>3, <2>4, <2>5 DEF StartsOver, Counted
  <2>6. CASE Repeats
    <3>1. Counted(n) = 0
      BY <1>2, <2>6 DEF OnceInv, Gated, Counted
    <3> QED
      BY <1>2, <2>1, <2>2, <2>3, <2>4, <2>6, <3>1 DEF Repeats
  <2>7. CASE Steps
    <3>1. mem.values[n] = disk.values[n] + Counted(n)
      BY <2>3, <2>7 DEF Steps, Applied, Counted, GraphInv, TypeOK
    <3> QED
      BY <1>2, <2>1, <2>2, <2>3, <2>4, <2>7, <3>1 DEF Steps
  <2> QED
    BY <1>1, <1>2, <2>5, <2>6, <2>7 DEF GraphInv, Remembered
<1>7. ExactlyOnce'
  BY <1>6 DEF ExactlyOnce, Counted
<1> QED
  BY <1>5, <1>7

\* What leaves the counts and the rows' results alone leaves the equation true.
LEMMA SameCounts ==
    ASSUME ExactlyOnce, UNCHANGED <<disk, recorded, dropped>>, \A n \in Nodes : HasResult(n)' <=> HasResult(n)
    PROVE  ExactlyOnce'
BY DEF ExactlyOnce

LEMMA BeginOnce ==
    ASSUME Entry \cap Before = {}, OnceInv, Input \/ Continue \/ Resume
    PROVE  Gated' /\ ExactlyOnce'
<1>1. /\ disk \in Checkpoint /\ rows \in [Nodes -> Row] /\ GraphInv
      /\ UNCHANGED <<disk, recorded, dropped>> /\ run' = "head" /\ saved
  BY DEF Input, Continue, Resume, Begin, OnceInv, GraphInv, TypeOK
<1>2. \A n \in Nodes : HasResult(n)' <=> HasResult(n)
  <2>1. CASE Input \/ Continue
    BY <2>1 DEF Input, Continue, HasResult
  <2>2. CASE Resume
    <3>1. ASSUME NEW n \in Nodes PROVE rows'[n].result = rows[n].result
      <4>1. rows[n] \in Row
        BY <1>1
      <4>2. [rows[n] EXCEPT !.given = @ + 1].result = rows[n].result
        BY <4>1 DEF Row
      <4> QED
        BY <2>2, <4>2 DEF Resume
    <3> QED
      BY <3>1 DEF HasResult
  <2> QED
    BY <2>1, <2>2
<1>3. ExactlyOnce'
  BY <1>1, <1>2, SameCounts DEF OnceInv
<1>4. disk.next \subseteq Nodes
  BY <1>1, CheckpointFields
<1>5. CASE Input
  <2>1. saved' = FALSE /\ mem' = [disk EXCEPT !.step = @ + 1, !.source = "input", !.next = Entry]
    BY <1>5 DEF Input, Begin
  <2>2. mem'.next = Entry /\ mem'.source = "input"
    BY <1>1, <2>1 DEF Checkpoint
  <2>3. ~Repeats'
    BY <2>2 DEF Repeats
  <2>4. Gated'
    BY <1>1, <1>2, <1>4, <2>1, <2>2, <2>3 DEF OnceInv, Gated
  <2> QED
    BY <1>3, <2>4
<1>6. CASE Continue \/ Resume
  <2>1. saved' = TRUE /\ mem' = disk
    BY <1>6 DEF Continue, Resume, Begin
  <2>2. Gated'
    BY <1>1, <1>2, <1>4, <2>1 DEF OnceInv, Gated
  <2> QED
    BY <1>3, <2>2
<1> QED
  BY <1>5, <1>6

LEMMA StopOnce ==
    ASSUME OnceInv, Stop \/ Pause \/ Close \/ Crash \/ (\E n \in Nodes : NodeFails(n))
    PROVE  Gated' /\ ExactlyOnce'
<1>1. UNCHANGED <<disk, rows, recorded, dropped>> /\ (UNCHANGED <<mem, saved>> \/ (mem' = disk /\ saved' = TRUE))
  BY DEF Stop, Pause, Close, Crash, NodeFails
<1>2. run' \notin {"head", "step"}
  BY DEF Stop, Pause, Close, Crash, NodeFails
<1>3. \A n \in disk.next \cup Nodes : HasResult(n)' <=> HasResult(n)
  BY <1>1 DEF HasResult
<1>4. Gated'
  BY <1>1, <1>2, <1>3 DEF OnceInv, Gated, Repeats
<1>5. ExactlyOnce'
  BY <1>1, <1>3, SameCounts DEF OnceInv
<1> QED
  BY <1>4, <1>5

LEMMA GateOnce == ASSUME OnceInv, PauseBefore \/ CallAll PROVE Gated' /\ ExactlyOnce'
<1>1. UNCHANGED <<disk, rows, recorded, dropped>> /\ mem \in Checkpoint /\ run = "head" /\ GraphInv
  BY DEF PauseBefore, CallAll, Gate, Ready, OnceInv, GraphInv, TypeOK
<1>2. \A n \in disk.next \cup Nodes : HasResult(n)' <=> HasResult(n)
  BY <1>1 DEF HasResult
<1>3. ExactlyOnce'
  BY <1>1, <1>2, SameCounts DEF OnceInv
<1>4. CASE PauseBefore
  <2>1. /\ saved /\ ~mem.skip /\ mem.next \cap Before # {} /\ run' = "closing" /\ saved' = FALSE
    BY <1>4 DEF PauseBefore, Gate
  <2>2. mem.next = disk.next
    BY <1>1, <2>1 DEF GraphInv, Remembered
  <2>3. \A n \in disk.next : ~HasResult(n)
    BY <1>1, <2>1, <2>2 DEF OnceInv, Gated
  <2>4. Gated'
    BY <1>1, <1>2, <2>1, <2>3 DEF Gated
  <2> QED
    BY <1>3, <2>4
<1>5. CASE CallAll
  <2>1. run' = "step" /\ UNCHANGED saved /\ mem' = [mem EXCEPT !.skip = FALSE] /\ ~Gate /\ Ready /\ ~Over
    BY <1>5 DEF CallAll
  <2>2. mem'.next = mem.next /\ mem'.source = mem.source /\ mem'.values = mem.values
    BY <1>1, <2>1 DEF Checkpoint
  <2>3. mem.skip \/ mem.next \cap Before = {}
    BY <2>1 DEF Gate
  <2>4. Gated'
    BY <1>1, <1>2, <2>1, <2>2, <2>3 DEF OnceInv, Gated, Repeats
  <2> QED
    BY <1>3, <2>4
<1> QED
  BY <1>4, <1>5

LEMMA ReturnOnce ==
    ASSUME OnceInv, NEW n \in Nodes, NodeAsks(n) \/ NodeReturns(n)
    PROVE  Gated' /\ ExactlyOnce'
<1>1. GraphInv
  BY DEF OnceInv
<1>2. /\ saved /\ n \in disk.next /\ ~HasResult(n) /\ run = "step"
      /\ HasResult(n)' <=> NodeReturns(n)
      /\ \A k \in Nodes : k # n => (HasResult(k)' <=> HasResult(k))
  BY <1>1, ReturnGraph
<1>3. UNCHANGED <<disk, run, mem, saved, dropped>>
  BY DEF NodeAsks, NodeReturns, Return
<1>4. mem.next = disk.next /\ disk.next \subseteq Nodes
  BY <1>1, <1>2, CheckpointFields DEF GraphInv, Remembered, TypeOK
<1>5. Gated'
  BY <1>2, <1>3, <1>4 DEF OnceInv, Gated
<1>6. CASE NodeAsks(n)
  <2>1. UNCHANGED recorded
    BY <1>6 DEF NodeAsks
  <2>2. ~NodeReturns(n)
    BY <1>6, GraphAssumption, RowFields DEF NodeAsks, NodeReturns, GraphInv, OnceInv, TypeOK
  <2> QED
    BY <1>2, <1>3, <1>5, <2>1, <2>2, SameCounts DEF OnceInv
<1>7. CASE NodeReturns(n)
  <2>1. recorded' = [recorded EXCEPT ![n] = @ + 1]
    BY <1>7 DEF NodeReturns
  <2>2. /\ recorded \in [Nodes -> Nat] /\ dropped \in [Nodes -> Nat] /\ disk.values \in [Nodes -> Nat]
    BY <1>1, CheckpointFields DEF GraphInv, TypeOK
  <2>3. ASSUME NEW k \in Nodes PROVE recorded'[k] = disk'.values[k] + Counted(k)' + dropped'[k]
    <3>1. recorded[k] = disk.values[k] + Counted(k) + dropped[k]
      BY DEF OnceInv, ExactlyOnce, Counted
    <3>2. CASE k = n
      BY <1>2, <1>3, <1>7, <2>1, <2>2, <3>1, <3>2 DEF Counted
    <3>3. CASE k # n
      BY <1>2, <1>3, <2>1, <2>2, <3>1, <3>3 DEF Counted
    <3> QED
      BY <3>2, <3>3
  <2>4. ExactlyOnce'
    BY <2>3 DEF ExactlyOnce, Counted
  <2> QED
    BY <1>5, <2>4
<1> QED
  BY <1>6, <1>7

LEMMA AdvanceOnce == ASSUME OnceInv, Advance PROVE Gated' /\ ExactlyOnce'
<1>1. GraphInv /\ Steps' /\ mem'.skip = FALSE
  BY AdvanceGraph DEF OnceInv
<1>2. UNCHANGED <<disk, rows, recorded, dropped>> /\ run' # "step" /\ saved' = FALSE
  BY DEF Advance
<1>3. \A n \in disk.next \cup Nodes : HasResult(n)' <=> HasResult(n)
  BY <1>2 DEF HasResult
<1>4. ExactlyOnce'
  BY <1>2, <1>3, SameCounts DEF OnceInv
<1>5. ~Repeats'
  <2>1. PICK n \in disk.next : n \in Nodes
    BY <1>1, <1>2, CheckpointFields DEF Steps, GraphInv, TypeOK, OnceInv
  <2>2. mem'.values[n] = disk.values[n] + 1
    BY <1>1, <1>2, <2>1 DEF Steps, Applied
  <2>3. disk.values[n] \in Nat
    BY <2>1, CheckpointFields DEF OnceInv, GraphInv, TypeOK
  <2> QED
    BY <1>2, <2>2, <2>3 DEF Repeats
<1>6. Gated'
  BY <1>1, <1>2, <1>3, <1>5 DEF OnceInv, Gated
<1> QED
  BY <1>4, <1>6

LEMMA StepOnce == ASSUME Entry \cap Before = {}, OnceInv, [Next]_vars PROVE OnceInv'
<1>1. GraphInv'
  BY StepGraph DEF OnceInv
<1>2. Gated' /\ ExactlyOnce'
  <2>1. CASE UNCHANGED vars
    <3>1. UNCHANGED <<disk, rows, run, mem, saved, recorded, dropped>>
      BY <2>1 DEF vars, memory
    <3> QED
      BY <3>1 DEF OnceInv, Gated, Repeats, ExactlyOnce, HasResult
  <2> QED
    BY <2>1, SaveOnce, BeginOnce, StopOnce, GateOnce, ReturnOnce, AdvanceOnce DEF Next, Loop
<1> QED
  BY <1>1, <1>2 DEF OnceInv

\* Where interrupt_before names no entry node, no result of a node is lost, run
\* again or applied twice.  With a gated entry node one is: the gate stops a
\* step some of whose tasks have a result.
THEOREM ResultsCountOnce ==
    ASSUME Entry \cap Before = {}
    PROVE  Spec => []ExactlyOnce
<1>1. OnceInv /\ [Next]_vars => OnceInv'
  BY StepOnce
<1>2. OnceInv => ExactlyOnce
  BY DEF OnceInv
<1> QED
  BY <1>1, <1>2, InitOnce, PTL DEF Spec

-----------------------------------------------------------------------------
(***************************************************************************)
(* Joins.                                                                  *)
(***************************************************************************)

One(p) == IF p THEN 1 ELSE 0

\* A run of the target that is due, and a node the join remembers, count as well.
Behind(c) ==
    \A j \in Joins : \A n \in j.from :
       c.values[j.to] + One(j.to \in c.next) + One(n \in c.seen[j]) <= c.values[n]

\* What a task chose is one of the choices its node has.
Chosen == \A n \in Nodes : rows[n].result \subseteq Routes[n]

JoinInv == TypeOK /\ Chosen /\ Behind(disk) /\ Behind(mem)

LEMMA JoinNodes ==
    \A j \in Joins : j.to \in Nodes /\ j.from \in SUBSET Nodes
BY GraphAssumption

LEMMA InitJoin == Init => JoinInv
<1> SUFFICES ASSUME Init PROVE JoinInv
  OBVIOUS
<1>1. Chosen
  BY NoResults DEF Init, Chosen
<1>2. /\ disk.values = [n \in Nodes |-> 0] /\ disk.seen = [j \in Joins |-> {}] /\ disk.next = {}
      /\ mem = disk
  BY DEF Init
<1>3. Behind(disk)
  <2> SUFFICES ASSUME NEW j \in Joins, NEW n \in j.from
               PROVE  disk.values[j.to] + One(j.to \in disk.next) + One(n \in disk.seen[j]) <= disk.values[n]
    BY DEF Behind
  <2>1. disk.values[j.to] = 0 /\ disk.values[n] = 0
    BY <1>2, JoinNodes
  <2>2. One(j.to \in disk.next) = 0 /\ One(n \in disk.seen[j]) = 0
    BY <1>2 DEF One
  <2> QED
    BY <2>1, <2>2
<1> QED
  BY <1>1, <1>2, <1>3, InitTyped DEF JoinInv

\* Fewer runs due, and the same past.
LEMMA BehindStill ==
    ASSUME NEW c \in Checkpoint, NEW d \in Checkpoint, Behind(c), d.values = c.values, d.seen = c.seen,
           \A j \in Joins : j.to \in d.next => j.to \in c.next
    PROVE  Behind(d)
<1> SUFFICES ASSUME NEW j \in Joins, NEW n \in j.from
             PROVE  d.values[j.to] + One(j.to \in d.next) + One(n \in d.seen[j]) <= d.values[n]
  BY DEF Behind
<1>1. c.values[j.to] + One(j.to \in c.next) + One(n \in c.seen[j]) <= c.values[n]
  BY DEF Behind
<1>2. c.values[j.to] \in Nat /\ c.values[n] \in Nat
  BY JoinNodes, CheckpointFields
<1>3. One(j.to \in d.next) <= One(j.to \in c.next) /\ One(j.to \in c.next) \in Nat /\ One(j.to \in d.next) \in Nat
      /\ One(n \in c.seen[j]) \in Nat
  BY DEF One
<1> QED
  BY <1>1, <1>2, <1>3

LEMMA BeginJoin ==
    ASSUME JoinsLeadAlone, JoinInv, Input \/ Continue \/ Resume
    PROVE  JoinInv'
<1>1. TypeOK' /\ disk \in Checkpoint /\ rows \in [Nodes -> Row]
  BY InputTyped, ContinueTyped, ResumeTyped DEF JoinInv, TypeOK
<1>2. UNCHANGED disk
  BY DEF Input, Continue, Resume, Begin
<1>3. Chosen'
  <2>1. CASE Input \/ Continue
    BY <2>1 DEF Input, Continue, JoinInv, Chosen
  <2>2. CASE Resume
    <3>1. ASSUME NEW n \in Nodes PROVE rows'[n].result = rows[n].result
      <4>1. rows[n] \in Row
        BY <1>1
      <4>2. [rows[n] EXCEPT !.given = @ + 1].result = rows[n].result
        BY <4>1 DEF Row
      <4> QED
        BY <2>2, <4>2 DEF Resume
    <3> QED
      BY <3>1 DEF JoinInv, Chosen
  <2> QED
    BY <2>1, <2>2
<1>4. Behind(mem')
  <2>1. CASE Input
    <3> DEFINE m == [disk EXCEPT !.step = @ + 1, !.source = "input", !.next = Entry]
    <3>1. mem' = m /\ m \in Checkpoint
      BY <1>1, <2>1 DEF Input, Begin, TypeOK
    <3>2. m.values = disk.values /\ m.seen = disk.seen /\ m.next = Entry
      BY <1>1 DEF Checkpoint
    <3> HIDE DEF m
    <3> QED
      BY <1>1, <3>1, <3>2, BehindStill DEF JoinsLeadAlone, JoinInv
  <2>2. CASE Continue \/ Resume
    BY <2>2 DEF Continue, Resume, Begin, JoinInv
  <2> QED
    BY <2>1, <2>2
<1> QED
  BY <1>1, <1>2, <1>3, <1>4 DEF JoinInv, Behind

LEMMA SaveJoin == ASSUME JoinInv, Save PROVE JoinInv'
<1>1. mem \in Checkpoint /\ disk' \in Checkpoint /\ TypeOK'
  BY SaveTyped DEF JoinInv, TypeOK
<1>2. /\ disk'.values = mem.values /\ disk'.seen = mem.seen /\ disk'.next = mem.next
      /\ rows' = NoRows /\ UNCHANGED mem
  BY <1>1 DEF Save, Checkpoint
<1>3. Behind(disk')
  <2>1. PICK d \in Checkpoint : d = disk'
    BY <1>1
  <2> QED
    BY <1>1, <1>2, <2>1, BehindStill DEF JoinInv
<1>4. Chosen'
  BY <1>2, NoResults DEF Chosen
<1> QED
  BY <1>1, <1>2, <1>3, <1>4 DEF JoinInv, Behind

LEMMA StopJoin ==
    ASSUME JoinInv, Stop \/ Pause \/ Close \/ Crash \/ (\E n \in Nodes : NodeFails(n))
    PROVE  JoinInv'
<1>1. TypeOK'
  BY StopTyped DEF JoinInv
<1>2. UNCHANGED <<disk, rows>> /\ (mem' = mem \/ mem' = disk)
  BY DEF Stop, Pause, Close, Crash, NodeFails
<1> QED
  BY <1>1, <1>2 DEF JoinInv, Chosen, Behind

LEMMA GateJoin == ASSUME JoinInv, PauseBefore \/ CallAll PROVE JoinInv'
<1>1. TypeOK' /\ mem \in Checkpoint /\ mem' \in Checkpoint
  BY GateTyped DEF JoinInv, TypeOK
<1>2. UNCHANGED <<disk, rows>> /\ mem'.values = mem.values /\ mem'.seen = mem.seen /\ mem'.next = mem.next
  BY <1>1 DEF PauseBefore, CallAll, Checkpoint
<1>3. Behind(mem')
  <2>1. PICK d \in Checkpoint : d = mem'
    BY <1>1
  <2> QED
    BY <1>1, <1>2, <2>1, BehindStill DEF JoinInv
<1> QED
  BY <1>1, <1>2, <1>3 DEF JoinInv, Chosen, Behind

LEMMA ReturnJoin ==
    ASSUME JoinInv, NEW n \in Nodes, NodeAsks(n) \/ NodeReturns(n)
    PROVE  JoinInv'
<1>1. TypeOK' /\ rows \in [Nodes -> Row] /\ rows[n] \in Row
  BY ReturnTyped DEF JoinInv, TypeOK
<1>2. UNCHANGED <<disk, mem>>
  BY DEF NodeAsks, NodeReturns, Return
<1>3. PICK row : rows' = [rows EXCEPT ![n] = row] /\ row.result \subseteq Routes[n]
  <2>1. CASE NodeAsks(n)
    <3>1. [rows[n] EXCEPT !.asked = rows[n].given + 1].result = rows[n].result
      BY <1>1 DEF Row
    <3> QED
      BY <2>1, <3>1 DEF NodeAsks, Return, JoinInv, Chosen
  <2>2. CASE NodeReturns(n)
    <3>1. PICK chosen \in Routes[n] : rows' = [rows EXCEPT ![n] = [rows[n] EXCEPT !.result = {chosen}]]
      BY <2>2 DEF NodeReturns, Return
    <3>2. [rows[n] EXCEPT !.result = {chosen}].result = {chosen}
      BY <1>1 DEF Row
    <3> QED
      BY <3>1, <3>2
  <2> QED
    BY <2>1, <2>2
<1>4. Chosen'
  BY <1>1, <1>3 DEF JoinInv, Chosen
<1> QED
  BY <1>1, <1>2, <1>4 DEF JoinInv, Behind

\* Only its join leads to the target of a join.
LEMMA TargetFires ==
    ASSUME JoinsLeadAlone, Chosen, NEW fin \in SUBSET Nodes, NEW j \in Joins, j.to \in Targets(fin)
    PROVE  Fires(j, fin)
<1>1. j.to \notin {e[2] : e \in {x \in Edges : x[1] \in fin}}
  BY DEF JoinsLeadAlone
<1>2. j.to \notin UNION UNION {rows[n].result : n \in fin}
  <2> SUFFICES ASSUME NEW n \in fin, NEW chosen \in rows[n].result, j.to \in chosen PROVE FALSE
    OBVIOUS
  <2> QED
    BY DEF Chosen, JoinsLeadAlone
<1>3. j.to \in {k.to : k \in {l \in Joins : Fires(l, fin)}}
  BY <1>1, <1>2 DEF Targets
<1> QED
  BY <1>3 DEF JoinsLeadAlone

\* The barrier: a node that the step ran counts once more, for itself and for what
\* its joins remember.
LEMMA AdvanceJoin == ASSUME JoinsLeadAlone, JoinInv, Advance PROVE JoinInv'
<1> DEFINE fin == mem.next
<1>1. PICK seen \in [Joins -> SUBSET Nodes] :
         /\ \A j \in Joins : seen[j] \in Seen(j, fin)
         /\ mem' = [step |-> mem.step + 1, source |-> "loop", values |-> Applied(mem.values, fin),
                    seen |-> seen, next |-> Targets(fin), skip |-> FALSE]
  BY DEF Advance
<1>2. TypeOK' /\ mem \in Checkpoint /\ fin \in SUBSET Nodes /\ mem.values \in [Nodes -> Nat]
  BY AdvanceTyped, CheckpointFields DEF JoinInv, TypeOK
<1>3. mem'.values = Applied(mem.values, fin) /\ mem'.seen = seen /\ mem'.next = Targets(fin)
  BY <1>1
<1>4. UNCHANGED <<disk, rows>>
  BY DEF Advance
<1> HIDE DEF fin
<1>5. ASSUME NEW j \in Joins, NEW n \in j.from
      PROVE  mem'.values[j.to] + One(j.to \in mem'.next) + One(n \in mem'.seen[j]) <= mem'.values[n]
  <2>1. j.to \in Nodes /\ n \in Nodes
    BY JoinNodes
  <2>2. /\ mem.values[j.to] \in Nat /\ mem.values[n] \in Nat
        /\ mem'.values[j.to] = mem.values[j.to] + One(j.to \in fin)
        /\ mem'.values[n] = mem.values[n] + One(n \in fin)
    BY <1>2, <1>3, <2>1 DEF Applied, One
  <2>3. mem.values[j.to] + One(j.to \in fin) + One(n \in mem.seen[j]) <= mem.values[n]
    BY DEF JoinInv, Behind, fin
  <2>4. One(j.to \in fin) \in Nat /\ One(n \in mem.seen[j]) \in Nat /\ One(n \in fin) \in Nat
    BY DEF One
  <2>5. One(j.to \in Targets(fin)) + One(n \in seen[j]) <= One(n \in mem.seen[j]) + One(n \in fin)
    <3>1. CASE Fires(j, fin)
      <4>1. n \in mem.seen[j] \/ n \in fin
        BY <3>1 DEF Fires
      <4>2. n \in seen[j] => n \in fin /\ n \in mem.seen[j]
        BY <1>1, <3>1 DEF Seen
      <4> QED
        BY <4>1, <4>2 DEF One
    <3>2. CASE ~Fires(j, fin)
      <4>1. j.to \notin Targets(fin)
        BY <1>2, <3>2, TargetFires DEF JoinInv
      <4>2. n \in seen[j] => n \in fin \/ n \in mem.seen[j]
        BY <1>1, <3>2 DEF Seen
      <4> QED
        BY <4>1, <4>2 DEF One
    <3> QED
      BY <3>1, <3>2
  <2>6. One(j.to \in Targets(fin)) \in Nat /\ One(n \in seen[j]) \in Nat
    BY DEF One
  <2>7. mem.values[j.to] + One(j.to \in fin) + One(j.to \in Targets(fin)) + One(n \in seen[j])
           <= mem.values[n] + One(n \in fin)
    BY <2>2, <2>3, <2>4, <2>5, <2>6
  <2> QED
    BY <1>3, <2>2, <2>7
<1>6. Behind(mem')
  BY <1>5 DEF Behind
<1> QED
  BY <1>2, <1>4, <1>6 DEF JoinInv, Chosen, Behind

LEMMA StepJoin == ASSUME JoinsLeadAlone, JoinInv, [Next]_vars PROVE JoinInv'
<1>1. CASE UNCHANGED vars
  BY <1>1 DEF vars, memory, JoinInv, TypeOK, Chosen, Behind
<1> QED
  BY <1>1, BeginJoin, SaveJoin, StopJoin, GateJoin, ReturnJoin, AdvanceJoin DEF Next, Loop

\* Where only a join leads to a node, that node runs no more often than any of the
\* nodes it waits for, in whatever steps these finish and whatever fails between.
\* A node that an edge, a branch or START leads to as well may run ahead of them.
THEOREM JoinsAlwaysWait ==
    ASSUME JoinsLeadAlone
    PROVE  Spec => []JoinsWait
<1>1. JoinInv /\ [Next]_vars => JoinInv'
  BY StepJoin
<1>2. JoinInv => JoinsWait
  <2> SUFFICES ASSUME JoinInv, NEW j \in Joins, NEW n \in j.from PROVE disk.values[j.to] <= disk.values[n]
    BY DEF JoinsWait
  <2>1. disk.values[j.to] + One(j.to \in disk.next) + One(n \in disk.seen[j]) <= disk.values[n]
    BY DEF JoinInv, Behind
  <2>2. One(j.to \in disk.next) \in Nat /\ One(n \in disk.seen[j]) \in Nat
    BY DEF One
  <2>3. disk.values[j.to] \in Nat /\ disk.values[n] \in Nat
    BY JoinNodes, CheckpointFields DEF JoinInv, TypeOK
  <2> QED
    BY <2>1, <2>2, <2>3
<1> QED
  BY <1>1, <1>2, InitJoin, PTL DEF Spec
=============================================================================
