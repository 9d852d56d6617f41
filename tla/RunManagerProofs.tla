--------------------------- MODULE RunManagerProofs ---------------------------
(***************************************************************************)
(* For every set of threads and workers, every bound and every phase in    *)
(* which the process may die: one run of a thread at a time, one writer of *)
(* its checkpoint, and only pending runs, each once, in the queues.        *)
(***************************************************************************)
EXTENDS RunManagerInvariant, SequenceTheorems, FiniteSetTheorems, TLAPS

(***************************************************************************)
(* Sequences as functions: what the steps do to rows and queues.           *)
(***************************************************************************)

LEMMA SeqDomain ==
    ASSUME NEW S, NEW q \in Seq(S)
    PROVE  /\ Len(q) \in Nat
           /\ DOMAIN q = 1 .. Len(q)
           /\ \A i \in DOMAIN q : q[i] \in S
BY LenProperties, ElementOfSeq

LEMMA SeqUpdate ==
    ASSUME NEW S, NEW q \in Seq(S), NEW i \in DOMAIN q, NEW x \in S
    PROVE  /\ [q EXCEPT ![i] = x] \in Seq(S)
           /\ DOMAIN [q EXCEPT ![i] = x] = DOMAIN q
           /\ \A j \in DOMAIN q : [q EXCEPT ![i] = x][j] = IF j = i THEN x ELSE q[j]
BY SeqDomain, ExceptSeq

LEMMA SeqAppend ==
    ASSUME NEW S, NEW q \in Seq(S), NEW x \in S
    PROVE  /\ Append(q, x) \in Seq(S)
           /\ DOMAIN Append(q, x) = DOMAIN q \cup {Len(q) + 1}
           /\ \A j \in DOMAIN q : Append(q, x)[j] = q[j]
           /\ Append(q, x)[Len(q) + 1] = x
           /\ Len(q) + 1 \notin DOMAIN q
<1>1. /\ Append(q, x) \in Seq(S)
      /\ Len(Append(q, x)) = Len(q) + 1
      /\ \A j \in 1 .. Len(q) : Append(q, x)[j] = q[j]
      /\ Append(q, x)[Len(q) + 1] = x
  BY AppendProperties
<1>2. Len(q) \in Nat /\ DOMAIN q = 1 .. Len(q)
  BY SeqDomain
<1>3. DOMAIN Append(q, x) = 1 .. Len(q) + 1
  BY <1>1, SeqDomain
<1> QED
  BY <1>1, <1>2, <1>3

LEMMA SeqHeadTail ==
    ASSUME NEW S, NEW q \in Seq(S), q # <<>>
    PROVE  /\ 1 \in DOMAIN q /\ Head(q) = q[1]
           /\ Tail(q) \in Seq(S)
           /\ \A i \in DOMAIN Tail(q) : /\ i \in Nat /\ i # 0
                                        /\ i + 1 \in DOMAIN q
                                        /\ Tail(q)[i] = q[i + 1]
<1>1. Len(q) \in Nat \ {0} /\ DOMAIN q = 1 .. Len(q)
  BY EmptySeq, SeqDomain
<1>2. /\ Tail(q) \in Seq(S)
      /\ Len(Tail(q)) = Len(q) - 1
      /\ \A i \in 1 .. Len(Tail(q)) : Tail(q)[i] = q[i + 1]
  BY HeadTailProperties
<1>3. DOMAIN Tail(q) = 1 .. Len(q) - 1
  BY <1>2, SeqDomain
<1> QED
  BY <1>1, <1>2, <1>3, HeadTailProperties

\* Rows: ids are positive, and each row is well formed.
LEMMA Rows ==
    ASSUME TypeOK
    PROVE  /\ RunIds = 1 .. Len(runs) /\ Len(runs) \in Nat
           /\ \A r \in RunIds : runs[r] \in Run /\ r \in Nat
<1>1. runs \in Seq(Run)
  BY DEF TypeOK
<1> QED
  BY <1>1, SeqDomain DEF RunIds

-----------------------------------------------------------------------------
LEMMA InitIInv == ASSUME Init PROVE IInv
<1> USE DEF Init
<1>1. NoCheckpoint \in Checkpoint
  BY DEF NoCheckpoint, Checkpoint
<1>2. TypeOK
  BY <1>1 DEF TypeOK
<1>3. ~\E w \in Workers : Active(w)
  BY DEF Active
<1>4. RunIds = {}
  BY DEF RunIds
<1> QED
  BY <1>2, <1>3, <1>4 DEF IInv, JobsRun, ThreadsApart, RowsHeld, OneRunning, WithStatus,
     QuietUntilUp, LimboCancelled, QueuesHoldRows, QueuedArePending, SoleWriter

(***************************************************************************)
(* A step of a worker's graph run: whatever the step, the worker stays at  *)
(* work, and memory and disk agree on its thread's checkpoint afterwards.  *)
(***************************************************************************)
GraphEffect(w) ==
    /\ phase = "up" /\ pc[w] \in {"open", "input", "loop"}
    /\ \E p \in {"input", "loop"} \cup Outcomes : pc' = [pc EXCEPT ![w] = p]
    /\ \E c \in Checkpoint : mem' = [mem EXCEPT ![w] = c]
                             /\ ckpt' = [ckpt EXCEPT ![ThreadOf(w)] = c]
    /\ \A a \in acted' : a \in [thread : Threads, card : Int, by : Nat]
    /\ InGraph

LEMMA GraphStep ==
    ASSUME IInv, NEW w \in Workers, Graph(w)
    PROVE  GraphEffect(w)
<1>1. /\ TypeOK
      /\ Active(w) => job[w] \in RunIds
      /\ Active(w) /\ pc[w] # "open" => mem[w] = ckpt[ThreadOf(w)]
  BY DEF IInv, JobsRun, SoleWriter
<1>2. Active(w) => /\ ThreadOf(w) \in Threads /\ ckpt[ThreadOf(w)] \in Checkpoint
                   /\ job[w] \in Nat
  BY <1>1, Rows DEF TypeOK, ThreadOf, Run
<1>3. /\ mem[w] \in Checkpoint /\ mem \in [Workers -> Checkpoint]
      /\ ckpt \in [Threads -> Checkpoint]
  BY <1>1 DEF TypeOK
<1>4. \A a \in acted : a \in [thread : Threads, card : Int, by : Nat]
  BY <1>1 DEF TypeOK
<1>5. CASE Load(w)
  <2>1. Active(w) /\ pc[w] = "open" /\ phase = "up"
    BY <1>5 DEF Load, At, Active
  <2>2. ckpt' = [ckpt EXCEPT ![ThreadOf(w)] = ckpt[ThreadOf(w)]]
    BY <1>5, <1>3 DEF Load
  <2> QED
    BY <1>5, <2>1, <2>2, <1>2, <1>4 DEF GraphEffect, Load, Goto
<1>6. CASE Land(w)
  <2>1. Active(w) /\ pc[w] = "input" /\ phase = "up"
    BY <1>6 DEF Land, At, Active
  <2>2. Append(mem[w].inbox, job[w]) \in Seq(Nat)
    BY <2>1, <1>2, <1>3, SeqAppend DEF Checkpoint
  <2>3. [values |-> TRUE, inbox |-> Append(mem[w].inbox, job[w]), next |-> TRUE,
         step |-> mem[w].step + 1, ask |-> FALSE, reply |-> 0, result |-> FALSE]
            \in Checkpoint
    BY <2>2, <1>3 DEF Checkpoint
  <2> QED
    BY <1>6, <2>1, <2>3, <1>4 DEF GraphEffect, Land, Goto, Put
<1>7. CASE Answer(w)
  <2>1. Active(w) /\ pc[w] = "input" /\ phase = "up"
    BY <1>7 DEF Answer, At, Active
  <2>2. [mem[w] EXCEPT !.reply = IF mem[w].reply = 0 THEN job[w] ELSE mem[w].reply]
            \in Checkpoint
    BY <2>1, <1>2, <1>3 DEF Checkpoint
  <2> QED
    BY <1>7, <2>1, <2>2, <1>4 DEF GraphEffect, Answer, Goto, Put
<1>8. ASSUME pc[w] \in {"input", "loop"}, phase = "up", InGraph, UNCHANGED <<ckpt, mem, acted>>,
             NEW p \in {"input", "loop"} \cup Outcomes, Goto(w, p)
      PROVE  GraphEffect(w)
  <2>1. Active(w) /\ mem[w] = ckpt[ThreadOf(w)]
    BY <1>8, <1>1 DEF Active
  <2>2. mem' = [mem EXCEPT ![w] = mem[w]] /\ ckpt' = [ckpt EXCEPT ![ThreadOf(w)] = mem[w]]
    BY <2>1, <1>8, <1>3
  <2> QED
    BY <1>8, <2>2, <1>3, <1>4 DEF GraphEffect, Goto
<1>9. CASE AnswerNobody(w) \/ GoOn(w) \/ HitLimit(w) \/ NodeFails(w)
  BY <1>9, <1>8 DEF AnswerNobody, GoOn, HitLimit, NodeFails, Running, At, Outcomes
<1>10. CASE NodeAsks(w)
  <2>1. Active(w) /\ pc[w] = "loop" /\ phase = "up"
    BY <1>10 DEF NodeAsks, Running, At, Active
  <2>2. [mem[w] EXCEPT !.ask = TRUE] \in Checkpoint
    BY <1>3 DEF Checkpoint
  <2> QED
    BY <1>10, <2>1, <2>2, <1>4 DEF GraphEffect, NodeAsks, Goto, Put, Outcomes
<1>11. CASE NodeReturns(w)
  <2>1. Active(w) /\ pc[w] = "loop" /\ phase = "up"
    BY <1>11 DEF NodeReturns, Running, At, Active
  <2>2. [mem[w] EXCEPT !.result = TRUE] \in Checkpoint
    BY <1>3 DEF Checkpoint
  <2>3. [thread |-> ThreadOf(w), card |-> mem[w].step, by |-> mem[w].reply]
            \in [thread : Threads, card : Int, by : Nat]
    BY <2>1, <1>2, <1>3 DEF Checkpoint
  <2>4. \A a \in acted' : a \in [thread : Threads, card : Int, by : Nat]
    BY <1>11, <2>3, <1>4 DEF NodeReturns
  <2>5. pc' = [pc EXCEPT ![w] = "loop"]
    BY <1>11, <2>1, <1>1 DEF NodeReturns, TypeOK
  <2> QED
    BY <1>11, <2>1, <2>2, <2>4, <2>5 DEF GraphEffect, NodeReturns, Put
<1>12. CASE Advance(w)
  <2>1. Active(w) /\ pc[w] = "loop" /\ phase = "up"
    BY <1>12 DEF Advance, Running, At, Active
  <2>2. ASSUME NEW more \in BOOLEAN
        PROVE  [values |-> TRUE, inbox |-> mem[w].inbox, next |-> more,
                step |-> mem[w].step + 1,
                ask |-> FALSE, reply |-> 0, result |-> FALSE] \in Checkpoint
    BY <1>3 DEF Checkpoint
  <2> QED
    BY <1>12, <2>1, <2>2, <1>4 DEF GraphEffect, Advance, Goto, Put, Outcomes
<1> QED
  BY <1>5, <1>6, <1>7, <1>9, <1>10, <1>11, <1>12 DEF Graph

LEMMA GraphPreserves ==
    ASSUME IInv, NEW w \in Workers, GraphEffect(w)
    PROVE  IInv'
<1> USE DEF GraphEffect, InGraph
<1>1. TypeOK /\ JobsRun /\ ThreadsApart /\ SoleWriter
  BY DEF IInv
<1>2. PICK c \in Checkpoint : /\ mem' = [mem EXCEPT ![w] = c]
                              /\ ckpt' = [ckpt EXCEPT ![ThreadOf(w)] = c]
  OBVIOUS
<1>3. PICK p \in {"input", "loop"} \cup Outcomes : pc' = [pc EXCEPT ![w] = p]
  OBVIOUS
<1>4. Active(w) /\ ThreadOf(w) \in Threads
  <2>1. Active(w) /\ job[w] \in RunIds
    BY <1>1 DEF Active, JobsRun
  <2> QED
    BY <2>1, <1>1, Rows DEF ThreadOf, Run
<1>5. \A v \in Workers : /\ Active(v)' <=> Active(v)
                         /\ pc'[v] # "open" => v = w \/ pc[v] # "open"
                         /\ ThreadOf(v)' = ThreadOf(v)
  BY <1>3, <1>4, <1>1 DEF Active, Outcomes, TypeOK, ThreadOf
<1>6. TypeOK'
  <2>1. ckpt' \in [Threads -> Checkpoint] /\ mem' \in [Workers -> Checkpoint]
    BY <1>1, <1>2, <1>4 DEF TypeOK
  <2>2. pc' \in [Workers -> {"idle", "open", "input", "loop", "dead"} \cup Outcomes]
    BY <1>1, <1>3 DEF TypeOK
  <2> QED
    BY <1>1, <2>1, <2>2 DEF TypeOK, Run
<1>7. JobsRun' /\ ThreadsApart' /\ RowsHeld'
  BY <1>5 DEF IInv, JobsRun, ThreadsApart, RowsHeld, RunIds, WithStatus
<1>8. QuietUntilUp' /\ OneRunning' /\ LimboCancelled' /\ QueuesHoldRows' /\ QueuedArePending'
  BY DEF IInv, QuietUntilUp, OneRunning, LimboCancelled, QueuesHoldRows,
     QueuedArePending, CanEnter, WithStatus, RunIds
<1>9. SoleWriter'
  <2> SUFFICES ASSUME NEW v \in Workers, Active(v)', pc'[v] # "open"
               PROVE  mem'[v] = ckpt'[ThreadOf(v)']
    BY DEF SoleWriter
  <2>1. CASE v = w
    BY <2>1, <1>1, <1>2, <1>4, <1>5 DEF TypeOK
  <2>2. CASE v # w
    <3>1. ThreadOf(v) # ThreadOf(w) /\ mem[v] = ckpt[ThreadOf(v)]
      BY <2>2, <1>1, <1>4, <1>5 DEF ThreadsApart, SoleWriter
    <3> QED
      BY <2>2, <3>1, <1>1, <1>2, <1>5 DEF TypeOK
  <2> QED
    BY <2>1, <2>2
<1> QED
  BY <1>6, <1>7, <1>8, <1>9 DEF IInv

-----------------------------------------------------------------------------
(***************************************************************************)
(* Rows that are added: by callers, and by the recovery.                   *)
(***************************************************************************)

LEMMA RowAdded ==
    ASSUME TypeOK, NEW x \in Run, runs' = Append(runs, x)
    PROVE  /\ runs' \in Seq(Run)
           /\ RunIds' = RunIds \cup {Len(runs) + 1}
           /\ Len(runs) + 1 \notin RunIds /\ Len(runs) + 1 \in Nat
           /\ \A r \in RunIds : runs'[r] = runs[r]
           /\ runs'[Len(runs) + 1] = x
<1>1. runs \in Seq(Run)
  BY DEF TypeOK
<1> QED
  BY <1>1, SeqAppend, SeqDomain DEF RunIds

LEMMA RunningAsBefore ==
    ASSUME TypeOK, NEW x \in Run, x.status # "running", runs' = Append(runs, x)
    PROVE  WithStatus("running")' = WithStatus("running")
BY RowAdded DEF WithStatus

\* Where the workers stand does not depend on rows that are added.
LEMMA WorkersAsBefore ==
    ASSUME IInv, NEW x \in Run, x.status # "running", runs' = Append(runs, x),
           UNCHANGED <<ckpt, phase, busy, pc, job, mem>>
    PROVE  JobsRun' /\ ThreadsApart' /\ RowsHeld' /\ OneRunning' /\ SoleWriter'
<1>1. /\ TypeOK /\ JobsRun /\ ThreadsApart /\ RowsHeld /\ OneRunning /\ SoleWriter
  BY DEF IInv
<1>2. /\ RunIds \subseteq RunIds' /\ \A r \in RunIds : runs'[r] = runs[r]
      /\ WithStatus("running")' = WithStatus("running")
  BY <1>1, RowAdded, RunningAsBefore
<1>3. \A w \in Workers : /\ Active(w)' <=> Active(w)
                         /\ Active(w) => job[w] \in RunIds /\ ThreadOf(w)' = ThreadOf(w)
  BY <1>1, <1>2 DEF Active, JobsRun, ThreadOf
<1>4. JobsRun'
  BY <1>1, <1>2, <1>3 DEF JobsRun
<1>5. ThreadsApart'
  BY <1>1, <1>3 DEF ThreadsApart
<1>6. RowsHeld'
  BY <1>1, <1>2, <1>3 DEF RowsHeld
<1>7. OneRunning'
  BY <1>1, <1>2 DEF OneRunning, WithStatus
<1>8. SoleWriter'
  BY <1>1, <1>3 DEF SoleWriter
<1> QED
  BY <1>4, <1>5, <1>6, <1>7, <1>8

LEMMA NewRunIsRun ==
    ASSUME TypeOK, NEW t \in Threads, NEW k \in Kinds, NEW c \in Int
    PROVE  NewRun(t, k, c) \in Run
<1>1. Len(runs) + 1 \in Nat \ {0}
  BY Rows
<1> QED
  BY <1>1 DEF NewRun, Run, Statuses, NoCard

LEMMA WaitingCardIsInt ==
    ASSUME TypeOK, NEW t \in Threads
    PROVE  WaitingCard(t) \in Int
<1>1. CASE \E r \in RunIds : IsNewest(r, t) /\ runs[r].status = "interrupted"
  <2>1. (CHOOSE r \in RunIds : IsNewest(r, t)) \in RunIds
    BY <1>1
  <2> QED
    BY <1>1, <2>1, Rows DEF WaitingCard, Run
<1>2. CASE ~\E r \in RunIds : IsNewest(r, t) /\ runs[r].status = "interrupted"
  BY <1>2 DEF WaitingCard, NoCard
<1> QED
  BY <1>1, <1>2

\* A call adds one pending row and puts it at the end of the queue.
LEMMA EnqueueStep ==
    ASSUME IInv, NEW t \in Threads, NEW k \in Kinds, NEW c \in Int, Enqueue(t, k, c),
           sent' \in [Threads -> Seq(Nat)]
    PROVE  IInv'
<1>0. PICK n : n = Len(runs) + 1
  OBVIOUS
<1>1. /\ TypeOK /\ QuietUntilUp /\ LimboCancelled /\ QueuesHoldRows /\ QueuedArePending
  BY DEF IInv
<1>2. /\ phase = "up" /\ queue' = Append(queue, n) /\ runs' = Append(runs, NewRun(t, k, c))
      /\ UNCHANGED <<ckpt, acted, phase, limbo, busy, backlog, pc, job, mem, crashes>>
  BY <1>0 DEF Enqueue, MaySubmit
<1>3. /\ NewRun(t, k, c) \in Run
      /\ NewRun(t, k, c).status = "pending"
  BY <1>1, NewRunIsRun DEF NewRun
<1>4. /\ runs' \in Seq(Run) /\ RunIds' = RunIds \cup {n} /\ n \notin RunIds /\ n \in Nat
      /\ \A r \in RunIds : runs'[r] = runs[r]
      /\ runs'[n] = NewRun(t, k, c)
  BY <1>0, <1>1, <1>2, <1>3, RowAdded
<1>5. queue \in Seq(Nat) /\ backlog \in [Threads -> Seq(Nat)]
  BY <1>1 DEF TypeOK
<1>6. /\ queue' \in Seq(Nat)
      /\ DOMAIN queue' = DOMAIN queue \cup {Len(queue) + 1}
      /\ \A i \in DOMAIN queue : queue'[i] = queue[i]
      /\ queue'[Len(queue) + 1] = n
  <2>1. queue \in Seq(Nat) /\ n \in Nat
    BY <1>4, <1>5
  <2>2. /\ Append(queue, n) \in Seq(Nat)
        /\ DOMAIN Append(queue, n) = DOMAIN queue \cup {Len(queue) + 1}
        /\ \A i \in DOMAIN queue : Append(queue, n)[i] = queue[i]
        /\ Append(queue, n)[Len(queue) + 1] = n
    BY <2>1, SeqAppend
  <2> QED
    BY <1>2, <2>2
<1>7. TypeOK'
  BY <1>1, <1>2, <1>4, <1>6 DEF TypeOK
<1>8. JobsRun' /\ ThreadsApart' /\ RowsHeld' /\ OneRunning' /\ SoleWriter'
  BY <1>2, <1>3, WorkersAsBefore
<1>9. QuietUntilUp' /\ LimboCancelled'
  BY <1>1, <1>2, <1>4 DEF QuietUntilUp, LimboCancelled
<1>10. QueuesHoldRows'
  <2>1. \A i \in DOMAIN queue' : queue'[i] \in RunIds'
    BY <1>1, <1>4, <1>6 DEF QueuesHoldRows
  <2>2. \A s \in Threads : \A i \in DOMAIN backlog[s] :
            backlog[s][i] \in RunIds' /\ runs'[backlog[s][i]].thread = s
    BY <1>1, <1>4 DEF QueuesHoldRows
  <2> QED
    BY <2>1, <2>2, <1>2 DEF QueuesHoldRows
<1>11. QueuedArePending'
  <2>1. \A r \in RunIds : CanEnter(r) => runs'[r].status = "pending"
    BY <1>4 DEF CanEnter
  <2>2. runs'[n].status = "pending"
    BY <1>3, <1>4
  <2>3. \A i \in DOMAIN queue' : runs'[queue'[i]].status = "pending"
    BY <1>1, <1>6, <2>1, <2>2 DEF QueuesHoldRows, QueuedArePending
  <2>4. \A s \in Threads : \A i \in DOMAIN backlog[s] :
            runs'[backlog[s][i]].status = "pending"
    BY <1>1, <2>1 DEF QueuesHoldRows, QueuedArePending
  <2>5. \A i, j \in DOMAIN queue' : queue'[i] = queue'[j] => i = j
    BY <1>1, <1>4, <1>6 DEF QueuesHoldRows, QueuedArePending
  <2>6. \A s \in Threads : \A i \in DOMAIN queue', j \in DOMAIN backlog[s] :
            queue'[i] # backlog[s][j]
    BY <1>1, <1>4, <1>6 DEF QueuesHoldRows, QueuedArePending
  <2> QED
    BY <1>1, <1>2, <2>3, <2>4, <2>5, <2>6 DEF QueuedArePending, CanEnter
<1> QED
  BY <1>7, <1>8, <1>9, <1>10, <1>11 DEF IInv

LEMMA CallStep ==
    ASSUME IInv, NEW t \in Threads, Call(t)
    PROVE  IInv'
<1>1. TypeOK /\ Len(runs) + 1 \in Nat
  BY Rows DEF IInv
<1>2. sent \in [Threads -> Seq(Nat)]
  BY <1>1 DEF TypeOK
<1>3. [sent EXCEPT ![t] = Append(sent[t], Len(runs) + 1)] \in [Threads -> Seq(Nat)]
  <2>1. Append(sent[t], Len(runs) + 1) \in Seq(Nat)
    BY <1>1, <1>2, SeqAppend
  <2> QED
    BY <1>2, <2>1
<1>4. NoCard \in Int /\ WaitingCard(t) \in Int
  BY <1>1, WaitingCardIsInt DEF NoCard
<1>5. {"message", "input", "resume", "continue"} \subseteq Kinds
  BY DEF Kinds
<1>6. CASE Submit(t)
  BY <1>6, <1>3, <1>4, <1>5, EnqueueStep DEF Submit
<1>7. CASE SubmitInput(t)
  BY <1>7, <1>3, <1>4, <1>5, EnqueueStep DEF SubmitInput
<1>8. CASE SubmitContinue(t)
  BY <1>8, <1>2, <1>4, <1>5, EnqueueStep DEF SubmitContinue
<1>9. CASE Resume(t)
  BY <1>9, <1>2, <1>4, <1>5, EnqueueStep DEF Resume
<1> QED
  BY <1>6, <1>7, <1>8, <1>9 DEF Call

-----------------------------------------------------------------------------
(***************************************************************************)
(* Runs that move: off the queue, into a backlog, to a worker.             *)
(***************************************************************************)

\* What is left of a queue without repetitions when its head is taken.
LEMMA TailKeeps ==
    ASSUME NEW q \in Seq(Nat), q # <<>>,
           \A i, j \in DOMAIN q : q[i] = q[j] => i = j
    PROVE  /\ \E i \in DOMAIN q : Head(q) = q[i]
           /\ Head(q) \in Nat
           /\ Tail(q) \in Seq(Nat)
           /\ \A i \in DOMAIN Tail(q) : /\ Tail(q)[i] # Head(q)
                                        /\ \E j \in DOMAIN q : Tail(q)[i] = q[j]
           /\ \A i, j \in DOMAIN Tail(q) : Tail(q)[i] = Tail(q)[j] => i = j
<1>1. /\ 1 \in DOMAIN q /\ Head(q) = q[1]
      /\ Tail(q) \in Seq(Nat)
      /\ \A i \in DOMAIN Tail(q) : /\ i \in Nat /\ i # 0
                                   /\ i + 1 \in DOMAIN q
                                   /\ Tail(q)[i] = q[i + 1]
  BY SeqHeadTail
<1>2. \A i \in DOMAIN Tail(q) : Tail(q)[i] # Head(q)
  <2> TAKE i \in DOMAIN Tail(q)
  <2>1. i \in Nat /\ i # 0 /\ i + 1 \in DOMAIN q /\ Tail(q)[i] = q[i + 1]
    BY <1>1
  <2>2. i + 1 # 1
    BY <2>1
  <2> QED
    BY <1>1, <2>1, <2>2
<1>3. \A i, j \in DOMAIN Tail(q) : Tail(q)[i] = Tail(q)[j] => i = j
  <2> SUFFICES ASSUME NEW i \in DOMAIN Tail(q), NEW j \in DOMAIN Tail(q),
                      Tail(q)[i] = Tail(q)[j]
               PROVE  i = j
    OBVIOUS
  <2>1. i + 1 = j + 1
    BY <1>1
  <2> QED
    BY <1>1, <2>1
<1>4. Head(q) \in Nat
  BY <1>1, SeqDomain
<1> QED
  BY <1>1, <1>2, <1>3, <1>4

\* The run at the head of the queue is a pending row, and is nowhere else.
LEMMA QueueHead ==
    ASSUME IInv, queue # <<>>, queue' = Tail(queue)
    PROVE  /\ Head(queue) \in RunIds /\ runs[Head(queue)].status = "pending"
           /\ queue' \in Seq(Nat)
           /\ \A i \in DOMAIN queue' : /\ queue'[i] # Head(queue)
                                       /\ \E j \in DOMAIN queue : queue'[i] = queue[j]
           /\ \A i, j \in DOMAIN queue' : queue'[i] = queue'[j] => i = j
           /\ \A t \in Threads : \A i \in DOMAIN backlog[t] : backlog[t][i] # Head(queue)
<1>1. queue \in Seq(Nat) /\ \A i, j \in DOMAIN queue : queue[i] = queue[j] => i = j
  BY DEF IInv, TypeOK, QueuedArePending
<1>2. /\ \E i \in DOMAIN queue : Head(queue) = queue[i]
      /\ queue' \in Seq(Nat)
      /\ \A i \in DOMAIN queue' : /\ queue'[i] # Head(queue)
                                  /\ \E j \in DOMAIN queue : queue'[i] = queue[j]
      /\ \A i, j \in DOMAIN queue' : queue'[i] = queue'[j] => i = j
  BY <1>1, TailKeeps
<1>3. Head(queue) \in RunIds /\ runs[Head(queue)].status = "pending"
  BY <1>2 DEF IInv, QueuesHoldRows, QueuedArePending, CanEnter
<1>4. \A t \in Threads : \A i \in DOMAIN backlog[t] : backlog[t][i] # Head(queue)
  BY <1>2 DEF IInv, QueuedArePending
<1> QED
  BY <1>2, <1>3, <1>4

\* The same of the backlog of a thread.
LEMMA BacklogHead ==
    ASSUME IInv, NEW t \in Threads, backlog[t] # <<>>,
           backlog' = [backlog EXCEPT ![t] = Tail(backlog[t])]
    PROVE  /\ Head(backlog[t]) \in RunIds /\ runs[Head(backlog[t])].status = "pending"
           /\ runs[Head(backlog[t])].thread = t
           /\ backlog' \in [Threads -> Seq(Nat)]
           /\ \A s \in Threads : \A i \in DOMAIN backlog'[s] :
                /\ backlog'[s][i] # Head(backlog[t])
                /\ \E j \in DOMAIN backlog[s] : backlog'[s][i] = backlog[s][j]
           /\ \A s \in Threads : \A i, j \in DOMAIN backlog'[s] :
                backlog'[s][i] = backlog'[s][j] => i = j
           /\ \A i \in DOMAIN queue : queue[i] # Head(backlog[t])
<1>1. backlog \in [Threads -> Seq(Nat)]
  BY DEF IInv, TypeOK
<1>2. \A s \in Threads : \A i, j \in DOMAIN backlog[s] : backlog[s][i] = backlog[s][j] => i = j
  BY DEF IInv, QueuedArePending
<1>0. PICK q : q = backlog[t]
  OBVIOUS
<1>3. q \in Seq(Nat) /\ q # <<>> /\ \A i, j \in DOMAIN q : q[i] = q[j] => i = j
  BY <1>0, <1>1, <1>2
<1>4. /\ \E i \in DOMAIN q : Head(q) = q[i]
      /\ Tail(q) \in Seq(Nat)
      /\ \A i \in DOMAIN Tail(q) : /\ Tail(q)[i] # Head(q)
                                   /\ \E j \in DOMAIN q : Tail(q)[i] = q[j]
      /\ \A i, j \in DOMAIN Tail(q) : Tail(q)[i] = Tail(q)[j] => i = j
  BY <1>3, TailKeeps
<1>5. /\ Head(q) \in RunIds /\ runs[Head(q)].status = "pending" /\ runs[Head(q)].thread = t
      /\ \A i \in DOMAIN queue : queue[i] # Head(q)
  BY <1>0, <1>4 DEF IInv, QueuesHoldRows, QueuedArePending, CanEnter
<1>6. \A s \in Threads \ {t} : backlog'[s] = backlog[s]
  BY <1>1
<1>7. backlog'[t] = Tail(q)
  BY <1>0, <1>1
<1>8. \A s \in Threads \ {t} : \A i \in DOMAIN backlog[s] : backlog[s][i] # Head(q)
  BY <1>5 DEF IInv, QueuesHoldRows
<1>9. backlog' \in [Threads -> Seq(Nat)]
  BY <1>0, <1>1, <1>4
<1>10. \A s \in Threads : \A i \in DOMAIN backlog'[s] :
          /\ backlog'[s][i] # Head(q)
          /\ \E j \in DOMAIN backlog[s] : backlog'[s][i] = backlog[s][j]
  <2> TAKE s \in Threads
  <2>1. CASE s = t
    <3>1. backlog'[s] = Tail(q) /\ backlog[s] = q
      BY <2>1, <1>0, <1>7
    <3> QED
      BY <3>1, <1>4
  <2>2. CASE s # t
    BY <2>2, <1>6, <1>8
  <2> QED
    BY <2>1, <2>2
<1>11. \A s \in Threads : \A i, j \in DOMAIN backlog'[s] : backlog'[s][i] = backlog'[s][j] => i = j
  <2> TAKE s \in Threads
  <2>1. CASE s = t
    <3>1. backlog'[s] = Tail(q)
      BY <2>1, <1>7
    <3> QED
      BY <3>1, <1>4
  <2>2. CASE s # t
    BY <2>2, <1>6, <1>2
  <2> QED
    BY <2>1, <2>2
<1> QED
  BY <1>0, <1>5, <1>9, <1>10, <1>11

LEMMA DeferStep ==
    ASSUME IInv, NEW w \in Workers, Defer(w)
    PROVE  IInv'
<1>0. PICK r : r = Head(queue)
  OBVIOUS
<1>1. PICK t : t = runs[r].thread
  OBVIOUS
<1>2. /\ phase = "up" /\ queue # <<>> /\ queue' = Tail(queue)
      /\ backlog' = [backlog EXCEPT ![t] = Append(backlog[t], r)]
      /\ UNCHANGED <<runs, ckpt, sent, acted, phase, limbo, busy, pc, job, mem, crashes>>
  BY <1>0, <1>1 DEF Defer, Idle, disk
<1>3. /\ r \in RunIds /\ runs[r].status = "pending"
      /\ queue' \in Seq(Nat)
      /\ \A i \in DOMAIN queue' : queue'[i] # r /\ \E j \in DOMAIN queue : queue'[i] = queue[j]
      /\ \A i, j \in DOMAIN queue' : queue'[i] = queue'[j] => i = j
      /\ \A s \in Threads : \A i \in DOMAIN backlog[s] : backlog[s][i] # r
  BY <1>0, <1>2, QueueHead
<1>4. TypeOK /\ QueuesHoldRows /\ QueuedArePending
  BY DEF IInv
<1>5. t \in Threads /\ r \in Nat
  BY <1>1, <1>3, <1>4, Rows DEF Run
<1>6. backlog \in [Threads -> Seq(Nat)] /\ backlog[t] \in Seq(Nat)
  BY <1>4, <1>5 DEF TypeOK
<1>7. PICK n : n = Len(backlog[t]) + 1
  OBVIOUS
<1>8. /\ backlog'[t] \in Seq(Nat) /\ DOMAIN backlog'[t] = DOMAIN backlog[t] \cup {n}
      /\ \A i \in DOMAIN backlog[t] : backlog'[t][i] = backlog[t][i]
      /\ backlog'[t][n] = r
  <2>1. backlog'[t] = Append(backlog[t], r)
    BY <1>2, <1>5, <1>6
  <2> QED
    BY <2>1, <1>5, <1>6, <1>7, SeqAppend
<1>9. \A s \in Threads \ {t} : backlog'[s] = backlog[s]
  BY <1>2, <1>6
<1>10. TypeOK'
  <2>1. backlog' \in [Threads -> Seq(Nat)]
    BY <1>2, <1>5, <1>6, <1>8
  <2> QED
    BY <1>2, <1>3, <1>4, <2>1 DEF TypeOK
<1>11. JobsRun' /\ ThreadsApart' /\ RowsHeld' /\ OneRunning' /\ SoleWriter'
  BY <1>2 DEF IInv, JobsRun, ThreadsApart, RowsHeld, OneRunning, SoleWriter, Active,
     ThreadOf, WithStatus, RunIds
<1>12. QuietUntilUp' /\ LimboCancelled'
  BY <1>2 DEF IInv, QuietUntilUp, LimboCancelled, RunIds
<1>13. \A s \in Threads : \A i \in DOMAIN backlog'[s] :
           \/ \E j \in DOMAIN backlog[s] : backlog'[s][i] = backlog[s][j]
           \/ s = t /\ backlog'[s][i] = r
  BY <1>8, <1>9
<1>14. QueuesHoldRows'
  <2>1. \A i \in DOMAIN queue' : queue'[i] \in RunIds
    BY <1>3, <1>4 DEF QueuesHoldRows
  <2>2. \A s \in Threads : \A i \in DOMAIN backlog'[s] :
            backlog'[s][i] \in RunIds /\ runs[backlog'[s][i]].thread = s
    BY <1>1, <1>3, <1>4, <1>13 DEF QueuesHoldRows
  <2> QED
    BY <2>1, <2>2, <1>2 DEF QueuesHoldRows, RunIds
<1>15. QueuedArePending'
  <2>1. \A i \in DOMAIN queue' : runs[queue'[i]].status = "pending"
    BY <1>3, <1>4 DEF QueuedArePending, CanEnter
  <2>2. \A s \in Threads : \A i \in DOMAIN backlog'[s] : runs[backlog'[s][i]].status = "pending"
    BY <1>3, <1>4, <1>13 DEF QueuedArePending, CanEnter
  <2>3. \A s \in Threads : \A i, j \in DOMAIN backlog'[s] :
            backlog'[s][i] = backlog'[s][j] => i = j
    <3> TAKE s \in Threads
    <3>1. CASE s = t
      BY <3>1, <1>3, <1>4, <1>8 DEF QueuedArePending
    <3>2. CASE s # t
      BY <3>2, <1>4, <1>9 DEF QueuedArePending
    <3> QED
      BY <3>1, <3>2
  <2>4. \A s \in Threads : \A i \in DOMAIN queue', j \in DOMAIN backlog'[s] :
            queue'[i] # backlog'[s][j]
    BY <1>3, <1>4, <1>13 DEF QueuedArePending
  <2> QED
    BY <1>2, <1>3, <2>1, <2>2, <2>3, <2>4 DEF QueuedArePending, CanEnter
<1> QED
  BY <1>10, <1>11, <1>12, <1>14, <1>15 DEF IInv

\* Taking the head off the queue keeps what the invariant says of the queues, as
\* far as the other rows stay pending.
LEMMA QueueAfterTake ==
    ASSUME IInv, queue # <<>>, queue' = Tail(queue), UNCHANGED backlog, RunIds' = RunIds,
           \A r \in RunIds : /\ runs'[r].thread = runs[r].thread
                             /\ r # Head(queue) => runs'[r].status = runs[r].status
    PROVE  QueuesHoldRows' /\ QueuedArePending'
<1>1. /\ \A i \in DOMAIN queue' : /\ queue'[i] # Head(queue)
                                  /\ \E j \in DOMAIN queue : queue'[i] = queue[j]
      /\ \A i, j \in DOMAIN queue' : queue'[i] = queue'[j] => i = j
      /\ \A t \in Threads : \A i \in DOMAIN backlog[t] : backlog[t][i] # Head(queue)
  BY QueueHead
<1>2. QueuesHoldRows /\ QueuedArePending
  BY DEF IInv
<1>3. QueuesHoldRows'
  BY <1>1, <1>2 DEF QueuesHoldRows
<1>4. /\ \A i \in DOMAIN queue' : runs'[queue'[i]].status = "pending"
      /\ \A t \in Threads : \A i \in DOMAIN backlog[t] : runs'[backlog[t][i]].status = "pending"
  BY <1>1, <1>2 DEF QueuesHoldRows, QueuedArePending, CanEnter
<1>5. \A t \in Threads : \A i \in DOMAIN queue', j \in DOMAIN backlog[t] :
          queue'[i] # backlog[t][j]
  BY <1>1, <1>2 DEF QueuedArePending
<1> QED
  BY <1>1, <1>2, <1>3, <1>4, <1>5 DEF QueuedArePending, CanEnter

LEMMA TakeDiesStep ==
    ASSUME IInv, NEW w \in Workers, TakeDies(w)
    PROVE  IInv'
<1>1. /\ phase = "up" /\ pc[w] = "idle" /\ queue # <<>> /\ queue' = Tail(queue)
      /\ pc' = [pc EXCEPT ![w] = "dead"]
      /\ UNCHANGED <<runs, ckpt, sent, acted, phase, limbo, busy, backlog, job, mem, crashes>>
  BY DEF TakeDies, Idle, Goto, disk
<1>2. TypeOK /\ queue' \in Seq(Nat)
  BY <1>1, QueueHead DEF IInv
<1>3. TypeOK'
  BY <1>1, <1>2 DEF TypeOK
<1>4. \A v \in Workers : /\ Active(v)' <=> Active(v)
                         /\ ThreadOf(v)' = ThreadOf(v)
                         /\ Active(v) => pc'[v] = pc[v]
  BY <1>1, <1>2 DEF Active, ThreadOf, TypeOK
<1>5. JobsRun' /\ ThreadsApart' /\ RowsHeld' /\ OneRunning' /\ SoleWriter'
  BY <1>1, <1>4 DEF IInv, JobsRun, ThreadsApart, RowsHeld, OneRunning, SoleWriter,
     WithStatus, RunIds
<1>6. QuietUntilUp' /\ LimboCancelled'
  BY <1>1 DEF IInv, QuietUntilUp, LimboCancelled, RunIds
<1>7. QueuesHoldRows' /\ QueuedArePending'
  BY <1>1, QueueAfterTake DEF RunIds
<1> QED
  BY <1>3, <1>5, <1>6, <1>7 DEF IInv

LEMMA TakeStep ==
    ASSUME IInv, NEW w \in Workers, Take(w)
    PROVE  IInv'
<1>0. PICK r : r = Head(queue)
  OBVIOUS
<1>1. PICK t : t = runs[r].thread
  OBVIOUS
<1>2. /\ phase = "up" /\ pc[w] = "idle" /\ queue # <<>> /\ queue' = Tail(queue)
      /\ t \notin busy /\ busy' = busy \cup {t}
      /\ pc' = [pc EXCEPT ![w] = "open"] /\ job' = [job EXCEPT ![w] = r]
      /\ runs' = [runs EXCEPT ![r].status = "running"]
      /\ UNCHANGED <<ckpt, sent, acted, phase, limbo, backlog, mem, crashes>>
  BY <1>0, <1>1 DEF Take, Idle, Enter
<1>3. r \in RunIds /\ runs[r].status = "pending" /\ queue' \in Seq(Nat)
  BY <1>0, <1>2, QueueHead
<1>4. /\ TypeOK /\ JobsRun /\ ThreadsApart /\ RowsHeld /\ OneRunning /\ SoleWriter
  BY DEF IInv
<1>5. runs \in Seq(Run) /\ runs[r] \in Run /\ t \in Threads /\ r \in Nat
  BY <1>1, <1>3, <1>4, Rows DEF TypeOK, Run
<1>6. [runs[r] EXCEPT !.status = "running"] \in Run
  BY <1>5 DEF Run, Statuses
<1>7. /\ runs' \in Seq(Run) /\ RunIds' = RunIds
      /\ \A s \in RunIds : /\ runs'[s].thread = runs[s].thread
                           /\ s # r => runs'[s].status = runs[s].status
      /\ runs'[r].status = "running"
  <2>1. /\ runs' \in Seq(Run) /\ DOMAIN runs' = DOMAIN runs
        /\ \A s \in RunIds : runs'[s] = IF s = r THEN [runs[r] EXCEPT !.status = "running"]
                                                 ELSE runs[s]
    BY <1>2, <1>3, <1>5, <1>6, SeqUpdate DEF RunIds
  <2> QED
    BY <2>1, <1>3, <1>5 DEF RunIds, Run
<1>8. TypeOK'
  <2>1. job' \in [Workers -> Nat] /\ busy' \subseteq Threads
    BY <1>2, <1>4, <1>5 DEF TypeOK
  <2>2. pc' \in [Workers -> {"idle", "open", "input", "loop", "dead"} \cup Outcomes]
    BY <1>2, <1>4 DEF TypeOK
  <2> QED
    BY <1>2, <1>3, <1>4, <1>7, <2>1, <2>2 DEF TypeOK
<1>9. \A v \in Workers \ {w} : /\ Active(v)' <=> Active(v)
                               /\ pc'[v] = pc[v] /\ job'[v] = job[v]
  BY <1>2, <1>4 DEF Active, TypeOK
<1>10. ~Active(w) /\ Active(w)' /\ pc'[w] = "open" /\ job'[w] = r
  BY <1>2, <1>4 DEF Active, TypeOK, Outcomes
<1>11. \A v \in Workers \ {w} : Active(v) =>
           /\ job[v] \in RunIds /\ job[v] # r /\ runs[job[v]].status = "running"
           /\ ThreadOf(v) \in busy /\ ThreadOf(v)' = ThreadOf(v)
  BY <1>3, <1>4, <1>7, <1>9 DEF JobsRun, ThreadOf
<1>12. ThreadOf(w)' = t
  BY <1>1, <1>3, <1>7, <1>10 DEF ThreadOf
<1>13. JobsRun'
  <2>1. \A v \in Workers : Active(v)' => /\ job'[v] \in RunIds'
                                         /\ runs'[job'[v]].status = "running"
                                         /\ ThreadOf(v)' \in busy'
    <3> TAKE v \in Workers
    <3>1. CASE v = w
      BY <3>1, <1>2, <1>3, <1>7, <1>10, <1>12
    <3>2. CASE v # w
      BY <3>2, <1>2, <1>7, <1>9, <1>11
    <3> QED
      BY <3>1, <3>2
  <2> QED
    BY <2>1 DEF JobsRun
<1>14. ThreadsApart'
  BY <1>2, <1>4, <1>9, <1>11, <1>12 DEF ThreadsApart
<1>15. RowsHeld'
  <2> SUFFICES ASSUME NEW s \in RunIds, runs'[s].status = "running"
               PROVE  \E v \in Workers : Active(v)' /\ job'[v] = s
    BY <1>7 DEF RowsHeld, WithStatus
  <2>1. CASE s = r
    BY <2>1, <1>10
  <2>2. CASE s # r
    <3>1. PICK v \in Workers : Active(v) /\ job[v] = s
      BY <2>2, <1>2, <1>4, <1>7 DEF RowsHeld, WithStatus
    <3> QED
      BY <3>1, <1>9, <1>10
  <2> QED
    BY <2>1, <2>2
<1>16. OneRunning'
  <2>1. \A s \in RunIds : runs[s].status = "running" => runs[s].thread # t
    BY <1>2, <1>4 DEF RowsHeld, JobsRun, ThreadOf, WithStatus
  <2>2. \A s \in RunIds : runs'[s].status = "running" => s = r \/ runs[s].status = "running"
    BY <1>7
  <2> QED
    BY <1>1, <1>4, <1>7, <2>1, <2>2 DEF OneRunning, WithStatus
<1>17. SoleWriter'
  <2>1. \A v \in Workers : Active(v)' /\ pc'[v] # "open" => mem'[v] = ckpt'[ThreadOf(v)']
    BY <1>2, <1>4, <1>9, <1>10, <1>11 DEF SoleWriter
  <2> QED
    BY <2>1 DEF SoleWriter
<1>18. QuietUntilUp' /\ LimboCancelled'
  BY <1>2, <1>4 DEF IInv, QuietUntilUp, LimboCancelled
<1>19. QueuesHoldRows' /\ QueuedArePending'
  BY <1>0, <1>2, <1>7, QueueAfterTake
<1> QED
  BY <1>8, <1>13, <1>14, <1>15, <1>16, <1>17, <1>18, <1>19 DEF IInv

-----------------------------------------------------------------------------
(***************************************************************************)
(* Runs that end.                                                          *)
(***************************************************************************)

LEMMA OutcomeIsRun ==
    ASSUME IInv, NEW w \in Workers, Ended(w)
    PROVE  /\ Active(w) /\ job[w] \in RunIds /\ runs[job[w]].status = "running"
           /\ ThreadOf(w) \in Threads
           /\ Outcome(w) \in Run
           /\ Outcome(w).thread = ThreadOf(w) /\ Outcome(w).status \in Outcomes
<1>1. TypeOK /\ JobsRun
  BY DEF IInv
<1>2. Active(w) /\ pc[w] \in Outcomes /\ pc[w] \in Statuses
  BY DEF Ended, Active, Outcomes, Statuses
<1>3. job[w] \in RunIds /\ runs[job[w]].status = "running" /\ runs[job[w]] \in Run
  BY <1>1, <1>2, Rows DEF JobsRun
<1>4. PICK a \in Int : Outcome(w) = [runs[job[w]] EXCEPT !.status = pc[w], !.asks = a]
  <2>1. mem[w].step \in Int
    BY <1>1 DEF TypeOK, Checkpoint
  <2>2. (IF pc[w] = "interrupted" THEN mem[w].step ELSE NoCard) \in Int
    BY <2>1 DEF NoCard
  <2> QED
    BY <2>2 DEF Outcome
<1>5. /\ Outcome(w) \in Run
      /\ Outcome(w).thread = runs[job[w]].thread /\ Outcome(w).status = pc[w]
  BY <1>2, <1>3, <1>4 DEF Run
<1> QED
  BY <1>2, <1>3, <1>5 DEF ThreadOf, Run

\* The row of the run that ended gets its outcome, every other row is kept.
LEMMA RowSettled ==
    ASSUME IInv, NEW w \in Workers, Ended(w), runs' = [runs EXCEPT ![job[w]] = Outcome(w)]
    PROVE  /\ runs' \in Seq(Run) /\ RunIds' = RunIds
           /\ \A r \in RunIds : /\ runs'[r].thread = runs[r].thread
                                /\ r # job[w] => runs'[r].status = runs[r].status
           /\ runs'[job[w]].status \in Outcomes
<1>1. runs \in Seq(Run)
  BY DEF IInv, TypeOK
<1>2. /\ runs' \in Seq(Run) /\ DOMAIN runs' = DOMAIN runs
      /\ \A r \in RunIds : runs'[r] = IF r = job[w] THEN Outcome(w) ELSE runs[r]
  BY <1>1, OutcomeIsRun, SeqUpdate DEF RunIds
<1> QED
  BY <1>2, OutcomeIsRun DEF RunIds, ThreadOf

\* A worker leaves its run and its thread, and does not come back to either.
LEMMA WorkerLeaves ==
    ASSUME IInv, NEW w \in Workers, Ended(w), runs' = [runs EXCEPT ![job[w]] = Outcome(w)],
           busy' = busy \ {ThreadOf(w)}, NEW p \in {"idle", "dead"}, Goto(w, p),
           UNCHANGED <<ckpt, sent, acted, phase, limbo, queue, job, mem, crashes>>,
           backlog' \in [Threads -> Seq(Nat)]
    PROVE  /\ TypeOK' /\ JobsRun' /\ ThreadsApart' /\ RowsHeld' /\ OneRunning'
           /\ QuietUntilUp' /\ LimboCancelled' /\ SoleWriter'
<1>1. /\ TypeOK /\ JobsRun /\ ThreadsApart /\ RowsHeld /\ OneRunning /\ SoleWriter
      /\ LimboCancelled
  BY DEF IInv
<1>2. /\ Active(w) /\ job[w] \in RunIds /\ phase = "up"
      /\ runs[job[w]].status = "running"
  BY OutcomeIsRun DEF Ended
<1>3. /\ runs' \in Seq(Run) /\ RunIds' = RunIds
      /\ \A r \in RunIds : /\ runs'[r].thread = runs[r].thread
                           /\ r # job[w] => runs'[r].status = runs[r].status
      /\ runs'[job[w]].status # "running"
  BY RowSettled DEF Outcomes
<1>4. pc' = [pc EXCEPT ![w] = p]
  BY DEF Goto
<1>5. /\ ~Active(w)'
      /\ \A v \in Workers \ {w} : (Active(v)' <=> Active(v)) /\ pc'[v] = pc[v]
  BY <1>1, <1>4 DEF Active, TypeOK
<1>6. \A v \in Workers \ {w} : Active(v) =>
          /\ job[v] \in RunIds /\ job[v] # job[w] /\ runs[job[v]].status = "running"
          /\ ThreadOf(v) \in busy \ {ThreadOf(w)} /\ ThreadOf(v)' = ThreadOf(v)
  BY <1>1, <1>2, <1>3 DEF JobsRun, ThreadsApart, ThreadOf
<1>7. TypeOK'
  <2>1. pc' \in [Workers -> {"idle", "open", "input", "loop", "dead"} \cup Outcomes]
    BY <1>1, <1>4 DEF TypeOK
  <2> QED
    BY <1>1, <1>3, <2>1 DEF TypeOK
<1>8. JobsRun' /\ ThreadsApart' /\ SoleWriter'
  <2>1. \A v \in Workers : Active(v)' => v # w /\ Active(v)
    BY <1>5
  <2>2. \A v \in Workers \ {w} : Active(v) => /\ job'[v] \in RunIds'
                                              /\ runs'[job'[v]].status = "running"
                                              /\ ThreadOf(v)' \in busy'
    BY <1>3, <1>6
  <2>3. JobsRun'
    BY <2>1, <2>2 DEF JobsRun
  <2>4. ThreadsApart'
    BY <2>1, <1>1, <1>6 DEF ThreadsApart
  <2>5. \A v \in Workers : Active(v)' /\ pc'[v] # "open" => mem'[v] = ckpt'[ThreadOf(v)']
    BY <2>1, <1>1, <1>5, <1>6 DEF SoleWriter
  <2> QED
    BY <2>3, <2>4, <2>5 DEF SoleWriter
<1>9. RowsHeld'
  <2> SUFFICES ASSUME NEW s \in RunIds, runs'[s].status = "running"
               PROVE  \E v \in Workers : Active(v)' /\ job'[v] = s
    BY <1>3 DEF RowsHeld, WithStatus
  <2>1. s # job[w] /\ runs[s].status = "running"
    BY <1>3
  <2>2. PICK v \in Workers : Active(v) /\ job[v] = s
    BY <2>1, <1>1, <1>2 DEF RowsHeld, WithStatus
  <2> QED
    BY <2>1, <2>2, <1>5
<1>10. OneRunning'
  <2>1. \A s \in RunIds : runs'[s].status = "running" => runs[s].status = "running"
    BY <1>3
  <2> QED
    BY <2>1, <1>1, <1>3 DEF OneRunning, WithStatus
<1>11. QuietUntilUp' /\ LimboCancelled'
  BY <1>1, <1>2 DEF QuietUntilUp, LimboCancelled
<1> QED
  BY <1>7, <1>8, <1>9, <1>10, <1>11

LEMMA SettleStep ==
    ASSUME IInv, NEW w \in Workers, Settle(w)
    PROVE  IInv'
<1>1. /\ Ended(w) /\ runs' = [runs EXCEPT ![job[w]] = Outcome(w)]
      /\ busy' = busy \ {ThreadOf(w)} /\ Goto(w, "idle")
      /\ UNCHANGED <<ckpt, sent, acted, phase, limbo, queue, backlog, job, mem, crashes>>
  BY DEF Settle
<1>2. backlog' \in [Threads -> Seq(Nat)]
  BY <1>1 DEF IInv, TypeOK
<1>3. /\ TypeOK' /\ JobsRun' /\ ThreadsApart' /\ RowsHeld' /\ OneRunning'
      /\ QuietUntilUp' /\ LimboCancelled' /\ SoleWriter'
  BY <1>1, <1>2, WorkerLeaves
<1>4. QueuesHoldRows /\ QueuedArePending
  BY DEF IInv
<1>5. /\ RunIds' = RunIds
      /\ \A r \in RunIds : /\ runs'[r].thread = runs[r].thread
                           /\ runs[r].status = "pending" => runs'[r].status = "pending"
  BY <1>1, RowSettled, OutcomeIsRun
<1>6. QueuesHoldRows'
  BY <1>1, <1>4, <1>5 DEF QueuesHoldRows
<1>7. QueuedArePending'
  BY <1>1, <1>4, <1>5 DEF QueuesHoldRows, QueuedArePending, CanEnter
<1> QED
  BY <1>3, <1>6, <1>7 DEF IInv

\* The same of a backlog whose head is taken, for the rows that stay pending.
LEMMA BacklogAfterTake ==
    ASSUME IInv, NEW t \in Threads, backlog[t] # <<>>,
           backlog' = [backlog EXCEPT ![t] = Tail(backlog[t])], UNCHANGED queue,
           RunIds' = RunIds,
           \A r \in RunIds : /\ runs'[r].thread = runs[r].thread
                             /\ runs[r].status = "pending" /\ r # Head(backlog[t]) =>
                                    runs'[r].status = "pending"
    PROVE  QueuesHoldRows' /\ QueuedArePending'
<1>1. /\ \A s \in Threads : \A i \in DOMAIN backlog'[s] :
           /\ backlog'[s][i] # Head(backlog[t])
           /\ \E j \in DOMAIN backlog[s] : backlog'[s][i] = backlog[s][j]
      /\ \A s \in Threads : \A i, j \in DOMAIN backlog'[s] :
           backlog'[s][i] = backlog'[s][j] => i = j
      /\ \A i \in DOMAIN queue : queue[i] # Head(backlog[t])
  BY BacklogHead
<1>2. QueuesHoldRows /\ QueuedArePending
  BY DEF IInv
<1>3. QueuesHoldRows'
  BY <1>1, <1>2 DEF QueuesHoldRows
<1>4. /\ \A i \in DOMAIN queue : runs'[queue[i]].status = "pending"
      /\ \A s \in Threads : \A i \in DOMAIN backlog'[s] :
             runs'[backlog'[s][i]].status = "pending"
  BY <1>1, <1>2 DEF QueuesHoldRows, QueuedArePending, CanEnter
<1>5. \A s \in Threads : \A i \in DOMAIN queue, j \in DOMAIN backlog'[s] :
          queue[i] # backlog'[s][j]
  BY <1>1, <1>2 DEF QueuedArePending
<1> QED
  BY <1>1, <1>2, <1>3, <1>4, <1>5 DEF QueuedArePending, CanEnter

LEMMA SettleAndDieStep ==
    ASSUME IInv, NEW w \in Workers, SettleAndDie(w)
    PROVE  IInv'
<1>0. PICK t : t = ThreadOf(w)
  OBVIOUS
<1>1. /\ Ended(w) /\ runs' = [runs EXCEPT ![job[w]] = Outcome(w)] /\ backlog[t] # <<>>
      /\ busy' = busy \ {ThreadOf(w)} /\ Goto(w, "dead")
      /\ backlog' = [backlog EXCEPT ![t] = Tail(backlog[t])]
      /\ UNCHANGED <<ckpt, sent, acted, phase, limbo, queue, job, mem, crashes>>
  BY <1>0 DEF SettleAndDie
<1>2. t \in Threads
  BY <1>0, <1>1, OutcomeIsRun
<1>3. backlog' \in [Threads -> Seq(Nat)]
  BY <1>1, <1>2, BacklogHead
<1>4. /\ TypeOK' /\ JobsRun' /\ ThreadsApart' /\ RowsHeld' /\ OneRunning'
      /\ QuietUntilUp' /\ LimboCancelled' /\ SoleWriter'
  BY <1>1, <1>3, WorkerLeaves
<1>5. /\ RunIds' = RunIds
      /\ \A r \in RunIds : /\ runs'[r].thread = runs[r].thread
                           /\ runs[r].status = "pending" => runs'[r].status = "pending"
  BY <1>1, RowSettled, OutcomeIsRun
<1>6. QueuesHoldRows' /\ QueuedArePending'
  BY <1>1, <1>2, <1>5, BacklogAfterTake
<1> QED
  BY <1>4, <1>6 DEF IInv

\* One run ends and the next of its backlog begins: the worker and the thread stay.
LEMMA SettleAndNextStep ==
    ASSUME IInv, NEW w \in Workers, SettleAndNext(w)
    PROVE  IInv'
<1>0. PICK t : t = ThreadOf(w)
  OBVIOUS
<1>1. PICK r : r = Head(backlog[t])
  OBVIOUS
<1>2. /\ Ended(w) /\ backlog[t] # <<>>
      /\ backlog' = [backlog EXCEPT ![t] = Tail(backlog[t])]
      /\ pc' = [pc EXCEPT ![w] = "open"] /\ job' = [job EXCEPT ![w] = r]
      /\ runs' = [runs EXCEPT ![job[w]] = Outcome(w), ![r].status = "running"]
      /\ UNCHANGED <<ckpt, sent, acted, phase, limbo, queue, busy, mem, crashes>>
  BY <1>0, <1>1 DEF SettleAndNext, Enter
<1>3. /\ TypeOK /\ JobsRun /\ ThreadsApart /\ RowsHeld /\ OneRunning /\ SoleWriter
      /\ LimboCancelled
  BY DEF IInv
<1>4. /\ phase = "up" /\ Active(w) /\ t \in Threads /\ t \in busy
      /\ job[w] \in RunIds /\ runs[job[w]].status = "running"
      /\ Outcome(w) \in Run /\ Outcome(w).thread = t /\ Outcome(w).status # "running"
  BY <1>0, <1>2, <1>3, OutcomeIsRun DEF JobsRun, Ended, Outcomes
<1>5. /\ r \in RunIds /\ runs[r].status = "pending" /\ runs[r].thread = t
      /\ backlog' \in [Threads -> Seq(Nat)]
  BY <1>1, <1>2, <1>4, BacklogHead
<1>6. r # job[w] /\ r \in Nat /\ runs \in Seq(Run) /\ runs[r] \in Run
  BY <1>3, <1>4, <1>5, Rows DEF TypeOK
<1>7. /\ runs' \in Seq(Run) /\ RunIds' = RunIds
      /\ \A s \in RunIds : /\ runs'[s].thread = runs[s].thread
                           /\ s \notin {job[w], r} => runs'[s].status = runs[s].status
      /\ runs'[job[w]].status # "running" /\ runs'[r].status = "running"
  <2>1. PICK q : q = [runs EXCEPT ![job[w]] = Outcome(w)]
    OBVIOUS
  <2>2. /\ q \in Seq(Run) /\ DOMAIN q = RunIds
        /\ \A s \in RunIds : q[s] = IF s = job[w] THEN Outcome(w) ELSE runs[s]
    BY <2>1, <1>4, <1>6, SeqUpdate DEF RunIds
  <2>3. PICK x : x = [runs[r] EXCEPT !.status = "running"]
    OBVIOUS
  <2>4. x \in Run /\ x.thread = runs[r].thread /\ x.status = "running"
    BY <2>3, <1>6 DEF Run, Statuses
  <2>5. runs' = [q EXCEPT ![r] = x]
    BY <2>1, <2>2, <2>3, <1>2, <1>5, <1>6
  <2>6. /\ runs' \in Seq(Run) /\ DOMAIN runs' = RunIds
        /\ \A s \in RunIds : runs'[s] = IF s = r THEN x ELSE q[s]
    BY <2>2, <2>4, <2>5, <1>5, SeqUpdate
  <2> QED
    BY <2>2, <2>4, <2>6, <1>0, <1>4, <1>5, <1>6 DEF RunIds, ThreadOf
<1>8. TypeOK'
  <2>1. job' \in [Workers -> Nat]
    BY <1>2, <1>3, <1>6 DEF TypeOK
  <2>2. pc' \in [Workers -> {"idle", "open", "input", "loop", "dead"} \cup Outcomes]
    BY <1>2, <1>3 DEF TypeOK
  <2> QED
    BY <1>2, <1>3, <1>5, <1>7, <2>1, <2>2 DEF TypeOK
<1>9. \A v \in Workers \ {w} : /\ Active(v)' <=> Active(v)
                               /\ pc'[v] = pc[v] /\ job'[v] = job[v]
  BY <1>2, <1>3 DEF Active, TypeOK
<1>10. /\ Active(w)' /\ pc'[w] = "open" /\ job'[w] = r
       /\ ThreadOf(w)' = t
  BY <1>2, <1>3, <1>5, <1>7 DEF Active, TypeOK, Outcomes, ThreadOf
<1>11. \A v \in Workers \ {w} : Active(v) =>
           /\ job[v] \in RunIds /\ job[v] \notin {job[w], r}
           /\ runs[job[v]].status = "running"
           /\ ThreadOf(v) \in busy /\ ThreadOf(v) # t /\ ThreadOf(v)' = ThreadOf(v)
  BY <1>0, <1>3, <1>4, <1>5, <1>7, <1>9 DEF JobsRun, ThreadsApart, ThreadOf
<1>12. JobsRun'
  <2>1. job'[w] \in RunIds' /\ runs'[job'[w]].status = "running"
    BY <1>5, <1>7, <1>10
  <2>2. ThreadOf(w)' \in busy'
    BY <1>2, <1>4, <1>10
  <2>3. \A v \in Workers \ {w} : Active(v)' => /\ job'[v] \in RunIds'
                                               /\ runs'[job'[v]].status = "running"
                                               /\ ThreadOf(v)' \in busy'
    <3> TAKE v \in Workers \ {w}
    <3> SUFFICES ASSUME Active(v) PROVE  /\ job'[v] \in RunIds'
                                        /\ runs'[job'[v]].status = "running"
                                        /\ ThreadOf(v)' \in busy'
      BY <1>9
    <3>1. /\ job[v] \in RunIds /\ job[v] \notin {job[w], r}
          /\ runs[job[v]].status = "running"
          /\ ThreadOf(v) \in busy /\ ThreadOf(v)' = ThreadOf(v)
      BY <1>11
    <3>2. job'[v] = job[v]
      BY <1>9
    <3>3. job[v] \in RunIds' /\ runs'[job[v]].status = "running"
      BY <3>1, <1>7
    <3>4. ThreadOf(v)' \in busy'
      BY <3>1, <1>2
    <3> QED
      BY <3>2, <3>3, <3>4
  <2> QED
    BY <2>1, <2>2, <2>3 DEF JobsRun
<1>13. ThreadsApart'
  BY <1>3, <1>9, <1>10, <1>11 DEF ThreadsApart
<1>14. RowsHeld'
  <2> SUFFICES ASSUME NEW s \in RunIds, runs'[s].status = "running"
               PROVE  \E v \in Workers : Active(v)' /\ job'[v] = s
    BY <1>7 DEF RowsHeld, WithStatus
  <2>1. CASE s = r
    BY <2>1, <1>10
  <2>2. CASE s # r
    <3>1. PICK v \in Workers : Active(v) /\ job[v] = s /\ s # job[w]
      BY <2>2, <1>3, <1>4, <1>7 DEF RowsHeld, WithStatus
    <3> QED
      BY <3>1, <1>9
  <2> QED
    BY <2>1, <2>2
<1>15. OneRunning'
  <2>1. \A s \in RunIds : runs[s].status = "running" /\ s # job[w] => runs[s].thread # t
    BY <1>0, <1>3, <1>4 DEF OneRunning, WithStatus, ThreadOf
  <2>2. \A s \in RunIds : runs'[s].status = "running" =>
            s = r \/ (runs[s].status = "running" /\ s # job[w])
    BY <1>7
  <2> QED
    BY <1>3, <1>5, <1>7, <2>1, <2>2 DEF OneRunning, WithStatus
<1>16. SoleWriter'
  <2>1. \A v \in Workers : Active(v)' /\ pc'[v] # "open" => mem'[v] = ckpt'[ThreadOf(v)']
    BY <1>2, <1>3, <1>9, <1>10, <1>11 DEF SoleWriter
  <2> QED
    BY <2>1 DEF SoleWriter
<1>17. QuietUntilUp' /\ LimboCancelled'
  BY <1>2, <1>3, <1>4 DEF QuietUntilUp, LimboCancelled
<1>18. QueuesHoldRows' /\ QueuedArePending'
  <2>1. \A s \in RunIds : /\ runs'[s].thread = runs[s].thread
                          /\ runs[s].status = "pending" /\ s # r => runs'[s].status = "pending"
    BY <1>4, <1>7
  <2> QED
    BY <2>1, <1>1, <1>2, <1>4, <1>7, BacklogAfterTake
<1> QED
  BY <1>8, <1>12, <1>13, <1>14, <1>15, <1>16, <1>17, <1>18 DEF IInv

LEMMA WorkStep ==
    ASSUME IInv, NEW w \in Workers, Work(w)
    PROVE  IInv'
BY DeferStep, TakeStep, TakeDiesStep, GraphStep, GraphPreserves, SettleStep,
   SettleAndNextStep, SettleAndDieStep DEF Work

-----------------------------------------------------------------------------
(***************************************************************************)
(* The process goes, and comes back.                                       *)
(***************************************************************************)

LEMMA CrashStep ==
    ASSUME IInv, Crash
    PROVE  IInv'
<1>1. /\ UNCHANGED <<runs, ckpt, sent, acted>> /\ crashes' = crashes + 1
      /\ phase' = "down" /\ limbo' = 0 /\ queue' = <<>> /\ busy' = {}
      /\ backlog' = [t \in Threads |-> <<>>]
      /\ pc' = [w \in Workers |-> "idle"] /\ job' = [w \in Workers |-> 0]
      /\ mem' = [w \in Workers |-> NoCheckpoint]
  BY DEF Crash, Fresh, disk
<1>2. TypeOK /\ OneRunning
  BY DEF IInv
<1>3. NoCheckpoint \in Checkpoint
  BY DEF NoCheckpoint, Checkpoint
<1>4. TypeOK'
  BY <1>1, <1>2, <1>3 DEF TypeOK
<1>5. \A w \in Workers : ~Active(w)'
  BY <1>1 DEF Active
<1>6. JobsRun' /\ ThreadsApart' /\ SoleWriter'
  BY <1>5 DEF JobsRun, ThreadsApart, SoleWriter
<1>7. RowsHeld' /\ QuietUntilUp' /\ LimboCancelled'
  BY <1>1 DEF RowsHeld, QuietUntilUp, LimboCancelled
<1>8. OneRunning'
  BY <1>1, <1>2 DEF OneRunning, WithStatus, RunIds
<1>9. QueuesHoldRows' /\ QueuedArePending'
  BY <1>1 DEF QueuesHoldRows, QueuedArePending
<1> QED
  BY <1>4, <1>6, <1>7, <1>8, <1>9 DEF IInv

LEMMA RestartStep ==
    ASSUME IInv, Restart
    PROVE  IInv'
<1>1. /\ phase = "down" /\ phase' = "boot"
      /\ UNCHANGED <<runs, ckpt, sent, acted, limbo, queue, busy, backlog, pc, job, mem, crashes>>
  BY DEF Restart, disk
<1>2. TypeOK' /\ SoleWriter' /\ OneRunning' /\ JobsRun' /\ ThreadsApart'
  BY <1>1 DEF IInv, TypeOK, SoleWriter, OneRunning, JobsRun, ThreadsApart, Active, ThreadOf,
     WithStatus, RunIds
<1>3. RowsHeld' /\ QuietUntilUp' /\ LimboCancelled'
  BY <1>1 DEF IInv, RowsHeld, QuietUntilUp, LimboCancelled, RunIds
<1>4. QueuesHoldRows' /\ QueuedArePending'
  BY <1>1 DEF IInv, QueuesHoldRows, QueuedArePending, CanEnter, RunIds
<1> QED
  BY <1>2, <1>3, <1>4 DEF IInv

\* While start is at its loop there is nothing but rows and checkpoints.
LEMMA Quiet ==
    ASSUME IInv, phase = "boot"
    PROVE  /\ queue = <<>> /\ \A t \in Threads : backlog[t] = <<>>
           /\ \A w \in Workers : ~Active(w) /\ pc[w] = "idle"
BY DEF IInv, QuietUntilUp, Active

LEMMA CancelRunStep ==
    ASSUME IInv, CancelRun
    PROVE  IInv'
<1>1. PICK r \in WithStatus("running") : /\ runs' = [runs EXCEPT ![r].status = "cancelled"]
                                         /\ limbo' = r
  BY DEF CancelRun
<1>2. /\ phase = "boot"
      /\ UNCHANGED <<ckpt, sent, acted, phase, queue, busy, backlog, pc, job, mem, crashes>>
  BY DEF CancelRun
<1>3. TypeOK /\ OneRunning /\ QuietUntilUp
  BY DEF IInv
<1>4. r \in RunIds /\ r \in Nat /\ runs[r] \in Run /\ runs \in Seq(Run)
  BY <1>1, <1>3, Rows DEF WithStatus, TypeOK
<1>5. [runs[r] EXCEPT !.status = "cancelled"] \in Run
  BY <1>4 DEF Run, Statuses
<1>6. /\ runs' \in Seq(Run) /\ RunIds' = RunIds
      /\ \A s \in RunIds : /\ runs'[s].thread = runs[s].thread
                           /\ s # r => runs'[s].status = runs[s].status
      /\ runs'[r].status = "cancelled"
  <2>1. /\ runs' \in Seq(Run) /\ DOMAIN runs' = RunIds
        /\ \A s \in RunIds : runs'[s] = IF s = r THEN [runs[r] EXCEPT !.status = "cancelled"]
                                                 ELSE runs[s]
    BY <1>1, <1>4, <1>5, SeqUpdate DEF RunIds
  <2> QED
    BY <2>1, <1>4 DEF RunIds, Run
<1>7. TypeOK'
  BY <1>1, <1>2, <1>3, <1>4, <1>6 DEF TypeOK
<1>8. \A w \in Workers : ~Active(w)'
  BY <1>2, Quiet DEF Active
<1>9. JobsRun' /\ ThreadsApart' /\ SoleWriter'
  BY <1>8 DEF JobsRun, ThreadsApart, SoleWriter
<1>10. OneRunning'
  <2>1. \A s \in RunIds : runs'[s].status = "running" => runs[s].status = "running"
    BY <1>6
  <2> QED
    BY <2>1, <1>3, <1>6 DEF OneRunning, WithStatus
<1>11. RowsHeld' /\ QuietUntilUp' /\ LimboCancelled'
  BY <1>1, <1>2, <1>3, <1>4, <1>6 DEF RowsHeld, QuietUntilUp, LimboCancelled
<1>12. QueuesHoldRows' /\ QueuedArePending'
  BY <1>2, Quiet DEF QueuesHoldRows, QueuedArePending
<1> QED
  BY <1>7, <1>9, <1>10, <1>11, <1>12 DEF IInv

LEMMA ReplaceRunStep ==
    ASSUME IInv, ReplaceRun
    PROVE  IInv'
<1>1. PICK k \in Owed(limbo) :
          runs' = Append(runs, [runs[limbo] EXCEPT !.kind = k, !.status = "pending"])
  BY DEF ReplaceRun
<1>2. /\ limbo # 0 /\ limbo' = 0
      /\ UNCHANGED <<ckpt, sent, acted, phase, queue, busy, backlog, pc, job, mem, crashes>>
  BY DEF ReplaceRun
<1>3. TypeOK /\ QuietUntilUp
  BY DEF IInv
<1>4. phase = "boot" /\ limbo \in RunIds /\ runs[limbo] \in Run
  BY <1>2, <1>3, Rows DEF IInv, LimboCancelled
<1>5. k \in Kinds
  BY <1>1, <1>4 DEF Owed, Kinds, Run
<1>6. PICK x : x = [runs[limbo] EXCEPT !.kind = k, !.status = "pending"]
  OBVIOUS
<1>7. x \in Run /\ x.status # "running" /\ runs' = Append(runs, x)
  BY <1>1, <1>4, <1>5, <1>6 DEF Run, Statuses
<1>8. JobsRun' /\ ThreadsApart' /\ RowsHeld' /\ OneRunning' /\ SoleWriter'
  BY <1>2, <1>7, WorkersAsBefore
<1>9. runs' \in Seq(Run)
  BY <1>3, <1>7, RowAdded
<1>10. TypeOK'
  BY <1>2, <1>3, <1>9 DEF TypeOK
<1>11. QuietUntilUp' /\ LimboCancelled'
  BY <1>2, <1>3 DEF QuietUntilUp, LimboCancelled
<1>12. QueuesHoldRows' /\ QueuedArePending'
  BY <1>2, <1>4, Quiet DEF QueuesHoldRows, QueuedArePending
<1> QED
  BY <1>8, <1>10, <1>11, <1>12 DEF IInv

LEMMA DropRunStep ==
    ASSUME IInv, DropRun
    PROVE  IInv'
<1>1. /\ limbo' = 0
      /\ UNCHANGED <<runs, ckpt, sent, acted, phase, queue, busy, backlog, pc, job, mem, crashes>>
  BY DEF DropRun, disk
<1>2. TypeOK' /\ SoleWriter' /\ OneRunning' /\ JobsRun' /\ ThreadsApart'
  BY <1>1 DEF IInv, TypeOK, SoleWriter, OneRunning, JobsRun, ThreadsApart, Active, ThreadOf,
     WithStatus, RunIds
<1>3. RowsHeld' /\ QuietUntilUp' /\ LimboCancelled'
  BY <1>1 DEF IInv, RowsHeld, QuietUntilUp, LimboCancelled, RunIds, WithStatus, Active
<1>4. QueuesHoldRows' /\ QueuedArePending'
  BY <1>1 DEF IInv, QueuesHoldRows, QueuedArePending, CanEnter, RunIds
<1> QED
  BY <1>2, <1>3, <1>4 DEF IInv

\* The pending rows are queued in an order that has no two of them equal.
LEMMA ReadyStep ==
    ASSUME IInv, Ready
    PROVE  IInv'
<1> DEFINE S == WithStatus("pending")
<1>1. /\ phase = "boot" /\ limbo = 0 /\ phase' = "up" /\ WithStatus("running") = {}
      /\ queue' \in InOrder(S)
      /\ UNCHANGED <<runs, ckpt, sent, acted, limbo, busy, backlog, pc, job, mem, crashes>>
  BY DEF Ready, disk
<1>2. TypeOK /\ OneRunning
  BY DEF IInv
<1>3. S \subseteq RunIds /\ RunIds = 1 .. Len(runs) /\ Len(runs) \in Nat
  BY <1>2, Rows DEF WithStatus
<1>4. Cardinality(S) \in Nat
  <2>1. IsFiniteSet(1 .. Len(runs))
    BY <1>3, FS_Interval
  <2> QED
    BY <2>1, <1>3, FS_Subset, FS_CardinalityType
<1>5. PICK n \in Nat : queue' \in [1 .. n -> S]
  BY <1>1, <1>4 DEF InOrder
<1>6. /\ queue' \in Seq(Nat) /\ DOMAIN queue' = 1 .. n
      /\ \A i \in DOMAIN queue' : queue'[i] \in S
  <2>1. S \subseteq Nat
    BY <1>3
  <2> HIDE DEF S
  <2>2. queue' \in [1 .. n -> Nat]
    BY <2>1, <1>5
  <2>3. queue' \in Seq(Nat)
    BY <2>2
  <2> QED
    BY <2>3, <1>5
<1>7. \A i, j \in DOMAIN queue' : i < j => queue'[i] # queue'[j]
  <2>1. \A i, j \in DOMAIN queue' : i < j => Before(queue'[i], queue'[j])
    BY <1>1 DEF InOrder
  <2>2. \A r \in RunIds : ~Before(r, r)
    <3> TAKE r \in RunIds
    <3>1. runs[r].origin \in Nat /\ r \in Nat
      BY <1>2, Rows DEF Run
    <3> QED
      BY <3>1 DEF Before
  <2> QED
    BY <2>1, <2>2, <1>3, <1>6
<1>8. \A i, j \in DOMAIN queue' : queue'[i] = queue'[j] => i = j
  <2>1. \A i, j \in DOMAIN queue' : i = j \/ i < j \/ j < i
    BY <1>6
  <2> QED
    BY <2>1, <1>7
<1>9. /\ \A t \in Threads : backlog'[t] = <<>>
      /\ \A w \in Workers : ~Active(w)'
  BY <1>1, Quiet DEF Active
<1>10. TypeOK'
  BY <1>1, <1>2, <1>6 DEF TypeOK
<1>11. JobsRun' /\ ThreadsApart' /\ SoleWriter'
  BY <1>9 DEF JobsRun, ThreadsApart, SoleWriter
<1>12. RowsHeld' /\ OneRunning'
  BY <1>1, <1>2 DEF RowsHeld, OneRunning, WithStatus, RunIds
<1>13. QuietUntilUp' /\ LimboCancelled'
  BY <1>1 DEF QuietUntilUp, LimboCancelled
<1>14. QueuesHoldRows'
  BY <1>1, <1>3, <1>6, <1>9 DEF QueuesHoldRows, RunIds
<1>15. QueuedArePending'
  BY <1>1, <1>6, <1>8, <1>9 DEF QueuedArePending, CanEnter, WithStatus
<1> QED
  BY <1>10, <1>11, <1>12, <1>13, <1>14, <1>15 DEF IInv

LEMMA StutterStep ==
    ASSUME IInv, UNCHANGED vars
    PROVE  IInv'
<1>1. UNCHANGED <<runs, ckpt, sent, acted, phase, limbo, queue, busy, backlog, pc, job, mem,
                  crashes>>
  BY DEF vars, disk, process
<1>2. TypeOK' /\ SoleWriter' /\ OneRunning' /\ JobsRun' /\ ThreadsApart'
  BY <1>1 DEF IInv, TypeOK, SoleWriter, OneRunning, JobsRun, ThreadsApart, Active, ThreadOf,
     WithStatus, RunIds
<1>3. RowsHeld' /\ QuietUntilUp' /\ LimboCancelled'
  BY <1>1 DEF IInv, RowsHeld, QuietUntilUp, LimboCancelled, RunIds, WithStatus, Active
<1>4. QueuesHoldRows' /\ QueuedArePending'
  BY <1>1 DEF IInv, QueuesHoldRows, QueuedArePending, CanEnter, RunIds
<1> QED
  BY <1>2, <1>3, <1>4 DEF IInv

-----------------------------------------------------------------------------
(***************************************************************************)
(* The theorems.                                                           *)
(***************************************************************************)

LEMMA StepIInv == ASSUME IInv, [Next]_vars PROVE IInv'
<1>1. CASE UNCHANGED vars
  BY <1>1, StutterStep
<1>2. ASSUME NEW t \in Threads, Call(t)
      PROVE  IInv'
  BY <1>2, CallStep
<1>3. ASSUME NEW w \in Workers, Work(w)
      PROVE  IInv'
  BY <1>3, WorkStep
<1>4. CASE Boot
  BY <1>4, RestartStep, CancelRunStep, ReplaceRunStep, DropRunStep, ReadyStep DEF Boot
<1>5. CASE Crash
  BY <1>5, CrashStep
<1> QED
  BY <1>1, <1>2, <1>3, <1>4, <1>5 DEF Next

\* IInv is inductive: it holds when the engine is installed and survives every
\* call, every step of a worker, every crash and every step of the recovery.
THEOREM Invariance == Spec => []IInv
<1>1. Init => IInv
  BY InitIInv
<1>2. IInv /\ [Next]_vars => IInv'
  BY StepIInv
<1> QED
  BY <1>1, <1>2, PTL DEF Spec

\* Every variable keeps its type.
THEOREM TypeCorrect == Spec => []TypeOK
<1>1. IInv => TypeOK
  BY DEF IInv
<1> QED
  BY <1>1, Invariance, PTL

\* Two runs never write the same checkpoint at once: what a worker's graph run
\* holds in memory is what is on disk for its thread (_worker's docstring).
THEOREM SoleWriterAlways == Spec => []SoleWriter
<1>1. IInv => SoleWriter
  BY DEF IInv
<1> QED
  BY <1>1, Invariance, PTL

\* At most one run of a thread is running, crashes and recoveries included.
THEOREM OneRunningAlways == Spec => []OneRunning
<1>1. IInv => OneRunning
  BY DEF IInv
<1> QED
  BY <1>1, Invariance, PTL

\* What is in the queue and in the backlogs is pending and is there once, so a
\* worker never drops a run at _execute's early return, nor executes one twice.
THEOREM QueuedArePendingAlways == Spec => []QueuedArePending
<1>1. IInv => QueuedArePending
  BY DEF IInv
<1> QED
  BY <1>1, Invariance, PTL
=============================================================================
