----------------------- MODULE RunManagerRecoveryProofs -----------------------
(***************************************************************************)
(* For every set of threads and workers and any number of crashes: no      *)
(* accepted input is lost, the run manager implements the mailbox, rows    *)
(* tell the truth about their threads, and answers go to their cards.      *)
(*                                                                         *)
(* A crash inside start is left out (a run that start has cancelled and    *)
(* not replaced is lost with it), and where order matters, threads whose   *)
(* worktree may fail to be made (it takes the worker with it).             *)
(***************************************************************************)
EXTENDS RunManagerRecovery, RunManagerProofs

-----------------------------------------------------------------------------
(***************************************************************************)
(* What the steps do to the rows.                                          *)
(***************************************************************************)

\* Only the status of a row changes, and its interrupts.
SameRun(r) ==
    /\ runs'[r].thread = runs[r].thread /\ runs'[r].kind = runs[r].kind
    /\ runs'[r].origin = runs[r].origin /\ runs'[r].card = runs[r].card

RowsKept == RunIds \subseteq RunIds' /\ \A r \in RunIds : SameRun(r)

Added(n, row) ==
    /\ n \in Nat \ {0} /\ n \notin RunIds /\ RunIds' = RunIds \cup {n} /\ row \in Run
    /\ runs'[n] = row /\ \A r \in RunIds : runs'[r] = runs[r] /\ r < n

LEMMA RowFields ==
    ASSUME TypeOK, NEW r \in RunIds
    PROVE  /\ runs[r] \in Run /\ r \in Nat \ {0}
           /\ runs[r].thread \in Threads /\ runs[r].kind \in Kinds /\ runs[r].status \in Statuses
           /\ runs[r].origin \in Nat \ {0} /\ runs[r].card \in Int /\ runs[r].asks \in Int
<1>1. runs[r] \in Run /\ RunIds = 1 .. Len(runs)
  BY Rows
<1> QED
  BY <1>1 DEF Run

LEMMA RowTurns ==
    ASSUME NEW row \in Run, NEW status \in Statuses, NEW new, new = [row EXCEPT !.status = status]
    PROVE  /\ new \in Run /\ new.status = status /\ new.thread = row.thread /\ new.kind = row.kind
           /\ new.origin = row.origin /\ new.card = row.card
BY DEF Run

LEMMA Adds ==
    ASSUME TypeOK, NEW row \in Run, runs' = Append(runs, row)
    PROVE  Added(Len(runs) + 1, row)
<1>1. PICK n \in Nat : n = Len(runs) /\ RunIds = 1 .. n
  BY Rows
<1>2. /\ RunIds' = RunIds \cup {n + 1} /\ n + 1 \notin RunIds
      /\ \A r \in RunIds : runs'[r] = runs[r]
      /\ runs'[n + 1] = row
  BY <1>1, RowAdded
<1>3. \A r \in 1 .. n : r < n + 1
  OBVIOUS
<1> QED
  BY <1>1, <1>2, <1>3 DEF Added

\* A call, and what it is about: a message, a workflow's input, or neither.
CallAdds(t, n, row) ==
    /\ Added(n, row) /\ n = Len(runs) + 1
    /\ row.thread = t /\ row.status = "pending" /\ row.origin = n
    /\ queue' = Append(queue, n)
    /\ \/ /\ row.kind \in {"message", "input"} /\ row.card = NoCard
          /\ sent' = [sent EXCEPT ![t] = Append(sent[t], n)]
          /\ row.kind = "message" => \A r \in RunsOf(t) : runs[r].kind # "input"
          /\ row.kind = "input" => RunsOf(t) = {}
       \/ row.kind = "continue" /\ row.card = NoCard /\ sent' = sent
       \/ row.kind = "resume" /\ row.card = WaitingCard(t) /\ sent' = sent

LEMMA CallRows ==
    ASSUME IInv, NEW t \in Threads, Call(t)
    PROVE  /\ \E n, row : CallAdds(t, n, row)
           /\ phase = "up" /\ MaySubmit
           /\ UNCHANGED <<ckpt, acted, phase, limbo, busy, backlog, pc, job, mem, crashes>>
<1>1. TypeOK
  BY DEF IInv
<1>2. PICK k \in Kinds, card \in Int :
         /\ Enqueue(t, k, card)
         /\ \/ Submit(t) /\ k = "message" /\ card = NoCard
            \/ SubmitInput(t) /\ k = "input" /\ card = NoCard
            \/ SubmitContinue(t) /\ k = "continue" /\ card = NoCard
            \/ Resume(t) /\ k = "resume" /\ card = WaitingCard(t)
  BY <1>1, WaitingCardIsInt DEF Call, Submit, SubmitInput, SubmitContinue, Resume, Kinds, NoCard
<1>3. PICK row \in Run : row = NewRun(t, k, card)
  BY <1>1, <1>2, NewRunIsRun
<1>4. /\ runs' = Append(runs, row) /\ queue' = Append(queue, Len(runs) + 1) /\ MaySubmit
      /\ UNCHANGED <<ckpt, acted, phase, limbo, busy, backlog, pc, job, mem, crashes>>
  BY <1>2, <1>3 DEF Enqueue
<1>5. Added(Len(runs) + 1, row)
  BY <1>1, <1>4, Adds
<1>6. /\ row.thread = t /\ row.status = "pending" /\ row.origin = Len(runs) + 1
      /\ row.kind = k /\ row.card = card
  BY <1>3 DEF NewRun
<1>7. \/ k \in {"message", "input"} /\ sent' = [sent EXCEPT ![t] = Append(sent[t], Len(runs) + 1)]
         /\ (k = "message" => \A r \in RunsOf(t) : runs[r].kind # "input")
         /\ (k = "input" => RunsOf(t) = {}) /\ card = NoCard
      \/ k = "continue" /\ sent' = sent /\ card = NoCard
      \/ k = "resume" /\ sent' = sent /\ card = WaitingCard(t)
  BY <1>2 DEF Submit, SubmitInput, SubmitContinue, Resume
<1>8. CallAdds(t, Len(runs) + 1, row)
  BY <1>4, <1>5, <1>6, <1>7 DEF CallAdds
<1> QED
  BY <1>4, <1>8 DEF MaySubmit

\* A run gets a worker: off the queue ...
Starts(r) ==
    /\ r \in RunIds /\ runs[r].status = "pending"
    /\ RunIds' = RunIds /\ \A s \in RunIds : SameRun(s) /\ (s # r => runs'[s] = runs[s])
    /\ runs'[r].status = "running"

LEMMA TakeRows ==
    ASSUME IInv, NEW w \in Workers, Take(w)
    PROVE  /\ phase = "up" /\ queue # <<>> /\ queue' = Tail(queue) /\ Starts(Head(queue))
           /\ runs[Head(queue)].thread \in Threads /\ runs[Head(queue)].thread \notin busy
           /\ busy' = busy \cup {runs[Head(queue)].thread}
           /\ pc[w] = "idle" /\ pc' = [pc EXCEPT ![w] = "open"] /\ job' = [job EXCEPT ![w] = Head(queue)]
           /\ UNCHANGED <<ckpt, sent, acted, phase, limbo, backlog, mem, crashes>>
<1>1. PICK r : r = Head(queue)
  OBVIOUS
<1>2. /\ phase = "up" /\ queue # <<>> /\ queue' = Tail(queue) /\ pc[w] = "idle"
      /\ runs[r].thread \notin busy /\ busy' = busy \cup {runs[r].thread}
      /\ pc' = [pc EXCEPT ![w] = "open"] /\ job' = [job EXCEPT ![w] = r]
      /\ runs' = [runs EXCEPT ![r].status = "running"]
      /\ UNCHANGED <<ckpt, sent, acted, phase, limbo, backlog, mem, crashes>>
  BY <1>1 DEF Take, Idle, Enter
<1>3. r \in RunIds /\ runs[r].status = "pending" /\ TypeOK
  BY <1>1, <1>2, QueueHead DEF IInv
<1>4. runs[r] \in Run /\ runs \in Seq(Run) /\ runs[r].thread \in Threads
  BY <1>3, RowFields DEF TypeOK
<1>5. PICK x : x = [runs[r] EXCEPT !.status = "running"]
  OBVIOUS
<1>5a. /\ x \in Run /\ x.status = "running"
      /\ x.thread = runs[r].thread /\ x.kind = runs[r].kind
       /\ x.origin = runs[r].origin /\ x.card = runs[r].card
  <2>1. "running" \in Statuses
    BY DEF Statuses
  <2> QED
    BY <1>4, <1>5, <2>1, RowTurns
<1>6. /\ DOMAIN runs' = DOMAIN runs
      /\ \A s \in RunIds : runs'[s] = IF s = r THEN x ELSE runs[s]
  <2>1. runs' = [runs EXCEPT ![r] = x]
    BY <1>2, <1>5, <1>5a
  <2> QED
    BY <1>3, <1>4, <2>1, SeqUpdate DEF RunIds
<1>7. Starts(r)
  BY <1>3, <1>5, <1>5a, <1>6 DEF Starts, SameRun, RunIds
<1> QED
  BY <1>1, <1>2, <1>4, <1>7

\* A run ends: its row gets the outcome.
Ends(w) ==
    /\ job[w] \in RunIds /\ runs[job[w]].status = "running" /\ Active(w) /\ pc[w] \in Outcomes
    /\ RunIds' = RunIds /\ \A s \in RunIds : SameRun(s)
    /\ runs'[job[w]].status = pc[w]
    /\ pc[w] = "interrupted" => runs'[job[w]].asks = mem[w].step

LEMMA OutcomeRow ==
    ASSUME IInv, NEW w \in Workers, Ended(w)
    PROVE  /\ job[w] \in RunIds /\ runs[job[w]].status = "running" /\ Active(w) /\ pc[w] \in Outcomes
           /\ ThreadOf(w) \in Threads /\ runs \in Seq(Run)
           /\ Outcome(w) \in Run /\ Outcome(w).thread = runs[job[w]].thread
           /\ Outcome(w).kind = runs[job[w]].kind /\ Outcome(w).origin = runs[job[w]].origin
           /\ Outcome(w).card = runs[job[w]].card /\ Outcome(w).status = pc[w]
           /\ pc[w] = "interrupted" => Outcome(w).asks = mem[w].step
<1>1. /\ Active(w) /\ job[w] \in RunIds /\ runs[job[w]].status = "running"
      /\ ThreadOf(w) \in Threads /\ Outcome(w) \in Run /\ runs \in Seq(Run) /\ runs[job[w]] \in Run
  BY OutcomeIsRun, Rows DEF IInv, TypeOK
<1>2. PICK a : /\ Outcome(w) = [runs[job[w]] EXCEPT !.status = pc[w], !.asks = a]
               /\ pc[w] = "interrupted" => a = mem[w].step
  BY DEF Outcome
<1> QED
  BY <1>1, <1>2 DEF Run, Ended

LEMMA SettleRows ==
    ASSUME IInv, NEW w \in Workers, Settle(w) \/ SettleAndDie(w)
    PROVE  /\ Ends(w) /\ \A s \in RunIds : s # job[w] => runs'[s] = runs[s]
           /\ ThreadOf(w) \in Threads /\ busy' = busy \ {ThreadOf(w)}
           /\ \E p \in {"idle", "dead"} : pc' = [pc EXCEPT ![w] = p]
           /\ phase = "up"
           /\ UNCHANGED <<ckpt, sent, acted, phase, limbo, queue, job, mem, crashes>>
<1>1. /\ Ended(w) /\ runs' = [runs EXCEPT ![job[w]] = Outcome(w)] /\ phase = "up"
      /\ busy' = busy \ {ThreadOf(w)}
      /\ \E p \in {"idle", "dead"} : pc' = [pc EXCEPT ![w] = p]
      /\ UNCHANGED <<ckpt, sent, acted, phase, limbo, queue, job, mem, crashes>>
  BY DEF Settle, SettleAndDie, Goto, Ended
<1>2. PICK x : x = Outcome(w)
  OBVIOUS
<1>3. /\ DOMAIN runs' = DOMAIN runs
      /\ \A s \in RunIds : runs'[s] = IF s = job[w] THEN x ELSE runs[s]
  <2>1. x \in Run /\ runs \in Seq(Run) /\ job[w] \in RunIds
    BY <1>1, <1>2, OutcomeRow
  <2> QED
    BY <1>1, <1>2, <2>1, SeqUpdate DEF RunIds
<1>4. Ends(w) /\ \A s \in RunIds : s # job[w] => runs'[s] = runs[s]
  BY <1>1, <1>2, <1>3, OutcomeRow DEF Ends, SameRun, RunIds
<1> QED
  BY <1>1, <1>4, OutcomeRow

LEMMA NextRows ==
    ASSUME IInv, NEW w \in Workers, SettleAndNext(w), NEW r, r = Head(backlog[ThreadOf(w)])
    PROVE  /\ Ends(w) /\ r \in RunIds /\ runs[r].status = "pending" /\ runs[r].thread = ThreadOf(w)
           /\ runs'[r].status = "running" /\ r # job[w]
           /\ \A s \in RunIds : s # job[w] /\ s # r => runs'[s] = runs[s]
           /\ ThreadOf(w) \in Threads /\ backlog[ThreadOf(w)] # <<>>
           /\ backlog' = [backlog EXCEPT ![ThreadOf(w)] = Tail(backlog[ThreadOf(w)])]
           /\ phase = "up" /\ pc' = [pc EXCEPT ![w] = "open"] /\ job' = [job EXCEPT ![w] = r]
           /\ UNCHANGED <<ckpt, sent, acted, phase, limbo, queue, busy, mem, crashes>>
<1>1. PICK t : t = ThreadOf(w)
  OBVIOUS
<1>2. /\ Ended(w) /\ backlog[t] # <<>> /\ backlog' = [backlog EXCEPT ![t] = Tail(backlog[t])] /\ phase = "up"
      /\ pc' = [pc EXCEPT ![w] = "open"] /\ job' = [job EXCEPT ![w] = r]
      /\ runs' = [runs EXCEPT ![job[w]] = Outcome(w), ![r].status = "running"]
      /\ UNCHANGED <<ckpt, sent, acted, phase, limbo, queue, busy, mem, crashes>>
  BY <1>1 DEF SettleAndNext, Enter, Ended
<1>3. PICK x : x = Outcome(w)
  OBVIOUS
<1>4. /\ t \in Threads /\ x \in Run /\ runs \in Seq(Run) /\ job[w] \in RunIds /\ TypeOK
      /\ runs[job[w]].status = "running"
  BY <1>1, <1>2, <1>3, OutcomeRow DEF IInv
<1>5. r \in RunIds /\ runs[r].status = "pending" /\ runs[r].thread = t
  BY <1>1, <1>2, <1>4, BacklogHead
<1>6. r # job[w] /\ runs[r] \in Run
  BY <1>4, <1>5, RowFields
<1>7. PICK y : y = [runs[r] EXCEPT !.status = "running"]
  OBVIOUS
<1>7a. /\ y \in Run /\ y.status = "running"
      /\ y.thread = runs[r].thread /\ y.kind = runs[r].kind
       /\ y.origin = runs[r].origin /\ y.card = runs[r].card
  <2>1. "running" \in Statuses
    BY DEF Statuses
  <2> QED
    BY <1>6, <1>7, <2>1, RowTurns
<1>8. /\ DOMAIN runs' = DOMAIN runs
      /\ \A s \in RunIds : runs'[s] = IF s = r THEN y ELSE IF s = job[w] THEN x ELSE runs[s]
  <2>1. PICK mid : mid = [runs EXCEPT ![job[w]] = x]
    OBVIOUS
  <2>2. /\ mid \in Seq(Run) /\ DOMAIN mid = DOMAIN runs
        /\ \A s \in RunIds : mid[s] = IF s = job[w] THEN x ELSE runs[s]
    BY <1>4, <2>1, SeqUpdate DEF RunIds
  <2>3. runs' = [mid EXCEPT ![r] = y]
    BY <1>2, <1>3, <1>5, <1>6, <1>7, <1>7a, <2>1, <2>2 DEF RunIds
  <2> QED
    BY <1>5, <2>2, <2>3, SeqUpdate DEF RunIds
<1>9. Ends(w) /\ \A s \in RunIds : s # job[w] /\ s # r => runs'[s] = runs[s]
  BY <1>2, <1>3, <1>5, <1>6, <1>7, <1>7a, <1>8, OutcomeRow DEF Ends, SameRun, RunIds
<1> QED
  BY <1>1, <1>2, <1>4, <1>5, <1>6, <1>7, <1>7a, <1>8, <1>9

LEMMA CancelRows ==
    ASSUME IInv, CancelRun
    PROVE  /\ limbo' \in WithStatus("running")
           /\ RunIds' = RunIds /\ \A s \in RunIds : SameRun(s) /\ (s # limbo' => runs'[s] = runs[s])
           /\ runs'[limbo'].status = "cancelled" /\ phase = "boot" /\ limbo = 0
           /\ UNCHANGED <<ckpt, sent, acted, phase, queue, busy, backlog, pc, job, mem, crashes>>
<1>1. PICK r \in WithStatus("running") : runs' = [runs EXCEPT ![r].status = "cancelled"] /\ limbo' = r
  BY DEF CancelRun
<1>2. /\ phase = "boot" /\ limbo = 0
      /\ UNCHANGED <<ckpt, sent, acted, phase, queue, busy, backlog, pc, job, mem, crashes>>
  BY DEF CancelRun
<1>3. r \in RunIds /\ runs[r] \in Run /\ runs \in Seq(Run)
  BY <1>1, Rows DEF WithStatus, IInv, TypeOK
<1>4. PICK x : x = [runs[r] EXCEPT !.status = "cancelled"]
  OBVIOUS
<1>4a. /\ x \in Run /\ x.status = "cancelled"
      /\ x.thread = runs[r].thread /\ x.kind = runs[r].kind
       /\ x.origin = runs[r].origin /\ x.card = runs[r].card
  <2>1. "cancelled" \in Statuses
    BY DEF Statuses
  <2> QED
    BY <1>3, <1>4, <2>1, RowTurns
<1>5. /\ DOMAIN runs' = DOMAIN runs
      /\ \A s \in RunIds : runs'[s] = IF s = r THEN x ELSE runs[s]
  <2>1. runs' = [runs EXCEPT ![r] = x]
    BY <1>1, <1>4, <1>4a
  <2> QED
    BY <1>3, <2>1, SeqUpdate DEF RunIds
<1> QED
  BY <1>1, <1>2, <1>3, <1>4, <1>4a, <1>5 DEF SameRun, RunIds

LEMMA ReplaceRows ==
    ASSUME IInv, ReplaceRun
    PROVE  /\ limbo \in RunIds /\ runs[limbo].status = "cancelled" /\ limbo' = 0 /\ phase = "boot"
           /\ \E k, n, row :
                 /\ k \in Owed(limbo) /\ Added(n, row)
                 /\ row.thread = runs[limbo].thread /\ row.kind = k /\ row.status = "pending"
                 /\ row.origin = runs[limbo].origin /\ row.card = runs[limbo].card
           /\ UNCHANGED <<ckpt, sent, acted, phase, queue, busy, backlog, pc, job, mem, crashes>>
<1>1. PICK k \in Owed(limbo) : runs' = Append(runs, [runs[limbo] EXCEPT !.kind = k, !.status = "pending"])
  BY DEF ReplaceRun
<1>2. limbo # 0 /\ limbo' = 0
      /\ UNCHANGED <<ckpt, sent, acted, phase, queue, busy, backlog, pc, job, mem, crashes>>
  BY DEF ReplaceRun
<1>3. TypeOK /\ phase = "boot" /\ limbo \in RunIds /\ runs[limbo].status = "cancelled"
  BY <1>2 DEF IInv, LimboCancelled
<1>4. runs[limbo] \in Run /\ k \in Kinds
  BY <1>1, <1>3, RowFields DEF Owed, Kinds
<1>5. PICK row : row = [runs[limbo] EXCEPT !.kind = k, !.status = "pending"]
  OBVIOUS
<1>5a. /\ row \in Run /\ row.thread = runs[limbo].thread /\ row.kind = k /\ row.status = "pending"
       /\ row.origin = runs[limbo].origin /\ row.card = runs[limbo].card
  BY <1>4, <1>5 DEF Run, Statuses
<1>6. PICK n : n = Len(runs) + 1 /\ Added(n, row)
  BY <1>1, <1>3, <1>5, <1>5a, Adds
<1>7. \E k1, n1, row1 :
         /\ k1 \in Owed(limbo) /\ Added(n1, row1)
         /\ row1.thread = runs[limbo].thread /\ row1.kind = k1 /\ row1.status = "pending"
         /\ row1.origin = runs[limbo].origin /\ row1.card = runs[limbo].card
  BY <1>1, <1>5a, <1>6
<1> QED
  BY <1>1, <1>2, <1>3, <1>7

-----------------------------------------------------------------------------
(***************************************************************************)
(* What a worker's graph run does to the checkpoint of its thread.         *)
(***************************************************************************)

\* The writes of a task, where the state and the step stay.
Keeps(c, d) == d.values = c.values /\ d.inbox = c.inbox /\ d.next = c.next /\ d.step = c.step

Unanswered(c) == c.ask /\ c.reply = 0

Acts(w, c) == acted' = IF c.reply = 0 THEN acted
                       ELSE acted \cup {[thread |-> ThreadOf(w), card |-> c.step, by |-> c.reply]}

\* From checkpoint c to d, the worker going on to p.
Lands(w, c, d, p) ==
    /\ pc[w] = "input" /\ IsInput(job[w]) /\ p = "loop"
    /\ d.values /\ d.inbox = Append(c.inbox, job[w]) /\ d.next /\ d.step = c.step + 1
    /\ ~d.ask /\ d.reply = 0 /\ ~d.result
Answers(w, c, d, p) ==
    /\ pc[w] = "input" /\ KindOf(w) = "resume" /\ c.ask /\ p = "loop"
    /\ Keeps(c, d) /\ d.ask /\ d.result = c.result
    /\ d.reply = IF c.reply = 0 THEN job[w] ELSE c.reply
Stays(w, c, d, p) ==
    /\ d = c
    /\ \/ pc[w] = "open" /\ p = "input"
       \/ pc[w] = "input" /\ KindOf(w) = "resume" /\ ~c.values /\ p = "error"
       \/ pc[w] = "input" /\ ~IsInput(job[w]) /\ p = IF c.next THEN "loop" ELSE "success"
       \/ pc[w] = "loop" /\ c.step >= Limit /\ p = "error"
       \/ pc[w] = "loop" /\ ~Unanswered(c) /\ p = "error"
Asks(w, c, d, p) ==
    /\ pc[w] = "loop" /\ c.step < Limit /\ c.reply = 0 /\ ~c.result /\ p = "interrupted"
    /\ Keeps(c, d) /\ d.ask /\ d.reply = 0 /\ ~d.result
Returns(w, c, d, p) ==
    /\ pc[w] = "loop" /\ c.step < Limit /\ ~Unanswered(c) /\ p = "loop"
    /\ Keeps(c, d) /\ d.ask = c.ask /\ d.reply = c.reply /\ d.result
Advances(w, c, d, p) ==
    /\ pc[w] = "loop" /\ c.result /\ p = IF d.next THEN "loop" ELSE "success"
    /\ d.values /\ d.inbox = c.inbox /\ d.step = c.step + 1 /\ ~d.ask /\ d.reply = 0 /\ ~d.result

Turn(w, c, d, p) ==
    \/ Returns(w, c, d, p) /\ Acts(w, c)
    \/ /\ acted' = acted
       /\ \/ Lands(w, c, d, p) \/ Answers(w, c, d, p) \/ Stays(w, c, d, p) \/ Asks(w, c, d, p)
          \/ Advances(w, c, d, p)

GraphMove(w, c, d, p) ==
    /\ c \in Checkpoint /\ d \in Checkpoint /\ p \in {"input", "loop"} \cup Outcomes
    /\ c = ckpt[ThreadOf(w)] /\ (pc[w] # "open" => c = mem[w]) /\ Turn(w, c, d, p)
    /\ ckpt' = [ckpt EXCEPT ![ThreadOf(w)] = d]
    /\ mem' = [mem EXCEPT ![w] = d] /\ pc' = [pc EXCEPT ![w] = p]

LEMMA GraphMoves ==
    ASSUME IInv, NEW w \in Workers, Graph(w)
    PROVE  /\ \E c, d, p : GraphMove(w, c, d, p)
           /\ Active(w) /\ phase = "up" /\ job[w] \in RunIds /\ ThreadOf(w) \in Threads /\ InGraph
<1> DEFINE t == ThreadOf(w)
<1>1. /\ phase = "up" /\ pc[w] \in {"open", "input", "loop"} /\ InGraph
  BY GraphStep DEF GraphEffect
<1>2. Active(w) /\ job[w] \in RunIds /\ t \in Threads /\ job[w] \in Nat /\ TypeOK
  <2>1. Active(w) /\ TypeOK /\ JobsRun
    BY <1>1 DEF Active, IInv
  <2> QED
    BY <2>1, RowFields DEF JobsRun, ThreadOf
<1>3. PICK c \in Checkpoint : c = ckpt[t] /\ (pc[w] # "open" => c = mem[w])
  BY <1>2 DEF IInv, SoleWriter, TypeOK
<1>4. /\ ckpt \in [Threads -> Checkpoint] /\ mem \in [Workers -> Checkpoint]
      /\ [ckpt EXCEPT ![t] = c] = ckpt /\ (pc[w] # "open" => [mem EXCEPT ![w] = c] = mem)
  BY <1>2, <1>3 DEF TypeOK
<1>5. pc' \in [Workers -> {"idle", "open", "input", "loop", "dead"} \cup Outcomes]
      /\ pc \in [Workers -> {"idle", "open", "input", "loop", "dead"} \cup Outcomes]
  BY StepIInv, <1>2 DEF IInv, TypeOK, Next, Work
<1> HIDE DEF t
<1> SUFFICES \E c1, d, p : GraphMove(w, c1, d, p)
  BY <1>1, <1>2 DEF t
<1>6. ASSUME NEW d \in Checkpoint, NEW p \in {"input", "loop"} \cup Outcomes, Turn(w, c, d, p),
             ckpt' = [ckpt EXCEPT ![t] = d], mem' = [mem EXCEPT ![w] = d], pc' = [pc EXCEPT ![w] = p]
      PROVE  \E c1, d1, p1 : GraphMove(w, c1, d1, p1)
  BY <1>3, <1>6 DEF GraphMove, t
<1>7. CASE Load(w)
  <2>1. /\ ckpt' = [ckpt EXCEPT ![t] = c] /\ mem' = [mem EXCEPT ![w] = c] /\ pc' = [pc EXCEPT ![w] = "input"]
        /\ Stays(w, c, c, "input") /\ acted' = acted
    BY <1>3, <1>4, <1>7 DEF Load, At, Goto, Stays, t
  <2> QED
    BY <1>6, <2>1 DEF Turn
<1>8. CASE Land(w)
  <2>1. PICK d : d = [values |-> TRUE, inbox |-> Append(c.inbox, job[w]), next |-> TRUE, step |-> c.step + 1,
                      ask |-> FALSE, reply |-> 0, result |-> FALSE]
    OBVIOUS
  <2>2. Append(c.inbox, job[w]) \in Seq(Nat) /\ c.step + 1 \in Int
    BY <1>2, SeqAppend DEF Checkpoint
  <2>3. d \in Checkpoint
    BY <2>1, <2>2 DEF Checkpoint
  <2>4. /\ pc[w] = "input" /\ KindOf(w) \in {"message", "input"} /\ acted' = acted
        /\ ckpt' = [ckpt EXCEPT ![t] = d] /\ mem' = [mem EXCEPT ![w] = d] /\ pc' = [pc EXCEPT ![w] = "loop"]
    BY <1>3, <1>8, <2>1 DEF Land, At, Goto, Put, t
  <2>5. Lands(w, c, d, "loop")
    BY <2>1, <2>4 DEF Lands, IsInput, KindOf
  <2> QED
    BY <1>6, <2>3, <2>4, <2>5 DEF Turn
<1>9. CASE Answer(w)
  <2>1. PICK r : r = IF c.reply = 0 THEN job[w] ELSE c.reply
    OBVIOUS
  <2>2. PICK d : d = [c EXCEPT !.reply = r]
    OBVIOUS
  <2>3. /\ pc[w] = "input" /\ KindOf(w) = "resume" /\ c.ask /\ acted' = acted
        /\ ckpt' = [ckpt EXCEPT ![t] = d] /\ mem' = [mem EXCEPT ![w] = d] /\ pc' = [pc EXCEPT ![w] = "loop"]
    BY <1>3, <1>9, <2>1, <2>2 DEF Answer, At, Goto, Put, t
  <2>4. d \in Checkpoint /\ Keeps(c, d) /\ d.ask = c.ask /\ d.result = c.result /\ d.reply = r
    BY <1>2, <2>1, <2>2 DEF Checkpoint, Keeps
  <2>5. Answers(w, c, d, "loop")
    BY <2>1, <2>3, <2>4 DEF Answers
  <2> QED
    BY <1>6, <2>3, <2>4, <2>5 DEF Turn
<1>10. ASSUME NEW p \in {"input", "loop"} \cup Outcomes, Goto(w, p), UNCHANGED <<ckpt, mem, acted>>, pc[w] # "open",
              Stays(w, c, c, p)
       PROVE  \E c1, d1, p1 : GraphMove(w, c1, d1, p1)
  BY <1>4, <1>6, <1>10 DEF Goto, Turn
<1>11. CASE AnswerNobody(w)
  BY <1>3, <1>10, <1>11 DEF AnswerNobody, At, Stays, Outcomes
<1>12. CASE GoOn(w)
  <2>1. PICK p : p = IF c.next THEN "loop" ELSE "success"
    OBVIOUS
  <2>2. Goto(w, p) /\ UNCHANGED <<ckpt, mem, acted>> /\ pc[w] = "input" /\ KindOf(w) \in {"continue", "resume"}
    BY <1>3, <1>12, <2>1 DEF GoOn, At
  <2>3. Stays(w, c, c, p) /\ p \in {"input", "loop"} \cup Outcomes
    BY <2>1, <2>2 DEF Stays, IsInput, KindOf, Outcomes
  <2> QED
    BY <1>10, <2>2, <2>3
<1>13. CASE HitLimit(w)
  BY <1>3, <1>10, <1>13 DEF HitLimit, At, Stays, Outcomes
<1>14. CASE NodeFails(w)
  BY <1>3, <1>10, <1>14 DEF NodeFails, Running, Asking, At, Stays, Unanswered, Outcomes
<1>15. CASE NodeAsks(w)
  <2>1. PICK d : d = [c EXCEPT !.ask = TRUE]
    OBVIOUS
  <2>2. /\ pc[w] = "loop" /\ c.step < Limit /\ c.reply = 0 /\ ~c.result /\ acted' = acted
        /\ ckpt' = [ckpt EXCEPT ![t] = d] /\ mem' = [mem EXCEPT ![w] = d]
        /\ pc' = [pc EXCEPT ![w] = "interrupted"]
    BY <1>3, <1>15, <2>1 DEF NodeAsks, Running, At, Goto, Put, t
  <2>3. d \in Checkpoint /\ Keeps(c, d) /\ d.ask /\ d.reply = c.reply /\ d.result = c.result
    BY <2>1 DEF Checkpoint, Keeps
  <2>4. Asks(w, c, d, "interrupted")
    BY <2>2, <2>3 DEF Asks
  <2> QED
    BY <1>6, <2>2, <2>3, <2>4 DEF Turn, Outcomes
<1>16. CASE NodeReturns(w)
  <2>1. PICK d : d = [c EXCEPT !.result = TRUE]
    OBVIOUS
  <2>2. /\ pc[w] = "loop" /\ c.step < Limit /\ ~Unanswered(c) /\ Acts(w, c)
        /\ ckpt' = [ckpt EXCEPT ![t] = d] /\ mem' = [mem EXCEPT ![w] = d] /\ pc' = pc
    BY <1>3, <1>16, <2>1 DEF NodeReturns, Running, Asking, Unanswered, Acts, At, Put, t
  <2>3. d \in Checkpoint /\ Keeps(c, d) /\ d.ask = c.ask /\ d.reply = c.reply /\ d.result
    BY <2>1 DEF Checkpoint, Keeps
  <2>4. Returns(w, c, d, "loop") /\ pc' = [pc EXCEPT ![w] = "loop"]
    BY <1>5, <2>2, <2>3 DEF Returns
  <2> QED
    BY <1>6, <2>2, <2>3, <2>4 DEF Turn
<1>17. CASE Advance(w)
  <2>1. PICK more \in BOOLEAN :
           /\ Put(w, [values |-> TRUE, inbox |-> mem[w].inbox, next |-> more, step |-> mem[w].step + 1,
                      ask |-> FALSE, reply |-> 0, result |-> FALSE])
           /\ Goto(w, IF more THEN "loop" ELSE "success")
    BY <1>17 DEF Advance
  <2>2. PICK d : d = [values |-> TRUE, inbox |-> c.inbox, next |-> more, step |-> c.step + 1,
                      ask |-> FALSE, reply |-> 0, result |-> FALSE]
    OBVIOUS
  <2>3. d \in Checkpoint
    BY <2>2 DEF Checkpoint
  <2>4. PICK p : p = IF more THEN "loop" ELSE "success"
    OBVIOUS
  <2>5. /\ pc[w] = "loop" /\ c.result /\ acted' = acted
        /\ ckpt' = [ckpt EXCEPT ![t] = d] /\ mem' = [mem EXCEPT ![w] = d] /\ pc' = [pc EXCEPT ![w] = p]
    BY <1>3, <1>17, <2>1, <2>2, <2>4 DEF Advance, Running, At, Put, Goto, t
  <2>6. Advances(w, c, d, p) /\ p \in {"input", "loop"} \cup Outcomes
    BY <2>2, <2>4, <2>5 DEF Advances, Outcomes
  <2> QED
    BY <1>6, <2>3, <2>5, <2>6 DEF Turn
<1> QED
  BY <1>7, <1>8, <1>9, <1>11, <1>12, <1>13, <1>14, <1>15, <1>16, <1>17 DEF Graph

LEMMA AppendLonger ==
    ASSUME NEW S, NEW q \in Seq(S), NEW x \in S
    PROVE  Append(q, x) # <<>> /\ Append(q, x) # q
<1>1. /\ Append(q, x) # <<>> /\ Len(Append(q, x)) = Len(q) + 1 /\ Len(q) \in Nat
  BY AppendProperties, LenProperties
<1> QED
  BY <1>1

Members(q) == {q[i] : i \in DOMAIN q}

LEMMA AppendedMembers ==
    ASSUME NEW S, NEW q \in Seq(S), NEW x \in S
    PROVE  Members(Append(q, x)) = Members(q) \cup {x}
<1>1. PICK longer : longer = Append(q, x)
  OBVIOUS
<1>2. /\ DOMAIN longer = DOMAIN q \cup {Len(q) + 1} /\ \A j \in DOMAIN q : longer[j] = q[j]
      /\ longer[Len(q) + 1] = x
  BY <1>1, SeqAppend
<1>3. ASSUME NEW y \in {longer[i] : i \in DOMAIN longer}
      PROVE  y \in {q[i] : i \in DOMAIN q} \cup {x}
  BY <1>2
<1>4. ASSUME NEW y \in {q[i] : i \in DOMAIN q} \cup {x}
      PROVE  y \in {longer[i] : i \in DOMAIN longer}
  BY <1>2
<1> QED
  BY <1>1, <1>3, <1>4 DEF Members

LEMMA TurnSound ==
    ASSUME NEW w \in Workers, NEW c \in Checkpoint, NEW d \in Checkpoint, NEW p, Turn(w, c, d, p),
           job[w] \in Nat, Sound(c), pc[w] = "loop" => c.next
    PROVE  /\ Sound(d)
           /\ p = "loop" => d.next
           /\ p = "success" => ~d.next
           /\ p = "interrupted" => d.ask
           /\ p = "error" => ~Unanswered(d)
           /\ \/ d.inbox = c.inbox
              \/ d.inbox = Append(c.inbox, job[w]) /\ pc[w] = "input" /\ IsInput(job[w]) /\ p = "loop"
           /\ p \notin {"open", "input"} /\ IsInput(job[w]) =>
                 pc[w] \notin {"open", "input"} \/ d.inbox = Append(c.inbox, job[w])
<1>1. /\ c.values \in BOOLEAN /\ c.inbox \in Seq(Nat) /\ c.next \in BOOLEAN /\ c.step \in Int
      /\ c.ask \in BOOLEAN /\ c.reply \in Nat /\ c.result \in BOOLEAN
      /\ d.values \in BOOLEAN /\ d.inbox \in Seq(Nat) /\ d.next \in BOOLEAN /\ d.step \in Int
      /\ d.ask \in BOOLEAN /\ d.reply \in Nat /\ d.result \in BOOLEAN
  BY DEF Checkpoint
<1>2. Append(c.inbox, job[w]) # <<>>
  <2>1. PICK q \in Seq(Nat) : q = c.inbox
    BY <1>1
  <2>2. Append(q, job[w]) # <<>>
    BY <2>1, AppendLonger
  <2> QED
    BY <2>1, <2>2
<1>3. CASE Lands(w, c, d, p)
  BY <1>1, <1>2, <1>3 DEF Lands, Sound
<1>4. CASE Answers(w, c, d, p)
  BY <1>1, <1>4 DEF Answers, Keeps, Sound, KindOf, IsInput
<1>5. CASE Stays(w, c, d, p)
  BY <1>1, <1>5, LimitAssumption DEF Stays, Sound, Unanswered, KindOf, IsInput
<1>6. CASE Asks(w, c, d, p)
  BY <1>1, <1>6 DEF Asks, Keeps, Sound
<1>7. CASE Returns(w, c, d, p)
  BY <1>1, <1>7 DEF Returns, Keeps, Sound, Unanswered
<1>8. CASE Advances(w, c, d, p)
  BY <1>1, <1>8 DEF Advances, Sound
<1> QED
  BY <1>3, <1>4, <1>5, <1>6, <1>7, <1>8 DEF Turn

\* The inboxes after a step of a graph run: the job may have landed.
LEMMA TurnInbox ==
    ASSUME IInv, NEW w \in Workers, NEW c, NEW d, NEW p, GraphMove(w, c, d, p),
           NEW t \in Threads, t = ThreadOf(w), job[w] \in Nat, Sound(c), pc[w] = "loop" => c.next
    PROVE  /\ \A s \in Threads : s # t => ckpt'[s] = ckpt[s] /\ Inbox(s)' = Inbox(s)
           /\ ckpt'[t] = d
           /\ \/ d.inbox = c.inbox /\ Inbox(t)' = Inbox(t)
              \/ /\ d.inbox = Append(c.inbox, job[w]) /\ pc[w] = "input" /\ IsInput(job[w]) /\ p = "loop"
                 /\ Inbox(t)' = Inbox(t) \cup {job[w]}
<1>1. /\ c \in Checkpoint /\ d \in Checkpoint /\ c = ckpt[t] /\ Turn(w, c, d, p)
      /\ ckpt' = [ckpt EXCEPT ![t] = d] /\ ckpt \in [Threads -> Checkpoint]
  BY DEF GraphMove, IInv, TypeOK
<1>2. ckpt'[t] = d /\ \A s \in Threads : s # t => ckpt'[s] = ckpt[s]
  BY <1>1
<1>3. \A s \in Threads : s # t => Inbox(s)' = Inbox(s)
  BY <1>2 DEF Inbox
<1>4. Inbox(t) = Members(c.inbox) /\ Inbox(t)' = Members(d.inbox)
  BY <1>1, <1>2 DEF Inbox, Members
<1>5. CASE d.inbox = c.inbox
  BY <1>2, <1>3, <1>4, <1>5
<1>6. CASE d.inbox = Append(c.inbox, job[w])
  <2>1. Members(d.inbox) = Members(c.inbox) \cup {job[w]}
    <3>1. PICK q \in Seq(Nat) : q = c.inbox
      BY <1>1 DEF Checkpoint
    <3>2. Members(Append(q, job[w])) = Members(q) \cup {job[w]}
      BY <3>1, AppendedMembers
    <3> QED
      BY <1>6, <3>1, <3>2
  <2>2. d.inbox # c.inbox
    <3>1. PICK q \in Seq(Nat) : q = c.inbox
      BY <1>1 DEF Checkpoint
    <3>2. Append(q, job[w]) # q
      BY <3>1, AppendLonger
    <3> QED
      BY <1>6, <3>1, <3>2
  <2>3. pc[w] = "input" /\ IsInput(job[w]) /\ p = "loop"
    BY <1>1, <2>2, TurnSound
  <2> QED
    BY <1>2, <1>3, <1>4, <1>6, <2>1, <2>3
<1> QED
  BY <1>1, <1>5, <1>6, TurnSound

\* No step moves a row to another thread, or takes an input back.
LandedStays == \A t \in Threads : Inbox(t) \subseteq Inbox(t)'

LEMMA HasLandedStays ==
    ASSUME InboxRows, RowsKept, LandedStays, NEW t \in Threads, NEW o, HasLanded(o, t)
    PROVE  HasLanded(o, t)'
<1>1. PICK r \in Inbox(t) : runs[r].origin = o
  BY DEF HasLanded
<1>2. r \in RunIds /\ r \in Inbox(t)'
  BY <1>1 DEF InboxRows, RunsOf, LandedStays
<1> QED
  BY <1>1, <1>2 DEF HasLanded, RowsKept, SameRun

-----------------------------------------------------------------------------
(***************************************************************************)
(* Nothing is lost.                                                        *)
(***************************************************************************)

LEMMA GraphKeep == ASSUME IInv, KeepInv, NEW w \in Workers, Graph(w) PROVE KeepInv' /\ LandedStays /\ RowsKept
<1>1. PICK c, d, p : GraphMove(w, c, d, p)
  BY GraphMoves
<1>2. PICK t \in Threads : t = ThreadOf(w)
  BY GraphMoves
<1>3. Active(w) /\ job[w] \in RunIds /\ job[w] \in Nat /\ InGraph /\ TypeOK
  BY GraphMoves, RowFields DEF IInv
<1>4. /\ c \in Checkpoint /\ d \in Checkpoint /\ c = ckpt[t] /\ Turn(w, c, d, p) /\ (pc[w] # "open" => c = mem[w])
      /\ mem' = [mem EXCEPT ![w] = d] /\ pc' = [pc EXCEPT ![w] = p] /\ p # "open"
      /\ mem \in [Workers -> Checkpoint]
      /\ pc \in [Workers -> {"idle", "open", "input", "loop", "dead"} \cup Outcomes]
  BY <1>1, <1>2, <1>3 DEF GraphMove, TypeOK, Outcomes
<1>5. Sound(c) /\ (pc[w] = "loop" => c.next)
  BY <1>2, <1>3, <1>4 DEF KeepInv, CheckpointsSound, WorkersSound
<1>6. /\ \A s \in Threads : s # t => ckpt'[s] = ckpt[s] /\ Inbox(s)' = Inbox(s)
      /\ ckpt'[t] = d
      /\ \/ d.inbox = c.inbox /\ Inbox(t)' = Inbox(t)
         \/ d.inbox = Append(c.inbox, job[w]) /\ pc[w] = "input" /\ IsInput(job[w])
            /\ Inbox(t)' = Inbox(t) \cup {job[w]}
  BY <1>1, <1>2, <1>3, <1>5, TurnInbox
<1>7. /\ Sound(d)
      /\ p = "loop" => d.next
      /\ p = "success" => ~d.next
      /\ p = "interrupted" => d.ask
      /\ p = "error" => ~Unanswered(d)
      /\ p \notin {"open", "input"} /\ IsInput(job[w]) =>
            pc[w] \notin {"open", "input"} \/ d.inbox = Append(c.inbox, job[w])
  BY <1>3, <1>4, <1>5, TurnSound
<1>8. UNCHANGED <<runs, sent, phase, limbo, queue, busy, backlog, job, crashes>>
  BY <1>3 DEF InGraph
<1>9. RowsKept
  BY <1>8 DEF RowsKept, SameRun, RunIds
<1>10. LandedStays
  BY <1>6 DEF LandedStays
<1>11. InboxRows'
  <2> SUFFICES ASSUME NEW s \in Threads, NEW r \in Inbox(s)' PROVE (r \in RunsOf(s) /\ IsInput(r))'
    BY DEF InboxRows
  <2>1. CASE r \in Inbox(s)
    BY <1>8, <2>1 DEF KeepInv, InboxRows, RunsOf, RunIds, IsInput
  <2>2. CASE r \notin Inbox(s)
    <3>1. s = t /\ r = job[w] /\ IsInput(job[w])
      BY <1>6, <2>2
    <3> QED
      BY <1>2, <1>3, <1>8, <3>1 DEF RunsOf, RunIds, IsInput, ThreadOf
  <2> QED
    BY <2>1, <2>2
<1>12. CheckpointsSound'
  BY <1>6, <1>7 DEF KeepInv, CheckpointsSound, Sound
<1>13. WorkersSound'
  <2> SUFFICES ASSUME NEW v \in Workers, Active(v)'
               PROVE  /\ pc'[v] \notin {"open", "input"} /\ IsInput(job[v])' => job'[v] \in (Inbox(ThreadOf(v)))'
                      /\ pc'[v] = "loop" => mem'[v].next
                      /\ pc'[v] = "success" => ~mem'[v].next
                      /\ pc'[v] = "interrupted" => mem'[v].ask
                      /\ pc'[v] = "error" => ~(mem'[v].ask /\ mem'[v].reply = 0)
    BY DEF WorkersSound
  <2>1. CASE v = w
    <3>1. mem'[v] = d /\ pc'[v] = p /\ job'[v] = job[w]
      BY <1>4, <1>8, <2>1
    <3>2. ASSUME p \notin {"open", "input"}, IsInput(job[w]) PROVE job[w] \in Inbox(t)'
      <4>1. CASE d.inbox = Append(c.inbox, job[w])
        <5>1. d.inbox # c.inbox
          <6>1. PICK q \in Seq(Nat) : q = c.inbox
            BY <1>4 DEF Checkpoint
          <6>2. Append(q, job[w]) # q
            BY <1>3, <6>1, AppendLonger
          <6> QED
            BY <4>1, <6>1, <6>2
        <5> QED
          BY <1>6, <5>1
      <4>2. CASE pc[w] \notin {"open", "input"}
        BY <1>2, <1>3, <1>10, <3>2, <4>2 DEF KeepInv, WorkersSound, LandedStays
      <4> QED
        BY <1>7, <3>2, <4>1, <4>2
    <3>3. (Inbox(ThreadOf(v)))' = Inbox(t)' /\ IsInput(job[v])' = IsInput(job[w])
      BY <1>2, <1>8, <2>1 DEF ThreadOf, IsInput, Inbox
    <3> QED
      BY <1>7, <3>1, <3>2, <3>3 DEF Unanswered
  <2>2. CASE v # w
    <3>1. mem'[v] = mem[v] /\ pc'[v] = pc[v] /\ job'[v] = job[v] /\ Active(v)
      BY <1>4, <1>8, <2>2 DEF Active
    <3>2. ThreadOf(v) \in Threads /\ ThreadOf(v)' = ThreadOf(v) /\ IsInput(job[v])' = IsInput(job[v])
      <4>1. job[v] \in RunIds
        BY <3>1 DEF IInv, JobsRun
      <4> QED
        BY <1>3, <1>8, <4>1, RowFields DEF ThreadOf, IsInput
    <3>3. Inbox(ThreadOf(v)) \subseteq (Inbox(ThreadOf(v)))'
      <4>1. PICK s \in Threads : s = ThreadOf(v) /\ s = ThreadOf(v)'
        BY <3>2
      <4>2. (Inbox(ThreadOf(v)))' = Inbox(s)'
        BY <4>1 DEF Inbox
      <4> QED
        BY <1>10, <4>1, <4>2 DEF LandedStays
    <3> QED
      BY <3>1, <3>2, <3>3 DEF KeepInv, WorkersSound
  <2> QED
    BY <2>1, <2>2
<1>14. InputsAlone'
  BY <1>8 DEF KeepInv, InputsAlone, RunIds, IsInput
<1>15. Carried'
  <2> SUFFICES ASSUME NEW s \in Threads, NEW n \in DOMAIN sent[s]
               PROVE  \/ HasLanded(sent[s][n], s)'
                      \/ \E r \in RunsOf(s)' : Live(r)' /\ IsInput(r)' /\ runs'[r].origin = sent[s][n]
    BY <1>8 DEF Carried, HasLanded
  <2>1. CASE HasLanded(sent[s][n], s)
    <3>1. PICK o : o = sent[s][n]
      OBVIOUS
    <3>2. HasLanded(o, s)'
      BY <1>9, <1>10, <2>1, <3>1, HasLandedStays DEF KeepInv
    <3> QED
      BY <1>8, <3>1, <3>2 DEF HasLanded
  <2>2. CASE \E r \in RunsOf(s) : Live(r) /\ IsInput(r) /\ runs[r].origin = sent[s][n]
    BY <1>8, <2>2 DEF RunsOf, RunIds, Live, IsInput
  <2> QED
    BY <2>1, <2>2 DEF KeepInv, Carried
<1> QED
  BY <1>9, <1>10, <1>11, <1>12, <1>13, <1>14, <1>15 DEF KeepInv

\* A worker either begins, or goes on as it was, or leaves.
WorkersStay ==
    \A w \in Workers : Active(w)' /\ pc'[w] # "open" =>
        Active(w) /\ pc'[w] = pc[w] /\ job'[w] = job[w] /\ mem'[w] = mem[w]

LEMMA CheckpointsStay ==
    ASSUME IInv, KeepInv, RowsKept, ckpt' = ckpt, WorkersStay
    PROVE  InboxRows' /\ CheckpointsSound' /\ WorkersSound' /\ LandedStays
<1>1. \A t \in Threads : Inbox(t)' = Inbox(t)
  BY DEF Inbox
<1>2. InboxRows'
  BY <1>1 DEF KeepInv, InboxRows, RowsKept, SameRun, RunsOf, IsInput
<1>3. CheckpointsSound'
  BY DEF KeepInv, CheckpointsSound, Sound
<1>4. WorkersSound'
  <2> SUFFICES ASSUME NEW v \in Workers, Active(v)'
               PROVE  /\ pc'[v] \notin {"open", "input"} /\ IsInput(job[v])' => job'[v] \in (Inbox(ThreadOf(v)))'
                      /\ pc'[v] = "loop" => mem'[v].next
                      /\ pc'[v] = "success" => ~mem'[v].next
                      /\ pc'[v] = "interrupted" => mem'[v].ask
                      /\ pc'[v] = "error" => ~(mem'[v].ask /\ mem'[v].reply = 0)
    BY DEF WorkersSound
  <2>1. CASE pc'[v] = "open"
    BY <2>1
  <2>2. CASE pc'[v] # "open"
    <3>1. Active(v) /\ pc'[v] = pc[v] /\ job'[v] = job[v] /\ mem'[v] = mem[v]
      BY <2>2 DEF WorkersStay
    <3>2. job[v] \in RunIds
      BY <3>1 DEF IInv, JobsRun
    <3>3. PICK s : s = ThreadOf(v) /\ s = ThreadOf(v)' /\ IsInput(job[v])' = IsInput(job[v])
      BY <3>1, <3>2 DEF RowsKept, SameRun, ThreadOf, IsInput
    <3>4. (Inbox(ThreadOf(v)))' = Inbox(s)
      BY <3>3 DEF Inbox
    <3> QED
      BY <3>1, <3>3, <3>4 DEF KeepInv, WorkersSound
  <2> QED
    BY <2>1, <2>2
<1>5. LandedStays
  BY <1>1 DEF LandedStays
<1> QED
  BY <1>2, <1>3, <1>4, <1>5

\* Whoever carries an input goes on carrying it, has landed it, or hands it on.
CarriersStay ==
    \A r \in RunIds : Live(r) /\ IsInput(r) =>
        \/ Live(r)'
        \/ HasLanded(runs[r].origin, runs[r].thread)
        \/ \E s \in RunIds' : /\ Live(s)' /\ runs'[s].kind \in {"message", "input"}
                              /\ runs'[s].thread = runs[r].thread /\ runs'[s].origin = runs[r].origin

LEMMA CarryOn ==
    ASSUME IInv, KeepInv, RowsKept, LandedStays, CarriersStay, NEW t \in Threads, NEW o,
           \/ HasLanded(o, t)
           \/ \E r \in RunsOf(t) : Live(r) /\ IsInput(r) /\ runs[r].origin = o
    PROVE  \/ HasLanded(o, t)'
           \/ \E r \in RunsOf(t)' : Live(r)' /\ IsInput(r)' /\ runs'[r].origin = o
<1>3. CASE HasLanded(o, t)
  BY <1>3, HasLandedStays DEF KeepInv
<1>4. CASE \E r \in RunsOf(t) : Live(r) /\ IsInput(r) /\ runs[r].origin = o
  <2>1. PICK r \in RunsOf(t) : Live(r) /\ IsInput(r) /\ runs[r].origin = o
    BY <1>4
  <2>2. r \in RunIds /\ runs[r].thread = t /\ SameRun(r) /\ r \in RunIds'
    BY <2>1 DEF RunsOf, RowsKept
  <2>3. CASE Live(r)'
    BY <2>1, <2>2, <2>3 DEF SameRun, RunsOf, IsInput
  <2>4. CASE HasLanded(o, t)
    BY <1>3, <2>4
  <2>5. CASE \E s \in RunIds' : /\ Live(s)' /\ runs'[s].kind \in {"message", "input"}
                                /\ runs'[s].thread = t /\ runs'[s].origin = o
    BY <2>5 DEF RunsOf, IsInput
  <2> QED
    BY <2>1, <2>2, <2>3, <2>4, <2>5 DEF CarriersStay
<1> QED
  BY <1>3, <1>4

LEMMA CarriedStays ==
    ASSUME IInv, KeepInv, RowsKept, LandedStays, CarriersStay, sent' = sent
    PROVE  Carried'
<1> SUFFICES ASSUME NEW t \in Threads, NEW n \in DOMAIN sent[t], NEW o, o = sent[t][n]
             PROVE  \/ HasLanded(o, t)'
                    \/ \E r \in RunsOf(t)' : Live(r)' /\ IsInput(r)' /\ runs'[r].origin = o
  BY DEF Carried, HasLanded
<1> QED
  BY CarryOn DEF KeepInv, Carried

\* A call adds a row, the worker takes it: nothing else changes.
LEMMA CallKeep == ASSUME IInv, KeepInv, NEW t \in Threads, Call(t) PROVE KeepInv' /\ LandedStays /\ RowsKept
<1>1. PICK n, row : CallAdds(t, n, row)
  BY CallRows
<1>2. UNCHANGED <<ckpt, acted, phase, limbo, busy, backlog, pc, job, mem, crashes>> /\ TypeOK
  BY CallRows DEF IInv
<1>3. /\ n \notin RunIds /\ RunIds' = RunIds \cup {n} /\ runs'[n] = row /\ row.origin = n
      /\ row.thread = t /\ row.status = "pending" /\ \A r \in RunIds : runs'[r] = runs[r]
      /\ \/ /\ row.kind \in {"message", "input"} /\ sent' = [sent EXCEPT ![t] = Append(sent[t], n)]
            /\ row.kind = "message" => \A r \in RunsOf(t) : runs[r].kind # "input"
            /\ row.kind = "input" => RunsOf(t) = {}
         \/ row.kind \in {"continue", "resume"} /\ sent' = sent
  BY <1>1 DEF CallAdds, Added
<1>4. RowsKept /\ WorkersStay
  BY <1>2, <1>3 DEF RowsKept, SameRun, WorkersStay, Active
<1>5. InboxRows' /\ CheckpointsSound' /\ WorkersSound' /\ LandedStays
  BY <1>2, <1>4, CheckpointsStay
<1>6. CarriersStay
  BY <1>2, <1>3 DEF CarriersStay, Live
<1>7. InputsAlone'
  <2> SUFFICES ASSUME NEW r \in RunIds', NEW s \in RunIds', runs'[r].thread = runs'[s].thread,
                      runs'[r].kind = "input", runs'[s].kind \in {"message", "input"}
               PROVE  runs'[r].origin = runs'[s].origin
    BY DEF InputsAlone, IsInput
  <2>1. CASE r \in RunIds /\ s \in RunIds
    BY <1>3, <2>1 DEF KeepInv, InputsAlone, IsInput
  <2>2. CASE r = n /\ s = n
    BY <2>2
  <2>3. CASE r = n /\ s \in RunIds
    BY <1>3, <2>3 DEF RunsOf
  <2>4. CASE r \in RunIds /\ s = n
    BY <1>3, <2>4 DEF RunsOf
  <2> QED
    BY <1>3, <2>1, <2>2, <2>3, <2>4
<1>8. Carried'
  <2>1. CASE sent' = sent
    BY <1>4, <1>5, <1>6, <2>1, CarriedStays
  <2>2. CASE row.kind \in {"message", "input"} /\ sent' = [sent EXCEPT ![t] = Append(sent[t], n)]
    <3>1. sent \in [Threads -> Seq(Nat)] /\ n \in Nat
      BY <1>1, <1>2 DEF TypeOK, CallAdds, Added
    <3>2. PICK q \in Seq(Nat) : q = sent[t]
      BY <3>1
    <3>3. sent'[t] = Append(q, n) /\ \A s \in Threads : s # t => sent'[s] = sent[s]
      BY <2>2, <3>1, <3>2
    <3>4. /\ DOMAIN Append(q, n) = DOMAIN q \cup {Len(q) + 1}
          /\ \A j \in DOMAIN q : Append(q, n)[j] = q[j]
          /\ Append(q, n)[Len(q) + 1] = n
      BY <3>1, SeqAppend
    <3>5. ASSUME NEW s \in Threads, NEW i \in DOMAIN sent'[s]
          PROVE  \/ i \in DOMAIN sent[s] /\ sent'[s][i] = sent[s][i]
                 \/ s = t /\ sent'[s][i] = n
      BY <3>2, <3>3, <3>4
    <3>6. n \in RunsOf(t)' /\ Live(n)' /\ IsInput(n)' /\ runs'[n].origin = n
      BY <1>3, <2>2 DEF RunsOf, Live, IsInput
    <3>7. ASSUME NEW s \in Threads, NEW o, \/ s = t /\ o = n
                                           \/ \E i \in DOMAIN sent[s] : o = sent[s][i]
          PROVE  \/ HasLanded(o, s)'
                 \/ \E r \in RunsOf(s)' : Live(r)' /\ IsInput(r)' /\ runs'[r].origin = o
      <4>1. CASE s = t /\ o = n
        BY <3>6, <4>1
      <4>2. CASE \E i \in DOMAIN sent[s] : o = sent[s][i]
        <5>1. HasLanded(o, s) \/ \E r \in RunsOf(s) : Live(r) /\ IsInput(r) /\ runs[r].origin = o
          BY <4>2 DEF KeepInv, Carried
        <5> QED
          BY <1>4, <1>5, <1>6, <5>1, CarryOn
      <4> QED
        BY <3>7, <4>1, <4>2
    <3> SUFFICES ASSUME NEW s \in Threads, NEW i \in DOMAIN sent'[s], NEW o, o = sent'[s][i]
                 PROVE  \/ HasLanded(o, s)'
                        \/ \E r \in RunsOf(s)' : Live(r)' /\ IsInput(r)' /\ runs'[r].origin = o
      BY DEF Carried, HasLanded
    <3> QED
      BY <3>5, <3>7
  <2> QED
    BY <1>3, <2>1, <2>2
<1> QED
  BY <1>4, <1>5, <1>7, <1>8 DEF KeepInv

\* A step that neither adds rows nor ends a run that still carries its input.
LEMMA KeepsOn ==
    ASSUME IInv, KeepInv, RowsKept, RunIds' = RunIds, ckpt' = ckpt, sent' = sent, WorkersStay, CarriersStay
    PROVE  KeepInv' /\ LandedStays /\ RowsKept
<1>1. InboxRows' /\ CheckpointsSound' /\ WorkersSound' /\ LandedStays
  BY CheckpointsStay
<1>2. InputsAlone'
  BY DEF KeepInv, InputsAlone, RowsKept, SameRun, IsInput
<1> QED
  BY <1>1, <1>2, CarriedStays DEF KeepInv

LEMMA EndedHasLanded ==
    ASSUME IInv, KeepInv, NEW w \in Workers, Ends(w), IsInput(job[w])
    PROVE  HasLanded(runs[job[w]].origin, runs[job[w]].thread)
<1>1. pc[w] \notin {"open", "input"} /\ Active(w)
  BY DEF Ends, Outcomes
<1>2. job[w] \in Inbox(ThreadOf(w))
  BY <1>1 DEF KeepInv, WorkersSound
<1> QED
  BY <1>2 DEF HasLanded, ThreadOf

LEMMA WorkKeep == ASSUME IInv, KeepInv, NEW w \in Workers, Work(w) PROVE KeepInv' /\ LandedStays /\ RowsKept
<1>1. TypeOK /\ pc \in [Workers -> {"idle", "open", "input", "loop", "dead"} \cup Outcomes]
  BY DEF IInv, TypeOK
<1>2. CASE Graph(w)
  BY <1>2, GraphKeep
<1>3. CASE Defer(w) \/ TakeDies(w)
  <2>1. /\ UNCHANGED <<runs, ckpt, sent, limbo, job, mem>>
        /\ pc' = pc \/ pc' = [pc EXCEPT ![w] = "dead"]
    BY <1>3 DEF Defer, TakeDies, disk
  <2>2. RowsKept /\ RunIds' = RunIds /\ WorkersStay /\ CarriersStay
    BY <1>1, <2>1 DEF RowsKept, SameRun, RunIds, WorkersStay, Active, CarriersStay, Live
  <2> QED
    BY <2>1, <2>2, KeepsOn
<1>4. CASE Take(w)
  <2>1. PICK r : r = Head(queue)
    OBVIOUS
  <2>2. /\ Starts(r) /\ pc' = [pc EXCEPT ![w] = "open"] /\ job' = [job EXCEPT ![w] = r]
        /\ UNCHANGED <<ckpt, sent, limbo, mem>>
    BY <1>4, <2>1, TakeRows
  <2>3. RowsKept /\ RunIds' = RunIds /\ WorkersStay /\ CarriersStay
    BY <1>1, <2>2 DEF Starts, RowsKept, WorkersStay, Active, CarriersStay, Live
  <2> QED
    BY <2>2, <2>3, KeepsOn
<1>5. CASE Settle(w) \/ SettleAndDie(w)
  <2>1. /\ Ends(w) /\ \A s \in RunIds : s # job[w] => runs'[s] = runs[s]
        /\ \E p \in {"idle", "dead"} : pc' = [pc EXCEPT ![w] = p]
        /\ UNCHANGED <<ckpt, sent, limbo, job, mem>>
    BY <1>5, SettleRows
  <2>2. RowsKept /\ RunIds' = RunIds /\ WorkersStay
    BY <1>1, <2>1 DEF Ends, RowsKept, WorkersStay, Active
  <2>3. CarriersStay
    BY <2>1, EndedHasLanded DEF CarriersStay, Live
  <2> QED
    BY <2>1, <2>2, <2>3, KeepsOn
<1>6. CASE SettleAndNext(w)
  <2>1. PICK r : r = Head(backlog[ThreadOf(w)])
    OBVIOUS
  <2>2. /\ Ends(w) /\ r \in RunIds /\ runs'[r].status = "running" /\ r # job[w]
        /\ \A s \in RunIds : s # job[w] /\ s # r => runs'[s] = runs[s]
        /\ pc' = [pc EXCEPT ![w] = "open"] /\ job' = [job EXCEPT ![w] = r]
        /\ UNCHANGED <<ckpt, sent, limbo, mem>>
    BY <1>6, <2>1, NextRows
  <2>3. RowsKept /\ RunIds' = RunIds /\ WorkersStay
    BY <1>1, <2>2 DEF Ends, RowsKept, WorkersStay, Active
  <2>4. CarriersStay
    BY <2>2, EndedHasLanded DEF CarriersStay, Live
  <2> QED
    BY <2>2, <2>3, <2>4, KeepsOn
<1> QED
  BY <1>2, <1>3, <1>4, <1>5, <1>6 DEF Work

\* What start decides about has landed if the run's own kind is not owed.
LEMMA LimboHasLanded ==
    ASSUME IInv, KeepInv, limbo \in RunIds, IsInput(limbo), runs[limbo].kind \notin Owed(limbo)
    PROVE  HasLanded(runs[limbo].origin, runs[limbo].thread)
<1>1. PICK t \in Threads : t = runs[limbo].thread
  BY RowFields DEF IInv
<1>2. PICK c \in Checkpoint : c = ckpt[t]
  BY DEF IInv, TypeOK
<1>3. CASE runs[limbo].kind = "message"
  <2>1. \E i \in DOMAIN c.inbox : c.inbox[i] = limbo
    BY <1>1, <1>2, <1>3 DEF Owed
  <2> QED
    BY <1>1, <1>2, <2>1 DEF HasLanded, Inbox
<1>4. CASE runs[limbo].kind = "input"
  <2>1. c.values
    BY <1>1, <1>2, <1>4 DEF Owed
  <2>2. c.inbox \in Seq(Nat) /\ c.inbox # <<>>
    BY <1>2, <2>1 DEF KeepInv, CheckpointsSound, Sound, Checkpoint
  <2>3. PICK q \in Seq(Nat) : q = c.inbox
    BY <2>2
  <2>4. 1 \in DOMAIN q
    BY <2>2, <2>3, SeqHeadTail
  <2>5. q[1] \in Inbox(t)
    BY <1>2, <2>3, <2>4 DEF Inbox
  <2>6. q[1] \in RunIds /\ runs[q[1]].thread = t /\ IsInput(q[1])
    BY <2>5 DEF KeepInv, InboxRows, RunsOf
  <2>7. runs[limbo].origin = runs[q[1]].origin
    BY <1>1, <1>4, <2>6 DEF KeepInv, InputsAlone
  <2> QED
    BY <1>1, <2>5, <2>7 DEF HasLanded
<1> QED
  BY <1>3, <1>4 DEF IsInput

LEMMA ReplaceKeep == ASSUME IInv, KeepInv, ReplaceRun PROVE KeepInv' /\ LandedStays /\ RowsKept
<1>1. PICK k, n, row :
         /\ k \in Owed(limbo) /\ Added(n, row) /\ row.thread = runs[limbo].thread /\ row.kind = k
         /\ row.status = "pending" /\ row.origin = runs[limbo].origin
  BY ReplaceRows
<1>2. /\ limbo \in RunIds /\ runs[limbo].status = "cancelled" /\ limbo' = 0
      /\ UNCHANGED <<ckpt, sent, pc, job, mem>>
  BY ReplaceRows
<1>3. /\ n \notin RunIds /\ RunIds' = RunIds \cup {n} /\ runs'[n] = row /\ \A r \in RunIds : runs'[r] = runs[r]
  BY <1>1 DEF Added
<1>4. RowsKept /\ WorkersStay
  BY <1>2, <1>3 DEF RowsKept, SameRun, WorkersStay, Active
<1>5. InboxRows' /\ CheckpointsSound' /\ WorkersSound' /\ LandedStays
  BY <1>2, <1>4, CheckpointsStay
<1>6. k \in {runs[limbo].kind, "continue"}
  BY <1>1 DEF Owed
<1>7. InputsAlone'
  <2> SUFFICES ASSUME NEW r \in RunIds', NEW s \in RunIds', runs'[r].thread = runs'[s].thread,
                      runs'[r].kind = "input", runs'[s].kind \in {"message", "input"}
               PROVE  runs'[r].origin = runs'[s].origin
    BY DEF InputsAlone, IsInput
  <2>1. PICK u \in RunIds : /\ runs[u].thread = runs'[r].thread /\ runs[u].kind = "input"
                            /\ runs[u].origin = runs'[r].origin
    BY <1>1, <1>2, <1>3, <1>6
  <2>2. PICK v \in RunIds : /\ runs[v].thread = runs'[s].thread /\ runs[v].kind \in {"message", "input"}
                            /\ runs[v].origin = runs'[s].origin
    BY <1>1, <1>2, <1>3, <1>6
  <2> QED
    BY <2>1, <2>2 DEF KeepInv, InputsAlone, IsInput
<1>8. CarriersStay
  <2> SUFFICES ASSUME NEW r \in RunIds, Live(r), IsInput(r), ~Live(r)',
                      ~HasLanded(runs[r].origin, runs[r].thread)
               PROVE  \E s \in RunIds' : /\ Live(s)' /\ runs'[s].kind \in {"message", "input"}
                                         /\ runs'[s].thread = runs[r].thread /\ runs'[s].origin = runs[r].origin
    BY DEF CarriersStay
  <2>1. r = limbo
    BY <1>3 DEF Live
  <2>2. runs[limbo].kind \in Owed(limbo)
    BY <1>2, <2>1, LimboHasLanded
  <2>3. k = runs[limbo].kind
    BY <1>1, <2>2 DEF Owed
  <2>4. Live(n)' /\ n \in RunIds' /\ runs'[n].kind \in {"message", "input"}
        /\ runs'[n].thread = runs[r].thread /\ runs'[n].origin = runs[r].origin
    BY <1>1, <1>3, <2>1, <2>3 DEF Live, IsInput
  <2> QED
    BY <2>4
<1>9. Carried'
  BY <1>2, <1>4, <1>5, <1>8, CarriedStays
<1> QED
  BY <1>4, <1>5, <1>7, <1>9 DEF KeepInv

LEMMA BootKeep == ASSUME IInv, KeepInv, Boot PROVE KeepInv' /\ LandedStays /\ RowsKept
<1>1. CASE Restart \/ Ready
  <2>1. UNCHANGED <<runs, ckpt, sent, limbo, pc, job, mem>>
    BY <1>1 DEF Restart, Ready, disk
  <2>2. RowsKept /\ RunIds' = RunIds /\ WorkersStay /\ CarriersStay
    BY <2>1 DEF RowsKept, SameRun, RunIds, WorkersStay, Active, CarriersStay, Live
  <2> QED
    BY <2>1, <2>2, KeepsOn
<1>2. CASE CancelRun
  <2>1. /\ limbo' \in RunIds /\ limbo = 0 /\ TypeOK
        /\ RunIds' = RunIds /\ \A s \in RunIds : SameRun(s) /\ (s # limbo' => runs'[s] = runs[s])
        /\ UNCHANGED <<ckpt, sent, pc, job, mem>>
    BY <1>2, CancelRows DEF WithStatus, IInv
  <2>2. RowsKept /\ WorkersStay
    BY <2>1 DEF RowsKept, WorkersStay, Active
  <2>3. CarriersStay
    BY <2>1, RowFields DEF CarriersStay, Live
  <2> QED
    BY <2>1, <2>2, <2>3, KeepsOn
<1>3. CASE ReplaceRun
  BY <1>3, ReplaceKeep
<1>4. CASE DropRun
  <2>1. UNCHANGED <<runs, ckpt, sent, pc, job, mem>> /\ limbo # 0 /\ Owed(limbo) = {}
    BY <1>4 DEF DropRun, disk
  <2>2. RowsKept /\ RunIds' = RunIds /\ WorkersStay /\ limbo \in RunIds
    BY <2>1 DEF RowsKept, SameRun, RunIds, WorkersStay, Active, IInv, LimboCancelled
  <2>3. CarriersStay
    BY <2>1, <2>2, LimboHasLanded DEF CarriersStay, Live
  <2> QED
    BY <2>1, <2>2, <2>3, KeepsOn
<1> QED
  BY <1>1, <1>2, <1>3, <1>4 DEF Boot

LEMMA CrashKeep == ASSUME IInv, KeepInv, "boot" \notin CrashIn, Crash PROVE KeepInv' /\ LandedStays /\ RowsKept
<1>1. UNCHANGED <<runs, ckpt, sent>> /\ limbo = 0 /\ \A w \in Workers : pc'[w] = "idle"
  BY DEF Crash, Fresh, disk, IInv, LimboCancelled
<1>2. RowsKept /\ RunIds' = RunIds /\ WorkersStay
  BY <1>1 DEF RowsKept, SameRun, RunIds, WorkersStay, Active
<1>3. CarriersStay
  <2>1. \A r \in RunIds : r # limbo
    BY <1>1, RowFields DEF IInv
  <2> QED
    BY <1>1, <2>1 DEF CarriersStay, Live
<1> QED
  BY <1>1, <1>2, <1>3, KeepsOn

LEMMA StepKeep ==
    ASSUME IInv, KeepInv, "boot" \notin CrashIn, [Next]_vars
    PROVE  KeepInv' /\ LandedStays /\ RowsKept
<1>1. CASE UNCHANGED vars
  <2>1. UNCHANGED <<runs, ckpt, sent, limbo, pc, job, mem>>
    BY <1>1 DEF vars, disk, process
  <2>2. RowsKept /\ RunIds' = RunIds /\ WorkersStay /\ CarriersStay
    BY <2>1 DEF RowsKept, SameRun, RunIds, WorkersStay, Active, CarriersStay, Live
  <2> QED
    BY <2>1, <2>2, KeepsOn
<1> QED
  BY <1>1, CallKeep, WorkKeep, BootKeep, CrashKeep DEF Next

LEMMA InitKeep == ASSUME Init PROVE KeepInv
<1>1. RunIds = {} /\ \A t \in Threads : ckpt[t] = NoCheckpoint /\ sent[t] = <<>>
  BY DEF Init, RunIds
<1>2. \A t \in Threads : Inbox(t) = {}
  BY <1>1 DEF Inbox, NoCheckpoint
<1>3. InboxRows /\ InputsAlone /\ Carried
  BY <1>1, <1>2 DEF InboxRows, InputsAlone, Carried
<1>4. CheckpointsSound
  BY <1>1 DEF CheckpointsSound, Sound, NoCheckpoint
<1>5. WorkersSound
  BY DEF WorkersSound, Active, Init
<1> QED
  BY <1>3, <1>4, <1>5 DEF KeepInv

\* What has not landed has a run that carries it, and rows, checkpoints and workers
\* agree on what has, unless a crash cuts start short.
THEOREM KeepHolds == ASSUME "boot" \notin CrashIn PROVE Spec => []KeepInv
<1>1. Init => KeepInv
  BY InitKeep
<1>2. IInv /\ KeepInv /\ [Next]_vars => KeepInv'
  BY StepKeep
<1> QED
  BY <1>1, <1>2, Invariance, PTL DEF Spec

\* No accepted input is ever lost, whatever the threads, the workers, the calls
\* and the crashes, as long as start itself is not cut short between the
\* cancelling of a run and its replacement (RuntimeManager.start, _recover).
THEOREM NothingIsLost == ASSUME "boot" \notin CrashIn PROVE Spec => []NothingLost
<1>1. IInv /\ KeepInv => NothingLost
  <2> SUFFICES ASSUME IInv, KeepInv, NEW t \in Threads, NEW n \in DOMAIN sent[t], NEW o, o = sent[t][n]
               PROVE  \/ \E i \in DOMAIN Landed(t) : Landed(t)[i] = o
                      \/ \E r \in RunIds : Carries(r, o)
                      \/ limbo # 0 /\ runs[limbo].origin = o
    BY DEF NothingLost
  <2>1. CASE HasLanded(o, t)
    <3>1. PICK i \in DOMAIN ckpt[t].inbox : runs[ckpt[t].inbox[i]].origin = o
      BY <2>1 DEF HasLanded, Inbox
    <3> QED
      BY <3>1 DEF Landed
  <2>2. CASE \E r \in RunsOf(t) : Live(r) /\ IsInput(r) /\ runs[r].origin = o
    <3>1. PICK r \in RunIds : Live(r) /\ runs[r].origin = o
      BY <2>2 DEF RunsOf
    <3>2. r # 0
      BY <3>1, RowFields DEF IInv
    <3> QED
      BY <3>1, <3>2 DEF Live, Carries
  <2> QED
    BY <2>1, <2>2 DEF KeepInv, Carried
<1> QED
  BY <1>1, Invariance, KeepHolds, PTL

-----------------------------------------------------------------------------
(***************************************************************************)
(* Runs of a thread go in order.                                           *)
(***************************************************************************)

RowOrder == OriginsOld /\ LiveApart /\ LiveInOrder

\* A step that adds no row: who goes before the others, who is over.
LEMMA RowOrderStays ==
    ASSUME RowOrder, RunIds' = RunIds, \A r \in RunIds : SameRun(r),
           \A r \in RunIds : Live(r)' => Live(r),
           \A r, s \in RunIds : runs[r].thread = runs[s].thread /\ Live(r)' /\ Live(s)' /\ r # s
              /\ runs'[r].status # "pending" => Earlier(r, s),
           \A r, s \in RunIds : runs[r].thread = runs[s].thread /\ Live(r)' /\ Live(s) /\ ~Live(s)' => Earlier(s, r)
    PROVE  RowOrder'
<1>1. OriginsOld'
  BY DEF RowOrder, OriginsOld, SameRun
<1>2. LiveApart'
  BY DEF RowOrder, LiveApart, SameRun
<1>3. LiveInOrder'
  <2> SUFFICES ASSUME NEW r \in RunIds, NEW s \in RunIds, runs'[r].thread = runs'[s].thread, Live(r)'
               PROVE  /\ Live(s)' /\ r # s /\ runs'[r].status # "pending" => runs'[r].origin < runs'[s].origin
                      /\ ~Live(s)' => Before(s, r)'
    BY DEF LiveInOrder
  <2>1. runs[r].thread = runs[s].thread /\ Live(r) /\ SameRun(r) /\ SameRun(s)
    BY DEF SameRun
  <2>2. Live(s)' /\ r # s /\ runs'[r].status # "pending" => runs'[r].origin < runs'[s].origin
    BY <2>1 DEF Earlier, SameRun
  <2>3. ASSUME ~Live(s)' PROVE Before(s, r)'
    <3>1. Live(s) => Earlier(s, r)
      BY <2>1, <2>3
    <3>2. ~Live(s) => Before(s, r)
      BY <2>1 DEF RowOrder, LiveInOrder
    <3> QED
      BY <2>1, <3>1, <3>2 DEF Earlier, Before, SameRun
  <2> QED
    BY <2>2, <2>3
<1> QED
  BY <1>1, <1>2, <1>3 DEF RowOrder

\* Runs that are under way only change what their rows say of it.
LEMMA RowOrderSame ==
    ASSUME RowOrder, RunIds' = RunIds, \A r \in RunIds : SameRun(r),
           \A r \in RunIds : Live(r)' => Live(r),
           \A r \in RunIds : Live(r)' /\ runs'[r].status # "pending" => runs[r].status # "pending",
           \A r \in RunIds : Live(r) /\ ~Live(r)' => runs[r].status # "pending"
    PROVE  RowOrder'
<1>1. \A r, s \in RunIds : runs[r].thread = runs[s].thread /\ Live(r)' /\ Live(s)' /\ r # s
         /\ runs'[r].status # "pending" => Earlier(r, s)
  BY DEF RowOrder, LiveInOrder, Earlier
<1>2. \A r, s \in RunIds : runs[r].thread = runs[s].thread /\ Live(r)' /\ Live(s) /\ ~Live(s)' => Earlier(s, r)
  BY DEF RowOrder, LiveInOrder, Earlier
<1> QED
  BY <1>1, <1>2, RowOrderStays

\* A new row is the last of its thread, or takes the place of the one it replaces.
LEMMA RowOrderAdds ==
    ASSUME IInv, RowOrder, NEW n, NEW row, Added(n, row), row.status = "pending",
           \/ row.origin = n /\ limbo' = limbo
           \/ limbo' = 0 /\ limbo \in RunIds /\ runs[limbo].status = "cancelled"
              /\ row.origin = runs[limbo].origin /\ row.thread = runs[limbo].thread
    PROVE  RowOrder'
<1>1. /\ n \in Nat \ {0} /\ RunIds' = RunIds \cup {n} /\ runs'[n] = row
      /\ \A r \in RunIds : runs'[r] = runs[r] /\ r < n
      /\ n \notin RunIds
  BY DEF Added
<1>2. \A r \in RunIds : r \in Nat \ {0} /\ runs[r].origin \in Nat \ {0} /\ runs[r].origin <= r /\ runs[r].origin < n
  <2> TAKE r \in RunIds
  <2>1. r \in Nat \ {0} /\ runs[r].origin \in Nat \ {0} /\ runs[r].origin <= r /\ r < n
    BY <1>1, RowFields DEF IInv, RowOrder, OriginsOld
  <2> QED
    BY <1>1, <2>1
<1>3. \A r \in RunIds : Live(r)' => Live(r)
  BY <1>1, <1>2 DEF Live
<1>4. OriginsOld'
  BY <1>1, <1>2 DEF OriginsOld
<1>5. CASE row.origin = n /\ limbo' = limbo
  <2>1. \A r \in RunIds : Live(r)' <=> Live(r)
    BY <1>1, <1>5 DEF Live
  <2>2. LiveApart'
    <3> SUFFICES ASSUME NEW r \in RunIds', NEW s \in RunIds', Live(r)', Live(s)', runs'[r].origin = runs'[s].origin
                 PROVE  r = s
      BY DEF LiveApart
    <3>1. CASE r \in RunIds /\ s \in RunIds
      BY <1>1, <2>1, <3>1 DEF RowOrder, LiveApart
    <3>2. CASE r = n /\ s \in RunIds
      BY <1>1, <1>2, <1>5, <3>2
    <3>3. CASE s = n /\ r \in RunIds
      BY <1>1, <1>2, <1>5, <3>3
    <3> QED
      BY <1>1, <3>1, <3>2, <3>3
  <2>3. LiveInOrder'
    <3> SUFFICES ASSUME NEW r \in RunIds', NEW s \in RunIds', runs'[r].thread = runs'[s].thread, Live(r)'
                 PROVE  /\ Live(s)' /\ r # s /\ runs'[r].status # "pending" => runs'[r].origin < runs'[s].origin
                        /\ ~Live(s)' => Before(s, r)'
      BY DEF LiveInOrder
    <3>1. CASE r \in RunIds /\ s \in RunIds
      BY <1>1, <2>1, <3>1 DEF RowOrder, LiveInOrder, Before
    <3>2. CASE r = n /\ s \in RunIds
      BY <1>1, <1>2, <1>5, <3>2 DEF Before
    <3>3. CASE s = n /\ r \in RunIds
      BY <1>1, <1>2, <1>5, <3>3 DEF Live
    <3>4. CASE r = n /\ s = n
      BY <1>1, <3>4 DEF Live
    <3> QED
      BY <1>1, <3>1, <3>2, <3>3, <3>4
  <2> QED
    BY <1>4, <2>2, <2>3 DEF RowOrder
<1>6. CASE limbo' = 0 /\ limbo \in RunIds /\ runs[limbo].status = "cancelled"
           /\ row.origin = runs[limbo].origin /\ row.thread = runs[limbo].thread
  <2>1. /\ \A r \in RunIds : Live(r)' <=> Live(r) /\ r # limbo
        /\ Live(limbo) /\ runs[limbo].status # "pending"
    BY <1>1, <1>2, <1>6 DEF Live
  <2>2. LiveApart'
    <3> SUFFICES ASSUME NEW r \in RunIds', NEW s \in RunIds', Live(r)', Live(s)', runs'[r].origin = runs'[s].origin
                 PROVE  r = s
      BY DEF LiveApart
    <3>1. CASE r \in RunIds /\ s \in RunIds
      BY <1>1, <2>1, <3>1 DEF RowOrder, LiveApart
    <3>2. CASE r = n /\ s \in RunIds
      BY <1>1, <1>6, <2>1, <3>2 DEF RowOrder, LiveApart
    <3>3. CASE s = n /\ r \in RunIds
      BY <1>1, <1>6, <2>1, <3>3 DEF RowOrder, LiveApart
    <3> QED
      BY <1>1, <3>1, <3>2, <3>3
  <2>3. LiveInOrder'
    <3> SUFFICES ASSUME NEW r \in RunIds', NEW s \in RunIds', runs'[r].thread = runs'[s].thread, Live(r)'
                 PROVE  /\ Live(s)' /\ r # s /\ runs'[r].status # "pending" => runs'[r].origin < runs'[s].origin
                        /\ ~Live(s)' => Before(s, r)'
      BY DEF LiveInOrder
    <3>1. CASE r \in RunIds /\ s \in RunIds /\ s # limbo
      BY <1>1, <2>1, <3>1 DEF RowOrder, LiveInOrder, Before
    <3>2. CASE r \in RunIds /\ s = limbo
      <4>1. Live(r) /\ r # limbo /\ runs[r].thread = runs[limbo].thread
        BY <1>1, <1>6, <2>1, <3>2
      <4>2. runs[limbo].origin < runs[r].origin
        BY <1>6, <2>1, <3>2, <4>1 DEF RowOrder, LiveInOrder
      <4> QED
        BY <1>1, <1>6, <2>1, <3>2, <4>1, <4>2 DEF Before
    <3>3. CASE r = n /\ s \in RunIds
      <4>1. runs'[r].status = "pending" /\ runs[s].thread = runs[limbo].thread
        BY <1>1, <1>6, <3>3
      <4>2. ASSUME ~Live(s)' PROVE Before(s, n)'
        <5>1. CASE s = limbo
          BY <1>1, <1>6, <5>1 DEF Before
        <5>2. CASE s # limbo
          <6>1. Before(s, limbo)
            BY <1>6, <2>1, <3>3, <4>1, <4>2, <5>2 DEF RowOrder, LiveInOrder
          <6> QED
            BY <1>1, <1>2, <1>6, <3>3, <6>1 DEF Before
        <5> QED
          BY <5>1, <5>2
      <4> QED
        BY <3>3, <4>1, <4>2
    <3>4. CASE s = n /\ r \in RunIds
      <4>1. Live(r) /\ r # limbo /\ runs[r].thread = runs[limbo].thread /\ runs'[r] = runs[r]
        BY <1>1, <1>6, <2>1, <3>4
      <4>2. runs[r].status # "pending" => runs[r].origin < runs[limbo].origin
        BY <1>6, <2>1, <3>4, <4>1 DEF RowOrder, LiveInOrder
      <4> QED
        BY <1>1, <1>6, <3>4, <4>1, <4>2 DEF Live
    <3>5. CASE r = n /\ s = n
      BY <1>1, <3>5 DEF Live
    <3> QED
      BY <1>1, <3>1, <3>2, <3>3, <3>4, <3>5
  <2> QED
    BY <1>4, <2>2, <2>3 DEF RowOrder
<1> QED
  BY <1>5, <1>6

LEMMA TailRest ==
    ASSUME NEW q \in Seq(Nat), q # <<>>
    PROVE  /\ 1 \in DOMAIN q /\ Head(q) = q[1]
           /\ \A k \in DOMAIN q : k = 1 \/ (1 < k /\ \E i \in DOMAIN Tail(q) : Tail(q)[i] = q[k])
           /\ \A i \in DOMAIN Tail(q) : \E k \in DOMAIN q : 1 < k /\ Tail(q)[i] = q[k]
           /\ \A i, j \in DOMAIN Tail(q) : i < j =>
                 \E k, l \in DOMAIN q : k < l /\ Tail(q)[i] = q[k] /\ Tail(q)[j] = q[l]
<1>1. PICK rest : rest = Tail(q)
  OBVIOUS
<1>2. PICK n \in Nat : n = Len(q) /\ n # 0 /\ DOMAIN q = 1 .. n /\ Head(q) = q[1]
  BY EmptySeq, SeqDomain, SeqHeadTail
<1>3. rest \in Seq(Nat) /\ Len(rest) = n - 1
      /\ \A i \in DOMAIN rest : i \in Nat /\ i # 0 /\ i + 1 \in DOMAIN q /\ rest[i] = q[i + 1]
  BY <1>1, <1>2, HeadTailProperties, SeqHeadTail
<1>4. DOMAIN rest = 1 .. n - 1
  BY <1>3, SeqDomain
<1>5. \A k \in DOMAIN q : k = 1 \/ (1 < k /\ \E i \in DOMAIN rest : rest[i] = q[k])
  <2> SUFFICES ASSUME NEW k \in 1 .. n, k # 1 PROVE 1 < k /\ \E i \in DOMAIN rest : rest[i] = q[k]
    BY <1>2
  <2>1. PICK i \in Nat : i = k - 1
    OBVIOUS
  <2>2. i \in DOMAIN rest /\ k = i + 1 /\ 1 < k
    BY <1>4, <2>1
  <2> QED
    BY <1>3, <2>2
<1>6. \A i \in DOMAIN rest : \E k \in DOMAIN q : 1 < k /\ rest[i] = q[k]
  <2> TAKE i \in DOMAIN rest
  <2>1. 1 < i + 1 /\ i + 1 \in DOMAIN q /\ rest[i] = q[i + 1]
    BY <1>3
  <2> QED
    BY <2>1
<1>7. \A i, j \in DOMAIN rest : i < j => \E k, l \in DOMAIN q : k < l /\ rest[i] = q[k] /\ rest[j] = q[l]
  <2> TAKE i, j \in DOMAIN rest
  <2> HAVE i < j
  <2>1. i + 1 < j + 1 /\ i + 1 \in DOMAIN q /\ rest[i] = q[i + 1] /\ j + 1 \in DOMAIN q /\ rest[j] = q[j + 1]
    BY <1>3
  <2> QED
    BY <2>1
<1>8. 1 \in DOMAIN q
  BY <1>2
<1> QED
  BY <1>1, <1>2, <1>5, <1>6, <1>7, <1>8

LEMMA AppendLast ==
    ASSUME NEW q \in Seq(Nat), NEW x \in Nat, NEW longer, longer = Append(q, x)
    PROVE  /\ \A i \in DOMAIN longer : (i \in DOMAIN q /\ longer[i] = q[i]) \/ longer[i] = x
           /\ \A i \in DOMAIN q : i \in DOMAIN longer /\ longer[i] = q[i]
           /\ \E i \in DOMAIN longer : longer[i] = x
           /\ \A i, j \in DOMAIN longer : i < j =>
                 i \in DOMAIN q /\ longer[i] = q[i] /\ ((j \in DOMAIN q /\ longer[j] = q[j]) \/ longer[j] = x)
<1>1. PICK n \in Nat : n = Len(q) /\ DOMAIN q = 1 .. n
  BY SeqDomain
<1>2. /\ DOMAIN longer = DOMAIN q \cup {n + 1} /\ \A j \in DOMAIN q : longer[j] = q[j]
      /\ longer[n + 1] = x
  BY <1>1, SeqAppend
<1>3. \A i, j \in DOMAIN longer : i < j => i \in DOMAIN q
  BY <1>1, <1>2
<1> QED
  BY <1>2, <1>3

\* What is in p is in q, in the same order.
WithinOrder(p, q) ==
    /\ \A i \in DOMAIN p : \E k \in DOMAIN q : p[i] = q[k]
    /\ \A i, j \in DOMAIN p : i < j => \E k, l \in DOMAIN q : k < l /\ p[i] = q[k] /\ p[j] = q[l]

LEMMA TailWithin ==
    ASSUME NEW q \in Seq(Nat), NEW p, p = q \/ (q # <<>> /\ p = Tail(q))
    PROVE  WithinOrder(p, q)
<1>1. CASE p = q
  BY <1>1 DEF WithinOrder
<1>2. CASE q # <<>> /\ p = Tail(q)
  <2>1. /\ \A i \in DOMAIN Tail(q) : \E k \in DOMAIN q : 1 < k /\ Tail(q)[i] = q[k]
        /\ \A i, j \in DOMAIN Tail(q) : i < j =>
              \E k, l \in DOMAIN q : k < l /\ Tail(q)[i] = q[k] /\ Tail(q)[j] = q[l]
    BY <1>2, TailRest
  <2>2. WithinOrder(Tail(q), q)
    BY <2>1, Zenon DEF WithinOrder
  <2> QED
    BY <1>2, <2>2
<1> QED
  BY <1>1, <1>2

EarlierThen(r, s) == runs'[r].origin < runs'[s].origin

\* Runs leave the queues from their heads.
LEMMA QueuesStay ==
    ASSUME IInv, QueuesInOrder, RowsKept,
           queue' = queue \/ (queue # <<>> /\ queue' = Tail(queue)),
           \/ backlog' = backlog
           \/ \E t \in Threads : backlog[t] # <<>> /\ backlog' = [backlog EXCEPT ![t] = Tail(backlog[t])]
    PROVE  QueuesInOrder'
<1>1. queue \in Seq(Nat) /\ backlog \in [Threads -> Seq(Nat)]
  BY DEF IInv, TypeOK
<1>2. WithinOrder(queue', queue)
  BY <1>1, TailWithin
<1>3. ASSUME NEW t \in Threads
      PROVE  WithinOrder(backlog'[t], backlog[t])
  <2>1. PICK q \in Seq(Nat) : q = backlog[t]
    BY <1>1
  <2>2. backlog'[t] = q \/ (q # <<>> /\ backlog'[t] = Tail(q))
    BY <1>1, <2>1
  <2> QED
    BY <2>1, <2>2, TailWithin
<1>4. /\ \A i \in DOMAIN queue : SameRun(queue[i])
      /\ \A t \in Threads : \A i \in DOMAIN backlog[t] : SameRun(backlog[t][i])
  BY DEF IInv, QueuesHoldRows, RowsKept
<1>5. ASSUME NEW i \in DOMAIN queue', NEW j \in DOMAIN queue', i < j,
             runs'[queue'[i]].thread = runs'[queue'[j]].thread
      PROVE  EarlierThen(queue'[i], queue'[j])
  <2>1. PICK k \in DOMAIN queue, l \in DOMAIN queue : k < l /\ queue'[i] = queue[k] /\ queue'[j] = queue[l]
    BY <1>2, <1>5 DEF WithinOrder
  <2>2. runs[queue[k]].thread = runs[queue[l]].thread /\ SameRun(queue[k]) /\ SameRun(queue[l])
    BY <1>4, <1>5, <2>1 DEF SameRun
  <2> QED
    BY <2>1, <2>2 DEF QueuesInOrder, Earlier, EarlierThen, SameRun
<1>6. ASSUME NEW t \in Threads, NEW i \in DOMAIN backlog'[t], NEW j \in DOMAIN backlog'[t], i < j
      PROVE  EarlierThen(backlog'[t][i], backlog'[t][j])
  <2>1. PICK k \in DOMAIN backlog[t], l \in DOMAIN backlog[t] :
           k < l /\ backlog'[t][i] = backlog[t][k] /\ backlog'[t][j] = backlog[t][l]
    BY <1>3, <1>6 DEF WithinOrder
  <2> QED
    BY <1>4, <2>1 DEF QueuesInOrder, Earlier, EarlierThen, SameRun
<1>7. ASSUME NEW t \in Threads, NEW i \in DOMAIN backlog'[t], NEW j \in DOMAIN queue',
             runs'[queue'[j]].thread = t
      PROVE  EarlierThen(backlog'[t][i], queue'[j])
  <2>1. PICK k \in DOMAIN backlog[t], l \in DOMAIN queue : backlog'[t][i] = backlog[t][k] /\ queue'[j] = queue[l]
    BY <1>2, <1>3 DEF WithinOrder
  <2>2. runs[queue[l]].thread = t /\ SameRun(queue[l]) /\ SameRun(backlog[t][k])
    BY <1>4, <1>7, <2>1 DEF SameRun
  <2> QED
    BY <2>1, <2>2 DEF QueuesInOrder, Earlier, EarlierThen, SameRun
<1> QED
  BY <1>5, <1>6, <1>7 DEF QueuesInOrder, Earlier, EarlierThen

OneWaits(r) ==
    \/ \E i \in DOMAIN queue : queue[i] = r
    \/ runs[r].thread \in busy /\ \E i \in DOMAIN backlog[runs[r].thread] : backlog[runs[r].thread][i] = r

LEMMA OrderParts ==
    /\ OrderInv <=> RowOrder /\ QueuesInOrder /\ NoneStranded
    /\ OrderInv' <=> RowOrder' /\ QueuesInOrder' /\ NoneStranded'
BY DEF OrderInv, RowOrder

LEMMA CallOrder == ASSUME IInv, OrderInv, NEW t \in Threads, Call(t) PROVE OrderInv'
<1>1. PICK n, row : CallAdds(t, n, row)
  BY CallRows
<1>2. UNCHANGED <<ckpt, phase, limbo, busy, backlog, pc, job, mem>> /\ TypeOK
  BY CallRows DEF IInv
<1>3. /\ Added(n, row) /\ n \in Nat \ {0} /\ n \notin RunIds /\ RunIds' = RunIds \cup {n} /\ runs'[n] = row
      /\ row.origin = n /\ row.thread = t /\ row.status = "pending"
      /\ \A r \in RunIds : runs'[r] = runs[r] /\ r < n
      /\ queue' = Append(queue, n)
  BY <1>1 DEF CallAdds, Added
<1>4. RowOrder'
  BY <1>2, <1>3, OrderParts, RowOrderAdds
<1>5. \A r \in RunIds : EarlierThen(r, n)
  <2> TAKE r \in RunIds
  <2>1. runs[r].origin \in Nat /\ r \in Nat /\ runs[r].origin <= r /\ r < n
    BY <1>2, <1>3, RowFields DEF OrderInv, OriginsOld
  <2>2. runs[r].origin < n
    BY <1>3, <2>1
  <2> QED
    BY <1>3, <2>2 DEF Earlier, EarlierThen
<1>6. PICK longer : longer = queue' /\ longer = Append(queue, n) /\ queue \in Seq(Nat)
  BY <1>2, <1>3 DEF TypeOK
<1>7. /\ \A i \in DOMAIN longer : (i \in DOMAIN queue /\ longer[i] = queue[i]) \/ longer[i] = n
      /\ \A i \in DOMAIN queue : i \in DOMAIN longer /\ longer[i] = queue[i]
      /\ \E i \in DOMAIN longer : longer[i] = n
      /\ \A i, j \in DOMAIN longer : i < j =>
            i \in DOMAIN queue /\ longer[i] = queue[i]
               /\ ((j \in DOMAIN queue /\ longer[j] = queue[j]) \/ longer[j] = n)
  BY <1>3, <1>6, AppendLast
<1>8. /\ \A i \in DOMAIN queue : queue[i] \in RunIds
      /\ \A s \in Threads : \A i \in DOMAIN backlog[s] : backlog[s][i] \in RunIds
  BY DEF IInv, QueuesHoldRows
<1>9. \A r, s \in RunIds : runs[r].origin < runs[s].origin => EarlierThen(r, s)
  BY <1>3 DEF Earlier, EarlierThen
<1>10. QueuesInOrder'
  <2>1. ASSUME NEW i \in DOMAIN longer, NEW j \in DOMAIN longer, i < j,
               runs'[longer[i]].thread = runs'[longer[j]].thread
        PROVE  EarlierThen(longer[i], longer[j])
    <3>1. i \in DOMAIN queue /\ longer[i] = queue[i] /\ ((j \in DOMAIN queue /\ longer[j] = queue[j]) \/ longer[j] = n)
      BY <1>7, <2>1
    <3>2. CASE longer[j] = n
      BY <1>5, <1>8, <3>1, <3>2 DEF Earlier, EarlierThen
    <3>3. CASE j \in DOMAIN queue /\ longer[j] = queue[j]
      <4>1. runs[queue[i]].origin < runs[queue[j]].origin
        BY <1>3, <1>8, <2>1, <3>1, <3>3 DEF OrderInv, QueuesInOrder, Earlier, EarlierThen
      <4> QED
        BY <1>3, <1>8, <3>1, <3>3, <4>1 DEF Earlier, EarlierThen
    <3> QED
      BY <3>1, <3>2, <3>3
  <2>2. ASSUME NEW s \in Threads, NEW i \in DOMAIN backlog[s], NEW j \in DOMAIN backlog[s], i < j
        PROVE  EarlierThen(backlog[s][i], backlog[s][j])
    <3>1. runs[backlog[s][i]].origin < runs[backlog[s][j]].origin
      BY <2>2 DEF OrderInv, QueuesInOrder, Earlier, EarlierThen
    <3> QED
      BY <1>2, <1>3, <1>8, <3>1 DEF Earlier, EarlierThen
  <2>3. ASSUME NEW s \in Threads, NEW i \in DOMAIN backlog[s], NEW j \in DOMAIN longer,
               runs'[longer[j]].thread = s
        PROVE  EarlierThen(backlog[s][i], longer[j])
    <3>1. CASE longer[j] = n
      BY <1>2, <1>3, <1>5, <1>8, <3>1 DEF Earlier, EarlierThen
    <3>2. CASE j \in DOMAIN queue /\ longer[j] = queue[j]
      <4>1. runs[backlog[s][i]].origin < runs[queue[j]].origin
        BY <1>3, <1>8, <2>3, <3>2 DEF OrderInv, QueuesInOrder, Earlier, EarlierThen
      <4> QED
        BY <1>2, <1>3, <1>8, <3>2, <4>1 DEF Earlier, EarlierThen
    <3> QED
      BY <1>7, <3>1, <3>2
  <2> QED
    BY <1>2, <1>6, <2>1, <2>2, <2>3 DEF QueuesInOrder, Earlier, EarlierThen
<1>11. NoneStranded'
  <2> SUFFICES ASSUME phase' = "up", NEW r \in RunIds', runs'[r].status = "pending"
               PROVE  OneWaits(r)'
    BY DEF NoneStranded, OneWaits, WithStatus
  <2>1. CASE r = n
    BY <1>6, <1>7, <2>1 DEF OneWaits
  <2>2. CASE r \in RunIds
    <3>1. OneWaits(r)
      BY <1>2, <1>3, <2>2 DEF OrderInv, NoneStranded, WithStatus, OneWaits
    <3> QED
      BY <1>2, <1>3, <1>6, <1>7, <2>2, <3>1 DEF OneWaits
  <2> QED
    BY <1>3, <2>1, <2>2
<1> QED
  BY <1>4, <1>10, <1>11, OrderParts

LEMMA NothingFails == ASSUME RepoThreads = {}, NEW w \in Workers PROVE ~TakeDies(w) /\ ~SettleAndDie(w)
BY DEF TakeDies, SettleAndDie, CanFail

\* Rows, and what start decides about, stay as they are.
LEMMA RowOrderUnchanged == ASSUME RowOrder, UNCHANGED <<runs, limbo>> PROVE RowOrder' /\ RowsKept
<1>1. RunIds' = RunIds /\ \A r \in RunIds : SameRun(r) /\ (Live(r)' <=> Live(r))
  BY DEF RunIds, SameRun, Live
<1> QED
  BY <1>1, RowOrderSame DEF RowsKept

LEMMA DeferOrder == ASSUME IInv, OrderInv, NEW w \in Workers, Defer(w) PROVE OrderInv'
<1>1. PICK r : r = Head(queue)
  OBVIOUS
<1>2. PICK t : t = runs[r].thread
  OBVIOUS
<1>3. /\ queue # <<>> /\ queue' = Tail(queue) /\ t \in busy
      /\ backlog' = [backlog EXCEPT ![t] = Append(backlog[t], r)]
      /\ UNCHANGED <<runs, phase, limbo, busy>> /\ phase = "up"
  BY <1>1, <1>2 DEF Defer, Idle, disk
<1>4. /\ queue \in Seq(Nat) /\ backlog \in [Threads -> Seq(Nat)] /\ t \in Threads
      /\ r \in RunIds /\ r \in Nat
  <2>1. r \in RunIds /\ TypeOK
    BY <1>1, <1>3, QueueHead DEF IInv
  <2> QED
    BY <1>2, <2>1, RowFields DEF TypeOK
<1>5. RowOrder' /\ RunIds' = RunIds
  BY <1>3, OrderParts, RowOrderUnchanged DEF RunIds
<1>6. /\ 1 \in DOMAIN queue /\ r = queue[1]
      /\ \A k \in DOMAIN queue : k = 1 \/ (1 < k /\ \E i \in DOMAIN queue' : queue'[i] = queue[k])
      /\ \A i \in DOMAIN queue' : \E k \in DOMAIN queue : 1 < k /\ queue'[i] = queue[k]
  BY <1>1, <1>3, <1>4, TailRest
<1>7. WithinOrder(queue', queue)
  BY <1>3, <1>4, TailWithin
<1>8. PICK b \in Seq(Nat), longer \in {backlog'[t]} : b = backlog[t] /\ longer = Append(b, r)
  BY <1>3, <1>4
<1>9. /\ \A i \in DOMAIN longer : (i \in DOMAIN b /\ longer[i] = b[i]) \/ longer[i] = r
      /\ \A i \in DOMAIN b : i \in DOMAIN longer /\ longer[i] = b[i]
      /\ \E i \in DOMAIN longer : longer[i] = r
      /\ \A i, j \in DOMAIN longer : i < j =>
            i \in DOMAIN b /\ longer[i] = b[i] /\ ((j \in DOMAIN b /\ longer[j] = b[j]) \/ longer[j] = r)
  <2>1. r \in Nat /\ b \in Seq(Nat) /\ longer = Append(b, r)
    BY <1>4, <1>8
  <2> QED
    BY <2>1, AppendLast
<1>10. \A s \in Threads : s # t => backlog'[s] = backlog[s]
  BY <1>3, <1>4
<1>11. QueuesInOrder
  BY DEF OrderInv
<1>12. \A i \in DOMAIN b : Earlier(b[i], r)
  BY <1>2, <1>4, <1>6, <1>8, <1>11 DEF QueuesInOrder
<1>13. ASSUME NEW i \in DOMAIN queue', NEW j \in DOMAIN queue', i < j,
              runs[queue'[i]].thread = runs[queue'[j]].thread
       PROVE  Earlier(queue'[i], queue'[j])
  BY <1>7, <1>11, <1>13 DEF WithinOrder, QueuesInOrder
<1>14. ASSUME NEW s \in Threads, NEW i \in DOMAIN backlog'[s], NEW j \in DOMAIN backlog'[s], i < j
       PROVE  Earlier(backlog'[s][i], backlog'[s][j])
  <2>1. CASE s # t
    BY <1>10, <1>11, <1>14, <2>1 DEF QueuesInOrder
  <2>2. CASE s = t
    <3>1. /\ i \in DOMAIN b /\ longer[i] = b[i]
          /\ (j \in DOMAIN b /\ longer[j] = b[j]) \/ longer[j] = r
      BY <1>8, <1>9, <1>14, <2>2
    <3> QED
      BY <1>4, <1>8, <1>11, <1>12, <1>14, <2>2, <3>1 DEF QueuesInOrder
  <2> QED
    BY <2>1, <2>2
<1>15. ASSUME NEW s \in Threads, NEW i \in DOMAIN backlog'[s], NEW j \in DOMAIN queue',
              runs[queue'[j]].thread = s
       PROVE  Earlier(backlog'[s][i], queue'[j])
  <2>1. PICK l \in DOMAIN queue : 1 < l /\ queue'[j] = queue[l]
    BY <1>6
  <2>2. CASE s # t
    BY <1>10, <1>11, <1>15, <2>1, <2>2 DEF QueuesInOrder
  <2>3. CASE s = t
    <3>1. (i \in DOMAIN b /\ longer[i] = b[i]) \/ longer[i] = r
      BY <1>8, <1>9, <2>3
    <3>2. Earlier(r, queue[l])
      BY <1>2, <1>6, <1>11, <1>15, <2>1, <2>3 DEF QueuesInOrder
    <3> QED
      BY <1>4, <1>8, <1>11, <1>15, <2>1, <2>3, <3>1, <3>2 DEF QueuesInOrder
  <2> QED
    BY <2>2, <2>3
<1>16. QueuesInOrder'
  BY <1>3, <1>13, <1>14, <1>15 DEF QueuesInOrder, Earlier
<1>17. NoneStranded'
  <2> SUFFICES ASSUME NEW s \in RunIds, runs[s].status = "pending" PROVE OneWaits(s)'
    BY <1>3, <1>5 DEF NoneStranded, OneWaits, WithStatus
  <2>1. OneWaits(s)
    BY <1>3 DEF OrderInv, NoneStranded, WithStatus, OneWaits
  <2>2. CASE s = r
    <3>1. \E i \in DOMAIN backlog'[t] : backlog'[t][i] = s
      BY <1>8, <1>9, <2>2
    <3> QED
      BY <1>2, <1>3, <2>2, <3>1 DEF OneWaits
  <2>3. CASE s # r /\ \E k \in DOMAIN queue : queue[k] = s
    BY <1>6, <2>3 DEF OneWaits
  <2>4. CASE runs[s].thread \in busy /\ \E i \in DOMAIN backlog[runs[s].thread] : backlog[runs[s].thread][i] = s
    <3>1. PICK u \in Threads : u = runs[s].thread
      BY RowFields DEF IInv
    <3>2. PICK i \in DOMAIN backlog[u] : backlog[u][i] = s
      BY <2>4, <3>1
    <3>3. CASE u # t
      BY <1>3, <1>10, <2>4, <3>1, <3>2, <3>3 DEF OneWaits
    <3>4. CASE u = t
      <4>1. i \in DOMAIN longer /\ longer[i] = s
        BY <1>8, <1>9, <3>2, <3>4
      <4>2. \E k \in DOMAIN backlog'[u] : backlog'[u][k] = s
        BY <1>8, <3>4, <4>1
      <4> QED
        BY <1>3, <2>4, <3>1, <4>2 DEF OneWaits
    <3> QED
      BY <3>3, <3>4
  <2> QED
    BY <2>1, <2>2, <2>3, <2>4 DEF OneWaits
<1> QED
  BY <1>5, <1>16, <1>17, OrderParts

LEMMA TakeOrder == ASSUME IInv, OrderInv, NEW w \in Workers, Take(w) PROVE OrderInv'
<1>1. PICK r : r = Head(queue)
  OBVIOUS
<1>2. PICK t : t = runs[r].thread
  OBVIOUS
<1>3. /\ phase = "up" /\ queue # <<>> /\ queue' = Tail(queue) /\ Starts(r) /\ t \notin busy
      /\ busy' = busy \cup {t} /\ UNCHANGED <<phase, limbo, backlog>>
  BY <1>1, <1>2, TakeRows
<1>4. /\ r \in RunIds /\ runs[r].status = "pending" /\ runs'[r].status = "running" /\ RunIds' = RunIds
      /\ \A s \in RunIds : SameRun(s) /\ (s # r => runs'[s] = runs[s])
  BY <1>3 DEF Starts
<1>5. RowOrder /\ QueuesInOrder /\ NoneStranded /\ RowsKept /\ queue \in Seq(Nat)
  BY <1>4, OrderParts DEF RowsKept, IInv, TypeOK
<1>6. /\ 1 \in DOMAIN queue /\ r = queue[1]
      /\ \A k \in DOMAIN queue : k = 1 \/ (1 < k /\ \E i \in DOMAIN queue' : queue'[i] = queue[k])
  BY <1>1, <1>3, <1>5, TailRest
<1>7. \A s \in RunIds : Live(s) => runs[s].status \in {"pending", "running"}
  BY <1>3, RowFields DEF Live, IInv, LimboCancelled
<1>8. ASSUME NEW s \in RunIds, runs[s].thread = t, Live(s), s # r
      PROVE  Earlier(r, s)
  <2>1. runs[s].status # "running"
    <3>1. SUFFICES ASSUME runs[s].status = "running" PROVE FALSE
      OBVIOUS
    <3>2. PICK v \in Workers : Active(v) /\ job[v] = s
      BY <1>3, <3>1 DEF IInv, RowsHeld, WithStatus
    <3> QED
      BY <1>3, <1>8, <3>2 DEF IInv, JobsRun, ThreadOf
  <2>2. OneWaits(s)
    BY <1>3, <1>5, <1>7, <1>8, <2>1 DEF NoneStranded, WithStatus, OneWaits
  <2>3. PICK k \in DOMAIN queue : queue[k] = s
    BY <1>3, <1>8, <2>2 DEF OneWaits
  <2>4. 1 < k
    BY <1>6, <1>8, <2>3
  <2> QED
    BY <1>2, <1>5, <1>6, <1>8, <2>3, <2>4 DEF QueuesInOrder
<1>9. RowOrder'
  <2>1. \A s \in RunIds : Live(s)' <=> Live(s)
    BY <1>3, <1>4 DEF Live
  <2>2. \A u, s \in RunIds : runs[u].thread = runs[s].thread /\ Live(u)' /\ Live(s)' /\ u # s
           /\ runs'[u].status # "pending" => Earlier(u, s)
    BY <1>2, <1>4, <1>5, <1>8, <2>1 DEF RowOrder, LiveInOrder, Earlier
  <2> QED
    BY <1>4, <1>5, <2>1, <2>2, RowOrderStays
<1>10. QueuesInOrder'
  BY <1>3, <1>5, QueuesStay
<1>11. NoneStranded'
  <2> SUFFICES ASSUME NEW s \in RunIds, runs'[s].status = "pending" PROVE OneWaits(s)'
    BY <1>4 DEF NoneStranded, OneWaits, WithStatus
  <2>1. s # r /\ runs'[s] = runs[s]
    BY <1>4
  <2>2. OneWaits(s)
    BY <1>3, <1>5, <2>1 DEF NoneStranded, WithStatus, OneWaits
  <2> QED
    BY <1>3, <1>6, <2>1, <2>2 DEF OneWaits
<1> QED
  BY <1>9, <1>10, <1>11, OrderParts

LEMMA SettleOrder == ASSUME IInv, OrderInv, NEW w \in Workers, Settle(w) PROVE OrderInv'
<1>1. PICK t \in Threads : t = ThreadOf(w)
  BY SettleRows
<1>2. /\ Ends(w) /\ \A s \in RunIds : s # job[w] => runs'[s] = runs[s]
      /\ phase = "up" /\ busy' = busy \ {t} /\ backlog[t] = <<>>
      /\ UNCHANGED <<phase, limbo, queue, backlog>>
  BY <1>1, SettleRows DEF Settle
<1>3. /\ job[w] \in RunIds /\ runs[job[w]].status = "running" /\ RunIds' = RunIds
      /\ \A s \in RunIds : SameRun(s)
      /\ runs'[job[w]].status \in Outcomes
  BY <1>2 DEF Ends
<1>4. RowOrder /\ QueuesInOrder /\ NoneStranded /\ RowsKept
  BY <1>3, OrderParts DEF RowsKept
<1>5. RowOrder'
  BY <1>2, <1>3, <1>4, RowOrderSame DEF Live, Outcomes
<1>6. QueuesInOrder'
  BY <1>2, <1>4, QueuesStay
<1>7. NoneStranded'
  <2> SUFFICES ASSUME NEW s \in RunIds, runs'[s].status = "pending" PROVE OneWaits(s)'
    BY <1>3 DEF NoneStranded, OneWaits, WithStatus
  <2>1. s # job[w] /\ runs'[s] = runs[s]
    BY <1>2, <1>3 DEF Outcomes
  <2>2. OneWaits(s)
    BY <1>2, <1>4, <2>1 DEF NoneStranded, WithStatus, OneWaits
  <2> QED
    BY <1>2, <2>1, <2>2 DEF OneWaits
<1> QED
  BY <1>5, <1>6, <1>7, OrderParts

LEMMA NextOrder == ASSUME IInv, OrderInv, NEW w \in Workers, SettleAndNext(w) PROVE OrderInv'
<1>1. PICK t \in Threads : t = ThreadOf(w)
  BY NextRows
<1>2. PICK r : r = Head(backlog[t])
  OBVIOUS
<1>3. /\ Ends(w) /\ r \in RunIds /\ runs[r].status = "pending" /\ runs[r].thread = t
      /\ runs'[r].status = "running" /\ r # job[w]
      /\ \A s \in RunIds : s # job[w] /\ s # r => runs'[s] = runs[s]
      /\ backlog[t] # <<>> /\ backlog' = [backlog EXCEPT ![t] = Tail(backlog[t])]
      /\ phase = "up" /\ UNCHANGED <<phase, limbo, queue, busy>>
  BY <1>1, <1>2, NextRows
<1>4. /\ job[w] \in RunIds /\ runs[job[w]].status = "running" /\ RunIds' = RunIds
      /\ runs[job[w]].thread = t
      /\ \A s \in RunIds : SameRun(s)
      /\ runs'[job[w]].status \in Outcomes
  BY <1>1, <1>3 DEF Ends, ThreadOf
<1>5. RowOrder /\ QueuesInOrder /\ NoneStranded /\ RowsKept
  BY <1>4, OrderParts DEF RowsKept
<1>6. PICK b \in Seq(Nat), rest \in {backlog'[t]} : b = backlog[t] /\ b # <<>> /\ rest = Tail(b)
  BY <1>3 DEF IInv, TypeOK
<1>7. /\ 1 \in DOMAIN b /\ r = b[1]
      /\ \A k \in DOMAIN b : k = 1 \/ (1 < k /\ \E i \in DOMAIN rest : rest[i] = b[k])
  BY <1>2, <1>6, TailRest
<1>8. \A s \in RunIds : Live(s) => runs[s].status \in {"pending", "running"}
  BY <1>3, RowFields DEF Live, IInv, LimboCancelled
<1>9. ASSUME NEW s \in RunIds, runs[s].thread = t, Live(s), s # r, s # job[w]
      PROVE  Earlier(r, s)
  <2>1. runs[s].status = "pending"
    BY <1>4, <1>8, <1>9 DEF IInv, OneRunning, WithStatus
  <2>2. OneWaits(s)
    BY <1>3, <1>5, <2>1 DEF NoneStranded, WithStatus, OneWaits
  <2>3. CASE \E k \in DOMAIN queue : queue[k] = s
    BY <1>3, <1>5, <1>6, <1>7, <1>9, <2>3 DEF QueuesInOrder
  <2>4. CASE \E k \in DOMAIN b : b[k] = s
    <3>1. PICK k \in DOMAIN b : b[k] = s
      BY <2>4
    <3>2. 1 < k
      BY <1>7, <1>9, <3>1
    <3> QED
      BY <1>5, <1>6, <1>7, <3>1, <3>2 DEF QueuesInOrder
  <2> QED
    BY <1>6, <1>9, <2>2, <2>3, <2>4 DEF OneWaits
<1>10. RowOrder'
  <2>1. \A s \in RunIds : Live(s)' <=> Live(s) /\ s # job[w]
    <3> TAKE s \in RunIds
    <3>1. CASE s = job[w]
      <4>1. limbo = 0 /\ s # 0 /\ limbo' = 0
        BY <1>3, RowFields DEF IInv, LimboCancelled
      <4> QED
        BY <1>4, <3>1, <4>1 DEF Live, Outcomes
    <3>2. CASE s = r
      BY <1>3, <3>2 DEF Live
    <3>3. CASE s # r /\ s # job[w]
      BY <1>3, <3>3 DEF Live
    <3> QED
      BY <3>1, <3>2, <3>3
  <2>2. \A u, s \in RunIds : runs[u].thread = runs[s].thread /\ Live(u)' /\ Live(s)' /\ u # s
           /\ runs'[u].status # "pending" => Earlier(u, s)
    <3> SUFFICES ASSUME NEW u \in RunIds, NEW s \in RunIds, runs[u].thread = runs[s].thread, Live(u)', Live(s)',
                        u # s, runs'[u].status # "pending"
                 PROVE  Earlier(u, s)
      OBVIOUS
    <3>1. CASE u = r
      BY <1>3, <1>9, <2>1, <3>1
    <3>2. CASE u # r
      BY <1>3, <1>5, <2>1, <3>2 DEF RowOrder, LiveInOrder, Earlier
    <3> QED
      BY <3>1, <3>2
  <2>3. \A u, s \in RunIds : runs[u].thread = runs[s].thread /\ Live(u)' /\ Live(s) /\ ~Live(s)' => Earlier(s, u)
    <3> SUFFICES ASSUME NEW u \in RunIds, NEW s \in RunIds, runs[u].thread = runs[s].thread, Live(u)', Live(s), ~Live(s)'
                 PROVE  Earlier(s, u)
      OBVIOUS
    <3>1. s = job[w] /\ Live(u) /\ u # s
      BY <2>1
    <3> QED
      BY <1>4, <1>5, <3>1 DEF RowOrder, LiveInOrder, Earlier
  <2> QED
    BY <1>4, <1>5, <2>1, <2>2, <2>3, RowOrderStays
<1>11. QueuesInOrder'
  BY <1>3, <1>5, QueuesStay
<1>12. NoneStranded'
  <2> SUFFICES ASSUME NEW s \in RunIds, runs'[s].status = "pending" PROVE OneWaits(s)'
    BY <1>4 DEF NoneStranded, OneWaits, WithStatus
  <2>1. s # job[w] /\ s # r /\ runs'[s] = runs[s]
    BY <1>3, <1>4 DEF Outcomes
  <2>2. OneWaits(s)
    BY <1>3, <1>5, <2>1 DEF NoneStranded, WithStatus, OneWaits
  <2>3. CASE runs[s].thread = t /\ \E i \in DOMAIN b : b[i] = s
    <3>1. \E i \in DOMAIN rest : rest[i] = s
      BY <1>7, <2>1, <2>3
    <3>2. t \in busy
      BY <1>1, <1>3 DEF Ends, IInv, JobsRun
    <3> QED
      BY <1>3, <1>6, <2>1, <2>3, <3>1, <3>2 DEF OneWaits
  <2>4. CASE runs[s].thread # t
    <3>1. backlog'[runs[s].thread] = backlog[runs[s].thread]
      BY <1>3, <2>4, RowFields DEF IInv, TypeOK
    <3> QED
      BY <1>3, <2>1, <2>2, <3>1 DEF OneWaits
  <2> QED
    BY <1>3, <1>6, <2>1, <2>2, <2>3, <2>4 DEF OneWaits
<1> QED
  BY <1>10, <1>11, <1>12, OrderParts

LEMMA WorkOrder == ASSUME IInv, OrderInv, RepoThreads = {}, NEW w \in Workers, Work(w) PROVE OrderInv'
<1>1. CASE Graph(w)
  <2>1. UNCHANGED <<runs, phase, limbo, queue, busy, backlog>>
    BY <1>1, GraphMoves DEF InGraph
  <2>2. RowOrder' /\ QueuesInOrder'
    BY <2>1, OrderParts, RowOrderUnchanged, QueuesStay
  <2>3. NoneStranded'
    BY <2>1 DEF OrderInv, NoneStranded, WithStatus, RunIds
  <2> QED
    BY <2>2, <2>3, OrderParts
<1> QED
  BY <1>1, NothingFails, DeferOrder, TakeOrder, SettleOrder, NextOrder DEF Work

\* While the queues are empty and the engine is not up, only rows matter.
LEMMA QuietOrder ==
    ASSUME phase' # "up", queue' = <<>>, \A t \in Threads : backlog'[t] = <<>>
    PROVE  QueuesInOrder' /\ NoneStranded'
BY DEF QueuesInOrder, NoneStranded

LEMMA ReadyOrder == ASSUME IInv, OrderInv, Ready PROVE OrderInv'
<1>1. /\ phase = "boot" /\ phase' = "up" /\ limbo = 0 /\ queue' \in InOrder(WithStatus("pending"))
      /\ UNCHANGED <<runs, limbo, busy, backlog>>
  BY DEF Ready, disk
<1>2. RowOrder /\ RowOrder' /\ RunIds' = RunIds
  BY <1>1, OrderParts, RowOrderUnchanged DEF RunIds
<1>3. \A t \in Threads : backlog[t] = <<>>
  BY <1>1 DEF IInv, QuietUntilUp
<1>4. PICK S : S = WithStatus("pending")
  OBVIOUS
<1>5. /\ \A i \in DOMAIN queue' : queue'[i] \in S
      /\ \A r \in S : \E i \in DOMAIN queue' : queue'[i] = r
      /\ \A i, j \in DOMAIN queue' : i < j => Before(queue'[i], queue'[j])
  BY <1>1, <1>4 DEF InOrder
<1>6. ASSUME NEW i \in DOMAIN queue', NEW j \in DOMAIN queue', i < j
      PROVE  Earlier(queue'[i], queue'[j])
  <2>1. PICK r \in RunIds, s \in RunIds : r = queue'[i] /\ s = queue'[j] /\ Live(r) /\ Live(s)
    BY <1>4, <1>5 DEF WithStatus, Live
  <2>2. Before(r, s)
    BY <1>5, <1>6, <2>1
  <2>3. r \in Nat /\ s \in Nat /\ (runs[r].origin = runs[s].origin => r = s)
    BY <1>2, <2>1, RowFields DEF RowOrder, LiveApart, IInv
  <2> QED
    BY <2>1, <2>2, <2>3 DEF Before, Earlier
<1>7. QueuesInOrder'
  BY <1>1, <1>3, <1>6 DEF QueuesInOrder, Earlier
<1>8. NoneStranded'
  BY <1>1, <1>2, <1>4, <1>5 DEF NoneStranded, WithStatus
<1> QED
  BY <1>2, <1>7, <1>8, OrderParts

LEMMA BootOrder == ASSUME IInv, OrderInv, Boot PROVE OrderInv'
<1>0. RowOrder
  BY OrderParts
<1>1. CASE Restart
  <2>1. UNCHANGED <<runs, limbo, queue, backlog>> /\ phase = "down" /\ phase' = "boot"
    BY <1>1 DEF Restart, disk
  <2>2. queue = <<>> /\ \A t \in Threads : backlog[t] = <<>>
    BY <2>1 DEF IInv, QuietUntilUp
  <2> QED
    BY <1>0, <2>1, <2>2, RowOrderUnchanged, QuietOrder, OrderParts
<1>2. ASSUME phase = "boot", UNCHANGED <<phase, queue, backlog>>, RowOrder' PROVE OrderInv'
  <2>1. queue = <<>> /\ \A t \in Threads : backlog[t] = <<>>
    BY <1>2 DEF IInv, QuietUntilUp
  <2> QED
    BY <1>2, <2>1, QuietOrder, OrderParts
<1>3. CASE CancelRun
  <2>1. /\ limbo' \in WithStatus("running") /\ limbo = 0
        /\ RunIds' = RunIds /\ \A s \in RunIds : SameRun(s) /\ (s # limbo' => runs'[s] = runs[s])
        /\ phase = "boot" /\ UNCHANGED <<phase, queue, backlog>>
    BY <1>3, CancelRows
  <2>2. limbo' \in RunIds /\ runs[limbo'].status = "running"
    BY <2>1 DEF WithStatus
  <2>3. \A s \in RunIds : Live(s)' <=> Live(s)
    BY <2>1, <2>2, RowFields DEF Live, IInv
  <2>4. \A s \in RunIds : runs'[s].status # "pending" => runs[s].status # "pending"
    BY <2>1, <2>2
  <2> QED
    BY <1>0, <1>2, <2>1, <2>3, <2>4, RowOrderSame
<1>4. CASE ReplaceRun
  <2>1. PICK k, n, row :
           /\ k \in Owed(limbo) /\ Added(n, row) /\ row.thread = runs[limbo].thread /\ row.kind = k
           /\ row.status = "pending" /\ row.origin = runs[limbo].origin
    BY <1>4, ReplaceRows
  <2>2. /\ limbo \in RunIds /\ runs[limbo].status = "cancelled" /\ limbo' = 0
        /\ phase = "boot" /\ UNCHANGED <<phase, queue, backlog>>
    BY <1>4, ReplaceRows
  <2>3. RowOrder'
    BY <1>0, <2>1, <2>2, RowOrderAdds
  <2> QED
    BY <1>2, <2>2, <2>3
<1>5. CASE DropRun
  <2>1. /\ UNCHANGED <<runs, phase, queue, backlog>> /\ limbo' = 0 /\ limbo \in RunIds
        /\ runs[limbo].status = "cancelled" /\ phase = "boot"
    BY <1>5 DEF DropRun, disk, IInv, LimboCancelled
  <2>2. RunIds' = RunIds /\ \A s \in RunIds : SameRun(s) /\ runs'[s] = runs[s] /\ s # 0
    BY <2>1, RowFields DEF RunIds, SameRun, IInv
  <2>3. RowOrder'
    BY <1>0, <2>1, <2>2, RowOrderSame DEF Live
  <2> QED
    BY <1>2, <2>1, <2>3
<1>6. CASE Ready
  BY <1>6, ReadyOrder
<1> QED
  BY <1>1, <1>3, <1>4, <1>5, <1>6 DEF Boot

LEMMA CrashOrder == ASSUME IInv, OrderInv, Crash PROVE OrderInv'
<1>1. /\ runs' = runs /\ phase' = "down" /\ limbo' = 0 /\ queue' = <<>>
      /\ \A t \in Threads : backlog'[t] = <<>>
  BY DEF Crash, Fresh, disk
<1>2. RunIds' = RunIds /\ \A s \in RunIds : SameRun(s) /\ runs'[s] = runs[s] /\ s # 0
  BY <1>1, RowFields DEF RunIds, SameRun, IInv
<1>3. \A s \in RunIds : Live(s) /\ ~Live(s)' => runs[s].status # "pending"
  BY <1>1, <1>2 DEF Live
<1>4. RowOrder'
  BY <1>1, <1>2, <1>3, OrderParts, RowOrderSame DEF Live
<1> QED
  BY <1>1, <1>4, QuietOrder, OrderParts

LEMMA StepOrder == ASSUME IInv, OrderInv, RepoThreads = {}, [Next]_vars PROVE OrderInv'
<1>1. CASE UNCHANGED vars
  <2>1. UNCHANGED <<runs, phase, limbo, queue, busy, backlog>>
    BY <1>1 DEF vars, disk, process
  <2>2. RowOrder' /\ QueuesInOrder'
    BY <2>1, OrderParts, RowOrderUnchanged, QueuesStay
  <2>3. NoneStranded'
    BY <2>1 DEF OrderInv, NoneStranded, WithStatus, RunIds
  <2> QED
    BY <2>2, <2>3, OrderParts
<1> QED
  BY <1>1, CallOrder, WorkOrder, BootOrder, CrashOrder DEF Next

\* The runs of a thread keep their order in the table, the queue and the backlogs,
\* unless a worker dies on a worktree.
THEOREM OrderHolds == ASSUME RepoThreads = {} PROVE Spec => []OrderInv
<1>1. Init => OrderInv
  BY DEF Init, OrderInv, OriginsOld, LiveApart, LiveInOrder, QueuesInOrder, NoneStranded, RunIds
<1>2. IInv /\ OrderInv /\ [Next]_vars => OrderInv'
  BY StepOrder
<1> QED
  BY <1>1, <1>2, Invariance, PTL DEF Spec

\* While the engine is up a pending run is on its way to a worker: in the queue,
\* or in the backlog of a busy thread (RuntimeManager._worker, the release of the
\* thread).  A worker that dies on a worktree is outside this theorem.
THEOREM NoneIsStranded == ASSUME RepoThreads = {} PROVE Spec => []NoneStranded
<1>1. OrderInv => NoneStranded
  BY DEF OrderInv
<1> QED
  BY <1>1, OrderHolds, PTL

-----------------------------------------------------------------------------
(***************************************************************************)
(* Rows tell the truth about their threads' checkpoints.                   *)
(***************************************************************************)

Tells(t) ==
    \A r \in RunIds : Settled(r, t) =>
        /\ runs[r].status = "success" => ~ckpt[t].next
        /\ runs[r].status = "cancelled" => (ckpt[t].next => ckpt[t].result)
        /\ runs[r].status = "interrupted" => ckpt[t].next /\ ckpt[t].ask /\ ckpt[t].step = runs[r].asks

Shows(t) ==
    Unanswered(ckpt[t]) /\ Open(t) = {} /\ limbo \notin RunsOf(t) => WaitingCard(t) = ckpt[t].step

LEMMA TellsAll ==
    /\ RowTellsState <=> \A t \in Threads : Tells(t)
    /\ PausedIsShown <=> \A t \in Threads : Shows(t)
BY DEF RowTellsState, Tells, PausedIsShown, Shows, Unanswered

LEMMA TellsAllThen ==
    /\ RowTellsState' <=> \A t \in Threads : Tells(t)'
    /\ PausedIsShown' <=> \A t \in Threads : Shows(t)'
BY DEF RowTellsState, Tells, PausedIsShown, Shows, Unanswered

\* Only one run of a thread is its newest.
LEMMA OneNewest ==
    ASSUME TypeOK, NEW t, NEW r, NEW s, IsNewest(r, t), IsNewest(s, t)
    PROVE  r = s
<1>1. r \in RunIds /\ s \in RunIds /\ (r # s => Before(r, s) /\ Before(s, r))
  BY DEF IsNewest, RunsOf
<1>2. r \in Nat /\ s \in Nat /\ runs[r].origin \in Nat /\ runs[s].origin \in Nat
  BY <1>1, RowFields
<1> QED
  BY <1>1, <1>2 DEF Before

LEMMA OneNewestThen ==
    ASSUME TypeOK', NEW t, NEW r, NEW s, IsNewest(r, t)', IsNewest(s, t)'
    PROVE  r = s
<1>1. r \in RunIds' /\ s \in RunIds' /\ (r # s => Before(r, s)' /\ Before(s, r)')
  BY DEF IsNewest, RunsOf
<1>2. \A q \in RunIds' : q \in Nat /\ runs'[q].origin \in Nat
  <2>1. runs' \in Seq(Run)
    BY DEF TypeOK
  <2>2. PICK rows \in Seq(Run) : rows = runs'
    BY <2>1
  <2>3. \A q \in DOMAIN rows : q \in Nat /\ rows[q] \in Run
    BY SeqDomain
  <2> QED
    BY <2>2, <2>3 DEF RunIds, Run
<1> QED
  BY <1>1, <1>2 DEF Before

\* The card a thread shows is its newest row's.
LEMMA CardOfNewest ==
    ASSUME TypeOK, NEW t, NEW r, IsNewest(r, t)
    PROVE  WaitingCard(t) = IF runs[r].status = "interrupted" THEN runs[r].asks ELSE NoCard
<1>1. r \in RunIds
  BY DEF IsNewest, RunsOf
<1>2. \A s \in RunIds : IsNewest(s, t) => s = r
  BY OneNewest
<1>3. (CHOOSE s \in RunIds : IsNewest(s, t)) = r
  BY <1>1, <1>2
<1> QED
  BY <1>1, <1>2, <1>3 DEF WaitingCard

LEMMA CardOfNewestThen ==
    ASSUME TypeOK', NEW t, NEW r, IsNewest(r, t)'
    PROVE  WaitingCard(t)' = IF runs'[r].status = "interrupted" THEN runs'[r].asks ELSE NoCard
<1>1. r \in RunIds'
  BY DEF IsNewest, RunsOf
<1>2. \A s \in RunIds' : IsNewest(s, t)' => s = r
  BY OneNewestThen
<1>3. (CHOOSE s \in RunIds' : IsNewest(s, t)') = r
  BY <1>1, <1>2
<1> QED
  BY <1>1, <1>2, <1>3 DEF WaitingCard

\* A thread no row of which is touched.
ThreadAsWas(t) ==
    /\ RunsOf(t)' = RunsOf(t) /\ ckpt'[t] = ckpt[t]
    /\ \A r \in RunsOf(t) : runs'[r] = runs[r] /\ (Live(r)' <=> Live(r))

LEMMA QuietMeans ==
    ASSUME NEW t
    PROVE  /\ Open(t) = {} /\ limbo \notin RunsOf(t) <=> \A r \in RunsOf(t) : ~Live(r)
           /\ (Open(t) = {} /\ limbo \notin RunsOf(t))' <=> \A r \in RunsOf(t)' : ~Live(r)'
BY DEF Open, WithStatus, RunsOf, Live

LEMMA UntouchedTells ==
    ASSUME TypeOK, TypeOK', NEW t, ThreadAsWas(t), Tells(t), Shows(t)
    PROVE  Tells(t)' /\ Shows(t)'
<1>1. \A r : IsNewest(r, t)' <=> IsNewest(r, t)
  BY DEF IsNewest, ThreadAsWas, Before
<1>2. (Open(t) = {} /\ limbo \notin RunsOf(t))' <=> (Open(t) = {} /\ limbo \notin RunsOf(t))
  BY QuietMeans DEF ThreadAsWas
<1>3. Tells(t)'
  <2> SUFFICES ASSUME NEW r \in RunIds', Settled(r, t)'
               PROVE  /\ runs'[r].status = "success" => ~ckpt'[t].next
                      /\ runs'[r].status = "cancelled" => (ckpt'[t].next => ckpt'[t].result)
                      /\ runs'[r].status = "interrupted" =>
                            ckpt'[t].next /\ ckpt'[t].ask /\ ckpt'[t].step = runs'[r].asks
    BY DEF Tells
  <2>1. Settled(r, t) /\ r \in RunsOf(t) /\ r \in RunIds
    BY <1>1, <1>2 DEF Settled, IsNewest, RunsOf
  <2> QED
    BY <2>1 DEF Tells, ThreadAsWas
<1>4. WaitingCard(t)' = WaitingCard(t)
  <2>1. CASE \E r \in RunIds : IsNewest(r, t)
    <3>1. PICK r \in RunIds : IsNewest(r, t) /\ IsNewest(r, t)' /\ r \in RunsOf(t)
      BY <1>1, <2>1 DEF IsNewest
    <3> QED
      BY <3>1, CardOfNewest, CardOfNewestThen DEF ThreadAsWas
  <2>2. CASE ~\E r \in RunIds : IsNewest(r, t)
    <3>1. ~\E r \in RunIds' : IsNewest(r, t)'
      BY <1>1, <2>2 DEF IsNewest, RunsOf
    <3> QED
      BY <2>2, <3>1 DEF WaitingCard
  <2> QED
    BY <2>1, <2>2
<1>5. Shows(t)'
  BY <1>2, <1>4 DEF Shows, ThreadAsWas, Unanswered
<1> QED
  BY <1>3, <1>5

\* A thread with a run under way has nothing to tell yet.
LEMMA LiveTells ==
    ASSUME NEW t, NEW r, r \in RunsOf(t)', Live(r)'
    PROVE  Tells(t)' /\ Shows(t)'
<1>1. ~(Open(t) = {} /\ limbo \notin RunsOf(t))'
  BY QuietMeans
<1> QED
  BY <1>1 DEF Tells, Settled, Shows

\* When the last run of a thread is over, its row has to be right.
LEMMA LastTells ==
    ASSUME TypeOK', NEW t, NEW r, r \in RunsOf(t)',
           \A s \in RunsOf(t)' : s # r => Before(s, r)' \/ Live(s)',
           runs'[r].status \in Terminal,
           runs'[r].status = "success" => ~ckpt'[t].next,
           runs'[r].status = "cancelled" => (ckpt'[t].next => ckpt'[t].result),
           runs'[r].status = "interrupted" => ckpt'[t].next /\ ckpt'[t].ask /\ ckpt'[t].step = runs'[r].asks,
           runs'[r].status # "interrupted" => ~(ckpt'[t].ask /\ ckpt'[t].reply = 0)
    PROVE  Tells(t)' /\ Shows(t)'
<1>1. CASE \E s \in RunsOf(t)' : Live(s)'
  BY <1>1, LiveTells
<1>2. CASE \A s \in RunsOf(t)' : ~Live(s)'
  <2>1. IsNewest(r, t)'
    BY <1>2 DEF IsNewest
  <2>2. \A s : IsNewest(s, t)' => s = r
    BY <2>1, OneNewestThen
  <2>3. WaitingCard(t)' = IF runs'[r].status = "interrupted" THEN runs'[r].asks ELSE NoCard
    BY <2>1, CardOfNewestThen
  <2>4. Tells(t)'
    BY <2>2 DEF Tells, Settled
  <2>5. Shows(t)'
    BY <2>3 DEF Shows, Unanswered
  <2> QED
    BY <2>4, <2>5
<1> QED
  BY <1>1, <1>2

RowsTell == RowTellsState /\ PausedIsShown

\* One thread is touched, and has a run under way or tells the truth.
LEMMA TellsBut ==
    ASSUME TypeOK, TypeOK', RowsTell, NEW t \in Threads, Tells(t)' /\ Shows(t)',
           \A s \in Threads : s # t => ThreadAsWas(s)
    PROVE  RowsTell'
<1>1. \A s \in Threads : Tells(s) /\ Shows(s)
  BY TellsAll DEF RowsTell
<1>2. \A s \in Threads : Tells(s)' /\ Shows(s)'
  <2> TAKE s \in Threads
  <2>1. CASE s = t
    BY <2>1
  <2>2. CASE s # t
    BY <1>1, <2>2, UntouchedTells
  <2> QED
    BY <2>1, <2>2
<1> QED
  BY <1>2, TellsAllThen DEF RowsTell

LEMMA TellsStill ==
    ASSUME TypeOK, TypeOK', RowsTell, \A s \in Threads : ThreadAsWas(s)
    PROVE  RowsTell'
<1>1. \A s \in Threads : Tells(s) /\ Shows(s)
  BY TellsAll DEF RowsTell
<1>2. \A s \in Threads : Tells(s)' /\ Shows(s)'
  BY <1>1, UntouchedTells
<1> QED
  BY <1>2, TellsAllThen DEF RowsTell

LEMMA NothingTouched ==
    ASSUME UNCHANGED <<runs, ckpt>>, \A r \in RunIds : Live(r)' <=> Live(r)
    PROVE  \A t : ThreadAsWas(t)
BY DEF ThreadAsWas, RunsOf, RunIds

\* Only rows of thread t change.
LEMMA OthersUntouched ==
    ASSUME NEW t, RowsKept, \A s \in Threads : s # t => ckpt'[s] = ckpt[s],
           \A r \in RunIds : runs[r].thread # t => runs'[r] = runs[r] /\ (Live(r)' <=> Live(r)),
           \A r \in RunIds' : r \notin RunIds => runs'[r].thread = t
    PROVE  \A s \in Threads : s # t => ThreadAsWas(s)
<1> SUFFICES ASSUME NEW s \in Threads, s # t PROVE ThreadAsWas(s)
  OBVIOUS
<1>1. \A r \in RunsOf(s) : r \in RunsOf(s)' /\ runs'[r] = runs[r] /\ (Live(r)' <=> Live(r))
  BY DEF RunsOf, RowsKept
<1>2. \A r \in RunsOf(s)' : r \in RunsOf(s)
  BY DEF RunsOf, RowsKept, SameRun
<1> QED
  BY <1>1, <1>2 DEF ThreadAsWas

LEMMA CallTells == ASSUME IInv, TypeOK', RowsTell, NEW t \in Threads, Call(t) PROVE RowsTell'
<1>1. PICK n, row : CallAdds(t, n, row)
  BY CallRows
<1>2. UNCHANGED <<ckpt, limbo>> /\ TypeOK
  BY CallRows DEF IInv
<1>3. /\ n \notin RunIds /\ RunIds' = RunIds \cup {n} /\ runs'[n] = row /\ row.thread = t /\ row.status = "pending"
      /\ \A r \in RunIds : runs'[r] = runs[r]
  BY <1>1 DEF CallAdds, Added
<1>4. RowsKept
  BY <1>3 DEF RowsKept, SameRun
<1>5. \A s \in Threads : s # t => ThreadAsWas(s)
  BY <1>2, <1>3, <1>4, OthersUntouched DEF Live
<1>6. n \in RunsOf(t)' /\ Live(n)'
  BY <1>3 DEF RunsOf, Live
<1> QED
  BY <1>2, <1>5, <1>6, LiveTells, TellsBut

LEMMA GraphTells == ASSUME IInv, TypeOK', RowsTell, NEW w \in Workers, Graph(w) PROVE RowsTell'
<1>1. PICK c, d, p : GraphMove(w, c, d, p)
  BY GraphMoves
<1>2. PICK t \in Threads : t = ThreadOf(w)
  BY GraphMoves
<1>3. Active(w) /\ job[w] \in RunIds /\ UNCHANGED <<runs, limbo>> /\ TypeOK /\ runs[job[w]].status = "running"
  <2>1. Active(w) /\ job[w] \in RunIds /\ InGraph
    BY GraphMoves
  <2> QED
    BY <2>1 DEF InGraph, IInv, JobsRun
<1>4. \A s \in Threads : s # t => ckpt'[s] = ckpt[s]
  <2>1. ckpt' = [ckpt EXCEPT ![t] = d] /\ ckpt \in [Threads -> Checkpoint]
    BY <1>1, <1>2, <1>3 DEF GraphMove, TypeOK
  <2> QED
    BY <2>1
<1>5. /\ RowsKept /\ RunIds' = RunIds
      /\ \A r \in RunIds : runs'[r] = runs[r] /\ (Live(r)' <=> Live(r))
  BY <1>3 DEF RowsKept, SameRun, RunIds, Live
<1>6. \A s \in Threads : s # t => ThreadAsWas(s)
  BY <1>4, <1>5, OthersUntouched
<1>7. PICK r : r = job[w]
  OBVIOUS
<1>8. r \in RunsOf(t)' /\ Live(r)'
  BY <1>2, <1>3, <1>5, <1>7 DEF RunsOf, Live, ThreadOf
<1> QED
  BY <1>3, <1>6, <1>8, LiveTells, TellsBut

LEMMA TakeTells == ASSUME IInv, TypeOK', RowsTell, NEW w \in Workers, Take(w) PROVE RowsTell'
<1>1. PICK r : r = Head(queue)
  OBVIOUS
<1>2. PICK t : t = runs[r].thread
  OBVIOUS
<1>3. Starts(r) /\ UNCHANGED <<ckpt, limbo>> /\ t \in Threads
  BY <1>1, <1>2, TakeRows
<1>4. /\ r \in RunIds /\ runs'[r].status = "running" /\ RunIds' = RunIds
      /\ \A s \in RunIds : SameRun(s) /\ (s # r => runs'[s] = runs[s])
  BY <1>3 DEF Starts
<1>5. RowsKept
  BY <1>4 DEF RowsKept
<1>6. \A s \in Threads : s # t => ThreadAsWas(s)
  BY <1>2, <1>3, <1>4, <1>5, OthersUntouched DEF Live
<1>7. r \in RunsOf(t)' /\ Live(r)'
  BY <1>2, <1>4 DEF RunsOf, Live, SameRun
<1> QED
  BY <1>3, <1>6, <1>7, LiveTells, TellsBut DEF IInv

\* The runs that were not under way came before the one that was.
LEMMA OthersBefore ==
    ASSUME OrderInv, NEW t, NEW r \in RunIds, runs[r].thread = t, Live(r), RunIds' = RunIds,
           \A s \in RunIds : SameRun(s) /\ (s # r => (Live(s)' <=> Live(s)))
    PROVE  \A s \in RunsOf(t)' : s # r => Before(s, r)' \/ Live(s)'
<1> SUFFICES ASSUME NEW s \in RunIds, runs'[s].thread = t, s # r, ~Live(s)' PROVE Before(s, r)'
  BY DEF RunsOf
<1>1. ~Live(s) /\ runs[s].thread = t
  BY DEF SameRun
<1>2. Before(s, r)
  BY <1>1 DEF OrderInv, LiveInOrder
<1> QED
  BY <1>2 DEF Before, SameRun

LEMMA SettleTells ==
    ASSUME IInv, TypeOK', KeepInv, OrderInv, RowsTell, NEW w \in Workers, Settle(w) PROVE RowsTell'
<1>1. PICK t \in Threads : t = ThreadOf(w)
  BY SettleRows
<1>2. PICK r : r = job[w]
  OBVIOUS
<1>3. /\ Ends(w) /\ \A s \in RunIds : s # r => runs'[s] = runs[s]
      /\ UNCHANGED <<ckpt, limbo>>
  BY <1>2, SettleRows
<1>4. /\ r \in RunIds /\ runs[r].status = "running" /\ RunIds' = RunIds /\ runs[r].thread = t
      /\ \A s \in RunIds : SameRun(s)
      /\ runs'[r].status = pc[w] /\ pc[w] \in Outcomes /\ Active(w)
      /\ pc[w] = "interrupted" => runs'[r].asks = mem[w].step
  BY <1>1, <1>2, <1>3 DEF Ends, ThreadOf
<1>5. RowsKept
  BY <1>4 DEF RowsKept
<1>6. \A s \in Threads : s # t => ThreadAsWas(s)
  BY <1>3, <1>4, <1>5, OthersUntouched DEF Live
<1>7. \A s \in RunsOf(t)' : s # r => Before(s, r)' \/ Live(s)'
  BY <1>3, <1>4, OthersBefore DEF Live
<1>8. PICK c \in Checkpoint : c = ckpt[t] /\ c = mem[w]
  BY <1>1, <1>4 DEF IInv, TypeOK, SoleWriter, Outcomes
<1>9. Sound(c)
  BY <1>8 DEF KeepInv, CheckpointsSound
<1>10. /\ pc[w] = "success" => ~c.next
       /\ pc[w] = "interrupted" => c.ask
       /\ pc[w] = "error" => ~(c.ask /\ c.reply = 0)
  BY <1>4, <1>8 DEF KeepInv, WorkersSound
<1>11. r \in RunsOf(t)' /\ runs'[r].status \in Terminal
  BY <1>4 DEF RunsOf, SameRun, Terminal
<1>12. ckpt'[t] = c
  BY <1>3, <1>8
<1>13. Tells(t)' /\ Shows(t)'
  <2>1. runs'[r].status = "success" => ~ckpt'[t].next
    BY <1>4, <1>10, <1>12
  <2>2. runs'[r].status # "cancelled"
    BY <1>4 DEF Outcomes
  <2>3. runs'[r].status = "interrupted" => ckpt'[t].next /\ ckpt'[t].ask /\ ckpt'[t].step = runs'[r].asks
    BY <1>4, <1>8, <1>9, <1>10, <1>12 DEF Sound
  <2>4. runs'[r].status # "interrupted" => ~(ckpt'[t].ask /\ ckpt'[t].reply = 0)
    BY <1>4, <1>9, <1>10, <1>12 DEF Sound, Outcomes
  <2> QED
    BY <1>7, <1>11, <2>1, <2>2, <2>3, <2>4, LastTells
<1> QED
  BY <1>6, <1>13, TellsBut DEF IInv

LEMMA NextTells == ASSUME IInv, TypeOK', RowsTell, NEW w \in Workers, SettleAndNext(w) PROVE RowsTell'
<1>1. PICK t \in Threads : t = ThreadOf(w)
  BY NextRows
<1>2. PICK r : r = Head(backlog[t])
  OBVIOUS
<1>3. /\ Ends(w) /\ r \in RunIds /\ runs[r].thread = t /\ runs'[r].status = "running"
      /\ \A s \in RunIds : s # job[w] /\ s # r => runs'[s] = runs[s]
      /\ UNCHANGED <<ckpt, limbo>>
  BY <1>1, <1>2, NextRows
<1>4. /\ runs[job[w]].thread = t /\ RunIds' = RunIds /\ \A s \in RunIds : SameRun(s)
  BY <1>1, <1>3 DEF Ends, ThreadOf
<1>5. RowsKept
  BY <1>4 DEF RowsKept
<1>6. \A s \in Threads : s # t => ThreadAsWas(s)
  BY <1>3, <1>4, <1>5, OthersUntouched DEF Live
<1>7. r \in RunsOf(t)' /\ Live(r)'
  BY <1>3, <1>4 DEF RunsOf, Live, SameRun
<1> QED
  BY <1>6, <1>7, LiveTells, TellsBut DEF IInv

LEMMA WorkTells ==
    ASSUME IInv, TypeOK', KeepInv, OrderInv, RowsTell, RepoThreads = {}, NEW w \in Workers, Work(w)
    PROVE  RowsTell'
<1>1. CASE Defer(w)
  <2>1. UNCHANGED <<runs, ckpt, limbo>>
    BY <1>1 DEF Defer, disk
  <2>2. \A t : ThreadAsWas(t)
    BY <2>1, NothingTouched DEF Live
  <2> QED
    BY <2>2, TellsStill DEF IInv
<1> QED
  BY <1>1, NothingFails, GraphTells, TakeTells, SettleTells, NextTells DEF Work

LEMMA BootTells ==
    ASSUME IInv, TypeOK', KeepInv, OrderInv, RowsTell, Boot
    PROVE  RowsTell'
<1>1. CASE Restart \/ Ready
  <2>1. UNCHANGED <<runs, ckpt, limbo>>
    BY <1>1 DEF Restart, Ready, disk
  <2>2. \A t : ThreadAsWas(t)
    BY <2>1, NothingTouched DEF Live
  <2> QED
    BY <2>2, TellsStill DEF IInv
<1>2. CASE CancelRun
  <2>1. PICK r : r = limbo'
    OBVIOUS
  <2>2. /\ r \in RunIds /\ limbo = 0 /\ RunIds' = RunIds /\ ckpt' = ckpt
        /\ \A s \in RunIds : SameRun(s) /\ (s # r => runs'[s] = runs[s]) /\ s # 0
    BY <1>2, <2>1, CancelRows, RowFields DEF WithStatus, IInv
  <2>3. PICK t \in Threads : t = runs[r].thread
    BY <2>2, RowFields DEF IInv
  <2>4. RowsKept
    BY <2>2 DEF RowsKept
  <2>5. \A s \in Threads : s # t => ThreadAsWas(s)
    BY <2>1, <2>2, <2>3, <2>4, OthersUntouched DEF Live
  <2>6. r \in RunsOf(t)' /\ Live(r)'
    BY <2>1, <2>2, <2>3 DEF RunsOf, Live, SameRun
  <2> QED
    BY <2>5, <2>6, LiveTells, TellsBut DEF IInv
<1>3. CASE ReplaceRun
  <2>1. PICK k, n, row :
           /\ k \in Owed(limbo) /\ Added(n, row) /\ row.thread = runs[limbo].thread /\ row.kind = k
           /\ row.status = "pending" /\ row.origin = runs[limbo].origin
    BY <1>3, ReplaceRows
  <2>2. limbo \in RunIds /\ runs[limbo].status = "cancelled" /\ limbo' = 0 /\ ckpt' = ckpt
    BY <1>3, ReplaceRows
  <2>3. PICK t \in Threads : t = runs[limbo].thread
    BY <2>2, RowFields DEF IInv
  <2>4. /\ n \notin RunIds /\ RunIds' = RunIds \cup {n} /\ runs'[n] = row
        /\ \A s \in RunIds : runs'[s] = runs[s] /\ s # 0
    BY <2>1, RowFields DEF Added, IInv
  <2>5. RowsKept
    BY <2>4 DEF RowsKept, SameRun
  <2>6. \A s \in Threads : s # t => ThreadAsWas(s)
    BY <2>1, <2>2, <2>3, <2>4, <2>5, OthersUntouched DEF Live
  <2>7. n \in RunsOf(t)' /\ Live(n)'
    BY <2>1, <2>3, <2>4 DEF RunsOf, Live
  <2> QED
    BY <2>6, <2>7, LiveTells, TellsBut DEF IInv
<1>4. CASE DropRun
  <2>1. PICK r : r = limbo
    OBVIOUS
  <2>2. /\ UNCHANGED <<runs, ckpt>> /\ limbo' = 0 /\ r \in RunIds /\ runs[r].status = "cancelled"
        /\ r # 0 /\ Owed(r) = {}
    BY <1>4, <2>1 DEF DropRun, disk, IInv, LimboCancelled
  <2>3. PICK t \in Threads : t = runs[r].thread
    BY <2>2, RowFields DEF IInv
  <2>4. /\ RunIds' = RunIds /\ RowsKept
        /\ \A s \in RunIds : SameRun(s) /\ runs'[s] = runs[s] /\ s # 0
    BY <2>2, RowFields DEF RowsKept, SameRun, RunIds, IInv
  <2>5. \A s \in Threads : s # t => ThreadAsWas(s)
    BY <2>1, <2>2, <2>3, <2>4, OthersUntouched DEF Live
  <2>6. \A s \in RunsOf(t)' : s # r => Before(s, r)' \/ Live(s)'
    BY <2>1, <2>2, <2>3, <2>4, OthersBefore DEF Live
  <2>7. Sound(ckpt[t])
    BY DEF KeepInv, CheckpointsSound
  <2>8. ckpt[t].next => ckpt[t].result
    BY <2>2, <2>3 DEF Owed
  <2>9. r \in RunsOf(t)' /\ runs'[r].status = "cancelled" /\ "cancelled" \in Terminal
    BY <2>2, <2>3, <2>4 DEF RunsOf, Terminal
  <2>10. ~(ckpt[t].ask /\ ckpt[t].reply = 0)
    BY <2>7, <2>8 DEF Sound
  <2>11. Tells(t)' /\ Shows(t)'
    BY <2>2, <2>6, <2>8, <2>9, <2>10, LastTells
  <2> QED
    BY <2>5, <2>11, TellsBut DEF IInv
<1> QED
  BY <1>1, <1>2, <1>3, <1>4 DEF Boot

LEMMA CrashTells == ASSUME IInv, TypeOK', RowsTell, "boot" \notin CrashIn, Crash PROVE RowsTell'
<1>1. UNCHANGED <<runs, ckpt>> /\ limbo = 0 /\ limbo' = 0
  BY DEF Crash, Fresh, disk, IInv, LimboCancelled
<1>2. \A t : ThreadAsWas(t)
  BY <1>1, NothingTouched DEF Live
<1> QED
  BY <1>2, TellsStill DEF IInv

LEMMA StepTells ==
    ASSUME IInv, KeepInv, OrderInv, RowsTell, RepoThreads = {}, "boot" \notin CrashIn, [Next]_vars
    PROVE  RowsTell'
<1>1. TypeOK'
  BY StepIInv DEF IInv
<1>2. CASE UNCHANGED vars
  <2>1. UNCHANGED <<runs, ckpt, limbo>>
    BY <1>2 DEF vars, disk, process
  <2>2. \A t : ThreadAsWas(t)
    BY <2>1, NothingTouched DEF Live
  <2> QED
    BY <1>1, <2>2, TellsStill DEF IInv
<1> QED
  BY <1>1, <1>2, CallTells, WorkTells, BootTells, CrashTells DEF Next

-----------------------------------------------------------------------------
(***************************************************************************)
(* An answer goes to the card that was on show.                            *)
(***************************************************************************)

CardKept(r) ==
    /\ ckpt[runs[r].thread].ask /\ ckpt[runs[r].thread].step = runs[r].card
    /\ \A s \in RunIds : runs[s].thread = runs[r].thread /\ Live(s) /\ s # r => Earlier(r, s)

LEMMA CardsKeptAll ==
    /\ CardsKept <=> \A r \in RunIds : Unheard(r) => CardKept(r)
    /\ CardsKept' <=> \A r \in RunIds' : Unheard(r)' => CardKept(r)'
<1>1. CardsKept <=> \A r \in RunIds : Unheard(r) => CardKept(r)
  BY DEF CardsKept, CardKept, RunsOf
<1>2. CardsKept' <=> \A r \in RunIds' : Unheard(r)' => CardKept(r)'
  BY DEF CardsKept, CardKept, RunsOf
<1> QED
  BY <1>1, <1>2

\* A step that adds no row: workers begin with runs that were pending.
LEMMA CardsStay ==
    ASSUME CardsKept, RowsKept, RunIds' = RunIds, ckpt' = ckpt,
           \A r \in RunIds : runs'[r].status = "pending" => runs[r].status = "pending",
           \A r \in RunIds : Live(r)' => Live(r),
           \A v \in Workers : Active(v)' /\ pc'[v] \in {"open", "input"} =>
              \/ Active(v) /\ pc[v] \in {"open", "input"} /\ job'[v] = job[v]
              \/ runs[job'[v]].status = "pending"
    PROVE  CardsKept'
<1> SUFFICES ASSUME NEW r \in RunIds, Unheard(r)' PROVE CardKept(r)'
  BY CardsKeptAll
<1>1. Unheard(r)
  BY DEF Unheard, RowsKept, SameRun
<1>2. CardKept(r)
  BY <1>1, CardsKeptAll
<1> QED
  BY <1>2 DEF RowsKept, SameRun, CardKept, Earlier

LEMMA ResumeOnShow ==
    ASSUME IInv, OrderInv, RowsTell, NEW t \in Threads, WaitingCard(t) # NoCard
    PROVE  /\ ckpt[t].ask /\ ckpt[t].step = WaitingCard(t)
           /\ \A s \in RunsOf(t) : ~Live(s)
<1>1. PICK r \in RunIds : IsNewest(r, t) /\ runs[r].status = "interrupted"
  BY DEF WaitingCard
<1>2. TypeOK /\ Tells(t)
  BY TellsAll DEF IInv, RowsTell
<1>3. ~Live(r) /\ r \in RunsOf(t) /\ runs[r].thread = t
  <2>1. r # limbo
    BY <1>1, <1>2, RowFields DEF IInv, LimboCancelled
  <2> QED
    BY <1>1, <2>1 DEF Live, IsNewest, RunsOf
<1>4. \A s \in RunsOf(t) : ~Live(s)
  <2> SUFFICES ASSUME NEW s \in RunsOf(t), Live(s) PROVE FALSE
    OBVIOUS
  <2>1. s \in RunIds /\ runs[s].thread = t /\ s # r
    BY <1>3 DEF RunsOf
  <2>2. Before(r, s) /\ Before(s, r)
    BY <1>1, <1>3, <2>1 DEF OrderInv, LiveInOrder, IsNewest
  <2>3. r \in Nat /\ s \in Nat /\ runs[r].origin \in Nat /\ runs[s].origin \in Nat
    BY <1>2, <2>1, RowFields
  <2> QED
    BY <2>2, <2>3 DEF Before
<1>5. Settled(r, t)
  BY <1>1, <1>4, QuietMeans DEF Settled
<1>6. WaitingCard(t) = runs[r].asks
  BY <1>1, <1>2, CardOfNewest
<1> QED
  BY <1>1, <1>2, <1>4, <1>5, <1>6 DEF Tells

LEMMA CallCards == ASSUME IInv, OrderInv, RowsTell, CardsKept, NEW t \in Threads, Call(t) PROVE CardsKept'
<1>1. PICK n, row : CallAdds(t, n, row)
  BY CallRows
<1>2. UNCHANGED <<ckpt, limbo, pc, job>> /\ TypeOK
  BY CallRows DEF IInv
<1>3. /\ n \notin RunIds /\ RunIds' = RunIds \cup {n} /\ runs'[n] = row /\ n \in Nat
      /\ row.thread = t /\ row.status = "pending" /\ row.origin = n
      /\ \A r \in RunIds : runs'[r] = runs[r] /\ r < n
      /\ row.card \in {NoCard, WaitingCard(t)}
  BY <1>1 DEF CallAdds, Added
<1>4. \A r \in RunIds : runs[r].origin < n /\ runs[r].origin \in Nat
  <2> TAKE r \in RunIds
  <2>1. runs[r].origin \in Nat /\ r \in Nat /\ runs[r].origin <= r /\ r < n
    BY <1>2, <1>3, RowFields DEF OrderInv, OriginsOld
  <2> QED
    BY <1>3, <2>1
<1>5. \A r \in RunIds : Live(r)' <=> Live(r)
  BY <1>2, <1>3 DEF Live
<1>6. ASSUME NEW r \in RunIds, Unheard(r)' PROVE CardKept(r)'
  <2>1. Unheard(r)
    BY <1>2, <1>3, <1>6 DEF Unheard, Active
  <2>2. CardKept(r)
    BY <2>1, CardsKeptAll
  <2>3. ASSUME NEW s \in RunIds', runs'[s].thread = runs'[r].thread, Live(s)', s # r
        PROVE  runs'[r].origin < runs'[s].origin
    <3>1. CASE s = n
      BY <1>3, <1>4, <3>1
    <3>2. CASE s \in RunIds
      BY <1>3, <1>5, <2>2, <2>3, <3>2 DEF CardKept, Earlier
    <3> QED
      BY <1>3, <3>1, <3>2
  <2> QED
    BY <1>2, <1>3, <2>2, <2>3 DEF CardKept, Earlier
<1>7. ASSUME Unheard(n)' PROVE CardKept(n)'
  <2>1. row.card = WaitingCard(t) /\ WaitingCard(t) # NoCard
    BY <1>3, <1>7 DEF Unheard
  <2>2. ckpt[t].ask /\ ckpt[t].step = row.card /\ \A s \in RunsOf(t) : ~Live(s)
    BY <2>1, ResumeOnShow
  <2> QED
    BY <1>2, <1>3, <1>5, <2>2 DEF CardKept, RunsOf
<1> QED
  BY <1>3, <1>6, <1>7, CardsKeptAll

LEMMA GraphCards == ASSUME IInv, OrderInv, CardsKept, NEW w \in Workers, Graph(w) PROVE CardsKept'
<1>1. PICK c, d, p : GraphMove(w, c, d, p)
  BY GraphMoves
<1>2. PICK t \in Threads : t = ThreadOf(w)
  BY GraphMoves
<1>3. PICK r : r = job[w]
  OBVIOUS
<1>4. /\ Active(w) /\ r \in RunIds /\ UNCHANGED <<runs, limbo, job>> /\ TypeOK
      /\ runs[r].status = "running" /\ runs[r].thread = t
  <2>1. Active(w) /\ job[w] \in RunIds /\ InGraph
    BY GraphMoves
  <2> QED
    BY <1>2, <1>3, <2>1 DEF InGraph, IInv, JobsRun, ThreadOf
<1>5. ckpt' = [ckpt EXCEPT ![t] = d] /\ ckpt \in [Threads -> Checkpoint] /\ c = ckpt[t]
  BY <1>1, <1>2, <1>4 DEF GraphMove, TypeOK
<1>6. /\ pc' = [pc EXCEPT ![w] = p] /\ p # "open" /\ Turn(w, c, d, p)
      /\ pc \in [Workers -> {"idle", "open", "input", "loop", "dead"} \cup Outcomes]
  BY <1>1, <1>4 DEF GraphMove, TypeOK, Outcomes
<1>7. p = "input" => pc[w] = "open" /\ d = c
  BY <1>6 DEF Turn, Lands, Answers, Stays, Asks, Returns, Advances
<1>8. \A s \in RunIds : Live(s)' <=> Live(s)
  BY <1>4 DEF Live
<1> SUFFICES ASSUME NEW s \in RunIds, Unheard(s)' PROVE CardKept(s)'
  BY <1>4, CardsKeptAll DEF RunIds
<1>9. Unheard(s) /\ (s = r => d = c)
  <2>1. CASE runs[s].status = "pending"
    BY <1>4, <2>1 DEF Unheard
  <2>2. CASE runs[s].status # "pending"
    <3>1. PICK v \in Workers : Active(v)' /\ job[v] = s /\ pc'[v] \in {"open", "input"}
      BY <1>4, <2>2 DEF Unheard
    <3>2. CASE v = w
      <4>1. pc'[w] = p
        BY <1>6
      <4>2. pc[w] = "open" /\ d = c
        BY <1>6, <1>7, <3>1, <3>2, <4>1
      <4> QED
        BY <1>4, <3>1, <3>2, <4>2 DEF Unheard
    <3>3. CASE v # w
      <4>1. pc'[v] = pc[v] /\ Active(v)
        BY <1>6, <3>1, <3>3 DEF Active
      <4>2. ThreadOf(v) # ThreadOf(w)
        BY <1>4, <3>3, <4>1 DEF IInv, ThreadsApart
      <4>3. s # r
        BY <1>2, <1>4, <3>1, <4>2 DEF ThreadOf
      <4> QED
        BY <1>4, <3>1, <4>1, <4>3 DEF Unheard
    <3> QED
      BY <3>2, <3>3
  <2> QED
    BY <2>1, <2>2
<1>10. CardKept(s)
  BY <1>9, CardsKeptAll
<1>11. runs[s].thread \in Threads /\ Live(r) /\ Live(s)
  BY <1>4, <1>9, RowFields DEF Unheard, Live, IInv, JobsRun
<1>12. ASSUME runs[s].thread = t, s # r PROVE FALSE
  <2>1. Earlier(s, r)
    BY <1>4, <1>10, <1>11, <1>12 DEF CardKept
  <2>2. runs[r].origin < runs[s].origin
    BY <1>4, <1>11, <1>12 DEF OrderInv, LiveInOrder
  <2> QED
    BY <1>4, <2>1, <2>2, RowFields DEF Earlier
<1>13. ckpt'[runs[s].thread] = ckpt[runs[s].thread]
  BY <1>4, <1>5, <1>9, <1>11, <1>12
<1> QED
  BY <1>4, <1>8, <1>10, <1>13 DEF CardKept, Earlier, RunIds

LEMMA WorkCards ==
    ASSUME IInv, OrderInv, CardsKept, RepoThreads = {}, NEW w \in Workers, Work(w) PROVE CardsKept'
<1>1. TypeOK /\ pc \in [Workers -> {"idle", "open", "input", "loop", "dead"} \cup Outcomes]
      /\ job \in [Workers -> Nat]
  BY DEF IInv, TypeOK
<1>2. CASE Graph(w)
  BY <1>2, GraphCards
<1>3. CASE Defer(w)
  <2>1. UNCHANGED <<runs, ckpt, limbo, pc, job>>
    BY <1>3 DEF Defer, disk
  <2>2. RowsKept /\ RunIds' = RunIds /\ \A r \in RunIds : Live(r)' => Live(r)
    BY <2>1 DEF RowsKept, SameRun, RunIds, Live
  <2> QED
    BY <2>1, <2>2, CardsStay DEF Active
<1>4. CASE Take(w)
  <2>1. PICK r : r = Head(queue)
    OBVIOUS
  <2>2. /\ Starts(r) /\ pc' = [pc EXCEPT ![w] = "open"] /\ job' = [job EXCEPT ![w] = r]
        /\ UNCHANGED <<ckpt, limbo>>
    BY <1>4, <2>1, TakeRows
  <2>3. /\ RowsKept /\ RunIds' = RunIds
        /\ \A s \in RunIds : (Live(s)' => Live(s)) /\ (runs'[s].status = "pending" => runs[s].status = "pending")
    BY <2>2 DEF Starts, RowsKept, Live
  <2>4. ASSUME NEW v \in Workers, Active(v)', pc'[v] \in {"open", "input"}
        PROVE  \/ Active(v) /\ pc[v] \in {"open", "input"} /\ job'[v] = job[v]
               \/ runs[job'[v]].status = "pending"
    BY <1>1, <2>2, <2>4 DEF Starts, Active
  <2> QED
    BY <2>2, <2>3, <2>4, CardsStay
<1>5. CASE Settle(w)
  <2>1. /\ Ends(w) /\ \A s \in RunIds : s # job[w] => runs'[s] = runs[s]
        /\ \E p \in {"idle", "dead"} : pc' = [pc EXCEPT ![w] = p]
        /\ UNCHANGED <<ckpt, limbo, job>>
    BY <1>5, SettleRows
  <2>2. /\ RowsKept /\ RunIds' = RunIds
        /\ \A s \in RunIds : (Live(s)' => Live(s)) /\ (runs'[s].status = "pending" => runs[s].status = "pending")
    BY <2>1 DEF Ends, RowsKept, Live, Outcomes
  <2>3. ASSUME NEW v \in Workers, Active(v)' PROVE Active(v) /\ pc'[v] = pc[v]
    BY <1>1, <2>1, <2>3 DEF Active
  <2> QED
    BY <2>1, <2>2, <2>3, CardsStay
<1>6. CASE SettleAndNext(w)
  <2>1. PICK r : r = Head(backlog[ThreadOf(w)])
    OBVIOUS
  <2>2. /\ Ends(w) /\ r \in RunIds /\ runs[r].status = "pending" /\ runs'[r].status = "running" /\ r # job[w]
        /\ \A s \in RunIds : s # job[w] /\ s # r => runs'[s] = runs[s]
        /\ pc' = [pc EXCEPT ![w] = "open"] /\ job' = [job EXCEPT ![w] = r]
        /\ UNCHANGED <<ckpt, limbo>>
    BY <1>6, <2>1, NextRows
  <2>3. /\ RowsKept /\ RunIds' = RunIds
        /\ \A s \in RunIds : (Live(s)' => Live(s)) /\ (runs'[s].status = "pending" => runs[s].status = "pending")
    BY <2>2 DEF Ends, RowsKept, Live, Outcomes
  <2>4. ASSUME NEW v \in Workers, Active(v)', pc'[v] \in {"open", "input"}
        PROVE  \/ Active(v) /\ pc[v] \in {"open", "input"} /\ job'[v] = job[v]
               \/ runs[job'[v]].status = "pending"
    BY <1>1, <2>2, <2>4 DEF Active
  <2> QED
    BY <2>2, <2>3, <2>4, CardsStay
<1> QED
  BY <1>2, <1>3, <1>4, <1>5, <1>6, NothingFails DEF Work

LEMMA BootCards == ASSUME IInv, OrderInv, CardsKept, Boot PROVE CardsKept'
<1>1. CASE Restart \/ Ready
  <2>1. UNCHANGED <<runs, ckpt, limbo, pc, job>>
    BY <1>1 DEF Restart, Ready, disk
  <2>2. RowsKept /\ RunIds' = RunIds /\ \A r \in RunIds : Live(r)' => Live(r)
    BY <2>1 DEF RowsKept, SameRun, RunIds, Live
  <2> QED
    BY <2>1, <2>2, CardsStay DEF Active
<1>2. CASE CancelRun
  <2>1. PICK r : r = limbo'
    OBVIOUS
  <2>2. /\ r \in RunIds /\ runs[r].status = "running" /\ limbo = 0 /\ RunIds' = RunIds
        /\ UNCHANGED <<ckpt, pc, job>>
        /\ \A s \in RunIds : SameRun(s) /\ (s # r => runs'[s] = runs[s])
        /\ runs'[r].status = "cancelled"
    BY <1>2, <2>1, CancelRows DEF WithStatus
  <2>3. /\ RowsKept
        /\ \A s \in RunIds : (Live(s)' => Live(s)) /\ (runs'[s].status = "pending" => runs[s].status = "pending")
    BY <2>1, <2>2 DEF RowsKept, Live
  <2> QED
    BY <2>2, <2>3, CardsStay DEF Active
<1>3. CASE ReplaceRun
  <2>1. PICK k, n, row :
           /\ k \in Owed(limbo) /\ Added(n, row) /\ row.thread = runs[limbo].thread /\ row.kind = k
           /\ row.status = "pending" /\ row.origin = runs[limbo].origin
    BY <1>3, ReplaceRows
  <2>2. /\ limbo \in RunIds /\ runs[limbo].status = "cancelled" /\ limbo' = 0
        /\ UNCHANGED <<ckpt, pc, job>>
    BY <1>3, ReplaceRows
  <2>3. /\ n \notin RunIds /\ RunIds' = RunIds \cup {n} /\ runs'[n] = row /\ n \in Nat
        /\ \A s \in RunIds : runs'[s] = runs[s] /\ s < n /\ s \in Nat /\ s # 0
    BY <2>1, RowFields DEF Added, IInv
  <2>4. row.origin # n
    <3>1. runs[limbo].origin \in Nat /\ runs[limbo].origin <= limbo
      BY <2>2, RowFields DEF IInv, OrderInv, OriginsOld
    <3> QED
      BY <2>1, <2>2, <2>3, <3>1
  <2>5. ~Unheard(n)'
    BY <2>3, <2>4 DEF Unheard
  <2>6. ASSUME NEW s \in RunIds, Unheard(s)' PROVE CardKept(s)'
    <3>1. Unheard(s)
      BY <2>2, <2>3, <2>6 DEF Unheard, Active
    <3>2. CardKept(s)
      BY <3>1, CardsKeptAll
    <3>3. s # limbo /\ Live(limbo)
      <4>1. ~\E v \in Workers : Active(v)
        BY <1>3, ReplaceRows DEF IInv, QuietUntilUp, Active
      <4> QED
        BY <2>2, <3>1, <4>1 DEF Unheard, Live
    <3>4. ASSUME NEW u \in RunIds', runs'[u].thread = runs'[s].thread, Live(u)', u # s
          PROVE  runs'[s].origin < runs'[u].origin
      <4>1. CASE u = n
        <5>1. Earlier(s, limbo)
          BY <2>1, <2>2, <2>3, <3>2, <3>3, <3>4, <4>1 DEF CardKept
        <5> QED
          BY <2>1, <2>3, <4>1, <5>1 DEF Earlier
      <4>2. CASE u \in RunIds
        <5>1. Live(u)
          BY <2>2, <2>3, <3>4, <4>2 DEF Live
        <5> QED
          BY <2>3, <3>2, <3>4, <4>2, <5>1 DEF CardKept, Earlier
      <4> QED
        BY <2>3, <4>1, <4>2
    <3> QED
      BY <2>2, <2>3, <3>2, <3>4 DEF CardKept, Earlier
  <2> QED
    BY <2>3, <2>5, <2>6, CardsKeptAll
<1>4. CASE DropRun
  <2>1. UNCHANGED <<runs, ckpt, pc, job>> /\ limbo' = 0
    BY <1>4 DEF DropRun, disk
  <2>2. RowsKept /\ RunIds' = RunIds /\ \A r \in RunIds : Live(r)' => Live(r)
    BY <2>1, RowFields DEF RowsKept, SameRun, RunIds, Live, IInv
  <2> QED
    BY <2>1, <2>2, CardsStay DEF Active
<1> QED
  BY <1>1, <1>2, <1>3, <1>4 DEF Boot

LEMMA CrashCards == ASSUME IInv, CardsKept, Crash PROVE CardsKept'
<1>1. UNCHANGED <<runs, ckpt>> /\ limbo' = 0 /\ \A v \in Workers : pc'[v] = "idle"
  BY DEF Crash, Fresh, disk
<1>2. RowsKept /\ RunIds' = RunIds /\ \A r \in RunIds : Live(r)' => Live(r)
  BY <1>1, RowFields DEF RowsKept, SameRun, RunIds, Live, IInv
<1> QED
  BY <1>1, <1>2, CardsStay DEF Active

LEMMA StepCards ==
    ASSUME IInv, OrderInv, RowsTell, CardsKept, RepoThreads = {}, [Next]_vars
    PROVE  CardsKept'
<1>1. CASE UNCHANGED vars
  <2>1. UNCHANGED <<runs, ckpt, limbo, pc, job>>
    BY <1>1 DEF vars, disk, process
  <2>2. RowsKept /\ RunIds' = RunIds /\ \A r \in RunIds : Live(r)' => Live(r)
    BY <2>1 DEF RowsKept, SameRun, RunIds, Live
  <2> QED
    BY <2>1, <2>2, CardsStay DEF Active
<1> QED
  BY <1>1, CallCards, WorkCards, BootCards, CrashCards DEF Next

\* Answers are written and acted on by graph runs only.
LEMMA OnlyGraphs == ASSUME [Next]_vars, ~\E w \in Workers : Graph(w) PROVE UNCHANGED <<ckpt, acted>>
<1>1. CASE UNCHANGED vars
  BY <1>1 DEF vars, disk
<1>2. CASE \E t \in Threads : Call(t)
  BY <1>2 DEF Call, Submit, SubmitInput, SubmitContinue, Resume, Enqueue
<1>3. CASE \E w \in Workers : Work(w)
  BY <1>3 DEF Work, Defer, Take, TakeDies, Settle, SettleAndNext, SettleAndDie, disk
<1>4. CASE Boot
  BY <1>4 DEF Boot, Restart, CancelRun, ReplaceRun, DropRun, Ready, disk
<1>5. CASE Crash
  BY <1>5 DEF Crash, disk
<1> QED
  BY <1>1, <1>2, <1>3, <1>4, <1>5 DEF Next

Answered == RepliesFit /\ ActedFit

LEMMA GivenStays == ASSUME RowsKept, NEW r, NEW card, Given(r, card) PROVE Given(r, card)'
BY DEF Given, RowsKept, SameRun

LEMMA GraphAnswered ==
    ASSUME IInv, CardsKept, Answered, RowsKept, NEW w \in Workers, Graph(w)
    PROVE  Answered'
<1>1. PICK c, d, p : GraphMove(w, c, d, p)
  BY GraphMoves
<1>2. PICK t \in Threads : t = ThreadOf(w)
  BY GraphMoves
<1>3. PICK r : r = job[w]
  OBVIOUS
<1>4. /\ Active(w) /\ r \in RunIds /\ r \in Nat \ {0} /\ UNCHANGED runs /\ TypeOK /\ runs[r].thread = t
  <2>1. Active(w) /\ job[w] \in RunIds /\ InGraph
    BY GraphMoves
  <2> QED
    BY <1>2, <1>3, <2>1, RowFields DEF InGraph, IInv, ThreadOf
<1>5. /\ ckpt' = [ckpt EXCEPT ![t] = d] /\ ckpt \in [Threads -> Checkpoint] /\ c = ckpt[t] /\ Turn(w, c, d, p)
  BY <1>1, <1>2, <1>4 DEF GraphMove, TypeOK
<1>6. c.reply # 0 => Given(c.reply, c.step)
  BY <1>5 DEF Answered, RepliesFit
<1>7. pc[w] = "input" /\ c.ask => Given(r, c.step)
  <2> SUFFICES ASSUME pc[w] = "input", runs[r].origin = r, runs[r].card # NoCard PROVE runs[r].card = c.step
    BY <1>4 DEF Given
  <2>1. Unheard(r)
    BY <1>3, <1>4 DEF Unheard
  <2>2. CardKept(r)
    BY <1>4, <2>1, CardsKeptAll
  <2> QED
    BY <1>4, <1>5, <2>2 DEF CardKept
<1>8. d.reply # 0 => Given(d.reply, d.step)
  <2>1. CASE Lands(w, c, d, p) \/ Asks(w, c, d, p) \/ Advances(w, c, d, p)
    BY <2>1 DEF Lands, Asks, Advances
  <2>2. CASE Answers(w, c, d, p)
    BY <1>3, <1>6, <1>7, <2>2 DEF Answers, Keeps
  <2>3. CASE Stays(w, c, d, p)
    BY <1>6, <2>3 DEF Stays
  <2>4. CASE Returns(w, c, d, p)
    BY <1>6, <2>4 DEF Returns, Keeps
  <2> QED
    BY <1>5, <2>1, <2>2, <2>3, <2>4 DEF Turn
<1>9. RepliesFit'
  <2> SUFFICES ASSUME NEW s \in Threads, NEW e, e = ckpt'[s], e.reply # 0 PROVE Given(e.reply, e.step)'
    BY DEF RepliesFit, Given
  <2>1. Given(e.reply, e.step)
    BY <1>5, <1>8 DEF Answered, RepliesFit
  <2> QED
    BY <2>1, GivenStays
<1>10. ActedFit'
  <2> SUFFICES ASSUME NEW a \in acted' PROVE Given(a.by, a.card)'
    BY DEF ActedFit
  <2>1. a \in acted \/ (c.reply # 0 /\ a = [thread |-> t, card |-> c.step, by |-> c.reply])
    BY <1>2, <1>5 DEF Turn, Acts
  <2>2. Given(a.by, a.card)
    BY <1>6, <2>1 DEF Answered, ActedFit
  <2> QED
    BY <2>2, GivenStays
<1> QED
  BY <1>9, <1>10 DEF Answered

LEMMA StepAnswered ==
    ASSUME IInv, CardsKept, Answered, RowsKept, [Next]_vars
    PROVE  Answered'
<1>1. CASE \E w \in Workers : Graph(w)
  BY <1>1, GraphAnswered
<1>2. CASE UNCHANGED <<ckpt, acted>>
  <2>1. RepliesFit'
    <3> SUFFICES ASSUME NEW s \in Threads, NEW e, e = ckpt[s], e.reply # 0 PROVE Given(e.reply, e.step)'
      BY <1>2 DEF RepliesFit, Given
    <3> QED
      BY GivenStays DEF Answered, RepliesFit
  <2>2. ActedFit'
    BY <1>2, GivenStays DEF Answered, ActedFit
  <2> QED
    BY <2>1, <2>2 DEF Answered
<1> QED
  BY <1>1, <1>2, OnlyGraphs

LEMMA TellParts == /\ TellInv <=> RowsTell /\ CardsKept /\ Answered
                   /\ TellInv' <=> RowsTell' /\ CardsKept' /\ Answered'
BY DEF TellInv, RowsTell, Answered

LEMMA InitTells == ASSUME Init PROVE TellInv
<1>1. RunIds = {} /\ \A t \in Threads : ckpt[t] = NoCheckpoint
  BY DEF Init, RunIds
<1>2. RowTellsState /\ CardsKept
  BY <1>1 DEF RowTellsState, CardsKept
<1>3. PausedIsShown /\ RepliesFit
  BY <1>1 DEF PausedIsShown, RepliesFit, NoCheckpoint
<1> QED
  BY <1>2, <1>3 DEF TellInv, ActedFit, Init

\* Rows and answers agree with the checkpoints they speak of, always.
THEOREM TellHolds == ASSUME RepoThreads = {}, "boot" \notin CrashIn PROVE Spec => []TellInv
<1>1. Init => TellInv
  BY InitTells
<1>2. IInv /\ KeepInv /\ OrderInv /\ TellInv /\ [Next]_vars => TellInv'
  BY StepKeep, StepTells, StepCards, StepAnswered, TellParts
<1> QED
  BY <1>1, <1>2, Invariance, KeepHolds, OrderHolds, PTL DEF Spec

\* Between the runs of a thread its newest row tells the truth about the
\* checkpoint, crashes and recoveries included (RuntimeManager._worker, _recover).
THEOREM RowsTellTheirState ==
    ASSUME RepoThreads = {}, "boot" \notin CrashIn PROVE Spec => []RowTellsState
<1>1. TellInv => RowTellsState
  BY DEF TellInv
<1> QED
  BY <1>1, TellHolds, PTL

\* A thread that waits for an answer shows its card once no run of it is open:
\* recovery never hides the question.
THEOREM PausedAreShown ==
    ASSUME RepoThreads = {}, "boot" \notin CrashIn PROVE Spec => []PausedIsShown
<1>1. TellInv => PausedIsShown
  BY DEF TellInv
<1> QED
  BY <1>1, TellHolds, PTL

\* An answer that a caller gave with a card on show is acted on by the task that
\* showed that card, whatever came between (RuntimeManager.resume, the RESUME
\* writes of CompiledStateGraph._run).
THEOREM GivenAnswersFit ==
    ASSUME RepoThreads = {}, "boot" \notin CrashIn PROVE Spec => []GivenAnswerFitsCard
<1>1. TellInv => GivenAnswerFitsCard
  BY DEF TellInv, ActedFit, Given, GivenAnswerFitsCard, Fits
<1> QED
  BY <1>1, TellHolds, PTL
-----------------------------------------------------------------------------
(***************************************************************************)
(* Inputs land once each, in the order in which they were accepted.        *)
(***************************************************************************)

\* A worker that is about to land an input was so before, or takes a pending run.
LandersStay ==
    \A w \in Workers : Active(w)' /\ pc'[w] \in {"open", "input"} =>
        \/ Active(w) /\ pc[w] \in {"open", "input"} /\ job'[w] = job[w]
        \/ job'[w] \in RunIds /\ runs[job'[w]].status = "pending"

\* Rows, checkpoints and mail as they were: no run becomes pending or live.
LEMMA LandStays ==
    ASSUME IInv, KeepInv, LandInv, RowsKept, RunIds' = RunIds, UNCHANGED <<ckpt, sent>>, LandersStay,
           \A r \in RunIds : runs'[r].status = "pending" => runs[r].status = "pending",
           \A r \in RunIds : Live(r)' => Live(r)
    PROVE  LandInv'
<1>1. \A t \in Threads : Inbox(t)' = Inbox(t)
  BY DEF Inbox
<1>2. \A r \in RunIds : SameRun(r) /\ runs[r].thread \in Threads
  BY RowFields DEF RowsKept, IInv
<1>3. ASSUME NEW r \in RunIds PROVE CameIn(r)' <=> CameIn(r)
  <2>1. PICK t \in Threads : t = runs[r].thread /\ t = runs'[r].thread
    BY <1>2 DEF SameRun
  <2>2. PICK o : o = runs[r].origin /\ o = runs'[r].origin
    BY <1>2 DEF SameRun
  <2>3. HasLanded(o, t)' <=> HasLanded(o, t)
    BY <1>1, <1>2 DEF HasLanded, KeepInv, InboxRows, RunsOf, SameRun
  <2> QED
    BY <1>2, <2>1, <2>2, <2>3 DEF CameIn, IsInput, HasLanded, SameRun
<1>4. SentInOrder' /\ InputsSent'
  BY <1>2 DEF LandInv, SentInOrder, InputsSent, IsInput, SameRun
<1>5. LandedSent'
  <2> SUFFICES ASSUME NEW t \in Threads, NEW i \in DOMAIN ckpt[t].inbox
               PROVE  i \in DOMAIN sent[t] /\ runs'[ckpt[t].inbox[i]].origin = sent[t][i]
    BY DEF LandedSent
  <2>1. ckpt[t].inbox[i] \in RunIds
    BY DEF KeepInv, InboxRows, Inbox, RunsOf
  <2> QED
    BY <1>2, <2>1 DEF LandInv, LandedSent, SameRun
<1>6. NotYet'
  <2>1. ASSUME NEW r \in RunIds, CameIn(r)'
        PROVE  runs'[r].status # "pending" /\ (Live(r)' => r \in (Inbox(runs[r].thread))')
    <3>1. PICK t \in Threads : t = runs[r].thread /\ t = runs'[r].thread
      BY <1>2 DEF SameRun
    <3>2. runs[r].status # "pending" /\ (Live(r) => r \in Inbox(t))
      BY <1>3, <2>1, <3>1 DEF LandInv, NotYet
    <3>3. Live(r)' => r \in Inbox(t)'
      BY <1>1, <3>2
    <3> QED
      BY <3>1, <3>2, <3>3 DEF Inbox
  <2>2. ASSUME NEW w \in Workers, Active(w)', pc'[w] \in {"open", "input"}
        PROVE  ~CameIn(job[w])'
    <3>1. PICK r : r = job'[w]
      OBVIOUS
    <3>2. r \in RunIds /\ (\/ runs[r].status = "pending"
                           \/ Active(w) /\ pc[w] \in {"open", "input"} /\ job[w] = r)
      BY <2>2, <3>1 DEF LandersStay, IInv, JobsRun
    <3>3. ~CameIn(r)'
      BY <1>3, <3>2 DEF LandInv, NotYet
    <3> QED
      BY <3>1, <3>3 DEF CameIn, IsInput, HasLanded
  <2> QED
    BY <2>1, <2>2 DEF NotYet
<1> QED
  BY <1>4, <1>5, <1>6 DEF LandInv

LEMMA RestLand ==
    ASSUME IInv, KeepInv, LandInv, NEW w \in Workers,
           Defer(w) \/ TakeDies(w) \/ Take(w) \/ Settle(w) \/ SettleAndDie(w) \/ SettleAndNext(w)
    PROVE  LandInv'
<1>1. TypeOK /\ pc \in [Workers -> {"idle", "open", "input", "loop", "dead"} \cup Outcomes]
  BY DEF IInv, TypeOK
<1>2. CASE Defer(w) \/ TakeDies(w)
  <2>1. /\ UNCHANGED <<runs, ckpt, sent, limbo, job>>
        /\ pc' = pc \/ pc' = [pc EXCEPT ![w] = "dead"]
    BY <1>2 DEF Defer, TakeDies, disk
  <2>2. RowsKept /\ RunIds' = RunIds /\ LandersStay /\ \A r \in RunIds : Live(r)' => Live(r)
    BY <1>1, <2>1 DEF RowsKept, SameRun, RunIds, LandersStay, Active, Live
  <2> QED
    BY <2>1, <2>2, LandStays
<1>3. CASE Take(w)
  <2>1. PICK r : r = Head(queue)
    OBVIOUS
  <2>2. /\ Starts(r) /\ pc' = [pc EXCEPT ![w] = "open"] /\ job' = [job EXCEPT ![w] = r]
        /\ UNCHANGED <<ckpt, sent, limbo>>
    BY <1>3, <2>1, TakeRows
  <2>3. /\ RowsKept /\ RunIds' = RunIds
        /\ \A s \in RunIds : (runs'[s].status = "pending" => runs[s].status = "pending") /\ (Live(s)' => Live(s))
    BY <2>2 DEF Starts, RowsKept, Live
  <2>4. LandersStay
    BY <1>1, <2>2 DEF Starts, LandersStay, Active, IInv, TypeOK
  <2> QED
    BY <2>2, <2>3, <2>4, LandStays
<1>4. CASE Settle(w) \/ SettleAndDie(w)
  <2>1. /\ Ends(w) /\ \A s \in RunIds : s # job[w] => runs'[s] = runs[s]
        /\ \E p \in {"idle", "dead"} : pc' = [pc EXCEPT ![w] = p]
        /\ UNCHANGED <<ckpt, sent, limbo, job>>
    BY <1>4, SettleRows
  <2>2. /\ RowsKept /\ RunIds' = RunIds
        /\ \A s \in RunIds : (runs'[s].status = "pending" => runs[s].status = "pending") /\ (Live(s)' => Live(s))
    BY <2>1 DEF Ends, RowsKept, Live, Outcomes
  <2>3. LandersStay
    BY <1>1, <2>1 DEF LandersStay, Active
  <2> QED
    BY <2>1, <2>2, <2>3, LandStays
<1>5. CASE SettleAndNext(w)
  <2>1. PICK r : r = Head(backlog[ThreadOf(w)])
    OBVIOUS
  <2>2. /\ Ends(w) /\ r \in RunIds /\ runs[r].status = "pending" /\ runs'[r].status = "running"
        /\ \A s \in RunIds : s # job[w] /\ s # r => runs'[s] = runs[s]
        /\ pc' = [pc EXCEPT ![w] = "open"] /\ job' = [job EXCEPT ![w] = r]
        /\ UNCHANGED <<ckpt, sent, limbo>>
    BY <1>5, <2>1, NextRows
  <2>3. /\ RowsKept /\ RunIds' = RunIds
        /\ \A s \in RunIds : (runs'[s].status = "pending" => runs[s].status = "pending") /\ (Live(s)' => Live(s))
    BY <2>2 DEF Ends, RowsKept, Live, Outcomes
  <2>4. LandersStay
    BY <1>1, <2>2 DEF LandersStay, Active, IInv, TypeOK
  <2> QED
    BY <2>2, <2>3, <2>4, LandStays
<1> QED
  BY <1>2, <1>3, <1>4, <1>5

\* A run of an input adds a row that has not come in; other rows stay.
LEMMA LandAdds ==
    ASSUME IInv, KeepInv, LandInv, OriginsOld, NEW n, NEW row, Added(n, row),
           UNCHANGED <<ckpt, pc, job>>,
           \A r \in RunIds : Live(r)' => Live(r),
           IsInput(n)' => ~CameIn(n)',
           SentInOrder', InputsSent',
           \A t \in Threads : \A i \in DOMAIN sent[t] : i \in DOMAIN sent'[t] /\ sent'[t][i] = sent[t][i]
    PROVE  LandInv'
<1>1. \A t \in Threads : Inbox(t)' = Inbox(t)
  BY DEF Inbox
<1>2. /\ n \notin RunIds /\ RunIds' = RunIds \cup {n} /\ runs'[n] = row
      /\ \A r \in RunIds : runs'[r] = runs[r] /\ runs[r].thread \in Threads
  BY RowFields DEF Added, IInv
<1>3. ASSUME NEW r \in RunIds PROVE CameIn(r)' <=> CameIn(r)
  <2>1. PICK t \in Threads : t = runs[r].thread /\ t = runs'[r].thread
    BY <1>2
  <2>2. PICK o : o = runs[r].origin /\ o = runs'[r].origin
    BY <1>2
  <2>3. HasLanded(o, t)' <=> HasLanded(o, t)
    BY <1>1, <1>2 DEF HasLanded, KeepInv, InboxRows, RunsOf
  <2> QED
    BY <1>2, <2>1, <2>2, <2>3 DEF CameIn, IsInput, HasLanded
<1>4. LandedSent'
  <2> SUFFICES ASSUME NEW t \in Threads, NEW i \in DOMAIN ckpt[t].inbox
               PROVE  i \in DOMAIN sent'[t] /\ runs'[ckpt[t].inbox[i]].origin = sent'[t][i]
    BY DEF LandedSent
  <2>1. ckpt[t].inbox[i] \in RunIds
    BY DEF KeepInv, InboxRows, Inbox, RunsOf
  <2> QED
    BY <1>2, <2>1 DEF LandInv, LandedSent
<1>5. NotYet'
  <2>1. ASSUME NEW r \in RunIds', CameIn(r)'
        PROVE  runs'[r].status # "pending" /\ (Live(r)' => r \in (Inbox(runs[r].thread))')
    <3>1. r \in RunIds
      BY <1>2, <2>1 DEF CameIn
    <3>2. PICK t \in Threads : t = runs[r].thread /\ t = runs'[r].thread
      BY <1>2, <3>1
    <3>3. runs[r].status # "pending" /\ (Live(r) => r \in Inbox(t))
      BY <1>3, <2>1, <3>1, <3>2 DEF LandInv, NotYet
    <3>4. Live(r)' => r \in Inbox(t)'
      BY <1>1, <3>1, <3>3
    <3> QED
      BY <1>2, <3>1, <3>2, <3>3, <3>4 DEF Inbox
  <2>2. ASSUME NEW w \in Workers, Active(w)', pc'[w] \in {"open", "input"}
        PROVE  ~CameIn(job[w])'
    <3>1. PICK r : r = job[w] /\ r = job'[w]
      OBVIOUS
    <3>2. r \in RunIds /\ Active(w) /\ pc[w] \in {"open", "input"}
      BY <2>2, <3>1 DEF IInv, JobsRun, Active
    <3>3. ~CameIn(r)'
      BY <1>3, <3>1, <3>2 DEF LandInv, NotYet
    <3> QED
      BY <3>1, <3>3 DEF CameIn, IsInput, HasLanded
  <2> QED
    BY <2>1, <2>2 DEF NotYet
<1> QED
  BY <1>4, <1>5 DEF LandInv

LEMMA CallLand ==
    ASSUME IInv, KeepInv, OriginsOld, LandInv, NEW t \in Threads, Call(t)
    PROVE  LandInv'
<1>1. PICK n, row : CallAdds(t, n, row)
  BY CallRows
<1>2. UNCHANGED <<ckpt, limbo, pc, job>> /\ TypeOK /\ sent \in [Threads -> Seq(Nat)]
  BY CallRows DEF IInv, TypeOK
<1>3. /\ Added(n, row) /\ n \in Nat /\ n \notin RunIds /\ RunIds' = RunIds \cup {n} /\ runs'[n] = row
      /\ row.thread = t /\ row.origin = n
      /\ \A r \in RunIds : runs'[r] = runs[r] /\ r < n
      /\ \/ sent' = [sent EXCEPT ![t] = Append(sent[t], n)]
         \/ sent' = sent /\ row.kind \notin {"message", "input"}
  BY <1>1 DEF CallAdds, Added
<1>4. \A r \in RunIds : Live(r)' => Live(r)
  BY <1>2, <1>3 DEF Live
<1>5. ~CameIn(n)'
  <2> SUFFICES ASSUME CameIn(n)' PROVE FALSE
    OBVIOUS
  <2>1. PICK r \in Inbox(t) : runs'[r].origin = n
    BY <1>2, <1>3 DEF CameIn, HasLanded, Inbox
  <2>2. r \in RunIds
    BY <2>1 DEF KeepInv, InboxRows, RunsOf
  <2>3. runs[r].origin = n /\ runs[r].origin <= r /\ r < n /\ r \in Nat
    BY <1>2, <1>3, <2>1, <2>2, RowFields DEF OriginsOld
  <2> QED
    BY <1>3, <2>3
<1>6. PICK q \in Seq(Nat) : q = sent[t]
  BY <1>2
<1>7. /\ DOMAIN Append(q, n) = DOMAIN q \cup {Len(q) + 1} /\ DOMAIN q = 1 .. Len(q) /\ Len(q) \in Nat
      /\ \A j \in DOMAIN q : Append(q, n)[j] = q[j]
      /\ Append(q, n)[Len(q) + 1] = n
  BY <1>3, SeqAppend, SeqDomain
<1>8. \A s \in Threads : s # t => sent'[s] = sent[s]
  BY <1>2, <1>3
<1>9. sent'[t] = q \/ sent'[t] = Append(q, n)
  BY <1>2, <1>3, <1>6
<1>10. \A s \in Threads : \A i \in DOMAIN sent[s] : i \in DOMAIN sent'[s] /\ sent'[s][i] = sent[s][i]
  BY <1>6, <1>7, <1>8, <1>9
<1>11. SentInOrder'
  <2>1. \A i \in DOMAIN q : q[i] \in RunIds /\ q[i] < n
    BY <1>3, <1>6 DEF LandInv, SentInOrder
  <2>2. \A i, j \in DOMAIN q : i < j => q[i] < q[j]
    BY <1>6 DEF LandInv, SentInOrder
  <2>3. PICK longer : longer = Append(q, n)
    OBVIOUS
  <2>4. PICK m \in Nat : m = Len(q)
    BY <1>7
  <2>5. \A i \in DOMAIN longer : longer[i] \in RunIds'
    BY <1>3, <1>7, <2>1, <2>3, <2>4
  <2>6. \A i, j \in DOMAIN longer : i < j => longer[i] < longer[j]
    BY <1>7, <2>1, <2>2, <2>3, <2>4
  <2>7. \A i \in DOMAIN q : q[i] \in RunIds'
    BY <1>3, <2>1
  <2>8. /\ \A i \in DOMAIN sent'[t] : sent'[t][i] \in RunIds'
        /\ \A i, j \in DOMAIN sent'[t] : i < j => sent'[t][i] < sent'[t][j]
    BY <1>9, <2>2, <2>3, <2>5, <2>6, <2>7
  <2>9. ASSUME NEW s \in Threads, s # t
        PROVE  /\ \A i \in DOMAIN sent'[s] : sent'[s][i] \in RunIds'
               /\ \A i, j \in DOMAIN sent'[s] : i < j => sent'[s][i] < sent'[s][j]
    BY <1>3, <1>8, <2>9 DEF LandInv, SentInOrder
  <2> QED
    BY <2>8, <2>9 DEF SentInOrder
<1>12. InputsSent'
  <2> SUFFICES ASSUME NEW r \in RunIds', IsInput(r)'
               PROVE  \E i \in DOMAIN sent'[runs'[r].thread] : sent'[runs'[r].thread][i] = runs'[r].origin
    BY DEF InputsSent
  <2>1. CASE r = n
    <3>1. sent' = [sent EXCEPT ![t] = Append(sent[t], n)]
      BY <1>3, <2>1 DEF IsInput
    <3>2. sent'[t] = Append(q, n)
      BY <1>2, <1>6, <3>1
    <3> QED
      BY <1>3, <1>7, <2>1, <3>2
  <2>2. CASE r \in RunIds
    <3>1. runs'[r] = runs[r] /\ runs[r].thread \in Threads /\ IsInput(r)
      BY <1>2, <1>3, <2>2, RowFields DEF IsInput
    <3>2. PICK i \in DOMAIN sent[runs[r].thread] : sent[runs[r].thread][i] = runs[r].origin
      BY <2>2, <3>1 DEF LandInv, InputsSent
    <3> QED
      BY <1>10, <3>1, <3>2
  <2> QED
    BY <1>3, <2>1, <2>2
<1> QED
  BY <1>2, <1>3, <1>4, <1>5, <1>10, <1>11, <1>12, LandAdds

LEMMA ReplaceLand == ASSUME IInv, KeepInv, OriginsOld, LandInv, ReplaceRun PROVE LandInv'
<1>1. PICK k, n, row :
         /\ k \in Owed(limbo) /\ Added(n, row) /\ row.thread = runs[limbo].thread /\ row.kind = k
         /\ row.status = "pending" /\ row.origin = runs[limbo].origin
  BY ReplaceRows
<1>2. /\ limbo \in RunIds /\ limbo' = 0 /\ UNCHANGED <<ckpt, sent, pc, job>>
  BY ReplaceRows
<1>3. /\ n \notin RunIds /\ RunIds' = RunIds \cup {n} /\ runs'[n] = row /\ \A r \in RunIds : runs'[r] = runs[r]
  BY <1>1 DEF Added
<1>4. \A r \in RunIds : Live(r)' => Live(r)
  BY <1>2, <1>3, RowFields DEF Live, IInv
<1>5. PICK t \in Threads, c \in Checkpoint, o \in Nat : t = runs[limbo].thread /\ c = ckpt[t] /\ o = runs[limbo].origin
  BY <1>2, RowFields DEF IInv, TypeOK
<1>6. ASSUME IsInput(n)' PROVE IsInput(limbo) /\ ~HasLanded(o, t)
  <2>1. k \in {"message", "input"}
    BY <1>1, <1>3, <1>6 DEF IsInput
  <2>2. k = runs[limbo].kind
    BY <1>1, <2>1 DEF Owed
  <2>3. Live(limbo) /\ IsInput(limbo)
    BY <2>1, <2>2 DEF Live, IsInput
  <2>4. CASE k = "message"
    <3>1. limbo \notin Inbox(t)
      BY <1>1, <1>5, <2>2, <2>4 DEF Owed, Inbox
    <3> QED
      BY <1>2, <1>5, <2>3, <3>1 DEF LandInv, NotYet, CameIn
  <2>5. CASE k = "input"
    <3>1. ~c.values
      BY <1>1, <1>5, <2>2, <2>5 DEF Owed
    <3>2. c.inbox = <<>>
      BY <1>5, <3>1 DEF KeepInv, CheckpointsSound, Sound
    <3>3. Inbox(t) = {}
      BY <1>5, <3>2 DEF Inbox
    <3> QED
      BY <2>3, <3>3 DEF HasLanded
  <2> QED
    BY <2>1, <2>4, <2>5
<1>7. IsInput(n)' => ~CameIn(n)'
  <2> SUFFICES ASSUME IsInput(n)', CameIn(n)' PROVE FALSE
    OBVIOUS
  <2>1. PICK r \in Inbox(t) : runs'[r].origin = o
    BY <1>1, <1>2, <1>3, <1>5 DEF CameIn, HasLanded, Inbox
  <2>2. r \in RunIds
    BY <2>1 DEF KeepInv, InboxRows, RunsOf
  <2> QED
    BY <1>3, <1>6, <2>1, <2>2 DEF HasLanded
<1>8. SentInOrder'
  BY <1>2, <1>3 DEF LandInv, SentInOrder
<1>9. InputsSent'
  <2> SUFFICES ASSUME NEW r \in RunIds', IsInput(r)'
               PROVE  \E i \in DOMAIN sent[runs'[r].thread] : sent[runs'[r].thread][i] = runs'[r].origin
    BY <1>2 DEF InputsSent
  <2>1. CASE r = n
    BY <1>1, <1>2, <1>3, <1>6, <2>1 DEF LandInv, InputsSent
  <2>2. CASE r \in RunIds
    BY <1>3, <2>2 DEF LandInv, InputsSent, IsInput
  <2> QED
    BY <1>3, <2>1, <2>2
<1> QED
  BY <1>1, <1>2, <1>4, <1>7, <1>8, <1>9, LandAdds

LEMMA BootLand == ASSUME IInv, KeepInv, OriginsOld, LandInv, Boot PROVE LandInv'
<1>1. CASE Restart \/ Ready
  <2>1. UNCHANGED <<runs, ckpt, sent, limbo, pc, job>>
    BY <1>1 DEF Restart, Ready, disk
  <2>2. RowsKept /\ RunIds' = RunIds /\ LandersStay /\ \A r \in RunIds : Live(r)' => Live(r)
    BY <2>1 DEF RowsKept, SameRun, RunIds, LandersStay, Active, Live
  <2> QED
    BY <2>1, <2>2, LandStays
<1>2. CASE CancelRun
  <2>1. /\ limbo' \in RunIds /\ runs[limbo'].status = "running" /\ runs'[limbo'].status = "cancelled"
        /\ RunIds' = RunIds /\ \A s \in RunIds : SameRun(s) /\ (s # limbo' => runs'[s] = runs[s])
        /\ UNCHANGED <<ckpt, sent, pc, job>>
    BY <1>2, CancelRows DEF WithStatus
  <2>2. /\ RowsKept /\ LandersStay
        /\ \A s \in RunIds : (runs'[s].status = "pending" => runs[s].status = "pending") /\ (Live(s)' => Live(s))
    BY <2>1 DEF RowsKept, LandersStay, Active, Live
  <2> QED
    BY <2>1, <2>2, LandStays
<1>3. CASE DropRun
  <2>1. UNCHANGED <<runs, ckpt, sent, pc, job>> /\ limbo' = 0
    BY <1>3 DEF DropRun, disk
  <2>2. /\ RowsKept /\ RunIds' = RunIds /\ LandersStay
        /\ \A s \in RunIds : s # 0
    BY <2>1, RowFields DEF RowsKept, SameRun, RunIds, LandersStay, Active, IInv
  <2>3. \A s \in RunIds : (runs'[s].status = "pending" => runs[s].status = "pending") /\ (Live(s)' => Live(s))
    BY <2>1, <2>2 DEF Live
  <2> QED
    BY <2>1, <2>2, <2>3, LandStays
<1> QED
  BY <1>1, <1>2, <1>3, ReplaceLand DEF Boot

LEMMA CrashLand == ASSUME IInv, KeepInv, LandInv, Crash PROVE LandInv'
<1>1. UNCHANGED <<runs, ckpt, sent>> /\ limbo' = 0 /\ \A w \in Workers : pc'[w] = "idle"
  BY DEF Crash, Fresh, disk
<1>2. RowsKept /\ RunIds' = RunIds /\ LandersStay /\ \A s \in RunIds : s # 0
  BY <1>1, RowFields DEF RowsKept, SameRun, RunIds, LandersStay, Active, IInv
<1>3. \A r \in RunIds : (runs'[r].status = "pending" => runs[r].status = "pending") /\ (Live(r)' => Live(r))
  BY <1>1, <1>2 DEF Live
<1> QED
  BY <1>1, <1>2, <1>3, LandStays

\* The input that run j carries is the next of its thread's mail, and lands.
Delivers(t, j) ==
    /\ j \in RunIds
    /\ \E k \in DOMAIN sent[t] : sent[t][k] = runs[j].origin /\ k = Len(ckpt[t].inbox) + 1
    /\ ckpt'[t].inbox = Append(ckpt[t].inbox, j)
    /\ \A s \in Threads : s # t => ckpt'[s].inbox = ckpt[s].inbox

\* A run lands its input when everything its thread was sent before has landed:
\* what has not has a live run, and that would be before this one.
LEMMA NextToLand ==
    ASSUME IInv, KeepInv, LiveInOrder, LandInv, NEW w \in Workers, Active(w), pc[w] = "input", IsInput(job[w]),
           NEW t \in Threads, t = ThreadOf(w), NEW q \in Seq(Nat), q = ckpt[t].inbox
    PROVE  \E k \in DOMAIN sent[t] : sent[t][k] = runs[job[w]].origin /\ k = Len(q) + 1
<1>1. PICK j \in RunIds : j = job[w] /\ runs[j].status = "running" /\ runs[j].thread = t /\ IsInput(j)
  BY DEF IInv, JobsRun, ThreadOf
<1>2. PICK o \in Nat : o = runs[j].origin
  BY RowFields DEF IInv
<1>3. PICK k \in DOMAIN sent[t] : sent[t][k] = o
  BY <1>1, <1>2 DEF LandInv, InputsSent
<1>4. PICK m \in Nat : m = Len(q) /\ DOMAIN q = 1 .. m
  BY SeqDomain
<1>5. PICK mail \in Seq(Nat), l \in Nat : mail = sent[t] /\ DOMAIN mail = 1 .. l
  <2>1. sent[t] \in Seq(Nat)
    BY DEF IInv, TypeOK
  <2> QED
    BY <2>1, SeqDomain
<1>6. \A i \in 1 .. m : i \in DOMAIN mail /\ q[i] \in Inbox(t) /\ runs[q[i]].origin = mail[i]
  BY <1>4, <1>5 DEF LandInv, LandedSent, Inbox
<1>7. ~HasLanded(o, t)
  BY <1>1, <1>2 DEF LandInv, NotYet, CameIn
<1>8. k \in 1 .. l /\ mail[k] = o /\ k > m
  <2>1. k \in 1 .. l /\ mail[k] = o
    BY <1>3, <1>5
  <2>2. ASSUME k \in 1 .. m PROVE FALSE
    BY <1>6, <1>7, <2>1, <2>2 DEF HasLanded
  <2> QED
    BY <1>4, <1>5, <2>1, <2>2
<1>9. ASSUME k > m + 1 PROVE FALSE
  <2>1. m + 1 \in 1 .. l /\ m + 1 < k
    BY <1>8, <1>9
  <2>2. PICK p \in Nat : p = mail[m + 1] /\ p < o
    <3>1. \A a, b \in DOMAIN mail : a < b => mail[a] < mail[b]
      BY <1>5 DEF LandInv, SentInOrder
    <3>2. \A a \in DOMAIN mail : mail[a] \in Nat
      <4>1. mail \in Seq(Nat)
        BY <1>5
      <4> QED
        BY <4>1
    <3>3. PICK a : a = m + 1 /\ a \in DOMAIN mail /\ k \in DOMAIN mail /\ a < k
      BY <1>5, <1>8, <2>1
    <3>4. mail[a] \in Nat /\ mail[a] < mail[k]
      BY <3>1, <3>2, <3>3
    <3> QED
      BY <1>8, <3>3, <3>4
  <2>3. ~HasLanded(p, t)
    <3> SUFFICES ASSUME HasLanded(p, t) PROVE FALSE
      OBVIOUS
    <3>1. PICK i \in 1 .. m : runs[q[i]].origin = p
      BY <1>4 DEF HasLanded, Inbox
    <3>2. mail[i] = p /\ i \in 1 .. l /\ i < m + 1
      <4>1. i \in DOMAIN mail /\ runs[q[i]].origin = mail[i]
        BY <1>6, <3>1
      <4>2. i < m + 1
        OBVIOUS
      <4> QED
        BY <1>5, <3>1, <4>1, <4>2
    <3>4. \A a, b \in DOMAIN mail : a < b => mail[a] < mail[b]
      BY <1>5 DEF LandInv, SentInOrder
    <3>3. mail[i] < mail[m + 1]
      BY <1>5, <2>1, <3>2, <3>4
    <3> QED
      BY <2>2, <3>2, <3>3
  <2>4. PICK r \in RunIds : runs[r].thread = t /\ Live(r) /\ runs[r].origin = p
    <3>1. m + 1 \in DOMAIN sent[t] /\ sent[t][m + 1] = p
      BY <1>5, <2>1, <2>2
    <3>2. \E r \in RunsOf(t) : Live(r) /\ IsInput(r) /\ runs[r].origin = p
      BY <2>3, <3>1 DEF KeepInv, Carried
    <3> QED
      BY <3>2 DEF RunsOf
  <2>5. r # j /\ Live(j) /\ runs[j].status # "pending"
    BY <1>1, <1>2, <2>2, <2>4 DEF Live
  <2>6. runs[j].origin < runs[r].origin
    BY <1>1, <2>4, <2>5 DEF LiveInOrder
  <2> QED
    BY <1>2, <2>2, <2>4, <2>6
<1>10. k = m + 1
  BY <1>8, <1>9
<1> QED
  BY <1>1, <1>2, <1>3, <1>4, <1>10

\* A step of the graph lands the next input of its thread, or none at all.
LEMMA GraphDelivers ==
    ASSUME IInv, KeepInv, LiveInOrder, LandInv, NEW w \in Workers, Graph(w), NEW t, t = ThreadOf(w)
    PROVE  /\ UNCHANGED <<runs, sent, limbo, job>> /\ t \in Threads
           /\ \E p \in {"input", "loop"} \cup Outcomes :
                 /\ pc' = [pc EXCEPT ![w] = p] /\ (p = "input" => Active(w) /\ pc[w] = "open")
                 /\ \/ \A s \in Threads : ckpt'[s].inbox = ckpt[s].inbox
                    \/ Delivers(t, job[w]) /\ Inbox(t)' = Inbox(t) \cup {job[w]}
                       /\ p = "loop" /\ Active(w) /\ pc[w] = "input" /\ IsInput(job[w])
<1>1. PICK c, d, p : GraphMove(w, c, d, p)
  BY GraphMoves
<1>2. Active(w) /\ t \in Threads /\ job[w] \in RunIds /\ job[w] \in Nat /\ InGraph
  BY GraphMoves, RowFields DEF IInv
<1>3. /\ c \in Checkpoint /\ d \in Checkpoint /\ c = ckpt[t] /\ Turn(w, c, d, p) /\ (pc[w] # "open" => c = mem[w])
      /\ pc' = [pc EXCEPT ![w] = p] /\ p \in {"input", "loop"} \cup Outcomes
  BY <1>1 DEF GraphMove
<1>4. Sound(c) /\ (pc[w] = "loop" => c.next)
  BY <1>2, <1>3 DEF KeepInv, CheckpointsSound, WorkersSound
<1>5. /\ \A s \in Threads : s # t => ckpt'[s] = ckpt[s]
      /\ ckpt'[t] = d
      /\ \/ d.inbox = c.inbox
         \/ /\ d.inbox = Append(c.inbox, job[w]) /\ pc[w] = "input" /\ IsInput(job[w]) /\ p = "loop"
            /\ Inbox(t)' = Inbox(t) \cup {job[w]}
  BY <1>1, <1>2, <1>4, TurnInbox
<1>6. p = "input" => pc[w] = "open"
  BY <1>3 DEF Turn, Returns, Lands, Answers, Stays, Asks, Advances
<1>7. CASE d.inbox = c.inbox
  <2>1. \A s \in Threads : ckpt'[s].inbox = ckpt[s].inbox
    BY <1>3, <1>5, <1>7
  <2> QED
    BY <1>2, <1>3, <1>6, <2>1 DEF InGraph
<1>8. CASE d.inbox # c.inbox
  <2>1. PICK q \in Seq(Nat) : q = c.inbox
    BY <1>3 DEF Checkpoint
  <2>2. \E k \in DOMAIN sent[t] : sent[t][k] = runs[job[w]].origin /\ k = Len(q) + 1
    BY <1>2, <1>3, <1>5, <1>8, <2>1, NextToLand
  <2>3. Delivers(t, job[w])
    BY <1>2, <1>3, <1>5, <1>8, <2>1, <2>2 DEF Delivers
  <2> QED
    BY <1>2, <1>3, <1>5, <1>8, <2>3 DEF InGraph
<1> QED
  BY <1>7, <1>8

LEMMA GraphLand ==
    ASSUME IInv, KeepInv, LiveApart, LiveInOrder, LandInv, NEW w \in Workers, Graph(w)
    PROVE  LandInv'
<1>1. PICK t : t = ThreadOf(w)
  OBVIOUS
<1>2. UNCHANGED <<runs, sent, limbo, job>> /\ t \in Threads
  BY <1>1, GraphDelivers
<1>3. PICK p \in {"input", "loop"} \cup Outcomes :
         /\ pc' = [pc EXCEPT ![w] = p] /\ (p = "input" => Active(w) /\ pc[w] = "open")
         /\ \/ \A s \in Threads : ckpt'[s].inbox = ckpt[s].inbox
            \/ Delivers(t, job[w]) /\ Inbox(t)' = Inbox(t) \cup {job[w]}
               /\ p = "loop" /\ Active(w) /\ pc[w] = "input" /\ IsInput(job[w])
  BY <1>1, GraphDelivers
<1>4. SentInOrder' /\ InputsSent' /\ RunIds' = RunIds
  BY <1>2 DEF LandInv, SentInOrder, InputsSent, IsInput, RunIds
<1>5. ASSUME NEW v \in Workers, Active(v)', pc'[v] \in {"open", "input"}
      PROVE  Active(v) /\ pc[v] \in {"open", "input"} /\ (v = w => p = "input")
  <2>1. pc \in [Workers -> {"idle", "open", "input", "loop", "dead"} \cup Outcomes]
    BY DEF IInv, TypeOK
  <2> QED
    BY <1>3, <1>5, <2>1 DEF Active, Outcomes
<1>6. CASE \A s \in Threads : ckpt'[s].inbox = ckpt[s].inbox
  <2>1. \A s \in Threads : Inbox(s)' = Inbox(s)
    BY <1>6 DEF Inbox
  <2>2. ASSUME NEW r \in RunIds PROVE CameIn(r)' <=> CameIn(r)
    <3>1. PICK s \in Threads : s = runs[r].thread
      BY RowFields DEF IInv
    <3>2. (Inbox(runs[r].thread))' = Inbox(s)' /\ Inbox(runs[r].thread) = Inbox(s)
      BY <1>2, <3>1 DEF Inbox
    <3> QED
      BY <1>2, <2>1, <3>1, <3>2 DEF CameIn, IsInput, HasLanded
  <2>3. \A r \in RunIds : (Inbox(runs[r].thread))' = Inbox(runs[r].thread)
    <3> TAKE r \in RunIds
    <3>1. PICK s \in Threads : s = runs[r].thread
      BY RowFields DEF IInv
    <3>2. (Inbox(runs[r].thread))' = Inbox(s)' /\ Inbox(runs[r].thread) = Inbox(s)
      BY <1>2, <3>1 DEF Inbox
    <3> QED
      BY <2>1, <3>2
  <2>4. LandedSent'
    BY <1>2, <1>6 DEF LandInv, LandedSent
  <2>5. NotYet'
    <3>1. ASSUME NEW r \in RunIds, CameIn(r)'
          PROVE  runs'[r].status # "pending" /\ (Live(r)' => r \in (Inbox(runs[r].thread))')
      BY <1>2, <2>2, <2>3, <3>1 DEF LandInv, NotYet, Live
    <3>2. ASSUME NEW v \in Workers, Active(v)', pc'[v] \in {"open", "input"} PROVE ~CameIn(job[v])'
      <4>1. PICK r \in RunIds : r = job[v] /\ r = job'[v]
        BY <1>2, <1>5, <3>2 DEF IInv, JobsRun
      <4>2. ~CameIn(r)'
        BY <1>5, <2>2, <3>2, <4>1 DEF LandInv, NotYet
      <4> QED
        BY <4>1, <4>2 DEF CameIn, IsInput, HasLanded
    <3> QED
      BY <1>4, <3>1, <3>2 DEF NotYet
  <2> QED
    BY <1>4, <2>4, <2>5 DEF LandInv
<1>7. CASE /\ Delivers(t, job[w]) /\ Inbox(t)' = Inbox(t) \cup {job[w]}
           /\ p = "loop" /\ Active(w) /\ pc[w] = "input" /\ IsInput(job[w])
  <2>1. PICK j \in RunIds : j = job[w] /\ runs[j].thread = t /\ runs[j].status = "running"
    BY <1>1, <1>7 DEF IInv, JobsRun, ThreadOf
  <2>2. PICK o : o = runs[j].origin
    OBVIOUS
  <2>3. \A s \in Threads : s # t => ckpt'[s].inbox = ckpt[s].inbox /\ Inbox(s)' = Inbox(s)
    BY <1>7 DEF Delivers, Inbox
  <2>4. ASSUME NEW r \in RunIds, CameIn(r)'
        PROVE  CameIn(r) \/ (runs[r].thread = t /\ runs[r].origin = o)
    <3>1. PICK s \in Threads : s = runs[r].thread
      BY RowFields DEF IInv
    <3>0. IsInput(r) /\ (Inbox(runs[r].thread))' = Inbox(s)'
      BY <1>2, <2>4, <3>1 DEF CameIn, IsInput, Inbox
    <3>2. PICK x \in Inbox(s)' : runs[x].origin = runs[r].origin
      BY <1>2, <2>4, <3>0 DEF CameIn, HasLanded
    <3>3. CASE s = t
      <4>1. x \in Inbox(t) \/ x = j
        BY <1>7, <2>1, <3>2, <3>3
      <4> QED
        BY <2>2, <3>0, <3>1, <3>2, <3>3, <4>1 DEF CameIn, HasLanded
    <3>4. CASE s # t
      BY <2>3, <3>0, <3>1, <3>2, <3>4 DEF CameIn, HasLanded
    <3> QED
      BY <3>3, <3>4
  <2>5. LandedSent'
    <3>1. PICK q \in Seq(Nat) : q = ckpt[t].inbox
      BY <1>2 DEF IInv, TypeOK, Checkpoint
    <3>2. /\ DOMAIN Append(q, j) = DOMAIN q \cup {Len(q) + 1}
          /\ \A i \in DOMAIN q : Append(q, j)[i] = q[i]
          /\ Append(q, j)[Len(q) + 1] = j
      <4>1. j \in Nat
        BY RowFields DEF IInv
      <4>2. q \in Seq(Nat)
        OBVIOUS
      <4> QED
        BY <4>1, <4>2, SeqAppend
    <3>3. PICK k : k \in DOMAIN sent[t] /\ sent[t][k] = o /\ k = Len(q) + 1
      BY <1>7, <2>1, <2>2, <3>1 DEF Delivers
    <3>4. ckpt'[t].inbox = Append(q, j)
      BY <1>7, <2>1, <3>1 DEF Delivers
    <3>5. \A i \in DOMAIN Append(q, j) : i \in DOMAIN sent[t] /\ runs[Append(q, j)[i]].origin = sent[t][i]
      BY <2>2, <3>1, <3>2, <3>3, <1>2 DEF LandInv, LandedSent
    <3>6. \A i \in DOMAIN ckpt'[t].inbox : i \in DOMAIN sent'[t] /\ runs'[ckpt'[t].inbox[i]].origin = sent'[t][i]
      BY <1>2, <3>4, <3>5
    <3>7. ASSUME NEW s \in Threads, s # t
          PROVE  \A i \in DOMAIN ckpt'[s].inbox : i \in DOMAIN sent'[s] /\ runs'[ckpt'[s].inbox[i]].origin = sent'[s][i]
      BY <1>2, <2>3, <3>7 DEF LandInv, LandedSent
    <3> QED
      BY <3>6, <3>7 DEF LandedSent
  <2>6. NotYet'
    <3>1. ASSUME NEW r \in RunIds, CameIn(r)'
          PROVE  runs'[r].status # "pending" /\ (Live(r)' => r \in (Inbox(runs[r].thread))')
      <4>1. PICK s \in Threads : s = runs[r].thread
        BY RowFields DEF IInv
      <4>2. (Inbox(runs[r].thread))' = Inbox(s)' /\ Inbox(s) \subseteq Inbox(s)'
        <5>1. (Inbox(runs[r].thread))' = Inbox(s)'
          BY <1>2, <4>1 DEF Inbox
        <5>2. Inbox(s) \subseteq Inbox(s)'
          BY <1>7, <2>3
        <5> QED
          BY <5>1, <5>2
      <4>3. CASE CameIn(r)
        BY <1>2, <4>1, <4>2, <4>3 DEF LandInv, NotYet, Live
      <4>4. CASE runs[r].thread = t /\ runs[r].origin = o
        <5>1. Live(r) \/ runs[r].status = "pending" => r = j
          BY <2>1, <2>2, <4>4 DEF LiveApart, Live
        <5>2. j \in Inbox(t)' /\ s = t
          BY <1>7, <2>1, <4>1, <4>4
        <5> QED
          BY <1>2, <2>1, <4>2, <5>1, <5>2 DEF Live
      <4> QED
        BY <2>4, <3>1, <4>3, <4>4
    <3>2. ASSUME NEW v \in Workers, Active(v)', pc'[v] \in {"open", "input"} PROVE ~CameIn(job[v])'
      <4>1. Active(v) /\ pc[v] \in {"open", "input"} /\ v # w
        BY <1>5, <1>7, <3>2
      <4>2. PICK r \in RunIds : r = job[v] /\ r = job'[v]
        BY <1>2, <4>1 DEF IInv, JobsRun
      <4>3. runs[r].thread # t
        BY <1>1, <1>7, <4>1, <4>2 DEF IInv, ThreadsApart, ThreadOf
      <4>4. ~CameIn(r)'
        BY <2>4, <4>1, <4>2, <4>3 DEF LandInv, NotYet
      <4> QED
        BY <4>2, <4>4 DEF CameIn, IsInput, HasLanded
    <3> QED
      BY <1>4, <3>1, <3>2 DEF NotYet
  <2> QED
    BY <1>4, <2>5, <2>6 DEF LandInv
<1> QED
  BY <1>3, <1>6, <1>7

LEMMA StepLand ==
    ASSUME IInv, KeepInv, OrderInv, LandInv, [Next]_vars
    PROVE  LandInv'
<1>1. OriginsOld /\ LiveApart /\ LiveInOrder
  BY DEF OrderInv
<1>2. CASE UNCHANGED vars
  <2>1. UNCHANGED <<runs, ckpt, sent, limbo, pc, job>>
    BY <1>2 DEF vars, disk, process
  <2>2. RowsKept /\ RunIds' = RunIds /\ LandersStay /\ \A r \in RunIds : Live(r)' => Live(r)
    BY <2>1 DEF RowsKept, SameRun, RunIds, LandersStay, Active, Live
  <2> QED
    BY <2>1, <2>2, LandStays
<1>3. ASSUME NEW w \in Workers, Work(w) PROVE LandInv'
  BY <1>1, <1>3, GraphLand, RestLand DEF Work
<1> QED
  BY <1>1, <1>2, <1>3, CallLand, BootLand, CrashLand DEF Next

LEMMA InitLand == ASSUME Init PROVE LandInv
<1>1. RunIds = {} /\ \A t \in Threads : ckpt[t].inbox = <<>> /\ sent[t] = <<>>
  BY DEF Init, RunIds, NoCheckpoint
<1>2. SentInOrder /\ InputsSent /\ LandedSent
  BY <1>1 DEF SentInOrder, InputsSent, LandedSent
<1>3. NotYet
  BY <1>1 DEF NotYet, Active, Init
<1> QED
  BY <1>2, <1>3 DEF LandInv

\* What has landed on a thread is the beginning of what it was sent.
THEOREM LandHolds == ASSUME RepoThreads = {}, "boot" \notin CrashIn PROVE Spec => []LandInv
<1>1. Init => LandInv
  BY InitLand
<1>2. IInv /\ KeepInv /\ OrderInv /\ LandInv /\ [Next]_vars => LandInv'
  BY StepLand
<1> QED
  BY <1>1, <1>2, Invariance, KeepHolds, OrderHolds, PTL DEF Spec
-----------------------------------------------------------------------------
(***************************************************************************)
(* How many runs there can be.                                             *)
(***************************************************************************)

LEMMA CountsFinite ==
    ASSUME TypeOK
    PROVE  /\ IsFiniteSet(RunIds) /\ Cardinality(RunIds) = Len(runs)
           /\ \A S \in SUBSET RunIds : IsFiniteSet(S) /\ Cardinality(S) \in Nat
<1>1. PICK n \in Nat : n = Len(runs) /\ RunIds = 1 .. n
  BY Rows
<1>2. IsFiniteSet(1 .. n) /\ Cardinality(1 .. n) = n
  BY FS_Interval
<1>3. \A S \in SUBSET RunIds : IsFiniteSet(S) /\ Cardinality(S) \in Nat
  BY <1>1, <1>2, FS_Subset, FS_CardinalityType
<1> QED
  BY <1>1, <1>2, <1>3

LEMMA CountSets ==
    /\ Originals \subseteq RunIds /\ Replacements \subseteq RunIds /\ Owing \subseteq RunIds
    /\ Originals \cup Replacements = RunIds /\ Originals \cap Replacements = {}
BY DEF Originals, Replacements, Owing, WithStatus

\* No new rows, and no more of them for start to decide about.
LEMMA CountStays ==
    ASSUME TypeOK, CountInv, RunIds' = RunIds, \A r \in RunIds : SameRun(r), crashes' = crashes,
           Owing' \subseteq Owing
    PROVE  CountInv'
<1>1. Originals' = Originals /\ Replacements' = Replacements
  BY DEF Originals, Replacements, SameRun
<1>2. PICK a \in Nat, b \in Nat, c \in Nat, m \in Nat :
        /\ a = Cardinality(Replacements) /\ b = Cardinality(Owing) /\ c = Cardinality(Owing')
        /\ c <= b /\ m = crashes * Cardinality(Workers)
  <2>1. IsFiniteSet(Owing) /\ Cardinality(Owing) \in Nat /\ Cardinality(Replacements) \in Nat
    BY CountsFinite, CountSets
  <2>2. Cardinality(Owing') <= Cardinality(Owing) /\ Cardinality(Owing') \in Nat
    BY <2>1, FS_Subset, FS_CardinalityType
  <2>3. crashes * Cardinality(Workers) \in Nat
    BY PoolAssumption, FS_CardinalityType DEF TypeOK
  <2> QED
    BY <2>1, <2>2, <2>3
<1>3. a + b <= m
  BY <1>2 DEF CountInv
<1>4. a + c <= m
  BY <1>2, <1>3
<1>5. OriginsOld'
  BY DEF CountInv, OriginsOld, SameRun
<1> QED
  BY <1>1, <1>2, <1>4, <1>5 DEF CountInv

LEMMA CallCount == ASSUME IInv, CountInv, NEW t \in Threads, Call(t) PROVE CountInv'
<1>1. PICK n, row : CallAdds(t, n, row)
  BY CallRows
<1>2. phase = "up" /\ phase' = phase /\ crashes' = crashes /\ MaySubmit /\ TypeOK
  BY CallRows DEF IInv
<1>3. /\ n \in Nat /\ n \notin RunIds /\ RunIds' = RunIds \cup {n} /\ runs'[n] = row /\ row.origin = n
      /\ \A r \in RunIds : runs'[r] = runs[r] /\ r < n
  BY <1>1 DEF CallAdds, Added
<1>4. Originals' = Originals \cup {n} /\ n \notin Originals /\ Replacements' = Replacements
  BY <1>3 DEF Originals, Replacements
<1>5. Owing' = Owing
  BY <1>2 DEF Owing
<1>6. IsFiniteSet(Originals) /\ Cardinality(Originals) \in Nat /\ Cardinality(Originals) < MaxSubmits
  BY <1>2, CountsFinite, CountSets DEF MaySubmit, Originals
<1>7. Cardinality(Originals') = Cardinality(Originals) + 1
  BY <1>4, <1>6, FS_AddElement
<1>8. Cardinality(Originals') <= MaxSubmits
  BY <1>6, <1>7, BoundsAssumption
<1>9. OriginsOld'
  BY <1>3 DEF CountInv, OriginsOld
<1> QED
  BY <1>2, <1>4, <1>5, <1>8, <1>9 DEF CountInv

\* A replacement has the origin of an older run, and takes one off what start owes.
LEMMA ReplaceCount == ASSUME IInv, CountInv, ReplaceRun PROVE CountInv'
<1>1. PICK n, row : Added(n, row) /\ row.status = "pending" /\ row.origin = runs[limbo].origin
  BY ReplaceRows
<1>2. /\ limbo \in RunIds /\ runs[limbo].status = "cancelled" /\ limbo' = 0 /\ phase = "boot"
      /\ phase' = phase /\ crashes' = crashes /\ TypeOK
  BY ReplaceRows DEF IInv
<1>3. /\ n \in Nat /\ n \notin RunIds /\ RunIds' = RunIds \cup {n} /\ runs'[n] = row
      /\ \A r \in RunIds : runs'[r] = runs[r] /\ r < n
  BY <1>1 DEF Added
<1>4. runs[limbo].origin <= limbo /\ limbo < n /\ limbo \in Nat /\ runs[limbo].origin \in Nat
  BY <1>2, <1>3, RowFields DEF CountInv, OriginsOld
<1>5. row.origin # n /\ row.origin <= n
  BY <1>1, <1>3, <1>4
<1>6. Originals' = Originals /\ Replacements' = Replacements \cup {n} /\ n \notin Replacements
  BY <1>3, <1>5 DEF Originals, Replacements
<1>7. Owing' = Owing \ {limbo} /\ limbo \in Owing
  <2>1. \A r \in RunIds' : r # 0
    BY <1>2, <1>3, <1>4, RowFields
  <2> QED
    BY <1>1, <1>2, <1>3, <2>1 DEF Owing, WithStatus
<1>8. PICK a \in Nat, b \in Nat, c \in Nat, d \in Int, m \in Nat :
        /\ a = Cardinality(Replacements) /\ b = Cardinality(Owing)
        /\ c = Cardinality(Replacements') /\ c = a + 1
        /\ d = Cardinality(Owing') /\ d = b - 1 /\ m = crashes * Cardinality(Workers)
  <2>1. /\ IsFiniteSet(Owing) /\ Cardinality(Owing) \in Nat
        /\ IsFiniteSet(Replacements) /\ Cardinality(Replacements) \in Nat
    BY <1>2, CountsFinite, CountSets
  <2>2. Cardinality(Replacements') = Cardinality(Replacements) + 1
    BY <1>6, <2>1, FS_AddElement
  <2>3. Cardinality(Owing') = Cardinality(Owing) - 1
    BY <1>7, <2>1, FS_RemoveElement
  <2>4. crashes * Cardinality(Workers) \in Nat
    BY <1>2, PoolAssumption, FS_CardinalityType DEF TypeOK
  <2> QED
    BY <2>1, <2>2, <2>3, <2>4
<1>9. a + b <= m
  BY <1>8 DEF CountInv
<1>10. c + d <= m
  BY <1>8, <1>9
<1>11. OriginsOld'
  BY <1>1, <1>3, <1>5 DEF CountInv, OriginsOld
<1> QED
  BY <1>2, <1>6, <1>8, <1>10, <1>11 DEF CountInv

\* What runs while the engine is up has a worker each.
LEMMA RunningHaveWorkers ==
    ASSUME IInv, phase = "up"
    PROVE  Cardinality(WithStatus("running")) <= Cardinality(Workers)
<1> DEFINE R == WithStatus("running")
<1> DEFINE f == [r \in R |-> CHOOSE w \in Workers : Active(w) /\ job[w] = r]
<1>1. \A r \in R : f[r] \in Workers /\ job[f[r]] = r
  BY DEF IInv, RowsHeld
<1>2. f \in [R -> Workers]
  BY <1>1
<1> HIDE DEF f, R
<1>3. f \in Injection(R, Workers)
  BY <1>1, <1>2 DEF Injection, IsInjective
<1>4. Cardinality(R) <= Cardinality(Workers)
  BY <1>3, PoolAssumption, FS_Injection
<1> QED
  BY <1>4 DEF R

LEMMA CrashCount == ASSUME IInv, CountInv, Crash PROVE CountInv'
<1>1. /\ crashes < MaxCrashes /\ crashes' = crashes + 1 /\ phase' = "down" /\ limbo' = 0
      /\ UNCHANGED runs /\ TypeOK /\ crashes \in Nat
  BY DEF Crash, Fresh, disk, IInv, TypeOK
<1>2. Originals' = Originals /\ Replacements' = Replacements /\ OriginsOld'
  BY <1>1 DEF Originals, Replacements, RunIds, CountInv, OriginsOld
<1>3. Owing' = WithStatus("running")
  <2>1. \A r \in RunIds : r # 0
    BY <1>1, RowFields
  <2> QED
    BY <1>1, <2>1 DEF Owing, WithStatus, RunIds
<1>4. PICK a \in Nat, b \in Nat, c \in Nat, k \in Nat :
        /\ a = Cardinality(Replacements) /\ b = Cardinality(Owing) /\ c = Cardinality(Owing')
        /\ k = Cardinality(Workers)
  <2>1. WithStatus("running") \subseteq RunIds
    BY DEF WithStatus
  <2> QED
    BY <1>1, <1>3, <2>1, CountsFinite, CountSets, PoolAssumption, FS_CardinalityType
<1>5. c <= b + k
  <2>1. CASE phase = "up"
    BY <1>3, <1>4, <2>1, RunningHaveWorkers
  <2>2. CASE phase # "up"
    <3>1. Owing' \subseteq Owing
      BY <1>3, <2>2 DEF Owing
    <3>2. IsFiniteSet(Owing)
      BY <1>1, CountsFinite, CountSets
    <3>3. Cardinality(Owing') <= Cardinality(Owing)
      BY <3>1, <3>2, FS_Subset
    <3> QED
      BY <1>4, <3>3
  <2> QED
    BY <2>1, <2>2
<1>6. a + b <= crashes * k
  BY <1>4 DEF CountInv
<1>7. (crashes + 1) * k = crashes * k + k /\ crashes * k \in Nat
  BY <1>1
<1>8. a + c <= (crashes + 1) * k
  BY <1>5, <1>6, <1>7
<1>9. crashes' <= MaxCrashes
  BY <1>1, BoundsAssumption
<1> QED
  BY <1>1, <1>2, <1>4, <1>8, <1>9 DEF CountInv

LEMMA WorkCount == ASSUME IInv, CountInv, NEW w \in Workers, Work(w) PROVE CountInv'
<1>1. TypeOK
  BY DEF IInv
<1>2. CASE Graph(w) \/ Defer(w) \/ TakeDies(w)
  <2>1. UNCHANGED <<runs, phase, crashes>> /\ phase = "up"
    BY <1>2, GraphMoves DEF InGraph, Defer, TakeDies, Idle, disk
  <2>2. RunIds' = RunIds /\ (\A r \in RunIds : SameRun(r)) /\ Owing' \subseteq Owing
    BY <2>1 DEF RunIds, SameRun, Owing
  <2> QED
    BY <1>1, <2>1, <2>2, CountStays
<1>3. CASE Take(w) \/ Settle(w) \/ SettleAndDie(w) \/ SettleAndNext(w)
  <2>1. UNCHANGED <<phase, crashes>> /\ phase = "up" /\ RunIds' = RunIds /\ \A r \in RunIds : SameRun(r)
    BY <1>3, TakeRows, SettleRows, NextRows DEF Starts, Ends
  <2>2. Owing' \subseteq Owing
    BY <2>1 DEF Owing
  <2> QED
    BY <1>1, <2>1, <2>2, CountStays
<1> QED
  BY <1>2, <1>3 DEF Work

LEMMA BootCount == ASSUME IInv, CountInv, Boot PROVE CountInv'
<1>1. TypeOK
  BY DEF IInv
<1>2. CASE Restart \/ Ready \/ DropRun
  <2>1. UNCHANGED <<runs, crashes>> /\ phase # "up"
    BY <1>2 DEF Restart, Ready, DropRun, disk, IInv, LimboCancelled
  <2>2. limbo' = limbo \/ limbo' = 0
    BY <1>2 DEF Restart, Ready, DropRun
  <2>3. RunIds' = RunIds /\ (\A r \in RunIds : SameRun(r) /\ r # 0) /\ WithStatus("running")' = WithStatus("running")
    BY <1>1, <2>1, RowFields DEF RunIds, SameRun, WithStatus
  <2>4. Owing' \subseteq Owing
    BY <2>1, <2>2, <2>3 DEF Owing
  <2> QED
    BY <1>1, <2>1, <2>3, <2>4, CountStays
<1>3. CASE CancelRun
  <2>1. /\ limbo' \in WithStatus("running") /\ runs'[limbo'].status = "cancelled"
        /\ RunIds' = RunIds /\ \A s \in RunIds : SameRun(s) /\ (s # limbo' => runs'[s] = runs[s])
        /\ phase = "boot" /\ UNCHANGED <<phase, crashes>>
    BY <1>3, CancelRows
  <2>2. Owing' \subseteq Owing
    BY <2>1 DEF Owing, WithStatus
  <2> QED
    BY <1>1, <2>1, <2>2, CountStays
<1> QED
  BY <1>2, <1>3, ReplaceCount DEF Boot

LEMMA StepCount == ASSUME IInv, CountInv, [Next]_vars PROVE CountInv'
<1>1. CASE UNCHANGED vars
  <2>1. UNCHANGED <<runs, phase, limbo, crashes>> /\ TypeOK
    BY <1>1 DEF vars, disk, process, IInv
  <2>2. RunIds' = RunIds /\ (\A r \in RunIds : SameRun(r)) /\ Owing' \subseteq Owing
    BY <2>1 DEF RunIds, SameRun, Owing, WithStatus
  <2> QED
    BY <2>1, <2>2, CountStays
<1> QED
  BY <1>1, CallCount, WorkCount, BootCount, CrashCount DEF Next

LEMMA InitCount == ASSUME Init PROVE CountInv
<1>1. RunIds = {} /\ crashes = 0
  BY DEF Init, RunIds
<1>2. Originals = {} /\ Replacements = {} /\ Owing = {} /\ OriginsOld
  BY <1>1 DEF Originals, Replacements, Owing, WithStatus, OriginsOld
<1>3. Cardinality({}) = 0
  BY FS_EmptySet
<1>4. PICK k \in Nat : k = Cardinality(Workers)
  BY PoolAssumption, FS_CardinalityType
<1>5. 0 + 0 <= 0 * k
  OBVIOUS
<1> QED
  BY <1>1, <1>2, <1>3, <1>4, <1>5, BoundsAssumption DEF CountInv

\* One more call is within the bound, and so is everything else.
LEMMA WithinBound ==
    ASSUME TypeOK, CountInv
    PROVE  /\ Len(runs) <= RunBound
           /\ MaySubmit => Len(runs) + 1 <= RunBound
<1>1. PICK n \in Nat, a \in Nat, b \in Nat, o \in Nat, k \in Nat :
        /\ n = Len(runs) /\ a = Cardinality(Originals) /\ b = Cardinality(Replacements)
        /\ o = Cardinality(Owing) /\ k = Cardinality(Workers)
  <2>1. Len(runs) \in Nat
    BY LenProperties DEF TypeOK
  <2> QED
    BY <2>1, CountsFinite, CountSets, PoolAssumption, FS_CardinalityType
<1>2. n = a + b
  <2>1. IsFiniteSet(Originals) /\ IsFiniteSet(Replacements)
    BY CountsFinite, CountSets
  <2>2. Cardinality(Originals \cup Replacements)
          = Cardinality(Originals) + Cardinality(Replacements) - Cardinality(Originals \cap Replacements)
    BY <2>1, FS_Union
  <2>3. Cardinality(RunIds) = n /\ Cardinality({}) = 0
    BY <1>1, CountsFinite, FS_EmptySet
  <2>4. Originals \cup Replacements = RunIds /\ Originals \cap Replacements = {}
    BY CountSets
  <2>5. Cardinality(Originals \cup Replacements) = n /\ Cardinality(Originals \cap Replacements) = 0
    BY <2>3, <2>4
  <2> QED
    BY <1>1, <2>2, <2>5
<1>3. a <= MaxSubmits /\ crashes <= MaxCrashes /\ crashes \in Nat /\ b + o <= crashes * k
  BY <1>1 DEF CountInv, TypeOK
<1>4. crashes * k <= MaxCrashes * k /\ crashes * k \in Nat /\ MaxCrashes * k \in Nat
  <2>1. PICK d \in Nat : MaxCrashes = crashes + d
    <3>1. MaxCrashes - crashes \in Nat /\ MaxCrashes = crashes + (MaxCrashes - crashes)
      BY <1>3, BoundsAssumption
    <3> QED
      BY <3>1
  <2>2. (crashes + d) * k = crashes * k + d * k /\ d * k \in Nat /\ crashes * k \in Nat
    BY <1>3
  <2> QED
    BY <2>1, <2>2
<1>5. RunBound = MaxSubmits + MaxCrashes * k
  BY <1>1 DEF RunBound
<1>6. MaySubmit => a < MaxSubmits
  BY <1>1 DEF MaySubmit, Originals
<1> QED
  BY <1>1, <1>2, <1>3, <1>4, <1>5, <1>6, BoundsAssumption

\* No sequence of calls, crashes and recoveries makes more runs than the bound
\* counts: what EveryRunEnds says of the runs up to it, it says of every run.
THEOREM RunsBounded == Spec => []RunsAreBounded
<1>1. Init => CountInv
  BY InitCount
<1>2. IInv /\ CountInv /\ [Next]_vars => CountInv'
  BY StepCount
<1>3. IInv /\ CountInv => RunsAreBounded
  BY WithinBound DEF IInv, RunsAreBounded
<1> QED
  BY <1>1, <1>2, <1>3, Invariance, PTL DEF Spec
-----------------------------------------------------------------------------
(***************************************************************************)
(* The run manager implements the mailbox.                                 *)
(***************************************************************************)

LEMMA LandedIsSeq ==
    ASSUME IInv, KeepInv, NEW t \in Threads, NEW q \in Seq(Nat), q = ckpt[t].inbox
    PROVE  /\ Landed(t) \in Seq(Nat) /\ Len(Landed(t)) = Len(q) /\ DOMAIN Landed(t) = DOMAIN q
           /\ \A i \in DOMAIN q : q[i] \in RunIds /\ Landed(t)[i] = runs[q[i]].origin
<1>1. PICK n \in Nat : n = Len(q) /\ DOMAIN q = 1 .. n
  BY SeqDomain
<1>2. ASSUME NEW i \in 1 .. n PROVE q[i] \in RunIds /\ runs[q[i]].origin \in Nat
  <2>1. PICK r : r = q[i]
    OBVIOUS
  <2>2. r \in Inbox(t)
    BY <1>1, <2>1 DEF Inbox
  <2>3. r \in RunIds
    BY <2>2 DEF KeepInv, InboxRows, RunsOf
  <2> QED
    BY <2>1, <2>3, RowFields DEF IInv
<1>3. /\ DOMAIN Landed(t) = 1 .. n
      /\ \A i \in 1 .. n : Landed(t)[i] = runs[q[i]].origin
      /\ Landed(t) = [i \in 1 .. n |-> runs[q[i]].origin]
  BY <1>1 DEF Landed
<1>4. Landed(t) \in [1 .. n -> Nat]
  BY <1>2, <1>3
<1>5. Landed(t) \in Seq(Nat)
  BY <1>4
<1>6. Len(Landed(t)) = n
  BY <1>3, <1>5, SeqDomain
<1> QED
  BY <1>1, <1>2, <1>3, <1>5, <1>6

\* The same, of every thread: a state's fact, for the state after a step too.
LandedWell ==
    \A t \in Threads :
        /\ Landed(t) \in Seq(Nat) /\ Len(Landed(t)) = Len(ckpt[t].inbox)
        /\ \A i \in DOMAIN ckpt[t].inbox : Landed(t)[i] = runs[ckpt[t].inbox[i]].origin

LEMMA LandsWell == ASSUME IInv, KeepInv PROVE LandedWell
<1> SUFFICES ASSUME NEW t \in Threads
             PROVE  /\ Landed(t) \in Seq(Nat) /\ Len(Landed(t)) = Len(ckpt[t].inbox)
                    /\ \A i \in DOMAIN ckpt[t].inbox : Landed(t)[i] = runs[ckpt[t].inbox[i]].origin
  BY DEF LandedWell
<1>1. PICK q \in Seq(Nat) : q = ckpt[t].inbox
  BY DEF IInv, TypeOK, Checkpoint
<1> QED
  BY <1>1, LandedIsSeq

\* What has landed is a matter of the inboxes and of the origins of the rows.
LEMMA LandedAsBefore ==
    ASSUME IInv, KeepInv, RowsKept, NEW t \in Threads, ckpt'[t].inbox = ckpt[t].inbox
    PROVE  Landed(t)' = Landed(t)
<1>1. \A i \in DOMAIN ckpt[t].inbox : ckpt[t].inbox[i] \in RunIds
  BY DEF KeepInv, InboxRows, Inbox, RunsOf
<1>2. \A i \in DOMAIN ckpt[t].inbox : runs'[ckpt[t].inbox[i]].origin = runs[ckpt[t].inbox[i]].origin
  BY <1>1 DEF RowsKept, SameRun
<1> QED
  BY <1>2 DEF Landed

LEMMA MailStays ==
    ASSUME IInv, KeepInv, RowsKept, \A t \in Threads : ckpt'[t].inbox = ckpt[t].inbox
    PROVE  [t \in Threads |-> Landed(t)]' = [t \in Threads |-> Landed(t)]
BY LandedAsBefore

\* Taking, ending or cancelling a run says nothing new to the mailbox.
LEMMA RowsStay ==
    ASSUME IInv, \/ \E w \in Workers : Defer(w) \/ TakeDies(w) \/ Take(w)
                                       \/ Settle(w) \/ SettleAndDie(w) \/ SettleAndNext(w)
                 \/ Boot \/ Crash \/ UNCHANGED vars
    PROVE  RowsKept /\ UNCHANGED <<ckpt, sent>>
<1>1. CASE \E w \in Workers : Defer(w) \/ TakeDies(w)
  BY <1>1 DEF Defer, TakeDies, disk, RowsKept, SameRun, RunIds
<1>2. ASSUME NEW w \in Workers, Take(w) PROVE RowsKept /\ UNCHANGED <<ckpt, sent>>
  BY <1>2, TakeRows DEF Starts, RowsKept
<1>3. ASSUME NEW w \in Workers, Settle(w) \/ SettleAndDie(w) PROVE RowsKept /\ UNCHANGED <<ckpt, sent>>
  BY <1>3, SettleRows DEF Ends, RowsKept
<1>4. ASSUME NEW w \in Workers, SettleAndNext(w) PROVE RowsKept /\ UNCHANGED <<ckpt, sent>>
  BY <1>4, NextRows DEF Ends, RowsKept
<1>5. CASE CancelRun
  BY <1>5, CancelRows DEF RowsKept
<1>6. CASE ReplaceRun
  BY <1>6, ReplaceRows DEF RowsKept, Added, SameRun
<1>7. CASE Restart \/ Ready \/ DropRun \/ Crash \/ UNCHANGED vars
  BY <1>7 DEF Restart, Ready, DropRun, Crash, vars, disk, RowsKept, SameRun, RunIds
<1> QED
  BY <1>1, <1>2, <1>3, <1>4, <1>5, <1>6, <1>7 DEF Boot

LEMMA CallMail ==
    ASSUME IInv, KeepInv, CountInv, NEW t \in Threads, Call(t)
    PROVE  [Mail!Next]_<<sent, [s \in Threads |-> Landed(s)]>>
<1>1. PICK n, row : CallAdds(t, n, row)
  BY CallRows
<1>2. UNCHANGED ckpt /\ MaySubmit /\ TypeOK
  BY CallRows DEF IInv
<1>3. [s \in Threads |-> Landed(s)]' = [s \in Threads |-> Landed(s)]
  <2>1. RowsKept
    BY <1>1 DEF CallAdds, Added, RowsKept, SameRun
  <2> QED
    BY <1>2, <2>1, MailStays
<1>4. n \in 1 .. RunBound
  <2>1. PICK m \in Nat : m = Len(runs) /\ n = m + 1
    BY <1>1, <1>2, Rows DEF CallAdds
  <2>2. m + 1 <= RunBound
    BY <1>2, <2>1, WithinBound
  <2>3. RunBound \in Nat
    <3>1. PICK k \in Nat : k = Cardinality(Workers)
      BY PoolAssumption, FS_CardinalityType
    <3>2. MaxCrashes * k \in Nat
      BY BoundsAssumption
    <3> QED
      BY <3>1, <3>2, BoundsAssumption DEF RunBound
  <2> QED
    BY <2>1, <2>2, <2>3
<1>5. CASE sent' = sent
  BY <1>3, <1>5
<1>6. CASE sent' = [sent EXCEPT ![t] = Append(sent[t], n)]
  <2>1. Mail!Accept(t)
    BY <1>3, <1>4, <1>6 DEF Mail!Accept
  <2> QED
    BY <2>1 DEF Mail!Next
<1> QED
  BY <1>1, <1>5, <1>6 DEF CallAdds

LEMMA GraphMail ==
    ASSUME IInv, KeepInv, LiveInOrder, LandInv, LandedWell', NEW w \in Workers, Graph(w)
    PROVE  [Mail!Next]_<<sent, [s \in Threads |-> Landed(s)]>>
<1>1. PICK t : t = ThreadOf(w)
  OBVIOUS
<1>2. UNCHANGED <<runs, sent>> /\ t \in Threads /\ RowsKept
  BY <1>1, GraphDelivers DEF RowsKept, SameRun, RunIds
<1>3. CASE \A s \in Threads : ckpt'[s].inbox = ckpt[s].inbox
  BY <1>2, <1>3, MailStays
<1>4. CASE Delivers(t, job[w])
  <2>1. PICK j \in RunIds, k \in DOMAIN sent[t] :
          j = job[w] /\ sent[t][k] = runs[j].origin /\ k = Len(ckpt[t].inbox) + 1
    BY <1>4 DEF Delivers
  <2>2. PICK q \in Seq(Nat) : q = ckpt[t].inbox
    BY <1>2 DEF IInv, TypeOK, Checkpoint
  <2>3. PICK l \in Seq(Nat) : l = Landed(t)
    BY <1>2, <2>2, LandedIsSeq
  <2>4. Len(l) = Len(q) /\ DOMAIN l = DOMAIN q /\ \A i \in DOMAIN q : l[i] = runs[q[i]].origin
    BY <1>2, <2>2, <2>3, LandedIsSeq
  <2>5. PICK m \in Nat : m = Len(q) /\ DOMAIN q = 1 .. m
    BY SeqDomain
  <2>6. PICK mail \in Seq(Nat), z \in Nat : mail = sent[t] /\ z = Len(mail) /\ DOMAIN mail = 1 .. z
    <3>1. sent[t] \in Seq(Nat)
      BY <1>2 DEF IInv, TypeOK
    <3> QED
      BY <3>1, SeqDomain
  <2>7. m + 1 \in 1 .. z /\ mail[m + 1] = runs[j].origin
    BY <2>1, <2>2, <2>5, <2>6
  <2>8. PICK o \in Nat : o = runs[j].origin
    BY <2>1, RowFields DEF IInv
  <2>9. Landed(t)' = Append(l, o)
    <3>1. PICK r \in Seq(Nat) : r = ckpt'[t].inbox /\ r = Append(q, j)
      <4>1. j \in Nat
        BY RowFields DEF IInv
      <4> QED
        BY <1>4, <2>1, <2>2, <4>1, SeqAppend DEF Delivers
    <3>2. PICK h \in Seq(Nat) : h = Landed(t)' /\ Len(h) = Len(r) /\ \A i \in DOMAIN r : h[i] = runs[r[i]].origin
      <4>1. /\ Landed(t)' \in Seq(Nat) /\ Len(Landed(t)') = Len(r)
            /\ \A i \in DOMAIN r : Landed(t)'[i] = runs'[r[i]].origin
        BY <1>2, <3>1 DEF LandedWell
      <4> QED
        BY <1>2, <4>1
    <3>3. /\ Len(r) = m + 1 /\ \A i \in 1 .. m : r[i] = q[i]
          /\ r[m + 1] = j
      <4>1. j \in Nat
        BY RowFields DEF IInv
      <4>2. Len(Append(q, j)) = Len(q) + 1 /\ (\A i \in 1 .. Len(q) : Append(q, j)[i] = q[i]) /\ Append(q, j)[Len(q) + 1] = j
        BY <4>1, AppendProperties
      <4> QED
        BY <2>5, <3>1, <4>2
    <3>4. DOMAIN r = 1 .. m + 1
      BY <3>3, SeqDomain
    <3>5. \A i \in 1 .. m : h[i] = l[i]
      <4> TAKE i \in 1 .. m
      <4>1. i \in DOMAIN r /\ i \in DOMAIN q
        BY <2>5, <3>4
      <4> QED
        BY <2>4, <3>2, <3>3, <4>1
    <3>6. h[m + 1] = o
      <4>1. m + 1 \in DOMAIN r
        BY <3>4
      <4> QED
        BY <2>8, <3>2, <3>3, <4>1
    <3>7. PICK g \in Seq(Nat) : g = Append(l, o) /\ Len(g) = m + 1 /\ (\A i \in 1 .. m : g[i] = l[i]) /\ g[m + 1] = o
      <4>1. /\ Append(l, o) \in Seq(Nat)
            /\ Len(Append(l, o)) = Len(l) + 1 /\ (\A i \in 1 .. Len(l) : Append(l, o)[i] = l[i])
            /\ Append(l, o)[Len(l) + 1] = o
        BY AppendProperties
      <4>2. Len(l) = m
        BY <2>4, <2>5
      <4> QED
        BY <4>1, <4>2
    <3>8. Len(h) = Len(g)
      BY <3>2, <3>3, <3>7
    <3>9. \A i \in 1 .. Len(h) : h[i] = g[i]
      <4>1. Len(h) = m + 1
        BY <3>2, <3>3
      <4>2. \A i \in 1 .. m + 1 : i \in 1 .. m \/ i = m + 1
        OBVIOUS
      <4> QED
        BY <3>5, <3>6, <3>7, <4>1, <4>2
    <3>10. h = g
      BY <3>8, <3>9, SeqEqual
    <3> QED
      BY <3>2, <3>7, <3>10
  <2>10. \A s \in Threads : s # t => Landed(s)' = Landed(s)
    BY <1>2, <1>4, LandedAsBefore DEF Delivers
  <2>11. [s \in Threads |-> Landed(s)]' = [[s \in Threads |-> Landed(s)] EXCEPT ![t] = Append(Landed(t), o)]
    BY <1>2, <2>3, <2>9, <2>10
  <2>12. Len(Landed(t)) < Len(sent[t]) /\ sent[t][Len(Landed(t)) + 1] = o
    BY <2>3, <2>4, <2>5, <2>6, <2>7, <2>8
  <2>13. PICK landed : landed = [s \in Threads |-> Landed(s)]
    OBVIOUS
  <2>14. landed[t] = Landed(t)
    BY <1>2, <2>13
  <2>15. /\ Len(landed[t]) < Len(sent[t])
         /\ [s \in Threads |-> Landed(s)]'
              = [landed EXCEPT ![t] = Append(landed[t], sent[t][Len(landed[t]) + 1])]
    BY <2>11, <2>12, <2>13, <2>14
  <2>16. Mail!Deliver(t)
    BY <1>2, <2>13, <2>15 DEF Mail!Deliver
  <2> QED
    BY <1>2, <2>16 DEF Mail!Next
<1> QED
  BY <1>1, <1>3, <1>4, GraphDelivers

LEMMA StepMail ==
    ASSUME IInv, KeepInv, OrderInv, LandInv, CountInv, LandedWell', [Next]_vars
    PROVE  [Mail!Next]_<<sent, [t \in Threads |-> Landed(t)]>>
<1>1. CASE \E t \in Threads : Call(t)
  BY <1>1, CallMail
<1>2. CASE \E w \in Workers : Graph(w)
  BY <1>2, GraphMail DEF OrderInv
<1>3. CASE RowsKept /\ UNCHANGED <<ckpt, sent>>
  BY <1>3, MailStays
<1> QED
  BY <1>1, <1>2, <1>3, RowsStay DEF Next, Work

LEMMA InitMail == ASSUME Init PROVE Mail!Init
<1>1. IInv /\ KeepInv
  BY InitIInv, InitKeep
<1>2. sent = [t \in Threads |-> <<>>]
  BY DEF Init
<1>3. ASSUME NEW t \in Threads PROVE Landed(t) = <<>>
  <2>0. ckpt[t].inbox = <<>>
    BY DEF Init, NoCheckpoint
  <2>1. PICK q \in Seq(Nat) : q = ckpt[t].inbox /\ q = <<>>
    BY <2>0, EmptySeq
  <2>2. Landed(t) \in Seq(Nat) /\ Len(Landed(t)) = Len(q)
    BY <1>1, <2>1, LandedIsSeq
  <2>3. Len(q) = 0
    BY <2>1, EmptySeq
  <2> QED
    BY <2>2, <2>3, EmptySeq
<1> QED
  BY <1>2, <1>3 DEF Mail!Init

\* Whatever is called and whatever crashes in between: the inputs of a thread
\* land once each, in the order in which they were accepted.
THEOREM MailboxImplemented ==
    ASSUME RepoThreads = {}, "boot" \notin CrashIn PROVE Spec => ImplementsMailbox
<1>1. Init => Mail!Init /\ CountInv
  BY InitMail, InitCount
<1>2. IInv /\ CountInv /\ [Next]_vars => CountInv'
  BY StepCount
<1>3. IInv /\ KeepInv => LandedWell
  BY LandsWell
<1>4. /\ IInv /\ KeepInv /\ OrderInv /\ LandInv /\ CountInv
      /\ LandedWell' /\ [Next]_vars
      => [Mail!Next]_<<sent, [t \in Threads |-> Landed(t)]>>
  BY StepMail
<1> QED
  BY <1>1, <1>2, <1>3, <1>4, Invariance, KeepHolds, OrderHolds, LandHolds,
     PTL DEF Spec, ImplementsMailbox, Mail!Spec

\* No input lands twice, and none before one that was accepted before it.
THEOREM InputsLandInOrder ==
    ASSUME RepoThreads = {}, "boot" \notin CrashIn PROVE Spec => []LandedInOrder
<1>1. IInv /\ KeepInv /\ LandInv => LandedInOrder
  <2> SUFFICES ASSUME IInv, KeepInv, LandInv, NEW t \in Threads, NEW i \in DOMAIN Landed(t),
                      NEW j \in DOMAIN Landed(t), i < j
               PROVE  Landed(t)[i] < Landed(t)[j]
    BY DEF LandedInOrder
  <2>1. \A k \in DOMAIN Landed(t) : k \in DOMAIN sent[t] /\ Landed(t)[k] = sent[t][k]
    BY DEF Landed, LandInv, LandedSent
  <2> QED
    BY <2>1 DEF LandInv, SentInOrder
<1> QED
  BY <1>1, Invariance, KeepHolds, LandHolds, PTL
=============================================================================
