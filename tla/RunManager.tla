----------------------------- MODULE RunManager -----------------------------
(***************************************************************************)
(* The run manager of one workspace runtime: runtime/manager.py over its   *)
(* run store (runtime/store.py) and over the checkpointed graph            *)
(* (graph/pregel.py).                                                      *)
(*                                                                         *)
(* The store's rows and the graph's checkpoints are on disk and survive a  *)
(* crash; the queue, the busy set, the backlogs and the workers are        *)
(* asyncio objects of one process and do not.  The code between two awaits *)
(* of a coroutine is one action.  A graph run is abstracted to what its    *)
(* thread's newest checkpoint says: which inputs have landed, whether a    *)
(* task is outstanding, whether that task waits for a human's answer, and  *)
(* the checkpoint's step number.                                           *)
(***************************************************************************)
EXTENDS Integers, Sequences, FiniteSets

CONSTANTS
    Threads,      \* thread ids
    Workers,      \* the max_concurrency worker tasks
    Limit,        \* DEFAULT_RECURSION_LIMIT
    RepoThreads,  \* threads with a repository whose worktree may fail to be made
    CrashIn,      \* phases of the engine in which the process may die
    MaxSubmits,   \* bound: runs that callers create
    MaxCrashes    \* bound: crashes of the process

ASSUME LimitAssumption == Limit \in Nat
ASSUME RepoAssumption == RepoThreads \subseteq Threads
ASSUME PoolAssumption == IsFiniteSet(Workers)
ASSUME BoundsAssumption == MaxSubmits \in Nat /\ MaxCrashes \in Nat

VARIABLES
    runs,     \* disk: the rows of the runs table, by creation
    ckpt,     \* disk: the newest checkpoint of each thread
    phase,    \* "down", "boot" (inside start) or "up"
    limbo,    \* the run start has cancelled and not yet recovered, 0 if none
    queue,    \* _queue
    busy,     \* _busy
    backlog,  \* _backlog
    pc,       \* where each worker is
    job,      \* the run a worker executes
    mem,      \* the checkpoint that worker's graph run holds in memory
    sent,     \* history: the inputs accepted on each thread, in order
    acted,    \* history: the answers agents have acted on
    crashes   \* history: crashes so far

disk == <<runs, ckpt, sent, acted>>
process == <<phase, limbo, queue, busy, backlog, pc, job, mem>>
vars == <<disk, process, crashes>>

(***************************************************************************)
(* Rows and checkpoints.                                                   *)
(***************************************************************************)

NoCard == -2

Kinds == {"message", "input", "resume", "continue"}
Outcomes == {"success", "interrupted", "error"}
Statuses == {"pending", "running", "cancelled"} \cup Outcomes
Terminal == {"cancelled"} \cup Outcomes

\* origin is the run that first carried the input: a crash-resume run inherits
\* it with `input` and `created`, its place in the order.  card is the approval
\* card on show when the answer of a resume run was given; asks is the card in
\* the row's `interrupts` column.
Run == [thread : Threads, kind : Kinds, status : Statuses,
        origin : Nat \ {0}, card : Int, asks : Int]

\* inbox are the runs whose input is in the state's messages; ask, reply and
\* result are the INTERRUPTS, RESUME and RESULT writes of the outstanding task.
Checkpoint == [values : BOOLEAN, inbox : Seq(Nat), next : BOOLEAN, step : Int,
               ask : BOOLEAN, reply : Nat, result : BOOLEAN]

NoCheckpoint == [values |-> FALSE, inbox |-> <<>>, next |-> FALSE, step |-> -1,
                 ask |-> FALSE, reply |-> 0, result |-> FALSE]

RunIds == DOMAIN runs
WithStatus(s) == {r \in RunIds : runs[r].status = s}
RunsOf(t) == {r \in RunIds : runs[r].thread = t}
Open(t) == RunsOf(t) \cap (WithStatus("pending") \cup WithStatus("running"))

\* Mutant of Before: equal `created` read back oldest row first.
BeforeTiesReversed(r, s) == \/ runs[r].origin < runs[s].origin
                            \/ runs[r].origin = runs[s].origin /\ s < r

\* ORDER BY created: a run and its crash-resume replacement tie, and the index
\* (thread_id, created) then orders them by insertion.
Before(r, s) == \/ runs[r].origin < runs[s].origin
                \/ runs[r].origin = runs[s].origin /\ r < s

\* runs(thread_id = t, limit = 1)
IsNewest(r, t) == r \in RunsOf(t) /\ \A s \in RunsOf(t) \ {r} : Before(s, r)

\* A card is known by the step of the checkpoint whose task asks: each
\* superstep has a step number of its own, hence a task and a card of its own.
WaitingCard(t) ==
    IF \E r \in RunIds : IsNewest(r, t) /\ runs[r].status = "interrupted"
    THEN runs[CHOOSE r \in RunIds : IsNewest(r, t)].asks
    ELSE NoCard

-----------------------------------------------------------------------------
(***************************************************************************)
(* Callers: the web API, crons, escalations, workflows.                    *)
(***************************************************************************)

NewRun(t, k, card) ==
    [thread |-> t, kind |-> k, status |-> "pending",
     origin |-> Len(runs) + 1, card |-> card, asks |-> NoCard]

MaySubmit ==
    /\ phase = "up"
    /\ Cardinality({r \in RunIds : runs[r].origin = r}) < MaxSubmits

Enqueue(t, k, card) ==
    /\ MaySubmit
    /\ runs' = Append(runs, NewRun(t, k, card))
    /\ queue' = Append(queue, Len(runs) + 1)
    /\ UNCHANGED <<ckpt, acted, phase, limbo, busy, backlog, pc, job, mem, crashes>>

\* submit(text): a chat message, a cron's prompt, an escalation.
Submit(t) ==
    /\ \A r \in RunsOf(t) : runs[r].kind # "input"
    /\ Enqueue(t, "message", NoCard)
    /\ sent' = [sent EXCEPT ![t] = Append(@, Len(runs) + 1)]

\* submit_input: a workflow's start, on a thread created for it.
SubmitInput(t) ==
    /\ RunsOf(t) = {}
    /\ Enqueue(t, "input", NoCard)
    /\ sent' = [sent EXCEPT ![t] = Append(@, Len(runs) + 1)]

\* submit(None): go on from the checkpoint.
SubmitContinue(t) ==
    /\ Enqueue(t, "continue", NoCard)
    /\ UNCHANGED sent

\* resume: the owner may answer at any time, card on show or not.
Resume(t) ==
    /\ Enqueue(t, "resume", WaitingCard(t))
    /\ UNCHANGED sent

-----------------------------------------------------------------------------
(***************************************************************************)
(* A worker takes runs off the queue.  From the get to the first await     *)
(* inside the graph, and from the end of the graph run to the first await  *)
(* of the next one, nothing else runs on the event loop.                   *)
(***************************************************************************)

\* _execute up to the graph: the row must be pending, and the thread's defaults
\* are computed before it is set running.  The first input of a thread with a
\* repository makes a git worktree, which may fail; later ones find it there.
CanEnter(r) == runs[r].status = "pending"
IsInput(r) == runs[r].kind \in {"message", "input"}
CanFail(r) ==
    /\ runs[r].thread \in RepoThreads
    /\ IsInput(r)
    /\ \A s \in RunsOf(runs[r].thread) : IsInput(s) => CanEnter(s)

Enter(w, r) ==
    /\ CanEnter(r)
    /\ pc' = [pc EXCEPT ![w] = "open"]
    /\ job' = [job EXCEPT ![w] = r]

Idle(w) == phase = "up" /\ pc[w] = "idle" /\ queue # <<>>

\* The thread is busy: its worker will find the run in the backlog.
Defer(w) ==
    LET r == Head(queue)
        t == runs[r].thread
    IN  /\ Idle(w)
        /\ t \in busy
        /\ queue' = Tail(queue)
        /\ backlog' = [backlog EXCEPT ![t] = Append(@, r)]
        /\ UNCHANGED <<disk, phase, limbo, busy, pc, job, mem, crashes>>

\* Mutant of Take: the busy check is dropped.
TakeUnchecked(w) ==
    LET r == Head(queue) IN
    /\ Idle(w)
    /\ queue' = Tail(queue)
    /\ busy' = busy \cup {runs[r].thread}
    /\ Enter(w, r)
    /\ runs' = [runs EXCEPT ![r].status = "running"]
    /\ UNCHANGED <<ckpt, sent, acted, phase, limbo, backlog, mem, crashes>>

\* Mutant of Take: the run is marked busy, not its thread.
TakeMarkingRun(w) ==
    LET r == Head(queue) IN
    /\ Idle(w)
    /\ runs[r].thread \notin busy
    /\ queue' = Tail(queue)
    /\ busy' = busy \cup {r}
    /\ Enter(w, r)
    /\ runs' = [runs EXCEPT ![r].status = "running"]
    /\ UNCHANGED <<ckpt, sent, acted, phase, limbo, backlog, mem, crashes>>

Take(w) ==
    LET r == Head(queue)
        t == runs[r].thread
    IN  /\ Idle(w)
        /\ t \notin busy
        /\ queue' = Tail(queue)
        /\ busy' = busy \cup {t}
        /\ Enter(w, r)
        /\ runs' = [runs EXCEPT ![r].status = "running"]
        /\ UNCHANGED <<ckpt, sent, acted, phase, limbo, backlog, mem, crashes>>

\* thread_defaults raises: nothing in _worker catches it, so the task ends.
TakeDies(w) ==
    LET r == Head(queue)
        t == runs[r].thread
    IN  /\ Idle(w)
        /\ t \notin busy
        /\ CanEnter(r) /\ CanFail(r)
        /\ queue' = Tail(queue)
        /\ pc' = [pc EXCEPT ![w] = "dead"]
        /\ UNCHANGED <<disk, phase, limbo, busy, backlog, job, mem, crashes>>

-----------------------------------------------------------------------------
(***************************************************************************)
(* The graph run of a worker: CompiledStateGraph._run under                *)
(* durability "sync", with one task to a superstep.                        *)
(***************************************************************************)

At(w, p) == phase = "up" /\ pc[w] = p
Goto(w, p) == pc' = [pc EXCEPT ![w] = p]
ThreadOf(w) == runs[job[w]].thread
KindOf(w) == runs[job[w]].kind

\* A checkpoint, or a pending write, computed from what the run has in memory.
Put(w, c) ==
    /\ ckpt' = [ckpt EXCEPT ![ThreadOf(w)] = c]
    /\ mem' = [mem EXCEPT ![w] = c]

InGraph == UNCHANGED <<runs, sent, phase, limbo, queue, busy, backlog, job, crashes>>

\* aget_tuple
Load(w) ==
    /\ At(w, "open")
    /\ mem' = [mem EXCEPT ![w] = ckpt[ThreadOf(w)]]
    /\ Goto(w, "input")
    /\ InGraph /\ UNCHANGED <<ckpt, acted>>

\* Mutant of Land: the writes pending on the dropped task are kept.
LandKeepingWrites(w) ==
    /\ At(w, "input")
    /\ KindOf(w) \in {"message", "input"}
    /\ Put(w, [mem[w] EXCEPT !.values = TRUE, !.inbox = Append(@, job[w]),
                             !.next = TRUE, !.step = @ + 1])
    /\ Goto(w, "loop")
    /\ InGraph /\ UNCHANGED acted

\* New input: applied to the state and scheduled from START; the tasks that were
\* outstanding, and what they waited for, are dropped.
Land(w) ==
    /\ At(w, "input")
    /\ KindOf(w) \in {"message", "input"}
    /\ Put(w, [values |-> TRUE, inbox |-> Append(mem[w].inbox, job[w]),
               next |-> TRUE, step |-> mem[w].step + 1,
               ask |-> FALSE, reply |-> 0, result |-> FALSE])
    /\ Goto(w, "loop")
    /\ InGraph /\ UNCHANGED acted

\* Command(resume): written for the task that asks; an earlier answer to the
\* same task stays first in the list, and it is the first that is returned.
Answer(w) ==
    /\ At(w, "input")
    /\ KindOf(w) = "resume"
    /\ mem[w].ask
    /\ Put(w, [mem[w] EXCEPT !.reply = IF @ = 0 THEN job[w] ELSE @])
    /\ Goto(w, "loop")
    /\ InGraph /\ UNCHANGED acted

\* Command(resume) with no checkpoint: a ValueError.
AnswerNobody(w) ==
    /\ At(w, "input")
    /\ KindOf(w) = "resume"
    /\ ~mem[w].values
    /\ Goto(w, "error")
    /\ InGraph /\ UNCHANGED <<ckpt, mem, acted>>

\* input None, or an answer no task waits for: the outstanding tasks, if any.
GoOn(w) ==
    /\ At(w, "input")
    /\ \/ KindOf(w) = "continue"
       \/ KindOf(w) = "resume" /\ mem[w].values /\ ~mem[w].ask
    /\ Goto(w, IF mem[w].next THEN "loop" ELSE "success")
    /\ InGraph /\ UNCHANGED <<ckpt, mem, acted>>

\* GraphRecursionError: step is the thread's, not the run's.
HitLimit(w) ==
    /\ At(w, "loop")
    /\ mem[w].step >= Limit
    /\ Goto(w, "error")
    /\ InGraph /\ UNCHANGED <<ckpt, mem, acted>>

\* A task that asked and has no answer asks again: only interrupt() can follow.
Asking(w) == mem[w].ask /\ mem[w].reply = 0
Running(w) == At(w, "loop") /\ mem[w].step < Limit

\* interrupt(card)
NodeAsks(w) ==
    /\ Running(w)
    /\ mem[w].reply = 0 /\ ~mem[w].result
    /\ Put(w, [mem[w] EXCEPT !.ask = TRUE])
    /\ Goto(w, "interrupted")
    /\ InGraph /\ UNCHANGED acted

\* The activation raises; the checkpoint stays as it was.
NodeFails(w) ==
    /\ Running(w)
    /\ ~Asking(w) /\ ~mem[w].result
    /\ Goto(w, "error")
    /\ InGraph /\ UNCHANGED <<ckpt, mem, acted>>

\* The task completes, on the answer it was given if it had asked, and its
\* result is written.
NodeReturns(w) ==
    /\ Running(w)
    /\ ~Asking(w) /\ ~mem[w].result
    /\ Put(w, [mem[w] EXCEPT !.result = TRUE])
    /\ acted' = IF mem[w].reply = 0 THEN acted
                ELSE acted \cup {[thread |-> ThreadOf(w), card |-> mem[w].step,
                                  by |-> mem[w].reply]}
    /\ InGraph /\ UNCHANGED pc

\* The barrier: the result, written now or before a crash, goes into the state,
\* and the next superstep is checkpointed: a handoff, another activation, or the
\* end.
Advance(w) ==
    /\ Running(w)
    /\ mem[w].result
    /\ \E more \in BOOLEAN :
        /\ Put(w, [values |-> TRUE, inbox |-> mem[w].inbox, next |-> more,
                   step |-> mem[w].step + 1,
                   ask |-> FALSE, reply |-> 0, result |-> FALSE])
        /\ Goto(w, IF more THEN "loop" ELSE "success")
    /\ InGraph /\ UNCHANGED acted

-----------------------------------------------------------------------------
(***************************************************************************)
(* The graph run has ended: the row gets its outcome, and the worker goes  *)
(* on with the backlog of the thread or releases the thread.               *)
(***************************************************************************)

Ended(w) == phase = "up" /\ pc[w] \in Outcomes

Outcome(w) == [runs[job[w]] EXCEPT
    !.status = pc[w],
    !.asks = IF pc[w] = "interrupted" THEN mem[w].step ELSE NoCard]

\* Mutant of Settle: the thread is released with runs in its backlog.
SettleForgetful(w) ==
    /\ Ended(w)
    /\ runs' = [runs EXCEPT ![job[w]] = Outcome(w)]
    /\ busy' = busy \ {ThreadOf(w)}
    /\ Goto(w, "idle")
    /\ UNCHANGED <<ckpt, sent, acted, phase, limbo, queue, backlog, job, mem, crashes>>

Settle(w) ==
    LET t == ThreadOf(w) IN
    /\ Ended(w)
    /\ backlog[t] = <<>>
    /\ runs' = [runs EXCEPT ![job[w]] = Outcome(w)]
    /\ busy' = busy \ {t}
    /\ Goto(w, "idle")
    /\ UNCHANGED <<ckpt, sent, acted, phase, limbo, queue, backlog, job, mem, crashes>>

\* Mutant of SettleAndNext: the thread is released before its next run.
SettleAndNextReleased(w) ==
    LET t == ThreadOf(w)
        r == Head(backlog[t])
    IN  /\ Ended(w)
        /\ backlog[t] # <<>>
        /\ backlog' = [backlog EXCEPT ![t] = Tail(@)]
        /\ busy' = busy \ {t}
        /\ Enter(w, r)
        /\ runs' = [runs EXCEPT ![job[w]] = Outcome(w), ![r].status = "running"]
        /\ UNCHANGED <<ckpt, sent, acted, phase, limbo, queue, mem, crashes>>

SettleAndNext(w) ==
    LET t == ThreadOf(w)
        r == Head(backlog[t])
    IN  /\ Ended(w)
        /\ backlog[t] # <<>>
        /\ backlog' = [backlog EXCEPT ![t] = Tail(@)]
        /\ Enter(w, r)
        /\ runs' = [runs EXCEPT ![job[w]] = Outcome(w), ![r].status = "running"]
        /\ UNCHANGED <<ckpt, sent, acted, phase, limbo, queue, busy, mem, crashes>>

\* As TakeDies, on the next run of the backlog: what is left of it is stranded.
SettleAndDie(w) ==
    LET t == ThreadOf(w)
        r == Head(backlog[t])
    IN  /\ Ended(w)
        /\ backlog[t] # <<>>
        /\ CanEnter(r) /\ CanFail(r)
        /\ backlog' = [backlog EXCEPT ![t] = Tail(@)]
        /\ runs' = [runs EXCEPT ![job[w]] = Outcome(w)]
        /\ busy' = busy \ {t}
        /\ Goto(w, "dead")
        /\ UNCHANGED <<ckpt, sent, acted, phase, limbo, queue, job, mem, crashes>>

-----------------------------------------------------------------------------
(***************************************************************************)
(* The process dies, or is stopped, and is started again.                  *)
(***************************************************************************)

Fresh ==
    /\ limbo' = 0
    /\ queue' = <<>>
    /\ busy' = {}
    /\ backlog' = [t \in Threads |-> <<>>]
    /\ pc' = [w \in Workers |-> "idle"]
    /\ job' = [w \in Workers |-> 0]
    /\ mem' = [w \in Workers |-> NoCheckpoint]

Crash ==
    /\ phase \in CrashIn
    /\ crashes < MaxCrashes
    /\ crashes' = crashes + 1
    /\ phase' = "down"
    /\ Fresh
    /\ UNCHANGED disk

Restart ==
    /\ phase = "down"
    /\ phase' = "boot"
    /\ UNCHANGED <<disk, limbo, queue, busy, backlog, pc, job, mem, crashes>>

\* start, first half of its loop: the oldest row left running is cancelled ...
CancelRun ==
    /\ phase = "boot" /\ limbo = 0
    /\ \E r \in WithStatus("running") :
        /\ \A s \in WithStatus("running") \ {r} : Before(r, s)
        /\ runs' = [runs EXCEPT ![r].status = "cancelled"]
        /\ limbo' = r
    /\ UNCHANGED <<ckpt, sent, acted, phase, queue, busy, backlog, pc, job, mem, crashes>>

\* Mutant of Owed: a message that has not landed is taken for done.
OwedNoMessage(r) ==
    LET c == ckpt[runs[r].thread] IN
    IF \/ runs[r].kind = "input" /\ ~c.values
       \/ runs[r].kind = "resume" /\ c.ask
    THEN {runs[r].kind}
    ELSE IF c.next /\ ~c.result THEN {"continue"} ELSE {}

\* Mutant of Owed: a landed input whose tasks are outstanding is taken for done.
OwedNoContinue(r) ==
    LET c == ckpt[runs[r].thread]
        k == runs[r].kind
    IN  IF \/ k = "message" /\ \A i \in DOMAIN c.inbox : c.inbox[i] # r
           \/ k = "input" /\ ~c.values
           \/ k = "resume" /\ c.ask
        THEN {k}
        ELSE {}

\* _recover: the kind of run that finishes what the cancelled run r owes.  In a
\* snapshot `interrupts` counts a task that has its result, `next` does not.
Owed(r) ==
    LET c == ckpt[runs[r].thread]
        k == runs[r].kind
    IN  IF \/ k = "message" /\ \A i \in DOMAIN c.inbox : c.inbox[i] # r
           \/ k = "input" /\ ~c.values
           \/ k = "resume" /\ c.ask
        THEN {k}
        ELSE IF c.next /\ ~c.result THEN {"continue"} ELSE {}

\* Mutant of ReplaceRun: the replacement takes its place by its own `created`.
ReplaceRunAtTheEnd ==
    /\ limbo # 0
    /\ \E k \in Owed(limbo) :
        runs' = Append(runs, NewRun(runs[limbo].thread, k, runs[limbo].card))
    /\ limbo' = 0
    /\ UNCHANGED <<ckpt, sent, acted, phase, queue, busy, backlog, pc, job, mem, crashes>>

\* ... and, after the await of its thread's state, replaced if it owes anything.
ReplaceRun ==
    /\ limbo # 0
    /\ \E k \in Owed(limbo) :
        runs' = Append(runs, [runs[limbo] EXCEPT !.kind = k, !.status = "pending"])
    /\ limbo' = 0
    /\ UNCHANGED <<ckpt, sent, acted, phase, queue, busy, backlog, pc, job, mem, crashes>>

DropRun ==
    /\ limbo # 0
    /\ Owed(limbo) = {}
    /\ limbo' = 0
    /\ UNCHANGED <<disk, phase, queue, busy, backlog, pc, job, mem, crashes>>

\* sorted(self.store.runs(status=PENDING), key=_order)
InOrder(S) ==
    {q \in [1 .. Cardinality(S) -> S] :
        /\ \A r \in S : \E i \in DOMAIN q : q[i] = r
        /\ \A i, j \in DOMAIN q : i < j => Before(q[i], q[j])}

\* Mutant of Ready: cancelled runs are queued too.
ReadyWithCancelled ==
    /\ phase = "boot" /\ limbo = 0
    /\ WithStatus("running") = {}
    /\ queue' \in InOrder(WithStatus("pending") \cup WithStatus("cancelled"))
    /\ phase' = "up"
    /\ UNCHANGED <<disk, limbo, busy, backlog, pc, job, mem, crashes>>

Ready ==
    /\ phase = "boot" /\ limbo = 0
    /\ WithStatus("running") = {}
    /\ queue' \in InOrder(WithStatus("pending"))
    /\ phase' = "up"
    /\ UNCHANGED <<disk, limbo, busy, backlog, pc, job, mem, crashes>>

-----------------------------------------------------------------------------
Init ==
    /\ runs = <<>>
    /\ ckpt = [t \in Threads |-> NoCheckpoint]
    /\ phase = "down"
    /\ limbo = 0
    /\ queue = <<>>
    /\ busy = {}
    /\ backlog = [t \in Threads |-> <<>>]
    /\ pc = [w \in Workers |-> "idle"]
    /\ job = [w \in Workers |-> 0]
    /\ mem = [w \in Workers |-> NoCheckpoint]
    /\ sent = [t \in Threads |-> <<>>]
    /\ acted = {}
    /\ crashes = 0

Call(t) == Submit(t) \/ SubmitInput(t) \/ SubmitContinue(t) \/ Resume(t)

Graph(w) ==
    \/ Load(w) \/ Land(w) \/ Answer(w) \/ AnswerNobody(w) \/ GoOn(w)
    \/ HitLimit(w) \/ NodeAsks(w) \/ NodeFails(w) \/ NodeReturns(w) \/ Advance(w)

Work(w) ==
    \/ Defer(w) \/ Take(w) \/ TakeDies(w) \/ Graph(w)
    \/ Settle(w) \/ SettleAndNext(w) \/ SettleAndDie(w)

Boot == Restart \/ CancelRun \/ ReplaceRun \/ DropRun \/ Ready

Next ==
    \/ \E t \in Threads : Call(t)
    \/ \E w \in Workers : Work(w)
    \/ Boot
    \/ Crash

Spec == Init /\ [][Next]_vars

\* The service manager starts the process again whenever it is down, the event
\* loop runs every worker that can go on, and every activation ends (a harness
\* process is killed at its time limit).  Nobody need ever call.
Fairness == WF_vars(Boot) /\ \A w \in Workers : WF_vars(Work(w))

FairSpec == Spec /\ Fairness

-----------------------------------------------------------------------------
(***************************************************************************)
(* Properties.                                                             *)
(***************************************************************************)

\* The type of every variable.
TypeOK ==
    /\ runs \in Seq(Run)
    /\ ckpt \in [Threads -> Checkpoint]
    /\ phase \in {"down", "boot", "up"}
    /\ limbo \in Nat
    /\ queue \in Seq(Nat)
    /\ busy \subseteq Threads
    /\ backlog \in [Threads -> Seq(Nat)]
    /\ pc \in [Workers -> {"idle", "open", "input", "loop", "dead"} \cup Outcomes]
    /\ job \in [Workers -> Nat]
    /\ mem \in [Workers -> Checkpoint]
    /\ sent \in [Threads -> Seq(Nat)]
    /\ \A a \in acted : a \in [thread : Threads, card : Int, by : Nat]
    /\ crashes \in Nat

Active(w) == pc[w] \notin {"idle", "dead"}

\* "Two runs must never write the same checkpoint at once" (_worker): whatever
\* a worker's graph run holds in memory is what is on disk, from its load to its
\* end, whoever else was running, deferred or recovered in between.
SoleWriter ==
    \A w \in Workers : Active(w) /\ pc[w] # "open" => mem[w] = ckpt[ThreadOf(w)]

\* "Runs of one thread go one at a time": at most one row of a thread is running,
\* at every moment, across crashes and restarts included.
OneRunning ==
    \A r, s \in WithStatus("running") : runs[r].thread = runs[s].thread => r = s

\* What _execute's early return guards against never happens: a run in the queue
\* or in a backlog is pending, and is there once.
QueuedArePending ==
    /\ \A i \in DOMAIN queue : CanEnter(queue[i])
    /\ \A i, j \in DOMAIN queue : queue[i] = queue[j] => i = j
    /\ \A t \in Threads :
        /\ \A i \in DOMAIN backlog[t] : CanEnter(backlog[t][i])
        /\ \A i, j \in DOMAIN backlog[t] : backlog[t][i] = backlog[t][j] => i = j
        /\ \A i \in DOMAIN queue, j \in DOMAIN backlog[t] : queue[i] # backlog[t][j]

\* A run that is pending while the engine is up is on its way to a worker: in the
\* queue, or in the backlog of a thread some worker will go on with.  A run put
\* in a backlog just as its thread is released would wait until the next start.
NoneStranded ==
    phase = "up" =>
        \A r \in WithStatus("pending") :
            \/ \E i \in DOMAIN queue : queue[i] = r
            \/ /\ runs[r].thread \in busy
               /\ \E i \in DOMAIN backlog[runs[r].thread] : backlog[runs[r].thread][i] = r

Landed(t) == [i \in DOMAIN ckpt[t].inbox |-> runs[ckpt[t].inbox[i]].origin]

\* The inputs of a thread land in the order in which they were accepted, none
\* twice ("runs of one thread go strictly in order", _worker).
LandedInOrder ==
    \A t \in Threads : \A i, j \in DOMAIN Landed(t) :
        i < j => Landed(t)[i] < Landed(t)[j]

Carries(r, o) == runs[r].origin = o /\ runs[r].status \in {"pending", "running"}

\* No accepted input is lost (_recover: "without losing or duplicating the
\* input"): it has landed, or a run that will land it is pending or running, or
\* start is just deciding about it.
NothingLost ==
    \A t \in Threads : \A n \in DOMAIN sent[t] :
        LET o == sent[t][n] IN
        \/ \E i \in DOMAIN Landed(t) : Landed(t)[i] = o
        \/ \E r \in RunIds : Carries(r, o)
        \/ limbo # 0 /\ runs[limbo].origin = o

Settled(r, t) == IsNewest(r, t) /\ Open(t) = {} /\ limbo \notin RunsOf(t)

\* Between runs the newest row of a thread tells the truth about its checkpoint:
\* success leaves no task outstanding, cancelled none that has yet to run, and
\* interrupted shows the very card the outstanding task waits on (what an
\* approver sees and answers).
RowTellsState ==
    \A t \in Threads : \A r \in RunIds : Settled(r, t) =>
        LET c == ckpt[t] IN
        CASE runs[r].status = "success" -> ~c.next
          [] runs[r].status = "cancelled" -> c.next => c.result
          [] runs[r].status = "interrupted" -> c.next /\ c.ask /\ c.step = runs[r].asks
          [] OTHER -> TRUE

\* A run that the recovery only cancels had finished: its input "only needs the
\* graph to continue (or nothing, if it finished)" (_recover).
CancelledHadFinished ==
    \A t \in Threads : \A r \in RunIds :
        Settled(r, t) /\ runs[r].status = "cancelled" => ~ckpt[t].next

\* A thread that waits for an answer nobody has given yet shows its card, once no
\* run of it is open: recovery never hides the question.
PausedIsShown ==
    \A t \in Threads :
        ckpt[t].ask /\ ckpt[t].reply = 0 /\ Open(t) = {} /\ limbo \notin RunsOf(t)
            => WaitingCard(t) = ckpt[t].step

\* An answer given with a card on show is acted on by the task that showed that
\* card (web_api/app.py audits the answer with the card that was waiting), a
\* recovery's repetition of the answer included ("without duplicating the input").
Fits(a) == runs[a.by].card \in {NoCard, a.card}
AnswerFitsCard == \A a \in acted : Fits(a)

\* The same of the answers a caller gave, whatever new messages, errors, earlier
\* answers and crashes came between the card and the answer.
GivenAnswerFitsCard == \A a \in acted : runs[a.by].origin = a.by => Fits(a)

\* The graph gives up on a run "without hitting a stop condition" only after the
\* run had its supersteps: an input that has just landed gets at least one.
LandedInputIsServed ==
    [][\A w \in Workers : Land(w) => mem'[w].step < Limit]_vars

\* A crash replaces at most one run for each worker.
RunBound == MaxSubmits + MaxCrashes * Cardinality(Workers)

\* Every accepted run ends: it is executed, or the engine decides on a restart
\* that nothing of it is left to do.
EveryRunEnds ==
    \A r \in 1 .. RunBound :
        r \in RunIds ~> (r \in RunIds /\ runs[r].status \in Terminal)
=============================================================================
