# SoloSquad: a TLA+ model of the engine

SoloSquad is a one-person company run by agents. The repository holds two
generations of it: **v2**, a Python engine (`src/python/src/solosquad`) that
runs checkpointed graphs of agents behind a run manager, a router of model
connections and a web API; and **v1**, the shipped TypeScript bot
(`src/src`) that drives a `claude` process per user turn from Discord or Slack,
with cron, goals, migrations and a push-approval gate.

This directory models the parts of both where order, failure and time decide
correctness. This file says what the parts are, what is modelled, what the
model checker and the prover establish, and what is left.

## 1. Inventory

### v2 (Python)

| Component | State it keeps | Operations | Hard behaviour | What makes it correct |
|---|---|---|---|---|
| Run manager `runtime/manager.py` | `_queue`, `_busy`, `_backlog`, workers (memory) | `submit`, `submit_input`, `resume`, `wait`, `start`, `stop`, `_worker`, `_execute`, `_recover` | several workers, one checkpoint per thread; crash between any two writes; recovery that must neither lose nor repeat | one writer per thread, order kept, nothing lost, nothing twice, every run ends |
| Run store `runtime/store.py` | rows of threads and runs (SQLite) | `create_run`, `set_status`, `runs`, `purge` | `created` decides the order; a replacement ties with what it replaces | rows tell the truth about the checkpoint |
| Graph engine `graph/pregel.py` | checkpoint: values, barriers, next tasks, step, pending writes | new input, `Command(resume)`, `None`; supersteps of parallel tasks, interrupts, joins | a crash inside a superstep; tasks that finished, asked or failed in it; durabilities | a task's result counts once, a superstep is all or nothing, an answer reaches the task that asked |
| Savers `graph/checkpoint.py` | checkpoints and writes tables | `put`, `put_writes`, `get_tuple` | newest = greatest wall-clock id | the newest checkpoint with its writes is what a run continues from |
| Company graph `company.py`, `approvals.py`, `swarm.py` | graph state: messages, current agent, approvals | activation, handoff, approval card, rate-limit retry on another connection | a limit hit in mid-activation, an approval resumed after a crash | one activation per step, the card that is answered is the card that asked |
| Router `routing/` | slots, limits, warned set (memory), ledger (disk) | `candidates`, `select`, `lease`, `mark_limited` | budget read before it is spent, lease awaited after the check | slots never exceeded and always given back, a bound on what a budget is overshot by |
| Workflow engine `workflows/` | graph state: step, outputs, artifacts, status; switches file | agent, tool and approval steps; `company_asker` over the run manager | a step re-run after a crash must not ask or save twice | each step's effect once, the right step next |
| Web API `web_api/` | accounts, org store, event rings | approvals, thread run and resume, CRUD | two approvers, a body awaited after the check | an answer goes to the card that was shown |
| Harnesses `harness/` | a child process | run, parse, kill at the time limit | process death, partial output | an activation always ends |
| Storage, snapshots, maintenance | SQLite schema versions, copies | migrate, snapshot, sweep, purge | a crash in mid-migration | a migration applies once |

### v1 (TypeScript)

| Component | State it keeps | Operations | Hard behaviour | What makes it correct |
|---|---|---|---|---|
| Push gate `bot/dev-confirm-*.ts` | `<id>.json` and `<id>.decision` files, in-flight set and timers (memory) | hook: ask and poll; bridge: scan, watch, post a card, decide, sweep | two processes and a directory, two clocks, a restart of the bot, files read while they are written | a push runs only on its own approval, everyone who waits is asked |
| Chief runner and sessions `bot/chief-runner.ts`, `session-store.ts` | session records, per-user mutex, in-flight file | a turn, reset, recovery | reset outside the mutex, read-modify-write of a record, a lost session in mid-turn, a drain | one process to a transcript, no write of the record undone, every message answered |
| Locks `util/scheduler-pidfile.ts`, `lifecycle/lockfile.ts` | pid and lock files | acquire, clear stale, release | check then act by two processes | one scheduler, one lifecycle operation |
| Goal engine `engine/`, `util/goal-queue.ts` | tracker log, git state, queue | iterate, evaluate, keep or revert, guards | budgets and stop conditions, a crash in an iteration | stops when a guard says so, keeps only what improved |
| Migrations and lifecycle | journal, backups, archive | migrate chain, cleanup stages, rollback | a crash between stages | resumed stages are done once |
| Snapshot repository `bot/git-snapshot.ts` | commits of the org's tracked trees | commit a snapshot, revert to one | the bot and a goal run commit and revert in the same trees | a revert takes back its own cycle and nothing that was kept |
| Cron, messenger, CLI, memory, analyze | schedules, channels, archive | | I/O | not modelled |

How they interact: the web API, the crons, the workflow engine and the router's
escalations all call the run manager; its workers run the company or workflow
graph, which asks humans through `interrupt` and is resumed by the web API;
the workflow graph calls a second run manager (the company's) and waits. In v1
the chief runner spawns `claude`, whose hook talks to the bot through files.

## 2. Modules

| Module | What it is |
|---|---|
| `RunManager` | the run manager over its store and its checkpointed graph |
| `Mailbox` | the abstract promise: each thread's inputs land once, in order |
| `RunManagerInvariant`, `RunManagerProofs` | the inductive invariant of the queues and the workers, in named parts, and its proof |
| `RunManagerRecovery`, `RunManagerRecoveryProofs` | the inductive invariants of the recovery and the order, the map to `Mailbox`; their proofs and the refinement |
| `MCRunManager` | its instances |
| `Pregel` | one thread of the graph engine: super-steps of concurrent tasks over the saver |
| `Supersteps` | the abstract promise: the stored state moves by whole super-steps |
| `PregelProofs`, `MCPregel` | its invariant and proofs (the refinement among them), its instance |
| `Company` | the agent node and the swarm's routing, over the router and the ledger |
| `CompanyProofs`, `MCCompany` | its invariant and proofs, its instance |
| `Workflow` | one workflow run between its owner and the company's runs |
| `WorkflowProofs`, `MCWorkflow` | its invariant and proofs, its instance |
| `ChiefTurn` | the turns of one user of the v1 bot and the session record |
| `ChiefTurnProofs`, `MCChiefTurn` | its invariant and proofs, its instance |
| `GoalRunner` | a goal run's cycles over the snapshot repository |
| `GoalRunnerProofs`, `MCGoalRunner` | its invariant and proofs, its instance |
| `DevConfirm` | the v1 push gate: hook processes, bridge, controller, card, and the files between them |
| `DevConfirmProofs`, `MCDevConfirm` | its invariant and proofs, its instance |

How they fit. `Pregel` opens up what `RunManager` takes as one task to a step,
and takes from it that a thread has one run at a time. `Company` is a node of
that graph: it begins where a task is called and ends where its result is
returned. `Workflow` composes the two layers at their own grain, a graph whose
steps are one task each, on a thread of one run manager, that waits for runs of
another. `GoalRunner` and the bot of `ChiefTurn` meet in the snapshot repository.

### RunManager: how the model corresponds to the code

Disk: `runs` are the rows of the runs table, in insertion order (a run's id is
its place); `ckpt[t]` is the newest checkpoint of thread `t` with its pending
writes. Process: `queue`, `busy`, `backlog` are `_queue`, `_busy`, `_backlog`;
`pc`, `job`, `mem` are a worker's place, its run, and the checkpoint its graph
run holds in memory; `phase` and `limbo` are where `start` stands. `sent`,
`acted` and `crashes` are history.

The engine is asyncio: code between two awaits is atomic, and an action is such
a stretch. A row is written synchronously, a checkpoint with an await before
and after.

| Action | Code |
|---|---|
| `Submit`, `SubmitInput`, `SubmitContinue`, `Resume` | `submit(text)`, `submit_input`, `submit(None)`, `resume`: insert the row, put its id |
| `Take`, `Defer`, `TakeDies` | `_worker` from `queue.get` to the first await inside the graph: free thread, busy thread, `thread_defaults` raises |
| `Load` | `aget_tuple` |
| `Land`, `Answer`, `AnswerNobody`, `GoOn` | `_run` on a dict, on `Command(resume)`, on one without a checkpoint, on `None` or an answer nobody waits for |
| `HitLimit` | `GraphRecursionError` |
| `NodeAsks`, `NodeFails`, `NodeReturns` | the activation calls `interrupt`, raises, or returns and its RESULT is written |
| `Advance` | the barrier and the checkpoint of the next superstep |
| `Settle`, `SettleAndNext`, `SettleAndDie` | the outcome of the row, then the backlog or the release of the thread |
| `Crash`, `Restart` | the process dies or is stopped, and is started again |
| `CancelRun`, `ReplaceRun`, `DropRun`, `Ready` | `start`: cancel, `_recover`, queue the pending, start the workers |

Abstractions. A superstep has one task: the company graph's nodes are run one at
a time by its edges (`Pregel` has the general case). A node's work is a choice of asking, failing or returning.
A card is known by the step of the checkpoint whose task asks. Messages are the
runs that carried them. Events, streams and timestamps are left out; `created`
is the insertion order, which a wall clock that goes back would break.

### The inductive invariant

`SoleWriter` alone is not inductive: that nobody else writes a worker's
checkpoint needs that no other worker has its thread (`ThreadsApart`), hence
that a busy thread is in `busy` whenever a worker is on it (`JobsRun`), hence
that a queued or deferred run is pending, of the right thread, and there once
(`QueuedArePending`, `QueuesHoldRows`); that at most one row is running
(`OneRunning`) needs that running rows have workers while the engine is up
(`RowsHeld`), that nothing is queued before it is (`QuietUntilUp`), and that the
run being recovered is already cancelled (`LimboCancelled`). `IInv` is their
conjunction with the types; RM_threads checks it on an instance, and
`RunManagerProofs` proves it for every instance.

### The inductive invariants of the recovery

Five more stand on `IInv` and on each other, in this order, each a conjunction of
named parts in `RunManagerRecovery`.

- `KeepInv`, nothing is lost. An input accepted and not landed has a live run
  that will land it (`Carried`; the run `start` is deciding about counts as live).
  What `_recover` decides by is the checkpoint, so the checkpoint must be able to
  tell: a thread has values exactly when an input has landed, a question comes of
  an outstanding task and a result leaves it (`Sound`, `CheckpointsSound`), a
  worker past its input has landed it (`WorkersSound`), and a workflow's input is
  the only one of its thread (`InputsAlone`), since the recovery takes any values
  for the input's landing.
- `OrderInv`, runs of a thread go in order. That a thread's backlog comes before
  its runs in the queue, and each is sorted (`QueuesInOrder`), is needed for the
  run under way to be the oldest that is open (`LiveInOrder`), and the other way
  round. After a restart the queue is sorted by `created`, where a replacement
  ties with the run it replaces; two live runs never share an origin
  (`LiveApart`), so the tie decides nothing. `NoneStranded` is part of it.
- `LandInv`, inputs land once and in place: the inbox of a thread is the
  beginning of what it was sent (`LandedSent`), and a run that still has to land
  its input carries one that has not landed (`NotYet`). The step that counts is
  `Land`: everything sent before it has landed, for what has not has a live run
  (`Carried`), which would be older than the one under way (`LiveInOrder`).
- `CountInv`, how many runs there can be: each crash leaves at most one running
  row for a worker (`Owing`), and the next start replaces each once. It makes
  `RunBound`, up to which `EveryRunEnds` counts and which bounds the mailbox's
  inputs, a bound that no execution passes.
- `TellInv`, rows tell the truth about checkpoints, and answers go to their cards.
  An answer that no task has heard yet was given with the card that still waits,
  and no live run of the thread is before it (`CardsKept`); this needs
  `LiveInOrder`, or an older message would take the card away.

### DevConfirm: how the model corresponds to the code

`at` and `patience` are a hook process and what is left of its deadline;
`request` and `decision` are its two files, "empty" between their creation and
their write, with their ages in `asked` and `decided`. In the bot, `ctl` is the
controller of a request and stands for the in-flight set too (an id is in it
exactly while its controller is not "none"), `timer` is its timer, `scan` and
`awaited` are where `scanOnce` stands, `heard` are the watch events to come, and
`card` is the message with its buttons. `audit` is the log; `consents`, `posted`
and `faults` are history.

| Action | Code |
|---|---|
| `Ask`, `WriteRequest`, `AskFails` | `realWritePending`: the file is created, filled; it throws, and the hook fails open |
| `StartPolling`, `Poll`, `GiveUp` | `realPollDecision`: the deadline is set, a file is read, the deadline has passed |
| `Killed` | the `claude` process of the turn is cancelled or runs out of time |
| `Start`, `Watch` | `start`: the sweep and the `readdir` of the first scan, then `fs.watch` |
| `ScanNext`, `Hear` | `handleId` up to its await, from the scan or from an event |
| `Resolve`, `Expire` | `finish`, called by the card's verdict or by the timer: the audit record |
| `CreateDecision`, `WriteDecision`, `DecisionFails` | `writeDecision`, in the same turn of the event loop: the file is created, filled, or not |
| `Posted`, `PostFails`, `Approve`, `Reject`, `CardExpires` | `awaitApproval` |
| `Crash`, `Tick` | the bot dies; time passes |

The two processes share nothing but files, so that a hook may look at any moment,
between the creation of a file and its write as well. Inside the bot only the
stretch from a verdict to its decision file is split, because the hook reads in
the middle of it; `Turn` keeps every other turn of the event loop out of it.

Time. Clocks are countdowns in ticks. A timer at zero may fire now or later, so a
late timer, a slow poll and a collector that started after its controller are all
there. A tick waits for a hook's few system calls between the creation of the
file and its deadline. An age is counted until it is past the sweep's horizon.

Abstractions. Each push has an id of its own. Which commands are gated and what
the audit record says besides the decision are left out, and appending it
succeeds. A rejection that is taken back leaves the card as it was.

### The inductive invariant of the gate

`GateInv` is about one push at a time. That a push let through was approved needs
that a "y" on file is what the log ends with, and that a "y" in the log or on a
card is the owner's (`YesIsConsent`). The log must not go on after the hook has
left: hence a push let through has no controller in flight and can have none
again (`Closed`), because its verdict stays on file as long as its request does
(`RequestFirst`: the request is at least as old, so that the sweep takes it no
later) and a controller in flight has no verdict on file (`InFlight`). `Counted`
and `InTime` carry the counting of cards and the age of waiting requests.

### Pregel: how the model corresponds to the code

`disk` is the newest checkpoint of the thread and `rows` what `aput_writes`
recorded for it: how many questions each node asked, how many were answered, and
its result (the targets it chose). `mem` is the checkpoint `_run` works from,
`saved` whether it is stored yet, `run` where the loop stands, `called` and
`stopped` the tasks of the step that are out and those that came back with a
question. A channel is the number of writes its reducer has taken from each node.

| Action | Code |
|---|---|
| `Input`, `Continue`, `Resume` | `_run` on an input, on `None`, on `Command(resume)`: what is loaded, what an answer is matched with |
| `Save` | `put` / `aput`: at once under "sync", behind the step's back under "async" |
| `Stop`, `PauseBefore`, `CallAll` | the loop's condition and limit; `interrupt_before`; the tasks that have no result are called |
| `NodeAsks`, `NodeReturns`, `NodeFails` | `run_one` and `_gather_in_order`: a question, a RESULT, the first that raises |
| `Pause`, `Advance`, `Close` | some task waits; the barrier with `_apply` and `_schedule`; the end of the run |
| `Crash` | the process dies: the next run loads what is stored |

A join's barrier takes in the nodes of a step in an order the code leaves to the
tasks' ids, so `Seen` allows every outcome of it.

### Company: how the model corresponds to the code

`node`, `active`, `pending`, `grants` and `answer` are a thread's graph state and
its resume value, `at` where the thread's graph stands. `excluded` are the
connections that failed this activation, `line` who holds or awaits a
connection's slots, `limited` the router's `limited_until`, `spend` the ledger's
month. `approved` is history.

| Action | Code |
|---|---|
| `Input` | a message: the swarm's router schedules `active_agent` |
| `Begin` | `AgentNode.__call__` up to the wait for a slot: its own card first, then grants and the selection |
| `Answer` | the owner's decision is the value of `interrupt` |
| `RateLimited` | the stream tells of an exceeded limit: `mark_limited` |
| `Finish` | the stream ends: the cost is booked, then success with card or handoff, or another attempt |
| `Abort` | a failure that is not retried, or a stop, before anything is booked |
| `Reset`, `NewMonth`, `Crash` | a limit is over; the ledger's month turns; the router forgets |

### Workflow: how the model corresponds to the code

`place`, `status` and `slot` are the checkpoint and the pending writes of its one
task; `queue`, `now` and `at` the runs of its thread; `made` what the step came to
in memory; `asks` the rows of the company's runs made for it, each with the
number of `recovered:` prefixes on its tag (0, 1 or more).

| Action | Code |
|---|---|
| `Answer` | `workflow_resume`: the owner, shown the newest card, posts at any time |
| `Take`, `Enter`, `Over`, `Record`, `Advance`, `Settle` | the worker and the graph engine around a step |
| `ToolStep`, `StepFails` | a tool or a failing step; `save_as` is stored before the RESULT |
| `ShowsCard`, `Decides` | `interrupt(card)` and what its value decides |
| `AsksCompany`, `Hears`, `HearsNo` | `company_asker`: the earlier run or a new one, the wait, the reply |
| `CompanyTakes`, `CompanyWorks`, `CompanyFails`, `CompanySettles` | the company's run manager |
| `Crash` | the process dies; `_recover` of both managers |

### GoalRunner: how the model corresponds to the code

A tree is the set of writes it holds, each with its run and cycle (0 for the
bot's). `tree` and `head` are the working tree and the newest commit, `pre` is
`preCycleCommit`, `pc` the place in the loop.

| Action | Code |
|---|---|
| `UserWrites`, `BotCommits` | a user's turn in the bot, and `commitSnapshot` after it |
| `Start`, `Guard` | `run` up to the loop; `runtimeGuard` and the snapshot before a cycle |
| `AgentWrites`, `ClaudeExits` | the cycle's agents; their exit, cost and verdict |
| `Keep`, `RecordKeep` | the snapshot of a kept cycle; its row and the confirming ladder |
| `Discard`, `RecordDiscard` | the checkout and commit of the revert; its row, back to RUNNING |
| `Kill` | the CLI process dies between two steps |

A checkout of an older commit takes back changes of tracked files and leaves
files it does not know, as `revertToSnapshot` does: new files of a discarded
cycle stay. A bot's turn that was committed during a discarded cycle goes with it.

### ChiefTurn: how the model corresponds to the code

`at` is where each message is, `ahead` the `prior` it waits for, `tail` the end of
the mutex's chain; `sid`, `resumes`, `rotated`, `cancelled` and `result` are the
locals and the in-flight entry of a turn; `record` is the session file, `known`
the transcripts claude has; `focused` is history.

| Action | Code |
|---|---|
| `Enter`, `Leave` | `handleCommand`: the drain gate and `enterTurn`, `releaseTurn` |
| `Acquire`, `Begin` | `SessionMutex.acquire` up to the wait; from the release before it to `spawnClaude` |
| `ClaudeExits`, `Recover`, `Settle` | the process ends; a lost session is rotated and tried once more; the outcomes, with `recordTurn` |
| `Cancel` | `cancelTurn` |
| `Reset`, `Focus`, `Forget` | a terminal's `chief reset` and `workflow focus`; claude drops a transcript |
| `Drain`, `ExitAndStart` | SIGTERM, and the exit after the wait with what was in memory |

## 3. Runs

| Run | Instance | What it shows |
|---|---|---|
| `RM_crash` (pass) | 1 thread, 2 workers, limit 2, 4 submissions of any kind, 1 crash | safety of the queues and of the recovery; refinement of `Mailbox` |
| `RM_threads` (pass) | 2 threads, 2 workers, one with a worktree that may fail, 3 submissions, 1 crash | `IInv`, one writer, one running row |
| `RM_live` (pass) | 1 thread, 2 workers, limit 1, 3 submissions, 1 crash, fairness | every run ends, every input lands |
| `PR_steps` (pass) | 5 nodes: three start together, with two, one and no questions, a join over two steps, a loop, a gate before and one after; async; 3 inputs, 3 faults | results count once, joins wait, refinement of `Supersteps`, runs end |
| `CO_lease` (pass) | 2 threads, 2 agents that hand over to each other, 2 connections of one slot, budgets 1, org budget 2, one guarded call, 2 attempts | the guard opens on approvals alone, cards wait, overshoot is bounded, activations end |
| `WF_steps` (pass) | approval, agent, approval, tool; 3 answers, 1 error, 2 crashes | approvals are spent, artifacts saved, no second ask without a reason, an ended workflow stays so, runs end |
| `CT_turns` (pass) | 3 messages, a line of 2, 3 session ids, 1 focus, 1 exit | one process to a transcript, the record is not undone, one retry is enough, messages settle |
| `GR_cycles` (pass) | 2 runs of 4 cycles, streak limit 2, cap 3, 1 kill, 1 user turn, 3 writes | keeps stay, discards are gone, convergence on three keeps, budgets |
| `DC_gate` (pass) | 2 pushes, timeout 2, horizon 2, 1 fault | no push without approval, verdicts logged and final, one card, waiting requests spared |
| `RM_boot_crash` (violation) | 2 crashes, one inside `start` | the input of a run being recovered is lost |
| `PR_gate` (violation) | the graph of PR_steps with a gate before an entry node; 2 inputs, 1 fault | a gate throws recorded results away |
| `WF_stale_card` (violation) | 2 answers, no fault | an answer passes a card it was not given to |

Bounds and why they are enough.

- RM. Two workers and one thread make the race for a thread; a second thread adds
  the independence of the others. A limit of 2 lets a task ask, be answered and
  hand over to another that asks, and lets the limit be hit. Four submissions are
  a message, an answer, a second message and a second answer or a continuation,
  with room for two in the backlog. One crash makes one recovery, and a recovered
  run can be deferred, answered and recovered from by the next start's pass. In
  the passing runs `CrashIn` leaves a crash inside `start` out (RM_boot_crash
  shows why), and `RepoThreads` leaves the death of a worker out where the
  property is one that fails with it; RM_threads has it.
- PR. The joined nodes end in different steps and one of them goes round again,
  so a second round of the join meets the barrier of the first; three faults let
  a step be cut short, go on and be cut short again; a third input comes over a
  step that was left twice. The limit of 7 is reached. PR_steps gates a node that
  is no entry; PR_gate shows what a gated entry does.
- CO. One slot each and two threads make a line at one connection while the other
  is excluded or limited; budgets of one activation are overshot at once; two
  attempts use both connections up.
- WF. Two approvals make a stale answer meet another card, a crash can fall into
  each of the two engines, and two of them give the company's tag its second
  prefix, which the lookup no longer matches.
- CT. Three messages over a line of two have one refused; three ids are a first
  session, a reset and a lost transcript; the exit loses a turn under way.
- GR. Four cycles are three keeps with a discard before, between or after; a kill
  leaves a half-written cycle to the next run's snapshot; three writes put an
  edit and a new file into different cycles.
- DC. Two pushes make the scan meet a second request, and the events of one fall
  into the handling of the other. A timeout of two ticks has a moment in which a
  file has an age and its hook still has time; a horizon of two is the smallest
  that is no shorter. One fault is a crash of the bot, with every leftover it
  makes, or a decision that is not written.

Deadlock is checked in CO_lease and DC_gate, where something can always happen.
In the others inputs, turns or answers are bounded and a system with nothing left
to do stops.

Fairness, and why the code justifies it. RunManager: `WF(Boot)`, since `start`
runs to its end and the service manager starts the process again, and
`WF(Work(w))` for each worker, since the event loop runs every task that is ready
and every activation ends. Pregel: weak fairness of the loop and of each node's
return. Company: of the end of a stream, which a harness enforces by `timeout_s`.
Workflow: of its own loop and of the company's, not of any error, crash or
answer. ChiefTurn: of each turn, since claude is killed at `timeoutMs`. Nothing
is assumed of callers, owners or terminals. GoalRunner and DevConfirm check
safety and assume none.

## 4. Theorems

Each proof holds for every value of the constants that the module's own named
assumption allows, and has the same shape: an inductive invariant of named parts,
one lemma for each action or group of actions, the theorems from it.

- `RunManagerProofs`, for all threads, workers, limits, bounds and crash phases:
  `Invariance` (`Spec => []IInv`), `TypeCorrect`, `SoleWriterAlways`,
  `OneRunningAlways`, `QueuedArePendingAlways`.
- `RunManagerRecoveryProofs`, for all threads, finite sets of workers, limits and
  bounds: `NothingIsLost`, `NoneIsStranded`, `RowsTellTheirState`,
  `PausedAreShown`, `GivenAnswersFit`, `InputsLandInOrder`, `RunsBounded` and
  `MailboxImplemented`, the refinement of `Mailbox`. A call of a message or a
  workflow is an `Accept`, the checkpoint that `Land` writes a `Deliver`, and
  every other step, the whole of a crash and its recovery among them, stutters.
  Two hypotheses stand in the theorems and not in the module, because the code
  breaks what they guard. `"boot" \notin CrashIn` leaves a crash inside `start`
  out: it loses the run that was cancelled and has no replacement yet
  (RM_boot_crash). `RepoThreads = {}` leaves threads out whose worktree can fail
  to be made: the failure takes the worker with it and leaves its run in no queue
  (`TakeDies`, `SettleAndDie`), which strands it and lets a later one land first.
  `NothingIsLost` needs the first alone, `NoneIsStranded` the second alone and
  `RunsBounded` neither; the others need both.
- `PregelProofs`, for every graph, durability and number of faults:
  `StoresWholeSteps`, the refinement of `Supersteps`, and `GraphTyped`, from
  `GraphInv`. A step that is stored must be mapped to one abstract step, so the
  invariant says what an unstored checkpoint will do to the stored one
  (`Remembered`: start over, repeat it, or apply all of its tasks, each of which
  has its result), and that the rows of a step under way are those of the tasks
  that came back (`Stepping`). `ResultsCountOnce` proves `ExactlyOnce` with
  `Gated`: a gate that stops a step stops it before any of its tasks has a result.
  It assumes that no entry node is gated; PR_gate is the counterexample without.
  `JoinsAlwaysWait` proves `JoinsWait` where nothing but one join leads to a
  join's target (`JoinsLeadAlone`, which the instance satisfies): where an edge
  or a choice leads there too, the target runs without waiting.
- `CompanyProofs`, for any agents, handoffs, threads, connections and prices:
  `GuardIsTheOwners`, `CardsAgent`, `CardsWait`, `CompanyTyped`, from `CardInv`:
  grants, and what a stored answer is about to grant, were approved (`Granting`);
  the scheduled agent is the active one and the card its own (`Holding`).
  `BudgetsHold`, from `RouterInv`, is the bound on what a connection's budget is
  overshot by: what is spent, and the most that those in its line may still
  cost, stay below the budget and one activation of each thread (`LineHolds`),
  because a thread stands in a line once and joins none whose budget is spent.
- `WorkflowProofs`, for any definition of steps, any answers, errors and crashes:
  `ApprovalsSpent`, `StepsSaveOnce`, `CompanyAskedForAReason`, `OverStaysOver`,
  `WorkTyped`, from `WorkInv`: approvals passed, and those that may still be
  spent (queued, taken, or given to the step), are no more than were posted and
  crashes could repeat (`Spending`); what a step has saved goes by whether it is
  ahead, under way or passed (`Saving`); the company's open runs of a step are
  found by its tag, but for those that a crash has cancelled or given a second
  prefix, one for each crash at most (`Asking`).
- `ChiefTurnProofs`, for any number of messages, resets and exits and any cap:
  `TranscriptsApart`, `NothingIsUndone`, `OneRetryIsEnough`, `TurnTyped`, from
  `TurnInv`. That only one turn runs needs the shape of the chain of promises:
  there are places in line such that whoever waits is one behind the message it
  waits for, the tail is the last and the one that is free the first (`Lined`).
  The proof gives the witness for each step; an arrival is one behind the tail.
- `GoalRunnerProofs`, for any budgets, runs, kills and turns: `KeptAlways`,
  `DiscardedAlways`, `ConvergedOnKeeps`, `BudgetKept`, `GoalTyped`, from
  `GoalInv`: a cycle's anchor holds all that was kept before (`Anchored`), writes
  carry runs and cycles that have begun (`Dated`), an anchor brings no discard
  back (`Discarded`), a rung is the number of keeps the history ends with
  (`Climbed`), a cycle begins below every cap (`Capped`).
- `DevConfirmProofs`, for any finite set of pushes, any number of faults and any
  timeout and horizon, every property DC_gate checks: `GateIsInvariant`,
  `TypesHold`, `NoApprovalNoPush`, `VerdictsAreLogged`, `NoSecondCard`,
  `WaitingIsSpared` and the action property `VerdictIsFinal`. `WaitingIsSpared`
  holds for a timeout no longer than the horizon, as the property says; nothing in
  the configuration keeps the timeout below it.

Only model-checked: liveness, which together with ENABLED is out of the prover's
reach (`EveryRunEnds`, `DeliversMail`, the two `RunsEnd`, `ActivationsEnd`,
`MessagesSettle`). Every safety and action property of a passing run, and both
refinements, are theorems. No module uses RECURSIVE operators; what a recursive
definition computes could not be proved, since induction over data takes an
operator as a parameter.

## 5. What the violations show

Three runs each show a disagreement between the code and what it says of itself;
the `findings` of PROJECT.json quote the lines.

- RM_boot_crash: `start` cancels a crashed run before its replacement exists; a
  process that dies between the two loses the input.
- PR_gate: a new input keeps the `skip_before` of the checkpoint it comes over, so
  its first step runs past `interrupt_before`. Cut short and continued, the gate
  stops it, and the checkpoint stored then has none of the results recorded.
- WF_stale_card: an answer names no card. A second post for one card passes the
  next approval step.

Others are known and have no run of their own; each property stands in its
module, and naming it as an INVARIANT or PROPERTY of the cfg given shows it:

| Property | Where | What happens |
|---|---|---|
| `AnswerFitsCard` | RM_crash | `_recover` decides by what waits now, so that a consumed answer is given again, to the next card |
| `CancelledHadFinished` | RM_crash | a snapshot's `next` is not what is left to do once a result is written: a run is cancelled with a step left |
| `LandedInOrder` | RM_threads | a worker has no handler for a run that cannot be prepared; a later one lands first |
| `LandedInputIsServed` | RM_crash | the recursion limit is the thread's: an input lands and gets no superstep |
| `LeftoversReposted` | DC_gate | the bridge's scan waits for one decision where it should only post |
| `ReadsTheDecision` | DC_gate | the hook takes a decision file that is not written yet for a no, which errs on the safe side |
| `AskedOnce` | WF_steps | a run that is recovered twice has a tag `company_asker` does not find (engine.py:321): the company is asked again |
| `DiscardGoesOn` | GR_cycles | a cycle that fails its metrics without changing a committed file leaves the revert nothing to commit, and the run throws (evaluator.ts:132, git-snapshot.ts:174) |

Seen while reading, with nothing to run: the header of the hook says that it is
protected branches that are blocked and feature branches that are confirmed,
where `classifySensitive` confirms the former and allows the latter; the owner's
approval after the hook has given up is logged as a "y"; the goal runner's header
speaks of two keeps in a row (goal-runner.ts:50) where its ladder needs three.

## 6. Not modelled, and what comes next

Left out of the modelled parts:

- RunManager: another sender's pushes, the limit of a thousand rows that `start`
  reads (manager.py:144), `wait`'s event on `stop` (:321), a cron's fixed thread
  taken for landed (:127).
- Pregel: `Send`, `update_state`, subgraphs, the durability "exit", streaming, the
  clash of two writers of a channel without a reducer, answers addressed by
  interrupt id (pregel.py:509). A checkpoint being stored when a task raises is
  stored before the next run reads.
- Company: prompts, messages and hooks, the dedupe of escalations, the ranking of
  candidates (any may be taken), the recursion limit (RunManager has it). A
  failure that is not retried raises before its cost is booked.
- Workflow: the switches file, uploads, the schedule, what a tool computes, an
  owner's chat on the agent's thread. A company run that was interrupted makes its
  step fail for good: only an error is asked again.
- ChiefTurn: a terminal's read and write of the record is one step, as are the
  writes of a record (a torn file is not there); costs, stage events, expired
  credentials (an error like any other); a second runner with a mutex of its own
  (`chat --user`); a claude process that outlives a forced exit, which nothing in
  the repository waits for.
- GoalRunner: the budget of hours, `best.json`, the goal queue, the stop hook,
  preflight, the oscillation warning, `goal verify`, which checks out onto the live
  tree. The git calls of one commit or revert are one step.
- DevConfirm: which commands are gated, ids of the same millisecond.

Components with no module: the pid files and lifecycle locks (check and act of
two processes on a file), v1 cron, migrations and lifecycle journals, the v2
stores' schema versions and snapshots; these have state worth a module. The
messenger adapters, command lines, prompt and skill assembly, parsers, the
generated API types and the React client are sequential I/O and text, where a
test says as much as a model. They are most of the repository's lines, so the
part of all its lines that the modules stand for is small.

What comes next, in this order:

1. That every waiting hook is asked, under fairness of the bot's event loop.
2. `PidLock` (the v1 locks), `Migrations` (journal, stages, rollback), `Cron`.
3. Proofs: what of the recovery survives a worktree that cannot be made. Nothing
   is lost and at most one run of a thread runs; what is said of order needs a
   weaker form, of the runs that a queue or a worker holds.

Runs are few and each asks one question: where a later module needs room, the
violation runs make it.
