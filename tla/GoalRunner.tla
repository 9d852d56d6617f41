----------------------------- MODULE GoalRunner -----------------------------
(***************************************************************************)
(* An autonomous goal run of the v1 bot: its cycles (engine/goal-runner.ts)*)
(* under the runtime guard (guards.ts), each evaluated to keep or discard  *)
(* (evaluator.ts) over the org's snapshot repository (bot/git-snapshot.ts),*)
(* while the bot, another process, writes and commits in the same trees.   *)
(*                                                                         *)
(* A tree is the set of writes it holds.  A write changes a file that the  *)
(* repository tracks ("edit") or makes a file it does not know ("new"): a  *)
(* checkout of an older commit takes back the former and not the latter.   *)
(* The few git calls of one commit or one revert are taken together.       *)
(***************************************************************************)
EXTENDS Integers, Sequences, SequencesExt

CONSTANTS
    CycleBudget,   \* time_budget.cycles
    DiscardLimit,  \* consecutive_discard_limit
    Budget,        \* cost_budget.total_usd
    MaxCost,       \* bound: what one cycle may cost
    MaxRuns,       \* bound: runs of the goal
    MaxKills,      \* bound: runs that are killed
    MaxTurns,      \* bound: user turns that write
    MaxWrites      \* bound: writes of the agents

ASSUME GoalAssumption ==
    /\ CycleBudget \in Nat \ {0} /\ DiscardLimit \in Nat \ {0}
    /\ Budget \in Nat \ {0} /\ MaxCost \in Nat
    /\ MaxRuns \in Nat /\ MaxKills \in Nat
    /\ MaxTurns \in Nat /\ MaxWrites \in Nat

VARIABLES
    tree,    \* the working tree
    head,    \* the newest commit
    pc,      \* the run: "off", "guard", "work", "measure", "keep", "discard" or "over"
    ladder,  \* state
    cycle, streak, spent,
    pre,     \* preCycleCommit
    ending,  \* how the last run ended
    runs, kills, turns, writes,
    kept,    \* history: the writes of the cycles recorded as kept
    dropped, \* history: the edits of the cycles recorded as discarded
    recent   \* history: what the run's last cycles came to, newest last

repository == <<tree, head>>
counters == <<cycle, streak, spent>>
vars == <<repository, pc, ladder, counters, pre, ending, runs, kills, turns, writes, kept, dropped, recent>>

\* A write of the bot is of run 0.
Write == [run: 0 .. MaxRuns, cycle: Nat, kind: {"edit", "new"}]
Edits(files) == {w \in files : w.kind = "edit"}
Own == {w \in tree : w.run = runs /\ w.cycle = cycle}
LastThree(seq) == IF Len(seq) > 3 THEN Tail(seq) ELSE seq

-----------------------------------------------------------------------------
(***************************************************************************)
(* The bot (bot/index.ts): a user's turn, with a snapshot before and after.*)
(***************************************************************************)

UserWrites ==
    /\ turns < MaxTurns /\ turns' = turns + 1
    /\ \E kind \in {"edit", "new"} : tree' = tree \cup {[run |-> 0, cycle |-> turns, kind |-> kind]}
    /\ UNCHANGED <<head, pc, ladder, counters, pre, ending, runs, kills, writes, kept, dropped, recent>>

BotCommits ==
    /\ head # tree
    /\ head' = tree
    /\ UNCHANGED <<tree, pc, ladder, counters, pre, ending, runs, kills, turns, writes, kept, dropped, recent>>

-----------------------------------------------------------------------------
(***************************************************************************)
(* The run.                                                                *)
(***************************************************************************)

\* What a run holds is in its process.
Fresh == /\ ladder' = "RUNNING" /\ pre' = {} /\ ending' = "none"
         /\ cycle' = 0 /\ streak' = 0 /\ spent' = 0 /\ recent' = <<>>

Start ==
    /\ pc \in {"off", "over"} /\ runs < MaxRuns
    /\ runs' = runs + 1
    /\ pc' = "guard" /\ Fresh
    /\ UNCHANGED <<repository, kills, turns, writes, kept, dropped>>

End(how) == pc' = "over" /\ ending' = how

\* Mutant of Exhausted: the cost cap is passed before it stops the run.
ExhaustedPastCap == spent > Budget \/ cycle >= CycleBudget \/ streak >= DiscardLimit

\* runtimeGuard: cost, cycles, discard streak.
Exhausted == spent >= Budget \/ cycle >= CycleBudget \/ streak >= DiscardLimit

\* Mutant of Anchor: the run keeps the anchor of its first cycle.
AnchorOnce == IF cycle = 0 THEN tree ELSE pre

\* takePreCycleSnapshot commits what is there, or finds it committed.
Anchor == tree

Guard ==
    /\ pc = "guard"
    /\ cycle' = cycle + 1
    /\ \/ Exhausted /\ End("STOPPED") /\ UNCHANGED <<head, pre>>
       \/ ~Exhausted /\ pc' = "work" /\ head' = tree /\ pre' = Anchor /\ UNCHANGED ending
    /\ UNCHANGED <<tree, ladder, streak, spent, runs, kills, turns, writes, kept, dropped, recent>>

\* The PM and its specialists work in the org's trees.
AgentWrites ==
    /\ pc = "work"
    /\ writes < MaxWrites /\ writes' = writes + 1
    /\ \E kind \in {"edit", "new"} : tree' = tree \cup {[run |-> runs, cycle |-> cycle, kind |-> kind]}
    /\ UNCHANGED <<head, pc, ladder, counters, pre, ending, runs, kills, turns, kept, dropped, recent>>

\* A process that was killed at its time limit has no exit code and counts as
\* done; a run that stops on an error has not booked its last cycle.
ClaudeExits ==
    /\ pc = "work"
    /\ \/ /\ \E cost \in 0 .. MaxCost : spent' = spent + cost
          /\ pc' = "measure" /\ UNCHANGED ending
       \/ End("STOPPED") /\ UNCHANGED spent
    /\ UNCHANGED <<repository, ladder, cycle, streak, pre, runs, kills, turns, writes, kept, dropped, recent>>

\* Every metric clears its threshold: what is there is committed.
Keep ==
    /\ pc = "measure"
    /\ head' = tree
    /\ pc' = "keep"
    /\ UNCHANGED <<tree, ladder, counters, pre, ending, runs, kills, turns, writes, kept, dropped, recent>>

\* git checkout <pre> -- <tree>: what the anchor does not know stays.
Reverted(files) == (files \ Edits(files)) \cup Edits(pre)

\* Mutant of RevertCommit: the checkout is left for a later commit.
RevertCommitLater == head

RevertCommit == Reverted(head)

\* revertToSnapshot: the tracked files are checked out from the anchor; where
\* that leaves nothing to commit, the commit fails and the error ends the run.
Discard ==
    /\ pc = "measure"
    /\ tree' = Reverted(tree)
    /\ IF Reverted(head) = head
       THEN End("threw") /\ UNCHANGED head
       ELSE pc' = "discard" /\ head' = RevertCommit /\ UNCHANGED ending
    /\ UNCHANGED <<ladder, counters, pre, runs, kills, turns, writes, kept, dropped, recent>>

Rung == [RUNNING |-> "CONFIRMING1", CONFIRMING1 |-> "CONFIRMING2", CONFIRMING2 |-> "CONVERGED"]

\* appendResults, and the ladder goes up.
RecordKeep ==
    /\ pc = "keep"
    /\ kept' = kept \cup Own
    /\ recent' = LastThree(Append(recent, "keep"))
    /\ streak' = 0
    /\ ladder' = Rung[ladder]
    /\ IF ladder' = "CONVERGED" THEN End("CONVERGED") ELSE pc' = "guard" /\ UNCHANGED ending
    /\ UNCHANGED <<repository, cycle, spent, pre, runs, kills, turns, writes, dropped>>

\* Mutant of AfterDiscard: a discard leaves the ladder where it is.
AfterDiscardStays == ladder

AfterDiscard == "RUNNING"

RecordDiscard ==
    /\ pc = "discard"
    /\ dropped' = dropped \cup {[run |-> runs, cycle |-> cycle, kind |-> "edit"]}
    /\ recent' = LastThree(Append(recent, "discard"))
    /\ streak' = streak + 1
    /\ ladder' = AfterDiscard
    /\ pc' = "guard"
    /\ UNCHANGED <<repository, cycle, spent, pre, ending, runs, kills, turns, writes, kept>>

\* The CLI process is killed; its trees stay as they are.
Kill ==
    /\ pc \notin {"off", "over"}
    /\ kills < MaxKills /\ kills' = kills + 1
    /\ pc' = "off" /\ Fresh
    /\ UNCHANGED <<repository, runs, turns, writes, kept, dropped>>

-----------------------------------------------------------------------------
Init ==
    /\ tree = {} /\ head = {}
    /\ pc = "off" /\ ladder = "RUNNING"
    /\ cycle = 0 /\ streak = 0 /\ spent = 0
    /\ pre = {} /\ ending = "none"
    /\ runs = 0 /\ kills = 0 /\ turns = 0 /\ writes = 0
    /\ kept = {} /\ dropped = {} /\ recent = <<>>

Loop == Guard \/ ClaudeExits \/ Keep \/ Discard \/ RecordKeep \/ RecordDiscard
Next == UserWrites \/ BotCommits \/ Start \/ AgentWrites \/ Loop \/ Kill

Spec == Init /\ [][Next]_vars

-----------------------------------------------------------------------------
TypeOK ==
    /\ tree \in SUBSET Write /\ head \in SUBSET Write /\ pre \in SUBSET Write /\ kept \in SUBSET Write /\ dropped \in SUBSET Write
    /\ pc \in {"off", "guard", "work", "measure", "keep", "discard", "over"}
    /\ ladder \in {"RUNNING", "CONFIRMING1", "CONFIRMING2", "CONVERGED"}
    /\ cycle \in Nat /\ streak \in Nat /\ spent \in Nat
    /\ ending \in {"none", "STOPPED", "CONVERGED", "threw"}
    /\ runs \in 0 .. MaxRuns /\ kills \in Nat /\ turns \in Nat /\ writes \in Nat
    /\ recent \in Seq({"keep", "discard"})

\* What a recorded keep kept stays in the tree and in the newest commit, across
\* later discards, reverts that fail half-way, kills, further runs and the
\* commits of the bot (evaluator.ts, revertToSnapshot).
KeptStays == kept \subseteq tree /\ kept \subseteq head

\* A run converges on three kept cycles with nothing discarded between them.
ConvergesOnKeeps == ladder = "CONVERGED" => recent = <<"keep", "keep", "keep">>

\* A run passes its cost cap by less than one cycle, tries no more cycles than
\* its budget and ends at the limit of its discard streak (runtimeGuard).
StaysInBudget ==
    /\ spent < Budget + MaxCost
    /\ streak <= DiscardLimit
    /\ pc \in {"work", "measure", "keep", "discard"} => cycle <= CycleBudget

\* What a recorded discard took back is gone for good: no later snapshot, revert,
\* run or commit of the bot brings its edits back (evaluator.ts).
DiscardedIsGone == dropped \cap (tree \cup head) = {}

\* What evaluator.ts says of a discard: it reverts to the pre-cycle commit and
\* appends its row, so the run goes on to the next cycle.
DiscardGoesOn == ending # "threw"
=============================================================================
