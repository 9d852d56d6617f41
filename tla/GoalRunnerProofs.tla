--------------------------- MODULE GoalRunnerProofs ---------------------------
(***************************************************************************)
(* For any budgets, runs, kills, user turns and writes of the agents: what *)
(* a goal kept stays, what it discarded is gone, a run converges on three  *)
(* keeps in a row and stays within its caps.                               *)
(***************************************************************************)
EXTENDS GoalRunner, SequenceTheorems, TLAPS

-----------------------------------------------------------------------------
(***************************************************************************)
(* The inductive invariant.                                                *)
(***************************************************************************)

InCycle == pc \in {"work", "measure", "keep", "discard"}
Current == [run |-> runs, cycle |-> cycle, kind |-> "edit"]

\* The anchor of a cycle holds all that was kept before it.
Anchored ==
    /\ KeptStays
    /\ pc \in {"work", "measure"} => kept \subseteq pre
    /\ pc = "keep" => Own \subseteq head

\* A write is of a run and a cycle that have begun; the anchor's are older than
\* the cycle, and so is every discard while a cycle is under way.
Dated ==
    /\ pc # "off" => runs > 0
    /\ \A w \in tree \cup head :
          w.run <= runs /\ (w.run = runs /\ pc # "off" => w.cycle <= cycle)
    /\ pc \in {"work", "measure"} =>
          \A w \in pre : w.run <= runs /\ (w.run = runs => w.cycle < cycle)
    /\ \A w \in dropped :
          /\ 0 < w.run /\ w.run <= runs
          /\ w.run = runs /\ pc # "off" => w.cycle <= cycle
          /\ w.run = runs /\ InCycle => w.cycle < cycle

\* A discard takes back the edits that are recorded next, and its anchor brings
\* back none that were recorded before.
Discarded ==
    /\ DiscardedIsGone
    /\ pc \in {"work", "measure"} => dropped \cap pre = {}
    /\ pc = "discard" => Current \notin tree \cup head

\* The rung of the ladder is the number of keeps the history ends with.
Climbed ==
    /\ Len(recent) <= 3
    /\ ladder = "CONFIRMING1" => Len(recent) >= 1 /\ recent[Len(recent)] = "keep"
    /\ ladder = "CONFIRMING2" =>
          Len(recent) >= 2 /\ recent[Len(recent)] = "keep" /\ recent[Len(recent) - 1] = "keep"
    /\ ladder = "CONVERGED" => recent = <<"keep", "keep", "keep">> /\ pc = "over"

\* A cycle begins below every cap.
Capped ==
    /\ StaysInBudget
    /\ pc = "work" => spent < Budget
    /\ InCycle => streak < DiscardLimit

GoalInv == TypeOK /\ Anchored /\ Dated /\ Discarded /\ Climbed /\ Capped

-----------------------------------------------------------------------------
LEMMA InitGoal == Init => GoalInv
BY GoalAssumption DEF Init, GoalInv, TypeOK, Anchored, KeptStays, Dated, InCycle, Discarded, DiscardedIsGone,
   Climbed, Capped, StaysInBudget

\* A history one longer, and one shorter.
LEMMA OneMore ==
    ASSUME NEW S, NEW seq \in Seq(S), NEW how \in S, NEW longer, longer = Append(seq, how)
    PROVE  /\ longer \in Seq(S) /\ longer # <<>> /\ Len(longer) = Len(seq) + 1
           /\ longer[Len(seq) + 1] = how
           /\ \A i \in 1 .. Len(seq) : longer[i] = seq[i]
<1>1. longer \in Seq(S) /\ longer # <<>> /\ Len(longer) = Len(seq) + 1
  BY AppendProperties
<1>2. longer[Len(seq) + 1] = how
  BY AppendProperties
<1>3. \A i \in 1 .. Len(seq) : longer[i] = seq[i]
  BY AppendProperties
<1> QED
  BY <1>1, <1>2, <1>3

LEMMA OneLess ==
    ASSUME NEW S, NEW longer \in Seq(S), longer # <<>>, NEW rest, rest = Tail(longer)
    PROVE  /\ rest \in Seq(S) /\ Len(rest) = Len(longer) - 1
           /\ \A i \in 1 .. Len(rest) : rest[i] = longer[i + 1]
BY HeadTailProperties

\* What the history shows after one more cycle.
LEMMA LastOnes ==
    ASSUME NEW seq \in Seq({"keep", "discard"}), Len(seq) <= 3, NEW how \in {"keep", "discard"},
           NEW new, new = LastThree(Append(seq, how))
    PROVE  /\ new \in Seq({"keep", "discard"}) /\ Len(new) >= 1 /\ Len(new) <= 3
           /\ new[Len(new)] = how
           /\ Len(seq) >= 1 => Len(new) >= 2 /\ new[Len(new) - 1] = seq[Len(seq)]
           /\ Len(seq) >= 2 => Len(new) = 3 /\ new[1] = seq[Len(seq) - 1]
<1>1. PICK longer : longer = Append(seq, how)
  OBVIOUS
<1>l. /\ longer \in Seq({"keep", "discard"}) /\ longer # <<>> /\ Len(longer) = Len(seq) + 1
      /\ longer[Len(seq) + 1] = how
      /\ \A i \in 1 .. Len(seq) : longer[i] = seq[i]
  BY <1>1, OneMore
<1>2. PICK n \in Nat : n = Len(seq) /\ n <= 3
  BY LenProperties
<1>3. CASE n = 3
  <2>1. new = Tail(longer)
    BY <1>1, <1>l, <1>2, <1>3 DEF LastThree
  <2>2. /\ new \in Seq({"keep", "discard"}) /\ Len(new) = 3
        /\ \A i \in 1 .. Len(new) : new[i] = longer[i + 1]
    <3>1. new \in Seq({"keep", "discard"}) /\ Len(new) = Len(longer) - 1
      BY <1>1, <1>l, <2>1, OneLess
    <3>2. \A i \in 1 .. Len(new) : new[i] = longer[i + 1]
      BY <1>1, <1>l, <2>1, OneLess
    <3>3. Len(new) = 3
      BY <1>1, <1>l, <1>2, <1>3, <3>1
    <3> QED
      BY <3>1, <3>2, <3>3
  <2>3. new[1] = longer[2] /\ new[2] = longer[3] /\ new[3] = longer[4]
    BY <2>2
  <2>4. new[3] = how /\ new[2] = seq[3] /\ new[1] = seq[2]
    BY <1>1, <1>l, <1>2, <1>3, <2>3
  <2> QED
    BY <1>2, <1>3, <2>2, <2>4
<1>4. CASE n < 3
  <2>1. new = longer
    BY <1>1, <1>l, <1>2, <1>4 DEF LastThree
  <2> QED
    BY <1>1, <1>l, <1>2, <1>4, <2>1
<1> QED
  BY <1>2, <1>3, <1>4

LEMMA Rungs ==
    /\ Rung["RUNNING"] = "CONFIRMING1"
    /\ Rung["CONFIRMING1"] = "CONFIRMING2"
    /\ Rung["CONFIRMING2"] = "CONVERGED"
BY DEF Rung

\* A user's turn writes in run 0, which no cycle is of.
LEMMA UserGoal == ASSUME GoalInv, UserWrites PROVE GoalInv'
<1>1. TypeOK'
  BY GoalAssumption DEF GoalInv, TypeOK, Write, UserWrites, counters
<1>2. Anchored'
  BY DEF GoalInv, TypeOK, Write, Anchored, KeptStays, Dated, Own, UserWrites, counters
<1>3. Dated'
  BY DEF GoalInv, TypeOK, Write, Dated, InCycle, UserWrites, counters
<1>4. Discarded'
  BY DEF GoalInv, TypeOK, Write, Dated, Discarded, DiscardedIsGone, Current, InCycle, UserWrites, counters
<1>5. Climbed'
  BY DEF GoalInv, TypeOK, Climbed, UserWrites, counters
<1>6. Capped'
  BY GoalAssumption DEF GoalInv, TypeOK, Capped, StaysInBudget, InCycle, UserWrites, counters
<1> QED
  BY <1>1, <1>2, <1>3, <1>4, <1>5, <1>6 DEF GoalInv

\* The bot commits what is there.
LEMMA BotGoal == ASSUME GoalInv, BotCommits PROVE GoalInv'
<1>1. TypeOK'
  BY GoalAssumption DEF GoalInv, TypeOK, Write, BotCommits, counters
<1>2. Anchored'
  BY DEF GoalInv, TypeOK, Write, Anchored, KeptStays, Dated, Own, BotCommits, counters
<1>3. Dated'
  BY DEF GoalInv, TypeOK, Write, Dated, InCycle, BotCommits, counters
<1>4. Discarded'
  BY DEF GoalInv, TypeOK, Write, Dated, Discarded, DiscardedIsGone, Current, InCycle, BotCommits, counters
<1>5. Climbed'
  BY DEF GoalInv, TypeOK, Climbed, BotCommits, counters
<1>6. Capped'
  BY GoalAssumption DEF GoalInv, TypeOK, Capped, StaysInBudget, InCycle, BotCommits, counters
<1> QED
  BY <1>1, <1>2, <1>3, <1>4, <1>5, <1>6 DEF GoalInv

\* A new run has no write and no discard yet.
LEMMA StartGoal == ASSUME GoalInv, Start PROVE GoalInv'
<1>1. TypeOK'
  BY GoalAssumption DEF GoalInv, TypeOK, Write, Start, Fresh, repository
<1>2. Anchored'
  BY DEF GoalInv, TypeOK, Write, Anchored, KeptStays, Dated, Own, Start, Fresh, repository
<1>3. Dated'
  BY DEF GoalInv, TypeOK, Write, Dated, InCycle, Start, Fresh, repository
<1>4. Discarded'
  BY DEF GoalInv, TypeOK, Write, Dated, Discarded, DiscardedIsGone, Current, InCycle, Start, Fresh, repository
<1>5. Climbed'
  BY DEF GoalInv, TypeOK, Climbed, Start, Fresh, repository
<1>6. Capped'
  BY GoalAssumption DEF GoalInv, TypeOK, Capped, StaysInBudget, InCycle, Start, Fresh, repository
<1> QED
  BY <1>1, <1>2, <1>3, <1>4, <1>5, <1>6 DEF GoalInv

\* The anchor is taken when a cycle begins, below every cap.
LEMMA GuardGoal == ASSUME GoalInv, Guard PROVE GoalInv'
<1>1. TypeOK'
  BY GoalAssumption DEF GoalInv, TypeOK, Write, Guard, End, Exhausted, Anchor
<1>2. Anchored'
  BY DEF GoalInv, TypeOK, Write, Anchored, KeptStays, Dated, Own, Guard, End, Exhausted, Anchor
<1>3. Dated'
  BY DEF GoalInv, TypeOK, Write, Dated, InCycle, Guard, End, Exhausted, Anchor
<1>4. Discarded'
  BY DEF GoalInv, TypeOK, Write, Dated, Discarded, DiscardedIsGone, Current, InCycle, Guard, End, Exhausted, Anchor
<1>5. Climbed'
  BY DEF GoalInv, TypeOK, Climbed, Guard, End, Exhausted, Anchor
<1>6. Capped'
  BY GoalAssumption DEF GoalInv, TypeOK, Capped, StaysInBudget, InCycle, Guard, End, Exhausted, Anchor
<1> QED
  BY <1>1, <1>2, <1>3, <1>4, <1>5, <1>6 DEF GoalInv

\* The agents write in the cycle under way.
LEMMA AgentGoal == ASSUME GoalInv, AgentWrites PROVE GoalInv'
<1>1. TypeOK'
  BY GoalAssumption DEF GoalInv, TypeOK, Write, AgentWrites, counters
<1>2. Anchored'
  BY DEF GoalInv, TypeOK, Write, Anchored, KeptStays, Dated, Own, AgentWrites, counters
<1>3. Dated'
  BY DEF GoalInv, TypeOK, Write, Dated, InCycle, AgentWrites, counters
<1>4. Discarded'
  BY DEF GoalInv, TypeOK, Write, Dated, Discarded, DiscardedIsGone, Current, InCycle, AgentWrites, counters
<1>5. Climbed'
  BY DEF GoalInv, TypeOK, Climbed, AgentWrites, counters
<1>6. Capped'
  BY GoalAssumption DEF GoalInv, TypeOK, Capped, StaysInBudget, InCycle, AgentWrites, counters
<1> QED
  BY <1>1, <1>2, <1>3, <1>4, <1>5, <1>6 DEF GoalInv

\* One cycle's cost is booked.
LEMMA ExitGoal == ASSUME GoalInv, ClaudeExits PROVE GoalInv'
<1>1. TypeOK'
  BY GoalAssumption DEF GoalInv, TypeOK, Write, ClaudeExits, End, repository
<1>2. Anchored'
  BY DEF GoalInv, TypeOK, Write, Anchored, KeptStays, Dated, Own, ClaudeExits, End, repository
<1>3. Dated'
  BY DEF GoalInv, TypeOK, Write, Dated, InCycle, ClaudeExits, End, repository
<1>4. Discarded'
  BY DEF GoalInv, TypeOK, Write, Dated, Discarded, DiscardedIsGone, Current, InCycle, ClaudeExits, End, repository
<1>5. Climbed'
  BY DEF GoalInv, TypeOK, Climbed, ClaudeExits, End, repository
<1>6. Capped'
  BY GoalAssumption DEF GoalInv, TypeOK, Capped, StaysInBudget, InCycle, ClaudeExits, End, repository
<1> QED
  BY <1>1, <1>2, <1>3, <1>4, <1>5, <1>6 DEF GoalInv

\* A keep commits what is there.
LEMMA KeepGoal == ASSUME GoalInv, Keep PROVE GoalInv'
<1>1. TypeOK'
  BY GoalAssumption DEF GoalInv, TypeOK, Write, Keep, counters
<1>2. Anchored'
  BY DEF GoalInv, TypeOK, Write, Anchored, KeptStays, Dated, Own, Keep, counters
<1>3. Dated'
  BY DEF GoalInv, TypeOK, Write, Dated, InCycle, Keep, counters
<1>4. Discarded'
  BY DEF GoalInv, TypeOK, Write, Dated, Discarded, DiscardedIsGone, Current, InCycle, Keep, counters
<1>5. Climbed'
  BY DEF GoalInv, TypeOK, Climbed, Keep, counters
<1>6. Capped'
  BY GoalAssumption DEF GoalInv, TypeOK, Capped, StaysInBudget, InCycle, Keep, counters
<1> QED
  BY <1>1, <1>2, <1>3, <1>4, <1>5, <1>6 DEF GoalInv

\* A discard leaves what is new, and of the edits those of the anchor.
LEMMA DiscardGoal == ASSUME GoalInv, Discard PROVE GoalInv'
<1>1. TypeOK'
  BY GoalAssumption DEF GoalInv, TypeOK, Write, Discard, End, Reverted, RevertCommit, Edits, counters
<1>2. Anchored'
  BY DEF GoalInv, TypeOK, Write, Anchored, KeptStays, Dated, Own, Discard, End, Reverted, RevertCommit, Edits, counters
<1>3. Dated'
  BY DEF GoalInv, TypeOK, Write, Dated, InCycle, Discard, End, Reverted, RevertCommit, Edits, counters
<1>4. Discarded'
  BY DEF GoalInv, TypeOK, Write, Dated, Discarded, DiscardedIsGone, Current, InCycle, Discard, End, Reverted, RevertCommit, Edits, counters
<1>5. Climbed'
  BY DEF GoalInv, TypeOK, Climbed, Discard, End, Reverted, RevertCommit, Edits, counters
<1>6. Capped'
  BY GoalAssumption DEF GoalInv, TypeOK, Capped, StaysInBudget, InCycle, Discard, End, Reverted, RevertCommit, Edits, counters
<1> QED
  BY <1>1, <1>2, <1>3, <1>4, <1>5, <1>6 DEF GoalInv

\* A recorded keep is in the tree and committed, and the ladder goes up.
LEMMA RecordKeepGoal == ASSUME GoalInv, RecordKeep PROVE GoalInv'
<1>a. /\ recent \in Seq({"keep", "discard"}) /\ Len(recent) <= 3
      /\ recent' = LastThree(Append(recent, "keep"))
  BY DEF GoalInv, TypeOK, Climbed, RecordKeep
<1>b. ladder' = Rung[ladder] /\ ladder \in {"RUNNING", "CONFIRMING1", "CONFIRMING2"}
  BY DEF GoalInv, TypeOK, Climbed, RecordKeep
<1>1. TypeOK'
  BY <1>a, <1>b, LastOnes, Rungs DEF GoalInv, TypeOK, Write, RecordKeep, End, Own, repository
<1>2. Anchored'
  BY DEF GoalInv, TypeOK, Write, Anchored, KeptStays, Dated, Own, RecordKeep, End, repository
<1>3. Dated'
  BY DEF GoalInv, TypeOK, Write, Dated, InCycle, RecordKeep, End, repository
<1>4. Discarded'
  BY DEF GoalInv, TypeOK, Write, Dated, Discarded, DiscardedIsGone, Current, InCycle, RecordKeep, End, repository
<1>5. Climbed'
  <2>1. recent' \in Seq({"keep", "discard"}) /\ Len(recent') >= 1 /\ Len(recent') <= 3 /\ recent'[Len(recent')] = "keep"
    BY <1>a, LastOnes
  <2>2. CASE ladder = "RUNNING"
    BY <1>b, <2>1, <2>2, Rungs DEF Climbed
  <2>3. CASE ladder = "CONFIRMING1"
    <3>1. Len(recent) >= 1 /\ recent[Len(recent)] = "keep"
      BY <2>3 DEF GoalInv, Climbed
    <3>2. Len(recent') >= 2 /\ recent'[Len(recent') - 1] = "keep"
      BY <1>a, <3>1, LastOnes
    <3> QED
      BY <1>b, <2>1, <2>3, <3>2, Rungs DEF Climbed
  <2>4. CASE ladder = "CONFIRMING2"
    <3>1. Len(recent') = 3 /\ recent'[3] = "keep" /\ recent'[2] = "keep" /\ recent'[1] = "keep"
      BY <1>a, <2>1, <2>4, LastOnes DEF GoalInv, Climbed
    <3>2. recent' = <<"keep", "keep", "keep">>
      BY <2>1, <3>1
    <3> QED
      BY <1>b, <2>1, <2>4, <3>2, Rungs DEF Climbed, RecordKeep, End
  <2> QED
    BY <1>b, <2>2, <2>3, <2>4
<1>6. Capped'
  BY GoalAssumption DEF GoalInv, TypeOK, Capped, StaysInBudget, InCycle, RecordKeep, End, repository
<1> QED
  BY <1>1, <1>2, <1>3, <1>4, <1>5, <1>6 DEF GoalInv

\* A recorded discard is neither in the tree nor committed.
LEMMA RecordDiscardGoal == ASSUME GoalInv, RecordDiscard PROVE GoalInv'
<1>a. recent' \in Seq({"keep", "discard"}) /\ Len(recent') <= 3
  <2>1. recent \in Seq({"keep", "discard"}) /\ Len(recent) <= 3 /\ recent' = LastThree(Append(recent, "discard"))
    BY DEF GoalInv, TypeOK, Climbed, RecordDiscard
  <2>2. recent' \in Seq({"keep", "discard"}) /\ Len(recent') >= 1 /\ Len(recent') <= 3
    BY <2>1, LastOnes
  <2> QED
    BY <2>2
<1>1. TypeOK'
  BY <1>a DEF GoalInv, TypeOK, Write, RecordDiscard, AfterDiscard, repository
<1>2. Anchored'
  BY DEF GoalInv, TypeOK, Write, Anchored, KeptStays, Dated, Own, RecordDiscard, AfterDiscard, repository
<1>3. Dated'
  BY DEF GoalInv, TypeOK, Write, Dated, InCycle, RecordDiscard, AfterDiscard, repository
<1>4. Discarded'
  BY DEF GoalInv, TypeOK, Write, Dated, Discarded, DiscardedIsGone, Current, InCycle, RecordDiscard, AfterDiscard, repository
<1>5. Climbed'
  BY <1>a DEF Climbed, RecordDiscard, AfterDiscard
<1>6. Capped'
  BY GoalAssumption DEF GoalInv, TypeOK, Capped, StaysInBudget, InCycle, RecordDiscard, AfterDiscard, repository
<1> QED
  BY <1>1, <1>2, <1>3, <1>4, <1>5, <1>6 DEF GoalInv

\* A kill ends the run and leaves the trees.
LEMMA KillGoal == ASSUME GoalInv, Kill PROVE GoalInv'
<1>1. TypeOK'
  BY GoalAssumption DEF GoalInv, TypeOK, Write, Kill, Fresh, repository
<1>2. Anchored'
  BY DEF GoalInv, TypeOK, Write, Anchored, KeptStays, Dated, Own, Kill, Fresh, repository
<1>3. Dated'
  BY DEF GoalInv, TypeOK, Write, Dated, InCycle, Kill, Fresh, repository
<1>4. Discarded'
  BY DEF GoalInv, TypeOK, Write, Dated, Discarded, DiscardedIsGone, Current, InCycle, Kill, Fresh, repository
<1>5. Climbed'
  BY DEF GoalInv, TypeOK, Climbed, Kill, Fresh, repository
<1>6. Capped'
  BY GoalAssumption DEF GoalInv, TypeOK, Capped, StaysInBudget, InCycle, Kill, Fresh, repository
<1> QED
  BY <1>1, <1>2, <1>3, <1>4, <1>5, <1>6 DEF GoalInv

LEMMA StepGoal == GoalInv /\ [Next]_vars => GoalInv'
<1> SUFFICES ASSUME GoalInv, [Next]_vars PROVE GoalInv'
  OBVIOUS
<1>1. CASE UNCHANGED vars
  BY <1>1 DEF vars, repository, counters, GoalInv, TypeOK, Anchored, KeptStays, Own, Dated, InCycle,
     Discarded, DiscardedIsGone, Current, Climbed, Capped, StaysInBudget
<1> QED
  BY <1>1, UserGoal, BotGoal, StartGoal, GuardGoal, AgentGoal, ExitGoal, KeepGoal, DiscardGoal, RecordKeepGoal,
     RecordDiscardGoal, KillGoal DEF Next, Loop

\* What was kept, dated and discarded stays consistent in every reachable state.
THEOREM GoalHolds == Spec => []GoalInv
BY InitGoal, StepGoal, PTL DEF Spec

\* Every variable has its type.
THEOREM GoalTyped == Spec => []TypeOK
<1>1. GoalInv => TypeOK
  BY DEF GoalInv
<1> QED
  BY <1>1, GoalHolds, PTL

\* A recorded keep is never taken back, by no discard, run, kill or commit of the bot.
THEOREM KeptAlways == Spec => []KeptStays
<1>1. GoalInv => KeptStays
  BY DEF GoalInv, Anchored
<1> QED
  BY <1>1, GoalHolds, PTL

\* The edits of a recorded discard never come back.
THEOREM DiscardedAlways == Spec => []DiscardedIsGone
<1>1. GoalInv => DiscardedIsGone
  BY DEF GoalInv, Discarded
<1> QED
  BY <1>1, GoalHolds, PTL

\* A run that converged ends with three keeps in a row.
THEOREM ConvergedOnKeeps == Spec => []ConvergesOnKeeps
<1>1. GoalInv => ConvergesOnKeeps
  BY DEF GoalInv, Climbed, ConvergesOnKeeps
<1> QED
  BY <1>1, GoalHolds, PTL

\* No run passes its cost cap by a whole cycle, its cycles or its streak.
THEOREM BudgetKept == Spec => []StaysInBudget
<1>1. GoalInv => StaysInBudget
  BY DEF GoalInv, Capped
<1> QED
  BY <1>1, GoalHolds, PTL
=============================================================================
