---------------------------- MODULE WorkflowProofs ----------------------------
(***************************************************************************)
(* For any definition of a workflow, any answers, failures and crashes: a  *)
(* workflow that is over stays as it is, approvals are spent once, what a  *)
(* step saves is saved once, and the company is asked for a reason.        *)
(***************************************************************************)
EXTENDS Workflow, SequenceTheorems, FiniteSetTheorems, TLAPS

-----------------------------------------------------------------------------
(***************************************************************************)
(* The inductive invariant.                                                *)
(***************************************************************************)

One(p) == IF p THEN 1 ELSE 0

\* A run is with a worker from its take to its outcome.
Taken == now = None <=> at = "off"

\* The input is run before anything else, and only once it has not landed.
InputFirst ==
    /\ status = "none" => place = 0
    /\ status # "none" => place # 0
    /\ \A i \in DOMAIN queue : queue[i].kind = "input" => i = 1 /\ now = None /\ status = "none"
    /\ now # None /\ now.kind = "input" /\ at = "taken" => status = "none"

\* A step's writes are those of a workflow under way.
StepsOpen ==
    /\ status # "running" => slot = Blank
    /\ at \in {"waiting", "made"} => status = "running" /\ place \in Places /\ slot.result = None
    /\ at = "waiting" => target # 0 /\ Steps[place] = "agent"
    /\ made = "interrupted" => at = "ended" /\ place \in Places
    /\ slot.result # None => place \in Places

\* Only an approval asks, and it goes by the answer it was given.
Decided ==
    /\ slot.asked => place \in Places /\ Steps[place] = "approval"
    /\ slot.given # None => slot.asked /\ slot.given.kind = "resume"
    /\ at = "made" =>
          IF Steps[place] = "approval" THEN slot.given # None /\ made = slot.given.says ELSE made = "done"
    /\ slot.result # None =>
          IF Steps[place] = "approval" THEN slot.given # None /\ slot.result = slot.given.says
                                       ELSE slot.result = "done"

\* Approvals that may still be spent: given to the step, taken, or queued.
Approves(run) == run.kind = "resume" /\ run.says = "approved"
Given == slot.given # None /\ Approves(slot.given)
InHand == at = "taken" /\ Approves(now)
Approving(runs) == {i \in DOMAIN runs : Approves(runs[i])}

Unspent == One(Given) + One(InHand) + Cardinality(Approving(queue))

Spending == Cardinality(Passed) + Unspent <= said + crashes

\* What a step has saved, by where the workflow stands.
Made == at = "made" \/ slot.result # None
Saving ==
    \A i \in Saves :
       /\ i > place => saved[i] = 0
       /\ i = place => saved[i] <= crashes + One(Made) /\ (Made => saved[i] >= 1)
       /\ i < place => saved[i] >= 1 /\ saved[i] <= 1 + crashes

\* The company's runs of a step: those that failed, those no step will take for
\* its own any more, and of the others the newest.
Asked(i) == {k \in DOMAIN asks : asks[k].step = i}
Failed(i) == {k \in Asked(i) : asks[k].state = "error"}
Lost == {k \in DOMAIN asks : asks[k].state # "error" /\ (asks[k].level = 2 \/ asks[k].state = "cancelled")}
Live(i) == {k \in Asked(i) : asks[k].state \notin {"error", "cancelled"} /\ asks[k].level <= 1}

Asking ==
    /\ \A j, k \in DOMAIN asks : asks[j].state = "running" /\ asks[k].state = "running" => j = k
    /\ \A i \in Places : \A j, k \in Mine(i) : k < j => asks[k].state = "error"
    /\ \A i \in Places : Cardinality(Failed(i)) <= failed[i]
    /\ Cardinality(Lost) <= crashes

CoreInv == TypeOK /\ Taken /\ InputFirst /\ StepsOpen /\ Decided

WorkInv == CoreInv /\ Spending /\ Saving /\ Asking

-----------------------------------------------------------------------------
(***************************************************************************)
(* Sequences, rows and writes.                                             *)
(***************************************************************************)

LEMMA Items ==
    ASSUME NEW S, NEW seq \in Seq(S)
    PROVE  Len(seq) \in Nat /\ DOMAIN seq = 1 .. Len(seq) /\ \A i \in DOMAIN seq : seq[i] \in S
BY LenProperties, ElementOfSeq

LEMMA Longer ==
    ASSUME NEW S, NEW seq \in Seq(S), NEW x \in S, NEW longer, longer = Append(seq, x)
    PROVE  /\ longer \in Seq(S) /\ Len(longer) = Len(seq) + 1
           /\ DOMAIN longer = DOMAIN seq \cup {Len(seq) + 1} /\ Len(seq) + 1 \notin DOMAIN seq
           /\ \A i \in DOMAIN seq : longer[i] = seq[i]
           /\ longer[Len(seq) + 1] = x
<1>1. PICK n \in Nat : n = Len(seq) /\ DOMAIN seq = 1 .. n
  BY Items
<1>2. longer \in Seq(S) /\ Len(longer) = n + 1 /\ longer[n + 1] = x
  BY <1>1, AppendProperties
<1>3. \A i \in 1 .. n : longer[i] = seq[i]
  BY <1>1, AppendProperties
<1>4. DOMAIN longer = 1 .. n + 1
  BY <1>2, Items
<1>5. 1 .. n + 1 = (1 .. n) \cup {n + 1} /\ n + 1 \notin 1 .. n
  OBVIOUS
<1> QED
  BY <1>1, <1>2, <1>3, <1>4, <1>5

LEMMA Shorter ==
    ASSUME NEW S, NEW seq \in Seq(S), seq # <<>>, NEW rest, rest = Tail(seq)
    PROVE  /\ 1 \in DOMAIN seq /\ Head(seq) = seq[1] /\ seq[1] \in S
           /\ rest \in Seq(S) /\ Len(seq) = Len(rest) + 1
           /\ \A i \in DOMAIN rest : i \in Nat \ {0} /\ i + 1 \in DOMAIN seq /\ rest[i] = seq[i + 1]
<1>1. PICK n \in Nat \ {0} : n = Len(seq) /\ DOMAIN seq = 1 .. n
  BY Items, EmptySeq
<1>2. rest \in Seq(S) /\ Len(rest) = n - 1
  BY <1>1, HeadTailProperties
<1>3. \A i \in 1 .. n - 1 : rest[i] = seq[i + 1]
  BY <1>1, <1>2, HeadTailProperties
<1>4. DOMAIN rest = 1 .. n - 1
  BY <1>2, Items
<1>5. 1 \in 1 .. n /\ \A i \in 1 .. n - 1 : i \in Nat \ {0} /\ i + 1 \in 1 .. n
  OBVIOUS
<1>6. Head(seq) = seq[1] /\ seq[1] \in S
  BY <1>1, <1>5, Items
<1>7. Len(seq) = Len(rest) + 1
  BY <1>1, <1>2
<1> QED
  BY <1>1, <1>2, <1>3, <1>4, <1>5, <1>6, <1>7

\* A run put before the others.
LEMMA First1 ==
    ASSUME NEW S, NEW seq \in Seq(S), NEW x \in S, NEW all, all = <<x>> \o seq
    PROVE  /\ all \in Seq(S) /\ all # <<>> /\ all[1] = x
           /\ \A i \in DOMAIN all : i # 1 => i - 1 \in DOMAIN seq /\ all[i] = seq[i - 1]
           /\ Tail(all) = seq
<1>1. PICK n \in Nat : n = Len(seq) /\ DOMAIN seq = 1 .. n
  BY Items
<1>2. <<x>> \in Seq(S) /\ Len(<<x>>) = 1 /\ <<x>>[1] = x
  OBVIOUS
<1>3. /\ all \in Seq(S) /\ Len(all) = 1 + n
      /\ \A i \in 1 .. 1 + n : all[i] = IF i <= 1 THEN <<x>>[i] ELSE seq[i - 1]
  <2>1. PICK one \in Seq(S) : one = <<x>> /\ Len(one) = 1
    BY <1>2
  <2>2. /\ one \o seq \in Seq(S) /\ Len(one \o seq) = 1 + n
        /\ \A i \in 1 .. 1 + n : (one \o seq)[i] = IF i <= 1 THEN one[i] ELSE seq[i - 1]
    <3>1. /\ one \o seq \in Seq(S) /\ Len(one \o seq) = Len(one) + Len(seq)
          /\ \A i \in 1 .. Len(one) + Len(seq) :
                (one \o seq)[i] = IF i <= Len(one) THEN one[i] ELSE seq[i - Len(one)]
      BY ConcatProperties
    <3>2. Len(one) = 1 /\ Len(seq) = n
      BY <1>1, <2>1
    <3> QED
      BY <3>1, <3>2
  <2>3. all = one \o seq
    BY <2>1
  <2> QED
    BY <2>1, <2>2, <2>3
<1>4. DOMAIN all = 1 .. 1 + n
  BY <1>3, Items
<1>5. all # <<>> /\ all[1] = x
  BY <1>1, <1>2, <1>3, EmptySeq
<1>6. \A i \in DOMAIN all : i # 1 => i - 1 \in DOMAIN seq /\ all[i] = seq[i - 1]
  BY <1>1, <1>3, <1>4
<1>7. Tail(all) = seq
  <2>1. PICK rest : rest = Tail(all)
    OBVIOUS
  <2>a. /\ rest \in Seq(S) /\ Len(all) = Len(rest) + 1
        /\ \A i \in DOMAIN rest : i \in Nat \ {0} /\ i + 1 \in DOMAIN all /\ rest[i] = all[i + 1]
    BY <1>3, <1>5, <2>1, Shorter
  <2>2. Len(rest) = n /\ DOMAIN rest = 1 .. n
    <3>1. Len(rest) \in Nat /\ DOMAIN rest = 1 .. Len(rest)
      BY <2>a, Items
    <3>2. PICK m \in Nat : m = Len(rest) /\ DOMAIN rest = 1 .. m
      BY <3>1
    <3>3. m = n
      BY <1>1, <1>3, <2>a, <3>2
    <3> QED
      BY <3>2, <3>3
  <2>3. \A i \in 1 .. n : rest[i] = seq[i]
    <3> SUFFICES ASSUME NEW i \in 1 .. n PROVE rest[i] = seq[i]
      OBVIOUS
    <3>1. i \in DOMAIN rest /\ i + 1 # 1 /\ (i + 1) - 1 = i
      BY <2>2
    <3>2. i + 1 \in DOMAIN all /\ rest[i] = all[i + 1]
      BY <2>a, <3>1
    <3>3. all[i + 1] = seq[(i + 1) - 1]
      BY <1>6, <3>1, <3>2
    <3> QED
      BY <3>1, <3>2, <3>3
  <2> QED
    BY <1>1, <2>1, <2>a, <2>2, <2>3, SeqEqual
<1> QED
  BY <1>3, <1>5, <1>6, <1>7

LEMMA RunFields ==
    ASSUME NEW run \in Run
    PROVE  run.kind \in {"input", "resume", "continue"} /\ run.says \in Verdicts /\ run # None
BY WorkflowAssumption DEF Run

LEMMA NewRuns ==
    ASSUME NEW kind \in {"input", "resume", "continue"}, NEW says \in Verdicts, NEW card \in Places \cup {None}
    PROVE  NewRun(kind, says, card) \in Run /\ NewRun(kind, says, card).kind = kind /\ NewRun(kind, says, card).says = says
BY DEF NewRun, Run

LEMMA StepKinds ==
    ASSUME NEW i \in Places
    PROVE  Steps[i] \in {"tool", "approval", "agent"}
BY WorkflowAssumption, Items DEF Places

Writes == [asked: BOOLEAN, given: Run \cup {None}, result: Verdicts \cup {"done", None}]

LEMMA BlankFields ==
    Blank \in Writes /\ Blank.asked = FALSE /\ Blank.given = None /\ Blank.result = None
BY DEF Blank, Writes

LEMMA SlotFields ==
    ASSUME NEW w \in Writes
    PROVE  /\ w.asked \in BOOLEAN /\ w.given \in Run \cup {None} /\ w.result \in Verdicts \cup {"done", None}
           /\ \A b \in BOOLEAN : LET v == [w EXCEPT !.asked = b] IN
                 v \in Writes /\ v.asked = b /\ v.given = w.given /\ v.result = w.result
           /\ \A r \in Run \cup {None} : LET v == [w EXCEPT !.given = r] IN
                 v \in Writes /\ v.asked = w.asked /\ v.given = r /\ v.result = w.result
           /\ \A r \in Verdicts \cup {"done", None} : LET v == [w EXCEPT !.result = r] IN
                 v \in Writes /\ v.asked = w.asked /\ v.given = w.given /\ v.result = r
BY DEF Writes

LEMMA NoneApart == None \notin Verdicts \cup {"done", "success", "error", "interrupted"}
BY WorkflowAssumption DEF Ends

LEMMA Sizes == Len(Steps) \in Nat /\ Places = 1 .. Len(Steps) /\ Stages = 0 .. Len(Steps) + 1
BY WorkflowAssumption, Items DEF Places, Stages

-----------------------------------------------------------------------------
(***************************************************************************)
(* The run and its step.                                                   *)
(***************************************************************************)

LEMMA InitCore == Init => CoreInv
<1> SUFFICES ASSUME Init PROVE CoreInv
  OBVIOUS
<1>1. First \in Run /\ First.kind = "input"
  BY NewRuns DEF First, Verdicts
<1>2. queue = <<First>> /\ queue \in Seq(Run) /\ DOMAIN queue = {1} /\ queue[1] = First
  BY <1>1 DEF Init
<1>3. asks = <<>> /\ asks \in Seq(Ask) /\ target \in 0 .. Len(asks)
  BY DEF Init
<1>4. TypeOK
  BY <1>2, <1>3, Sizes, BlankFields DEF Init, TypeOK, Ends, Writes
<1>5. Taken /\ StepsOpen /\ Decided
  BY BlankFields, NoneApart DEF Init, Taken, StepsOpen, Decided
<1>6. InputFirst
  BY <1>2 DEF Init, InputFirst
<1> QED
  BY <1>4, <1>5, <1>6 DEF CoreInv

LEMMA AnswerCore == ASSUME CoreInv, Answer PROVE CoreInv'
<1>1. PICK says \in Verdicts, card \in shown \cup {None} :
         /\ queue' = Append(queue, NewRun("resume", says, card))
         /\ said' = IF says = "approved" THEN said + 1 ELSE said
  BY DEF Answer
<1>2. NewRun("resume", says, card) \in Run /\ NewRun("resume", says, card).kind = "resume"
  BY <1>1, NewRuns DEF CoreInv, TypeOK, Ends
<1>3. PICK run \in Run : run = NewRun("resume", says, card) /\ run.kind = "resume"
  BY <1>2
<1>4. /\ queue' \in Seq(Run) /\ DOMAIN queue' = DOMAIN queue \cup {Len(queue) + 1}
      /\ \A i \in DOMAIN queue : queue'[i] = queue[i]
      /\ queue'[Len(queue) + 1] = run
  BY <1>1, <1>3, Longer DEF CoreInv, TypeOK, Ends
<1>5. TypeOK'
  BY <1>1, <1>4 DEF Answer, CoreInv, TypeOK, Ends, checkpoint, memory
<1>6. InputFirst'
  BY <1>3, <1>4 DEF Answer, CoreInv, InputFirst, checkpoint, memory
<1>7. Taken' /\ StepsOpen' /\ Decided'
  BY NoneApart DEF Answer, CoreInv, Taken, StepsOpen, Decided, checkpoint, memory
<1> QED
  BY <1>5, <1>6, <1>7 DEF CoreInv

LEMMA TakeCore == ASSUME CoreInv, Take PROVE CoreInv'
<1>1. /\ now = None /\ queue # <<>> /\ now' = Head(queue) /\ queue' = Tail(queue) /\ at' = "taken"
      /\ UNCHANGED <<checkpoint, made, target, asks, saved, history, bounds>>
  BY DEF Take
<1>2. /\ 1 \in DOMAIN queue /\ now' = queue[1] /\ now' \in Run /\ queue' \in Seq(Run)
      /\ \A i \in DOMAIN queue' : i \in Nat \ {0} /\ i + 1 \in DOMAIN queue /\ queue'[i] = queue[i + 1]
  BY <1>1, Shorter DEF CoreInv, TypeOK, Ends
<1>3. TypeOK'
  BY <1>1, <1>2 DEF CoreInv, TypeOK, Ends, checkpoint, history, bounds
<1>4. Taken'
  BY <1>1, <1>2, RunFields DEF Taken
<1>5. InputFirst'
  <2>1. \A i \in DOMAIN queue' : queue'[i].kind # "input"
    <3>1. \A i \in DOMAIN queue' : i + 1 # 1
      BY <1>2
    <3> QED
      BY <1>2, <3>1 DEF CoreInv, InputFirst
  <2>2. now'.kind = "input" => status = "none"
    BY <1>2 DEF CoreInv, InputFirst
  <2> QED
    BY <1>1, <2>1, <2>2 DEF CoreInv, InputFirst, checkpoint
<1>6. StepsOpen' /\ Decided'
  BY <1>1, NoneApart DEF CoreInv, Taken, StepsOpen, Decided, checkpoint
<1> QED
  BY <1>3, <1>4, <1>5, <1>6 DEF CoreInv

LEMMA EnterCore == ASSUME CoreInv, Enter PROVE CoreInv'
<1>1. /\ at = "taken" /\ at' = "head" /\ UNCHANGED <<queue, now, made, target, asks, saved, history, bounds>>
  BY DEF Enter
<1>2. now \in Run /\ now # None
  BY <1>1 DEF CoreInv, TypeOK, Ends, Taken
<1>3. CASE now.kind = "input"
  <2>1. place' = 1 /\ status' = "running" /\ slot' = Blank
    BY <1>3 DEF Enter
  <2>2. TypeOK'
    BY <1>1, <2>1, Sizes, BlankFields DEF CoreInv, TypeOK, Ends, Writes, history, bounds
  <2>3. Taken' /\ StepsOpen' /\ Decided'
    BY <1>1, <2>1, BlankFields, NoneApart DEF CoreInv, Taken, StepsOpen, Decided
  <2>4. InputFirst'
    BY <1>1, <1>2, <2>1 DEF CoreInv, InputFirst
  <2> QED
    BY <2>2, <2>3, <2>4 DEF CoreInv
<1>4. CASE now.kind # "input"
  <2>1. UNCHANGED <<place, status>>
    BY <1>4 DEF Enter
  <2>2. PICK given \in Run \cup {None} :
           /\ slot' = [slot EXCEPT !.given = given]
           /\ given = slot.given \/ (given = now /\ now.kind = "resume" /\ slot.asked /\ slot.given = None)
    <3>1. slot' = [slot EXCEPT !.given = IF now.kind = "resume" /\ slot.asked /\ @ = None THEN now ELSE @]
      BY <1>4 DEF Enter
    <3>2. slot.given \in Run \cup {None}
      BY SlotFields DEF CoreInv, TypeOK, Ends, Writes
    <3> QED
      BY <1>2, <3>1, <3>2
  <2>3. slot' \in Writes /\ slot'.asked = slot.asked /\ slot'.given = given /\ slot'.result = slot.result
    BY <2>2, SlotFields DEF CoreInv, TypeOK, Ends, Writes
  <2>4. TypeOK'
    BY <1>1, <2>1, <2>3 DEF CoreInv, TypeOK, Ends, Writes, history, bounds
  <2>5. status # "running" => slot' = Blank
    <3>1. status # "running" => slot = Blank /\ ~slot.asked
      BY BlankFields, NoneApart DEF CoreInv, StepsOpen
    <3>2. slot \in Writes
      BY DEF CoreInv, TypeOK, Ends, Writes
    <3>3. status # "running" => given = slot.given
      BY <2>2, <3>1
    <3> QED
      BY <2>2, <3>1, <3>2, <3>3 DEF Writes
  <2>6. Taken' /\ StepsOpen'
    BY <1>1, <2>1, <2>3, <2>5, NoneApart DEF CoreInv, Taken, StepsOpen
  <2>7. Decided'
    BY <1>1, <2>1, <2>2, <2>3 DEF CoreInv, Decided
  <2>8. InputFirst'
    BY <1>1, <2>1 DEF CoreInv, InputFirst
  <2> QED
    BY <2>4, <2>6, <2>7, <2>8 DEF CoreInv
<1> QED
  BY <1>3, <1>4

\* Counters, histories and the company's rows: their types alone matter here.
RestTyped ==
    /\ target \in 0 .. Len(asks) /\ asks \in Seq(Ask)
    /\ saved \in [Places -> Nat]
    /\ shown \in SUBSET Places /\ said \in Nat /\ failed \in [Places -> Nat]
    /\ answers \in Nat /\ errors \in Nat /\ crashes \in Nat

LEMMA CoreRest == ASSUME CoreInv PROVE RestTyped
BY DEF CoreInv, TypeOK, Ends, RestTyped

\* A run goes on, or ends, without a write.
LEMMA MoveCore ==
    ASSUME CoreInv, at \notin {"off", "taken"}, at' \in {"head", "ended"},
           made' \in {"success", "error", None}, UNCHANGED <<checkpoint, queue, now>>, RestTyped'
    PROVE  CoreInv'
<1>1. TypeOK'
  BY DEF CoreInv, TypeOK, Ends, RestTyped, checkpoint
<1>2. Taken' /\ StepsOpen' /\ Decided'
  BY NoneApart DEF CoreInv, Taken, StepsOpen, Decided, checkpoint
<1>3. InputFirst'
  BY DEF CoreInv, InputFirst, checkpoint
<1> QED
  BY <1>1, <1>2, <1>3 DEF CoreInv

LEMMA EndsCore == ASSUME CoreInv, Over \/ StepFails \/ HearsNo PROVE CoreInv'
<1>1. at \in {"head", "waiting"} /\ at' = "ended" /\ made' \in {"success", "error"}
      /\ UNCHANGED <<checkpoint, queue, now, target, asks, saved, history, answers, crashes>>
  BY DEF Over, StepFails, HearsNo, Called, Raises, bounds
<1>2. errors' \in Nat
  BY DEF Over, StepFails, HearsNo, bounds, CoreInv, TypeOK, Ends
<1>3. RestTyped'
  BY <1>1, <1>2, CoreRest DEF RestTyped, history
<1> QED
  BY <1>1, <1>3, MoveCore

\* A step has come to a result.
LEMMA ComesCore ==
    ASSUME CoreInv, NEW result \in Verdicts \cup {"done"}, Comes(result),
           at \in {"head", "waiting"}, status = "running", place \in Places, slot.result = None,
           IF Steps[place] = "approval" THEN slot.given # None /\ result = slot.given.says ELSE result = "done"
    PROVE  CoreInv'
<1>1. /\ at' = "made" /\ made' = result /\ UNCHANGED <<checkpoint, queue, now, target, asks, history, bounds>>
      /\ saved' \in [Places -> Nat]
  BY DEF Comes, CoreInv, TypeOK, Ends
<1>2. TypeOK'
  BY <1>1 DEF CoreInv, TypeOK, Ends, checkpoint, history, bounds
<1>3. Taken' /\ StepsOpen' /\ Decided'
  BY <1>1, NoneApart DEF CoreInv, Taken, StepsOpen, Decided, Verdicts, checkpoint
<1>4. InputFirst'
  BY <1>1 DEF CoreInv, InputFirst, checkpoint
<1> QED
  BY <1>2, <1>3, <1>4 DEF CoreInv

LEMMA StepsCore == ASSUME CoreInv, ToolStep \/ Decides \/ Hears PROVE CoreInv'
<1>1. CASE ToolStep
  <2>1. Comes("done") /\ at = "head" /\ status = "running" /\ place \in Places /\ slot.result = None
        /\ Steps[place] # "approval"
    BY <1>1 DEF ToolStep, Called
  <2> QED
    BY <2>1, ComesCore
<1>2. CASE Decides
  <2>1. Comes(slot.given.says) /\ at = "head" /\ status = "running" /\ place \in Places /\ slot.result = None
        /\ Steps[place] = "approval" /\ slot.given # None
    BY <1>2 DEF Decides, Called
  <2>2. slot.given \in Run
    BY <2>1, SlotFields DEF CoreInv, TypeOK, Ends, Writes
  <2>3. slot.given.says \in Verdicts
    BY <2>2, RunFields
  <2> QED
    BY <2>1, <2>3, ComesCore
<1>3. CASE Hears
  <2>1. Comes("done") /\ at = "waiting"
    BY <1>3 DEF Hears
  <2>2. status = "running" /\ place \in Places /\ slot.result = None /\ Steps[place] # "approval"
    BY <2>1, NoneApart DEF CoreInv, StepsOpen
  <2> QED
    BY <2>1, <2>2, ComesCore
<1> QED
  BY <1>1, <1>2, <1>3

LEMMA ShowsCore == ASSUME CoreInv, ShowsCard PROVE CoreInv'
<1>1. /\ at = "head" /\ status = "running" /\ slot.result = None /\ slot.given = None
      /\ place \in Places /\ Steps[place] = "approval"
      /\ slot' = [slot EXCEPT !.asked = TRUE] /\ at' = "ended" /\ made' = "interrupted"
      /\ UNCHANGED <<place, status, queue, now, target, asks, saved, history, bounds>>
  BY DEF ShowsCard, Called
<1>2. slot' \in Writes /\ slot'.asked = TRUE /\ slot'.given = None /\ slot'.result = None
  BY <1>1, SlotFields DEF CoreInv, TypeOK, Ends, Writes
<1>3. TypeOK'
  BY <1>1, <1>2 DEF CoreInv, TypeOK, Ends, Writes, history, bounds
<1>4. Taken' /\ StepsOpen' /\ Decided'
  BY <1>1, <1>2, NoneApart DEF CoreInv, Taken, StepsOpen, Decided
<1>5. InputFirst'
  BY <1>1 DEF CoreInv, InputFirst
<1> QED
  BY <1>3, <1>4, <1>5 DEF CoreInv

LEMMA RecordCore == ASSUME CoreInv, Record PROVE CoreInv'
<1>1. /\ at = "made" /\ at' = "head" /\ made' = None /\ slot' = [slot EXCEPT !.result = made]
      /\ UNCHANGED <<place, status, queue, now, target, asks, saved, history, bounds>>
  BY DEF Record
<1>2. status = "running" /\ place \in Places
  BY <1>1, NoneApart DEF CoreInv, StepsOpen
<1>3. IF Steps[place] = "approval" THEN slot.given # None /\ made = slot.given.says ELSE made = "done"
  BY <1>1 DEF CoreInv, Decided
<1>4. made \in Verdicts \cup {"done"}
  <2>1. slot.given \in Run \cup {None}
    BY SlotFields DEF CoreInv, TypeOK, Ends, Writes
  <2> QED
    BY <1>3, <2>1, RunFields
<1>5. slot' \in Writes /\ slot'.asked = slot.asked /\ slot'.given = slot.given /\ slot'.result = made
  BY <1>1, <1>4, SlotFields DEF CoreInv, TypeOK, Ends, Writes
<1>6. TypeOK'
  BY <1>1, <1>5 DEF CoreInv, TypeOK, Ends, Writes, history, bounds
<1>7. Taken' /\ StepsOpen' /\ Decided'
  BY <1>1, <1>2, <1>3, <1>5, NoneApart DEF CoreInv, Taken, StepsOpen, Decided
<1>8. InputFirst'
  BY <1>1 DEF CoreInv, InputFirst
<1> QED
  BY <1>6, <1>7, <1>8 DEF CoreInv

LEMMA AdvanceCore == ASSUME CoreInv, Advance PROVE CoreInv'
<1>1. /\ at = "head" /\ status = "running" /\ slot.result # None /\ place' = place + 1
      /\ status' = NextStatus /\ slot' = Blank /\ UNCHANGED <<queue, memory, asks, saved, history, bounds>>
  BY DEF Advance
<1>2. place \in Places /\ status' \in {"running", "done", "declined"}
  BY <1>1, NoneApart DEF CoreInv, StepsOpen, NextStatus
<1>3. place' \in Stages /\ place' # 0
  BY <1>1, <1>2, Sizes
<1>4. TypeOK'
  BY <1>1, <1>2, <1>3, BlankFields DEF CoreInv, TypeOK, Ends, Writes, memory, history, bounds
<1>5. Taken' /\ StepsOpen' /\ Decided'
  BY <1>1, <1>2, BlankFields, NoneApart DEF CoreInv, Taken, StepsOpen, Decided, memory
<1>6. InputFirst'
  BY <1>1, <1>2, <1>3 DEF CoreInv, InputFirst, memory
<1> QED
  BY <1>4, <1>5, <1>6 DEF CoreInv

LEMMA SettleCore == ASSUME CoreInv, Settle PROVE CoreInv'
<1>1. /\ at' = "off" /\ now' = None /\ made' = None /\ shown' \in SUBSET Places
      /\ UNCHANGED <<checkpoint, queue, target, asks, saved, said, failed, bounds>>
  BY NoneApart DEF Settle, CoreInv, TypeOK, Ends, StepsOpen
<1>2. TypeOK'
  BY <1>1 DEF CoreInv, TypeOK, Ends, checkpoint, bounds
<1>3. Taken' /\ StepsOpen' /\ Decided'
  BY <1>1, NoneApart DEF CoreInv, Taken, StepsOpen, Decided, checkpoint
<1>4. InputFirst'
  <2>1. now # None
    BY DEF Settle, CoreInv, Taken
  <2> QED
    BY <1>1, <2>1 DEF CoreInv, InputFirst, checkpoint
<1> QED
  BY <1>2, <1>3, <1>4 DEF CoreInv

-----------------------------------------------------------------------------
(***************************************************************************)
(* The company's rows.                                                     *)
(***************************************************************************)

LEMMA AskFields ==
    ASSUME NEW ask \in Ask
    PROVE  /\ ask.step \in Places /\ ask.level \in 0 .. 2 /\ ask.landed \in BOOLEAN /\ ask.over \in BOOLEAN
           /\ ask.state \in {"pending", "running", "success", "error", "interrupted", "cancelled"}
BY DEF Ask

\* A row of the company goes on: what it becomes, and what is counted of it.
Becomes(k, ask) ==
    /\ asks' = [asks EXCEPT ![k] = ask]
    /\ ask.step = asks[k].step /\ ask.level = asks[k].level
    /\ asks[k].state \in {"pending", "running"}
    /\ ask.state \in {"running", "success", "error", "interrupted"}
    /\ ask.state = "running" => asks[k].state = "running" \/ \A j \in DOMAIN asks : asks[j].state # "running"
    /\ failed' = IF ask.state = "error" THEN [failed EXCEPT ![ask.step] = @ + 1] ELSE failed

LEMMA CompanyBecomes ==
    ASSUME asks \in Seq(Ask), NEW k \in DOMAIN asks,
           CompanyTakes(k) \/ CompanyWorks(k) \/ CompanySettles(k) \/ CompanyFails(k)
    PROVE  \E ask \in Ask : Becomes(k, ask)
<1>1. asks[k] \in Ask
  BY Items
<1>2. CASE CompanyTakes(k)
  <2> DEFINE ask == [asks[k] EXCEPT !.state = "running"]
  <2>1. ask \in Ask /\ ask.step = asks[k].step /\ ask.level = asks[k].level /\ ask.state = "running"
    BY <1>1 DEF Ask
  <2>2. asks' = [asks EXCEPT ![k] = ask] /\ failed' = failed
    BY <1>2 DEF CompanyTakes, history
  <2> HIDE DEF ask
  <2> QED
    BY <1>2, <2>1, <2>2 DEF CompanyTakes, Becomes
<1>3. CASE CompanyWorks(k)
  <2> DEFINE ask == [asks[k] EXCEPT !.landed = TRUE, !.over = asks[k].landed]
  <2>1. ask \in Ask /\ ask.step = asks[k].step /\ ask.level = asks[k].level /\ ask.state = "running"
    BY <1>1, <1>3 DEF Ask, CompanyWorks
  <2>2. asks' = [asks EXCEPT ![k] = ask] /\ failed' = failed
    BY <1>1, <1>3 DEF CompanyWorks, history
  <2> HIDE DEF ask
  <2> QED
    BY <1>3, <2>1, <2>2 DEF CompanyWorks, Becomes
<1>4. CASE CompanySettles(k)
  <2> DEFINE ask == [asks[k] EXCEPT !.state = "success"]
  <2>1. ask \in Ask /\ ask.step = asks[k].step /\ ask.level = asks[k].level /\ ask.state = "success"
    BY <1>1 DEF Ask
  <2>2. asks' = [asks EXCEPT ![k] = ask] /\ failed' = failed
    BY <1>4 DEF CompanySettles, history
  <2> HIDE DEF ask
  <2> QED
    BY <1>4, <2>1, <2>2 DEF CompanySettles, Becomes
<1>5. CASE CompanyFails(k)
  <2>1. PICK state \in {"error", "interrupted"} :
           /\ asks' = [asks EXCEPT ![k].state = state]
           /\ failed' = IF state = "error" THEN [failed EXCEPT ![asks[k].step] = @ + 1] ELSE failed
    BY <1>5 DEF CompanyFails
  <2> DEFINE ask == [asks[k] EXCEPT !.state = state]
  <2>2. ask \in Ask /\ ask.step = asks[k].step /\ ask.level = asks[k].level /\ ask.state = state
    BY <1>1 DEF Ask
  <2>3. asks' = [asks EXCEPT ![k] = ask]
    BY <2>1
  <2> HIDE DEF ask
  <2> QED
    BY <1>5, <2>1, <2>2, <2>3 DEF CompanyFails, Becomes
<1> QED
  BY <1>2, <1>3, <1>4, <1>5

LEMMA RowChanged ==
    ASSUME asks \in Seq(Ask), NEW k \in DOMAIN asks, NEW ask \in Ask, asks' = [asks EXCEPT ![k] = ask]
    PROVE  /\ asks' \in Seq(Ask) /\ Len(asks') = Len(asks) /\ DOMAIN asks' = DOMAIN asks
           /\ asks'[k] = ask /\ \A j \in DOMAIN asks : j # k => asks'[j] = asks[j]
<1>1. DOMAIN asks = 1 .. Len(asks)
  BY Items
<1>2. [asks EXCEPT ![k] = ask] \in Seq(Ask) /\ Len([asks EXCEPT ![k] = ask]) = Len(asks)
  BY <1>1, ExceptSeq
<1> QED
  BY <1>1, <1>2, Items

LEMMA CompanyCore ==
    ASSUME CoreInv, NEW k \in DOMAIN asks,
           CompanyTakes(k) \/ CompanyWorks(k) \/ CompanySettles(k) \/ CompanyFails(k)
    PROVE  CoreInv'
<1>1. /\ UNCHANGED <<checkpoint, queue, memory, saved, shown, said, answers, crashes>>
      /\ errors' \in Nat
  BY DEF CompanyTakes, CompanyWorks, CompanySettles, CompanyFails, history, bounds, CoreInv, TypeOK
<1>2. PICK ask \in Ask : Becomes(k, ask)
  BY CompanyBecomes DEF CoreInv, TypeOK
<1>3. asks' \in Seq(Ask) /\ Len(asks') = Len(asks)
  BY <1>2, RowChanged DEF Becomes, CoreInv, TypeOK
<1>4. failed' \in [Places -> Nat]
  BY <1>2, AskFields DEF Becomes, CoreInv, TypeOK
<1>5. TypeOK'
  BY <1>1, <1>3, <1>4 DEF CoreInv, TypeOK, checkpoint, memory
<1>6. Taken' /\ StepsOpen' /\ Decided'
  BY <1>1 DEF CoreInv, Taken, StepsOpen, Decided, checkpoint, memory
<1>7. InputFirst'
  BY <1>1 DEF CoreInv, InputFirst, checkpoint, memory
<1> QED
  BY <1>5, <1>6, <1>7 DEF CoreInv

\* The step's newest run is reused, or a new one follows those that failed.
LEMMA AskedAgain ==
    ASSUME CoreInv, AsksCompany
    PROVE  \/ \E k \in Mine(place) : target' = k /\ asks' = asks
           \/ \E ask \in Ask :
                 /\ asks' = Append(asks, ask) /\ target' = Len(asks')
                 /\ ask.step = place /\ ask.level = 0 /\ ask.state = "pending"
                 /\ \A k \in Mine(place) : asks[k].state # "error" => \E j \in Mine(place) : j > k
<1>1. CASE \E k \in Mine(place) : target' = k /\ asks' = asks
  BY <1>1
<1>2. CASE ~ \E k \in Mine(place) : target' = k /\ asks' = asks
  <2> DEFINE ask == [step |-> place, level |-> 0, state |-> "pending", landed |-> FALSE, over |-> FALSE]
  <2>1. ask \in Ask /\ ask.step = place /\ ask.level = 0 /\ ask.state = "pending"
    BY DEF AsksCompany, Called, Ask
  <2>2. /\ asks' = Append(asks, ask) /\ target' = Len(asks')
        /\ \A k \in Mine(place) : asks[k].state # "error" => \E j \in Mine(place) : j > k
    BY <1>2 DEF AsksCompany
  <2> HIDE DEF ask
  <2> QED
    BY <2>1, <2>2
<1> QED
  BY <1>1, <1>2

LEMMA AsksCore == ASSUME CoreInv, AsksCompany PROVE CoreInv'
<1>1. /\ at = "head" /\ at' = "waiting" /\ status = "running" /\ slot.result = None
      /\ place \in Places /\ Steps[place] = "agent"
      /\ UNCHANGED <<checkpoint, queue, now, made, saved, history, bounds>>
  BY DEF AsksCompany, Called
<1>2. asks' \in Seq(Ask) /\ target' \in 1 .. Len(asks')
  <2>1. asks \in Seq(Ask)
    BY DEF CoreInv, TypeOK
  <2>2. CASE \E k \in Mine(place) : target' = k /\ asks' = asks
    BY <2>1, <2>2, Items DEF Mine
  <2>3. CASE \E ask \in Ask : asks' = Append(asks, ask) /\ target' = Len(asks')
    <3>1. PICK n \in Nat : n = Len(asks)
      BY <2>1, Items
    <3>2. asks' \in Seq(Ask) /\ Len(asks') = n + 1
      BY <2>1, <2>3, <3>1, Longer
    <3> QED
      BY <2>3, <3>2
  <2> QED
    BY <2>2, <2>3, AskedAgain
<1>3. target' \in 0 .. Len(asks') /\ target' # 0
  BY <1>2, Items
<1>4. TypeOK'
  BY <1>1, <1>2, <1>3 DEF CoreInv, TypeOK, checkpoint, history, bounds
<1>5. Taken' /\ StepsOpen' /\ Decided'
  BY <1>1, <1>3 DEF CoreInv, Taken, StepsOpen, Decided, checkpoint
<1>6. InputFirst'
  BY <1>1 DEF CoreInv, InputFirst, checkpoint
<1> QED
  BY <1>4, <1>5, <1>6 DEF CoreInv

LEMMA RecoveredRow ==
    ASSUME NEW ask \in Ask
    PROVE  /\ Recovered(ask) \in Ask /\ Recovered(ask).step = ask.step
           /\ Recovered(ask).state # "running"
           /\ ask.state # "running" => Recovered(ask) = ask
           /\ ask.state = "running" => /\ Recovered(ask).state \in {"cancelled", "pending"}
                                       /\ Recovered(ask).level >= ask.level
<1>1. CASE ask.state # "running"
  BY <1>1, AskFields DEF Recovered
<1>2. CASE ask.state = "running" /\ ask.over
  <2>1. Recovered(ask) = [ask EXCEPT !.state = "cancelled"]
    BY <1>2 DEF Recovered
  <2>2. /\ Recovered(ask) \in Ask /\ Recovered(ask).step = ask.step
        /\ Recovered(ask).state = "cancelled" /\ Recovered(ask).level = ask.level
    BY <2>1 DEF Ask
  <2>3. ask.level >= ask.level
    BY AskFields
  <2> QED
    BY <1>2, <2>2, <2>3
<1>3. CASE ask.state = "running" /\ ~ask.over
  <2>1. PICK l : l = IF ask.level < 2 THEN ask.level + 1 ELSE 2
    OBVIOUS
  <2>2. Recovered(ask) = [ask EXCEPT !.state = "pending", !.level = l]
    BY <1>3, <2>1 DEF Recovered
  <2>3. l \in 0 .. 2 /\ l >= ask.level
    BY <2>1, AskFields
  <2>4. /\ Recovered(ask) \in Ask /\ Recovered(ask).step = ask.step
        /\ Recovered(ask).state = "pending" /\ Recovered(ask).level = l
    BY <2>2, <2>3 DEF Ask
  <2> QED
    BY <1>3, <2>3, <2>4
<1> QED
  BY <1>1, <1>2, <1>3

LEMMA OwedRuns ==
    ASSUME CoreInv, now # None
    PROVE  \/ Owed = <<>>
           \/ \E run \in Run : /\ Owed = <<run>>
                               /\ run = now \/ run.kind = "continue"
                               /\ run.kind = "input" => status = "none"
<1>1. now \in Run
  BY DEF CoreInv, TypeOK
<1>2. CASE (now.kind = "input" /\ status = "none") \/ (now.kind = "resume" /\ slot.asked)
  BY <1>1, <1>2 DEF Owed
<1>3. CASE ~((now.kind = "input" /\ status = "none") \/ (now.kind = "resume" /\ slot.asked))
  <2>1. now.says \in Verdicts /\ now.card \in Places \cup {None}
    BY <1>1 DEF Run
  <2>2. NewRun("continue", now.says, now.card) \in Run /\ NewRun("continue", now.says, now.card).kind = "continue"
    BY <2>1, NewRuns
  <2>3. PICK run \in Run : run = NewRun("continue", now.says, now.card) /\ run.kind = "continue"
    BY <2>2
  <2>4. Owed = IF status = "running" /\ slot.result = None THEN <<NewRun("continue", now.says, now.card)>> ELSE <<>>
    BY <1>3 DEF Owed
  <2>5. Owed = <<run>> \/ Owed = <<>>
    BY <2>3, <2>4
  <2> QED
    BY <2>3, <2>5
<1> QED
  BY <1>2, <1>3

LEMMA CrashCore == ASSUME CoreInv, Crash PROVE CoreInv'
<1>1. /\ now' = None /\ at' = "off" /\ made' = None /\ crashes' = crashes + 1
      /\ asks' = [k \in DOMAIN asks |-> Recovered(asks[k])]
      /\ UNCHANGED <<checkpoint, target, saved, history, answers, errors>>
  BY DEF Crash
<1>2. asks' \in Seq(Ask) /\ Len(asks') = Len(asks)
  <2>1. PICK n \in Nat : n = Len(asks) /\ DOMAIN asks = 1 .. n /\ \A k \in 1 .. n : asks[k] \in Ask
    BY Items DEF CoreInv, TypeOK
  <2>2. asks' \in [1 .. n -> Ask]
    BY <1>1, <2>1, RecoveredRow
  <2>3. asks' \in Seq(Ask)
    BY <2>2, SeqDef
  <2>4. DOMAIN asks' = 1 .. n /\ DOMAIN asks' = 1 .. Len(asks') /\ Len(asks') \in Nat
    BY <2>2, <2>3, Items
  <2> QED
    BY <2>1, <2>3, <2>4, LenProperties
<1>3. /\ queue' \in Seq(Run)
      /\ \A i \in DOMAIN queue' : queue'[i].kind = "input" => i = 1 /\ status = "none"
  <2>1. CASE now = None
    BY <2>1 DEF Crash, CoreInv, TypeOK, InputFirst
  <2>2. CASE now # None /\ Owed = <<>>
    <3>1. queue' = queue
      BY <2>2, ConcatEmptySeq DEF Crash, CoreInv, TypeOK
    <3> QED
      BY <2>2, <3>1 DEF CoreInv, TypeOK, InputFirst
  <2>3. ASSUME now # None, NEW run \in Run, Owed = <<run>>, run.kind = "input" => status = "none"
        PROVE  /\ queue' \in Seq(Run)
               /\ \A i \in DOMAIN queue' : queue'[i].kind = "input" => i = 1 /\ status = "none"
    <3>1. queue' = <<run>> \o queue /\ queue \in Seq(Run)
      BY <2>3 DEF Crash, CoreInv, TypeOK
    <3>2. /\ queue' \in Seq(Run) /\ queue'[1] = run
          /\ \A i \in DOMAIN queue' : i # 1 => i - 1 \in DOMAIN queue /\ queue'[i] = queue[i - 1]
      BY <3>1, First1
    <3>3. \A i \in DOMAIN queue : queue[i].kind # "input"
      BY <2>3 DEF CoreInv, InputFirst
    <3> QED
      BY <2>3, <3>2, <3>3
  <2> QED
    BY <2>1, <2>2, <2>3, OwedRuns
<1>4. TypeOK'
  BY <1>1, <1>2, <1>3 DEF CoreInv, TypeOK, checkpoint, history
<1>5. Taken' /\ StepsOpen' /\ Decided'
  BY <1>1, NoneApart DEF CoreInv, Taken, StepsOpen, Decided, checkpoint
<1>6. InputFirst'
  BY <1>1, <1>3 DEF CoreInv, InputFirst, checkpoint
<1> QED
  BY <1>4, <1>5, <1>6 DEF CoreInv

LEMMA StepCore == ASSUME CoreInv, [Next]_vars PROVE CoreInv'
<1>1. CASE UNCHANGED vars
  <2>1. UNCHANGED <<place, status, slot, queue, now, at, made, target, asks, saved, shown, said, failed,
                    answers, errors, crashes>>
    BY <1>1 DEF vars, checkpoint, memory, history, bounds
  <2>2. TypeOK' /\ InputFirst'
    BY <2>1 DEF CoreInv, TypeOK, InputFirst
  <2>3. Taken' /\ StepsOpen' /\ Decided'
    BY <2>1 DEF CoreInv, Taken, StepsOpen, Decided
  <2> QED
    BY <2>2, <2>3 DEF CoreInv
<1> QED
  BY <1>1, AnswerCore, TakeCore, EnterCore, EndsCore, StepsCore, ShowsCore, AsksCore, RecordCore, AdvanceCore,
     SettleCore, CompanyCore, CrashCore DEF Next, Loop, Step, CompanyLoop

-----------------------------------------------------------------------------
(***************************************************************************)
(* Counting.                                                               *)
(***************************************************************************)

LEMMA OneIs == ASSUME NEW p PROVE One(p) \in 0 .. 1
BY DEF One

LEMMA Fewer ==
    ASSUME NEW S, NEW T, IsFiniteSet(T), S \subseteq T
    PROVE  IsFiniteSet(S) /\ Cardinality(S) \in Nat /\ Cardinality(T) \in Nat /\ Cardinality(S) <= Cardinality(T)
BY FS_Subset, FS_CardinalityType

LEMMA OneMore ==
    ASSUME NEW S, NEW T, IsFiniteSet(T), NEW x, S \subseteq T \cup {x}
    PROVE  IsFiniteSet(S) /\ Cardinality(S) \in Nat /\ Cardinality(T) \in Nat /\ Cardinality(S) <= Cardinality(T) + 1
<1>1. IsFiniteSet(T \cup {x}) /\ Cardinality(T \cup {x}) <= Cardinality(T) + 1
  <2>1. /\ IsFiniteSet(T \cup {x})
        /\ Cardinality(T \cup {x}) = IF x \in T THEN Cardinality(T) ELSE Cardinality(T) + 1
    BY FS_AddElement
  <2>2. PICK n \in Nat : n = Cardinality(T)
    BY FS_CardinalityType
  <2> QED
    BY <2>1, <2>2
<1>2. IsFiniteSet(S) /\ Cardinality(S) <= Cardinality(T \cup {x})
  BY <1>1, FS_Subset
<1>3. Cardinality(S) \in Nat /\ Cardinality(T) \in Nat /\ Cardinality(T \cup {x}) \in Nat
  BY <1>1, <1>2, FS_CardinalityType
<1> QED
  BY <1>1, <1>2, <1>3

LEMMA AtMostOne ==
    ASSUME NEW S, \A x, y \in S : x = y
    PROVE  IsFiniteSet(S) /\ Cardinality(S) \in Nat /\ Cardinality(S) <= 1
<1>1. CASE S = {}
  BY <1>1, FS_EmptySet
<1>2. CASE S # {}
  <2>1. PICK x : S = {x}
    BY <1>2
  <2> QED
    BY <2>1, FS_Singleton
<1> QED
  BY <1>1, <1>2

LEMMA InThree ==
    ASSUME NEW S, NEW A, NEW B, NEW C, S \subseteq A \cup B \cup C,
           IsFiniteSet(A), IsFiniteSet(B), IsFiniteSet(C)
    PROVE  IsFiniteSet(S) /\ Cardinality(S) <= Cardinality(A) + Cardinality(B) + Cardinality(C)
<1>1. /\ IsFiniteSet(A \cup B)
      /\ Cardinality(A \cup B) <= Cardinality(A) + Cardinality(B)
  <2>1. IsFiniteSet(A \cup B) /\ Cardinality(A \cup B) = Cardinality(A) + Cardinality(B) - Cardinality(A \cap B)
    BY FS_Union
  <2>2. IsFiniteSet(A \cap B)
    BY FS_Subset
  <2> QED
    BY <2>1, <2>2, FS_CardinalityType
<1>2. /\ IsFiniteSet((A \cup B) \cup C)
      /\ Cardinality((A \cup B) \cup C) <= Cardinality(A \cup B) + Cardinality(C)
  <2>1. /\ IsFiniteSet((A \cup B) \cup C)
        /\ Cardinality((A \cup B) \cup C) = Cardinality(A \cup B) + Cardinality(C) - Cardinality((A \cup B) \cap C)
    BY <1>1, FS_Union
  <2>2. IsFiniteSet((A \cup B) \cap C)
    BY FS_Subset
  <2> QED
    BY <1>1, <2>1, <2>2, FS_CardinalityType
<1>3. IsFiniteSet(S) /\ Cardinality(S) <= Cardinality((A \cup B) \cup C)
  BY <1>2, FS_Subset
<1> QED
  BY <1>1, <1>2, <1>3, FS_CardinalityType

-----------------------------------------------------------------------------
(***************************************************************************)
(* The company is asked for a reason.                                      *)
(***************************************************************************)

LEMMA AsksFinite ==
    ASSUME asks \in Seq(Ask), NEW S, S \subseteq DOMAIN asks
    PROVE  IsFiniteSet(S) /\ Cardinality(S) \in Nat
<1>1. Len(asks) \in Nat /\ DOMAIN asks = 1 .. Len(asks)
  BY Items
<1>2. IsFiniteSet(1 .. Len(asks))
  BY <1>1, FS_Interval
<1> QED
  BY <1>1, <1>2, Fewer

LEMMA InitAsking == Init => Asking
<1> SUFFICES ASSUME Init PROVE Asking
  OBVIOUS
<1>1. DOMAIN asks = {}
  BY DEF Init
<1>2. /\ \A i \in Places : Failed(i) = {} /\ failed[i] = 0
      /\ Lost = {} /\ crashes = 0
  BY <1>1 DEF Init, Failed, Asked, Lost
<1> QED
  BY <1>1, <1>2, FS_EmptySet DEF Asking, Mine

\* A row that goes on stays its step's, or is one of those that failed.
LEMMA BecomesAsking ==
    ASSUME CoreInv, Asking, NEW k \in DOMAIN asks, NEW ask \in Ask, Becomes(k, ask), UNCHANGED crashes
    PROVE  Asking'
<1>1. /\ asks \in Seq(Ask) /\ DOMAIN asks' = DOMAIN asks
      /\ asks'[k] = ask /\ \A j \in DOMAIN asks : j # k => asks'[j] = asks[j]
  BY RowChanged DEF Becomes, CoreInv, TypeOK
<1>2. \A i, j \in DOMAIN asks' : asks'[i].state = "running" /\ asks'[j].state = "running" => i = j
  BY <1>1 DEF Becomes, Asking
<1>3. ASSUME NEW i \in Places, NEW j \in Mine(i)', NEW l \in Mine(i)', l < j
      PROVE  asks'[l].state = "error"
  <2>1. j \in Mine(i) /\ l \in Mine(i)
    BY <1>1 DEF Mine, Becomes
  <2>2. asks[l].state = "error"
    BY <1>3, <2>1 DEF Asking
  <2> QED
    BY <1>1, <2>1, <2>2 DEF Becomes, Mine
<1>4. ASSUME NEW i \in Places
      PROVE  Cardinality(Failed(i)') <= failed'[i]
  <2>1. Failed(i) \subseteq DOMAIN asks /\ IsFiniteSet(Failed(i)) /\ Cardinality(Failed(i)) <= failed[i]
    BY <1>1, AsksFinite DEF Failed, Asked, Asking
  <2>2. failed[i] \in Nat /\ failed \in [Places -> Nat] /\ ask.step \in Places
    BY AskFields DEF CoreInv, TypeOK
  <2>3. CASE ask.state = "error" /\ ask.step = i
    <3>1. Failed(i)' \subseteq Failed(i) \cup {k}
      BY <1>1 DEF Failed, Asked
    <3>2. failed'[i] = failed[i] + 1
      BY <2>2, <2>3 DEF Becomes
    <3>3. Cardinality(Failed(i)') <= Cardinality(Failed(i)) + 1 /\ Cardinality(Failed(i)') \in Nat
          /\ Cardinality(Failed(i)) \in Nat
      BY <2>1, <3>1, OneMore
    <3> QED
      BY <2>1, <2>2, <3>2, <3>3
  <2>4. CASE ~(ask.state = "error" /\ ask.step = i)
    <3>1. Failed(i)' \subseteq Failed(i)
      BY <1>1, <2>4 DEF Failed, Asked
    <3>2. failed'[i] = failed[i]
      BY <2>2, <2>4 DEF Becomes
    <3>3. Cardinality(Failed(i)') <= Cardinality(Failed(i)) /\ Cardinality(Failed(i)') \in Nat
          /\ Cardinality(Failed(i)) \in Nat
      BY <2>1, <3>1, Fewer
    <3> QED
      BY <2>1, <2>2, <3>2, <3>3
  <2> QED
    BY <2>3, <2>4
<1>5. Cardinality(Lost') <= crashes'
  <2>1. Lost' \subseteq Lost
    BY <1>1 DEF Lost, Becomes
  <2>2. IsFiniteSet(Lost) /\ Cardinality(Lost) <= crashes /\ crashes \in Nat
    BY <1>1, AsksFinite DEF Lost, Asking, CoreInv, TypeOK
  <2> QED
    BY <2>1, <2>2, Fewer
<1> QED
  BY <1>2, <1>3, <1>4, <1>5 DEF Asking

LEMMA AsksAsking == ASSUME CoreInv, Asking, AsksCompany PROVE Asking'
<1>1. UNCHANGED <<failed, crashes>> /\ asks \in Seq(Ask)
  BY DEF AsksCompany, history, bounds, CoreInv, TypeOK
<1>2. CASE asks' = asks
  BY <1>1, <1>2 DEF Asking, Mine, Failed, Asked, Lost
<1>3. ASSUME NEW ask \in Ask, asks' = Append(asks, ask), ask.step = place, ask.level = 0, ask.state = "pending",
             \A k \in Mine(place) : asks[k].state # "error" => \E j \in Mine(place) : j > k
      PROVE  Asking'
  <2>1. PICK n \in Nat : n = Len(asks) /\ DOMAIN asks = 1 .. n
    BY <1>1, Items
  <2>2. /\ DOMAIN asks' = DOMAIN asks \cup {n + 1} /\ n + 1 \notin DOMAIN asks
        /\ \A k \in DOMAIN asks : asks'[k] = asks[k]
        /\ asks'[n + 1] = ask
    BY <1>1, <1>3, <2>1, Longer
  <2>3. place \in Places
    BY DEF AsksCompany, Called
  <2>4. \A k \in Mine(place) : asks[k].state = "error"
    <3> SUFFICES ASSUME NEW k \in Mine(place), asks[k].state # "error" PROVE FALSE
      OBVIOUS
    <3>1. PICK j \in Mine(place) : j > k
      BY <1>3
    <3>2. k < j
      BY <2>1, <3>1 DEF Mine
    <3> QED
      BY <2>3, <3>1, <3>2 DEF Asking
  <2>5. ASSUME NEW i \in Places, NEW j \in Mine(i)', NEW k \in Mine(i)', k < j
        PROVE  asks'[k].state = "error"
    <3>1. k \in DOMAIN asks
      BY <2>1, <2>2, <2>5 DEF Mine
    <3>2. k \in Mine(i) /\ asks'[k] = asks[k]
      BY <2>2, <2>5, <3>1 DEF Mine
    <3>3. CASE j \in DOMAIN asks
      BY <2>2, <2>5, <3>2, <3>3 DEF Mine, Asking
    <3>4. CASE j = n + 1
      BY <1>3, <2>2, <2>4, <2>5, <3>2, <3>4 DEF Mine
    <3> QED
      BY <2>2, <3>3, <3>4 DEF Mine
  <2>6. \A i \in Places : Failed(i)' = Failed(i)
    BY <1>3, <2>2 DEF Failed, Asked
  <2>7. Lost' = Lost
    BY <1>3, <2>2 DEF Lost
  <2>8. \A j, k \in DOMAIN asks' : asks'[j].state = "running" /\ asks'[k].state = "running" => j = k
    BY <1>3, <2>2 DEF Asking
  <2> QED
    BY <1>1, <2>5, <2>6, <2>7, <2>8 DEF Asking
<1> QED
  BY <1>2, <1>3, AskedAgain

\* A crash makes one more row at most that no step takes for its own.
LEMMA CrashAsking == ASSUME CoreInv, Asking, Crash PROVE Asking'
<1>1. /\ asks \in Seq(Ask) /\ asks' = [k \in DOMAIN asks |-> Recovered(asks[k])] /\ DOMAIN asks' = DOMAIN asks
      /\ crashes' = crashes + 1 /\ UNCHANGED failed
  BY DEF Crash, history, CoreInv, TypeOK
<1>2. ASSUME NEW k \in DOMAIN asks
      PROVE  /\ asks[k] \in Ask /\ asks'[k] \in Ask /\ asks'[k].step = asks[k].step /\ asks'[k].state # "running"
             /\ asks[k].state # "running" => asks'[k] = asks[k]
             /\ asks[k].state = "running" => asks'[k].state \in {"cancelled", "pending"} /\ asks'[k].level >= asks[k].level
  <2>1. asks[k] \in Ask
    BY <1>1, Items
  <2> QED
    BY <1>1, <2>1, RecoveredRow
<1>3. ASSUME NEW i \in Places, NEW j \in Mine(i)', NEW k \in Mine(i)', k < j
      PROVE  asks'[k].state = "error"
  <2>1. \A l \in Mine(i)' : l \in Mine(i)
    <3> SUFFICES ASSUME NEW l \in Mine(i)' PROVE l \in Mine(i)
      OBVIOUS
    <3>1. l \in DOMAIN asks /\ asks'[l].step = i /\ asks'[l].level <= 1 /\ asks'[l].state # "cancelled"
      BY <1>1 DEF Mine
    <3>2. asks[l].level \in 0 .. 2 /\ asks'[l].level \in 0 .. 2
      BY <1>2, <3>1, AskFields
    <3>3. asks[l].step = i /\ asks[l].level <= 1 /\ asks[l].state # "cancelled"
      BY <1>2, <3>1, <3>2
    <3> QED
      BY <3>1, <3>3 DEF Mine
  <2>2. asks[k].state = "error"
    BY <1>3, <2>1 DEF Asking
  <2> QED
    BY <1>1, <1>2, <2>2 DEF Mine
<1>4. \A i \in Places : Failed(i)' = Failed(i)
  BY <1>1, <1>2 DEF Failed, Asked
<1>5. Cardinality(Lost') <= crashes'
  <2>1. PICK r : \A k \in DOMAIN asks : asks[k].state = "running" => k = r
    BY DEF Asking
  <2>2. Lost' \subseteq Lost \cup {r}
    BY <1>1, <1>2, <2>1 DEF Lost
  <2>3. IsFiniteSet(Lost) /\ Cardinality(Lost) <= crashes /\ crashes \in Nat
    BY <1>1, AsksFinite DEF Lost, Asking, CoreInv, TypeOK
  <2>4. Cardinality(Lost') \in Nat /\ Cardinality(Lost) \in Nat /\ Cardinality(Lost') <= Cardinality(Lost) + 1
    BY <2>2, <2>3, OneMore
  <2> QED
    BY <1>1, <2>3, <2>4
<1> QED
  BY <1>1, <1>2, <1>3, <1>4, <1>5 DEF Asking

LEMMA RestAsking == ASSUME Asking, UNCHANGED <<asks, failed, crashes>> PROVE Asking'
BY DEF Asking, Mine, Failed, Asked, Lost

LEMMA StepAsking == ASSUME CoreInv, Asking, [Next]_vars PROVE Asking'
<1>1. ASSUME NEW k \in DOMAIN asks,
             CompanyTakes(k) \/ CompanyWorks(k) \/ CompanySettles(k) \/ CompanyFails(k)
      PROVE  Asking'
  <2>1. UNCHANGED crashes
    BY <1>1 DEF CompanyTakes, CompanyWorks, CompanySettles, CompanyFails, bounds
  <2> QED
    BY <1>1, <2>1, CompanyBecomes, BecomesAsking DEF CoreInv, TypeOK
<1>2. CASE Answer \/ Take \/ Enter \/ Over \/ ToolStep \/ ShowsCard \/ Decides \/ Hears \/ HearsNo \/ Record
           \/ Advance \/ Settle \/ StepFails \/ UNCHANGED vars
  <2>1. UNCHANGED <<asks, failed, crashes>>
    BY <1>2 DEF Answer, Take, Enter, Over, ToolStep, ShowsCard, Decides, Hears, HearsNo, Record, Advance, Settle,
                StepFails, Comes, Raises, vars, history, bounds
  <2> QED
    BY <2>1, RestAsking
<1> QED
  BY <1>1, <1>2, AsksAsking, CrashAsking DEF Next, Loop, Step, CompanyLoop

\* Of the runs that still answer to the step's tag, one is open at most; all the
\* others have failed, or were lost with a crash.
LEMMA ReasonsForAsking == ASSUME CoreInv, Asking PROVE AskedForAReason
<1> SUFFICES ASSUME NEW i \in Places
             PROVE  /\ Cardinality(Asked(i)) <= 1 + failed[i] + crashes
                    /\ Cardinality({k \in Asked(i) : asks[k].level <= 1 /\ Open(k)}) <= 1
  <2>1. \A i \in Places : {k \in DOMAIN asks : asks[k].step = i /\ asks[k].level <= 1 /\ Open(k)}
                             = {k \in Asked(i) : asks[k].level <= 1 /\ Open(k)}
    BY DEF Asked
  <2> QED
    BY <2>1 DEF AskedForAReason, Asked
<1>1. asks \in Seq(Ask) /\ \A k \in DOMAIN asks : asks[k] \in Ask
  BY Items DEF CoreInv, TypeOK
<1>2. \A j, k \in Live(i) : j = k
  <2> SUFFICES ASSUME NEW j \in Live(i), NEW k \in Live(i) PROVE ~(k < j)
    <3>1. DOMAIN asks \subseteq Int
      BY <1>1, Items
    <3>2. \A j, k \in Live(i) : ~(k < j) /\ ~(j < k) /\ j \in Int /\ k \in Int
      BY <3>1 DEF Live, Asked
    <3> QED
      BY <3>2
  <2>1. j \in Mine(i) /\ k \in Mine(i) /\ asks[k].state # "error"
    BY DEF Live, Asked, Mine
  <2> QED
    BY <2>1 DEF Asking
<1>3. IsFiniteSet(Live(i)) /\ Cardinality(Live(i)) \in Nat /\ Cardinality(Live(i)) <= 1
  BY <1>2, AtMostOne
<1>4. {k \in Asked(i) : asks[k].level <= 1 /\ Open(k)} \subseteq Live(i)
  BY DEF Live, Open
<1>5. Asked(i) \subseteq Failed(i) \cup Lost \cup Live(i)
  <2> SUFFICES ASSUME NEW k \in Asked(i), k \notin Failed(i), k \notin Lost PROVE k \in Live(i)
    OBVIOUS
  <2>1. k \in DOMAIN asks /\ asks[k].state # "error" /\ asks[k].level # 2 /\ asks[k].state # "cancelled"
    BY DEF Failed, Lost, Asked
  <2>2. asks[k].level \in 0 .. 2
    BY <1>1, <2>1, AskFields
  <2> QED
    BY <2>1, <2>2 DEF Live
<1>6. /\ IsFiniteSet(Failed(i)) /\ Cardinality(Failed(i)) \in Nat /\ Cardinality(Failed(i)) <= failed[i]
      /\ IsFiniteSet(Lost) /\ Cardinality(Lost) \in Nat /\ Cardinality(Lost) <= crashes
      /\ IsFiniteSet(Asked(i)) /\ Cardinality(Asked(i)) \in Nat
  BY <1>1, AsksFinite DEF Failed, Asked, Lost, Asking
<1>7. Cardinality(Asked(i)) <= Cardinality(Failed(i)) + Cardinality(Lost) + Cardinality(Live(i))
  BY <1>3, <1>5, <1>6, InThree
<1>8. Cardinality({k \in Asked(i) : asks[k].level <= 1 /\ Open(k)}) <= Cardinality(Live(i))
      /\ Cardinality({k \in Asked(i) : asks[k].level <= 1 /\ Open(k)}) \in Nat
  BY <1>3, <1>4, Fewer
<1>9. failed[i] \in Nat /\ crashes \in Nat
  BY DEF CoreInv, TypeOK
<1> QED
  BY <1>3, <1>6, <1>7, <1>8, <1>9

-----------------------------------------------------------------------------
(***************************************************************************)
(* What a step saves is saved once.                                        *)
(***************************************************************************)

SavedSo(i) ==
    /\ i > place => saved[i] = 0
    /\ i = place => saved[i] <= crashes + One(Made) /\ (Made => saved[i] >= 1)
    /\ i < place => saved[i] >= 1 /\ saved[i] <= 1 + crashes

LEMMA SavingTypes ==
    ASSUME CoreInv, NEW i \in Saves
    PROVE  i \in Places /\ i \in Nat \ {0} /\ place \in Nat /\ saved[i] \in Nat /\ crashes \in Nat
<1>1. Saves \subseteq Places
  BY WorkflowAssumption
<1> QED
  BY <1>1, Sizes DEF CoreInv, TypeOK

LEMMA InitSaving == ASSUME Init PROVE Saving
<1>1. CoreInv /\ ~Made
  BY InitCore, BlankFields DEF Init, Made
<1> SUFFICES ASSUME NEW i \in Saves PROVE SavedSo(i)
  BY DEF Saving, SavedSo
<1>2. i \in Places /\ i \in Nat \ {0} /\ place = 0 /\ saved[i] = 0
  BY <1>1, SavingTypes DEF Init
<1> QED
  BY <1>2 DEF SavedSo

LEMMA RestSaving == ASSUME Saving, UNCHANGED <<place, saved, crashes>>, Made' = Made PROVE Saving'
BY DEF Saving

\* The steps in which nothing is saved and the workflow stands where it stood.
LEMMA StillMade ==
    ASSUME CoreInv,
           \/ Answer \/ Take \/ Over \/ StepFails \/ HearsNo \/ ShowsCard \/ AsksCompany \/ Record \/ Settle
           \/ UNCHANGED vars
           \/ Enter /\ now.kind # "input"
           \/ \E k \in DOMAIN asks : CompanyTakes(k) \/ CompanyWorks(k) \/ CompanySettles(k) \/ CompanyFails(k)
    PROVE  UNCHANGED <<place, saved, crashes>> /\ Made' = Made
<1>1. slot \in Writes
  BY DEF CoreInv, TypeOK, Writes
<1>2. CASE Answer \/ UNCHANGED vars \/ \E k \in DOMAIN asks :
              CompanyTakes(k) \/ CompanyWorks(k) \/ CompanySettles(k) \/ CompanyFails(k)
  BY <1>2 DEF Answer, CompanyTakes, CompanyWorks, CompanySettles, CompanyFails, vars, checkpoint, memory, bounds, Made
<1>3. CASE Take \/ Over \/ StepFails \/ HearsNo \/ AsksCompany \/ Settle
  <2>1. at # "made" /\ at' # "made"
    BY <1>3 DEF Take, Over, StepFails, HearsNo, AsksCompany, Settle, Called, Raises, CoreInv, Taken
  <2>2. UNCHANGED <<place, slot, saved, crashes>>
    BY <1>3 DEF Take, Over, StepFails, HearsNo, AsksCompany, Settle, Raises, checkpoint, bounds
  <2> QED
    BY <2>1, <2>2 DEF Made
<1>4. CASE ShowsCard
  <2>1. at = "head" /\ at' = "ended" /\ slot' = [slot EXCEPT !.asked = TRUE] /\ UNCHANGED <<place, saved, crashes>>
    BY <1>4 DEF ShowsCard, Called, bounds
  <2>2. slot'.result = slot.result
    BY <1>1, <2>1, SlotFields
  <2> QED
    BY <2>1, <2>2 DEF Made
<1>5. CASE Enter /\ now.kind # "input"
  <2>1. at = "taken" /\ at' = "head" /\ UNCHANGED <<place, saved, crashes>>
    BY <1>5 DEF Enter, bounds
  <2>2. PICK given \in Run \cup {None} : slot' = [slot EXCEPT !.given = given]
    <3>1. slot' = [slot EXCEPT !.given = IF now.kind = "resume" /\ slot.asked /\ @ = None THEN now ELSE @]
      BY <1>5 DEF Enter
    <3>2. slot.given \in Run \cup {None} /\ now \in Run \cup {None}
      BY <1>1, SlotFields DEF CoreInv, TypeOK
    <3> QED
      BY <3>1, <3>2
  <2>3. slot'.result = slot.result
    BY <1>1, <2>2, SlotFields
  <2> QED
    BY <2>1, <2>3 DEF Made
<1>6. CASE Record
  <2>1. at = "made" /\ slot' = [slot EXCEPT !.result = made] /\ UNCHANGED <<place, saved, crashes>>
    BY <1>6 DEF Record, bounds
  <2>2. made # None /\ made \in Verdicts \cup {"done", None}
    <3>1. slot.given # None => slot.given \in Run
      BY <1>1, SlotFields
    <3> QED
      BY <2>1, <3>1, RunFields, NoneApart DEF CoreInv, Decided
  <2>3. slot'.result # None
    BY <1>1, <2>1, <2>2, SlotFields
  <2> QED
    BY <2>1, <2>3 DEF Made
<1> QED
  BY <1>2, <1>3, <1>4, <1>5, <1>6

LEMMA EnterSaving == ASSUME CoreInv, Saving, Enter, now.kind = "input" PROVE Saving'
<1>1. /\ at = "taken" /\ at' = "head" /\ place' = 1 /\ slot' = Blank /\ UNCHANGED <<saved, crashes>>
  BY DEF Enter, bounds
<1>2. now # None
  BY <1>1 DEF CoreInv, Taken
<1>3. status = "none" /\ place = 0
  BY <1>1, <1>2 DEF CoreInv, InputFirst
<1>4. ~Made'
  BY <1>1, BlankFields DEF Made
<1> SUFFICES ASSUME NEW i \in Saves PROVE SavedSo(i)'
  BY DEF Saving, SavedSo
<1>5. i \in Nat \ {0} /\ crashes \in Nat /\ (i > place => saved[i] = 0)
  BY SavingTypes DEF Saving
<1>6. saved'[i] = 0 /\ ~(i < place')
  BY <1>1, <1>3, <1>5
<1> QED
  BY <1>1, <1>4, <1>5, <1>6 DEF SavedSo, One

LEMMA ComesSaving ==
    ASSUME CoreInv, Saving, NEW result, Comes(result), at # "made", slot.result = None
    PROVE  Saving'
<1>1. /\ at' = "made" /\ UNCHANGED <<place, slot, crashes>>
      /\ saved' = IF place \in Saves THEN [saved EXCEPT ![place] = @ + 1] ELSE saved
  BY DEF Comes, checkpoint, bounds
<1>2. ~Made /\ Made'
  BY <1>1 DEF Made
<1> SUFFICES ASSUME NEW i \in Saves PROVE SavedSo(i)'
  BY DEF Saving, SavedSo
<1>3. SavedSo(i) /\ i \in Places /\ saved \in [Places -> Nat]
  BY SavingTypes DEF Saving, SavedSo, CoreInv, TypeOK
<1>4. i \in Nat /\ place \in Nat /\ saved[i] \in Nat /\ crashes \in Nat
  BY SavingTypes
<1>5. CASE i = place
  <2>1. saved'[i] = saved[i] + 1
    BY <1>1, <1>3, <1>5
  <2>2. saved[i] <= crashes
    BY <1>2, <1>3, <1>4, <1>5 DEF SavedSo, One
  <2> QED
    BY <1>1, <1>2, <1>4, <1>5, <2>1, <2>2 DEF SavedSo, One
<1>6. CASE i # place
  <2>1. saved'[i] = saved[i]
    BY <1>1, <1>3, <1>6
  <2> QED
    BY <1>1, <1>3, <1>6, <2>1 DEF SavedSo
<1> QED
  BY <1>5, <1>6

LEMMA AdvanceSaving == ASSUME CoreInv, Saving, Advance PROVE Saving'
<1>1. at = "head" /\ at' = at /\ slot.result # None /\ place' = place + 1 /\ slot' = Blank /\ UNCHANGED <<saved, crashes>>
  BY DEF Advance, memory, bounds
<1>2. Made /\ ~Made'
  BY <1>1, BlankFields DEF Made
<1> SUFFICES ASSUME NEW i \in Saves PROVE SavedSo(i)'
  BY DEF Saving, SavedSo
<1>3. SavedSo(i) /\ i \in Nat /\ place \in Nat /\ saved[i] \in Nat /\ crashes \in Nat
  BY SavingTypes DEF Saving, SavedSo
<1> QED
  BY <1>1, <1>2, <1>3 DEF SavedSo, One

LEMMA CrashSaving == ASSUME CoreInv, Saving, Crash PROVE Saving'
<1>1. at' = "off" /\ crashes' = crashes + 1 /\ UNCHANGED <<place, slot, saved>>
  BY DEF Crash, checkpoint
<1>2. Made' => Made
  BY <1>1 DEF Made
<1> SUFFICES ASSUME NEW i \in Saves PROVE SavedSo(i)'
  BY DEF Saving, SavedSo
<1>3. SavedSo(i) /\ i \in Nat /\ place \in Nat /\ saved[i] \in Nat /\ crashes \in Nat
  BY SavingTypes DEF Saving, SavedSo
<1> QED
  BY <1>1, <1>2, <1>3 DEF SavedSo, One

LEMMA StepSaving == ASSUME CoreInv, Saving, [Next]_vars PROVE Saving'
<1>1. CASE ToolStep \/ Decides \/ Hears
  <2>1. PICK result : Comes(result)
    BY <1>1 DEF ToolStep, Decides, Hears
  <2>2. at # "made" /\ slot.result = None
    BY <1>1 DEF ToolStep, Decides, Hears, Called, CoreInv, StepsOpen
  <2> QED
    BY <2>1, <2>2, ComesSaving
<1> QED
  BY <1>1, StillMade, RestSaving, EnterSaving, AdvanceSaving, CrashSaving DEF Next, Loop, Step, CompanyLoop

LEMMA SavingSavesOnce == ASSUME CoreInv, Saving PROVE SavedOnce
<1> SUFFICES ASSUME NEW i \in Saves
             PROVE  saved[i] <= 1 + crashes /\ (i < place => saved[i] >= 1)
  BY DEF SavedOnce
<1>1. SavedSo(i) /\ i \in Nat /\ place \in Nat /\ saved[i] \in Nat /\ crashes \in Nat
  BY SavingTypes DEF Saving, SavedSo
<1> QED
  BY <1>1 DEF SavedSo, One

-----------------------------------------------------------------------------
(***************************************************************************)
(* An approval is spent once.                                              *)
(***************************************************************************)

LEMMA ApprovingFinite ==
    ASSUME NEW runs \in Seq(Run)
    PROVE  IsFiniteSet(Approving(runs)) /\ Cardinality(Approving(runs)) \in Nat
<1>1. Len(runs) \in Nat /\ DOMAIN runs = 1 .. Len(runs)
  BY Items
<1>2. IsFiniteSet(1 .. Len(runs)) /\ Approving(runs) \subseteq 1 .. Len(runs)
  BY <1>1, FS_Interval DEF Approving
<1> QED
  BY <1>2, Fewer

LEMMA OneMoreApproving ==
    ASSUME NEW runs \in Seq(Run), NEW run \in Run, NEW longer, longer = Append(runs, run)
    PROVE  Cardinality(Approving(longer)) <= Cardinality(Approving(runs)) + One(Approves(run))
<1>1. /\ DOMAIN longer = DOMAIN runs \cup {Len(runs) + 1}
      /\ \A i \in DOMAIN runs : longer[i] = runs[i]
      /\ longer[Len(runs) + 1] = run
  BY Longer
<1>2. IsFiniteSet(Approving(runs)) /\ Cardinality(Approving(runs)) \in Nat
  BY ApprovingFinite
<1>3. CASE Approves(run)
  <2>1. Approving(longer) \subseteq Approving(runs) \cup {Len(runs) + 1}
    BY <1>1 DEF Approving
  <2> QED
    BY <1>2, <1>3, <2>1, OneMore DEF One
<1>4. CASE ~Approves(run)
  <2>1. Approving(longer) \subseteq Approving(runs)
    BY <1>1, <1>4 DEF Approving
  <2>2. Cardinality(Approving(longer)) <= Cardinality(Approving(runs)) /\ Cardinality(Approving(longer)) \in Nat
    BY <1>2, <2>1, Fewer
  <2> QED
    BY <1>2, <1>4, <2>2 DEF One
<1> QED
  BY <1>3, <1>4

\* The first run and the others: the others move up by one.
LEMMA FirstAndRest ==
    ASSUME NEW runs \in Seq(Run), runs # <<>>, NEW rest, rest = Tail(runs)
    PROVE  Cardinality(Approving(runs)) = One(Approves(runs[1])) + Cardinality(Approving(rest))
<1>1. /\ 1 \in DOMAIN runs /\ rest \in Seq(Run) /\ Len(runs) = Len(rest) + 1
      /\ \A i \in DOMAIN rest : i \in Nat \ {0} /\ i + 1 \in DOMAIN runs /\ rest[i] = runs[i + 1]
  BY Shorter
<1>2. PICK n \in Nat : n = Len(rest) /\ DOMAIN rest = 1 .. n /\ DOMAIN runs = 1 .. n + 1
  BY <1>1, Items
<1> DEFINE others == Approving(runs) \ {1}
           up == [i \in Approving(rest) |-> i + 1]
<1>3. up \in Bijection(Approving(rest), others)
  <2>1. \A i \in Approving(rest) : i \in 1 .. n /\ Approves(rest[i])
    BY <1>2 DEF Approving
  <2>2. \A i \in Approving(rest) : i + 1 \in others
    BY <1>1, <1>2, <2>1 DEF Approving
  <2>3. \A j \in others : j \in 2 .. n + 1 /\ Approves(runs[j])
    BY <1>2 DEF Approving
  <2>4. \A j \in others : j - 1 \in Approving(rest) /\ (j - 1) + 1 = j
    <3> SUFFICES ASSUME NEW j \in others PROVE j - 1 \in Approving(rest) /\ (j - 1) + 1 = j
      OBVIOUS
    <3>1. j \in 2 .. n + 1 /\ j - 1 \in 1 .. n /\ (j - 1) + 1 = j
      BY <2>3
    <3>2. rest[j - 1] = runs[(j - 1) + 1]
      BY <1>1, <1>2, <3>1
    <3> QED
      BY <1>2, <2>3, <3>1, <3>2 DEF Approving
  <2>5. \A i, j \in Approving(rest) : i + 1 = j + 1 => i = j
    BY <2>1
  <2> HIDE DEF others
  <2>6. up \in [Approving(rest) -> others]
    BY <2>2
  <2>7. \A i, j \in Approving(rest) : up[i] = up[j] => i = j
    BY <2>5
  <2>8. \A j \in others : \E i \in Approving(rest) : up[i] = j
    BY <2>4
  <2> QED
    BY <2>6, <2>7, <2>8 DEF Bijection, Injection, Surjection, IsInjective
<1>4. IsFiniteSet(others) /\ Cardinality(others) = Cardinality(Approving(rest))
  <2>1. ExistsBijection(Approving(rest), others)
    BY <1>3 DEF ExistsBijection
  <2>2. IsFiniteSet(Approving(rest))
    BY <1>1, ApprovingFinite
  <2> HIDE DEF others
  <2> QED
    BY <2>1, <2>2, FS_Bijection
<1>5. IsFiniteSet(Approving(runs)) /\ Cardinality(Approving(runs)) \in Nat
  BY ApprovingFinite
<1>6. Cardinality(others) = IF 1 \in Approving(runs) THEN Cardinality(Approving(runs)) - 1
                                                     ELSE Cardinality(Approving(runs))
  BY <1>5, FS_RemoveElement
<1>7. 1 \in Approving(runs) <=> Approves(runs[1])
  BY <1>1 DEF Approving
<1> HIDE DEF others
<1>8. CASE Approves(runs[1])
  BY <1>4, <1>5, <1>6, <1>7, <1>8 DEF One
<1>9. CASE ~Approves(runs[1])
  BY <1>4, <1>5, <1>6, <1>7, <1>9 DEF One
<1> QED
  BY <1>8, <1>9

LEMMA PassedFinite == IsFiniteSet(Passed) /\ Cardinality(Passed) \in Nat
<1>1. IsFiniteSet(Places) /\ Passed \subseteq Places
  BY Sizes, FS_Interval DEF Passed
<1> QED
  BY <1>1, Fewer

\* Approvals that went, and those that came.
LEMMA Balance ==
    ASSUME CoreInv, CoreInv', Spending,
           Cardinality(Passed') + One(Given') + One(InHand') + Cardinality(Approving(queue')) + (said + crashes)
              <= Cardinality(Passed) + One(Given) + One(InHand) + Cardinality(Approving(queue)) + (said' + crashes')
    PROVE  Spending'
<1>1. PICK a \in Nat, u \in Nat : a = Cardinality(Passed) /\ u = Cardinality(Approving(queue))
  BY PassedFinite, ApprovingFinite DEF CoreInv, TypeOK
<1>2. PICK b \in Nat, v \in Nat : b = Cardinality(Passed') /\ v = Cardinality(Approving(queue'))
  <2>1. Cardinality(Approving(queue')) \in Nat
    BY ApprovingFinite DEF CoreInv, TypeOK
  <2>2. IsFiniteSet(Places) /\ Passed' \subseteq Places
    BY Sizes, FS_Interval DEF Passed
  <2>3. Cardinality(Passed') \in Nat
    BY <2>2, Fewer
  <2> QED
    BY <2>1, <2>3
<1>3. /\ One(Given) \in 0 .. 1 /\ One(InHand) \in 0 .. 1 /\ said \in Nat /\ crashes \in Nat
      /\ One(Given') \in 0 .. 1 /\ One(InHand') \in 0 .. 1 /\ said' \in Nat /\ crashes' \in Nat
  BY OneIs DEF CoreInv, TypeOK
<1>4. a + (One(Given) + One(InHand) + u) <= said + crashes
  BY <1>1 DEF Spending, Unspent
<1>5. b + (One(Given') + One(InHand') + v) <= said' + crashes'
  BY <1>1, <1>2, <1>3, <1>4
<1> QED
  BY <1>2, <1>5 DEF Spending, Unspent

LEMMA InitSpending == ASSUME Init PROVE Spending
<1>1. CoreInv
  BY InitCore
<1>2. Passed = {}
  <2>1. \A i \in Places : ~(i < place)
    BY Sizes DEF Init
  <2> QED
    BY <2>1 DEF Passed
<1>3. Approving(queue) = {}
  <2>1. First.kind = "input"
    BY NewRuns DEF First, Verdicts
  <2> QED
    BY <2>1 DEF Init, Approving, Approves
<1>4. ~Given /\ ~InHand
  BY BlankFields DEF Init, Given, InHand
<1>5. Cardinality(Passed) = 0 /\ Cardinality(Approving(queue)) = 0 /\ One(Given) = 0 /\ One(InHand) = 0
  BY <1>2, <1>3, <1>4, FS_EmptySet DEF One
<1> QED
  BY <1>5 DEF Init, Spending, Unspent

LEMMA RestSpending ==
    ASSUME Spending, UNCHANGED <<place, status, queue, said, crashes>>, slot'.given = slot.given, InHand' = InHand
    PROVE  Spending'
BY DEF Spending, Unspent, Passed, Given

\* The steps in which no approval goes from one place to another.
LEMMA StillUnspent ==
    ASSUME CoreInv,
           \/ Over \/ ToolStep \/ Decides \/ Hears \/ StepFails \/ HearsNo \/ ShowsCard \/ AsksCompany \/ Record
           \/ Settle \/ UNCHANGED vars
           \/ \E k \in DOMAIN asks : CompanyTakes(k) \/ CompanyWorks(k) \/ CompanySettles(k) \/ CompanyFails(k)
    PROVE  /\ UNCHANGED <<place, status, queue, said, crashes>>
           /\ slot'.given = slot.given /\ InHand' = InHand
<1>1. slot \in Writes
  BY DEF CoreInv, TypeOK, Writes
<1>2. CASE UNCHANGED vars \/ \E k \in DOMAIN asks :
              CompanyTakes(k) \/ CompanyWorks(k) \/ CompanySettles(k) \/ CompanyFails(k)
  BY <1>2 DEF CompanyTakes, CompanyWorks, CompanySettles, CompanyFails, vars, checkpoint, memory, history, bounds, InHand
<1>3. CASE Over \/ ToolStep \/ Decides \/ Hears \/ StepFails \/ HearsNo \/ AsksCompany \/ Settle
  <2>1. at # "taken" /\ at' # "taken"
    BY <1>3 DEF Over, ToolStep, Decides, Hears, StepFails, HearsNo, AsksCompany, Settle, Called, Comes, Raises
  <2>2. UNCHANGED <<place, status, slot, queue, said, crashes>>
    BY <1>3 DEF Over, ToolStep, Decides, Hears, StepFails, HearsNo, AsksCompany, Settle, Comes, Raises, checkpoint,
                history, bounds
  <2> QED
    BY <2>1, <2>2 DEF InHand
<1>4. CASE ShowsCard
  <2>1. /\ at = "head" /\ at' = "ended" /\ slot' = [slot EXCEPT !.asked = TRUE]
        /\ UNCHANGED <<place, status, queue, said, crashes>>
    BY <1>4 DEF ShowsCard, Called, history, bounds
  <2> QED
    BY <1>1, <2>1, SlotFields DEF InHand
<1>5. CASE Record
  <2>1. /\ at = "made" /\ at' = "head" /\ slot' = [slot EXCEPT !.result = made]
        /\ UNCHANGED <<place, status, queue, said, crashes>>
    BY <1>5 DEF Record, history, bounds
  <2>2. slot'.given = slot.given
    BY <1>1, <2>1 DEF Writes
  <2> QED
    BY <2>1, <2>2 DEF InHand
<1> QED
  BY <1>2, <1>3, <1>4, <1>5

LEMMA AnswerSpending == ASSUME CoreInv, CoreInv', Spending, Answer PROVE Spending'
<1>1. PICK says \in Verdicts, card \in shown \cup {None} :
         /\ queue' = Append(queue, NewRun("resume", says, card))
         /\ said' = IF says = "approved" THEN said + 1 ELSE said
  BY DEF Answer
<1>2. PICK run \in Run : run = NewRun("resume", says, card) /\ run.says = says
  BY <1>1, NewRuns DEF CoreInv, TypeOK
<1>3. Cardinality(Approving(queue')) <= Cardinality(Approving(queue)) + One(Approves(run))
  BY <1>1, <1>2, OneMoreApproving DEF CoreInv, TypeOK
<1>4. said' - said >= One(Approves(run)) /\ said' \in Nat /\ said \in Nat
  BY <1>1, <1>2 DEF One, Approves, CoreInv, TypeOK
<1>5. Passed' = Passed /\ Given' = Given /\ InHand' = InHand /\ crashes' = crashes
  BY DEF Answer, Passed, Given, InHand, checkpoint, memory
<1>6. /\ Cardinality(Passed) \in Nat /\ One(Given) \in 0 .. 1 /\ One(InHand) \in 0 .. 1 /\ crashes \in Nat
      /\ Cardinality(Approving(queue)) \in Nat /\ Cardinality(Approving(queue')) \in Nat /\ One(Approves(run)) \in 0 .. 1
  BY PassedFinite, OneIs, ApprovingFinite DEF CoreInv, TypeOK
<1> QED
  BY <1>3, <1>4, <1>5, <1>6, Balance

LEMMA TakeSpending == ASSUME CoreInv, CoreInv', Spending, Take PROVE Spending'
<1>1. /\ now = None /\ queue # <<>> /\ now' = Head(queue) /\ queue' = Tail(queue) /\ at' = "taken"
      /\ UNCHANGED <<place, status, slot, said, crashes>> /\ queue \in Seq(Run)
  BY DEF Take, checkpoint, history, bounds, CoreInv, TypeOK
<1>2. now' = queue[1]
  BY <1>1, Shorter
<1>3. Cardinality(Approving(queue)) = One(InHand') + Cardinality(Approving(queue'))
  <2>1. Cardinality(Approving(queue)) = One(Approves(queue[1])) + Cardinality(Approving(queue'))
    BY <1>1, FirstAndRest
  <2>2. CASE Approves(queue[1])
    <3>1. InHand'
      BY <1>1, <1>2, <2>2 DEF InHand, Approves
    <3> QED
      BY <2>1, <2>2, <3>1 DEF One
  <2>3. CASE ~Approves(queue[1])
    <3>1. ~InHand'
      BY <1>1, <1>2, <2>3 DEF InHand, Approves
    <3> QED
      BY <2>1, <2>3, <3>1 DEF One
  <2> QED
    BY <2>2, <2>3
<1>4. ~InHand /\ Passed' = Passed /\ Given' = Given
  BY <1>1 DEF InHand, Passed, Given, CoreInv, Taken
<1>5. /\ Cardinality(Passed) \in Nat /\ One(Given) \in 0 .. 1 /\ One(InHand') \in 0 .. 1 /\ said \in Nat /\ crashes \in Nat
      /\ Cardinality(Approving(queue)) \in Nat /\ Cardinality(Approving(queue')) \in Nat /\ One(InHand) = 0
  BY <1>4, PassedFinite, OneIs, ApprovingFinite DEF CoreInv, TypeOK, One
<1> QED
  BY <1>1, <1>3, <1>4, <1>5, Balance

LEMMA EnterSpending == ASSUME CoreInv, CoreInv', Spending, Enter PROVE Spending'
<1>1. at = "taken" /\ at' = "head" /\ UNCHANGED <<queue, now, said, crashes>> /\ slot \in Writes /\ now \in Run
  BY DEF Enter, history, bounds, CoreInv, Taken, TypeOK, Writes
<1>2. ~InHand' /\ One(InHand') = 0
  BY <1>1 DEF InHand, One
<1>3. Passed' = Passed /\ (Given' => Given \/ InHand)
  <2>1. CASE now.kind = "input"
    <3>1. place' = 1 /\ slot' = Blank /\ status = "none" /\ place = 0
      BY <1>1, <2>1 DEF Enter, CoreInv, Taken, InputFirst
    <3>2. \A i \in Places : ~(i < place) /\ ~(i < place')
      BY <3>1, Sizes
    <3> QED
      BY <3>1, <3>2, BlankFields DEF Passed, Given
  <2>2. CASE now.kind # "input"
    <3>1. /\ UNCHANGED <<place, status>>
          /\ slot' = [slot EXCEPT !.given = IF now.kind = "resume" /\ slot.asked /\ @ = None THEN now ELSE @]
      BY <2>2 DEF Enter
    <3>2. slot'.given = slot.given \/ slot'.given = now
      BY <1>1, <3>1 DEF Writes
    <3> QED
      BY <1>1, <3>1, <3>2 DEF Passed, Given, InHand
  <2> QED
    BY <2>1, <2>2
<1>4. One(Given') <= One(Given) + One(InHand)
  BY <1>3 DEF One
<1>5. /\ Cardinality(Passed) \in Nat /\ One(Given) \in 0 .. 1 /\ One(InHand) \in 0 .. 1 /\ One(Given') \in 0 .. 1
      /\ Cardinality(Approving(queue)) \in Nat /\ said \in Nat /\ crashes \in Nat
  BY PassedFinite, OneIs, ApprovingFinite DEF CoreInv, TypeOK
<1> QED
  BY <1>1, <1>2, <1>3, <1>4, <1>5, Balance

\* An approval step is passed with the approval it was given.
LEMMA AdvanceSpending == ASSUME CoreInv, CoreInv', Spending, Advance PROVE Spending'
<1>1. /\ at = "head" /\ at' = at /\ status = "running" /\ slot.result # None
      /\ place' = place + 1 /\ status' = NextStatus /\ slot' = Blank /\ UNCHANGED <<queue, said, crashes>>
  BY DEF Advance, memory, history, bounds
<1>2. place \in Places /\ place \in Nat /\ slot \in Writes
  BY <1>1 DEF CoreInv, StepsOpen, TypeOK, Stages, Writes
<1>3. Passed' \subseteq Passed \cup {place}
  <2>1. \A i \in Places : i < place + 1 => i < place \/ i = place
    BY <1>2, Sizes
  <2> QED
    BY <1>1, <2>1 DEF Passed
<1>4. place \in Passed' => Given
  <2> SUFFICES ASSUME Steps[place] = "approval", ~(status' = "declined" /\ place = place' - 1) PROVE Given
    BY DEF Passed
  <2>1. place = place' - 1
    BY <1>1, <1>2
  <2>2. slot.result # "declined"
    BY <1>1, <2>1 DEF NextStatus
  <2>3. slot.given # None /\ slot.result = slot.given.says /\ slot.given.kind = "resume" /\ slot.given \in Run
    BY <1>1, <1>2, SlotFields DEF CoreInv, Decided
  <2>4. slot.given.says \in Verdicts
    BY <2>3, RunFields
  <2> QED
    BY <2>2, <2>3, <2>4 DEF Given, Approves, Verdicts
<1>5. ~Given' /\ ~InHand' /\ ~InHand
  BY <1>1, BlankFields DEF Given, InHand
<1>6. /\ Cardinality(Passed) \in Nat /\ IsFiniteSet(Passed) /\ One(Given) \in 0 .. 1
      /\ Cardinality(Approving(queue)) \in Nat /\ said \in Nat /\ crashes \in Nat
      /\ One(Given') = 0 /\ One(InHand') = 0 /\ One(InHand) = 0
  BY <1>5, PassedFinite, OneIs, ApprovingFinite DEF CoreInv, TypeOK, One
<1>7. Cardinality(Passed') <= Cardinality(Passed) + One(Given) /\ Cardinality(Passed') \in Nat
  <2>1. CASE Given
    <3>1. Cardinality(Passed') <= Cardinality(Passed) + 1 /\ Cardinality(Passed') \in Nat
      BY <1>3, <1>6, OneMore
    <3> QED
      BY <2>1, <3>1 DEF One
  <2>2. CASE ~Given
    <3>1. Passed' \subseteq Passed
      BY <1>3, <1>4, <2>2
    <3>2. Cardinality(Passed') <= Cardinality(Passed) /\ Cardinality(Passed') \in Nat
      BY <1>6, <3>1, Fewer
    <3> QED
      BY <1>6, <2>2, <3>2 DEF One
  <2> QED
    BY <2>1, <2>2
<1> QED
  BY <1>1, <1>6, <1>7, Balance

\* A crash may put back the run whose answer the step has.
LEMMA CrashSpending == ASSUME CoreInv, CoreInv', Spending, Crash PROVE Spending'
<1>1. /\ at' = "off" /\ crashes' = crashes + 1 /\ UNCHANGED <<place, status, slot, said>>
      /\ queue' = IF now = None THEN queue ELSE Owed \o queue
      /\ queue \in Seq(Run) /\ queue' \in Seq(Run)
  BY DEF Crash, checkpoint, history, CoreInv, TypeOK
<1>2. /\ Cardinality(Passed) \in Nat /\ One(Given) \in 0 .. 1 /\ One(InHand) \in 0 .. 1 /\ said \in Nat /\ crashes \in Nat
      /\ Cardinality(Approving(queue)) \in Nat /\ Cardinality(Approving(queue')) \in Nat
  BY <1>1, PassedFinite, OneIs, ApprovingFinite DEF CoreInv, TypeOK
<1>3. Cardinality(Approving(queue')) <= Cardinality(Approving(queue)) + 1
  <2>1. CASE queue' = queue
    BY <1>2, <2>1
  <2>2. ASSUME NEW run \in Run, queue' = <<run>> \o queue
        PROVE  Cardinality(Approving(queue')) <= Cardinality(Approving(queue)) + 1
    <3>1. queue' # <<>> /\ Tail(queue') = queue
      BY <1>1, <2>2, First1
    <3>2. Cardinality(Approving(queue')) = One(Approves(queue'[1])) + Cardinality(Approving(queue))
      BY <1>1, <3>1, FirstAndRest
    <3> QED
      BY <1>2, <3>2, OneIs
  <2> QED
    BY <1>1, <2>1, <2>2, OwedRuns, ConcatEmptySeq
<1>4. ~InHand' /\ Passed' = Passed /\ Given' = Given /\ One(InHand') = 0
  BY <1>1 DEF InHand, Passed, Given, One
<1> QED
  BY <1>1, <1>2, <1>3, <1>4, Balance

LEMMA StepSpending == ASSUME CoreInv, CoreInv', Spending, [Next]_vars PROVE Spending'
BY StillUnspent, RestSpending, AnswerSpending, TakeSpending, EnterSpending, AdvanceSpending, CrashSpending
   DEF Next, Loop, Step, CompanyLoop

-----------------------------------------------------------------------------
(***************************************************************************)
(* What the invariant comes to.                                            *)
(***************************************************************************)

\* The invariant holds in every state of every workflow.
THEOREM WorkHolds == Spec => []WorkInv
<1>1. Init => WorkInv
  BY InitCore, InitSpending, InitSaving, InitAsking DEF WorkInv
<1>2. WorkInv /\ [Next]_vars => WorkInv'
  <2> SUFFICES ASSUME WorkInv, [Next]_vars PROVE WorkInv'
    OBVIOUS
  <2>1. CoreInv'
    BY StepCore DEF WorkInv
  <2> QED
    BY <2>1, StepSpending, StepSaving, StepAsking DEF WorkInv
<1> QED
  BY <1>1, <1>2, PTL DEF Spec

\* Every variable of a workflow stays in its type.
THEOREM WorkTyped == Spec => []TypeOK
<1>1. WorkInv => TypeOK
  BY DEF WorkInv, CoreInv
<1> QED
  BY <1>1, WorkHolds, PTL

\* No more approval steps are passed than approvals were posted, but for one
\* that each crash may repeat.
THEOREM ApprovalsSpent == Spec => []ApprovalsAreSpent
<1>1. WorkInv => ApprovalsAreSpent
  <2> SUFFICES ASSUME WorkInv PROVE ApprovalsAreSpent
    OBVIOUS
  <2>1. PICK a \in Nat, u \in Nat : a = Cardinality(Passed) /\ u = Cardinality(Approving(queue))
    BY PassedFinite, ApprovingFinite DEF WorkInv, CoreInv, TypeOK
  <2>2. One(Given) \in 0 .. 1 /\ One(InHand) \in 0 .. 1 /\ said \in Nat /\ crashes \in Nat
    BY OneIs DEF WorkInv, CoreInv, TypeOK
  <2>3. a + (One(Given) + One(InHand) + u) <= said + crashes
    BY <2>1 DEF WorkInv, Spending, Unspent
  <2> QED
    BY <2>1, <2>2, <2>3 DEF ApprovalsAreSpent
<1> QED
  BY <1>1, WorkHolds, PTL

\* A step that saves has saved once it is passed, and again only where a crash
\* came between the artifact and the RESULT.
THEOREM StepsSaveOnce == Spec => []SavedOnce
<1>1. WorkInv => SavedOnce
  BY SavingSavesOnce DEF WorkInv
<1> QED
  BY <1>1, WorkHolds, PTL

\* The company is asked again only after an error or a crash, and of a step's
\* runs that answer to its tag no two are open.
THEOREM CompanyAskedForAReason == Spec => []AskedForAReason
<1>1. WorkInv => AskedForAReason
  BY ReasonsForAsking DEF WorkInv
<1> QED
  BY <1>1, WorkHolds, PTL

\* A workflow that is done or declined stays as it is.
THEOREM OverStaysOver == Spec => OverIsOver
<1>1. WorkInv /\ [Next]_vars =>
         [status # "none" /\ status # "running" => UNCHANGED <<checkpoint, saved>> /\ Len(asks') = Len(asks)]_vars
  <2> SUFFICES ASSUME WorkInv, [Next]_vars, status # "none", status # "running"
               PROVE  UNCHANGED <<checkpoint, saved>> /\ Len(asks') = Len(asks)
    OBVIOUS
  <2>1. /\ slot = Blank /\ slot \in Writes /\ at \notin {"waiting", "made"} /\ asks \in Seq(Ask)
        /\ at = "taken" => now # None /\ now.kind # "input"
        /\ CoreInv
    BY DEF WorkInv, CoreInv, StepsOpen, Taken, InputFirst, TypeOK, Writes
  <2>2. CASE Answer \/ Take \/ Over \/ Settle \/ UNCHANGED vars
    BY <2>2 DEF Answer, Take, Over, Settle, vars
  <2>3. CASE Enter
    <3>1. /\ UNCHANGED <<place, status, asks, saved>>
          /\ slot' = [slot EXCEPT !.given = IF now.kind = "resume" /\ slot.asked /\ @ = None THEN now ELSE @]
      BY <2>1, <2>3 DEF Enter
    <3>2. slot' = slot
      BY <2>1, <3>1, BlankFields DEF Writes
    <3> QED
      BY <3>1, <3>2 DEF checkpoint
  <2>4. CASE StepFails \/ Step \/ Record \/ Advance
    BY <2>1, <2>4 DEF StepFails, Step, ToolStep, ShowsCard, Decides, AsksCompany, Hears, HearsNo, Called, Record, Advance
  <2>5. ASSUME NEW k \in DOMAIN asks, CompanyTakes(k) \/ CompanyWorks(k) \/ CompanySettles(k) \/ CompanyFails(k)
        PROVE  UNCHANGED <<checkpoint, saved>> /\ Len(asks') = Len(asks)
    <3>1. UNCHANGED <<checkpoint, saved>>
      BY <2>5 DEF CompanyTakes, CompanyWorks, CompanySettles, CompanyFails
    <3>2. PICK ask \in Ask : Becomes(k, ask)
      BY <2>1, <2>5, CompanyBecomes
    <3> QED
      BY <2>1, <3>1, <3>2, RowChanged DEF Becomes
  <2>6. CASE Crash
    <3>1. UNCHANGED <<checkpoint, saved>> /\ asks' = [k \in DOMAIN asks |-> Recovered(asks[k])]
      BY <2>6 DEF Crash
    <3>2. asks' \in Seq(Ask)
      BY <2>1, <2>6, CrashCore DEF CoreInv, TypeOK
    <3>3. DOMAIN asks' = DOMAIN asks
      BY <3>1
    <3> QED
      BY <2>1, <3>1, <3>2, <3>3, LenProperties
  <2> QED
    BY <2>2, <2>3, <2>4, <2>5, <2>6 DEF Next, Loop, CompanyLoop
<1> QED
  BY <1>1, WorkHolds, PTL DEF Spec, OverIsOver
=============================================================================
