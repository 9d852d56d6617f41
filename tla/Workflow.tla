------------------------------ MODULE Workflow ------------------------------
(***************************************************************************)
(* One workflow run (workflows/engine.py) between its owner and the agent  *)
(* company: its steps on the graph engine, the runs of its thread, the     *)
(* answers the owner posts (web_api/app.py workflow_resume), the company   *)
(* runs an agent step asks for (company_asker), and crashes with what both *)
(* run managers recover.                                                   *)
(*                                                                         *)
(* A thread's runs go one after another and a step is one task (RunManager,*)
(* Pregel); a crash inside a start, which RunManager has, is left out.     *)
(***************************************************************************)
EXTENDS Integers, Sequences, FiniteSets, SequencesExt

CONSTANTS
    Steps,       \* the definition's steps: "tool", "approval" or "agent" each
    Saves,       \* places of the steps with save_as
    MaxAnswers,  \* bound: answers the owner posts
    MaxErrors,   \* bound: steps and company runs that end badly
    MaxCrashes,  \* bound: crashes of the process
    None

Places == 1 .. Len(Steps)

Verdicts == {"approved", "declined"}
Ends == {"done", "success", "error", "interrupted"}
Run == [kind: {"input", "resume", "continue"}, says: Verdicts, card: Places \cup {None}]

ASSUME WorkflowAssumption ==
    /\ Steps \in Seq({"tool", "approval", "agent"})
    /\ Saves \in SUBSET {i \in Places : Steps[i] # "approval"}
    /\ MaxAnswers \in Nat /\ MaxErrors \in Nat /\ MaxCrashes \in Nat
    /\ None \notin Places /\ None \notin Run /\ None \notin Verdicts \cup Ends

VARIABLES
    place,    \* checkpoint: the step to run, 0 before the input has landed
    status,   \* checkpoint: "none", "running", "done" or "declined"
    slot,     \* pending writes of that step's task: asked, given, result
    queue,    \* the thread's pending runs
    now,      \* the run a worker has, or None
    at,       \* where it is: "off", "taken", "head", "waiting", "made" or "ended"
    made,     \* what the step came to, in memory
    target,   \* the company run it waits for
    asks,     \* rows of the company's runs for this workflow, oldest first
    saved,    \* artifacts saved by each step
    shown,    \* history: the cards the owner was ever shown
    said,     \* history: approvals posted
    failed,   \* history: for each step, company runs that ended in an error
    answers, errors, crashes

checkpoint == <<place, status, slot>>
memory == <<now, at, made, target>>
history == <<shown, said, failed>>
bounds == <<answers, errors, crashes>>
vars == <<checkpoint, queue, memory, asks, saved, history, bounds>>

Ask == [step: Places, level: 0 .. 2, state: {"pending", "running", "success", "error", "interrupted", "cancelled"},
        landed: BOOLEAN, over: BOOLEAN]
\* One stage more than there are steps: the run may be past its last step.
Stages == 0 .. Len(Steps) + 1
Blank == [asked |-> FALSE, given |-> None, result |-> None]
NewRun(kind, says, card) == [kind |-> kind, says |-> says, card |-> card]
First == NewRun("input", "approved", None)

Open(k) == asks[k].state \in {"pending", "running"}

-----------------------------------------------------------------------------
(***************************************************************************)
(* The owner.                                                              *)
(***************************************************************************)

\* workflow_resume: an owner may answer at any time, a card on a page that is
\* out of date too, or post with no card at all to have a failed run go on.
Answer ==
    /\ answers < MaxAnswers
    /\ answers' = answers + 1
    /\ \E says \in Verdicts, card \in shown \cup {None} :
          /\ queue' = Append(queue, NewRun("resume", says, card))
          /\ said' = IF says = "approved" THEN said + 1 ELSE said
    /\ UNCHANGED <<checkpoint, memory, asks, saved, shown, failed, errors, crashes>>

-----------------------------------------------------------------------------
(***************************************************************************)
(* The run of a thread (RunManager._execute, graph/pregel.py _run).        *)
(***************************************************************************)

Take ==
    /\ now = None /\ queue # <<>>
    /\ now' = Head(queue)
    /\ queue' = Tail(queue)
    /\ at' = "taken"
    /\ UNCHANGED <<checkpoint, made, target, asks, saved, history, bounds>>

\* The input lands, an answer goes to the task that asked (the first one is the
\* one it uses), anything else goes on where the thread stands.
Enter ==
    /\ at = "taken"
    /\ at' = "head"
    /\ IF now.kind = "input"
       THEN place' = 1 /\ status' = "running" /\ slot' = Blank
       ELSE /\ slot' = [slot EXCEPT !.given =
                           IF now.kind = "resume" /\ slot.asked /\ @ = None THEN now ELSE @]
            /\ UNCHANGED <<place, status>>
    /\ UNCHANGED <<queue, now, made, target, asks, saved, history, bounds>>

\* Nothing is left to do.
Over ==
    /\ at = "head" /\ status # "running"
    /\ at' = "ended" /\ made' = "success"
    /\ UNCHANGED <<checkpoint, queue, now, target, asks, saved, history, bounds>>

\* Mutants of Called: a step runs although the workflow is over, or although its
\* result is recorded.
CalledWhenOver(kind) == at = "head" /\ slot.result = None /\ place \in Places /\ Steps[place] = kind
CalledAgain(kind) == at = "head" /\ status = "running" /\ place \in Places /\ Steps[place] = kind

Called(kind) ==
    /\ at = "head" /\ status = "running" /\ slot.result = None
    /\ place \in Places /\ Steps[place] = kind

\* The step has come to a result; what it saves is saved at once.
Comes(result) ==
    /\ at' = "made" /\ made' = result
    /\ saved' = IF place \in Saves THEN [saved EXCEPT ![place] = @ + 1] ELSE saved
    /\ UNCHANGED <<checkpoint, queue, now, target, asks, history, bounds>>

Raises ==
    /\ at' = "ended" /\ made' = "error"
    /\ UNCHANGED <<checkpoint, queue, now, target, saved, history, answers, crashes>>

ToolStep == Called("tool") /\ Comes("done")

\* An upload that is gone, a tool that raises, a company that is too slow.
StepFails ==
    /\ errors < MaxErrors /\ errors' = errors + 1
    /\ \/ \E kind \in {"tool", "approval", "agent"} : Called(kind)
       \/ at = "waiting"
    /\ Raises
    /\ UNCHANGED asks

ShowsCard ==
    /\ Called("approval") /\ slot.given = None
    /\ slot' = [slot EXCEPT !.asked = TRUE]
    /\ at' = "ended" /\ made' = "interrupted"
    /\ UNCHANGED <<place, status, queue, now, target, asks, saved, history, bounds>>

Decides == Called("approval") /\ slot.given # None /\ Comes(slot.given.says)

\* Mutant of Mine: a recovered run of the company is not taken for the step's.
MineUnlessRecovered(i) ==
    {k \in DOMAIN asks : asks[k].step = i /\ asks[k].level = 0 /\ asks[k].state # "cancelled"}

\* company_asker: the runs under the step's tag, or under that of its recovery.
Mine(i) ==
    {k \in DOMAIN asks : asks[k].step = i /\ asks[k].level <= 1 /\ asks[k].state # "cancelled"}

\* The newest of them is reused unless it ended in an error.
AsksCompany ==
    /\ Called("agent")
    /\ at' = "waiting"
    /\ \/ \E k \in Mine(place) :
             /\ \A j \in Mine(place) : j <= k
             /\ asks[k].state # "error"
             /\ target' = k
             /\ UNCHANGED asks
       \/ /\ \A k \in Mine(place) : asks[k].state # "error" => \E j \in Mine(place) : j > k
          /\ asks' = Append(asks, [step |-> place, level |-> 0, state |-> "pending",
                                   landed |-> FALSE, over |-> FALSE])
          /\ target' = Len(asks')
    /\ UNCHANGED <<checkpoint, queue, now, made, saved, history, bounds>>

Hears == at = "waiting" /\ asks[target].state = "success" /\ Comes("done")

\* Mutant of HearsNo: a company run that waits for an approval is waited for.
HearsErrors == at = "waiting" /\ asks[target].state = "error" /\ Raises /\ UNCHANGED <<asks, errors>>

HearsNo ==
    /\ at = "waiting" /\ asks[target].state \in {"error", "interrupted"}
    /\ Raises
    /\ UNCHANGED <<asks, errors>>

\* The RESULT is written ...
Record ==
    /\ at = "made"
    /\ slot' = [slot EXCEPT !.result = made]
    /\ at' = "head" /\ made' = None
    /\ UNCHANGED <<place, status, queue, now, target, asks, saved, history, bounds>>

\* Mutant of NextStatus: a decision is a step like any other.
NextStatusWhatever == IF place >= Len(Steps) THEN "done" ELSE "running"

NextStatus ==
    IF slot.result = "declined" THEN "declined"
    ELSE IF place >= Len(Steps) THEN "done" ELSE "running"

\* ... then, past the barrier, the checkpoint of the next step.
Advance ==
    /\ at = "head" /\ status = "running" /\ slot.result # None
    /\ place' = place + 1
    /\ status' = NextStatus
    /\ slot' = Blank
    /\ UNCHANGED <<queue, memory, asks, saved, history, bounds>>

\* The row of the run gets its outcome.
Settle ==
    /\ at = "ended"
    /\ at' = "off" /\ now' = None /\ made' = None
    /\ shown' = IF made = "interrupted" THEN shown \cup {place} ELSE shown
    /\ UNCHANGED <<checkpoint, queue, target, asks, saved, said, failed, bounds>>

-----------------------------------------------------------------------------
(***************************************************************************)
(* The company's runs of this workflow's thread.                           *)
(***************************************************************************)

CompanyTakes(k) ==
    /\ asks[k].state = "pending"
    /\ \A j \in DOMAIN asks : asks[j].state # "running" /\ (asks[j].state = "pending" => k <= j)
    /\ asks' = [asks EXCEPT ![k].state = "running"]
    /\ UNCHANGED <<checkpoint, queue, memory, saved, history, bounds>>

\* The message lands in the thread's state; later the graph is through.
CompanyWorks(k) ==
    /\ asks[k].state = "running" /\ ~asks[k].over
    /\ asks' = [asks EXCEPT ![k].landed = TRUE, ![k].over = asks[k].landed]
    /\ UNCHANGED <<checkpoint, queue, memory, saved, history, bounds>>

\* An activation raises, or waits for an approval of its own.
CompanyFails(k) ==
    /\ errors < MaxErrors /\ errors' = errors + 1
    /\ asks[k].state = "running" /\ asks[k].landed /\ ~asks[k].over
    /\ \E state \in {"error", "interrupted"} :
          /\ asks' = [asks EXCEPT ![k].state = state]
          /\ failed' = IF state = "error" THEN [failed EXCEPT ![asks[k].step] = @ + 1] ELSE failed
    /\ UNCHANGED <<checkpoint, queue, memory, saved, shown, said, answers, crashes>>

CompanySettles(k) ==
    /\ asks[k].state = "running" /\ asks[k].over
    /\ asks' = [asks EXCEPT ![k].state = "success"]
    /\ UNCHANGED <<checkpoint, queue, memory, saved, history, bounds>>

-----------------------------------------------------------------------------
(***************************************************************************)
(* A crash, and what the two starts recover.                               *)
(***************************************************************************)

\* _recover of the workflow's run.
Owed ==
    IF \/ now.kind = "input" /\ status = "none"
       \/ now.kind = "resume" /\ slot.asked
    THEN <<now>>
    ELSE IF status = "running" /\ slot.result = None THEN <<NewRun("continue", now.says, now.card)>>
    ELSE <<>>

\* _recover of the company's: the replacement takes the crashed row's place, its
\* tag grows a prefix; a run whose graph was through owes nothing.
Recovered(ask) ==
    IF ask.state # "running" THEN ask
    ELSE IF ask.over THEN [ask EXCEPT !.state = "cancelled"]
    ELSE [ask EXCEPT !.state = "pending", !.level = IF @ < 2 THEN @ + 1 ELSE 2]

Crash ==
    /\ crashes < MaxCrashes /\ crashes' = crashes + 1
    /\ queue' = IF now = None THEN queue ELSE Owed \o queue
    /\ now' = None /\ at' = "off" /\ made' = None
    /\ asks' = [k \in DOMAIN asks |-> Recovered(asks[k])]
    /\ UNCHANGED <<checkpoint, target, saved, history, answers, errors>>

-----------------------------------------------------------------------------
Init ==
    /\ place = 0 /\ status = "none" /\ slot = Blank
    /\ queue = <<First>>
    /\ now = None /\ at = "off" /\ made = None /\ target = 0
    /\ asks = <<>>
    /\ saved = [i \in Places |-> 0]
    /\ shown = {} /\ said = 0 /\ failed = [i \in Places |-> 0]
    /\ answers = 0 /\ errors = 0 /\ crashes = 0

Step == ToolStep \/ ShowsCard \/ Decides \/ AsksCompany \/ Hears \/ HearsNo
Loop == Take \/ Enter \/ Over \/ Step \/ Record \/ Advance \/ Settle
CompanyLoop == \E k \in DOMAIN asks : CompanyTakes(k) \/ CompanyWorks(k) \/ CompanySettles(k)

Next ==
    \/ Answer \/ Loop \/ StepFails \/ CompanyLoop \/ Crash
    \/ \E k \in DOMAIN asks : CompanyFails(k)

\* The event loop runs what is ready, and every activation ends.
Fairness == WF_vars(Loop) /\ WF_vars(CompanyLoop)

Spec == Init /\ [][Next]_vars /\ Fairness

-----------------------------------------------------------------------------
TypeOK ==
    /\ place \in Stages
    /\ status \in {"none", "running", "done", "declined"}
    /\ slot \in [asked: BOOLEAN, given: Run \cup {None}, result: Verdicts \cup {"done", None}]
    /\ queue \in Seq(Run) /\ now \in Run \cup {None}
    /\ at \in {"off", "taken", "head", "waiting", "made", "ended"}
    /\ made \in Verdicts \cup Ends \cup {None}
    /\ target \in 0 .. Len(asks) /\ asks \in Seq(Ask)
    /\ saved \in [Places -> Nat]
    /\ shown \in SUBSET Places /\ said \in Nat /\ failed \in [Places -> Nat]
    /\ answers \in Nat /\ errors \in Nat /\ crashes \in Nat

\* The approval steps the workflow has got past.
Passed == {i \in Places : Steps[i] = "approval" /\ i < place /\ ~(status = "declined" /\ i = place - 1)}

\* However answers, crashes and retries interleave, no more approval steps are
\* passed than the owner posted approvals, but for one that each crash may
\* repeat (engine.py _run, manager.py _recover).
ApprovalsAreSpent == Cardinality(Passed) <= said + crashes

\* A workflow that is done or declined stays as it is: no answer that was still
\* queued, no recovered run and no late company run makes it ask, save or step.
OverIsOver ==
    [][status # "none" /\ status # "running" =>
          /\ UNCHANGED <<checkpoint, saved>>
          /\ Len(asks') = Len(asks)]_vars

\* A step that saves has saved once it is passed, and again only where a crash
\* came between the artifact and the RESULT (engine.py:250).
SavedOnce ==
    \A i \in Saves : saved[i] <= 1 + crashes /\ (i < place => saved[i] >= 1)

\* The company is asked again only after an error or a crash, and of the runs
\* that still answer to the step's tag no two are open (company_asker).
AskedForAReason ==
    \A i \in Places :
       /\ Cardinality({k \in DOMAIN asks : asks[k].step = i}) <= 1 + failed[i] + crashes
       /\ Cardinality({k \in DOMAIN asks : asks[k].step = i /\ asks[k].level <= 1 /\ Open(k)}) <= 1

\* Every run of the workflow that was accepted comes to an outcome.
RunsEnd == []<>(now = None /\ queue = <<>>)

\* What company_asker says of itself: a step that is run again after a crash
\* reuses the company run already made for it "instead of asking twice".
AskedOnce ==
    \A i \in Places : Cardinality({k \in DOMAIN asks : asks[k].step = i}) <= 1 + failed[i]

\* What the engine says of an approval step: it "pauses the run until the owner
\* answers", so the answer it goes by was given to its own card.
AnswersTheCardShown == slot.given # None => slot.given.card = place
=============================================================================
