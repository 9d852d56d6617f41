-------------------------- MODULE RunManagerRecovery --------------------------
(***************************************************************************)
(* The inductive invariants of what recovery promises: no input is lost,   *)
(* inputs land in order, and rows tell the truth about checkpoints.  The   *)
(* abstract specification the run manager implements.                      *)
(***************************************************************************)
EXTENDS RunManagerInvariant

Mail == INSTANCE Mailbox WITH
    Inputs <- 1 .. RunBound,
    landed <- [t \in Threads |-> Landed(t)]

\* The store, the queue, the workers and the recovery together implement the
\* mailbox: each thread's inputs land once each and in order, across crashes.
ImplementsMailbox == Mail!Spec

\* An accepted input is in its thread's state in the end, crash or no crash.
DeliversMail == Mail!Delivery

-----------------------------------------------------------------------------
(***************************************************************************)
(* Nothing is lost.                                                        *)
(***************************************************************************)

Inbox(t) == {ckpt[t].inbox[i] : i \in DOMAIN ckpt[t].inbox}
HasLanded(o, t) == \E r \in Inbox(t) : runs[r].origin = o

\* Pending, running, or the run start is deciding about.
Live(r) == runs[r].status \in {"pending", "running"} \/ r = limbo

InboxRows == \A t \in Threads : \A r \in Inbox(t) : r \in RunsOf(t) /\ IsInput(r)

\* What the writes of a thread's outstanding task can be.
Sound(c) ==
    /\ c.values <=> c.inbox # <<>>
    /\ c.next => c.values
    /\ c.ask => c.next /\ c.step < Limit
    /\ c.result => c.next
    /\ c.ask /\ c.reply = 0 => ~c.result

CheckpointsSound == \A t \in Threads : Sound(ckpt[t])

\* Where a worker is says what its run has done.
WorkersSound ==
    \A w \in Workers : Active(w) =>
        /\ pc[w] \notin {"open", "input"} /\ IsInput(job[w]) => job[w] \in Inbox(ThreadOf(w))
        /\ pc[w] = "loop" => mem[w].next
        /\ pc[w] = "success" => ~mem[w].next
        /\ pc[w] = "interrupted" => mem[w].ask
        /\ pc[w] = "error" => ~(mem[w].ask /\ mem[w].reply = 0)

\* A workflow's thread has one input.
InputsAlone ==
    \A r, s \in RunIds : runs[r].thread = runs[s].thread /\ runs[r].kind = "input" /\ IsInput(s)
        => runs[r].origin = runs[s].origin

\* What has not landed has a run that will land it.
Carried ==
    \A t \in Threads : \A n \in DOMAIN sent[t] :
        \/ HasLanded(sent[t][n], t)
        \/ \E r \in RunsOf(t) : Live(r) /\ IsInput(r) /\ runs[r].origin = sent[t][n]

KeepInv == InboxRows /\ CheckpointsSound /\ WorkersSound /\ InputsAlone /\ Carried

-----------------------------------------------------------------------------
(***************************************************************************)
(* Runs of a thread go in order.                                           *)
(***************************************************************************)

OriginsOld == \A r \in RunIds : runs[r].origin <= r

LiveApart == \A r, s \in RunIds : Live(r) /\ Live(s) /\ runs[r].origin = runs[s].origin => r = s

\* The run of a thread that is under way is before those that wait, and those
\* that are over are before it.
LiveInOrder ==
    \A r, s \in RunIds : runs[r].thread = runs[s].thread /\ Live(r) =>
        /\ Live(s) /\ r # s /\ runs[r].status # "pending" => runs[r].origin < runs[s].origin
        /\ ~Live(s) => Before(s, r)

Earlier(r, s) == runs[r].origin < runs[s].origin

\* A thread's backlog comes before its runs in the queue, each by its order.
QueuesInOrder ==
    /\ \A i, j \in DOMAIN queue :
          i < j /\ runs[queue[i]].thread = runs[queue[j]].thread => Earlier(queue[i], queue[j])
    /\ \A t \in Threads : \A i \in DOMAIN backlog[t] :
          /\ \A j \in DOMAIN backlog[t] : i < j => Earlier(backlog[t][i], backlog[t][j])
          /\ \A j \in DOMAIN queue : runs[queue[j]].thread = t => Earlier(backlog[t][i], queue[j])

OrderInv == OriginsOld /\ LiveApart /\ LiveInOrder /\ QueuesInOrder /\ NoneStranded

-----------------------------------------------------------------------------
(***************************************************************************)
(* Inputs land once each, in the order in which they were accepted.        *)
(***************************************************************************)

SentInOrder ==
    \A t \in Threads :
        /\ \A n \in DOMAIN sent[t] : sent[t][n] \in RunIds
        /\ \A m, n \in DOMAIN sent[t] : m < n => sent[t][m] < sent[t][n]

InputsSent ==
    \A r \in RunIds : IsInput(r) => \E n \in DOMAIN sent[runs[r].thread] : sent[runs[r].thread][n] = runs[r].origin

CameIn(r) == IsInput(r) /\ HasLanded(runs[r].origin, runs[r].thread)

\* A run that still has to land its input carries one that has not landed.
NotYet ==
    /\ \A r \in RunIds : CameIn(r) =>
          runs[r].status # "pending" /\ (Live(r) => r \in Inbox(runs[r].thread))
    /\ \A w \in Workers : Active(w) /\ pc[w] \in {"open", "input"} => ~CameIn(job[w])

LandedSent ==
    \A t \in Threads : \A i \in DOMAIN ckpt[t].inbox :
        i \in DOMAIN sent[t] /\ runs[ckpt[t].inbox[i]].origin = sent[t][i]

LandInv == SentInOrder /\ InputsSent /\ NotYet /\ LandedSent

-----------------------------------------------------------------------------
(***************************************************************************)
(* How many runs there can be.                                             *)
(***************************************************************************)

Originals == {r \in RunIds : runs[r].origin = r}
Replacements == RunIds \ Originals

\* The runs that start has to decide about, or is deciding about.
Owing == IF phase = "up" THEN {} ELSE WithStatus("running") \cup (RunIds \cap {limbo})

\* What runs when the process dies has a worker each, and is replaced once.
CountInv ==
    /\ OriginsOld
    /\ crashes <= MaxCrashes
    /\ Cardinality(Originals) <= MaxSubmits
    /\ Cardinality(Replacements) + Cardinality(Owing) <= crashes * Cardinality(Workers)

\* The bound that the runs are counted up to by EveryRunEnds and the mailbox is
\* one that no call, crash or recovery passes.
RunsAreBounded == Len(runs) <= RunBound

-----------------------------------------------------------------------------
(***************************************************************************)
(* An answer goes to the card that was on show.                            *)
(***************************************************************************)

\* A caller's answer with a card that no task has heard yet.
Unheard(r) ==
    /\ runs[r].origin = r /\ runs[r].card # NoCard
    /\ \/ runs[r].status = "pending"
       \/ \E w \in Workers : Active(w) /\ job[w] = r /\ pc[w] \in {"open", "input"}

CardsKept ==
    \A r \in RunIds : Unheard(r) =>
        /\ ckpt[runs[r].thread].ask /\ ckpt[runs[r].thread].step = runs[r].card
        /\ \A s \in RunsOf(runs[r].thread) : Live(s) /\ s # r => Earlier(r, s)

Given(r, card) == r \in RunIds /\ (runs[r].origin = r => runs[r].card \in {NoCard, card})

RepliesFit == \A t \in Threads : ckpt[t].reply # 0 => Given(ckpt[t].reply, ckpt[t].step)

ActedFit == \A a \in acted : Given(a.by, a.card)

TellInv == RowTellsState /\ PausedIsShown /\ CardsKept /\ RepliesFit /\ ActedFit
=============================================================================
