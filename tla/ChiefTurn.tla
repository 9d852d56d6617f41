----------------------------- MODULE ChiefTurn -----------------------------
(***************************************************************************)
(* The turns of one user of one org with the Chief of the v1 bot: messages *)
(* that queue for the session mutex, the claude process of each turn and   *)
(* its recovery when the session is lost (bot/chief-runner.ts), the record *)
(* of the session on disk (bot/session-store.ts), which a terminal changes *)
(* too (cli/chief.ts, cli/workflow-focus.ts), and the drain of the bot     *)
(* before it exits (bot/in-flight.ts).                                     *)
(*                                                                         *)
(* Everything between two awaits of the bot is one step, and a read and    *)
(* write of the record by another process is one step too.  Session ids    *)
(* are numbered as they are minted, messages as they come.                 *)
(***************************************************************************)
EXTENDS Integers, FiniteSets

CONSTANTS
    MaxMessages, \* bound: messages of the user
    Depth,       \* maxQueueDepth
    Workflows,   \* ids a focus may name
    MaxIds,      \* bound: session ids minted by resets and lost transcripts
    MaxExits     \* bound: exits of the bot

ASSUME ChiefAssumption ==
    /\ MaxMessages \in Nat /\ MaxIds \in Nat /\ MaxExits \in Nat
    /\ Depth \in Nat \ {0} /\ "none" \notin Workflows

VARIABLES
    at,        \* where each message is
    ahead,     \* prior: the message whose turn each one waits for, or itself
    sid,       \* while it runs, the session id its claude process was given
    resumes,   \* useResume
    rotated,   \* rotatedAlready
    cancelled, \* inflightEntry.cancelled
    result,    \* what its claude process ended with
    tail,      \* locks: the last in line of this session, or 0
    record,    \* the session file, or NoRecord
    minted,    \* how many ids there are
    known,     \* the ids claude has a transcript of
    draining,
    exits,
    focused    \* history: the focus last asked for

turn == <<at, ahead, sid, resumes, rotated, cancelled, result, tail>>
vars == <<turn, record, minted, known, draining, exits, focused>>

Messages == 1 .. MaxMessages
NoRecord == [sid |-> 0, focus |-> "none"]

Waiting == {m \in Messages : at[m] = "waiting"}
Live == {m \in Messages : at[m] \in {"live", "exited"}}
Ended == {"answered", "failed"}
Gone == {"done", "told", "refused", "lost"}

\* inFlightCount
InFlight == {m \in Messages : at[m] \notin Gone \cup {"out"}}

-----------------------------------------------------------------------------
(***************************************************************************)
(* The messenger.                                                          *)
(***************************************************************************)

\* handleCommand: a message that comes while the bot drains is refused.
Enter(m) ==
    /\ at[m] = "out" /\ \A n \in 1 .. m - 1 : at[n] # "out"
    /\ at' = [at EXCEPT ![m] = IF draining THEN "refused" ELSE "in"]
    /\ UNCHANGED <<ahead, sid, resumes, rotated, cancelled, result, tail,
                   record, minted, known, draining, exits, focused>>

\* Mutant of Prior: it waits for the turn that runs and not for those in line.
PriorOfRunning(m) == IF Live = {} THEN m ELSE CHOOSE n \in Live : TRUE

\* A message that finds the lock free waits for itself, that is for nothing.
Prior(m) == IF tail = 0 THEN m ELSE tail

\* SessionMutex.acquire: at the cap the message fails; else it is the new tail.
Acquire(m) ==
    /\ at[m] = "in"
    /\ IF Cardinality(Waiting \cup Live) >= Depth
       THEN at' = [at EXCEPT ![m] = "failed"] /\ UNCHANGED <<ahead, tail>>
       ELSE /\ at' = [at EXCEPT ![m] = "waiting"]
            /\ ahead' = [ahead EXCEPT ![m] = Prior(m)]
            /\ tail' = m
    /\ UNCHANGED <<sid, resumes, rotated, cancelled, result,
                   record, minted, known, draining, exits, focused>>

\* The reply is sent, or the error told, and releaseTurn called.
Leave(m) ==
    /\ at[m] \in Ended
    /\ at' = [at EXCEPT ![m] = IF at[m] = "answered" THEN "done" ELSE "told"]
    /\ UNCHANGED <<ahead, sid, resumes, rotated, cancelled, result, tail,
                   record, minted, known, draining, exits, focused>>

\* cancelTurn, from /cancel or the button: only a turn in flight is there to be
\* cancelled.  Its process gets SIGTERM and ends on its own time.
Cancel(m) ==
    /\ m \in Live /\ ~cancelled[m]
    /\ cancelled' = [cancelled EXCEPT ![m] = TRUE]
    /\ UNCHANGED <<at, ahead, sid, resumes, rotated, result, tail,
                   record, minted, known, draining, exits, focused>>

-----------------------------------------------------------------------------
(***************************************************************************)
(* The turn.                                                               *)
(***************************************************************************)

\* Mutants of Free: a cancel lets the next turn in before the process is gone, or
\* the lock is released by an answer alone.
FreeOnCancel(m) == ahead[m] = m \/ at[ahead[m]] \notin {"waiting", "live", "exited"} \/ cancelled[ahead[m]]
FreeOnAnswer(m) == ahead[m] = m \/ at[ahead[m]] \in {"answered", "done"}

\* The turn this one waits for has released the lock.
Free(m) == ahead[m] = m \/ at[ahead[m]] \notin {"waiting", "live", "exited"}

\* Mutant of UseResume: the id of a rotation is resumed like any other.
UseResumeAlways(fresh, again) == ~fresh

\* An id that was just minted has no transcript to resume.
UseResume(fresh, again) == ~fresh /\ ~again

\* ensure and invokeStreaming: the record as it stands, or a fresh one.
Invoke(m, again, current, ids) ==
    LET fresh == current = NoRecord
        used == IF fresh THEN [NoRecord EXCEPT !.sid = ids + 1] ELSE current
    IN /\ record' = used
       /\ minted' = IF fresh THEN ids + 1 ELSE ids
       /\ sid' = [sid EXCEPT ![m] = used.sid]
       /\ resumes' = [resumes EXCEPT ![m] = UseResume(fresh, again)]
       /\ rotated' = [rotated EXCEPT ![m] = again]
       /\ cancelled' = [cancelled EXCEPT ![m] = FALSE]
       /\ at' = [at EXCEPT ![m] = "live"]

Begin(m) ==
    /\ at[m] = "waiting" /\ Free(m)
    /\ Invoke(m, FALSE, record, minted)
    /\ ahead' = [ahead EXCEPT ![m] = m]
    /\ UNCHANGED <<result, tail, known, draining, exits, focused>>

\* The process ends: it knows no transcript to resume, or it answers, or fails.
\* One that fails, or is killed, may have begun its transcript.
ClaudeExits(m) ==
    /\ at[m] = "live"
    /\ at' = [at EXCEPT ![m] = "exited"]
    /\ \/ /\ resumes[m] /\ sid[m] \notin known
          /\ result' = [result EXCEPT ![m] = "not found"] /\ UNCHANGED known
       \/ /\ resumes[m] => sid[m] \in known
          /\ \/ result' = [result EXCEPT ![m] = "ok"] /\ known' = known \cup {sid[m]}
             \/ result' = [result EXCEPT ![m] = "error"] /\ known' \in {known, known \cup {sid[m]}}
    /\ UNCHANGED <<ahead, sid, resumes, rotated, cancelled, tail, record, minted, draining, exits, focused>>

\* rotate
Rotated(from, ids) == [from EXCEPT !.sid = ids + 1]

\* The retry comes first thing after the new id, and it runs at most once.
Recover(m) ==
    /\ at[m] = "exited" /\ ~cancelled[m]
    /\ result[m] = "not found" /\ ~rotated[m]
    /\ Invoke(m, TRUE, Rotated(record, minted), minted + 1)
    /\ result' = [result EXCEPT ![m] = "none"]
    /\ UNCHANGED <<ahead, tail, known, draining, exits, focused>>

\* Mutant of Recorded: the record of the turn's start is written back.
RecordedAsAtStart(m, asked) == [sid |-> sid[m], focus |-> asked]

\* setActiveWorkflow and recordTurn: read again, changed, written.
Recorded(m, asked) == [record EXCEPT !.focus = asked]

\* What a turn knew goes with it.
Forgotten(over) ==
    /\ sid' = [m \in Messages |-> IF m \in over THEN 0 ELSE sid[m]]
    /\ resumes' = [m \in Messages |-> resumes[m] /\ m \notin over]
    /\ rotated' = [m \in Messages |-> rotated[m] /\ m \notin over]
    /\ cancelled' = [m \in Messages |-> cancelled[m] /\ m \notin over]
    /\ result' = [m \in Messages |-> IF m \in over THEN "none" ELSE result[m]]

\* A turn that ends: a cancelled one is booked like an answered one, one that
\* throws is not.  The answer may carry a focus marker.
Settle(m) ==
    /\ at[m] = "exited"
    /\ \/ /\ cancelled[m]
          /\ at' = [at EXCEPT ![m] = "answered"]
          /\ record' = Recorded(m, record.focus) /\ UNCHANGED focused
       \/ /\ ~cancelled[m] /\ result[m] = "ok"
          /\ at' = [at EXCEPT ![m] = "answered"]
          /\ \/ record' = Recorded(m, record.focus) /\ UNCHANGED focused
             \/ \E workflow \in Workflows \cup {"none"} :
                    record' = Recorded(m, workflow) /\ focused' = workflow
       \/ /\ ~cancelled[m] /\ \/ result[m] = "error"
                              \/ result[m] = "not found" /\ rotated[m]
          /\ at' = [at EXCEPT ![m] = "failed"]
          /\ UNCHANGED <<record, focused>>
    /\ Forgotten({m})
    /\ UNCHANGED <<ahead, tail, minted, known, draining, exits>>

-----------------------------------------------------------------------------
(***************************************************************************)
(* Others: a terminal, claude's own upkeep, the signal to stop.            *)
(***************************************************************************)

\* solosquad chief reset, of a session there is.
Reset ==
    /\ record # NoRecord /\ minted < MaxIds
    /\ record' = Rotated(record, minted) /\ minted' = minted + 1
    /\ UNCHANGED <<turn, known, draining, exits, focused>>

\* solosquad workflow focus
Focus ==
    /\ record # NoRecord
    /\ \E workflow \in Workflows \cup {"none"} :
           record' = [record EXCEPT !.focus = workflow] /\ focused' = workflow
    /\ UNCHANGED <<turn, minted, known, draining, exits>>

\* Claude removes old transcripts.
Forget ==
    /\ minted < MaxIds
    /\ \E id \in known : known' = known \ {id}
    /\ UNCHANGED <<turn, record, minted, draining, exits, focused>>

\* SIGTERM: startDrain
Drain ==
    /\ ~draining /\ exits < MaxExits
    /\ draining' = TRUE
    /\ UNCHANGED <<turn, record, minted, known, exits, focused>>

\* The bot exits once nothing is in flight or the wait is over, and is started
\* anew: the lock, the line and the turns were in its memory.
ExitAndStart ==
    /\ draining
    /\ draining' = FALSE /\ exits' = exits + 1
    /\ at' = [m \in Messages |-> IF m \in InFlight THEN "lost" ELSE at[m]]
    /\ tail' = 0
    /\ Forgotten(Messages)
    /\ ahead' = [m \in Messages |-> m]
    /\ UNCHANGED <<record, minted, known, focused>>

-----------------------------------------------------------------------------
Init ==
    /\ at = [m \in Messages |-> "out"]
    /\ ahead = [m \in Messages |-> m]
    /\ sid = [m \in Messages |-> 0]
    /\ resumes = [m \in Messages |-> FALSE] /\ rotated = [m \in Messages |-> FALSE]
    /\ cancelled = [m \in Messages |-> FALSE] /\ result = [m \in Messages |-> "none"]
    /\ tail = 0
    /\ record = NoRecord /\ minted = 0 /\ known = {}
    /\ draining = FALSE /\ exits = 0 /\ focused = "none"

Turn(m) == Acquire(m) \/ Begin(m) \/ ClaudeExits(m) \/ Recover(m) \/ Settle(m) \/ Leave(m)

Next ==
    \/ \E m \in Messages : Enter(m) \/ Turn(m) \/ Cancel(m)
    \/ Reset \/ Focus \/ Forget \/ Drain \/ ExitAndStart

\* The bot runs what is ready, and claude is killed at its time limit.
Fairness == \A m \in Messages : WF_vars(Turn(m))

Spec == Init /\ [][Next]_vars /\ Fairness

-----------------------------------------------------------------------------
TypeOK ==
    /\ at \in [Messages -> {"out", "in", "waiting", "live", "exited"} \cup Ended \cup Gone]
    /\ ahead \in [Messages -> Messages]
    /\ sid \in [Messages -> Nat]
    /\ resumes \in [Messages -> BOOLEAN] /\ rotated \in [Messages -> BOOLEAN]
    /\ cancelled \in [Messages -> BOOLEAN]
    /\ result \in [Messages -> {"none", "ok", "error", "not found"}]
    /\ record \in [sid : Nat, focus : Workflows \cup {"none"}]
    /\ minted \in Nat /\ known \subseteq 1 .. minted
    /\ draining \in BOOLEAN /\ exits \in Nat

\* Two claude processes never write one transcript at a time, across a reset in
\* mid-turn, a cancel, a lost session and its retry (SessionMutex: "so the
\* underlying jsonl transcript stays coherent").
TranscriptsAreSerial ==
    \A m, n \in {k \in Messages : at[k] = "live"} : sid[m] = sid[n] => m = n

\* What a terminal writes into the record while a turn runs, and what a rotation
\* wrote, is not undone when the turn is booked: the session is the one minted
\* last and the focus the one asked for last (rotate, setActiveWorkflow, recordTurn).
NothingUndone == record.sid = minted /\ record.focus = focused

\* A message never fails over its session id, however resets, cancels of first
\* turns, exits and claude's upkeep lose the session: the one retry is enough,
\* and a process that is to make a session gets an id claude does not know
\* (ensure, rotate, invokeWithSessionRecovery).
RecoversAtOnce ==
    \A m \in Messages :
        /\ ~(result[m] = "not found" /\ rotated[m])
        /\ at[m] = "live" /\ ~resumes[m] => sid[m] \notin known

\* Every message the bot takes is answered, or told of its failure, or lost with
\* the bot that exits before: none waits for ever on the lock.
MessagesSettle ==
    \A m \in Messages : at[m] = "in" ~> at[m] \in Gone
=============================================================================
