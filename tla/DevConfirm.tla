----------------------------- MODULE DevConfirm -----------------------------
(***************************************************************************)
(* The push-approval gate of the bot: the PreToolUse hook of a claude      *)
(* process (bot/dev-confirm-hook.ts) and the bridge of the bot process     *)
(* (bot/dev-confirm-bridge.ts), talking through the files of one           *)
(* directory, with the controller (bot/dev-confirm.ts) and the card        *)
(* (messenger/discord-approval.ts) between the bridge and the owner.       *)
(*                                                                         *)
(* A file is created empty and then filled, and the other process may look *)
(* in between.  Inside the bot, the code between two awaits is one action. *)
(* Time passes in ticks, each a part of the approval timeout; a timer      *)
(* counts down and may fire late, never early, and a file's age is counted *)
(* until the sweep would take it.                                          *)
(***************************************************************************)
EXTENDS Naturals, Sequences, FiniteSets, SequencesExt

CONSTANTS
    Pushes,      \* hook processes that reach the confirm flow, each with an id of its own
    Timeout,     \* approval_timeout_minutes, which hook and bridge share
    Stale,       \* DEFAULT_STALE_MS
    MaxFaults    \* bound: crashes of the bot and decisions it fails to write

ASSUME PushesAssumption == IsFiniteSet(Pushes)
ASSUME TimeAssumption == Timeout \in Nat /\ Stale \in Nat

VARIABLES
    at,        \* where each hook is
    patience,  \* the time until it gives up polling
    request,   \* <id>.json
    asked,     \* ... and its age
    decision,  \* <id>.decision
    decided,   \* ... and its age
    bot,       \* "down", "starting" (inside start) or "up"
    scan,      \* scanOnce: the ids it has still to handle
    awaited,   \* ... and the one it awaits, if any
    heard,     \* requests with a watch event not yet delivered
    ctl,       \* the controller of each request, in flight while not "none"
    timer,     \* the time until it times out
    card,      \* the card of each request
    audit,     \* dev-confirmations.jsonl: the decisions logged for each request
    consents,  \* history: requests whose card the owner approved
    posted,    \* history: cards posted for each request
    faults     \* history: crashes and failed writes

hooks == <<at, patience>>
files == <<request, asked, decision, decided>>
loop == <<bot, scan, awaited, heard>>
cards == <<card, consents, posted>>
vars == <<hooks, files, loop, ctl, timer, cards, audit, faults>>

Waiting == {"writing", "written", "polling"}
Exits == {"allowed", "blocked", "gone", "failedopen"}

-----------------------------------------------------------------------------
(***************************************************************************)
(* The hook (runHook).                                                     *)
(***************************************************************************)

Ask(h) ==
    /\ at[h] = "idle"
    /\ at' = [at EXCEPT ![h] = "writing"]
    /\ request' = [request EXCEPT ![h] = "empty"]
    /\ asked' = [asked EXCEPT ![h] = 0]
    /\ heard' = IF bot = "up" THEN heard \cup {h} ELSE heard
    /\ UNCHANGED <<patience, decision, decided, bot, scan, awaited, ctl, timer,
                   cards, audit, faults>>

WriteRequest(h) ==
    /\ at[h] = "writing"
    /\ at' = [at EXCEPT ![h] = "written"]
    /\ request' = [request EXCEPT ![h] = "full"]
    /\ asked' = [asked EXCEPT ![h] = 0]
    /\ heard' = IF bot = "up" THEN heard \cup {h} ELSE heard
    /\ UNCHANGED <<patience, decision, decided, bot, scan, awaited, ctl, timer,
                   cards, audit, faults>>

StartPolling(h) ==
    /\ at[h] = "written"
    /\ at' = [at EXCEPT ![h] = "polling"]
    /\ patience' = [patience EXCEPT ![h] = Timeout]
    /\ UNCHANGED <<files, loop, ctl, timer, cards, audit, faults>>

Leave(h, how) ==
    /\ at' = [at EXCEPT ![h] = how]
    /\ patience' = [patience EXCEPT ![h] = 0]
    /\ UNCHANGED <<files, loop, ctl, timer, cards, audit, faults>>

\* The request cannot be created, or not filled: the gate fails open.
AskFails(h) == at[h] \in {"idle", "writing"} /\ Leave(h, "failedopen")

\* Mutant of Poll: whatever is not a plain "n" lets the push proceed.
PollTrusting(h) ==
    /\ at[h] = "polling"
    /\ decision[h] # "none"
    /\ Leave(h, IF decision[h] = "n" THEN "blocked" ELSE "allowed")

\* A decision file is read: all but "y" blocks the push, an empty file too.
Poll(h) ==
    /\ at[h] = "polling"
    /\ decision[h] # "none"
    /\ Leave(h, IF decision[h] = "y" THEN "allowed" ELSE "blocked")

GiveUp(h) ==
    /\ at[h] = "polling"
    /\ decision[h] = "none"
    /\ patience[h] = 0
    /\ Leave(h, "gone")

\* The turn is cancelled or times out, and its claude process goes with the hook:
\* to the files it is as if it had given up.
Killed(h) == at[h] \in Waiting /\ Leave(h, "gone")

-----------------------------------------------------------------------------
(***************************************************************************)
(* The bridge.  A decision goes from the controller to its file with no    *)
(* other turn of the event loop in between.                                *)
(***************************************************************************)

Fault == faults < MaxFaults /\ faults' = faults + 1

MidDecision == \E h \in Pushes : ctl[h] \in {"settled", "deciding"}
Turn == bot # "down" /\ ~MidDecision

\* sweepStale, and the readdir of scanOnce.
Sweep(horizon) ==
    LET left == [h \in Pushes |-> IF asked[h] > horizon THEN "none" ELSE request[h]] IN
    /\ request' = left
    /\ asked' = [h \in Pushes |-> IF left[h] = "none" THEN 0 ELSE asked[h]]
    /\ decision' = [h \in Pushes |-> IF decided[h] > horizon THEN "none" ELSE decision[h]]
    /\ decided' = [h \in Pushes |-> IF decided[h] > horizon THEN 0 ELSE decided[h]]
    /\ scan' \in SetToSeqs({h \in Pushes : left[h] # "none"})

\* Mutant of Start: the sweep takes the present for its horizon.
StartSweepingAll ==
    /\ bot = "down"
    /\ Sweep(0)
    /\ bot' = "starting"
    /\ UNCHANGED <<hooks, awaited, heard, ctl, timer, cards, audit, faults>>

Start ==
    /\ bot = "down"
    /\ Sweep(Stale)
    /\ bot' = "starting"
    /\ UNCHANGED <<hooks, awaited, heard, ctl, timer, cards, audit, faults>>

\* fs.watch: what was written since the readdir is not heard of.
Watch ==
    /\ bot = "starting" /\ Turn
    /\ bot' = "up"
    /\ UNCHANGED <<hooks, files, scan, awaited, heard, ctl, timer, cards, audit, faults>>

\* Mutants of Takes: the in-flight set, or the decision file, is not looked at.
TakesInFlight(h) == decision[h] = "none" /\ request[h] = "full"
TakesDecided(h) == ctl[h] = "none" /\ request[h] = "full"

\* handleId up to its first await.  A torn request is left to a later event.
Takes(h) == ctl[h] = "none" /\ decision[h] = "none" /\ request[h] = "full"

Handle(h) ==
    IF Takes(h)
    THEN /\ ctl' = [ctl EXCEPT ![h] = "open"]
         /\ timer' = [timer EXCEPT ![h] = Timeout]
         /\ card' = [card EXCEPT ![h] = "posting"]
         /\ posted' = [posted EXCEPT ![h] = @ + 1]
    ELSE UNCHANGED <<ctl, timer, card, posted>>

\* One id after the other, each awaited to its decision.
ScanNext ==
    /\ Turn
    /\ awaited = {} /\ scan # <<>>
    /\ scan' = Tail(scan)
    /\ awaited' = {h \in {Head(scan)} : Takes(h)}
    /\ Handle(Head(scan))
    /\ UNCHANGED <<hooks, files, bot, heard, consents, audit, faults>>

Hear(h) ==
    /\ bot = "up" /\ Turn
    /\ h \in heard
    /\ heard' = heard \ {h}
    /\ Handle(h)
    /\ UNCHANGED <<hooks, files, bot, scan, awaited, consents, audit, faults>>

Settle(h, verdict) ==
    /\ ctl[h] = "open"
    /\ ctl' = [ctl EXCEPT ![h] = "settled"]
    /\ timer' = [timer EXCEPT ![h] = 0]
    /\ audit' = [audit EXCEPT ![h] = Append(@, verdict)]
    /\ UNCHANGED <<hooks, files, loop, cards, faults>>

\* controller.resolve, with what the card says
Resolve(h) ==
    /\ Turn
    /\ \/ card[h] = "approved" /\ Settle(h, "y")
       \/ card[h] = "rejected" /\ Settle(h, "n")

\* The controller's timer.
Expire(h) ==
    /\ Turn
    /\ timer[h] = 0
    /\ Settle(h, "timeout")

\* writeDecision: the file is created ...
CreateDecision(h) ==
    /\ ctl[h] = "settled"
    /\ ctl' = [ctl EXCEPT ![h] = "deciding"]
    /\ decision' = [decision EXCEPT ![h] = "empty"]
    /\ decided' = [decided EXCEPT ![h] = 0]
    /\ UNCHANGED <<hooks, request, asked, loop, timer, cards, audit, faults>>

\* Mutant of WriteDecision: a timeout is taken for consent.
WriteDecisionUnlessRejected(h) ==
    /\ ctl[h] = "deciding"
    /\ decision' = [decision EXCEPT ![h] = IF Last(audit[h]) = "n" THEN "n" ELSE "y"]
    /\ decided' = [decided EXCEPT ![h] = 0]
    /\ ctl' = [ctl EXCEPT ![h] = "none"]
    /\ awaited' = awaited \ {h}
    /\ UNCHANGED <<hooks, request, asked, bot, scan, heard, timer, cards, audit, faults>>

\* ... and filled; the request leaves the in-flight set and the scan goes on.
WriteDecision(h) ==
    /\ ctl[h] = "deciding"
    /\ decision' = [decision EXCEPT ![h] = IF Last(audit[h]) = "y" THEN "y" ELSE "n"]
    /\ decided' = [decided EXCEPT ![h] = 0]
    /\ ctl' = [ctl EXCEPT ![h] = "none"]
    /\ awaited' = awaited \ {h}
    /\ UNCHANGED <<hooks, request, asked, bot, scan, heard, timer, cards, audit, faults>>

\* The decision cannot be written, or is cut short: only the console hears of it.
DecisionFails(h) ==
    /\ ctl[h] \in {"settled", "deciding"}
    /\ Fault
    /\ ctl' = [ctl EXCEPT ![h] = "none"]
    /\ awaited' = awaited \ {h}
    /\ UNCHANGED <<hooks, files, bot, scan, heard, timer, cards, audit>>

-----------------------------------------------------------------------------
(***************************************************************************)
(* The card (awaitApproval) and the owner.  The card outlives its          *)
(* controller: nothing takes it down when the controller times out.        *)
(***************************************************************************)

ShowCard(h, from, to) ==
    /\ Turn
    /\ card[h] = from
    /\ card' = [card EXCEPT ![h] = to]
    /\ UNCHANGED <<hooks, files, loop, ctl, timer, posted, audit, faults>>

Posted(h) == ShowCard(h, "posting", "live") /\ UNCHANGED consents
PostFails(h) == ShowCard(h, "posting", "rejected") /\ UNCHANGED consents

Approve(h) == ShowCard(h, "live", "approved") /\ consents' = consents \cup {h}

\* Pressed and confirmed; a rejection that is taken back leaves the card as it was.
Reject(h) == ShowCard(h, "live", "rejected") /\ UNCHANGED consents

\* The collector gives up, no sooner than the controller, which started first.
CardExpires(h) ==
    /\ ctl[h] # "open" \/ timer[h] = 0
    /\ ShowCard(h, "live", "rejected")
    /\ UNCHANGED consents

-----------------------------------------------------------------------------
\* The bot dies: the in-flight set, the timers and the collectors are gone.
Crash ==
    /\ bot # "down"
    /\ Fault
    /\ bot' = "down"
    /\ scan' = <<>>
    /\ awaited' = {}
    /\ heard' = {}
    /\ ctl' = [h \in Pushes |-> "none"]
    /\ timer' = [h \in Pushes |-> 0]
    /\ card' = [h \in Pushes |-> "none"]
    /\ UNCHANGED <<hooks, files, consents, posted, audit>>

\* Mutant of Less: a timer counts on past its end.
LessPastZero(n) == n - 1

Less(n) == IF n = 0 THEN 0 ELSE n - 1
Older(file, age) ==
    [h \in Pushes |-> IF file[h] = "none" \/ age[h] > Stale THEN age[h] ELSE age[h] + 1]

\* A hook's few system calls take no time.
Tick ==
    /\ \A h \in Pushes : at[h] \notin {"writing", "written"}
    /\ patience' = [h \in Pushes |-> Less(patience[h])]
    /\ timer' = [h \in Pushes |-> Less(timer[h])]
    /\ asked' = Older(request, asked)
    /\ decided' = Older(decision, decided)
    /\ UNCHANGED <<at, request, decision, loop, ctl, cards, audit, faults>>

Init ==
    /\ at = [h \in Pushes |-> "idle"]
    /\ patience = [h \in Pushes |-> 0]
    /\ request = [h \in Pushes |-> "none"]
    /\ asked = [h \in Pushes |-> 0]
    /\ decision = [h \in Pushes |-> "none"]
    /\ decided = [h \in Pushes |-> 0]
    /\ bot = "down"
    /\ scan = <<>>
    /\ awaited = {}
    /\ heard = {}
    /\ ctl = [h \in Pushes |-> "none"]
    /\ timer = [h \in Pushes |-> 0]
    /\ card = [h \in Pushes |-> "none"]
    /\ audit = [h \in Pushes |-> <<>>]
    /\ consents = {}
    /\ posted = [h \in Pushes |-> 0]
    /\ faults = 0

Hook(h) ==
    \/ Ask(h) \/ AskFails(h) \/ WriteRequest(h) \/ StartPolling(h)
    \/ Poll(h) \/ GiveUp(h) \/ Killed(h)

Card(h) ==
    \/ Posted(h) \/ PostFails(h) \/ Approve(h) \/ Reject(h) \/ CardExpires(h)

Bridge ==
    \/ Start \/ Watch \/ ScanNext
    \/ \E h \in Pushes :
        \/ Hear(h) \/ Resolve(h) \/ Expire(h)
        \/ CreateDecision(h) \/ WriteDecision(h) \/ DecisionFails(h)

Next ==
    \/ \E h \in Pushes : Hook(h) \/ Card(h)
    \/ Bridge
    \/ Crash
    \/ Tick

Spec == Init /\ [][Next]_vars

-----------------------------------------------------------------------------
(***************************************************************************)
(* Properties.                                                             *)
(***************************************************************************)

\* The type of every variable.
TypeOK ==
    /\ at \in [Pushes -> {"idle"} \cup Waiting \cup Exits]
    /\ request \in [Pushes -> {"none", "empty", "full"}]
    /\ decision \in [Pushes -> {"none", "empty", "y", "n"}]
    /\ patience \in [Pushes -> 0 .. Timeout] /\ timer \in [Pushes -> 0 .. Timeout]
    /\ asked \in [Pushes -> 0 .. Stale + 1] /\ decided \in [Pushes -> 0 .. Stale + 1]
    /\ bot \in {"down", "starting", "up"}
    /\ scan \in Seq(Pushes)
    /\ awaited \subseteq Pushes /\ heard \subseteq Pushes /\ consents \subseteq Pushes
    /\ ctl \in [Pushes -> {"none", "open", "settled", "deciding"}]
    /\ card \in [Pushes -> {"none", "posting", "live", "approved", "rejected"}]
    /\ audit \in [Pushes -> Seq({"y", "n", "timeout"})]
    /\ posted \in [Pushes -> Nat] /\ faults \in Nat

\* "No approval = no push" (dev-confirm-hook.ts): a push the gate lets through
\* was approved by the owner, on its own card, and its last audit record says so,
\* whatever crashed, timed out, was torn or was asked again on the way.
PushedWasApproved ==
    \A h \in Pushes : at[h] = "allowed" =>
        h \in consents /\ audit[h] # <<>> /\ Last(audit[h]) = "y"

\* "Single audit write": a verdict on file is the one the log ends with, and the
\* log has one record for each time the request was asked, no more.
DecisionIsAudited ==
    \A h \in Pushes :
        /\ Len(audit[h]) <= posted[h]
        /\ decision[h] \in {"y", "n"} =>
            audit[h] # <<>> /\ (decision[h] = "y" <=> Last(audit[h]) = "y")

\* The in-flight set "dedupes watch event storms": between the scan and every
\* event of the watch a request is asked once, and again only after a crash or
\* a decision that could not be written.
AskedOnce == \A h \in Pushes : posted[h] <= faults + 1

\* "Already-resolved request must not re-post" (dev-confirm-bridge.test.ts): a
\* verdict is never rewritten, and is swept only together with its request.
VerdictStands ==
    [][\A h \in Pushes : decision[h] \in {"y", "n"} =>
        \/ decision'[h] = decision[h]
        \/ decision'[h] = "none" /\ request'[h] = "none"]_vars

\* The sweep of a restart spares the request of a hook that still has time, so that
\* its card can be posted again, as long as the timeout is no longer than the
\* horizon: half an hour and two hours by default, but nothing keeps it so.
SweepSparesWaiting ==
    Timeout <= Stale => \A h \in Pushes : at[h] = "polling" /\ patience[h] > 0 => request[h] = "full"

\* The bot has nothing to do but wait, for the owner, a timer or an event.
AtRest ==
    /\ bot = "up" /\ heard = {} /\ ~MidDecision
    /\ scan = <<>> \/ awaited # {}
    /\ \A h \in Pushes : card[h] # "posting"

\* "start() scans for leftover <id>.json without a sibling <id>.decision and
\* re-posts them" (dev-confirm-bridge.ts): when the bot is at rest after a
\* restart, no hook waits behind the scan with its card not posted.
LeftoversReposted ==
    AtRest => \A i \in DOMAIN scan :
        at[scan[i]] = "polling" /\ decision[scan[i]] = "none" => ctl[scan[i]] # "none"

\* "decision y -> exit 0 (push proceeds)" (dev-confirm-hook.ts): a hook that took
\* the decision file for a no was not told yes.
ReadsTheDecision == \A h \in Pushes : at[h] = "blocked" => decision[h] # "y"
=============================================================================
