--------------------------- MODULE DevConfirmProofs ---------------------------
(***************************************************************************)
(* For any number of pushes, faults, timeouts and sweep horizons: no push  *)
(* without the owner's approval, one record and one verdict for each time  *)
(* a request is asked, and no waiting request swept.                       *)
(***************************************************************************)
EXTENDS DevConfirm, SequenceTheorems, FiniteSetTheorems, TLAPS

-----------------------------------------------------------------------------
(***************************************************************************)
(* The inductive invariant, one push at a time.                            *)
(***************************************************************************)

LoggedYes(h) == audit[h] # <<>> /\ Last(audit[h]) = "y"

\* A yes on a card, in the log or on file is the owner's; a no on file is logged.
YesIsConsent(h) ==
    /\ card[h] = "approved" => h \in consents
    /\ LoggedYes(h) => h \in consents
    /\ decision[h] = "y" => LoggedYes(h)
    /\ decision[h] = "n" => audit[h] # <<>> /\ ~LoggedYes(h)

\* A controller in flight has no verdict on file, and one that settled is logged.
InFlight(h) ==
    /\ ctl[h] \in {"open", "settled"} => decision[h] = "none"
    /\ ctl[h] = "deciding" => decision[h] = "empty"
    /\ ctl[h] \in {"settled", "deciding"} => audit[h] # <<>>
    /\ bot = "down" => ctl[h] = "none"

\* A request is filled before it is asked, and swept no later than its verdict.
RequestFirst(h) ==
    /\ at[h] \in {"idle", "writing"} =>
        /\ request[h] # "full" /\ posted[h] = 0
        /\ ctl[h] = "none" /\ decision[h] = "none"
    /\ decision[h] # "none" /\ request[h] # "none" =>
        asked[h] >= decided[h] \/ asked[h] > Stale

\* A push that went ahead is over and done with: nobody asks about it again.
Closed(h) ==
    at[h] = "allowed" =>
        /\ LoggedYes(h) /\ ctl[h] = "none"
        /\ decision[h] = "y" \/ request[h] = "none"

\* Every card ends in one record at most, and a request that could be asked once
\* more has been asked no more often than something failed.
Counted(h) ==
    /\ Len(audit[h]) <= posted[h]
    /\ ctl[h] = "open" => Len(audit[h]) < posted[h]
    /\ posted[h] <= faults + 1
    /\ request[h] = "full" /\ ctl[h] = "none" /\ decision[h] = "none" =>
        posted[h] <= faults

\* A waiting hook's request is no older than the hook has been waiting.
InTime(h) ==
    /\ at[h] = "written" => request[h] = "full" /\ asked[h] = 0
    /\ Timeout <= Stale /\ at[h] = "polling" /\ patience[h] > 0 =>
        request[h] = "full" /\ asked[h] + patience[h] <= Timeout

GateOf(h) ==
    YesIsConsent(h) /\ InFlight(h) /\ RequestFirst(h) /\ Closed(h) /\ Counted(h) /\ InTime(h)

GateInv == TypeOK /\ \A h \in Pushes : GateOf(h)

-----------------------------------------------------------------------------
(***************************************************************************)
(* The log and the scan.                                                   *)
(***************************************************************************)

LEMMA AppendLog ==
    ASSUME NEW q \in Seq({"y", "n", "timeout"}), NEW v \in {"y", "n", "timeout"}
    PROVE  /\ Append(q, v) \in Seq({"y", "n", "timeout"}) /\ Append(q, v) # <<>>
           /\ Last(Append(q, v)) = v
           /\ Len(q) \in Nat /\ Len(Append(q, v)) = Len(q) + 1
BY AppendProperties, LenProperties DEF Last

LEMMA ScanIsSeq ==
    ASSUME NEW S \in SUBSET Pushes, NEW q \in SetToSeqs(S)
    PROVE  q \in Seq(Pushes)
<1>1. Cardinality(S) \in Nat
  BY PushesAssumption, FS_Subset, FS_CardinalityType
<1>2. q \in [1 .. Cardinality(S) -> Pushes]
  BY DEF SetToSeqs
<1> QED
  BY <1>1, <1>2, SeqDef

LEMMA LessIsLess ==
    ASSUME NEW k \in Nat, NEW n \in 0 .. k
    PROVE  Less(n) \in 0 .. k /\ (Less(n) > 0 => n = Less(n) + 1)
BY DEF Less

LEMMA OlderAges ==
    ASSUME NEW f, NEW age \in [Pushes -> 0 .. Stale + 1]
    PROVE  /\ Older(f, age) \in [Pushes -> 0 .. Stale + 1]
           /\ \A h \in Pushes :
                Older(f, age)[h] =
                    IF f[h] = "none" \/ age[h] > Stale THEN age[h] ELSE age[h] + 1
BY TimeAssumption DEF Older

-----------------------------------------------------------------------------
(***************************************************************************)
(* The invariant holds initially and every step keeps it.                  *)
(***************************************************************************)

LEMMA GateInit == Init => GateInv
<1> SUFFICES ASSUME Init PROVE GateInv
  OBVIOUS
<1>1. <<>> \in Seq(Pushes) /\ <<>> \in Seq({"y", "n", "timeout"}) /\ Len(<<>>) = 0
  BY EmptySeq
<1>2. TypeOK
  BY <1>1, TimeAssumption DEF Init, TypeOK
<1>3. ASSUME NEW h \in Pushes PROVE GateOf(h)
  BY <1>1 DEF Init, GateOf, YesIsConsent, InFlight, RequestFirst, Closed, Counted, InTime, LoggedYes
<1> QED
  BY <1>2, <1>3 DEF GateInv

LEMMA AskStep ==
    ASSUME GateInv, NEW p \in Pushes, Ask(p)
    PROVE  GateInv'
<1>1. TypeOK'
  BY TimeAssumption DEF GateInv, TypeOK, Ask, Waiting, hooks, files, loop, cards
<1>2. ASSUME NEW h \in Pushes PROVE GateOf(h)'
  <2>1. TypeOK /\ GateOf(h)
    BY DEF GateInv
  <2> QED
    BY <1>1, <2>1 DEF TypeOK, Ask, Waiting, hooks, files, loop, cards, GateOf, YesIsConsent, InFlight, RequestFirst, Closed, Counted, InTime, LoggedYes
<1> QED
  BY <1>1, <1>2 DEF GateInv

LEMMA WriteRequestStep ==
    ASSUME GateInv, NEW p \in Pushes, WriteRequest(p)
    PROVE  GateInv'
<1>1. TypeOK'
  BY TimeAssumption DEF GateInv, TypeOK, WriteRequest, Waiting, hooks, files, loop, cards
<1>2. ASSUME NEW h \in Pushes PROVE GateOf(h)'
  <2>1. TypeOK /\ GateOf(h)
    BY DEF GateInv
  <2> QED
    BY <1>1, <2>1 DEF TypeOK, WriteRequest, Waiting, hooks, files, loop, cards, GateOf, YesIsConsent, InFlight, RequestFirst, Closed, Counted, InTime, LoggedYes
<1> QED
  BY <1>1, <1>2 DEF GateInv

LEMMA StartPollingStep ==
    ASSUME GateInv, NEW p \in Pushes, StartPolling(p)
    PROVE  GateInv'
<1>1. TypeOK'
  BY TimeAssumption DEF GateInv, TypeOK, StartPolling, Waiting, hooks, files, loop, cards
<1>2. ASSUME NEW h \in Pushes PROVE GateOf(h)'
  <2>1. TypeOK /\ GateOf(h)
    BY DEF GateInv
  <2> QED
    BY <1>1, <2>1, TimeAssumption DEF TypeOK, StartPolling, Waiting, hooks, files, loop, cards, GateOf, YesIsConsent, InFlight, RequestFirst, Closed, Counted, InTime, LoggedYes
<1> QED
  BY <1>1, <1>2 DEF GateInv

LEMMA LeaveStep ==
    ASSUME GateInv, NEW p \in Pushes, NEW how \in Exits, Leave(p, how),
           how = "allowed" => decision[p] = "y"
    PROVE  GateInv'
<1>1. TypeOK'
  <2>1. at' \in [Pushes -> {"idle"} \cup Waiting \cup Exits]
    BY DEF GateInv, TypeOK, Leave
  <2>2. patience' \in [Pushes -> 0 .. Timeout]
    BY TimeAssumption DEF GateInv, TypeOK, Leave
  <2> QED
    BY <2>1, <2>2 DEF GateInv, TypeOK, Leave, files, loop, cards
<1>2. ASSUME NEW h \in Pushes PROVE GateOf(h)'
  <2>1. TypeOK /\ GateOf(h)
    BY DEF GateInv
  <2> QED
    BY <1>1, <2>1 DEF TypeOK, Leave, Exits, Waiting, hooks, files, loop, cards, GateOf, YesIsConsent, InFlight, RequestFirst, Closed, Counted, InTime, LoggedYes
<1> QED
  BY <1>1, <1>2 DEF GateInv

LEMMA HookStep ==
    ASSUME GateInv, NEW p \in Pushes, Hook(p)
    PROVE  GateInv'
<1>1. CASE Ask(p)
  BY <1>1, AskStep
<1>2. CASE AskFails(p)
  BY <1>2, LeaveStep DEF AskFails, Exits
<1>3. CASE WriteRequest(p)
  BY <1>3, WriteRequestStep
<1>4. CASE StartPolling(p)
  BY <1>4, StartPollingStep
<1>5. CASE Poll(p)
  BY <1>5, LeaveStep DEF Poll, Exits
<1>6. CASE GiveUp(p)
  BY <1>6, LeaveStep DEF GiveUp, Exits
<1>7. CASE Killed(p)
  BY <1>7, LeaveStep DEF Killed, Exits
<1> QED
  BY <1>1, <1>2, <1>3, <1>4, <1>5, <1>6, <1>7 DEF Hook

LEMMA SweepSweeps ==
    ASSUME TypeOK, Sweep(Stale)
    PROVE  /\ request' \in [Pushes -> {"none", "empty", "full"}]
           /\ decision' \in [Pushes -> {"none", "empty", "y", "n"}]
           /\ asked' \in [Pushes -> 0 .. Stale + 1]
           /\ decided' \in [Pushes -> 0 .. Stale + 1]
           /\ scan' \in Seq(Pushes)
           /\ \A h \in Pushes :
                /\ request'[h] = IF asked[h] > Stale THEN "none" ELSE request[h]
                /\ decision'[h] = IF decided[h] > Stale THEN "none" ELSE decision[h]
                /\ asked'[h] = IF request'[h] = "none" THEN 0 ELSE asked[h]
                /\ decided'[h] = IF decided[h] > Stale THEN 0 ELSE decided[h]
<1>1. request' = [h \in Pushes |-> IF asked[h] > Stale THEN "none" ELSE request[h]]
  BY DEF Sweep
<1>2. asked' = [h \in Pushes |-> IF request'[h] = "none" THEN 0 ELSE asked[h]]
  BY <1>1 DEF Sweep
<1>3. decision' = [h \in Pushes |-> IF decided[h] > Stale THEN "none" ELSE decision[h]]
  BY DEF Sweep
<1>4. decided' = [h \in Pushes |-> IF decided[h] > Stale THEN 0 ELSE decided[h]]
  BY DEF Sweep
<1>5. scan' \in Seq(Pushes)
  BY ScanIsSeq DEF Sweep
<1>6. request' \in [Pushes -> {"none", "empty", "full"}]
  BY <1>1 DEF TypeOK
<1>7. decision' \in [Pushes -> {"none", "empty", "y", "n"}]
  BY <1>3 DEF TypeOK
<1>8. asked' \in [Pushes -> 0 .. Stale + 1]
  BY <1>2, TimeAssumption DEF TypeOK
<1>9. decided' \in [Pushes -> 0 .. Stale + 1]
  BY <1>4, TimeAssumption DEF TypeOK
<1> QED
  BY <1>1, <1>2, <1>3, <1>4, <1>5, <1>6, <1>7, <1>8, <1>9

LEMMA StartStep ==
    ASSUME GateInv, Start
    PROVE  GateInv'
<1>1. TypeOK'
  BY SweepSweeps DEF GateInv, TypeOK, Start, hooks, cards
<1>2. ASSUME NEW h \in Pushes PROVE GateOf(h)'
  <2>1. TypeOK /\ GateOf(h) /\ Sweep(Stale)
    BY DEF GateInv, Start
  <2>2. /\ request'[h] = IF asked[h] > Stale THEN "none" ELSE request[h]
        /\ decision'[h] = IF decided[h] > Stale THEN "none" ELSE decision[h]
        /\ asked'[h] = IF request'[h] = "none" THEN 0 ELSE asked[h]
        /\ decided'[h] = IF decided[h] > Stale THEN 0 ELSE decided[h]
    BY <2>1, SweepSweeps
  <2>3. ctl[h] = "none" /\ UNCHANGED <<hooks, ctl, cards, audit, faults>>
    BY <2>1 DEF Start, GateOf, InFlight
  <2> QED
    BY <2>1, <2>2, <2>3, TimeAssumption
    DEF TypeOK, hooks, cards, GateOf, YesIsConsent, InFlight, RequestFirst, Closed, Counted, InTime, LoggedYes
<1> QED
  BY <1>1, <1>2 DEF GateInv

LEMMA WatchStep ==
    ASSUME GateInv, Watch
    PROVE  GateInv'
<1>1. TypeOK'
  BY DEF GateInv, TypeOK, Watch, Turn, hooks, files, loop, cards
<1>2. ASSUME NEW h \in Pushes PROVE GateOf(h)'
  <2>1. TypeOK /\ GateOf(h)
    BY DEF GateInv
  <2> QED
    BY <1>1, <2>1 DEF TypeOK, Watch, Turn, hooks, files, loop, cards, GateOf, YesIsConsent, InFlight, RequestFirst, Closed, Counted, InTime, LoggedYes
<1> QED
  BY <1>1, <1>2 DEF GateInv

LEMMA HandleStep ==
    ASSUME GateInv, NEW p \in Pushes, Turn, Handle(p),
           scan' \in Seq(Pushes), awaited' \subseteq Pushes, heard' \subseteq Pushes,
           UNCHANGED <<hooks, files, bot, consents, audit, faults>>
    PROVE  GateInv'
<1>1. CASE ~Takes(p)
  <2>1. TypeOK'
    BY <1>1 DEF GateInv, TypeOK, Handle, hooks, files
  <2>2. ASSUME NEW h \in Pushes PROVE GateOf(h)'
    <3>1. GateOf(h) /\ UNCHANGED <<hooks, files, bot, consents, audit, faults>>
      BY DEF GateInv
    <3>2. UNCHANGED <<ctl, timer, card, posted>>
      BY <1>1 DEF Handle
    <3> QED
      BY <3>1, <3>2 DEF hooks, files, GateOf, YesIsConsent, InFlight, RequestFirst, Closed, Counted, InTime, LoggedYes
  <2> QED
    BY <2>1, <2>2 DEF GateInv
<1>2. CASE Takes(p)
  <2>1. /\ ctl' = [ctl EXCEPT ![p] = "open"]
        /\ timer' = [timer EXCEPT ![p] = Timeout]
        /\ card' = [card EXCEPT ![p] = "posting"]
        /\ posted' = [posted EXCEPT ![p] = posted[p] + 1]
    BY <1>2 DEF Handle
  <2>2. ctl' \in [Pushes -> {"none", "open", "settled", "deciding"}]
    BY <2>1 DEF GateInv, TypeOK
  <2>3. card' \in [Pushes -> {"none", "posting", "live", "approved", "rejected"}]
    BY <2>1 DEF GateInv, TypeOK
  <2>4. timer' \in [Pushes -> 0 .. Timeout] /\ posted' \in [Pushes -> Nat]
    BY <2>1, TimeAssumption DEF GateInv, TypeOK
  <2>5. TypeOK'
    BY <2>2, <2>3, <2>4 DEF GateInv, TypeOK, hooks, files
  <2>6. ASSUME NEW h \in Pushes, h # p PROVE GateOf(h)'
    <3>1. GateOf(h) /\ UNCHANGED <<hooks, files, bot, consents, audit, faults>>
      BY DEF GateInv
    <3>2. UNCHANGED <<ctl[h], timer[h], card[h], posted[h]>>
      BY <2>1, <2>6 DEF GateInv, TypeOK
    <3> QED
      BY <3>1, <3>2 DEF hooks, files, GateOf, YesIsConsent, InFlight, RequestFirst, Closed, Counted, InTime, LoggedYes
  <2>7. GateOf(p)'
    <3>1. GateOf(p) /\ UNCHANGED <<hooks, files, bot, consents, audit, faults>> /\ bot # "down"
      BY DEF GateInv, Turn
    <3>2. ctl'[p] = "open" /\ card'[p] = "posting" /\ posted'[p] = posted[p] + 1
      BY <2>1 DEF GateInv, TypeOK
    <3>3. ctl[p] = "none" /\ decision[p] = "none" /\ request[p] = "full"
      BY <1>2 DEF Takes
    <3>4. Len(audit[p]) \in Nat /\ posted[p] \in Nat /\ faults \in Nat
      BY LenProperties DEF GateInv, TypeOK
    <3> QED
      BY <3>1, <3>2, <3>3, <3>4 DEF hooks, files, GateOf, YesIsConsent, InFlight, RequestFirst, Closed, Counted, InTime, LoggedYes
  <2> QED
    BY <2>5, <2>6, <2>7 DEF GateInv
<1> QED
  BY <1>1, <1>2

LEMMA ScanNextStep ==
    ASSUME GateInv, ScanNext
    PROVE  GateInv'
<1>1. scan \in Seq(Pushes) /\ scan # <<>>
  BY DEF GateInv, TypeOK, ScanNext
<1>2. Head(scan) \in Pushes /\ Tail(scan) \in Seq(Pushes)
  BY <1>1, HeadTailProperties
<1> QED
  BY <1>2, HandleStep DEF ScanNext, GateInv, TypeOK

LEMMA HearStep ==
    ASSUME GateInv, NEW p \in Pushes, Hear(p)
    PROVE  GateInv'
BY HandleStep DEF Hear, GateInv, TypeOK

LEMMA SettleStep ==
    ASSUME GateInv, NEW p \in Pushes, Turn, NEW v \in {"y", "n", "timeout"},
           Settle(p, v), v = "y" => card[p] = "approved"
    PROVE  GateInv'
<1>0. /\ audit[p] \in Seq({"y", "n", "timeout"}) /\ audit'[p] = Append(audit[p], v)
      /\ audit'[p] \in Seq({"y", "n", "timeout"}) /\ audit'[p] # <<>>
      /\ Last(audit'[p]) = v /\ Len(audit'[p]) = Len(audit[p]) + 1
      /\ Len(audit[p]) \in Nat
  <2>1. audit[p] \in Seq({"y", "n", "timeout"}) /\ audit'[p] = Append(audit[p], v)
    BY DEF GateInv, TypeOK, Settle
  <2> QED
    BY <2>1, AppendLog
<1>1. TypeOK'
  <2>1. ctl' \in [Pushes -> {"none", "open", "settled", "deciding"}]
    BY DEF GateInv, TypeOK, Settle
  <2>2. timer' \in [Pushes -> 0 .. Timeout]
    BY TimeAssumption DEF GateInv, TypeOK, Settle
  <2>3. audit' \in [Pushes -> Seq({"y", "n", "timeout"})]
    BY <1>0 DEF GateInv, TypeOK, Settle
  <2> QED
    BY <2>1, <2>2, <2>3 DEF GateInv, TypeOK, Settle, hooks, files, loop, cards
<1>2. ASSUME NEW h \in Pushes, h # p PROVE GateOf(h)'
  <2>1. GateOf(h) /\ UNCHANGED <<hooks, files, loop, cards, faults>>
    BY DEF GateInv, Settle
  <2>2. UNCHANGED <<ctl[h], audit[h]>>
    BY <1>2 DEF GateInv, TypeOK, Settle
  <2> QED
    BY <2>1, <2>2 DEF hooks, files, loop, cards, GateOf, YesIsConsent, InFlight, RequestFirst, Closed, Counted, InTime, LoggedYes
<1>3. GateOf(p)'
  <2>1. GateOf(p) /\ UNCHANGED <<hooks, files, loop, cards, faults>> /\ bot # "down"
    BY DEF GateInv, Settle, Turn
  <2>2. ctl[p] = "open" /\ ctl'[p] = "settled"
    BY DEF GateInv, TypeOK, Settle
  <2>3. posted[p] \in Nat
    BY DEF GateInv, TypeOK
  <2> QED
    BY <1>0, <2>1, <2>2, <2>3 DEF hooks, files, loop, cards, GateOf, YesIsConsent, InFlight, RequestFirst, Closed, Counted, InTime, LoggedYes
<1> QED
  BY <1>1, <1>2, <1>3 DEF GateInv

LEMMA CreateDecisionStep ==
    ASSUME GateInv, NEW p \in Pushes, CreateDecision(p)
    PROVE  GateInv'
<1>1. TypeOK'
  BY TimeAssumption DEF GateInv, TypeOK, CreateDecision, hooks, files, loop, cards
<1>2. ASSUME NEW h \in Pushes PROVE GateOf(h)'
  <2>1. TypeOK /\ GateOf(h)
    BY DEF GateInv
  <2> QED
    BY <1>1, <2>1 DEF TypeOK, CreateDecision, hooks, files, loop, cards, GateOf, YesIsConsent, InFlight, RequestFirst, Closed, Counted, InTime, LoggedYes
<1> QED
  BY <1>1, <1>2 DEF GateInv

LEMMA WriteDecisionStep ==
    ASSUME GateInv, NEW p \in Pushes, WriteDecision(p)
    PROVE  GateInv'
<1>1. TypeOK'
  BY TimeAssumption DEF GateInv, TypeOK, WriteDecision, hooks, files, loop, cards
<1>2. ASSUME NEW h \in Pushes PROVE GateOf(h)'
  <2>1. TypeOK /\ GateOf(h)
    BY DEF GateInv
  <2> QED
    BY <1>1, <2>1 DEF TypeOK, WriteDecision, hooks, files, loop, cards, GateOf, YesIsConsent, InFlight, RequestFirst, Closed, Counted, InTime, LoggedYes
<1> QED
  BY <1>1, <1>2 DEF GateInv

LEMMA DecisionFailsStep ==
    ASSUME GateInv, NEW p \in Pushes, DecisionFails(p)
    PROVE  GateInv'
<1>1. TypeOK'
  BY DEF GateInv, TypeOK, DecisionFails, Fault, hooks, files, loop, cards
<1>2. ASSUME NEW h \in Pushes PROVE GateOf(h)'
  <2>1. TypeOK /\ GateOf(h)
    BY DEF GateInv
  <2> QED
    BY <1>1, <2>1 DEF TypeOK, DecisionFails, Fault, hooks, files, loop, cards, GateOf, YesIsConsent, InFlight, RequestFirst, Closed, Counted, InTime, LoggedYes
<1> QED
  BY <1>1, <1>2 DEF GateInv

LEMMA ShowCardStep ==
    ASSUME GateInv, NEW p \in Pushes, NEW from, NEW to \in {"live", "approved", "rejected"},
           ShowCard(p, from, to), consents' = consents \/ consents' = consents \cup {p},
           to = "approved" => p \in consents'
    PROVE  GateInv'
<1>1. TypeOK'
  BY DEF GateInv, TypeOK, ShowCard, hooks, files, loop
<1>2. ASSUME NEW h \in Pushes PROVE GateOf(h)'
  <2>1. TypeOK /\ GateOf(h)
    BY DEF GateInv
  <2> QED
    BY <1>1, <2>1 DEF TypeOK, ShowCard, hooks, files, loop, GateOf, YesIsConsent, InFlight, RequestFirst, Closed, Counted, InTime, LoggedYes
<1> QED
  BY <1>1, <1>2 DEF GateInv

LEMMA CrashStep ==
    ASSUME GateInv, Crash
    PROVE  GateInv'
<1>0. <<>> \in Seq(Pushes)
  BY EmptySeq
<1>1. TypeOK'
  BY <1>0, TimeAssumption DEF GateInv, TypeOK, Crash, Fault, hooks, files
<1>2. ASSUME NEW h \in Pushes PROVE GateOf(h)'
  <2>1. TypeOK /\ GateOf(h)
    BY DEF GateInv
  <2> QED
    BY <1>1, <2>1 DEF TypeOK, Crash, Fault, hooks, files, GateOf, YesIsConsent, InFlight, RequestFirst, Closed, Counted, InTime, LoggedYes
<1> QED
  BY <1>1, <1>2 DEF GateInv

LEMMA TickStep ==
    ASSUME GateInv, Tick
    PROVE  GateInv'
<1>1. /\ asked' = Older(request, asked) /\ decided' = Older(decision, decided)
      /\ asked \in [Pushes -> 0 .. Stale + 1] /\ decided \in [Pushes -> 0 .. Stale + 1]
  BY DEF Tick, GateInv, TypeOK
<1>2. asked' \in [Pushes -> 0 .. Stale + 1] /\ decided' \in [Pushes -> 0 .. Stale + 1]
  BY <1>1, OlderAges
<1>3. patience' \in [Pushes -> 0 .. Timeout] /\ timer' \in [Pushes -> 0 .. Timeout]
  BY TimeAssumption, LessIsLess DEF Tick, GateInv, TypeOK
<1>4. TypeOK'
  BY <1>2, <1>3 DEF GateInv, TypeOK, Tick, loop, cards
<1>5. ASSUME NEW h \in Pushes PROVE GateOf(h)'
  <2>1. GateOf(h) /\ UNCHANGED <<at, request, decision, loop, ctl, cards, audit, faults>>
    BY DEF GateInv, Tick
  <2>2. /\ asked'[h] = IF request[h] = "none" \/ asked[h] > Stale THEN asked[h] ELSE asked[h] + 1
        /\ decided'[h] = IF decision[h] = "none" \/ decided[h] > Stale
                         THEN decided[h] ELSE decided[h] + 1
    BY <1>1, OlderAges
  <2>3. patience'[h] \in 0 .. Timeout /\ (patience'[h] > 0 => patience[h] = patience'[h] + 1)
    BY TimeAssumption, LessIsLess DEF Tick, GateInv, TypeOK
  <2>4. at[h] # "written" /\ at[h] # "writing"
    BY DEF Tick
  <2>5. asked[h] \in Nat /\ decided[h] \in Nat
    BY TimeAssumption DEF GateInv, TypeOK
  <2> QED
    BY <2>1, <2>2, <2>3, <2>4, <2>5, TimeAssumption DEF loop, cards, GateOf, YesIsConsent, InFlight, RequestFirst, Closed, Counted, InTime, LoggedYes
<1> QED
  BY <1>4, <1>5 DEF GateInv

LEMMA BridgeStep ==
    ASSUME GateInv, Bridge
    PROVE  GateInv'
<1>1. CASE Start
  BY <1>1, StartStep
<1>2. CASE Watch
  BY <1>2, WatchStep
<1>3. CASE ScanNext
  BY <1>3, ScanNextStep
<1>4. ASSUME NEW p \in Pushes, Hear(p) PROVE GateInv'
  BY <1>4, HearStep
<1>5. ASSUME NEW p \in Pushes, Resolve(p) PROVE GateInv'
  BY <1>5, SettleStep DEF Resolve
<1>6. ASSUME NEW p \in Pushes, Expire(p) PROVE GateInv'
  BY <1>6, SettleStep DEF Expire
<1>7. ASSUME NEW p \in Pushes, CreateDecision(p) PROVE GateInv'
  BY <1>7, CreateDecisionStep
<1>8. ASSUME NEW p \in Pushes, WriteDecision(p) PROVE GateInv'
  BY <1>8, WriteDecisionStep
<1>9. ASSUME NEW p \in Pushes, DecisionFails(p) PROVE GateInv'
  BY <1>9, DecisionFailsStep
<1> QED
  BY <1>1, <1>2, <1>3, <1>4, <1>5, <1>6, <1>7, <1>8, <1>9 DEF Bridge

LEMMA CardStep ==
    ASSUME GateInv, NEW p \in Pushes, Card(p)
    PROVE  GateInv'
<1>1. CASE Posted(p)
  BY <1>1, ShowCardStep DEF Posted
<1>2. CASE PostFails(p)
  BY <1>2, ShowCardStep DEF PostFails
<1>3. CASE Approve(p)
  BY <1>3, ShowCardStep DEF Approve
<1>4. CASE Reject(p)
  BY <1>4, ShowCardStep DEF Reject
<1>5. CASE CardExpires(p)
  BY <1>5, ShowCardStep DEF CardExpires
<1> QED
  BY <1>1, <1>2, <1>3, <1>4, <1>5 DEF Card

LEMMA StutterStep ==
    ASSUME GateInv, UNCHANGED vars
    PROVE  GateInv'
<1>1. TypeOK'
  BY DEF GateInv, TypeOK, vars, hooks, files, loop, cards
<1>2. ASSUME NEW h \in Pushes PROVE GateOf(h)'
  BY DEF GateInv, vars, hooks, files, loop, cards, GateOf, YesIsConsent, InFlight, RequestFirst, Closed, Counted, InTime, LoggedYes
<1> QED
  BY <1>1, <1>2 DEF GateInv

LEMMA GateNext == GateInv /\ [Next]_vars => GateInv'
<1> SUFFICES ASSUME GateInv, [Next]_vars PROVE GateInv'
  OBVIOUS
<1>1. ASSUME NEW p \in Pushes, Hook(p) PROVE GateInv'
  BY <1>1, HookStep
<1>2. ASSUME NEW p \in Pushes, Card(p) PROVE GateInv'
  BY <1>2, CardStep
<1>3. CASE Bridge
  BY <1>3, BridgeStep
<1>4. CASE Crash
  BY <1>4, CrashStep
<1>5. CASE Tick
  BY <1>5, TickStep
<1>6. CASE UNCHANGED vars
  BY <1>6, StutterStep
<1> QED
  BY <1>1, <1>2, <1>3, <1>4, <1>5, <1>6 DEF Next

\* Every reachable state of the gate satisfies the inductive invariant, whatever the
\* hooks, the owner, the clock and the faults do (dev-confirm-hook.ts and -bridge.ts).
THEOREM GateIsInvariant == Spec => []GateInv
BY GateInit, GateNext, PTL DEF Spec

-----------------------------------------------------------------------------
(***************************************************************************)
(* What follows.                                                           *)
(***************************************************************************)

\* Types: no timer runs below zero or above the timeout, no age is lost count of.
THEOREM TypesHold == Spec => []TypeOK
<1>1. GateInv => TypeOK
  BY DEF GateInv
<1> QED
  BY <1>1, GateIsInvariant, PTL

\* "No approval = no push": a push the hook lets through was approved by the
\* owner and its last audit record says so.
THEOREM NoApprovalNoPush == Spec => []PushedWasApproved
<1>1. GateInv => PushedWasApproved
  BY DEF GateInv, GateOf, Closed, YesIsConsent, LoggedYes, PushedWasApproved
<1> QED
  BY <1>1, GateIsInvariant, PTL

\* "Single audit write": one record at most for each card, and a verdict on file
\* is the one that the log ends with.
THEOREM VerdictsAreLogged == Spec => []DecisionIsAudited
<1>1. GateInv => DecisionIsAudited
  BY DEF GateInv, GateOf, Counted, YesIsConsent, LoggedYes, DecisionIsAudited
<1> QED
  BY <1>1, GateIsInvariant, PTL

\* However the scan and the events of the watch meet, a request is asked once
\* more only after a crash or a decision that could not be written.
THEOREM NoSecondCard == Spec => []AskedOnce
<1>1. GateInv => AskedOnce
  BY DEF GateInv, GateOf, Counted, AskedOnce
<1> QED
  BY <1>1, GateIsInvariant, PTL

\* With a timeout no longer than the sweep's horizon, a restart never deletes the
\* request of a hook that still has time.
THEOREM WaitingIsSpared == Spec => []SweepSparesWaiting
<1>1. GateInv => SweepSparesWaiting
  BY DEF GateInv, GateOf, InTime, SweepSparesWaiting
<1> QED
  BY <1>1, GateIsInvariant, PTL

LEMMA VerdictKept ==
    ASSUME GateInv, [Next]_vars, NEW h \in Pushes, decision[h] \in {"y", "n"}
    PROVE  decision'[h] = decision[h] \/ (decision'[h] = "none" /\ request'[h] = "none")
<1>1. CASE Start
  <2>1. TypeOK /\ Sweep(Stale) /\ RequestFirst(h)
    BY <1>1 DEF GateInv, GateOf, Start
  <2>2. /\ request'[h] = IF asked[h] > Stale THEN "none" ELSE request[h]
        /\ decision'[h] = IF decided[h] > Stale THEN "none" ELSE decision[h]
    BY <2>1, SweepSweeps
  <2> QED
    BY <2>1, <2>2, TimeAssumption DEF TypeOK, RequestFirst
<1>2. ASSUME NEW p \in Pushes, CreateDecision(p) \/ WriteDecision(p)
      PROVE  decision'[h] = decision[h]
  <2>1. h # p
    BY <1>2 DEF GateInv, GateOf, InFlight, CreateDecision, WriteDecision
  <2> QED
    BY <1>2, <2>1 DEF GateInv, TypeOK, CreateDecision, WriteDecision
<1>3. CASE UNCHANGED decision
  BY <1>3
<1>4. ASSUME NEW p \in Pushes, Hook(p) \/ Card(p)
      PROVE  UNCHANGED decision
  BY <1>4 DEF Hook, Ask, AskFails, WriteRequest, StartPolling, Poll, GiveUp, Killed, Leave,
     Card, Posted, PostFails, Approve, Reject, CardExpires, ShowCard, files
<1>5. ASSUME Watch \/ ScanNext \/ Crash \/ Tick \/ UNCHANGED vars
      PROVE  UNCHANGED decision
  BY <1>5 DEF Watch, ScanNext, Crash, Tick, vars, files
<1>6. ASSUME NEW p \in Pushes, Hear(p) \/ Resolve(p) \/ Expire(p) \/ DecisionFails(p)
      PROVE  UNCHANGED decision
  BY <1>6 DEF Hear, Resolve, Expire, Settle, DecisionFails, files
<1> QED
  BY <1>1, <1>2, <1>3, <1>4, <1>5, <1>6 DEF Next, Bridge

\* "Already-resolved request must not re-post": no step rewrites a verdict, and the
\* sweep takes it only when its request is gone too.
THEOREM VerdictIsFinal == Spec => VerdictStands
<1>1. GateInv /\ [Next]_vars =>
        [\A h \in Pushes : decision[h] \in {"y", "n"} =>
            \/ decision'[h] = decision[h]
            \/ decision'[h] = "none" /\ request'[h] = "none"]_vars
  BY VerdictKept
<1> QED
  BY <1>1, GateIsInvariant, PTL DEF Spec, VerdictStands
=============================================================================
