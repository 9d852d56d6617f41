--------------------------- MODULE ChiefTurnProofs ---------------------------
(***************************************************************************)
(* For any number of messages, cap, ids and exits: one claude process to a *)
(* session at a time, one recovery that cannot fail the same way again,    *)
(* and a session record in which no one's write is undone.                 *)
(***************************************************************************)
EXTENDS ChiefTurn, TLAPS

-----------------------------------------------------------------------------
(***************************************************************************)
(* The inductive invariant.                                                *)
(***************************************************************************)

\* The messages that hold the lock or wait for it.
Holding == {m \in Messages : at[m] \in {"waiting", "live", "exited"}}
Works(m) == at[m] \in {"live", "exited"}

\* Places in line, given to each message as it comes: the ones that hold or
\* wait are apart, the one that may go is the first, and the tail is the last.
InLine(place) ==
    /\ \A m, n \in Holding : place[m] = place[n] => m = n
    /\ \A m \in Holding :
          \/ Free(m) /\ \A n \in Holding : place[m] <= place[n]
          \/ ahead[m] \in Holding /\ place[m] = place[ahead[m]] + 1
    /\ Holding # {} => tail \in Holding /\ \A n \in Holding : place[n] <= place[tail]

Lined == \E place \in [Messages -> Nat] : InLine(place)

\* Whoever another waits for has come to the lock, and so has the tail.
Behind ==
    /\ \A m \in Messages : ahead[m] = m \/ at[ahead[m]] \notin {"out", "in"}
    /\ tail # 0 => at[tail] \notin {"out", "in"}

\* A turn that runs waits for nobody, on an id there is.
Running == \A m \in Messages : Works(m) => ahead[m] = m /\ sid[m] \in 1 .. minted

\* Before the first id there is no record.
Recording == NothingUndone /\ (minted = 0 => record.focus = "none")

Recovering ==
    /\ RecoversAtOnce
    /\ \A m \in Messages : rotated[m] => ~resumes[m] /\ result[m] # "not found"

Types == TypeOK /\ tail \in Messages \cup {0}

TurnInv == Types /\ Lined /\ Behind /\ Running /\ Recording /\ Recovering

-----------------------------------------------------------------------------
\* Of the turns at most one runs.
LEMMA OneRuns ==
    ASSUME TurnInv, NEW m \in Messages, NEW n \in Messages, Works(m), Works(n)
    PROVE  m = n
<1>1. PICK place \in [Messages -> Nat] : InLine(place)
  BY DEF TurnInv, Lined
<1>2. m \in Holding /\ n \in Holding /\ ahead[m] = m /\ ahead[n] = n
  BY DEF TurnInv, Running, Holding, Works
<1>3. place[m] \in Nat /\ place[n] \in Nat
  OBVIOUS
<1>4. place[m] <= place[n] /\ place[n] <= place[m]
  BY <1>1, <1>2, <1>3 DEF InLine
<1>5. place[m] = place[n]
  BY <1>3, <1>4
<1> QED
  BY <1>1, <1>2, <1>5 DEF InLine

LEMMA Typed ==
    ASSUME TurnInv
    PROVE  /\ minted \in Nat /\ known \subseteq 1 .. minted
           /\ sid \in [Messages -> Nat]
           /\ ahead \in [Messages -> Messages]
           /\ result \in [Messages -> {"none", "ok", "error", "not found"}]
<1>1. TypeOK
  BY DEF TurnInv, Types
<1> QED
  BY <1>1 DEF TypeOK

LEMMA Minted == ASSUME TurnInv PROVE minted \in Nat
BY Typed

LEMMA InitTurn == Init => TurnInv
<1> SUFFICES ASSUME Init PROVE TurnInv
  OBVIOUS
<1>1. Types
  BY ChiefAssumption DEF Init, Types, TypeOK, Messages, Ended, Gone, NoRecord
<1>2. Lined
  <2>1. Holding = {}
    BY DEF Init, Holding
  <2>2. InLine([m \in Messages |-> 0])
    BY <2>1 DEF InLine
  <2> QED
    BY <2>2 DEF Lined
<1>3. Behind /\ Running /\ Recording /\ Recovering
  BY DEF Init, Behind, Running, Works, Recording, NothingUndone, NoRecord, Recovering, RecoversAtOnce
<1> QED
  BY <1>1, <1>2, <1>3 DEF TurnInv

\* A step that leaves the line alone.
LEMMA SameLine ==
    ASSUME Lined, UNCHANGED <<ahead, tail>>,
           \A m \in Messages : at'[m] \in {"waiting", "live", "exited"} <=> at[m] \in {"waiting", "live", "exited"},
           ahead \in [Messages -> Messages]
    PROVE  Lined'
<1>1. PICK place \in [Messages -> Nat] : InLine(place)
  BY DEF Lined
<1>2. Holding' = Holding
  BY DEF Holding
<1>3. \A m \in Messages : Free(m)' <=> Free(m)
  BY DEF Free
<1>4. \A m \in Holding : m \in Messages
  BY DEF Holding
<1>5. InLine(place)'
  BY <1>1, <1>2, <1>3, <1>4 DEF InLine
<1> QED
  BY <1>5 DEF Lined

\* A message is refused, comes in or is done with: it is not in line.
LEMMA BesideTurn ==
    ASSUME TurnInv, NEW m \in Messages, Enter(m) \/ Leave(m) \/ Cancel(m)
    PROVE  TurnInv'
<1>1. Types'
  BY DEF TurnInv, Types, TypeOK, Enter, Leave, Cancel, Ended, Gone
<1>2. \A n \in Messages : /\ at'[n] \in {"waiting", "live", "exited"} <=> at[n] \in {"waiting", "live", "exited"}
                          /\ Works(n)' <=> Works(n)
                          /\ at'[n] = "live" <=> at[n] = "live"
  BY DEF TurnInv, Types, TypeOK, Enter, Leave, Cancel, Ended, Works
<1>3. UNCHANGED <<ahead, tail, sid, resumes, rotated, result, minted, known, record, focused>>
  BY DEF Enter, Leave, Cancel
<1>4. Lined'
  BY <1>2, <1>3, SameLine DEF TurnInv, Types, TypeOK
<1>8. Behind'
  <2>1. \A n \in Messages : at[n] \notin {"out", "in"} => at'[n] \notin {"out", "in"}
    BY DEF TurnInv, Types, TypeOK, Enter, Leave, Cancel
  <2> QED
    BY <1>3, <2>1 DEF TurnInv, Types, TypeOK, Behind
<1>5. Running'
  BY <1>2, <1>3 DEF TurnInv, Running
<1>6. Recording'
  BY <1>3 DEF TurnInv, Recording, NothingUndone
<1>7. Recovering'
  BY <1>2, <1>3 DEF TurnInv, Recovering, RecoversAtOnce
<1> QED
  BY <1>1, <1>4, <1>5, <1>6, <1>7, <1>8 DEF TurnInv

-----------------------------------------------------------------------------
\* A message takes the last place.
LEMMA AcquireTurn == ASSUME TurnInv, NEW m \in Messages, Acquire(m) PROVE TurnInv'
<1>1. /\ at[m] = "in"
      /\ UNCHANGED <<sid, resumes, rotated, cancelled, result, minted, known, record, draining, exits, focused>>
      /\ \/ at' = [at EXCEPT ![m] = "failed"] /\ UNCHANGED <<ahead, tail>>
         \/ at' = [at EXCEPT ![m] = "waiting"] /\ ahead' = [ahead EXCEPT ![m] = Prior(m)] /\ tail' = m
  BY DEF Acquire
<1>2. Prior(m) \in Messages /\ (tail # 0 => Prior(m) = tail)
  BY DEF TurnInv, Types, Prior
<1>3. Types'
  <2>1. at' \in [Messages -> {"out", "in", "waiting", "live", "exited"} \cup Ended \cup Gone]
    BY <1>1 DEF TurnInv, Types, TypeOK, Ended
  <2>2. ahead' \in [Messages -> Messages] /\ tail' \in Messages \cup {0}
    <3>1. CASE UNCHANGED <<ahead, tail>>
      BY <3>1 DEF TurnInv, Types, TypeOK
    <3>2. CASE ahead' = [ahead EXCEPT ![m] = Prior(m)] /\ tail' = m
      BY <1>2, <3>2 DEF TurnInv, Types, TypeOK
    <3> QED
      BY <1>1, <3>1, <3>2
  <2> QED
    BY <1>1, <2>1, <2>2 DEF TurnInv, Types, TypeOK
<1>4. \A n \in Messages : at'[n] \in {"live", "exited"} => at'[n] = at[n] /\ ahead'[n] = ahead[n]
  BY <1>1 DEF TurnInv, Types, TypeOK
<1>5. Running' /\ Recording' /\ Recovering'
  BY <1>1, <1>4 DEF TurnInv, Running, Works, Recording, NothingUndone, Recovering, RecoversAtOnce
<1>7. Behind'
  <2>1. \A n \in Messages : n = m \/ at[n] \notin {"out", "in"} => at'[n] \notin {"out", "in"}
    BY <1>1 DEF TurnInv, Types, TypeOK
  <2>2. \A n \in Messages : ahead'[n] = n \/ ahead'[n] = ahead[n] \/ (ahead'[n] = tail /\ tail # 0)
    <3>1. CASE UNCHANGED <<ahead, tail>>
      BY <3>1
    <3>2. CASE ahead' = [ahead EXCEPT ![m] = Prior(m)] /\ tail' = m
      BY <1>2, <3>2 DEF TurnInv, Types, TypeOK, Prior
    <3> QED
      BY <1>1, <3>1, <3>2
  <2>3. \A n \in Messages : ahead'[n] = n \/ at'[ahead'[n]] \notin {"out", "in"}
    BY <2>1, <2>2 DEF TurnInv, Types, TypeOK, Behind
  <2>4. tail' # 0 => at'[tail'] \notin {"out", "in"}
    BY <1>1, <2>1 DEF TurnInv, Types, TypeOK, Behind
  <2> QED
    BY <2>3, <2>4 DEF Behind
<1>6. Lined'
  <2>1. CASE at' = [at EXCEPT ![m] = "failed"] /\ UNCHANGED <<ahead, tail>>
    <3>1. \A n \in Messages : at'[n] \in {"waiting", "live", "exited"} <=> at[n] \in {"waiting", "live", "exited"}
      BY <1>1, <2>1 DEF TurnInv, Types, TypeOK
    <3> QED
      BY <2>1, <3>1, SameLine DEF TurnInv, Types, TypeOK
  <2>2. CASE /\ at' = [at EXCEPT ![m] = "waiting"]
             /\ ahead' = [ahead EXCEPT ![m] = Prior(m)]
             /\ tail' = m
    <3>1. PICK place \in [Messages -> Nat] : InLine(place)
      BY DEF TurnInv, Lined
    <3>2. m \notin Holding /\ Holding' = Holding \cup {m} /\ Holding \subseteq Messages
      <4>1. \A n \in Messages : at'[n] = IF n = m THEN "waiting" ELSE at[n]
        BY <2>2 DEF TurnInv, Types, TypeOK
      <4> QED
        BY <1>1, <4>1 DEF Holding
    <3>3. \A n \in Holding : ahead'[n] = ahead[n] /\ (Free(n) => Free(n)')
      <4>1. \A n \in Holding : n # m /\ ahead'[n] = ahead[n] /\ ahead[n] \in Messages
        BY <2>2, <3>2 DEF TurnInv, Types, TypeOK
      <4>2. \A n \in Holding : ahead[n] # n => ahead[n] # m
        BY <1>1, <3>2, <4>1 DEF TurnInv, Behind
      <4>3. \A n \in Messages : n # m => at'[n] = at[n]
        BY <2>2 DEF TurnInv, Types, TypeOK
      <4> QED
        BY <4>1, <4>2, <4>3 DEF Free
    <3>4. CASE Holding = {}
      <4>1. Free(m)'
        <5>1. ahead'[m] = Prior(m)
          BY <2>2 DEF TurnInv, Types, TypeOK
        <5>2. CASE Prior(m) = m
          BY <5>1, <5>2 DEF Free
        <5>3. CASE Prior(m) # m
          <6>1. Prior(m) \in Messages /\ Prior(m) \notin Holding'
            BY <1>2, <3>2, <3>4, <5>3
          <6> QED
            BY <5>1, <6>1 DEF Free, Holding
        <5> QED
          BY <5>2, <5>3
      <4>2. Holding' = {m} /\ place[m] \in Nat
        BY <3>2, <3>4
      <4>3. \A n \in Holding' : place[m] <= place[n]
        BY <4>2
      <4>4. InLine(place)'
        BY <2>2, <4>1, <4>2, <4>3 DEF InLine
      <4> QED
        BY <4>4 DEF Lined
    <3>5. CASE Holding # {}
      <4>1. tail \in Holding /\ \A n \in Holding : place[n] <= place[tail]
        BY <3>1, <3>5 DEF InLine
      <4>2. ahead'[m] = tail
        <5>1. tail # 0
          BY <3>2, <4>1, ChiefAssumption DEF Messages
        <5> QED
          BY <1>2, <2>2, <5>1 DEF TurnInv, Types, TypeOK
      <4>a. PICK next : next = [place EXCEPT ![m] = place[tail] + 1]
        OBVIOUS
      <4>3. next \in [Messages -> Nat] /\ next[m] = place[tail] + 1
        BY <3>2, <4>1, <4>a
      <4>4. \A n \in Holding : next[n] = place[n] /\ place[n] \in Nat
        BY <3>2, <4>a
      <4>5. \A n \in Holding : next[n] < next[m]
        BY <3>2, <4>1, <4>3, <4>4
      <4>6. \A k, n \in Holding' : next[k] = next[n] => k = n
        <5>1. \A k, n \in Holding : next[k] = next[n] => k = n
          BY <3>1, <4>4 DEF InLine
        <5>2. \A n \in Holding : next[n] \in Nat /\ next[m] \in Nat
          BY <3>2, <4>3
        <5>3. \A n \in Holding : next[n] # next[m]
          BY <4>5, <5>2
        <5> QED
          BY <3>2, <5>1, <5>3
      <4>7. \A k \in Holding' :
               \/ Free(k)' /\ \A n \in Holding' : next[k] <= next[n]
               \/ ahead'[k] \in Holding' /\ next[k] = next[ahead'[k]] + 1
        <5>1. ahead'[m] \in Holding' /\ next[m] = next[ahead'[m]] + 1
          BY <3>2, <4>1, <4>2, <4>3, <4>4
        <5>2. ASSUME NEW k \in Holding
              PROVE  \/ Free(k)' /\ \A n \in Holding' : next[k] <= next[n]
                     \/ ahead'[k] \in Holding' /\ next[k] = next[ahead'[k]] + 1
          <6>1. CASE Free(k) /\ \A n \in Holding : place[k] <= place[n]
            <7>1. \A n \in Holding : next[k] <= next[n]
              BY <4>4, <6>1
            <7>2. next[k] <= next[m]
              BY <4>3, <4>4, <4>5
            <7> QED
              BY <3>2, <3>3, <6>1, <7>1, <7>2
          <6>2. CASE ahead[k] \in Holding /\ place[k] = place[ahead[k]] + 1
            BY <3>2, <3>3, <4>4, <6>2
          <6> QED
            BY <3>1, <6>1, <6>2 DEF InLine
        <5> QED
          BY <3>2, <5>1, <5>2
      <4>8. tail' \in Holding' /\ \A n \in Holding' : next[n] <= next[tail']
        <5>1. \A n \in Holding : next[n] <= next[m]
          BY <3>2, <4>3, <4>5
        <5>2. next[m] <= next[m]
          BY <4>3
        <5> QED
          BY <2>2, <3>2, <5>1, <5>2
      <4>9. InLine(next)'
        BY <4>6, <4>7, <4>8 DEF InLine
      <4> QED
        BY <4>3, <4>9 DEF Lined
    <3> QED
      BY <3>4, <3>5
  <2> QED
    BY <2>1, <2>2 DEF Acquire
<1> QED
  BY <1>3, <1>5, <1>6, <1>7 DEF TurnInv

-----------------------------------------------------------------------------
\* A turn gets its id: the record's, or a new one that claude does not know.
LEMMA InvokeTurn ==
    ASSUME TurnInv, NEW m \in Messages, NEW again \in BOOLEAN, NEW current, NEW ids \in Nat,
           Invoke(m, again, current, ids),
           IF again THEN current = Rotated(record, minted) /\ ids = minted + 1
                    ELSE current = record /\ ids = minted
    PROVE  /\ record' \in [sid : Nat, focus : Workflows \cup {"none"}]
           /\ minted' \in Nat /\ minted <= minted' /\ minted' > 0
           /\ record'.sid = minted' /\ record'.focus = record.focus
           /\ sid' = [sid EXCEPT ![m] = minted']
           /\ \E flag \in BOOLEAN :
                 /\ resumes' = [resumes EXCEPT ![m] = flag]
                 /\ again => ~flag
                 /\ ~flag => minted' \notin known
<1>1. /\ record \in [sid : Nat, focus : Workflows \cup {"none"}] /\ minted \in Nat /\ known \subseteq 1 .. minted
      /\ record.sid = minted /\ (minted = 0 => record.focus = "none")
      /\ sid \in [Messages -> Nat] /\ resumes \in [Messages -> BOOLEAN]
  BY DEF TurnInv, Types, TypeOK, Recording, NothingUndone
<1>2. CASE again
  <2>1. /\ current \in [sid : Nat, focus : Workflows \cup {"none"}]
        /\ current.sid = minted + 1 /\ current.focus = record.focus /\ ids = minted + 1
    BY <1>1, <1>2 DEF Rotated
  <2>2. current # NoRecord
    BY <1>1, <2>1 DEF NoRecord
  <2>3. /\ record' = current /\ minted' = minted + 1 /\ sid' = [sid EXCEPT ![m] = minted + 1]
        /\ resumes' = [resumes EXCEPT ![m] = FALSE]
    BY <1>2, <2>1, <2>2 DEF Invoke, UseResume
  <2>4. minted + 1 \notin known
    BY <1>1
  <2>a. sid' = [sid EXCEPT ![m] = minted']
    BY <2>3
  <2>b. \E flag \in BOOLEAN :
           /\ resumes' = [resumes EXCEPT ![m] = flag]
           /\ again => ~flag
           /\ ~flag => minted' \notin known
    <3>1. FALSE \in BOOLEAN
      OBVIOUS
    <3> QED
      BY <2>3, <2>4, <3>1, Zenon
  <2>c. /\ record' \in [sid : Nat, focus : Workflows \cup {"none"}]
        /\ minted' \in Nat /\ minted <= minted' /\ minted' > 0
        /\ record'.sid = minted' /\ record'.focus = record.focus
    BY <1>1, <2>1, <2>3
  <2> QED
    BY <2>a, <2>b, <2>c
<1>3. CASE ~again /\ record = NoRecord
  <2>1. current = NoRecord /\ ids = minted
    BY <1>3
  <2>2. /\ record' = [NoRecord EXCEPT !.sid = minted + 1] /\ minted' = minted + 1
        /\ sid' = [sid EXCEPT ![m] = minted + 1]
        /\ resumes' = [resumes EXCEPT ![m] = FALSE]
    BY <2>1 DEF Invoke, UseResume, NoRecord
  <2>3. minted + 1 \notin known /\ record.focus = "none"
    BY <1>1, <1>3 DEF NoRecord
  <2>4. record' = [sid |-> minted + 1, focus |-> "none"]
    BY <2>2 DEF NoRecord
  <2>5. minted' = minted + 1 /\ minted \in Nat
    BY <1>1, <2>2
  <2>a. sid' = [sid EXCEPT ![m] = minted']
    BY <2>2
  <2>b. \E flag \in BOOLEAN :
           /\ resumes' = [resumes EXCEPT ![m] = flag]
           /\ again => ~flag
           /\ ~flag => minted' \notin known
    <3>1. FALSE \in BOOLEAN
      OBVIOUS
    <3> QED
      BY <2>2, <2>3, <3>1, Zenon
  <2>c. /\ record' \in [sid : Nat, focus : Workflows \cup {"none"}]
        /\ minted' \in Nat /\ minted <= minted' /\ minted' > 0
        /\ record'.sid = minted' /\ record'.focus = record.focus
    BY <2>3, <2>4, <2>5
  <2> QED
    BY <2>a, <2>b, <2>c
<1>4. CASE ~again /\ record # NoRecord
  <2>1. current = record /\ ids = minted
    BY <1>4
  <2>2. /\ record' = record /\ minted' = minted
        /\ sid' = [sid EXCEPT ![m] = record.sid]
        /\ resumes' = [resumes EXCEPT ![m] = TRUE]
    BY <1>4, <2>1 DEF Invoke, UseResume
  <2>3. minted > 0
    BY <1>1, <1>4 DEF NoRecord
  <2>a. sid' = [sid EXCEPT ![m] = minted']
    BY <1>1, <2>2
  <2>b. \E flag \in BOOLEAN :
           /\ resumes' = [resumes EXCEPT ![m] = flag]
           /\ again => ~flag
           /\ ~flag => minted' \notin known
    <3>1. TRUE \in BOOLEAN
      OBVIOUS
    <3> QED
      BY <1>4, <2>2, <3>1, Zenon
  <2>c. /\ record' \in [sid : Nat, focus : Workflows \cup {"none"}]
        /\ minted' \in Nat /\ minted <= minted' /\ minted' > 0
        /\ record'.sid = minted' /\ record'.focus = record.focus
    BY <1>1, <2>2, <2>3
  <2> QED
    BY <2>a, <2>b, <2>c
<1> QED
  BY <1>2, <1>3, <1>4

\* A turn goes on with an id of its own, whether it begins or is retried.
LEMMA GoesOn ==
    ASSUME TurnInv, NEW m \in Messages, NEW again \in BOOLEAN, NEW current, NEW ids \in Nat,
           Invoke(m, again, current, ids),
           IF again THEN current = Rotated(record, minted) /\ ids = minted + 1
                    ELSE current = record /\ ids = minted,
           at[m] \in {"waiting", "exited"}, Free(m),
           IF again THEN UNCHANGED ahead /\ at[m] = "exited" /\ result' = [result EXCEPT ![m] = "none"]
                    ELSE ahead' = [ahead EXCEPT ![m] = m] /\ UNCHANGED result,
           UNCHANGED <<tail, known, draining, exits, focused>>
    PROVE  TurnInv'
<1>1. PICK flag \in BOOLEAN :
         /\ resumes' = [resumes EXCEPT ![m] = flag]
         /\ again => ~flag
         /\ ~flag => minted' \notin known
  BY InvokeTurn
<1>2. /\ record' \in [sid : Nat, focus : Workflows \cup {"none"}]
      /\ minted' \in Nat /\ minted <= minted' /\ minted' > 0
      /\ record'.sid = minted' /\ record'.focus = record.focus
      /\ sid' = [sid EXCEPT ![m] = minted']
  BY InvokeTurn
<1>3. /\ rotated' = [rotated EXCEPT ![m] = again]
      /\ cancelled' = [cancelled EXCEPT ![m] = FALSE]
      /\ at' = [at EXCEPT ![m] = "live"]
  BY DEF Invoke
<1>4. \A n \in Messages : ahead'[n] = (IF n = m /\ ~again THEN m ELSE ahead[n])
  BY DEF TurnInv, Types, TypeOK
<1>5. ahead'[m] = m
  BY <1>4 DEF TurnInv, Running, Works
<1>6. Types'
  <2>1. /\ at' \in [Messages -> {"out", "in", "waiting", "live", "exited"} \cup Ended \cup Gone]
        /\ cancelled' \in [Messages -> BOOLEAN] /\ rotated' \in [Messages -> BOOLEAN]
        /\ resumes' \in [Messages -> BOOLEAN]
    BY <1>1, <1>3 DEF TurnInv, Types, TypeOK
  <2>2. sid' \in [Messages -> Nat] /\ known \subseteq 1 .. minted'
    <3>1. sid' \in [Messages -> Nat]
      BY <1>2, Typed
    <3>2. known \subseteq 1 .. minted'
      <4>1. known \subseteq 1 .. minted
        BY Typed
      <4> QED
        BY <1>2, <4>1, Minted
    <3> QED
      BY <3>1, <3>2
  <2>3. ahead' \in [Messages -> Messages] /\ result' \in [Messages -> {"none", "ok", "error", "not found"}]
    <3>1. CASE again
      BY <3>1, Typed
    <3>2. CASE ~again
      BY <3>2, Typed
    <3> QED
      BY <3>1, <3>2
  <2> QED
    BY <1>2, <2>1, <2>2, <2>3 DEF TurnInv, Types, TypeOK
<1>7. \A n \in Messages : /\ n # m => at'[n] = at[n]
                          /\ at'[m] = "live"
  BY <1>3 DEF TurnInv, Types, TypeOK
<1>8. Lined'
  <2>1. PICK place \in [Messages -> Nat] : InLine(place)
    BY DEF TurnInv, Lined
  <2>2. Holding' = Holding /\ m \in Holding /\ Holding \subseteq Messages
    BY <1>7 DEF Holding
  <2>3. \A n \in Messages : Free(n) => Free(n)'
    <3>1. ASSUME NEW n \in Messages, n # m, Free(n) PROVE Free(n)'
      <4>1. ahead'[n] = ahead[n] /\ ahead[n] \in Messages
        BY <1>4, <3>1, Typed
      <4>2. ahead[n] = n \/ ahead[n] # m
        BY <3>1 DEF Free
      <4> QED
        BY <1>7, <3>1, <4>1, <4>2 DEF Free
    <3> QED
      BY <1>5, <3>1 DEF Free
  <2>4. ASSUME NEW n \in Holding
        PROVE  \/ Free(n)' /\ \A k \in Holding : place[n] <= place[k]
               \/ ahead'[n] \in Holding /\ place[n] = place[ahead'[n]] + 1
    <3>1. CASE Free(n) /\ \A k \in Holding : place[n] <= place[k]
      BY <2>2, <2>3, <3>1
    <3>2. CASE n # m /\ ahead[n] \in Holding /\ place[n] = place[ahead[n]] + 1
      BY <1>4, <2>2, <3>2
    <3>3. CASE n = m /\ ahead[n] \in Holding /\ place[n] = place[ahead[n]] + 1
      <4>1. ahead[m] # m
        BY <2>2, <3>3
      <4>2. at[ahead[m]] \in {"waiting", "live", "exited"}
        BY <3>3 DEF Holding
      <4> QED
        BY <4>1, <4>2 DEF Free
    <3> QED
      BY <2>1, <3>1, <3>2, <3>3 DEF InLine
  <2>5. InLine(place)'
    BY <2>1, <2>2, <2>4 DEF InLine
  <2> QED
    BY <2>5 DEF Lined
<1>9. Behind'
  <2>1. \A n \in Messages : at[n] \notin {"out", "in"} => at'[n] \notin {"out", "in"}
    BY <1>7
  <2> QED
    BY <1>4, <1>5, <2>1 DEF TurnInv, Types, TypeOK, Behind
<1>10. Running'
  <2>1. ASSUME NEW n \in Messages, n # m, Works(n)' PROVE ahead'[n] = n /\ sid'[n] \in 1 .. minted'
    <3>1. Works(n) /\ ahead'[n] = ahead[n] /\ sid'[n] = sid[n]
      BY <1>2, <1>4, <1>7, <2>1 DEF TurnInv, Types, TypeOK, Works
    <3>2. ahead[n] = n /\ sid[n] \in 1 .. minted
      BY <3>1 DEF TurnInv, Running
    <3>3. minted \in Nat
      BY Typed
    <3> QED
      BY <1>2, <3>1, <3>2, <3>3
  <2>2. sid'[m] \in 1 .. minted'
    <3>1. sid'[m] = minted'
      BY <1>2, Typed
    <3> QED
      BY <1>2, <3>1
  <2> QED
    BY <1>5, <2>1, <2>2 DEF Running
<1>11. Recording'
  BY <1>2 DEF TurnInv, Recording, NothingUndone
<1>12. Recovering'
  <2>1. ASSUME NEW n \in Messages, n # m
        PROVE  /\ rotated'[n] = rotated[n] /\ resumes'[n] = resumes[n] /\ result'[n] = result[n]
               /\ sid'[n] = sid[n] /\ at'[n] = at[n]
    BY <1>1, <1>2, <1>3, <1>7, <2>1 DEF TurnInv, Types, TypeOK
  <2>2. rotated'[m] = again /\ resumes'[m] = flag /\ sid'[m] = minted'
    BY <1>1, <1>2, <1>3 DEF TurnInv, Types, TypeOK
  <2>3. again => result'[m] # "not found"
    BY DEF TurnInv, Types, TypeOK
  <2> QED
    BY <1>1, <2>1, <2>2, <2>3 DEF TurnInv, Recovering, RecoversAtOnce
<1> QED
  BY <1>6, <1>8, <1>9, <1>10, <1>11, <1>12 DEF TurnInv

LEMMA BeginTurn == ASSUME TurnInv, NEW m \in Messages, Begin(m) PROVE TurnInv'
<1>1. minted \in Nat
  BY DEF TurnInv, Types, TypeOK
<1> QED
  BY <1>1, GoesOn DEF Begin

LEMMA RecoverTurn == ASSUME TurnInv, NEW m \in Messages, Recover(m) PROVE TurnInv'
<1>1. minted + 1 \in Nat
  BY Minted
<1>2. Free(m)
  BY DEF Recover, TurnInv, Running, Works, Free
<1> QED
  BY <1>1, <1>2, GoesOn DEF Recover

-----------------------------------------------------------------------------
\* The id of the one that ends becomes known, and no other runs on it.
LEMMA ExitsTurn == ASSUME TurnInv, NEW m \in Messages, ClaudeExits(m) PROVE TurnInv'
<1>1. /\ at[m] = "live" /\ at' = [at EXCEPT ![m] = "exited"]
      /\ UNCHANGED <<ahead, sid, resumes, rotated, cancelled, tail, record, minted, draining, exits, focused>>
  BY DEF ClaudeExits
<1>2. \/ resumes[m] /\ result' = [result EXCEPT ![m] = "not found"] /\ known' = known
      \/ /\ result' = [result EXCEPT ![m] = "ok"] \/ result' = [result EXCEPT ![m] = "error"]
         /\ known' \in {known, known \cup {sid[m]}}
  BY DEF ClaudeExits
<1>3. sid[m] \in 1 .. minted /\ known' \subseteq known \cup {sid[m]}
  BY <1>1, <1>2 DEF TurnInv, Running, Works
<1>4. \A n \in Messages : n # m => at'[n] = at[n] /\ result'[n] = result[n]
  BY <1>1, <1>2, Typed DEF TurnInv, Types, TypeOK
<1>5. at'[m] = "exited" /\ (rotated[m] => result'[m] # "not found")
  <2>1. at'[m] = "exited"
    BY <1>1 DEF TurnInv, Types, TypeOK
  <2>2. CASE resumes[m]
    BY <2>1, <2>2 DEF TurnInv, Recovering
  <2>3. CASE ~resumes[m]
    BY <1>2, <2>1, <2>3, Typed
  <2> QED
    BY <2>2, <2>3
<1>6. Types'
  <2>1. at' \in [Messages -> {"out", "in", "waiting", "live", "exited"} \cup Ended \cup Gone]
    BY <1>1 DEF TurnInv, Types, TypeOK
  <2>2. result' \in [Messages -> {"none", "ok", "error", "not found"}]
    BY <1>2, Typed
  <2>3. known' \subseteq 1 .. minted
    BY <1>3, Typed
  <2> QED
    BY <1>1, <2>1, <2>2, <2>3 DEF TurnInv, Types, TypeOK
<1>7. \A n \in Messages : at'[n] \in {"waiting", "live", "exited"} <=> at[n] \in {"waiting", "live", "exited"}
  BY <1>1, <1>4, <1>5
<1>8. Lined'
  BY <1>1, <1>7, SameLine, Typed DEF TurnInv
<1>9. Behind'
  BY <1>1, <1>4, <1>5, Typed DEF TurnInv, Types, Behind
<1>10. Running'
  BY <1>1, <1>4, <1>5 DEF TurnInv, Running, Works
<1>11. Recording'
  BY <1>1 DEF TurnInv, Recording, NothingUndone
<1>12. Recovering'
  <2>1. ASSUME NEW n \in Messages, at'[n] = "live", ~resumes[n] PROVE sid[n] \notin known'
    <3>1. n # m /\ at[n] = "live"
      BY <1>4, <1>5, <2>1
    <3>2. FALSE
      BY <1>1, <3>1, OneRuns DEF Works
    <3> QED
      BY <3>2
  <2>2. \A n \in Messages : rotated[n] => ~resumes[n] /\ result'[n] # "not found"
    BY <1>4, <1>5 DEF TurnInv, Recovering
  <2> QED
    BY <1>1, <2>1, <2>2 DEF Recovering, RecoversAtOnce
<1> QED
  BY <1>6, <1>8, <1>9, <1>10, <1>11, <1>12 DEF TurnInv

-----------------------------------------------------------------------------
\* The turn leaves the line, and the next in line is the first.
LEMMA LeavesLine ==
    ASSUME TurnInv, NEW m \in Messages, at[m] = "exited", UNCHANGED <<ahead, tail>>,
           at' = [at EXCEPT ![m] = at'[m]], at'[m] \in Ended
    PROVE  Lined'
<1>1. PICK place \in [Messages -> Nat] : InLine(place)
  BY DEF TurnInv, Lined
<1>2. \A n \in Messages : n # m => at'[n] = at[n]
  BY DEF TurnInv, Types, TypeOK
<1>3. at'[m] \notin {"waiting", "live", "exited"} /\ m \in Holding
  BY DEF Ended, Holding
<1>4. Holding' = Holding \ {m} /\ Holding \subseteq Messages
  BY <1>2, <1>3 DEF Holding
<1>5. ahead[m] = m
  BY DEF TurnInv, Running, Works
<1>6. \A n \in Holding : place[m] <= place[n]
  <2>1. place[m] \in Nat
    OBVIOUS
  <2>2. ~(place[m] = place[m] + 1)
    BY <2>1
  <2> QED
    BY <1>1, <1>3, <1>5, <2>2 DEF InLine
<1>7. ASSUME NEW n \in Holding'
      PROVE  \/ Free(n)' /\ \A k \in Holding' : place[n] <= place[k]
             \/ ahead[n] \in Holding' /\ place[n] = place[ahead[n]] + 1
  <2>1. n \in Holding /\ n # m /\ place[n] \in Nat /\ place[m] \in Nat
    BY <1>4, <1>7
  <2>2. place[m] < place[n]
    <3>1. place[m] <= place[n] /\ place[m] # place[n]
      BY <1>1, <1>3, <1>6, <2>1 DEF InLine
    <3> QED
      BY <2>1, <3>1
  <2>3. ahead[n] \in Holding /\ place[n] = place[ahead[n]] + 1
    <3>1. CASE \A k \in Holding : place[n] <= place[k]
      <4>1. place[n] <= place[m]
        BY <1>3, <3>1
      <4> QED
        BY <2>1, <2>2, <4>1
    <3> QED
      BY <1>1, <2>1, <3>1 DEF InLine
  <2>4. CASE ahead[n] = m
    <3>1. Free(n)'
      BY <1>3, <2>4 DEF Free
    <3>2. ASSUME NEW k \in Holding' PROVE place[n] <= place[k]
      <4>1. k \in Holding /\ k # m /\ place[k] \in Nat
        BY <1>4, <3>2
      <4>2. place[m] <= place[k] /\ place[m] # place[k]
        BY <1>1, <1>3, <1>6, <4>1 DEF InLine
      <4> QED
        BY <2>1, <2>3, <2>4, <4>1, <4>2
    <3> QED
      BY <3>1, <3>2
  <2>5. CASE ahead[n] # m
    BY <1>4, <2>3, <2>5
  <2> QED
    BY <2>4, <2>5
<1>8. ASSUME Holding' # {} PROVE tail \in Holding' /\ \A n \in Holding' : place[n] <= place[tail]
  <2>1. tail \in Holding /\ \A n \in Holding : place[n] <= place[tail]
    BY <1>1, <1>3 DEF InLine
  <2>2. PICK n \in Holding' : TRUE
    BY <1>8
  <2>3. tail # m
    <3>1. SUFFICES ASSUME tail = m PROVE FALSE
      OBVIOUS
    <3>2. n \in Holding /\ n # m /\ place[n] \in Nat /\ place[m] \in Nat
      BY <1>4, <2>2
    <3>3. place[n] <= place[m] /\ place[m] <= place[n] /\ place[m] # place[n]
      BY <1>1, <1>3, <1>6, <2>1, <3>1, <3>2 DEF InLine
    <3> QED
      BY <3>2, <3>3
  <2> QED
    BY <1>4, <2>1, <2>3
<1>9. \A k, n \in Holding' : place[k] = place[n] => k = n
  BY <1>1, <1>4 DEF InLine
<1>10. InLine(place)'
  BY <1>7, <1>8, <1>9 DEF InLine
<1> QED
  BY <1>10 DEF Lined

LEMMA SettleTurn == ASSUME TurnInv, NEW m \in Messages, Settle(m) PROVE TurnInv'
<1>1. /\ at[m] = "exited"
      /\ \E how \in Ended : at' = [at EXCEPT ![m] = how]
      /\ UNCHANGED <<ahead, tail, minted, known, draining, exits>>
  BY DEF Settle, Ended
<1>2. \/ \E focus \in Workflows \cup {"none"} :
              record' = [record EXCEPT !.focus = focus] /\ focused' = focus
      \/ record' = [record EXCEPT !.focus = record.focus] /\ focused' = focused
      \/ UNCHANGED <<record, focused>>
  BY DEF Settle, Recorded
<1>3. /\ sid' = [n \in Messages |-> IF n = m THEN 0 ELSE sid[n]]
      /\ resumes' = [n \in Messages |-> resumes[n] /\ n # m]
      /\ rotated' = [n \in Messages |-> rotated[n] /\ n # m]
      /\ cancelled' = [n \in Messages |-> cancelled[n] /\ n # m]
      /\ result' = [n \in Messages |-> IF n = m THEN "none" ELSE result[n]]
  BY DEF Settle, Forgotten
<1>4. at'[m] \in Ended /\ at' = [at EXCEPT ![m] = at'[m]] /\ \A n \in Messages : n # m => at'[n] = at[n]
  BY <1>1 DEF TurnInv, Types, TypeOK
<1>5. sid[m] \in 1 .. minted
  BY <1>1 DEF TurnInv, Running, Works
<1>6. minted > 0
  BY <1>5, Minted
<1>7. record' \in [sid : Nat, focus : Workflows \cup {"none"}] /\ record'.sid = minted /\ record'.focus = focused'
  <2>1. /\ record \in [sid : Nat, focus : Workflows \cup {"none"}]
        /\ record.sid = minted /\ record.focus = focused
    BY DEF TurnInv, Types, TypeOK, Recording, NothingUndone
  <2> QED
    BY <1>2, <2>1
<1>8. Types'
  <2>1. at' \in [Messages -> {"out", "in", "waiting", "live", "exited"} \cup Ended \cup Gone]
    BY <1>4 DEF TurnInv, Types, TypeOK
  <2>2. sid' \in [Messages -> Nat] /\ result' \in [Messages -> {"none", "ok", "error", "not found"}]
    BY <1>3, Typed
  <2>3. /\ resumes' \in [Messages -> BOOLEAN] /\ rotated' \in [Messages -> BOOLEAN]
        /\ cancelled' \in [Messages -> BOOLEAN]
    BY <1>3 DEF TurnInv, Types, TypeOK
  <2> QED
    BY <1>1, <1>7, <2>1, <2>2, <2>3 DEF TurnInv, Types, TypeOK
<1>9. Lined'
  BY <1>1, <1>4, LeavesLine
<1>10. Behind'
  <2>1. \A n \in Messages : at[n] \notin {"out", "in"} => at'[n] \notin {"out", "in"}
    BY <1>4 DEF Ended
  <2> QED
    BY <1>1, <2>1, Typed DEF TurnInv, Types, Behind
<1>11. Running'
  <2>1. \A n \in Messages : Works(n)' => n # m /\ Works(n)
    BY <1>4 DEF Works, Ended
  <2> QED
    BY <1>1, <1>3, <2>1 DEF TurnInv, Running
<1>12. Recording'
  BY <1>1, <1>6, <1>7 DEF Recording, NothingUndone
<1>13. Recovering'
  <2>1. \A n \in Messages : n # m => /\ rotated'[n] = rotated[n] /\ resumes'[n] = resumes[n]
                                     /\ result'[n] = result[n] /\ sid'[n] = sid[n]
    BY <1>3, Typed DEF TurnInv, Types, TypeOK
  <2>2. ~rotated'[m] /\ at'[m] # "live"
    BY <1>3, <1>4 DEF Ended
  <2> QED
    BY <1>1, <1>4, <2>1, <2>2 DEF TurnInv, Recovering, RecoversAtOnce
<1> QED
  BY <1>8, <1>9, <1>10, <1>11, <1>12, <1>13 DEF TurnInv

-----------------------------------------------------------------------------
\* The terminal, claude's upkeep and the signal touch no turn.
LEMMA OthersTurn == ASSUME TurnInv, Reset \/ Focus \/ Forget \/ Drain PROVE TurnInv'
<1>1. UNCHANGED turn
  BY DEF Reset, Focus, Forget, Drain
<1>2. UNCHANGED <<at, ahead, sid, resumes, rotated, cancelled, result, tail>>
  BY <1>1 DEF turn
<1>3. record \in [sid : Nat, focus : Workflows \cup {"none"}] /\ record.sid = minted /\ record.focus = focused
  BY DEF TurnInv, Types, TypeOK, Recording, NothingUndone
<1>4. known' \subseteq known /\ minted' \in {minted, minted + 1}
  BY DEF Reset, Focus, Forget, Drain
<1>5. /\ record' \in [sid : Nat, focus : Workflows \cup {"none"}]
      /\ record'.sid = minted' /\ record'.focus = focused'
      /\ minted' = 0 => record'.focus = "none"
  <2>1. CASE Reset
    BY <1>3, <2>1, Minted DEF Reset, Rotated
  <2>2. CASE Focus
    <3>1. minted # 0
      BY <1>3, <2>2 DEF Focus, NoRecord, TurnInv, Recording
    <3> QED
      BY <1>3, <2>2, <3>1 DEF Focus
  <2>3. CASE Forget \/ Drain
    BY <1>3, <2>3 DEF Forget, Drain, TurnInv, Recording
  <2> QED
    BY <2>1, <2>2, <2>3
<1>6. Types'
  <2>1. known' \subseteq 1 .. minted' /\ minted' \in Nat
    <3>1. known \subseteq 1 .. minted
      BY Typed
    <3> QED
      BY <1>4, <3>1, Minted
  <2>2. draining' \in BOOLEAN /\ exits' \in Nat
    BY DEF TurnInv, Types, TypeOK, Reset, Focus, Forget, Drain
  <2> QED
    BY <1>2, <1>5, <2>1, <2>2 DEF TurnInv, Types, TypeOK
<1>7. Lined'
  BY <1>2, SameLine, Typed DEF TurnInv
<1>8. Behind'
  BY <1>2 DEF TurnInv, Behind
<1>9. Running'
  BY <1>2, <1>4, Minted DEF TurnInv, Running, Works
<1>10. Recording'
  BY <1>5 DEF Recording, NothingUndone
<1>11. Recovering'
  BY <1>2, <1>4 DEF TurnInv, Recovering, RecoversAtOnce
<1> QED
  BY <1>6, <1>7, <1>8, <1>9, <1>10, <1>11 DEF TurnInv

\* The lock, the line and the turns go with the process.
LEMMA ExitTurn == ASSUME TurnInv, ExitAndStart PROVE TurnInv'
<1>1. /\ at' = [m \in Messages |-> IF m \in InFlight THEN "lost" ELSE at[m]]
      /\ tail' = 0 /\ ahead' = [m \in Messages |-> m]
      /\ UNCHANGED <<record, minted, known, focused>>
      /\ draining' = FALSE /\ exits' = exits + 1
  BY DEF ExitAndStart
<1>2. \A m \in Messages : at'[m] \in Gone \cup {"out"}
  BY <1>1 DEF InFlight, Gone
<1>3. /\ sid' = [m \in Messages |-> 0]
      /\ resumes' = [m \in Messages |-> FALSE] /\ rotated' = [m \in Messages |-> FALSE]
      /\ cancelled' = [m \in Messages |-> FALSE] /\ result' = [m \in Messages |-> "none"]
  BY DEF ExitAndStart, Forgotten
<1>4. Types'
  <2>1. at' \in [Messages -> {"out", "in", "waiting", "live", "exited"} \cup Ended \cup Gone]
    BY <1>1, <1>2
  <2>2. exits' \in Nat
    <3>1. exits \in Nat
      BY DEF TurnInv, Types, TypeOK
    <3> QED
      BY <1>1, <3>1
  <2> QED
    BY <1>1, <1>3, <2>1, <2>2 DEF TurnInv, Types, TypeOK
<1>5. Lined'
  <2>1. Holding' = {}
    BY <1>2 DEF Holding, Gone
  <2>2. InLine([m \in Messages |-> 0])'
    BY <2>1 DEF InLine
  <2> QED
    BY <2>2 DEF Lined
<1>6. Behind'
  BY <1>1 DEF Behind
<1>7. Running'
  BY <1>2 DEF Running, Works, Gone
<1>8. Recording'
  BY <1>1 DEF TurnInv, Recording, NothingUndone
<1>9. Recovering'
  BY <1>2, <1>3 DEF Recovering, RecoversAtOnce, Gone
<1> QED
  BY <1>4, <1>5, <1>6, <1>7, <1>8, <1>9 DEF TurnInv

LEMMA StillTurn == ASSUME TurnInv, UNCHANGED vars PROVE TurnInv'
<1>1. /\ UNCHANGED <<at, ahead, sid, resumes, rotated, cancelled, result, tail>>
      /\ UNCHANGED <<record, minted, known, draining, exits, focused>>
  BY DEF vars, turn
<1>2. Types'
  BY <1>1 DEF TurnInv, Types, TypeOK
<1>3. Lined'
  BY <1>1, SameLine, Typed DEF TurnInv
<1>4. Behind' /\ Running' /\ Recording' /\ Recovering'
  BY <1>1 DEF TurnInv, Behind, Running, Works, Recording, NothingUndone, Recovering, RecoversAtOnce
<1> QED
  BY <1>2, <1>3, <1>4 DEF TurnInv

LEMMA StepTurn == TurnInv /\ [Next]_vars => TurnInv'
<1> SUFFICES ASSUME TurnInv, [Next]_vars PROVE TurnInv'
  OBVIOUS
<1>1. ASSUME NEW m \in Messages, Enter(m) \/ Leave(m) \/ Cancel(m) PROVE TurnInv'
  BY <1>1, BesideTurn
<1>2. ASSUME NEW m \in Messages, Acquire(m) PROVE TurnInv'
  BY <1>2, AcquireTurn
<1>3. ASSUME NEW m \in Messages, Begin(m) PROVE TurnInv'
  BY <1>3, BeginTurn
<1>4. ASSUME NEW m \in Messages, ClaudeExits(m) PROVE TurnInv'
  BY <1>4, ExitsTurn
<1>5. ASSUME NEW m \in Messages, Recover(m) PROVE TurnInv'
  BY <1>5, RecoverTurn
<1>6. ASSUME NEW m \in Messages, Settle(m) PROVE TurnInv'
  BY <1>6, SettleTurn
<1>7. CASE Reset \/ Focus \/ Forget \/ Drain
  BY <1>7, OthersTurn
<1>8. CASE ExitAndStart
  BY <1>8, ExitTurn
<1>9. CASE UNCHANGED vars
  BY <1>9, StillTurn
<1> QED
  BY <1>1, <1>2, <1>3, <1>4, <1>5, <1>6, <1>7, <1>8, <1>9 DEF Next, Turn

-----------------------------------------------------------------------------
\* The line, the ids and the record of a session agree, always.
THEOREM TurnHolds == Spec => []TurnInv
BY InitTurn, StepTurn, PTL DEF Spec

\* Every variable has its type.
THEOREM TurnTyped == Spec => []TypeOK
<1>1. TurnInv => TypeOK
  BY DEF TurnInv, Types
<1> QED
  BY <1>1, TurnHolds, PTL

\* Whatever is reset, cancelled, lost or retried, no two claude processes of the
\* bot have one transcript at a time.
THEOREM TranscriptsApart == Spec => []TranscriptsAreSerial
<1>1. TurnInv => TranscriptsAreSerial
  BY OneRuns DEF TranscriptsAreSerial, Works
<1> QED
  BY <1>1, TurnHolds, PTL

\* The record is as it was last written by anyone, however a turn's booking comes
\* between a terminal's writes.
THEOREM NothingIsUndone == Spec => []NothingUndone
<1>1. TurnInv => NothingUndone
  BY DEF TurnInv, Recording
<1> QED
  BY <1>1, TurnHolds, PTL

\* The one retry is enough: its id is one claude cannot miss.
THEOREM OneRetryIsEnough == Spec => []RecoversAtOnce
<1>1. TurnInv => RecoversAtOnce
  BY DEF TurnInv, Recovering
<1> QED
  BY <1>1, TurnHolds, PTL
=============================================================================
