---------------------------- MODULE CompanyProofs ----------------------------
(***************************************************************************)
(* For any number of threads, agents, connections and guarded calls: the   *)
(* guard opens on approvals alone, a card waits for its owner with the     *)
(* agent whose call it stopped, and no budget is passed by more than the   *)
(* activations that were under way.  The cards and the money are proved    *)
(* apart: no card depends on a connection.                                 *)
(***************************************************************************)
EXTENDS Company, SequenceTheorems, FiniteSetTheorems, TLAPS

\* What is granted was approved, also what the stored answer is about to grant.
Granting(t) ==
    /\ grants[t] \subseteq approved[t]
    /\ answer[t] = "yes" => pending[t] # None /\ pending[t].sig \in approved[t]

\* The scheduled agent is the active one, and the card that waits is its own; an
\* activation under way has an answer to the card it began with.
Holding(t) ==
    /\ node[t] = active[t]
    /\ pending[t] # None => pending[t].agent = active[t]
    /\ at[t] = "asking" => pending[t] # None
    /\ at[t] = "busy" /\ pending[t] # None => answer[t] # "none"

CardInv == ThreadTypes /\ \A t \in Threads : Granting(t) /\ Holding(t)

-----------------------------------------------------------------------------
LEMMA CardOf == \A card \in Card : card # None => card.agent \in Agents /\ card.sig \in Sigs
BY DEF Card

\* What the guard lets through was approved.
LEMMA GrantedIsApproved ==
    ASSUME NEW t \in Threads, Granting(t)
    PROVE  Granted(t) \subseteq approved[t]
BY DEF Granting, Granted

LEMMA GrantedAreSigs ==
    ASSUME CardInv, NEW t \in Threads
    PROVE  Granted(t) \in SUBSET Sigs
BY DEF CardInv, ThreadTypes, Granting, Granted, Card

\* Nothing but the thread that moves changes.
Kept(s) ==
    /\ at'[s] = at[s] /\ node'[s] = node[s] /\ active'[s] = active[s] /\ pending'[s] = pending[s]
    /\ grants'[s] = grants[s] /\ answer'[s] = answer[s] /\ approved'[s] = approved[s]

LEMMA KeptHolds ==
    ASSUME NEW s \in Threads, Granting(s), Holding(s), Kept(s)
    PROVE  Granting(s)' /\ Holding(s)'
BY DEF Kept, Granting, Holding

\* A thread whose activation fails keeps its card.
LEMMA FailHolds ==
    ASSUME CardInv, NEW t \in Threads, Fail(t), UNCHANGED approved
    PROVE  CardInv' /\ UNCHANGED pending
<1>1. ThreadTypes'
  BY DEF CardInv, ThreadTypes, Fail
<1>2. Granting(t)' /\ Holding(t)'
  BY DEF CardInv, ThreadTypes, Granting, Holding, Fail
<1>3. \A s \in Threads \ {t} : Kept(s)
  BY DEF CardInv, ThreadTypes, Kept, Fail
<1>4. \A s \in Threads \ {t} : Granting(s)' /\ Holding(s)'
  BY <1>3, KeptHolds DEF CardInv
<1> QED
  BY <1>1, <1>2, <1>4 DEF CardInv, Fail

\* So does one that goes on with a connection, and its answer stays with it.
LEMMA AttemptHolds ==
    ASSUME CardInv, NEW t \in Threads, NEW ex, NEW sp, Attempt(t, ex, sp), UNCHANGED approved,
           pending[t] # None => answer[t] # "none"
    PROVE  CardInv' /\ UNCHANGED pending
<1>1. CASE Fail(t)
  BY <1>1, FailHolds
<1>2. CASE /\ at' = [at EXCEPT ![t] = "busy"]
           /\ UNCHANGED <<node, active, pending, grants, answer>>
  <2>1. ThreadTypes'
    BY <1>2 DEF CardInv, ThreadTypes
  <2>2. Granting(t)' /\ Holding(t)'
    BY <1>2 DEF CardInv, ThreadTypes, Granting, Holding
  <2>3. \A s \in Threads \ {t} : Kept(s)
    BY <1>2 DEF CardInv, ThreadTypes, Kept
  <2>4. \A s \in Threads \ {t} : Granting(s)' /\ Holding(s)'
    BY <2>3, KeptHolds DEF CardInv
  <2> QED
    BY <1>2, <2>1, <2>2, <2>4 DEF CardInv
<1> QED
  BY <1>1, <1>2 DEF Attempt

\* The node's return takes the answered card away and puts up the one of the call
\* it was stopped at; only without a card it hands over.
LEMMA UpdateHolds ==
    ASSUME CardInv, NEW t \in Threads, NEW stop \in Sigs \cup {None},
           NEW colleague \in Handoffs[node[t]] \cup {None},
           Update(t, stop, colleague), UNCHANGED approved
    PROVE  CardInv'
<1> DEFINE card == IF stop \in Sigs \ Granted(t) THEN [agent |-> node[t], sig |-> stop] ELSE None
           next == IF HandsOver(card, colleague) THEN colleague ELSE node[t]
<1>1. card \in Card \cup {None} /\ (card # None => card.agent = node[t])
  BY DEF CardInv, ThreadTypes, Card
<1>2. next \in Agents /\ (card # None => next = node[t])
  BY CompanyAssumption DEF CardInv, ThreadTypes, HandsOver
<1>3. /\ pending' = [pending EXCEPT ![t] = card]
      /\ grants' = [grants EXCEPT ![t] = Granted(t)]
      /\ answer' = [answer EXCEPT ![t] = "none"]
      /\ node' = [node EXCEPT ![t] = next]
      /\ active' = [active EXCEPT ![t] = next]
      /\ at' = [at EXCEPT ![t] = IF card = None /\ colleague = None THEN "idle" ELSE "ready"]
  BY DEF Update, CardInv, Holding
<1> HIDE DEF card, next
<1>4. ThreadTypes'
  BY <1>1, <1>2, <1>3, GrantedAreSigs DEF CardInv, ThreadTypes
<1>5. Granting(t)' /\ Holding(t)'
  BY <1>1, <1>2, <1>3, GrantedIsApproved DEF CardInv, ThreadTypes, Granting, Holding
<1>6. \A s \in Threads \ {t} : Kept(s)
  BY <1>3 DEF CardInv, ThreadTypes, Kept
<1>7. \A s \in Threads \ {t} : Granting(s)' /\ Holding(s)'
  BY <1>6, KeptHolds DEF CardInv
<1> QED
  BY <1>4, <1>5, <1>7 DEF CardInv

-----------------------------------------------------------------------------
LEMMA InitHolds == Init => CardInv
BY CompanyAssumption DEF Init, CardInv, ThreadTypes, Granting, Holding

LEMMA InputHolds ==
    ASSUME CardInv, NEW t \in Threads, Input(t)
    PROVE  CardInv'
BY DEF CardInv, ThreadTypes, Granting, Holding, Input

LEMMA AnswerHolds ==
    ASSUME CardInv, NEW t \in Threads, Answer(t)
    PROVE  CardInv'
<1> PICK verdict \in {"yes", "no"} :
        /\ answer' = [answer EXCEPT ![t] = verdict]
        /\ approved' = IF verdict = "yes"
                       THEN [approved EXCEPT ![t] = @ \cup {pending[t].sig}]
                       ELSE approved
  BY DEF Answer
<1>1. pending[t] \in Card /\ pending[t] # None
  BY DEF Answer, CardInv, ThreadTypes, Holding
<1>2. pending[t].sig \in Sigs
  BY <1>1, CardOf
<1>3. approved' \in [Threads -> SUBSET Sigs] /\ approved[t] \subseteq approved'[t]
      /\ (verdict = "yes" => pending[t].sig \in approved'[t])
  BY <1>2 DEF CardInv, ThreadTypes
<1>4. ThreadTypes'
  BY <1>3 DEF Answer, CardInv, ThreadTypes
<1>5. Granting(t)' /\ Holding(t)'
  BY <1>1, <1>3 DEF Answer, CardInv, ThreadTypes, Granting, Holding
<1>6. \A s \in Threads \ {t} : Kept(s)
  BY DEF Answer, CardInv, ThreadTypes, Kept
<1>7. \A s \in Threads \ {t} : Granting(s)' /\ Holding(s)'
  BY <1>6, KeptHolds DEF CardInv
<1> QED
  BY <1>4, <1>5, <1>7 DEF CardInv

LEMMA BeginHolds ==
    ASSUME CardInv, NEW t \in Threads, Begin(t)
    PROVE  CardInv' /\ UNCHANGED pending
<1>1. CASE Asks(t) /\ at' = [at EXCEPT ![t] = "asking"] /\ UNCHANGED <<node, active, pending, grants, answer>>
  BY <1>1 DEF Begin, Asks, CardInv, ThreadTypes, Granting, Holding
<1>2. CASE ~Asks(t) /\ Attempt(t, {}, spend)
  <2>1. pending[t] # None => answer[t] # "none"
    BY <1>2 DEF Asks, CardInv, Holding
  <2> QED
    BY <1>2, <2>1, AttemptHolds DEF Begin
<1> QED
  BY <1>1, <1>2 DEF Begin

\* An activation that ends had an answer to its card, if there was one.
LEMMA FinishHolds ==
    ASSUME CardInv, NEW t \in Threads, NEW c \in Conns, Finish(t, c)
    PROVE  /\ CardInv'
           /\ pending[t] # None => answer[t] # "none"
           /\ \A s \in Threads \ {t} : pending'[s] = pending[s]
<1>1. pending[t] # None => answer[t] # "none"
  BY DEF Finish, Streams, CardInv, Holding
<1>2. UNCHANGED approved
  BY DEF Finish
<1>3. CASE Attempt(t, excluded[t] \cup {c}, spend')
  BY <1>1, <1>2, <1>3, AttemptHolds
<1>4. CASE Fail(t)
  BY <1>1, <1>2, <1>4, FailHolds
<1>5. ASSUME NEW stop \in Sigs \cup {None}, NEW colleague \in Handoffs[node[t]] \cup {None},
             Update(t, stop, colleague)
      PROVE  CardInv' /\ \A s \in Threads \ {t} : pending'[s] = pending[s]
  <2>1. \A s \in Threads \ {t} : pending'[s] = pending[s]
    BY <1>5 DEF Update, CardInv, ThreadTypes
  <2> QED
    BY <1>2, <1>5, <2>1, UpdateHolds
<1> QED
  BY <1>1, <1>3, <1>4, <1>5 DEF Finish

LEMMA AbortHolds ==
    ASSUME CardInv, NEW t \in Threads, Abort(t)
    PROVE  CardInv' /\ UNCHANGED pending
BY FailHolds DEF Abort

LEMMA CrashHolds ==
    ASSUME CardInv, Crash
    PROVE  CardInv'
BY DEF CardInv, ThreadTypes, Granting, Holding, Crash

LEMMA RestHolds ==
    ASSUME CardInv, UNCHANGED <<graph, approved>>
    PROVE  CardInv'
BY DEF CardInv, ThreadTypes, Granting, Holding, graph

LEMMA StepHolds == CardInv /\ [Next]_vars => CardInv'
<1> SUFFICES ASSUME CardInv, [Next]_vars PROVE CardInv'
  OBVIOUS
<1>1. ASSUME NEW t \in Threads, Input(t) PROVE CardInv'
  BY <1>1, InputHolds
<1>2. ASSUME NEW t \in Threads, Answer(t) PROVE CardInv'
  BY <1>2, AnswerHolds
<1>3. ASSUME NEW t \in Threads, Begin(t) PROVE CardInv'
  BY <1>3, BeginHolds
<1>4. ASSUME NEW t \in Threads, NEW c \in Conns, Finish(t, c) PROVE CardInv'
  BY <1>4, FinishHolds
<1>5. ASSUME NEW t \in Threads, Abort(t) PROVE CardInv'
  BY <1>5, AbortHolds
<1>6. CASE Crash
  BY <1>6, CrashHolds
<1>7. CASE UNCHANGED <<graph, approved>>
  BY <1>7, RestHolds
<1>8. ASSUME NEW t \in Threads, RateLimited(t) PROVE UNCHANGED <<graph, approved>>
  BY <1>8 DEF RateLimited
<1>9. (\E c \in Conns : Reset(c)) \/ NewMonth \/ UNCHANGED vars => UNCHANGED <<graph, approved>>
  BY DEF Reset, NewMonth, vars
<1> QED
  BY <1>1, <1>2, <1>3, <1>4, <1>5, <1>6, <1>7, <1>8, <1>9 DEF Next, Activation

\* The cards of every thread agree with its agents and its grants, always.
THEOREM CardsHold == Spec => []CardInv
BY InitHolds, StepHolds, PTL DEF Spec

\* However declines, failures, restarts and handoffs come between, a guarded call
\* is let through only where the owner approved it on that thread.
THEOREM GuardIsTheOwners == Spec => []GuardOpensOnApproval
<1>1. CardInv => GuardOpensOnApproval
  BY GrantedIsApproved DEF CardInv, GuardOpensOnApproval
<1> QED
  BY <1>1, CardsHold, PTL

\* The card that waits is the active agent's, the one that is run next.
THEOREM CardsAgent == Spec => []CardIsItsAgents
<1>1. CardInv => CardIsItsAgents
  BY DEF CardInv, Holding, CardIsItsAgents
<1> QED
  BY <1>1, CardsHold, PTL

LEMMA StepWaits ==
    ASSUME CardInv, [Next]_vars, NEW t \in Threads, pending[t] # None, pending'[t] # pending[t]
    PROVE  answer[t] # "none"
<1>1. ASSUME NEW s \in Threads, NEW c \in Conns, Finish(s, c) PROVE answer[t] # "none"
  BY <1>1, FinishHolds
<1>2. ASSUME NEW s \in Threads, Begin(s) \/ Abort(s) PROVE UNCHANGED pending
  BY <1>2, BeginHolds, AbortHolds
<1>3. ASSUME NEW s \in Threads, Input(s) \/ Answer(s) \/ RateLimited(s) PROVE UNCHANGED pending
  BY <1>3 DEF Input, Answer, RateLimited, graph
<1>4. (\E c \in Conns : Reset(c)) \/ NewMonth \/ Crash \/ UNCHANGED vars => UNCHANGED pending
  BY DEF Reset, NewMonth, Crash, vars, graph
<1> QED
  BY <1>1, <1>2, <1>3, <1>4 DEF Next, Activation

\* A card goes by the owner's decision alone.
THEOREM CardsWait == Spec => CardWaitsForTheOwner
<1>1. CardInv /\ [Next]_vars =>
        [\A t \in Threads : pending[t] # None /\ pending'[t] # pending[t] => answer[t] # "none"]_vars
  BY StepWaits
<1> QED
  BY <1>1, CardsHold, PTL DEF Spec, CardWaitsForTheOwner

-----------------------------------------------------------------------------
(***************************************************************************)
(* The router's lines and the money.                                       *)
(***************************************************************************)

\* A line in which nobody stands twice.
Apart(s) == \A i, j \in DOMAIN s : s[i] = s[j] => i = j

\* What a connection may be charged for at most, and what it has spent and owes.
Most(c) == Budget[c] + MaxCost * Cardinality(Threads)
Owes(paid, queue) == paid + MaxCost * Len(queue)

LineHolds(c, queue, paid) ==
    /\ Apart(queue)
    /\ queue # <<>> => Budget[c] > 0
    /\ Owes(paid, queue) < Most(c)

RouterInv == RouterTypes /\ \A c \in Conns : LineHolds(c, line[c], spend[c])

LEMMA Lengths ==
    ASSUME NEW S, NEW s \in Seq(S)
    PROVE  Len(s) \in Nat /\ DOMAIN s = 1 .. Len(s) /\ \A i \in DOMAIN s : s[i] \in S
BY LenProperties, ElementOfSeq

\* A line is no longer than the threads that may stand in it.
LEMMA LineLength ==
    ASSUME NEW S, IsFiniteSet(S), NEW s \in Seq(S), Apart(s)
    PROVE  Len(s) <= Cardinality(S)
<1>1. Len(s) \in Nat /\ DOMAIN s = 1 .. Len(s) /\ \A i \in DOMAIN s : s[i] \in S
  BY Lengths
<1> DEFINE f == [i \in 1 .. Len(s) |-> s[i]]
<1>2. f \in Injection(1 .. Len(s), S)
  BY <1>1 DEF Apart, Injection, IsInjective
<1>3. Cardinality(1 .. Len(s)) = Len(s)
  BY <1>1, FS_Interval
<1> HIDE DEF f
<1> QED
  BY <1>2, <1>3, FS_Injection

\* Who leaves a line was one place of it, and the others keep their order.
LEMMA WithoutOne ==
    ASSUME NEW s \in Seq(Threads), Apart(s), NEW t \in Threads, NEW rest, rest = Without(s, t)
    PROVE  /\ rest \in Seq(Threads \ {t}) /\ Apart(rest)
           /\ Len(rest) <= Len(s)
           /\ t \in ToSet(s) => Len(rest) = Len(s) - 1
<1>1. Len(s) \in Nat /\ DOMAIN s = 1 .. Len(s) /\ \A i \in DOMAIN s : s[i] \in Threads
  BY Lengths
<1>2. CASE t \notin ToSet(s)
  <2>1. rest = s /\ \A i \in DOMAIN s : s[i] \in Threads \ {t}
    BY <1>1, <1>2 DEF Without, ToSet
  <2>2. s \in Seq(Threads \ {t})
    BY <1>1, <2>1, SeqDef
  <2>3. Len(rest) = Len(s) /\ Len(s) <= Len(s)
    BY <1>1, <2>1
  <2>4. rest \in Seq(Threads \ {t}) /\ Apart(rest)
    BY <2>1, <2>2
  <2> QED
    BY <1>2, <2>3, <2>4
<1>3. CASE t \in ToSet(s)
  <2> DEFINE k == Place(s, t)
             front == SubSeq(s, 1, k - 1)
             back == SubSeq(s, k + 1, Len(s))
  <2> PICK n \in Nat : n = Len(s)
    BY <1>1
  <2>1. k \in 1 .. n /\ s[k] = t
    BY <1>1, <1>3 DEF Place, ToSet
  <2>2. rest = front \o back
    BY <1>3 DEF Without, RemoveAt
  <2> HIDE DEF k
  <2>3. \A i \in DOMAIN s : i # k => s[i] \in Threads \ {t}
    BY <1>1, <2>1 DEF Apart
  <2>4. /\ front \in Seq(Threads \ {t}) /\ Len(front) = k - 1
        /\ \A i \in 1 .. k - 1 : front[i] = s[i]
    <3>1. \A i \in 1 .. k - 1 : s[i] \in Threads \ {t}
      BY <1>1, <2>1, <2>3
    <3>2. /\ front \in Seq(Threads \ {t})
          /\ Len(front) = IF 1 <= k - 1 THEN k - 1 - 1 + 1 ELSE 0
          /\ \A i \in 1 .. k - 1 - 1 + 1 : front[i] = s[1 + i - 1]
      BY <2>1, <3>1, SubSeqProperties
    <3> HIDE DEF front
    <3> QED
      BY <1>1, <2>1, <3>2
  <2>5. /\ back \in Seq(Threads \ {t}) /\ Len(back) = n - k
        /\ \A i \in 1 .. n - k : back[i] = s[k + i]
    <3>1. \A i \in k + 1 .. n : s[i] \in Threads \ {t}
      BY <1>1, <2>1, <2>3
    <3>2. /\ back \in Seq(Threads \ {t})
          /\ Len(back) = IF k + 1 <= n THEN n - (k + 1) + 1 ELSE 0
          /\ \A i \in 1 .. n - (k + 1) + 1 : back[i] = s[k + 1 + i - 1]
      BY <1>1, <2>1, <3>1, SubSeqProperties
    <3> HIDE DEF back
    <3>3. Len(back) = n - k
      BY <1>1, <2>1, <3>2
    <3>4. \A i \in 1 .. n - k : i \in 1 .. n - (k + 1) + 1 /\ k + 1 + i - 1 = k + i
      BY <1>1, <2>1
    <3>5. \A i \in 1 .. n - k : back[i] = s[k + i]
      BY <3>2, <3>4
    <3> QED
      BY <3>2, <3>3, <3>5
  <2> HIDE DEF front, back
  <2>6. /\ rest \in Seq(Threads \ {t}) /\ Len(rest) = Len(front) + Len(back)
        /\ \A i \in 1 .. Len(front) + Len(back) :
              rest[i] = IF i <= Len(front) THEN front[i] ELSE back[i - Len(front)]
    BY <2>2, <2>4, <2>5, ConcatProperties
  <2>7. Len(rest) = n - 1
    BY <1>1, <2>1, <2>4, <2>5, <2>6
  <2>8. DOMAIN rest = 1 .. n - 1
    BY <2>6, <2>7, Lengths
  <2>9. \A i \in 1 .. n - 1 :
           /\ i < k => rest[i] = s[i]
           /\ i >= k => rest[i] = s[i + 1]
    <3>0. \A i \in 1 .. n - 1 : i < k => i \in 1 .. Len(front) + Len(back) /\ i <= Len(front) /\ i \in 1 .. k - 1
      BY <2>1, <2>4, <2>5
    <3>1. \A i \in 1 .. n - 1 : i < k => rest[i] = s[i]
      BY <2>4, <2>6, <3>0
    <3>2. \A i \in 1 .. n - 1 : i >= k => rest[i] = back[i - (k - 1)]
      BY <1>1, <2>1, <2>4, <2>5, <2>6
    <3>3. \A i \in 1 .. n - 1 : i >= k => i - (k - 1) \in 1 .. n - k /\ k + (i - (k - 1)) = i + 1
      BY <1>1, <2>1
    <3>4. \A i \in 1 .. n - 1 : i >= k => back[i - (k - 1)] = s[i + 1]
      BY <2>5, <3>3
    <3> QED
      BY <3>1, <3>2, <3>4
  <2>10. ASSUME NEW i \in 1 .. n - 1, NEW j \in 1 .. n - 1, rest[i] = rest[j]
         PROVE  i = j
    <3>1. \A x, y \in 1 .. n : s[x] = s[y] => x = y
      BY <1>1 DEF Apart
    <3>2. i \in 1 .. n /\ i + 1 \in 1 .. n /\ j \in 1 .. n /\ j + 1 \in 1 .. n
      BY <1>1
    <3> QED
      BY <1>1, <2>1, <2>9, <2>10, <3>1, <3>2
  <2>11. Apart(rest)
    BY <2>8, <2>10 DEF Apart
  <2>12. Len(rest) = Len(s) - 1 /\ Len(rest) <= Len(s)
    BY <2>1, <2>7
  <2> QED
    BY <2>6, <2>11, <2>12
<1> QED
  BY <1>2, <1>3

LEMMA RouterTyped ==
    ASSUME RouterInv, NEW c \in Conns
    PROVE  /\ line[c] \in Seq(Threads) /\ Apart(line[c]) /\ Len(line[c]) \in Nat
           /\ spend[c] \in Nat /\ Budget[c] \in Nat /\ Most(c) \in Nat
           /\ MaxCost \in Nat /\ Cardinality(Threads) \in Nat \ {0}
<1>1. line[c] \in Seq(Threads) /\ Apart(line[c]) /\ spend[c] \in Nat
  BY DEF RouterInv, RouterTypes, LineHolds
<1>2. Budget[c] \in Nat /\ MaxCost \in Nat
  BY CompanyAssumption
<1>3. Cardinality(Threads) \in Nat \ {0}
  BY CompanyAssumption, FS_CardinalityType, FS_EmptySet
<1> QED
  BY <1>1, <1>2, <1>3, Lengths DEF Most

\* A shorter line owes no more, and an activation that is booked no more than before.
LEMMA OwesLess ==
    ASSUME NEW m \in Nat, NEW short \in Nat, NEW long \in Nat, short <= long
    PROVE  m * short \in Nat /\ m * long \in Nat /\ m * short <= m * long
<1>1. PICK d \in Nat : long = short + d
  <2>1. long - short \in Nat /\ long = short + (long - short)
    OBVIOUS
  <2> QED
    BY <2>1
<1>2. m * short \in Nat /\ m * d \in Nat
  OBVIOUS
<1>3. m * long = m * short + m * d
  BY <1>1
<1> QED
  BY <1>2, <1>3

LEMMA OwesBooked ==
    ASSUME NEW m \in Nat, NEW k \in Nat \ {0}
    PROVE  m * (k - 1) \in Nat /\ m * k = m * (k - 1) + m
OBVIOUS

LEMMA BooksWithin ==
    ASSUME NEW paid \in Nat, NEW m \in Nat, NEW rest \in Nat, NEW most \in Nat, NEW cost \in 0 .. m,
           paid + (rest + m) < most
    PROVE  paid + cost + rest < most
OBVIOUS

\* The lines after a thread left them, for whatever is spent within bounds.
LEMMA LeaveLine ==
    ASSUME RouterInv, NEW t \in Threads, NEW c \in Conns
    PROVE  /\ Leave(t)[c] \in Seq(Threads \ {t}) /\ Leave(t)[c] \in Seq(Threads)
           /\ Apart(Leave(t)[c])
           /\ Leave(t)[c] # <<>> => Budget[c] > 0
           /\ Owes(spend[c], Leave(t)[c]) < Most(c)
           /\ t \in ToSet(line[c]) =>
                 \A cost \in 0 .. MaxCost : Owes(spend[c] + cost, Leave(t)[c]) < Most(c)
<1> PICK rest : rest = Leave(t)[c]
  OBVIOUS
<1>1. rest = Without(line[c], t)
  BY DEF Leave
<1>2. /\ rest \in Seq(Threads \ {t}) /\ Apart(rest) /\ Len(rest) <= Len(line[c])
      /\ t \in ToSet(line[c]) => Len(rest) = Len(line[c]) - 1
  BY <1>1, RouterTyped, WithoutOne
<1>3. rest \in Seq(Threads) /\ Len(rest) \in Nat
  BY <1>2, Lengths, SeqMonotonic
<1>4. rest # <<>> => line[c] # <<>>
  BY <1>2, <1>3, RouterTyped, EmptySeq
<1>5. Owes(spend[c], line[c]) < Most(c) /\ (line[c] # <<>> => Budget[c] > 0)
  BY DEF RouterInv, LineHolds
<1>6. Owes(spend[c], rest) < Most(c)
  <2>1. MaxCost * Len(rest) \in Nat /\ MaxCost * Len(line[c]) \in Nat
        /\ MaxCost * Len(rest) <= MaxCost * Len(line[c])
    BY <1>2, <1>3, RouterTyped, OwesLess
  <2> QED
    BY <1>5, <2>1, RouterTyped DEF Owes
<1>7. ASSUME t \in ToSet(line[c]), NEW cost \in 0 .. MaxCost
      PROVE  Owes(spend[c] + cost, rest) < Most(c)
  <2>1. Len(line[c]) \in Nat \ {0} /\ Len(rest) = Len(line[c]) - 1
    <3>1. Len(rest) = Len(line[c]) - 1
      BY <1>2, <1>7
    <3> QED
      BY <1>3, <3>1, RouterTyped
  <2>2. MaxCost * Len(rest) \in Nat /\ MaxCost * Len(line[c]) = MaxCost * Len(rest) + MaxCost
    BY <2>1, RouterTyped, OwesBooked
  <2>3. spend[c] + (MaxCost * Len(rest) + MaxCost) < Most(c)
    BY <1>5, <2>2 DEF Owes
  <2>4. spend[c] + cost + MaxCost * Len(rest) < Most(c)
    BY <2>2, <2>3, RouterTyped, BooksWithin
  <2> QED
    BY <2>4 DEF Owes
<1> QED
  BY <1>2, <1>3, <1>4, <1>5, <1>6, <1>7

\* A thread that left the lines, whatever it spent on the connection it held.
LEMMA LeaveRouter ==
    ASSUME RouterInv, NEW t \in Threads, line' = Leave(t), spend' \in [Conns -> Nat],
           \A c \in Conns : Owes(spend'[c], Leave(t)[c]) < Most(c),
           excluded' \in [Threads -> SUBSET Conns], hit' \in SUBSET Threads,
           limited' \in SUBSET Conns
    PROVE  RouterInv'
<1>1. line' \in [Conns -> Seq(Threads)]
  BY LeaveLine DEF Leave
<1>2. \A c \in Conns : LineHolds(c, line'[c], spend'[c])
  BY LeaveLine DEF LineHolds
<1> QED
  BY <1>1, <1>2 DEF RouterInv, RouterTypes, LineHolds, Owes, Most

\* One that gets in line for a connection with some budget left.
LEMMA JoinRouter ==
    ASSUME RouterInv, NEW t \in Threads, NEW c \in Conns, line' = [Leave(t) EXCEPT ![c] = Append(@, t)],
           spend' \in [Conns -> Nat], spend'[c] < Budget[c],
           \A d \in Conns : Owes(spend'[d], Leave(t)[d]) < Most(d),
           excluded' \in [Threads -> SUBSET Conns], hit' \in SUBSET Threads,
           limited' \in SUBSET Conns
    PROVE  RouterInv'
<1> DEFINE queue == Leave(t)[c]
<1>1. /\ queue \in Seq(Threads \ {t}) /\ queue \in Seq(Threads) /\ Apart(queue)
      /\ DOMAIN queue = 1 .. Len(queue) /\ Len(queue) \in Nat
      /\ \A i \in 1 .. Len(queue) : queue[i] # t
  <2>1. queue \in Seq(Threads \ {t}) /\ queue \in Seq(Threads) /\ Apart(queue)
    BY LeaveLine
  <2> HIDE DEF queue
  <2>2. DOMAIN queue = 1 .. Len(queue) /\ Len(queue) \in Nat /\ \A i \in DOMAIN queue : queue[i] \in Threads \ {t}
    BY <2>1, Lengths
  <2> QED
    BY <2>1, <2>2
<1>2. PICK n \in Nat : n = Len(queue)
  BY <1>1
<1>3. /\ line' \in [Conns -> {line'[d] : d \in Conns}]
      /\ \A d \in Conns \ {c} : line'[d] = Leave(t)[d]
      /\ line'[c] = Append(queue, t)
  <2> PICK lines : lines = Leave(t)
    OBVIOUS
  <2>1. DOMAIN lines = Conns /\ lines = [d \in Conns |-> lines[d]]
    BY DEF Leave
  <2> QED
    BY <2>1
<1> HIDE DEF queue
<1>4. /\ line'[c] \in Seq(Threads) /\ Len(line'[c]) = n + 1 /\ DOMAIN line'[c] = 1 .. n + 1
      /\ \A i \in 1 .. n : line'[c][i] = queue[i]
      /\ line'[c][n + 1] = t
  <2> PICK longer : longer = Append(queue, t)
    OBVIOUS
  <2>1. longer \in Seq(Threads) /\ Len(longer) = n + 1
    BY <1>1, <1>2, AppendProperties
  <2>2. (\A i \in 1 .. n : longer[i] = queue[i]) /\ longer[n + 1] = t
    BY <1>1, <1>2, AppendProperties
  <2> QED
    BY <1>3, <2>1, <2>2, Lengths
<1>5. Apart(line'[c])
  <2> SUFFICES ASSUME NEW i \in 1 .. n + 1, NEW j \in 1 .. n + 1, line'[c][i] = line'[c][j]
               PROVE  i = j
    BY <1>4 DEF Apart
  <2>1. \A k \in 1 .. n + 1 : k \in 1 .. n \/ k = n + 1
    OBVIOUS
  <2>2. \A k, l \in 1 .. n : queue[k] = queue[l] => k = l
    BY <1>1, <1>2 DEF Apart
  <2>3. \A k \in 1 .. n : queue[k] # t
    BY <1>1, <1>2
  <2> QED
    BY <1>4, <2>1, <2>2, <2>3
<1>6. Owes(spend'[c], line'[c]) < Most(c)
  <2> PICK m \in Nat, k \in Nat : m = MaxCost /\ k = Cardinality(Threads)
    BY RouterTyped
  <2>1. n + 1 <= k
    <3>1. PICK longer : longer = line'[c]
      OBVIOUS
    <3>2. Len(longer) <= Cardinality(Threads)
      BY <1>4, <1>5, <3>1, LineLength, CompanyAssumption
    <3> QED
      BY <1>4, <3>1, <3>2
  <2>2. m * (n + 1) \in Nat /\ m * k \in Nat /\ m * (n + 1) <= m * k
    <3> DEFINE o == n + 1
    <3>1. o \in Nat /\ o <= k
      BY <2>1
    <3> HIDE DEF o
    <3>2. m * o \in Nat /\ m * k \in Nat /\ m * o <= m * k
      BY <3>1, OwesLess
    <3> QED
      BY <3>2 DEF o
  <2>3. Owes(spend'[c], line'[c]) = spend'[c] + m * (n + 1) /\ Most(c) = Budget[c] + m * k
    BY <1>4 DEF Owes, Most
  <2>4. spend'[c] \in Nat /\ Budget[c] \in Nat
    BY RouterTyped
  <2> QED
    BY <2>2, <2>3, <2>4
<1>7. Budget[c] > 0
  BY RouterTyped
<1>8. line' \in [Conns -> Seq(Threads)]
  BY <1>3, <1>4, LeaveLine DEF Leave
<1>9. \A d \in Conns : LineHolds(d, line'[d], spend'[d])
  BY <1>3, <1>5, <1>6, <1>7, LeaveLine DEF LineHolds
<1> QED
  BY <1>8, <1>9 DEF RouterInv, RouterTypes, LineHolds, Owes, Most

\* A turn of the attempt loop, whatever was just booked within bounds.
LEMMA AttemptRouter ==
    ASSUME ThreadTypes, RouterInv, NEW t \in Threads, NEW ex \in SUBSET Conns,
           Attempt(t, ex, spend'), spend' \in [Conns -> Nat],
           \A d \in Conns : Owes(spend'[d], Leave(t)[d]) < Most(d),
           hit' \in SUBSET Threads, limited' = limited
    PROVE  RouterInv'
<1>1. excluded \in [Threads -> SUBSET Conns] /\ limited' \in SUBSET Conns
  BY DEF RouterInv, RouterTypes
<1>2. CASE Fail(t) /\ excluded' = [excluded EXCEPT ![t] = {}]
  BY <1>1, <1>2, LeaveRouter DEF Fail
<1>3. ASSUME NEW c \in Candidates(node[t], ex, spend'),
             line' = [Leave(t) EXCEPT ![c] = Append(@, t)], excluded' = [excluded EXCEPT ![t] = ex]
      PROVE  RouterInv'
  <2>1. c \in Conns /\ spend'[c] < Budget[c]
    <3>1. node[t] \in Agents
      BY DEF ThreadTypes
    <3>2. c \in Usable[node[t]] /\ ~(spend'[c] >= Budget[c])
      BY <1>3 DEF Candidates, Spent
    <3> QED
      BY <3>1, <3>2, CompanyAssumption
  <2> QED
    BY <1>1, <1>3, <2>1, JoinRouter
<1> QED
  BY <1>2, <1>3 DEF Attempt

\* An empty line, and a line of any length in a fresh month, stay within bounds.
LEMMA EmptyLine ==
    ASSUME NEW c \in Conns, NEW paid \in Nat, paid < Most(c)
    PROVE  LineHolds(c, <<>>, paid)
<1>1. Len(<<>>) = 0 /\ DOMAIN <<>> = {}
  OBVIOUS
<1>2. MaxCost * 0 = 0
  BY CompanyAssumption
<1> QED
  BY <1>1, <1>2 DEF LineHolds, Apart, Owes

LEMMA MostIsPositive ==
    ASSUME NEW c \in Conns
    PROVE  Most(c) \in Nat \ {0}
<1>1. Budget[c] \in Nat /\ MaxCost \in Nat \ {0}
  BY CompanyAssumption
<1>2. PICK m \in Nat \ {0}, k \in Nat \ {0} : m = MaxCost /\ k = Cardinality(Threads)
  BY <1>1, CompanyAssumption, FS_CardinalityType, FS_EmptySet
<1>3. m * (k - 1) \in Nat /\ m * k = m * (k - 1) + m
  BY <1>2, OwesBooked
<1> QED
  BY <1>1, <1>2, <1>3 DEF Most

LEMMA FreshMonth ==
    ASSUME RouterInv, NEW c \in Conns
    PROVE  LineHolds(c, line[c], 0)
<1>1. Apart(line[c]) /\ (line[c] # <<>> => Budget[c] > 0)
  BY DEF RouterInv, LineHolds
<1>2. CASE line[c] = <<>>
  BY <1>2, EmptyLine, MostIsPositive
<1>3. CASE line[c] # <<>>
  <2> PICK m \in Nat, n \in Nat, k \in Nat :
           m = MaxCost /\ n = Len(line[c]) /\ k = Cardinality(Threads)
    BY RouterTyped
  <2>1. n <= k
    BY RouterTyped, LineLength, CompanyAssumption
  <2>2. m * n \in Nat /\ m * k \in Nat /\ m * n <= m * k
    BY <2>1, OwesLess
  <2>3. Budget[c] \in Nat /\ Budget[c] > 0
    BY <1>1, <1>3, RouterTyped
  <2>4. 0 + m * n < Budget[c] + m * k
    BY <2>2, <2>3
  <2>5. Owes(0, line[c]) < Most(c)
    BY <2>4 DEF Owes, Most
  <2> QED
    BY <1>1, <2>5 DEF LineHolds
<1> QED
  BY <1>2, <1>3

LEMMA InitRouter == Init => RouterInv
<1> SUFFICES ASSUME Init PROVE RouterInv
  OBVIOUS
<1>1. RouterTypes
  BY DEF Init, RouterTypes
<1>2. \A c \in Conns : LineHolds(c, line[c], spend[c])
  BY EmptyLine, MostIsPositive DEF Init
<1> QED
  BY <1>1, <1>2 DEF RouterInv

LEMMA RestRouter ==
    ASSUME RouterInv, UNCHANGED <<line, spend, excluded>>, hit' \in SUBSET Threads,
           limited' \in SUBSET Conns
    PROVE  RouterInv'
BY DEF RouterInv, RouterTypes, LineHolds, Owes, Most

LEMMA OwesNow ==
    ASSUME RouterInv, NEW t \in Threads, UNCHANGED spend
    PROVE  /\ spend' \in [Conns -> Nat]
           /\ \A d \in Conns : Owes(spend'[d], Leave(t)[d]) < Most(d)
<1>1. spend' \in [Conns -> Nat]
  BY DEF RouterInv, RouterTypes
<1> QED
  BY <1>1, LeaveLine

LEMMA BeginRouter ==
    ASSUME ThreadTypes, RouterInv, NEW t \in Threads, Begin(t)
    PROVE  RouterInv'
<1>1. hit' \in SUBSET Threads /\ limited' = limited /\ limited' \in SUBSET Conns /\ UNCHANGED spend
  BY DEF Begin, RouterInv, RouterTypes
<1>2. CASE UNCHANGED <<excluded, line>>
  BY <1>1, <1>2, RestRouter
<1>3. CASE Attempt(t, {}, spend)
  <2>1. Attempt(t, {}, spend')
    BY <1>1, <1>3
  <2> QED
    BY <1>1, <2>1, OwesNow, AttemptRouter
<1> QED
  BY <1>2, <1>3 DEF Begin

LEMMA FinishRouter ==
    ASSUME ThreadTypes, RouterInv, NEW t \in Threads, NEW c \in Conns, Finish(t, c)
    PROVE  RouterInv'
<1>1. t \in ToSet(line[c])
  <2>1. DOMAIN line[c] = 1 .. Len(line[c])
    BY RouterTyped, Lengths
  <2> QED
    BY <2>1 DEF Finish, Streams, ToSet
<1>2. PICK cost \in 0 .. MaxCost :
        /\ spend' = [spend EXCEPT ![c] = @ + cost]
        /\ \/ Attempt(t, excluded[t] \cup {c}, spend')
           \/ /\ line' = Leave(t)
              /\ excluded' = [excluded EXCEPT ![t] = {}]
  BY DEF Finish, Fail, Update
<1>3. hit' \in SUBSET Threads /\ limited' = limited /\ limited' \in SUBSET Conns
      /\ excluded \in [Threads -> SUBSET Conns]
  BY DEF Finish, RouterInv, RouterTypes
<1>4. spend' \in [Conns -> Nat]
  BY <1>2, CompanyAssumption DEF RouterInv, RouterTypes
<1>5. \A d \in Conns : Owes(spend'[d], Leave(t)[d]) < Most(d)
  BY <1>1, <1>2, LeaveLine DEF RouterInv, RouterTypes
<1>6. CASE Attempt(t, excluded[t] \cup {c}, spend')
  <2>1. excluded[t] \cup {c} \in SUBSET Conns
    BY <1>3
  <2> QED
    BY <1>3, <1>4, <1>5, <1>6, <2>1, AttemptRouter
<1>7. CASE line' = Leave(t) /\ excluded' = [excluded EXCEPT ![t] = {}]
  BY <1>3, <1>4, <1>5, <1>7, LeaveRouter
<1> QED
  BY <1>2, <1>6, <1>7

LEMMA AbortRouter ==
    ASSUME RouterInv, NEW t \in Threads, Abort(t)
    PROVE  RouterInv'
<1>1. hit' \in SUBSET Threads /\ limited' \in SUBSET Conns /\ UNCHANGED spend
      /\ excluded' \in [Threads -> SUBSET Conns] /\ line' = Leave(t)
  BY DEF Abort, Fail, RouterInv, RouterTypes
<1> QED
  BY <1>1, OwesNow, LeaveRouter

LEMMA NewMonthRouter == ASSUME RouterInv, NewMonth PROVE RouterInv'
<1>1. RouterTypes'
  BY DEF NewMonth, RouterInv, RouterTypes
<1>2. \A c \in Conns : LineHolds(c, line[c], 0)
  BY FreshMonth
<1> QED
  BY <1>1, <1>2 DEF NewMonth, RouterInv, LineHolds, Owes, Most

LEMMA CrashRouter == ASSUME RouterInv, Crash PROVE RouterInv'
<1>1. RouterTypes'
  BY DEF Crash, RouterInv, RouterTypes
<1>2. \A c \in Conns : LineHolds(c, <<>>, spend[c])
  <2> SUFFICES ASSUME NEW c \in Conns PROVE spend[c] < Most(c)
    BY RouterTyped, EmptyLine
  <2>1. MaxCost * Len(line[c]) \in Nat
    BY RouterTyped, OwesLess
  <2>2. spend[c] + MaxCost * Len(line[c]) < Most(c)
    BY DEF RouterInv, LineHolds, Owes
  <2> QED
    BY <2>1, <2>2, RouterTyped
<1> QED
  BY <1>1, <1>2 DEF Crash, RouterInv, LineHolds, Owes, Most

LEMMA StepRouter == ThreadTypes /\ RouterInv /\ [Next]_vars => RouterInv'
<1> SUFFICES ASSUME ThreadTypes, RouterInv, [Next]_vars PROVE RouterInv'
  OBVIOUS
<1>1. ASSUME NEW t \in Threads, Begin(t) PROVE RouterInv'
  BY <1>1, BeginRouter
<1>2. ASSUME NEW t \in Threads, NEW c \in Conns, Finish(t, c) PROVE RouterInv'
  BY <1>2, FinishRouter
<1>3. ASSUME NEW t \in Threads, Abort(t) PROVE RouterInv'
  BY <1>3, AbortRouter
<1>4. ASSUME NEW t \in Threads, Input(t) \/ Answer(t) \/ RateLimited(t) PROVE RouterInv'
  <2>1. UNCHANGED <<line, spend, excluded>> /\ hit' \in SUBSET Threads /\ limited' \in SUBSET Conns
    BY <1>4 DEF Input, Answer, RateLimited, RouterInv, RouterTypes
  <2> QED
    BY <2>1, RestRouter
<1>5. CASE (\E c \in Conns : Reset(c)) \/ UNCHANGED vars
  <2>1. UNCHANGED <<line, spend, excluded>> /\ hit' \in SUBSET Threads /\ limited' \in SUBSET Conns
    BY <1>5 DEF Reset, vars, RouterInv, RouterTypes
  <2> QED
    BY <2>1, RestRouter
<1>6. CASE NewMonth
  BY <1>6, NewMonthRouter
<1>7. CASE Crash
  BY <1>7, CrashRouter
<1> QED
  BY <1>1, <1>2, <1>3, <1>4, <1>5, <1>6, <1>7 DEF Next, Activation

\* The lines and the ledger agree with the budgets, always.
THEOREM RouterHolds == Spec => [](ThreadTypes /\ RouterInv)
<1>1. Init => ThreadTypes /\ RouterInv
  BY InitHolds, InitRouter DEF CardInv
<1>2. CardInv /\ RouterInv /\ [Next]_vars => CardInv' /\ RouterInv'
  BY StepHolds, StepRouter DEF CardInv
<1>3. CardInv => ThreadTypes
  BY DEF CardInv
<1> QED
  BY <1>1, <1>2, <1>3, InitHolds, PTL DEF Spec

\* Every reachable state has its types: the graph's, the router's and the ledger's.
THEOREM CompanyTyped == Spec => []TypeOK
<1>1. ThreadTypes /\ RouterInv => TypeOK
  BY DEF RouterInv, TypeOK
<1> QED
  BY <1>1, RouterHolds, PTL

\* However many threads share a connection, and whichever of them wait, fail or
\* are tried elsewhere, a budget is passed by less than one activation of each.
THEOREM BudgetsHold == Spec => []OvershootIsBounded
<1>1. RouterInv => OvershootIsBounded
  BY DEF RouterInv, LineHolds, Owes, Most, OvershootIsBounded
<1> QED
  BY <1>1, RouterHolds, PTL
=============================================================================
