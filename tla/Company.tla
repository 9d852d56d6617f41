------------------------------ MODULE Company ------------------------------
(***************************************************************************)
(* One org's agent company over its router: the agent node (company.py),   *)
(* the swarm's routing (swarm.py), the choice and lease of a connection    *)
(* (routing/router.py) and the money it spends (context/ledger.py).        *)
(*                                                                         *)
(* Every thread of the org runs in one event loop and shares one router.   *)
(* What happens between two awaits of an activation is one action: from    *)
(* the call of the node to the wait for a slot, and from the end of the    *)
(* stream to the node's return.  The order in which a policy ranks the     *)
(* connections is left open: any usable one may be taken.                  *)
(***************************************************************************)
EXTENDS Integers, Sequences, FiniteSets, SequencesExt

CONSTANTS
    Threads,      \* threads of the org
    Agents,       \* agents, each a node of the graph
    Entry,        \* DEFAULT_ENTRY
    Handoffs,     \* the agents each agent may hand over to
    Conns,        \* LLM connections
    Usable,       \* those an agent may use: active, allowed here, eligible
    Slots,        \* activations a connection carries at a time
    Budget,       \* monthly_budget_usd of each connection
    OrgBudget,    \* monthly_usd of Chief's policy
    MaxCost,      \* bound: what one activation may cost
    MaxAttempts,  \* max_attempts
    Sigs,         \* signatures of guarded tool calls
    None

ASSUME CompanyAssumption ==
    /\ IsFiniteSet(Threads) /\ Threads # {}
    /\ Entry \in Agents
    /\ Handoffs \in [Agents -> SUBSET Agents]
    /\ Usable \in [Agents -> SUBSET Conns]
    /\ Slots \in [Conns -> Nat \ {0}]
    /\ Budget \in [Conns -> Nat]
    /\ OrgBudget \in Nat /\ MaxCost \in Nat \ {0} /\ MaxAttempts \in Nat \ {0}
    /\ None \notin Sigs /\ None \notin Agents

VARIABLES
    at,        \* the thread's graph: "idle", "ready", "asking" or "busy"
    node,      \* the scheduled agent
    active,    \* state: active_agent
    pending,   \* state: pending_approval
    grants,    \* state: grants
    answer,    \* the resume value of the node's interrupt, if it has one
    excluded,  \* connections that failed this activation
    hit,       \* activations told of a rate limit by their stream
    limited,   \* router: limited_until is in the future
    line,      \* router: who holds or awaits a connection's slots, in order
    spend,     \* ledger: this month's cost of each connection
    approved   \* history: the signatures the owner approved on a thread

graph == <<at, node, active, pending, grants, answer>>
vars == <<graph, excluded, hit, limited, line, spend, approved>>

Card == [agent: Agents, sig: Sigs]

\* Mutant of Granted: any answer of the owner grants the call.
GrantedByAnyAnswer(t) == grants[t] \cup (IF answer[t] # "none" THEN {pending[t].sig} ELSE {})

\* What the guard lets through for the activation of a thread.
Granted(t) == grants[t] \cup (IF answer[t] = "yes" THEN {pending[t].sig} ELSE {})

Total(sp) == FoldFunction(+, 0, sp)

\* Mutant of Spent: a budget that is used up to the cent may be used once more.
SpentToTheCent(sp, budget) == sp > budget

Spent(sp, budget) == sp >= budget

\* The connections an activation may take, whatever their rank.
Candidates(a, ex, sp) ==
    IF Spent(Total(sp), OrgBudget)
    THEN {}
    ELSE {c \in Usable[a] \ ex : c \notin limited /\ ~Spent(sp[c], Budget[c])}

\* The first Slots[c] of a line hold the connection, the others wait.
Streams(t, c) == at[t] = "busy" /\ \E i \in 1 .. Len(line[c]) : i <= Slots[c] /\ line[c][i] = t

\* A thread stands in a line once at most.
Place(s, t) == CHOOSE i \in DOMAIN s : s[i] = t
Without(s, t) == IF t \in ToSet(s) THEN RemoveAt(s, Place(s, t)) ELSE s
Leave(t) == [c \in Conns |-> Without(line[c], t)]

-----------------------------------------------------------------------------
\* Mutant of Fail: the slot is not given back.
FailKeepingSlot(t) ==
    /\ at' = [at EXCEPT ![t] = "idle"]
    /\ answer' = [answer EXCEPT ![t] = "none"]
    /\ UNCHANGED <<node, active, pending, grants, line>>

\* The activation raises: the run fails, the thread keeps its last checkpoint.
Fail(t) ==
    /\ at' = [at EXCEPT ![t] = "idle"]
    /\ answer' = [answer EXCEPT ![t] = "none"]
    /\ line' = Leave(t)
    /\ UNCHANGED <<node, active, pending, grants>>

\* One turn of the attempt loop: select a connection, then await its slot.
Attempt(t, ex, sp) ==
    LET cs == Candidates(node[t], ex, sp) IN
    IF cs = {} \/ Cardinality(ex) >= MaxAttempts
    THEN /\ Fail(t)
         /\ excluded' = [excluded EXCEPT ![t] = {}]
    ELSE /\ \E c \in cs : line' = [Leave(t) EXCEPT ![c] = Append(@, t)]
         /\ at' = [at EXCEPT ![t] = "busy"]
         /\ excluded' = [excluded EXCEPT ![t] = ex]
         /\ UNCHANGED <<node, active, pending, grants, answer>>

\* Mutant of Asks: a card is shown by the entry agent alone.
AsksAtEntry(t) == pending[t] # None /\ Entry = node[t] /\ answer[t] = "none"

Asks(t) == pending[t] # None /\ pending[t].agent = node[t] /\ answer[t] = "none"

\* A new input goes to the agent that was active last.
Input(t) ==
    /\ at[t] \in {"idle", "asking"}
    /\ at' = [at EXCEPT ![t] = "ready"]
    /\ node' = [node EXCEPT ![t] = active[t]]
    /\ answer' = [answer EXCEPT ![t] = "none"]
    /\ UNCHANGED <<active, pending, grants, excluded, hit, limited, line, spend, approved>>

\* The node is called: it shows the card of its stopped tool call, or works.
Begin(t) ==
    /\ at[t] = "ready"
    /\ \/ /\ Asks(t)
          /\ at' = [at EXCEPT ![t] = "asking"]
          /\ UNCHANGED <<node, active, pending, grants, answer, excluded, line>>
       \/ ~Asks(t) /\ Attempt(t, {}, spend)
    /\ UNCHANGED <<hit, limited, spend, approved>>

\* The owner decides; the resume value is stored before the node runs again.
Answer(t) ==
    /\ at[t] = "asking"
    /\ at' = [at EXCEPT ![t] = "ready"]
    /\ \E verdict \in {"yes", "no"} :
          /\ answer' = [answer EXCEPT ![t] = verdict]
          /\ approved' = IF verdict = "yes"
                         THEN [approved EXCEPT ![t] = @ \cup {pending[t].sig}]
                         ELSE approved
    /\ UNCHANGED <<node, active, pending, grants, excluded, hit, limited, line, spend>>

\* The stream reports that the connection is over its rate limit.
RateLimited(t) ==
    /\ \E c \in Conns : Streams(t, c) /\ limited' = limited \cup {c}
    /\ hit' = hit \cup {t}
    /\ UNCHANGED <<graph, excluded, line, spend, approved>>

\* Mutant of HandsOver: a handoff goes with a card.
HandsOverWithCard(card, colleague) == colleague # None

HandsOver(card, colleague) == card = None /\ colleague # None

\* The node's return, for the tool call the guard stopped and the colleague the
\* agent called: the card first, then the handoff, else the end.
Update(t, stop, colleague) ==
    LET card == IF stop \in Sigs \ Granted(t) THEN [agent |-> node[t], sig |-> stop]
                                              ELSE None
        hands == HandsOver(card, colleague)
    IN  /\ pending' = [pending EXCEPT ![t] = card]
        /\ grants' = [grants EXCEPT ![t] = Granted(t)]
        /\ answer' = [answer EXCEPT ![t] = "none"]
        /\ node' = [node EXCEPT ![t] = IF hands THEN colleague ELSE @]
        /\ active' = [active EXCEPT ![t] = IF hands THEN colleague ELSE @]
        /\ at' = [at EXCEPT ![t] = IF card = None /\ colleague = None THEN "idle" ELSE "ready"]
        /\ line' = Leave(t)

\* The slot is given back, the cost booked, and the outcome judged: without any
\* output a rate limit or a retryable error is tried elsewhere and everything
\* else fails; with output the activation stands, whatever was reported.
Finish(t, c) ==
    /\ Streams(t, c)
    /\ hit' = hit \ {t}
    /\ \E cost \in 0 .. MaxCost :
          /\ spend' = [spend EXCEPT ![c] = @ + cost]
          /\ \/ Attempt(t, excluded[t] \cup {c}, spend')
             \/ /\ \/ t \notin hit /\ Fail(t)
                   \/ \E stop \in Sigs \cup {None}, colleague \in Handoffs[node[t]] \cup {None} :
                         Update(t, stop, colleague)
                /\ excluded' = [excluded EXCEPT ![t] = {}]
    /\ UNCHANGED <<limited, approved>>

\* An error that is not worth a retry raises before anything is booked; so
\* does a run that is stopped, also while it waits for its slot.
Abort(t) ==
    /\ at[t] = "busy"
    /\ Fail(t)
    /\ excluded' = [excluded EXCEPT ![t] = {}]
    /\ hit' = hit \ {t}
    /\ UNCHANGED <<limited, spend, approved>>

\* limited_until passes.
Reset(c) ==
    /\ c \in limited
    /\ limited' = limited \ {c}
    /\ UNCHANGED <<graph, excluded, hit, line, spend, approved>>

\* The ledger sums what is spent since the start of the month.
NewMonth ==
    /\ spend' = [c \in Conns |-> 0]
    /\ UNCHANGED <<graph, excluded, hit, limited, line, approved>>

\* The process dies: the router's memory goes, the thread's state and the
\* stored resume value stay, and a recovered run calls its node again.
Crash ==
    /\ at' = [t \in Threads |-> IF at[t] = "busy" THEN "ready" ELSE at[t]]
    /\ excluded' = [t \in Threads |-> {}]
    /\ hit' = {}
    /\ limited' = {}
    /\ line' = [c \in Conns |-> <<>>]
    /\ UNCHANGED <<node, active, pending, grants, answer, spend, approved>>

-----------------------------------------------------------------------------
Init ==
    /\ at = [t \in Threads |-> "idle"]
    /\ node = [t \in Threads |-> Entry]
    /\ active = [t \in Threads |-> Entry]
    /\ pending = [t \in Threads |-> None]
    /\ grants = [t \in Threads |-> {}]
    /\ answer = [t \in Threads |-> "none"]
    /\ excluded = [t \in Threads |-> {}]
    /\ hit = {}
    /\ limited = {}
    /\ line = [c \in Conns |-> <<>>]
    /\ spend = [c \in Conns |-> 0]
    /\ approved = [t \in Threads |-> {}]

Activation(t) == Begin(t) \/ RateLimited(t) \/ (\E c \in Conns : Finish(t, c)) \/ Abort(t)

Next ==
    \/ \E t \in Threads : Input(t) \/ Answer(t) \/ Activation(t)
    \/ \E c \in Conns : Reset(c)
    \/ NewMonth
    \/ Crash

\* A harness ends every stream within timeout_s.
Fairness == \A t \in Threads : WF_vars(\E c \in Conns : Finish(t, c))

Spec == Init /\ [][Next]_vars /\ Fairness

-----------------------------------------------------------------------------
ThreadTypes ==
    /\ at \in [Threads -> {"idle", "ready", "asking", "busy"}]
    /\ node \in [Threads -> Agents]
    /\ active \in [Threads -> Agents]
    /\ pending \in [Threads -> Card \cup {None}]
    /\ grants \in [Threads -> SUBSET Sigs]
    /\ answer \in [Threads -> {"none", "yes", "no"}]
    /\ approved \in [Threads -> SUBSET Sigs]

RouterTypes ==
    /\ excluded \in [Threads -> SUBSET Conns]
    /\ hit \in SUBSET Threads
    /\ limited \in SUBSET Conns
    /\ line \in [Conns -> Seq(Threads)]
    /\ spend \in [Conns -> Nat]

TypeOK == ThreadTypes /\ RouterTypes

\* A guarded tool call is let through only where the owner approved that very
\* call on that very thread, whatever was declined, failed, stopped or lost in
\* between (company.py grants, guard_hook.decide).
GuardOpensOnApproval == \A t \in Threads : Granted(t) \subseteq approved[t]

\* The agent whose call waits for approval is the one the thread's next input
\* or resume runs, so its card is shown before anything else happens there
\* (the agreement of pending_approval with active_agent).
CardIsItsAgents ==
    \A t \in Threads : pending[t] # None => pending[t].agent = active[t]

\* A connection's budget is checked when it is chosen and booked when the
\* activation ends: what is spent and may still be spent passes the budget by
\* less than one activation of every thread, and never grows past that.
OvershootIsBounded ==
    \A c \in Conns :
       spend[c] + MaxCost * Len(line[c]) < Budget[c] + MaxCost * Cardinality(Threads)

\* A card leaves the thread only by the owner's decision on it: no failure, no
\* restart, no new message and no handoff drops it (company.py:210, :327).
CardWaitsForTheOwner ==
    [][\A t \in Threads :
          pending[t] # None /\ pending'[t] # pending[t] => answer[t] # "none"]_vars

\* An activation that got in line for a connection comes to an end, however
\* many threads share the slots and whichever of them fail (router.lease).
ActivationsEnd == \A t \in Threads : at[t] = "busy" ~> at[t] # "busy"
=============================================================================
