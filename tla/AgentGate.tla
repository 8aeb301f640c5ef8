------------------------------- MODULE AgentGate -------------------------------
(***************************************************************************)
(* The admission of turns to an Agent (agents/agent-execution-gate.ts): at *)
(* most one turn of a session at a time, at most so many of one Agent and  *)
(* of all Agents, none while the Agent is being maintained.  Requests wait *)
(* in a list that one asynchronous loop works off; it reads the limits     *)
(* with an await before every pass.                                        *)
(*                                                                         *)
(* The module has the gate's own state and operations; SandboxGate says    *)
(* what a turn does between two of them.  Everything runs on one event     *)
(* loop: what happens between two awaits is one step.                      *)
(***************************************************************************)
EXTENDS Naturals, Sequences, FiniteSets, SequencesExt

CONSTANTS
  Turns,      \* tasks that execute, each at most once
  Sessions,
  Agents,
  SessionOf,  \* the session of each turn
  AgentOf,    \* the Agent of each session
  Patient,    \* turns that wait for a place; the worker's turns try again later
  Limits      \* what the concurrency settings may say: [total, perAgent]

AgentOfTurn(t) == AgentOf[SessionOf[t]]

ASSUME GateConstants ==
  /\ SessionOf \in [Turns -> Sessions]
  /\ AgentOf \in [Sessions -> Agents]
  /\ IsFiniteSet(Turns) /\ Patient \subseteq Turns
  /\ Limits \subseteq [total : Nat \ {0}, perAgent : Nat \ {0}]
  /\ Limits # {}

VARIABLES
  turn,        \* where each turn is
  aborted,     \* turns whose signal has fired
  pending,     \* gate.pending
  active,      \* gate.active: the turns that hold a lease
  drain,       \* the loop: idle, asking for the limits, or answered
  dirty,       \* gate.dirty
  limits,      \* the settings in the database
  unannounced, \* they were saved, and the gate has not been told
  maintenance  \* gate.maintenance and gate.drafts: what holds each Agent

gateVars == <<turn, aborted, pending, active, drain, dirty, limits, unannounced, maintenance>>
-----------------------------------------------------------------------------
Idle == [at |-> "idle"]
Asking == [at |-> "asking"]
Answered(l) == [at |-> "answered", limits |-> l]

\* A loop that is entered with requests waiting clears the mark and asks.
Loop(p, marked) ==
  IF marked /\ p # <<>> THEN drain' = Asking /\ dirty' = FALSE
                        ELSE drain' = Idle /\ dirty' = marked

\* A refresh that leaves a loop that is already under way alone.
RefreshIfIdle(p) ==
  /\ pending' = p
  /\ IF drain.at = "idle" THEN Loop(p, TRUE) ELSE UNCHANGED <<drain, dirty>>

\* refreshAgentExecutionLimits, once the list of requests is p.
Refresh(p) ==
  /\ pending' = p
  /\ IF drain.at = "idle" THEN Loop(p, TRUE)
                          ELSE dirty' = TRUE /\ UNCHANGED drain

ActiveOf(a, leases) == {t \in leases : AgentOfTurn(t) = a}

InMaintenance(a) == maintenance[a] \notin {"none", "draft"}

Available(t, leases, l) ==
  /\ ~InMaintenance(AgentOfTurn(t))
  /\ \A u \in leases : SessionOf[u] # SessionOf[t]
  /\ Cardinality(leases) < l.total
  /\ Cardinality(ActiveOf(AgentOfTurn(t), leases)) < l.perAgent

\* One pass over the requests, in their order: the granted are those with a place
\* beside the leases that are held or granted before.
Pass(l, granted) ==
  \A i \in DOMAIN pending :
    i \in granted <=>
      Available(pending[i], active \cup {pending[j] : j \in {k \in granted : k < i}}, l)

\* The requests that wait on.
Waiting(granted) == {i \in DOMAIN pending \ granted : pending[i] \in Patient}

\* They keep their order.
Ordered(order) == \A m, n \in DOMAIN order : m < n => order[m] < order[n]

\* A look at who asks that forgets who already holds a lease.
AgentAsked(a) ==
  \/ maintenance[a] # "none"
  \/ \E i \in DOMAIN pending : AgentOfTurn(pending[i]) = a

\* agentExecutionBusy
AgentExecutionBusy(a) ==
  \/ maintenance[a] # "none"
  \/ ActiveOf(a, active) # {}
  \/ \E i \in DOMAIN pending : AgentOfTurn(pending[i]) = a
-----------------------------------------------------------------------------
GateInit ==
  /\ turn = [t \in Turns |-> "none"]
  /\ aborted = {}
  /\ pending = <<>>
  /\ active = {}
  /\ drain = Idle
  /\ dirty = FALSE
  /\ limits \in Limits
  /\ unannounced = FALSE
  /\ maintenance = [a \in Agents |-> "none"]

\* withAgentExecutionLease, up to the wait for its lease.
RequestLease(t) ==
  /\ turn[t] = "queued"
  /\ turn' = [turn EXCEPT ![t] = "pending"]
  /\ Refresh(Append(pending, t))
  /\ UNCHANGED <<aborted, active, limits, unannounced, maintenance>>

\* getAgentConcurrencySettings reads the row.
ReadLimits ==
  /\ drain.at = "asking"
  /\ drain' = Answered(limits)
  /\ UNCHANGED <<turn, aborted, pending, active, dirty, limits, unannounced, maintenance>>

\* The rest of one turn of the loop.
Drain ==
  /\ drain.at = "answered"
  /\ \E granted \in SUBSET DOMAIN pending :
       \E order \in Bijection(1..Cardinality(Waiting(granted)), Waiting(granted)) :
         LET leases == {pending[i] : i \in granted}
             left == [n \in DOMAIN order |-> pending[order[n]]]
         IN  /\ Pass(drain.limits, granted) /\ Ordered(order)
             /\ active' = active \cup leases
             /\ pending' = left
             /\ turn' = [t \in Turns |->
                           IF t \in leases THEN "granted"
                           ELSE IF t \in ToSet(pending) \ Patient THEN "queued" ELSE turn[t]]
             /\ Loop(left, dirty)
  /\ UNCHANGED <<aborted, limits, unannounced, maintenance>>

\* The settings cannot be read: every request is rejected with the error, which
\* for the worker is not "busy" but the end of the task.
ReadLimitsFails ==
  /\ drain.at = "asking"
  /\ pending' = <<>>
  /\ turn' = [t \in Turns |-> IF turn[t] = "pending" THEN "ended" ELSE turn[t]]
  /\ drain' = Idle
  /\ UNCHANGED <<aborted, active, dirty, limits, unannounced, maintenance>>

\* A release that tells nobody.
ReleaseQuietly(t, to) ==
  /\ turn' = [turn EXCEPT ![t] = to]
  /\ active' = active \ {t}
  /\ UNCHANGED <<pending, drain, dirty>>

\* The finally of withAgentExecutionLease; the turn goes to "to".
ReleaseLease(t, to) ==
  /\ turn' = [turn EXCEPT ![t] = to]
  /\ active' = active \ {t}
  /\ Refresh(pending)

\* The task is cancelled, its deadline passes, or the worker stops: onAbort of a
\* request takes it off the list, everyone else looks at the signal later.
Abort(t) ==
  /\ turn[t] \notin {"none", "ended"} /\ t \notin aborted
  /\ aborted' = aborted \cup {t}
  /\ \/ \E i \in DOMAIN pending : pending[i] = t /\ Refresh(RemoveAt(pending, i))
     \/ turn[t] # "pending" /\ UNCHANGED <<pending, drain, dirty>>
  /\ turn' = [turn EXCEPT ![t] = IF @ \in {"queued", "pending"} THEN "ended" ELSE @]
  /\ UNCHANGED <<active, limits, unannounced, maintenance>>

\* An administrator saves the settings ...
SaveLimits ==
  /\ ~unannounced
  /\ limits' \in Limits \ {limits}
  /\ unannounced' = TRUE
  /\ UNCHANGED <<turn, aborted, pending, active, drain, dirty, maintenance>>

\* ... and the gate is told to look again.
AnnounceLimits ==
  /\ unannounced
  /\ unannounced' = FALSE
  /\ Refresh(pending)
  /\ UNCHANGED <<turn, aborted, active, limits, maintenance>>

\* withAgentMutationLease: a draft is kept out by maintenance and other drafts,
\* maintenance by anything that executes or asks to.
TakeMaintenance(a, kind) ==
  /\ IF kind = "draft" THEN maintenance[a] = "none" ELSE ~AgentExecutionBusy(a)
  /\ maintenance' = [maintenance EXCEPT ![a] = kind]

\* Its finally.
EndMaintenance(a) ==
  /\ maintenance' = [maintenance EXCEPT ![a] = "none"]
  /\ Refresh(pending)
=============================================================================
