------------------------------ MODULE SandboxGate ------------------------------
(***************************************************************************)
(* From a queued task to its running turn and back: the admission of       *)
(* executeAgentTask (agents/execution/worker.ts), which takes a lease of   *)
(* the Agent (AgentGate), makes sure its sandbox runs                      *)
(* (ensureAgentConversationSandbox), reserves the session in it            *)
(* (agents/sandbox-execution-gate.ts) and runs; a turn that runs makes     *)
(* sure of the sandbox again, under the lease of its session.  Against it: *)
(* the operations on the sandbox, one at a time through the queue of       *)
(* sandboxes/lifecycle.ts, which stop it when it is idle or remove it; the *)
(* files and terminals users have open; drafts and changes of the Agent.   *)
(*                                                                         *)
(* Every Agent has one sandbox, shared by its sessions.  What is written   *)
(* into the sandbox, its revisions and the migration of older sandboxes    *)
(* are left out.                                                           *)
(***************************************************************************)
EXTENDS AgentGate

CONSTANTS
  NoTurn,
  Cancellable,  \* bound of the model: the turns whose signal may fire
  MaxViewers,   \* bound of the model: accesses of users at a time, per Agent
  MaxUpkeep,    \* bound of the model: maintenance and passes begun, limits saved
  MaxFaults     \* bound of the model: failed reads and starts, sandboxes that die

ASSUME SandboxConstants ==
  /\ NoTurn \notin Turns /\ "keeper" \notin Turns \cup {NoTurn}
  /\ Cancellable \subseteq Turns
  /\ {MaxViewers, MaxUpkeep, MaxFaults} \subseteq Nat

VARIABLES
  saw,       \* the status of the deployment a turn has read
  inner,     \* turns that run and make sure of the sandbox again
  bound,     \* sessions with a workspace in the sandbox
  holder,    \* owners.sessions: the turn that holds each session
  exclusive, \* owners.exclusive of each sandbox: what holds it
  frozen,    \* frozenSandboxes
  access,    \* sandboxAccesses: how many files and terminals are in use
  viewers,   \* how many of them users hold
  line,      \* the queue of operations on each sandbox
  box,       \* the deployment of each sandbox: its status, its process
  pty,       \* sandboxes with a terminal left running
  keeper,    \* where the stop or removal of each sandbox is
  idleSaw,   \* the status the pass over idle sandboxes has read of each
  used,      \* sandboxes used since that pass began
  upkeep,
  faults

sessionVars == <<saw, inner, bound, holder>>
operationVars == <<exclusive, frozen, line>>
useVars == <<access, viewers, used>>
processVars == <<box, pty>>
keepVars == <<keeper, idleSaw, upkeep>>

boxVars == <<sessionVars, operationVars, useVars, processVars, keepVars, faults>>

vars == <<gateVars, boxVars>>
-----------------------------------------------------------------------------
Ended(t) == turn[t] = "ended"

Submitted(a) == {t \in Turns : AgentOfTurn(t) = a /\ turn[t] \notin {"none", "ended"}}

\* The sessions of a sandbox that a turn holds.
Held(a) == {s \in Sessions : AgentOf[s] = a /\ holder[s] # NoTurn}

\* What inherited() finds: a turn that runs carries the lease of its session.
Own(t) == IF inner[t] THEN {SessionOf[t]} ELSE {}

\* sandboxExecutionBusy
SandboxExecutionBusy(a) == exclusive[a] # NoTurn \/ Held(a) # {}

\* sandboxSessionBusy
SandboxSessionBusy(t) ==
  exclusive[AgentOfTurn(t)] # NoTurn \/ holder[SessionOf[t]] # NoTurn

\* withSandboxExecutionLease refuses: an owner, or a session other than one's own.
ExclusiveRefused(a, own) == exclusive[a] # NoTurn \/ Held(a) \ own # {}

CountFault == faults < MaxFaults /\ faults' = faults + 1

Goto(t, at) == turn' = [turn EXCEPT ![t] = at]

Gate == <<aborted, pending, active, drain, dirty, limits, unannounced, maintenance>>

\* usedAt: kept only for a pass that has read it, which compares it later.
Use(a) == used' = IF idleSaw[a] = "none" THEN used ELSE used \cup {a}

\* The lease of the Agent goes back; the rest of the gate is as it was.
LeaveGate(t, to) ==
  /\ ReleaseLease(t, to)
  /\ UNCHANGED <<aborted, limits, unannounced, maintenance>>

\* The sandbox is not to be had: a task that is admitted goes back to the queue
\* or fails, a turn that runs gets the error.
Refused(t, to) ==
  IF inner[t] THEN /\ Goto(t, "running")
                   /\ inner' = [inner EXCEPT ![t] = FALSE]
                   /\ UNCHANGED Gate
              ELSE LeaveGate(t, to) /\ UNCHANGED inner

\* ensureAgentConversationSandbox returns.
Ensured(t) ==
  /\ Goto(t, IF inner[t] THEN "running" ELSE "prepared")
  /\ inner' = [inner EXCEPT ![t] = FALSE]
  /\ UNCHANGED Gate
-----------------------------------------------------------------------------
(* A turn *)

Submit(t) ==
  /\ turn[t] = "none"
  /\ Goto(t, "queued")
  /\ UNCHANGED <<Gate, boxVars>>

\* ensureAgentConversationSandbox, up to the row of the sandbox it allocates; the
\* status it has read may be old by the time it decides.
Allocate(t) ==
  LET a == AgentOfTurn(t) IN
  /\ Goto(t, "allocated")
  /\ box' = [box EXCEPT ![a].status = IF @ = "none" THEN "copying" ELSE @]
  /\ saw' = [saw EXCEPT ![t] = box'[a].status]
  /\ UNCHANGED <<Gate, bound, holder, operationVars, useVars, pty, keepVars, faults>>

\* The lease is granted: throwIfAborted, then the sandbox.
Prepare(t) ==
  /\ turn[t] = "granted"
  /\ \/ t \in aborted /\ LeaveGate(t, "ended") /\ UNCHANGED boxVars
     \/ t \notin aborted /\ Allocate(t) /\ UNCHANGED inner

\* A turn opens a file, a package or a companion process of its session.
EnsureAgain(t) ==
  /\ turn[t] = "running" /\ t \notin aborted
  /\ inner' = [inner EXCEPT ![t] = TRUE]
  /\ Allocate(t)

MayReuse(t) ==
  LET a == AgentOfTurn(t) IN saw[t] = "running" /\ box[a].live /\ a \notin frozen

Forget(t) == saw' = [saw EXCEPT ![t] = "none"]

\* A live sandbox is used beside the other sessions, under an access of its own.
Reuse(t) ==
  /\ turn[t] = "allocated" /\ MayReuse(t)
  /\ Goto(t, "reusing") /\ Forget(t)
  /\ access' = [access EXCEPT ![AgentOfTurn(t)] = @ + 1]
  /\ Use(AgentOfTurn(t))
  /\ UNCHANGED <<Gate, inner, bound, holder, operationVars, viewers, processVars, keepVars, faults>>

\* A release that counts when it is called again.
ReleaseTwice(a) == access' = [access EXCEPT ![a] = @ - 2]

\* What beginAgentConversationSandboxAccess returns.
ReleaseAccess(a) == access' = [access EXCEPT ![a] = @ - 1]

\* A new session writes its workspace under its lease; a session that has one
\* writes the binding, which is a transaction.
Bind(t) ==
  LET a == AgentOfTurn(t)
      s == SessionOf[t]
  IN
  /\ turn[t] = "reusing"
  /\ IF s \notin bound /\ ~inner[t] /\ SandboxSessionBusy(t)
     THEN /\ ReleaseAccess(a)
          /\ Refused(t, "queued")
          /\ UNCHANGED holder
     ELSE /\ Goto(t, "binding")
          /\ holder' = [holder EXCEPT ![s] = IF s \in bound THEN @ ELSE t]
          /\ UNCHANGED <<Gate, inner, access>>
  /\ UNCHANGED <<saw, bound, operationVars, viewers, processVars, keepVars, used, faults>>

\* The session is bound; if the process is gone by now the queue must start it.
Reused(t) ==
  LET a == AgentOfTurn(t)
      s == SessionOf[t]
  IN
  /\ turn[t] = "binding"
  /\ bound' = bound \cup {s}
  /\ holder' = [holder EXCEPT ![s] = IF @ = t /\ ~inner[t] THEN NoTurn ELSE @]
  /\ ReleaseAccess(a)
  /\ \/ t \in aborted /\ Refused(t, "ended") /\ UNCHANGED line
     \/ t \notin aborted /\ box[a].live /\ Ensured(t) /\ UNCHANGED line
     \/ /\ t \notin aborted /\ ~box[a].live
        /\ Goto(t, "lined") /\ line' = [line EXCEPT ![a] = Append(@, t)]
        /\ UNCHANGED <<Gate, inner>>
  /\ UNCHANGED <<saw, exclusive, frozen, viewers, processVars, keepVars, used, faults>>

\* enqueueSandboxOperation
Enqueue(t) ==
  /\ turn[t] = "allocated" /\ ~MayReuse(t)
  /\ Goto(t, "lined") /\ Forget(t)
  /\ line' = [line EXCEPT ![AgentOfTurn(t)] = Append(@, t)]
  /\ UNCHANGED <<Gate, inner, bound, holder, exclusive, frozen, useVars, processVars, keepVars, faults>>

\* The first in the queue of a sandbox; it operates while the sandbox is frozen.
First(a) == IF line[a] = <<>> THEN NoTurn ELSE Head(line[a])

\* The operations before it in the queue have settled.
ItsTurn(a, op) == First(a) = op /\ a \notin frozen

StepAside(a) == line' = [line EXCEPT ![a] = Tail(@)]

\* The exclusive lease, the check of open accesses, the freeze.
BeginStart(t) ==
  LET a == AgentOfTurn(t) IN
  /\ turn[t] = "lined" /\ ItsTurn(a, t)
  /\ \/ /\ ExclusiveRefused(a, Own(t))
        /\ StepAside(a) /\ Refused(t, "queued") /\ UNCHANGED <<exclusive, frozen>>
     \/ /\ ~ExclusiveRefused(a, Own(t)) /\ access[a] > 0
        /\ StepAside(a) /\ Refused(t, "ended") /\ UNCHANGED <<exclusive, frozen>>
     \/ /\ ~ExclusiveRefused(a, Own(t)) /\ access[a] = 0
        /\ exclusive' = [exclusive EXCEPT ![a] = t]
        /\ frozen' = frozen \cup {a}
        /\ Goto(t, "starting")
        /\ UNCHANGED <<Gate, inner, line>>
  /\ UNCHANGED <<saw, bound, holder, useVars, processVars, keepVars, faults>>

\* An end that only lifts the freeze of an operation that succeeded.
EndUnfrozen(a) ==
  /\ exclusive' = [exclusive EXCEPT ![a] = NoTurn]
  /\ UNCHANGED frozen
  /\ StepAside(a)

\* The end of an operation on a sandbox, whatever came of it.
EndOperation(a) ==
  /\ exclusive' = [exclusive EXCEPT ![a] = NoTurn]
  /\ frozen' = frozen \ {a}
  /\ StepAside(a)

\* throwIfAborted, the statuses that need a recovery, and the process.
Start(t) ==
  LET a == AgentOfTurn(t) IN
  /\ turn[t] = "starting"
  /\ \/ /\ t \in aborted \/ box[a].status \in {"deleting", "gone"}
        /\ EndOperation(a) /\ Refused(t, "ended") /\ UNCHANGED <<bound, box, used>>
     \/ /\ t \notin aborted /\ box[a].status \notin {"deleting", "gone"}
        /\ bound' = bound \cup {SessionOf[t]}
        /\ IF box[a].live
           THEN EndOperation(a) /\ Ensured(t) /\ Use(a) /\ UNCHANGED box
           ELSE /\ Goto(t, "booting")
                /\ box' = [box EXCEPT ![a] = [status |-> "provisioning", live |-> FALSE]]
                /\ UNCHANGED <<Gate, inner, operationVars, used>>
  /\ UNCHANGED <<saw, holder, access, viewers, pty, keepVars, faults>>

\* startProcess, with awaitReady
Booted(t) ==
  LET a == AgentOfTurn(t) IN
  /\ turn[t] = "booting"
  /\ box' = [box EXCEPT ![a] = [status |-> "running", live |-> TRUE]]
  /\ EndOperation(a) /\ Ensured(t)
  /\ Use(a)
  /\ UNCHANGED <<saw, bound, holder, access, viewers, pty, keepVars, faults>>

BootFails(t) ==
  LET a == AgentOfTurn(t) IN
  /\ turn[t] = "booting" /\ CountFault
  /\ box' = [box EXCEPT ![a].status = "error"]
  /\ EndOperation(a) /\ Refused(t, "ended")
  /\ UNCHANGED <<saw, bound, holder, useVars, pty, keepVars>>

\* The session is reserved and the turn runs, or goes back to the queue.
Reserve(t) ==
  /\ turn[t] = "prepared"
  /\ IF SandboxSessionBusy(t)
     THEN LeaveGate(t, "queued") /\ UNCHANGED holder
     ELSE /\ Goto(t, "running")
          /\ holder' = [holder EXCEPT ![SessionOf[t]] = t]
          /\ UNCHANGED Gate
  /\ UNCHANGED <<saw, inner, bound, operationVars, useVars, processVars, keepVars, faults>>

\* Both leases go back, the session's first.
EndTurn(t) ==
  /\ turn[t] = "running"
  /\ holder' = [holder EXCEPT ![SessionOf[t]] = NoTurn]
  /\ LeaveGate(t, "ended")
  /\ UNCHANGED <<saw, inner, bound, operationVars, useVars, processVars, keepVars, faults>>
-----------------------------------------------------------------------------
(* The sandbox and its keeper *)

Status == {"none", "copying", "provisioning", "running", "error", "stopping", "stopped", "deleting", "gone"}

\* stopIdleAgentConversationSandboxes reads the sandboxes without open tasks ...
ReadIdle(a) ==
  /\ idleSaw[a] = "none" /\ keeper[a] = "none" /\ upkeep < MaxUpkeep
  /\ box[a].status \in {"running", "stopping", "deleting"}
  /\ Submitted(a) = {}
  /\ idleSaw' = [idleSaw EXCEPT ![a] = box[a].status]
  /\ used' = used \ {a}
  /\ upkeep' = upkeep + 1
  /\ UNCHANGED <<gateVars, sessionVars, operationVars, access, viewers, processVars, keeper, faults>>

\* The pass is over.
ForgetIdle(a) ==
  /\ idleSaw' = [idleSaw EXCEPT ![a] = "none"]
  /\ used' = used \ {a}

\* ... and comes to this one: nothing may execute or be open, and one that is
\* neither being stopped nor removed must have been idle for long.
MayKeep(a) ==
  /\ ~AgentExecutionBusy(a) /\ ~SandboxExecutionBusy(a) /\ access[a] = 0
  /\ idleSaw[a] = "running" => a \notin used

\* The lease of the Agent and the place in the queue are taken at once.
LineUp(a, kind) ==
  /\ TakeMaintenance(a, kind)
  /\ line' = [line EXCEPT ![a] = Append(@, "keeper")]
  /\ keeper' = [keeper EXCEPT ![a] = "lined"]
  /\ UNCHANGED <<turn, aborted, pending, active, drain, dirty, limits, unannounced>>

KeepIdle(a) ==
  /\ idleSaw[a] # "none" /\ keeper[a] = "none"
  /\ IF MayKeep(a)
     THEN LineUp(a, IF idleSaw[a] = "deleting" THEN "remove" ELSE "stop") /\ UNCHANGED <<idleSaw, used>>
     ELSE ForgetIdle(a) /\ UNCHANGED <<gateVars, line, keeper>>
  /\ UNCHANGED <<sessionVars, exclusive, frozen, access, viewers, processVars, upkeep, faults>>

\* deleteAgentConversationSandboxes
DeleteSandbox(a) ==
  /\ keeper[a] = "none" /\ idleSaw[a] = "none" /\ upkeep < MaxUpkeep
  /\ box[a].status \notin {"none", "gone"}
  /\ LineUp(a, "remove")
  /\ upkeep' = upkeep + 1
  /\ UNCHANGED <<sessionVars, exclusive, frozen, useVars, processVars, idleSaw, faults>>

\* The keeper's operation settles, and its lease of the Agent goes back.
LeaveKeeping(a) ==
  /\ EndMaintenance(a)
  /\ keeper' = [keeper EXCEPT ![a] = "none"]
  /\ ForgetIdle(a)
  /\ UNCHANGED <<turn, aborted, active, limits, unannounced>>

KeeperStep(a, from, to) == keeper[a] = from /\ keeper' = [keeper EXCEPT ![a] = to]

BeginKeeping(a) ==
  /\ keeper[a] = "lined" /\ ItsTurn(a, "keeper")
  /\ IF ExclusiveRefused(a, {}) \/ access[a] > 0
     THEN StepAside(a) /\ LeaveKeeping(a) /\ UNCHANGED <<exclusive, frozen>>
     ELSE /\ exclusive' = [exclusive EXCEPT ![a] = "keeper"]
          /\ frozen' = frozen \cup {a}
          /\ KeeperStep(a, "lined", "check")
          /\ UNCHANGED <<gateVars, line, idleSaw, used>>
  /\ UNCHANGED <<sessionVars, access, viewers, processVars, upkeep, faults>>

\* A stop leaves a sandbox with a terminal alone, unless it takes up one that
\* was begun; a removal leaves one with open tasks alone, and
\* one that is gone.
Spared(a) ==
  IF maintenance[a] = "stop" THEN idleSaw[a] # "stopping" /\ (~box[a].live \/ a \in pty)
                             ELSE box[a].status = "gone" \/ Submitted(a) # {}

CheckKeeping(a) ==
  /\ keeper[a] = "check"
  /\ IF Spared(a)
     THEN EndOperation(a) /\ LeaveKeeping(a) /\ UNCHANGED box
     ELSE /\ box' = [box EXCEPT ![a].status = IF maintenance[a] = "stop" THEN "stopping" ELSE "deleting"]
          /\ KeeperStep(a, "check", "kill")
          /\ UNCHANGED <<gateVars, operationVars, idleSaw, used>>
  /\ UNCHANGED <<sessionVars, access, viewers, pty, upkeep, faults>>

\* killProcess
KillProcess(a) ==
  /\ KeeperStep(a, "kill", "clear")
  /\ box' = [box EXCEPT ![a].live = FALSE]
  /\ pty' = pty \ {a}
  /\ UNCHANGED <<gateVars, sessionVars, operationVars, useVars, idleSaw, upkeep, faults>>

\* The container is stopped, or everything of it removed with its sessions.
FinishKeeping(a) ==
  /\ keeper[a] = "clear"
  /\ box' = [box EXCEPT ![a].status = IF maintenance[a] = "stop" THEN "stopped" ELSE "gone"]
  /\ EndOperation(a) /\ LeaveKeeping(a)
  /\ UNCHANGED <<sessionVars, access, viewers, pty, upkeep, faults>>

\* One of its steps throws: the status says what was begun.
KeepingFails(a) ==
  /\ keeper[a] \in {"kill", "clear"} /\ CountFault
  /\ EndOperation(a) /\ LeaveKeeping(a)
  /\ UNCHANGED <<sessionVars, access, viewers, processVars, upkeep>>

\* The process of the sandbox dies; nobody has said so in the database.
SandboxDies(a) ==
  /\ box[a].live /\ CountFault
  /\ box' = [box EXCEPT ![a].live = FALSE]
  /\ pty' = pty \ {a}
  /\ UNCHANGED <<gateVars, sessionVars, operationVars, useVars, keepVars>>

\* beginAgentConversationSandboxAccess for a user's file or terminal.
OpenAccess(a) ==
  /\ a \notin frozen /\ box[a].live /\ viewers[a] < MaxViewers
  /\ access' = [access EXCEPT ![a] = @ + 1]
  /\ viewers' = [viewers EXCEPT ![a] = @ + 1]
  /\ Use(a)
  /\ UNCHANGED <<gateVars, sessionVars, operationVars, processVars, keepVars, faults>>

\* It is closed; a terminal may stay behind in the sandbox.
CloseAccess(a) ==
  /\ viewers[a] > 0
  /\ ReleaseAccess(a)
  /\ viewers' = [viewers EXCEPT ![a] = @ - 1]
  /\ Use(a)
  /\ \/ UNCHANGED pty
     \/ box[a].live /\ pty' = pty \cup {a}
  /\ UNCHANGED <<gateVars, sessionVars, operationVars, box, keepVars, faults>>

\* A draft is saved, or the Agent is changed.
BeginUpkeep(a, kind) ==
  /\ upkeep < MaxUpkeep
  /\ TakeMaintenance(a, kind)
  /\ upkeep' = upkeep + 1
  /\ UNCHANGED <<turn, aborted, pending, active, drain, dirty, limits, unannounced>>
  /\ UNCHANGED <<sessionVars, operationVars, useVars, processVars, keeper, idleSaw, faults>>

EndUpkeep(a) ==
  /\ maintenance[a] \in {"draft", "change"}
  /\ EndMaintenance(a)
  /\ UNCHANGED <<turn, aborted, active, limits, unannounced, boxVars>>
-----------------------------------------------------------------------------
Init ==
  /\ GateInit
  /\ saw = [t \in Turns |-> "none"]
  /\ inner = [t \in Turns |-> FALSE]
  /\ bound = {}
  /\ holder = [s \in Sessions |-> NoTurn]
  /\ exclusive = [a \in Agents |-> NoTurn]
  /\ frozen = {}
  /\ access = [a \in Agents |-> 0]
  /\ viewers = [a \in Agents |-> 0]
  /\ line = [a \in Agents |-> <<>>]
  /\ box = [a \in Agents |-> [status |-> "none", live |-> FALSE]]
  /\ pty = {}
  /\ keeper = [a \in Agents |-> "none"]
  /\ idleSaw = [a \in Agents |-> "none"]
  /\ used = {}
  /\ upkeep = 0
  /\ faults = 0

\* What a turn does on its own account once it is submitted.
TurnStep(t) ==
  \/ RequestLease(t) /\ UNCHANGED boxVars
  \/ Prepare(t) \/ Reuse(t) \/ Bind(t) \/ Reused(t) \/ Enqueue(t)
  \/ BeginStart(t) \/ Start(t) \/ Booted(t) \/ Reserve(t)

GateStep == (ReadLimits \/ Drain) /\ UNCHANGED boxVars

KeepingStep(a) ==
  KeepIdle(a) \/ BeginKeeping(a) \/ CheckKeeping(a) \/ KillProcess(a) \/ FinishKeeping(a)

Environment ==
  \/ \E t \in Turns : Submit(t) \/ EnsureAgain(t) \/ BootFails(t)
  \/ \E t \in Cancellable : Abort(t) /\ UNCHANGED boxVars
  \/ /\ ReadLimitsFails /\ CountFault
     /\ UNCHANGED <<sessionVars, operationVars, useVars, processVars, keepVars>>
  \/ /\ SaveLimits /\ upkeep < MaxUpkeep /\ upkeep' = upkeep + 1
     /\ UNCHANGED <<sessionVars, operationVars, useVars, processVars, keeper, idleSaw, faults>>
  \/ \E a \in Agents :
       \/ ReadIdle(a) \/ DeleteSandbox(a) \/ KeepingFails(a) \/ SandboxDies(a)
       \/ OpenAccess(a) \/ CloseAccess(a)
       \/ BeginUpkeep(a, "draft") \/ BeginUpkeep(a, "change")

Next ==
  \/ \E t \in Turns : TurnStep(t) \/ EndTurn(t)
  \/ GateStep
  \/ AnnounceLimits /\ UNCHANGED boxVars
  \/ \E a \in Agents : KeepingStep(a) \/ EndUpkeep(a)
  \/ Environment

Spec == Init /\ [][Next]_vars

\* Awaits return, the worker ticks, maintenance ends, a turn, which has a
\* deadline, does not go on for ever, and a task that finds its session free time
\* and again is not overtaken by an operation of another session every time.
FairSpec ==
  /\ Spec
  /\ \A t \in Turns : /\ WF_vars(TurnStep(t))
                    /\ SF_vars(EndTurn(t))
                    /\ SF_vars(~SandboxSessionBusy(t) /\ Reserve(t))
  /\ WF_vars(GateStep)
  /\ WF_vars(AnnounceLimits /\ UNCHANGED boxVars)
  /\ \A a \in Agents : WF_vars(KeepingStep(a)) /\ WF_vars(EndUpkeep(a))
-----------------------------------------------------------------------------
(* Properties *)

Places == {"none", "queued", "pending", "granted", "allocated", "reusing", "binding",
           "lined", "starting", "booting", "prepared", "running", "ended"}

\* The type of the state of the two gates.
TypeOK ==
  /\ turn \in [Turns -> Places]
  /\ aborted \subseteq Cancellable
  /\ ToSet(pending) \subseteq Turns /\ active \subseteq Turns
  /\ drain \in {Idle, Asking} \cup {Answered(l) : l \in Limits}
  /\ {dirty, unannounced} \subseteq BOOLEAN /\ limits \in Limits
  /\ maintenance \in [Agents -> {"none", "draft", "change", "stop", "remove"}]
  /\ saw \in [Turns -> Status] /\ inner \in [Turns -> BOOLEAN]
  /\ bound \subseteq Sessions /\ holder \in [Sessions -> Turns \cup {NoTurn}]
  /\ exclusive \in [Agents -> Turns \cup {"keeper", NoTurn}]
  /\ {frozen, pty, used} \subseteq SUBSET Agents
  /\ access \in [Agents -> Nat] /\ viewers \in [Agents -> 0..MaxViewers]
  /\ \A a \in Agents : ToSet(line[a]) \subseteq Turns \cup {"keeper"}
  /\ box \in [Agents -> [status : Status, live : BOOLEAN]]
  /\ keeper \in [Agents -> {"none", "lined", "check", "kill", "clear"}]
  /\ idleSaw \in [Agents -> Status]
  /\ upkeep \in 0..MaxUpkeep /\ faults \in 0..MaxFaults

At(t, places) == turn[t] \in places

\* Every lease, access and place in a queue belongs to somebody who is still
\* under way and will give it back, on every path of success, refusal, abort and
\* failure: a leaked one would lock out an Agent until the process restarts.
Accounted ==
  /\ active = {t \in Turns : ~At(t, {"none", "queued", "pending", "ended"})}
  /\ ToSet(pending) = {t \in Turns : At(t, {"pending"})}
  /\ IsInjective(pending)
  /\ \A s \in Sessions :
       LET holders == {t \in Turns : SessionOf[t] = s /\ (At(t, {"running"}) \/ inner[t])}
           binders == {t \in Turns : SessionOf[t] = s /\ At(t, {"binding"}) /\ s \notin bound}
       IN  IF holder[s] = NoTurn THEN holders \cup binders = {}
                                 ELSE holders \cup binders = {holder[s]}
  /\ \A a \in Agents :
       LET inLine == {t \in Turns : AgentOfTurn(t) = a /\ At(t, {"lined", "starting", "booting"})}
           operating == {t \in inLine : ~At(t, {"lined"})}
                          \cup (IF keeper[a] \in {"check", "kill", "clear"} THEN {"keeper"} ELSE {})
       IN  /\ access[a] = viewers[a] + Cardinality({t \in Turns : AgentOfTurn(t) = a /\ At(t, {"reusing", "binding"})})
           /\ ToSet(line[a]) = inLine \cup (IF keeper[a] = "none" THEN {} ELSE {"keeper"})
           /\ IsInjective(line[a])
           /\ operating = IF a \in frozen THEN {First(a)} ELSE {}
           /\ exclusive[a] = IF a \in frozen THEN First(a) ELSE NoTurn
           /\ (keeper[a] # "none") <=> (maintenance[a] \in {"stop", "remove"})

\* A request is only left waiting while the loop sleeps if there is no place for
\* it: a release, an abort, an end of maintenance or new limits that arrive
\* while the loop awaits the settings are not lost (agent-execution-gate.ts:58).
WaitsForAReason ==
  drain = Idle =>
    \A i \in DOMAIN pending : unannounced \/ ~Available(pending[i], active, limits)

\* Turns that count on the sandbox of an Agent.
Users(a) ==
  {t \in Turns : AgentOfTurn(t) = a
                  /\ (inner[t] \/ At(t, {"reusing", "binding", "prepared", "running"}))}

\* No stop or removal takes the sandbox away under a turn that was promised it
\* or runs in it, or under a user's file or terminal.
Undisturbed ==
  [][\A a \in Agents : box[a].live /\ ~box'[a].live =>
       SandboxDies(a) \/ (Users(a) = {} /\ viewers[a] = 0)]_vars

\* A task that was submitted is not forgotten in a gate, however often it is
\* turned away: it runs or fails.
EveryTurnEnds == \A t \in Turns : []<>(turn[t] \in {"none", "ended"})
=============================================================================
