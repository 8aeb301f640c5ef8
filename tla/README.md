# ToolPlane: TLA+ models, model checking and proofs

ToolPlane is a self-hosted server, one Node process over one PostgreSQL database, that runs
AI Agents: people talk to them in a chat, in long-running Work sessions, through messaging
channels and triggers; Agents delegate to each other over A2A, locally or to remote servers;
their tools come from supervised MCP processes and sandboxes. What a unit test hardly reaches
in it is what happens *between* transactions: turns, schedulers, cancellations, leases,
crashes and recoveries that interleave over the same rows. This directory models those parts.

Paths below are those of the repository (`src/lib/...`); `PROJECT.json` writes each with the
repository's directory in front of it (`src/src/lib/...`). `PROJECT.json` lists the
components, the runs, for every definition the lines of code it stands for (`map`), for every
checked property a mutation of the model that breaks it (`mutants`), the findings, the
hazards with the properties that cover them, and the theorems.

Contents: 1 Inventory. 2 Modules and how they correspond to the code. 3 Runs, bounds, what
they show. 4 Fairness. 5 Findings. 6 Proofs. 7 What is only model-checked. 8 What is not
modelled. 9 Plan.

## 1 Inventory

### 1.1 Parts modelled so far

**A2A task store** (`src/lib/a2a/store.ts`, `model.ts`, `local-continuation.ts`).
State: the `A2ATask` rows (state of the A2A protocol, `executionPhase`, `leaseToken`,
`cancelRequestedAt`, deadline, what a waiting parent waits for, grant ancestry).
Operations: submission and delegation, continuation, claim, start, finish, suspension of a
parent until its children have settled, resumption, input requests, cancellation with a
cascade over descendants, deadline and phase sweeps.
Hard: every write takes the workspace row lock, but a turn, the scheduler and clients decide
on rows they read earlier, and a cascade races with a turn that is delegating.
Correct means: whoever ends or is stopped leaves no free work beneath it; a completed task has
joined its children; one active task per context; an ended task is never written again; no
phase is a trap; delegation does not deadlock.

**Agent worker** (`src/lib/agents/execution/worker.ts`, `executor.ts`).
State: `state.active` (an executor per claimed task), the scan of `reconcileLocalWaits`, the
process itself. Operations: the 500 ms tick (reconcile, sweep, admit), `executeAgentTask`
(claim, stage files, turn, finish), aborts, graceful stop, recovery of what was WORKING.
Hard: executors whose lease was taken away, staging that fails while a cancel lands, a crash at
every point. Correct means: two executors never share a sandbox session, a cancel is always in
somebody's hands, every task ends.

**Remote A2A execution** (`src/lib/a2a/remote-executor.ts`, `remote-wire.ts`).
State: remote columns of the row (dispatched, remote ids, cancel mark, observed outcome,
transfers), the observer's memory. The peer is external. Operations: claim, dispatch, send,
poll, forward a cancel, record what is observed, receive result files, give up.
Hard: calls that fail before or after the peer acted, replies that arrive late, a crash
between the mark and the send. Correct means: nothing is sent twice, the row never claims an
outcome the peer does not have, an old question is not shown as new, everything ends.

**Chat runs** (`src/lib/chat/run-control.ts`, `durable-tools.ts`, `service.ts`).
State: `ChatTurn` (status, lease, generation, stop), `ChatRunEvent` log,
`ChatToolConfirmation` ledger, runs in memory, subscribers. Operations: begin, claim, append,
tool calls (claim, dispatch, record), completion, failure, stop, recovery of a stale run,
subscription. Hard: a stop, a lost lease, recovery and completion race; a tool may have had its
effect without a record of it. Correct means: one ending, which the log, the row and every
subscriber agree on; effects at most once; the ledger tells the truth.

**Work sessions and coordinator** (`src/lib/work/sessions.ts`, `coordinator.ts`,
`run-control.ts`, the routes under `src/app/api/v1/work-sessions`, and
`src/lib/agents/execution/entries.ts` from its side).
State: `WorkSession` rows, their transcript, entry receipts, `CoordinatorState`, the registry of
abort controllers. Operations: create, input, resume, cancel (a route with awaits in between),
claim under the limits, the turn, its settlement, shutdown, restart.
Hard: two runs of one session can overlap. Correct means: answers are those of completed tasks
and given once, a stop stands and ends, limits hold, a saturated Agent blocks nobody else.

**Channel inbound queue** (`src/lib/agents/channel-inbound-queue.ts`) with what handles a
message (`message-service.ts`, the hosted runners of `channel-runtime.ts`).
State: `AgentChannelInboundEvent` rows (status, attempts, lease), the drains in memory, saved
replies, runners. Operations: accept, drain (claim, handle, complete, fail or queue again),
recovery timer, shutdown. Hard: a crash, a failed send or a lost update between the effect of a
message and the row that says it is done. Correct means: each message takes effect once, in the
order of its conversation, is answered or given up.

**Execution gates and sandboxes** (`src/lib/agents/agent-execution-gate.ts`,
`agents/sandbox-execution-gate.ts`, `agents/conversation-sandbox.ts`, `sandboxes/activity.ts`,
`sandboxes/lifecycle.ts`, the admission in `agents/execution/worker.ts`).
State, all of it in memory except the deployment of a sandbox: the list of requests for an
Agent and its loop, the leases, what maintains an Agent, the session holders and the exclusive
holder of a sandbox, open files and terminals, the queue of operations on each sandbox.
Operations: request, grant and release of a lease, abort, saved limits, drafts and changes of an
Agent; reuse or start of its sandbox, reservation of the session, the stop of an idle sandbox and
its removal. Hard: the loop awaits the limits while requests, releases and aborts go on; the
status of a sandbox is read, awaited upon and used; a stop for idleness races with a task that has
just been promised the sandbox. Correct means: nothing is lost or leaked on any path, nobody loses a
sandbox he counts on, and every task gets its turn.

**Runtime ownership** (`src/lib/runtime/owner.ts`, `runtime/ownership-state.ts`,
`scripts/start-server.cjs`).
State: the advisory lock on a database session, the marker `runtime.owner.<domain>`, the status of
the process. Operations: acquisition query by query, probe and loss, recovery, shutdown in
its stages, release. Hard: the database frees the lock of a session it drops while the old
owner still works; shutdowns that time out; a crash at any step.
Correct means: one owner, which finds nothing of its predecessor under way.

**MCP process supervisor** (`src/lib/process/supervisor.ts`, `process/reconcile.ts`). State: in memory
the store of children, a queue of operations per deployment, tombstones, the associations of private
processes with the deployment they were made from, statuses to be written; on disk a registry file and
a launch lock per process; in the database the status. What is on disk or in the database outlives a
crash, and so do the children. Operations: start, stop, restart, kill, sweep of a shutdown, recovery
at a start; the lines and exits of children. Hard: operations that wait for each other's, launches
that go on under a stop, a kill or a shutdown, lines and exits that arrive late, a recovery or a
launch that cannot go through with what it began. Correct means: at most one child of a deployment,
none of one that was killed, a table that tells the truth, operations that end.

### 1.2 Interactions

    people, API, channels, triggers                          remote A2A servers
        |           |                                              ^
        v           v                                              | RemoteTask
    Work sessions   channel inbound queue                          |
     (coordinator)   (drains)            delegation tools          |
        |             |                        |                   |
        +--- entries (receipts) ---------------+-> A2A task store -+
                                                    ^   |  claims, leases
                                                    |   v
                       Agent worker -> lease of the Agent -> sandbox -> session -> turn
                                          (AgentGate)          (SandboxGate)
    chat requests -> chat runs (own lease, event log, tool ledger) -> MCP tools
                                                                        |
    server process: RuntimeOwner (lock, marker) -> Supervisor (queues) -> MCP processes

All parts share the database and one process (`runtime/owner.ts`: one process owns the
runtime; everything else asks `assertRuntimeOwner` before it begins anything). Submission to the
store goes through `entries.ts`, which keeps a receipt per source message, so that whatever is
submitted again gets the same task. Work and channels then *poll* the task
(`observeAgentEntry`); the worker is woken by its own timer. Chat runs do not use the task
store. A sandbox is a deployment of the supervisor, started through `startProcess`;
`SandboxGate` keeps of it a status and whether it lives.

### 1.3 Parts not modelled

Listed with the reason in section 8. Those with a state machine of their own (triggers,
conversation operations, public API runs) are in the plan, section 9.

## 2 Modules and how they correspond to the code

| Module | Stands for | Uses |
| --- | --- | --- |
| `A2AStates` | states and transitions of a task (`a2a/model.ts`) | |
| `TaskTree` | abstract specification of the task store | `A2AStates` |
| `A2ATasks` | local task store, continuation, worker | `A2AStates`, `INSTANCE TaskTree` |
| `A2ATasks_proofs` | theorems: types, the tree of tasks | `A2ATasks`, TLAPS |
| `A2ATasks_turns` | theorems: turns and contexts, the refinement of `TaskTree` | `A2ATasks_proofs` |
| `RemoteTask` | one task delegated to a remote server | `A2AStates` |
| `RemoteTask_proofs` | theorems: messages, outcomes, questions | `RemoteTask`, TLAPS |
| `ChatRuns` | the turns of one chat thread | |
| `ChatRuns_proofs` | theorems: logs, calls, verdicts | `ChatRuns`, TLAPS |
| `WorkSessions` | Work sessions, coordinator, native tasks seen from their entry | |
| `WorkSessions_proofs` | theorems: registry, answers, stops | `WorkSessions`, TLAPS |
| `ChannelInbound` | inbound queue, handlers and runners | |
| `ChannelInbound_proofs` | theorems: once, in order | `ChannelInbound`, TLAPS |
| `AgentGate` | admission of turns to an Agent | |
| `SandboxGate` | from a queued task to its turn in the sandbox, and the sandbox's keeper | extends `AgentGate` |
| `SandboxGate_proofs` | theorems about both gates | `SandboxGate`, TLAPS |
| `RuntimeOwner` | one server process of a domain owns the runtime | |
| `Supervisor` | the children of deployments, recovery and shutdown | extends `RuntimeOwner` |
| `Supervisor_proofs` | theorems: one owner, one child, kills that hold | `Supervisor`, TLAPS |
| `MC*` | the small instances (symmetry sets, constant functions) | |

Conventions. A transaction is one action: the code takes a row lock (`lockTask` on the
workspace, `FOR UPDATE` on a turn) or a conditional `updateMany`, and nothing else can come
between. Whatever lies between two transactions of the same actor, every await included, is a
place where any other action may happen. What one actor remembers across an await is state of
its own (`exec`, `scan`, `poll`, `run`, `drain`, `saw`, `at`), never re-read from the row unless the code
does. A definition whose comment calls it a mutant, or that precedes the definition it varies,
is not used by any specification: it is the plausible bug a property must notice.

### 2.1 A2ATasks

`task` is the table: one record per row with its protocol state, phase, parent, grant
ancestors, context, lease, cancel mark, whether the deadline passed, the tasks waited for, an open
question and the number of resumptions. A row that does not exist is `NoRow`. `exec` is
`state.active`; `scan` the rows a pass of `reconcileLocalWaits` read and has not visited yet;
`process` is up, stopping, down or recovering.

- Clients: `SubmitRoot`, `Delegate` (called by a running turn; `submitTaskInTransaction` checks
  that the parent holds its lease and the grant's ancestors still want work), `ContinueTask`,
  `CommitTaskCancellation` (with `CancelLocalDescendants`).
- Executor: `Admit`, `ClaimTask` / `ClaimRefused`, `StartTurn` or `DeferTaskFileStaging`,
  `RequestLocalWait`, `RequestLocalInput`, `Abort`, `ExecutorThrows`, and the outcomes of
  `finishTask` and `suspendLocalTurn`: `FinishStale`, `FinishFailed`, `FinishCompleted`,
  `FinishPaused`, `FinishWithQuestion`, `SuspendLocalTurn`.
- Scheduler: `ScanWaits` and `ReconcileRow` (the read and the visit are two steps, which is what
  makes the row stale), `StopRow`, `SweepExpired`, `ReceiveFiles`, `RetryFiles`, `Expire`.
- Process: `StopAgentWorker`, `Crash`, `Restart`, `RecoverTask`, `StartAgentWorker`.

Every cascade is part of the action that causes it. A turn is what its tools do and how it ends;
what the model answers is left out. Observed and without a property of its own:
`reconcileLocalWaits` may call `interruptTask` on a row that was claimed again since it was read
(`local-continuation.ts:253` against the comment at `store.ts:795`): the executor is then stale
and its finish writes nothing, which `TerminalFrozen` covers.

`ScanWaits` reads every suspended row, where the code takes 32 of them at a time
(`local-continuation.ts:228`): with more than 32 trees waiting, whether each of them gets its turn is
not covered by `EveryTaskEnds`.

`TaskTree` is what the store promises, without phases, leases, executors or processes: tasks are
admitted only beneath ancestors that are open, move along `assertTransition`, complete only with
nothing open below, and whoever halts takes everything below along in the same step. `A2ATasks`
implements it under `st <- state`, `stop <- cancel requested and not ended`,
`above <- grant ancestors` (`ImplementsTree`).

### 2.2 RemoteTask

`row` is the local row, `exec` the executor that claimed it, `poll` the observer, `peer` the other
server (external: what it may do is taken from what the code expects of it). Calls are actions of
their own: `SendMessage`, `PeerTakesCancel`, `GetTask`, and may fail before the peer acts, after it,
or be answered late (`PeerAnswersLate`). `Dispatch` marks the row before the message leaves,
`MarkCancelSent` before the cancel does; `RecordReply` and `RecordPoll` project a report onto the row
(`Record`, from `recordObservation`); `PollFails` counts towards the point where observation is given
up; `ReceiveFiles`, `SweepExpired`, `SweepDelivery` end what waits. A recorded report whose files are
not here keeps its reader until `stageTaskFileTransfers` has returned (`Staging`, with `StagingEnds`
for the executor and `PollEnds` for the observer), while the row, which is nobody's since the commit,
goes on. Continuations give the row and the peer a round number, which tells an old question from a
new one.

### 2.3 ChatRuns

`turn`, `events` and `conf` are the three tables; `exec` is the run in this process, `tool` its
calls, `effects` how often a call reached its tool, `sub` one subscriber. The run's end is three
steps as in the code: counting open calls (`CountOpenCalls`), the conditional completion
(`CompleteChatTurn`), or the way through `MarkUnknown` and `FinishChatTurn`; a stream that has ended of
an Agent that did not succeed takes a way of its own (`FinishUnsucceeded`), and the transaction of either
may fail (`FinalizeFails`). `Abort` has two outcomes at any time: an `AbortError`, which the owner's
shutdown gives as well as a stop, ends the turn as cancelled, any other as failed. A lease has a
generation (`gen`), `Holds` is the fence every write of a run carries. `LeaseExpires` may happen
while the run goes on: the process stalled. `CheckStatus` reads the status *after* `ReadEvents`
as `subscribeChatRun` does.

### 2.4 WorkSessions

`row` and `talk` are the session and its transcript, `task` the native task of each user message
(an entry receipt exists once it is not "none"), `run` one record per call of `runClaimedWork`,
`active` the coordinator's map, `ctl` the registry of controllers, `route` the cancel route
between its awaits. The run's pc names the next await: read, check, submit, observe, abort, append,
finish, fail, settle, leave. `ClaimNextWork` takes the oldest queued session within the
limits. A task that asks for input answers a turn as a completed one does, and what continues it
counts as a new message. Observed and without a property of their own: a cancel route that
aborts late hits a later run, whose session then stays running until it is cancelled again or the
process restarts; and the queue is ordered by `createdAt`, so endless resumes of old sessions
starve a young one (`MaxRequests` ends such a sequence).

### 2.5 ChannelInbound

`row` is the table (status, attempts, whether an unexpired lease is held), `drain` the entry of each
queue in `active` and the message it is on, `receipt`, `reply`, `effects`, `delivered` and `refused`
what became of each message. `Take` is the read and the claim of the head of the queue; `RunCommand`
the mutation and its receipt in one transaction; `RunTurn` the submission with its receipt;
`SaveReply`, `SendMessage`, `Complete`; a hosted runner answers a handler that throws with a notice
(`Apologize`); `FailAttempt` puts a message back, or gives it up when it has no attempt left, and
after a shutdown or any AbortError puts it back and ends the drain as well; a `Leave` ends a drain
otherwise. The faults are `Crash`, `Shutdown`, `StopRunner` and `LoseUpdate` (the update that
completes a row fails). Hosted connections have a runner that may be absent; a callback connection
only leaves the reply in the row. A command without an effect is one of the refused, and a command of
the runtime (`executeRuntimeCommand`, `message-service.ts:700`), which submits before its reply is
saved, is one of the turns. The heartbeat of a lease is present as a lease that does not expire while
its message is handled. Observed and without a property: attempts that a clean shutdown interrupted
count, so three restarts in one turn give a message up, although the code says that aborting an
observer is not a failed execution (`message-service.ts:1026`).

### 2.6 AgentGate and SandboxGate

Both gates live in the memory of one event loop: what happens between two awaits is one action.
`AgentGate` has `pending`, `active`, `dirty` and the maintenance of each Agent as the code names
them; its loop (`drain`) is idle, has asked for the limits, or has its answer, and `Refresh` is
`refreshAgentExecutionLimits`: it enters an idle loop and marks a busy one as `dirty`. `Pass` says of
a set of positions that one pass over the requests, in their order, grants exactly these: each has
a place beside the leases that are held and those granted before it. Of the others, a *patient*
request stays in the list, in its place among those that stay (`Waiting`, `Ordered`), and an
impatient one is rejected as busy.
`SaveLimits` and `AnnounceLimits` are two steps, as the row is written before the gate is told.

`SandboxGate` composes it with what lies between the lease and the turn. `turn` is where each task
is: queued, pending, granted; allocated with a status of the sandbox that it *read* (`saw`), then
either `reusing` and `binding` (the fast path of `ensureAgentConversationSandbox`, under an access) or
`lined`, `starting`, `booting` (the queue of `lifecycle.ts`, which holds the sandbox exclusively and
frozen); prepared; running. A turn that runs makes sure of the sandbox again (`EnsureAgain`,
`inner`), under the session it already holds (`Own`, from `inherited()`). `keeper` is the stop or
removal of a sandbox: `ReadIdle` reads the idle ones, `KeepIdle` decides later, then
`BeginKeeping`, `CheckKeeping`, `KillProcess`, `FinishKeeping`. Each Agent has one sandbox, and one that
was removed stays gone, although a task that was promised it may still be submitted (`Submit` asks nothing
of it): its conversations are deleted with it, and the fresh sandbox of another conversation would be one
more sandbox of the same kind. `LineUp` and `DeleteSandbox` take the maintenance of the Agent and the place
in the queue in one step, where a deletion awaits queries between them (`conversation-sandbox.ts:778-955`): the Agent
is closed to turns by then, and an access that somebody begins in that window comes before both here.

Observed and without a property: a task on the slow path that meets a short access of another
session gets the plain error of an active file or terminal (`lifecycle.ts:34`), which for
`executeAgentTask` is not "busy" but the end of the task; and a pass that read "stopping" looks at
neither the terminal nor the time of the last use.

### 2.7 RuntimeOwner and Supervisor

`own[p]` is what `RuntimeOwnershipState` and `RuntimeOwnerLease` of a process hold: its status,
whether the shutdown is uncertain, how far the acquisition is (connect, lock, read, write,
recover), what the operator acknowledges, its database session, the stage of the shutdown, whether
it was clean. `holder` and `marker` are the lock and the row. `SessionBreaks` frees the lock at
once; the process finds out at its next query (`QueryFails`) or probe (`Notice`).

`Supervisor` adds what such a process does. `queue[p][s]` are the lifecycle queues, whose first
element is under way at step `at[p][s]`; a start is checking, preparing (everything awaited between
the look at the store and the last look at the tombstones), spawning, and holds the launch `lock` from
the second step on; a stop is terminating its own child, then the one that the registry has if it is
another (`second`, `StopOther`), persisting, for a private process releasing its container; a restart
then waits for the stops of the private processes it caused. `children` is the history of all child
processes with what the supervisor has heard of each; `registry` outlives a process, `entry`, `queue`,
`tomb`, `source` and `writes` (the statuses `persist` writes behind) do not. `Recover` is
`reconcileDeployments`, `Sweep` and `EndSweep` are `shutdownOwnedProcesses`. Every step that can fail
has its failure: `CheckFails` (an inactive workspace, or a query), `PrepareFails`, `SpawnFails` (the
lock is released, or stays when the settings awaited at 1856-1873 cannot be read), `TerminateFails`,
`ReleaseFails`, and in the recovery `RecoverySkips` (a spec that cannot be resolved, a sandbox that is
only read). `untold` is a history variable: the deployments that this process has passed over, in the
recovery or at a lock that a launch has left behind, and of which it has written no true status since.
What the operator promises with an acknowledgement (`Acknowledged`: that the process is gone and has
left nothing behind) is a premise of `Boot`, and `OperatorEnds` lets him see to it.

Choices worth knowing: a lock names its process and does not count once that is dead or ten minutes have
passed (`Locked`, `LockExpires`), however long that takes in the model; an exit with code 0, which
writes "stopped", is written as "error". Left out are database writes that fail (they are logged and
lost), a registry file that cannot be written, callers in the context of maintenance other than the
recovery itself (callbacks and timers created during it, `ownership-state.ts:147`, which may ask while the
process recovers), callbacks of readiness, specifications and logs. In `RuntimeOwner`, `QueryFails` stands
for each query of the acquisition and for a connection that fails.
A private process can be started, stopped and restarted with its source, and has no row.

## 3 Runs

A bound is a CONSTANT named Max... in the module, and it caps how often something from outside
happens; guards of the code that use a limit (`MaxDepth`, `MaxResumes`, `MaxAttempts`,
`MaxQueued`, `MaxTotal`, `MaxPerAgent`, `MaxFailures`) are part of the behaviour and only
given small values. `Spawn` launches at most `MaxChildren` children: beyond that nothing is spawned,
where the operation would wait.

| Run | Instance | Distinct states | Shows |
| --- | --- | --- | --- |
| `tasks_tree` | 3 tasks, depth 2, 1 lease, staging may fail, no restart | 1,650,619 | `NoOrphanedWork`, `ChildrenAreJoined`, `SessionExclusive`: three generations, or a parent with two children, cancelled, failed or completed at every point |
| `tasks_process` | 2 tasks, 2 leases, 1 resumption, 1 restart, files, fair | 128,679 | `TypeOK`, `OneActivePerContext`, `TerminalFrozen`, `ImplementsTree`, `EveryTaskEnds` |
| `tasks_cancel_lost` | 2 tasks, staging may fail | counterexample | finding 1 |
| `remote_task` | 2 messages, 2 batches of files, 1 tolerated poll failure, 1 crash, fair | 868,378 | `TypeOK`, `SentAtMostOnce` (messages and cancels), `OutcomeIsThePeers` (with its files), `QuestionIsCurrent`, `EveryRemoteTaskEnds` |
| `chat_turn` | 1 turn, 2 calls, logs up to 3, fair | 1,168,239 | `TypeOK`, `OneEnding` (and a stop wins), `OutcomesAreHonest` (and effects happen once), `VerdictIsCertain`, `SettledFrozen`, `SubscriberEnds` |
| `work_turns` | 1 session, 2 overlapping runs, 2 messages, 2 requests, 1 restart, fair | 597,888 | `TypeOK`, `AnswersAreHonest`, `StopStands`, `StartsUnanswered`, `CancelEnds` |
| `work_queue` | 3 sessions of 2 Agents, one never ending its tasks, fair | 769,783 | `SaturationIsLocal` |
| `inbound` | 1 queue, a turn and two commands, 2 attempts, 2 queued, 2 faults, fair | 771,806 | `TypeOK`, `AnsweredOnce`, `InOrder`, `EveryMessageSettles` |
| `gates` | 2 sessions of an Agent with a task each, one patient and one that may be cancelled, 1 viewer, 2 upkeeps, 1 fault, fair | 203,764 | `TypeOK`, `Accounted`, `WaitsForAReason`, `Undisturbed`, `EveryTurnEnds` |
| `runtime` | 2 server processes, 1 deployment, an operation asked of each, 3 children, 1 fault | 1,378,508 | `TypeOK`, `OneOwner`, `OneChild` (with the exception that finding 2 makes), `StatusAgrees` (with those that findings 2, 6, 7 and 8 make) |
| `supervisor` | 1 process, 1 deployment and a session that uses it, 3 operations, fair | 344,043 | `KillHolds`, `EveryOperationEnds` |
| `orphan` | 2 processes, no fault | counterexample | finding 2 |

Six more configurations are kept beside these for a reader to run; each ends in a
counterexample and is described in section 5: `remote_retry.cfg` (module `RemoteTask`),
`work_limit.cfg`, `work_resume.cfg` (`MCWorkSessions`), `supervisor_dead.cfg`, `recovery_skips.cfg` and
`launch_lock.cfg` (`MCSupervisor`).

Why the bounds are enough to be interesting:

- *Tasks.* A cascade needs a grandparent, a parent and a child (3 tasks, depth 2); a stale scan
  needs one resumption after the scan; a stale executor needs a second lease. With a
  crash, files and two leases the third task adds states and no new kind of event, so the run with
  the process has two. There staging does not fail: finding 1 would leave its cancelled task
  waiting for a restart. `SYMMETRY` is used only in the run without liveness.
- *Remote.* The second message makes answers to the first one late; two batches of files make a
  partial reception; one crash between every pair of steps; one tolerated failure, where the
  code tolerates four, reaches both the retry and the giving up.
- *Chat.* The turns of a thread share no row except through the guard that the last one has
  ended, so one turn with all its competitors is the case; two calls are needed for one to be
  open when the other fails.
- *Work.* Overlap needs two runs and a second message; the cancel and the resume are the two
  requests; a saturated Agent needs a session more than it has places, beside another Agent's.
- *Inbound.* Overtaking needs two messages of one queue, and the third finds the queue full; two
  faults are enough for a crash during the recovery of another.
- *Gates.* Two sessions are the least that share a sandbox; limits of one and of two make the
  same pair wait for each other or not; two upkeeps are a stop that meets a removal, a draft
  or new limits; one fault lets the sandbox die while the fast path trusts it.
- *Runtime.* Two processes are the least for a takeover; two operations are the least that can race,
  and what the second process is asked for meets the start that its recovery has launched; three
  children are one for each request and one for the recovery; one fault is a launch that fails and leaves
  its lock, a recovery that skips, a child that dies or a stop that does not end it.
- *Supervisor.* A start, a kill and a start of the session are the three operations that meet in
  `KillHolds`; a restart that waits for a stop needs the session.

In the models of unbounded duration (`CHECK_DEADLOCK FALSE` in all runs but those of the task store)
the system may really stop: everything has ended and the bounded requests are used
up. In the task store the scheduler never stops and deadlock is checked.

## 4 Fairness

Fairness is stated only for what the code schedules itself; what people, models, peers or
platforms do is never assumed, unless as the premise of the property that needs it.

- `A2ATasks!SchedulerFairness`: the 500 ms tick reads and visits every row; a process that was told
  to stop stops, one that is down is restarted by its supervisor, and a started one recovers; an
  executor with an aborted signal ends. `EveryTaskEnds` says what it adds: that deadlines pass, or
  that files arrive, turns end, and a task that is ready again and again is claimed in
  the end (strong fairness, since a session that is busy at one tick may be free at the next).
- `RemoteTask!Fairness`: ticks, calls that return or time out (all have a timeout), time that
  passes the deadline and the retention of the context. The peer is under no fairness.
- `ChatRuns!Fairness`: a subscriber polls and recovers what is stale, a run goes on (it has
  a deadline of its own), the lease of a run that is gone expires, and time passes.
- `WorkSessions!ProcessGoesOn`: the coordinator is kicked every second, runs and the cancel
  route go on. Native tasks settle, except those of the Agents in `Slow`; that they settle is
  `EveryTaskEnds`. A restart is never assumed.
- `ChannelInbound!FairSpec`: drains go on (a turn that is observed ends, by `EveryTaskEnds`), the 30 s
  recovery timer starts them, leases expire, a process that stops exits. That a runner or the process
  comes back is not assumed: `EveryMessageSettles` says so.
- `SandboxGate!FairSpec`: awaits return, the worker ticks, maintenance ends. A turn ends (strong
  fairness: it has a deadline, whatever it does meanwhile). And a task that finds its session free
  again and again reserves it in the end (strong fairness of `Reserve` where the session is free):
  without it TLC shows two tasks that alternate for ever, each frozen out of the fast path by the
  other's start, which finds the sandbox running, and each finding the sandbox exclusively
  held when it comes to reserve. The code has nothing against it but its timing.
- `Supervisor!Fairness`: an operation that has begun goes on, a child that was killed ends, the
  database answers. Nobody has to ask for anything, and nothing is assumed of the owner.

## 5 Findings

The first two are runs that end in a counterexample, and quote the statement of the repository
they refute (`PROJECT.json`, `findings`). The others are configurations that a reader can run.

1. `tasks_cancel_lost`, `store.ts:319`. A cancel that lands while the files of a claimed task are
   being staged, and staging then fails: `deferTaskFileStaging` writes nothing, the executor
   returns, and the row stays WORKING/executing with a lease and nobody behind it until the process
   restarts. "The worker settles it." (`store.ts:795`) does not hold.
2. `orphan`, `supervisor.ts:1960`. A launch that prepares its volume while the server shuts
   down spawns its child after `shutdownOwnedProcesses` has ended those it found, and before the
   drain, which then finds nothing pending: the shutdown calls itself clean, removes the marker and
   exits, and the child lives on. The next owner needs no acknowledgement, although a start is
   meant to "confirm external operations have ended" (`owner.ts:74`), and takes the registry file
   it finds for another worker's. A third process can then come to launch a second child beside the
   orphan, of which only the registry file tells: the exception in `OneChild` (`ThirdLauncher`).
3. `remote_retry.cfg`, `remote-executor.ts:227`. A task whose cancel was requested and whose peer
   completed with files nevertheless waits for files that both reception and retry refuse because
   of the cancel mark, against `store.ts:1393` ("Its retained file reception remains retryable").
   The retention of the context ends it as FAILED.
4. `work_limit.cfg`, `coordinator.ts:779`. A session claimed again while its last run has not left:
   the leaving run deletes the entry of the new one, and more sessions run than the limit. The same
   root makes two runs of a session overlap.
5. `work_resume.cfg`, `sessions.ts:650`. A session interrupted by a restart and resumed, as its
   message says (`coordinator.ts:865`), is handed the task the restart failed, by the receipt of
   its last message, and fails again without executing anything.
6. `supervisor_dead.cfg`, `supervisor.ts:1723`. Whether a child lives is judged by
   `exitCode === null` (also at 1778 and 2029), which is true for ever of a child that was ended by
   a signal, such as the kernel's when memory runs out; `childTerminated` (1350) knows the other
   half, `signalCode`. A start of such a deployment returns without launching anything, until a stop
   or a restart, although "a deployment already supervised is skipped" (`reconcile.ts:79`) means
   one that runs; `ensureAgentConversationSandbox` (`conversation-sandbox.ts:657`) then goes on
   with a sandbox that is dead. `StatusAgrees` leaves such a child (`Deceased`), and those of
   finding 2 (`ItsOwn`), out.
7. `recovery_skips.cfg`, `reconcile.ts:95`. The recovery is there so that "the live state matches what
   the DB (and the UI) claims", and a failure "flips that one to 'error'" (`reconcile.ts:77-80`;
   "startProcess persists 'error' on failure", `reconcile.ts:96`). But the spec of a deployment is
   resolved before `startProcess` is called (89), and resolving throws where a credential is missing or
   invalid, a migration is needed or a secret cannot be decrypted; a sandbox that is only read is filtered out
   (47, 87); and a launch returns or throws before it writes anything where the workspace is not active
   or a query fails (`supervisor.ts:1712-1719`). The owner becomes ready, and the row says "running" of a
   deployment that has no child, until somebody starts or stops it.
8. `launch_lock.cfg`, `supervisor.ts:1856`. The settings of a launch (1856-1873) are awaited outside
   the block that gives the launch lock back. When one cannot be read, the operation fails, nothing is
   written and the lock stays; a start within the next ten minutes takes it for the lock of somebody who is
   about to launch ("surface provisioning until that worker publishes a registry or reports its own
   failure", 1757-1759), writes "provisioning" and launches nothing. Nobody reports anything.

Both of the last refute `NonePassedOver`, that is `StatusAgrees` without its last disjunct. `StatusAgrees`
excuses no more than they make necessary: a row may be wrong only of a deployment *without* a child that
*this* process has passed over (`untold`), and no longer than until its next launch, stop, line or exit. That
a restart, a late line or a replaced child makes any other row wrong is what it still excludes, and what
`StatusAlwaysAgrees` proves.

## 6 Proofs

TLAPS checks 32 theorems for every value of the constants that the named assumptions of the
modules allow. Those assumptions say no more than that null values are not identities, that
limits are naturals and functions have their types, and: tasks and turns are finite sets
(`ConstantsOK`, `GateConstants`), there is a message to send (`MaxMessages > 0`), room for one
in a session (`MaxInputs > 0`), and limits of an Agent let somebody in (`Limits`, as the
settings do). TLC evaluates each of them in the runs. All safety invariants and action
properties that the passing runs check are proved; what the proofs of a component have in common
is one inductive invariant, of named parts.

| Module | Invariant | Theorems |
| --- | --- | --- |
| `A2ATasks_proofs` | `TreeInv`, `Known` | `TypeCorrect`, `NothingOrphaned`, `NothingRewritten` |
| `A2ATasks_turns` | `TurnInv` | `SessionsAreExclusive`, `OneActiveAlways`, `ChildrenJoinedAlways`, `StoreImplementsTree` |
| `RemoteTask_proofs` | `RemoteInv`, `CurrentInv` | `RemoteTypes`, `SentOnceAlways`, `OutcomeAlways`, `QuestionAlwaysCurrent` |
| `ChatRuns_proofs` | `ChatInv` | `RowsInType`, `EndsOnce`, `OutcomesAlwaysHonest`, `VerdictAlwaysCertain`, `SettledStaysFrozen` |
| `WorkSessions_proofs` | `WorkInv` | `RegistryIsCurrent`, `AnswersAlwaysHonest`, `RunsStartUnanswered`, `StopAlwaysStands` |
| `ChannelInbound_proofs` | `InboundInv` | `QueuesInType`, `AlwaysAnsweredOnce`, `AlwaysInOrder` |
| `SandboxGate_proofs` | `GateInv`, `BoxInv` | `GatesInType`, `AlwaysAccounted`, `AlwaysWaitsForAReason`, `NeverDisturbed` |
| `Supervisor_proofs` | `OwnerInv`, `KidsInv`, `TypesInv`, `KillsInv`, `StatusInv` | `OneOwnerAlways`, `OwnerTypesAlways`, `OneChildAlways`, `TypesAlways`, `KillAlwaysHolds`, `StatusAlwaysAgrees` |

### 6.1 The task store

`NoOrphanedWork` is not inductive. A cascade closes the tasks that carry `t` among
their ancestors, so its result depends on how ancestries hang together: one that omitted
the ancestors of an ancestor would leave a grandchild running. `Lineage` says that rows that
do not exist are `NoRow`, ancestors exist, ancestries are transitively closed, and that below each
ancestor there is a child of it in the chain (which is why a task whose *children* have all ended
has only quiet *descendants*, the case of a completion). The inductive invariant is
`TreeInv == TypeOK /\ Lineage /\ NoOrphanedWork`, with `Known` (a row of an executor or of the scan
is born) beside it. Steps are proved by what they do to the tree: `CalmStep` (nobody becomes
quiet), `QuietStep` (one task becomes quiet with all below it), `CascadeStep`, `CloseStep` and
`InterruptStep` (cancel, end, interrupt), `CompleteStep` (all children ended), `BirthStep` (a new
row beneath open ancestors). `ClientTree`, `ExecutorTree`, `SchedulerTree`, `ProcessTree` assign
each action of a group to one of them, `TreeNext` combines them, and each lemma also gives that
ended rows are left alone, from which `NothingRewritten` follows.

`A2ATasks_turns` goes on from there. `RowsFit` says what the columns of one row say about each
other: the phase determines the protocol state, an execution has a lease, a suspended turn something
to wait for. `Kind` then names what a step can do to the rows (open a task, move one, complete one,
halt one with all below, or nothing), `StepKind` that every action is one of these, and each part
of `TurnInv` is proved of the kinds and not of some thirty actions. `Sessions` is why sessions are
exclusive: the session of a context is taken before the *claim* and kept until the executor is idle,
so that it excludes executors that were admitted and have claimed nothing, and those whose task was
taken away. `Waits` and `Rooted` (a turn waits for its own children, no task is its own ancestor)
carry `ChildrenAreJoined`. The refinement: each kind of step, seen through the mapping of section
2.1, is a step of `TaskTree` or leaves its variables alone; `NoOrphanedWork` supplies that whoever
is admitted stands beneath open ancestors only, and `ChildrenAreJoined` that a completion has
nothing open below.

### 6.2 A remote task

`RemoteInv` is `TypeOK` with four parts. `Sending`: a message is
marked (`sent`) before it leaves and marks only grow, so an executor that holds the mark finds that the
peer has taken nothing of that number; what was taken is marked. `Cancelling`: the same for a
cancel and its mark (`cancelSent`), which the next message takes away, after which the old
number is below `sent` and out of reach. `Heard`: the peer knows only of tasks that are marked as
dispatched, and only those are polled; this is why a cancel before the dispatch may be shown at once.
`Outcome`: every report under way is `Trusted`, that is, an end it speaks of is the end the peer
still has, with the same files; so recording it late does no harm, nor does holding it back for
its files. `SettleRow` to `InterruptInv` say what the ways to end a row preserve, `RecordInv` what
recording a report does, `PollInv` what only the observer remembers; there is one lemma per
action, `NextInv` combines them.

`QuestionIsCurrent` needs the crash-free half of the story, `CurrentInv`. `Holding`: the row is held
by the one executor or by nobody. `Rounds`: the peer's round is the number of the last message sent,
but for the one that is on its way, which the executor alone holds; so a report that is recorded
while nobody executes was made after that message. A poll that began before a continuation is told
apart by its number, which is below `sent` by then.

### 6.3 Chat runs

`ChatInv` says turn by turn: the generation counts the claims (`ClaimedOnce`); the log has text
while the turn is open and the closing event of its status at the end (`LogFits`); the ledger of
each call agrees with what is in flight and what the tool did (`CallFits`); and how far the run has
come says what its calls can still be (`RunFits`). The last is what recovery, stop and completion meet in:
that a run which counted its open calls may complete rests on no call being in flight from the count
to the completion, however the row is taken away in between. `CallMove` is a step that concerns one call,
with one lemma per transition.

### 6.4 Work sessions

Runs of one session may overlap, so nothing can be said of *the* run. `WorkInv` says of each run that
its message was sent and that it holds an answer only of a task that completed (`RunFits`), of the
registry that it has a run of that very session, which has begun and not left (`Registered`), and of
the transcript that its open message is the last and unanswered (`TalkFits`). `Onward` (no message is
taken back, a completed task stays completed) is what lets a run that was superseded write its answer.
The two action properties follow from it: `RunsStartUnanswered` as only `ReadWork` brings a run to its
check, and `StopAlwaysStands` by looking at every step that writes a status.

### 6.5 The inbound queue

`MessageFits` ties the effects of a message to what keeps them: the reply of a command, the receipt of
a turn. `Numbered` bounds the numbers given by the number of accepted rows, so that a new message
comes after all others. `InOrder` speaks of effects; inductive is that whoever is *handled*, or was
touched in any way, has nothing unsettled before it in its queue (`Earlier`), which `Take` establishes
by choosing the oldest open row and which holds through crashes and given-up attempts as a settled row
is not opened again.

### 6.6 The gates

`GateInv` is about the memory of the gate: who holds a lease and who waits (`Leased`), that
nothing executes in an Agent under maintenance (`Calm`), and that the limits the loop has read are those
that hold, or it comes round again (`Informed`). `WaitsForAReason` is not inductive without the last
two: after a pass that used old limits the loop might sleep while there is room. A pass is
characterised by the positions it grants; that it leaves nobody who has a place needs the monotony
of `Available` (fewer leases never take a place away), a lemma about finite sets.
`BoxInv` accounts for what each turn and each keeper hold in the sandbox: the session exactly while
the turn runs or binds (`SessionsFit`), the accesses by their *number* (`AccessFits`, a cardinality), the place
in the queue and the exclusive lease of the first of it (`LineFits`). Each of its lemmas says what one
turn's move does to these. `Accounted` is then a consequence; `NeverDisturbed` follows as the keeper
kills or clears only under the exclusive lease, which excludes accesses, and in a maintained Agent,
which excludes leases.

### 6.7 Ownership and supervisor

*One owner.* The lock does not carry an induction: the database may drop the session of an owner, the
lock is free, and the old owner goes on. `MarkedBy(p)` is what does: whoever operates, or has an
operation under way, is up and its identity is the *marker*; the lock protects only the window
between its taking and the write of the marker (`reading`, `writing` with an open session), in
which the marker is absent or the acknowledged one; and whoever is acknowledged is dead, by the
operator's promise. So `WriteMarker`, the one step by which a process begins to operate, finds that
the marker it overwrites belongs to nobody who is alive, and that nobody else is about to
write. `Release`, the one step that removes a marker, does so only after a clean drain, that is
without anything pending. `Onward` adds that a shutdown is never undone. `GoesOn` and `BecomesMarked`
are the two ways in which a step may change one owner, `CalmInv` and `StepInv` say what an
operation of the supervisor may do; `ProcessInv` and `NextInv` assign every action to them.

*One child.* A child that is alive was launched by the owner of the marker, or is an orphan
(`Attributed`); its process has it in the store (`Held`); and the registry has it (`Filed`), as long
as one process has launched all children of its subject. Two launches are `Ordered`: the second of a
process comes when the first has been told to stop, and that of another process when the earlier one
launches nothing any more. `Cleared` spans the awaits of a launch: between the look at store and
registry and the launch itself, and while a stop is under way, there is no such child. Most steps only
`Wane`: nobody is launched, and what is alive may end. The attempt to prove the property without its
exception failed on `Filed` in a state TLC had no bounds for: with three processes, the orphan of the
first is known by the registry file alone, which a late line of the second one's child overwrites
after it has let go of the lock.

*Kills.* `KillHolds` speaks of empty queues; inductive is `Doomed`: of whatever was killed for good, or was
made from it, a child that lives, and a launch that is past its last look at the tombstones, has a stop
still *to come* in its queue (`StopWaits`). For a session's process this rests on the association with its
source, which a stop drops (`ReleaseSource`): `Associated` says that it is known as long as it lives or may
begin to, as it is noted again at the turn of each start, and `StoppedFirst` that by the time it is dropped
there is no child; `Together` that a source is never in the tombstones without those made
from it. `PassesOn` is the step of an operation that launches nothing, `EnterKills` the head of a launch; a
recovery, which launches without looking at the queue, has killed nothing yet (`Entombed`).

*The table.* `StatusAgrees` speaks of moments without writes; inductive is what the table will say
once all of them are done (`Final`): of a child that lives, what it has said and the process has heard
(`ToldOf`); without one, that there is none, unless something is still to come that will say so, a
start of the recovery, the end of a stop, the exit of a child in the store, or it is `untold`
(`NotTold`). `Stopping` is what keeps a successor's status from a late line: the registry speaks of no
other child of the process than its store does, and a child that was killed and is not gone yet is
being stopped and not taken for running; `Second` that the other child a stop has still to come to is
one of its subject. `Restoring` says that only the recovery's own starts are under way while it goes
on, `Untouched`, `Awake` and `Answers` that a process which has not taken over has done nothing, and
that the marker stays with whoever may still write. What other processes do leaves all of this alone
(`SameFor`, `Stays`, `TruthApart`); there is one lemma per kind of step of the process itself
(`TruthOwned`, `TruthRecovers`, `TruthSkips`, `TruthAsked`, `TruthPassing`, `TruthGivenUp`,
`TruthChecked`, `TruthLaunched`, `TruthStopped`, `TruthHeard`; `OperationTells` says whose statuses an
operation can write or leave untold), and `TruthIsTold` draws the conclusion. TLC, given `StatusInv`
as an invariant at the bounds of `runtime`, finds no error either; as it is proved, no run repeats
that.

`TypesInv` adds queues, memory, writes and bounds to it, and with them that what is under way is the first of a
queue that is not empty.

## 7 What is only model-checked

- Liveness under fairness: `EveryTaskEnds`, `EveryRemoteTaskEnds`, `SubscriberEnds`, `CancelEnds`,
  `SaturationIsLocal`, `EveryMessageSettles`, `EveryTurnEnds`, `EveryOperationEnds`. Temporal proofs
  of this kind need ENABLED, which is outside the reach of the prover.
- The findings, which are counterexamples.
- Nothing depends on induction over data, which the installed provers cannot apply: logs and queues
  are sequences whose lemmas (`Append`, `Tail`) come from the library, and the pass of `AgentGate` over its
  requests is stated by its result.

## 8 What is not modelled

- *Inside the modelled parts*: quotas, queries, file bytes and JSON of tasks; network policy,
  certificates and wire format of remote calls; prompts, branches and attachments of chats;
  archiving, renaming and forking of Work sessions; adapters, pairing and access rules of
  channels (a nondeterministic refusal); deletion of old rows. The turn in a sandbox is a
  nondeterministic outcome. Of the gates: maintenance that re-enters itself, the migration of older
  sandboxes, deletion of one conversation, the gate of a workspace (`operation-gate.ts`), a session
  that upgrades itself twice at once. Of the supervisor: see 2.7; tombstones of workspaces (one that is
  inactive is among the failures of a launch), SSH deployments and the connector broker.
- *I/O around a process or a protocol*: sandbox management, connector broker, sandbox runtime and
  bridges, MCP client and gateway, file storage, logs and audit. Little of their behaviour is in
  state that several actors share.
- *Single transactions or forms over single rows*: revisions and packages, usage and budgets,
  authentication and tokens, administration, workspaces, notifications, plugins and catalog, the
  web interface.
- *Planned*: see below.

## 9 Plan

Order: most important behaviour first. The project keeps at most a dozen runs with forty
properties between them, few enough to be repeated on every change; a new run therefore takes the
place of one that can be merged or has served its purpose.

Done: `A2AStates`, `TaskTree`, `A2ATasks`, `RemoteTask`, `ChatRuns`, `WorkSessions`,
`ChannelInbound`, `AgentGate` with `SandboxGate`, `RuntimeOwner` with `Supervisor`; the proofs of
every safety property that their runs check, and that `A2ATasks` implements `TaskTree`.

Next modules:

1. `Triggers`: `triggers.ts`, the schedule claim, the webhook, the run and the projection of its
   result; a mark "running" without a task, and a result whose conversation is not the last.
2. `ConversationOperations`: the waiting list of a conversation, rotation and revision upgrades, and
   the gate of a workspace, under which they run.
3. `PublicRuns`: idempotent creation, cancel and expiry, over the entries that Work uses.
4. An abstract specification of an entry (submit once, observe, one result) that `A2ATasks`
   implements and that `WorkSessions`, `ChannelInbound` and `PublicRuns` rest on.

Next theorem: that an entry, once it has an abstract specification (4 above), is implemented by
`A2ATasks`; and those of each module to come. The modules use no recursive
operators, so each can be proved about as it is.
