------------------------------ MODULE A2ATasks ------------------------------
(***************************************************************************)
(* The durable lifecycle of locally executed A2A tasks: admission          *)
(* (submitTaskInTransaction), delegation to child tasks, claims and leases *)
(* (claimTask), the in-process executor (executeAgentTask), the turn's     *)
(* collaboration tools (a2a_await_tasks, a2a_request_input), suspension    *)
(* and resumption of parents, cancellation with its cascade, deadlines,    *)
(* file reception and staging, and recovery after a process restart.       *)
(*                                                                         *)
(* Every write of a task row happens under the workspace row lock          *)
(* (lockTask), so a transaction is one action.  What happens between two   *)
(* transactions of one actor is two actions, and the memory of the worker  *)
(* (exec, scan) is kept apart from the rows (task).                        *)
(***************************************************************************)
EXTENDS A2AStates, Naturals, FiniteSets

CONSTANTS
  Tasks,          \* identities of tasks; each names its own fresh context too
  NoTask,         \* "no parent", "no context"
  MaxDepth,       \* LOCAL_LIMITS.depth
  MaxResumes,     \* LOCAL_LIMITS.resumes
  Leases,         \* lease tokens (randomUUID: never one that is still held)
  NoLease,        \* a null leaseToken
  MaxRestarts,    \* bound of the model: process crashes
  Receiving,      \* whether an admitted message may carry files still to fetch
  StagingMayFail  \* whether copying files into the sandbox may fail

ASSUME ConstantsOK ==
  /\ NoTask \notin Tasks
  /\ NoLease \notin Leases
  /\ IsFiniteSet(Tasks)
  /\ {MaxDepth, MaxResumes, MaxRestarts} \subseteq Nat
  /\ Receiving \subseteq BOOLEAN
  /\ StagingMayFail \in BOOLEAN

VARIABLES
  task,      \* the A2ATask table
  exec,      \* state.active of the worker: the executor of each task
  scan,      \* rows read by the running pass of reconcileLocalWaits
  process,   \* "up", "stopping", "down" or "recovering"
  restarts   \* crashes so far

vars == <<task, exec, scan, process, restarts>>
-----------------------------------------------------------------------------
Phases ==
  {"none", "queued", "executing", "waiting", "resumable", "paused", "done",
   "file-receiving", "file-transfer-failed",
   "file-staging-failed", "file-stage-ready"}

\* The control columns of a row; anc are the grant's ancestorTaskIds.
Row ==
  [state : States \cup {"NONE"}, phase : Phases,
   parent : Tasks \cup {NoTask}, anc : SUBSET Tasks, ctx : Tasks \cup {NoTask},
   lease : Leases \cup {NoLease}, cancelReq : BOOLEAN, expired : BOOLEAN,
   waitFor : SUBSET Tasks, question : BOOLEAN, resumes : Nat]

NoRow ==
  [state |-> "NONE", phase |-> "none", parent |-> NoTask, anc |-> {},
   ctx |-> NoTask, lease |-> NoLease, cancelReq |-> FALSE,
   expired |-> FALSE, waitFor |-> {}, question |-> FALSE, resumes |-> 0]

\* A queued row: the phase depends on whether files must be received first.
Entrance(receiving) == IF receiving THEN "file-receiving" ELSE "queued"

NewRow(p, ancestors, c, receiving) ==
  [NoRow EXCEPT !.state = "SUBMITTED", !.phase = Entrance(receiving),
                !.parent = p, !.anc = ancestors, !.ctx = c]

Idle == [pc |-> "idle", held |-> NoLease, aborted |-> FALSE]

Executors ==
  [pc : {"idle", "admitted", "staging", "running", "failing"},
   held : Leases \cup {NoLease}, aborted : BOOLEAN]

\* The steps of an executor that come after its claim.
Claimed == {"staging", "running", "failing"}
-----------------------------------------------------------------------------
(* Rows *)

Born(t) == task[t].state # "NONE"

Children(p) == {c \in Tasks : task[c].parent = p}

IsTerminal(t) == task[t].state \in Terminal

\* assertLocalGrant: every ancestor still stands behind the task. Revocation
\* of the actor, the Agent or the policy is external and may happen at any
\* time: every action that needs the grant may also fail.
GrantLive(t) ==
  \A a \in task[t].anc :
    /\ ~task[a].cancelReq
    /\ ~task[a].expired
    /\ task[a].state \notin {"FAILED", "REJECTED", "CANCELED"}

\* Mutant: only a running turn occupies its context.
ContextNotWorking(c) == \A s \in Tasks : task[s].ctx = c => task[s].state # "WORKING"

\* The one-executing-task rule of a context.
ContextFree(c) == \A s \in Tasks : task[s].ctx = c => task[s].state \notin Active

\* persist with a terminal state.
Ended(r, s) ==
  [r EXCEPT !.state = s, !.phase = "done", !.lease = NoLease,
            !.waitFor = {}, !.question = FALSE]

\* What cancelLocalDescendants does to one row below the cancelled one.
Stopped(r) ==
  CASE r.state \in Terminal \cup {"NONE"} -> r
    [] r.state \notin Terminal \cup {"NONE"}
         /\ r.phase = "executing" /\ r.lease # NoLease -> [r EXCEPT !.cancelReq = TRUE]
    [] OTHER -> [Ended(r, "CANCELED") EXCEPT !.cancelReq = TRUE]

\* Mutant: the cascade stops at the direct children.
CancelLocalChildren(rows, p) ==
  [x \in Tasks |-> IF rows[x].parent = p THEN Stopped(rows[x]) ELSE rows[x]]

CancelLocalDescendants(rows, p) ==
  [x \in Tasks |-> IF p \in rows[x].anc THEN Stopped(rows[x]) ELSE rows[x]]

\* End t with state s and stop what it started.
Close(t, s) ==
  CancelLocalDescendants([task EXCEPT ![t] = Ended(task[t], s)], t)

\* Mutant: the terminal check before the write is missing.
InterruptUnchecked(t) == Close(t, IF task[t].cancelReq THEN "CANCELED" ELSE "FAILED")

\* interruptTask without an expectation: whoever holds the lease loses it.
InterruptTask(t) ==
  IF IsTerminal(t) THEN task
  ELSE Close(t, IF task[t].cancelReq THEN "CANCELED" ELSE "FAILED")
-----------------------------------------------------------------------------
(* Admission: submitTaskInTransaction *)

\* The sandbox turn of t can still call its tools: its executor has started
\* it and has not come back to finish it.
Speaking(t) == exec[t].pc \in {"running", "failing"}

\* Mutant: a parent whose cancellation is pending may still delegate.
ParentSpeaks(p) ==
  /\ Speaking(p)
  /\ task[p].state = "WORKING" /\ task[p].phase = "executing"
  /\ task[p].lease = exec[p].held
  /\ ~task[p].expired
  /\ task[p].waitFor = {} /\ ~task[p].question

\* The parent's turn is the one that speaks, and it has not ended itself.
ParentAdmits(p) ==
  /\ Speaking(p)
  /\ task[p].state = "WORKING"
  /\ task[p].phase = "executing"
  /\ task[p].lease = exec[p].held
  /\ ~task[p].cancelReq
  /\ ~task[p].expired
  /\ task[p].waitFor = {}
  /\ ~task[p].question
  /\ GrantLive(p)

\* A client, entry or console submits a root task, in a fresh context or in
\* one of its own.
SubmitRoot(t) ==
  /\ process # "down"
  /\ ~Born(t)
  /\ \E c \in {t} \cup {task[s].ctx : s \in Children(NoTask) \ {t}}, rec \in Receiving :
       /\ c # NoTask
       /\ ContextFree(c)
       /\ task' = [task EXCEPT ![t] = NewRow(NoTask, {}, c, rec)]
  /\ UNCHANGED <<exec, scan, process, restarts>>

\* a2a_send_message without a taskId, from the running turn of p.
Delegate(p, t) ==
  /\ ~Born(t)
  /\ ParentAdmits(p)
  /\ Cardinality(task[p].anc) + 1 <= MaxDepth
  /\ \E c \in {t} \cup {task[s].ctx : s \in Children(p)}, rec \in Receiving :
       /\ ContextFree(c)
       /\ task' = [task EXCEPT ![t] = NewRow(p, task[p].anc \cup {p}, c, rec)]
  /\ UNCHANGED <<exec, scan, process, restarts>>

\* The same call with the taskId of a task that asked for input.
ContinueTask(t) ==
  /\ process # "down"
  /\ task[t].state = "INPUT_REQUIRED"
  /\ ~task[t].cancelReq
  /\ ~task[t].expired
  /\ task[t].parent # NoTask => ParentAdmits(task[t].parent)
  /\ GrantLive(t)
  /\ ContextFree(task[t].ctx)
  /\ \E rec \in Receiving :
       task' = [task EXCEPT ![t].state = "SUBMITTED",
                            ![t].phase = Entrance(rec),
                            ![t].question = FALSE]
  /\ UNCHANGED <<exec, scan, process, restarts>>

\* requestCancellation and requestWorkEntryCancellation: an executing turn is
\* only asked to stop; everything else is cancelled at once.
CommitTaskCancellation(t) ==
  /\ process # "down"
  /\ Born(t)
  /\ LET r == task[t]
         leased == r.state = "WORKING" /\ r.phase = "executing" /\ r.lease # NoLease
         own == IF r.state \in Terminal THEN r
                ELSE IF leased THEN [r EXCEPT !.cancelReq = TRUE]
                ELSE [Ended(r, "CANCELED") EXCEPT !.cancelReq = TRUE]
     IN task' = CancelLocalDescendants([task EXCEPT ![t] = own], t)
  /\ UNCHANGED <<exec, scan, process, restarts>>
-----------------------------------------------------------------------------
(* The worker: executeAgentTask *)

Ready(r) ==
  \/ r.state = "SUBMITTED" /\ r.phase = "queued"
  \/ r.state = "WORKING" /\ r.phase \in {"resumable", "file-stage-ready"}

\* Mutant: the session counts as free once no row of the context is WORKING.
ContextIdle(t) ==
  \A s \in Tasks \ {t} : task[s].ctx = task[t].ctx => task[s].state # "WORKING"

\* The sandbox session of a context is leased to one executor at a time; a
\* busy session leaves the task queued.
SessionFree(t) ==
  \A s \in Tasks \ {t} : task[s].ctx = task[t].ctx => exec[s].pc = "idle"

\* A tick starts executeAgentTask on a ready row: state.active dedupes it, and
\* the Agent and sandbox gates are passed.
Admit(t) ==
  /\ process = "up"
  /\ exec[t].pc = "idle"
  /\ Ready(task[t])
  /\ SessionFree(t)
  /\ exec' = [exec EXCEPT ![t].pc = "admitted"]
  /\ UNCHANGED <<task, scan, process, restarts>>

\* The sandbox or the storage quota is unavailable before the claim.
Unavailable(t) ==
  /\ process \in {"up", "stopping"}
  /\ exec[t].pc = "admitted"
  /\ task' = InterruptTask(t)
  /\ exec' = [exec EXCEPT ![t] = Idle]
  /\ UNCHANGED <<scan, process, restarts>>

\* resumeMessage: the results of every awaited child can be reported.
ResumeReady(t) ==
  /\ task[t].resumes < MaxResumes
  /\ task[t].waitFor # {}
  /\ \A c \in task[t].waitFor : task[c].state \in Settled

ClaimTask(t) ==
  /\ process = "up"
  /\ exec[t].pc = "admitted"
  /\ Ready(task[t])
  /\ ~task[t].cancelReq
  /\ ~task[t].expired
  /\ GrantLive(t)
  /\ task[t].phase = "resumable" => ResumeReady(t)
  /\ \E token \in Leases \ {task[t].lease, exec[t].held} :
        /\ task' = [task EXCEPT
                     ![t].state = "WORKING", ![t].phase = "executing",
                     ![t].lease = token, ![t].waitFor = {}, ![t].question = FALSE,
                     ![t].resumes = IF task[t].phase = "resumable" THEN @ + 1 ELSE @]
        /\ exec' = [exec EXCEPT ![t] =
                     [pc |-> "staging", held |-> token, aborted |-> FALSE]]
  /\ UNCHANGED <<scan, process, restarts>>

\* claimTask returns null or throws, or the worker is stopping: no execution.
ClaimRefused(t) ==
  /\ exec[t].pc = "admitted"
  /\ exec' = [exec EXCEPT ![t] = Idle]
  /\ UNCHANGED <<task, scan, process, restarts>>

\* stageLocalTaskFiles succeeded; the model turn starts.
StartTurn(t) ==
  /\ exec[t].pc = "staging"
  /\ ~exec[t].aborted
  /\ exec' = [exec EXCEPT ![t].pc = "running"]
  /\ UNCHANGED <<task, scan, process, restarts>>

\* stageLocalTaskFiles failed: deferTaskFileStaging parks the task, unless its
\* lease changed, it ended, or a cancellation was requested meanwhile.
DeferTaskFileStaging(t) ==
  /\ StagingMayFail
  /\ process = "up"
  /\ exec[t].pc = "staging"
  /\ ~exec[t].aborted
  /\ LET r == task[t]
         parks == /\ r.lease = exec[t].held
                  /\ r.phase = "executing"
                  /\ r.state \notin Terminal
                  /\ ~r.cancelReq
     IN task' = IF parks
                THEN [task EXCEPT ![t].phase = "file-staging-failed", ![t].lease = NoLease]
                ELSE task
  /\ exec' = [exec EXCEPT ![t] = Idle]
  /\ UNCHANGED <<scan, process, restarts>>

\* The watchdog or the deadline timer aborts the executor.
Abort(t) ==
  /\ exec[t].pc \in {"staging", "running"}
  /\ ~exec[t].aborted
  /\ \/ task[t].lease # exec[t].held
     \/ task[t].cancelReq
     \/ task[t].expired
     \/ ~GrantLive(t)
  /\ exec' = [exec EXCEPT ![t].aborted = TRUE]
  /\ UNCHANGED <<task, scan, process, restarts>>

\* The executor throws: model failure, abort, lost authority, exhausted limits.
ExecutorThrows(t) ==
  /\ exec[t].pc \in {"staging", "running"}
  /\ exec' = [exec EXCEPT ![t].pc = "failing"]
  /\ UNCHANGED <<task, scan, process, restarts>>
-----------------------------------------------------------------------------
(* The turn's own tools: writableTurn, requestLocalWait, requestLocalInput *)

WritableTurn(t) ==
  /\ Speaking(t)
  /\ task[t].lease = exec[t].held
  /\ task[t].state = "WORKING"
  /\ task[t].phase = "executing"
  /\ ~task[t].cancelReq
  /\ ~task[t].expired
  /\ GrantLive(t)

RequestLocalWait(t) ==
  /\ WritableTurn(t)
  /\ ~task[t].question
  /\ task[t].resumes < MaxResumes
  /\ \E ids \in SUBSET Children(t) \ {{}} :
       task' = [task EXCEPT ![t].waitFor = ids]
  /\ UNCHANGED <<exec, scan, process, restarts>>

RequestLocalInput(t) ==
  /\ WritableTurn(t)
  /\ task[t].waitFor = {}
  /\ task' = [task EXCEPT ![t].question = TRUE]
  /\ UNCHANGED <<exec, scan, process, restarts>>
-----------------------------------------------------------------------------
(* The end of a turn: finishTask *)

LeaseLost(t) == task[t].lease # exec[t].held \/ task[t].state # "WORKING"

\* The executor asks to complete; the row still stands behind it.
MayComplete(t) ==
  /\ exec[t].pc = "running"
  /\ ~exec[t].aborted
  /\ ~LeaseLost(t)
  /\ ~task[t].cancelReq
  /\ ~task[t].expired
  /\ GrantLive(t)

\* The children a suspended turn waits for: those it named, or all unfinished.
Awaited(t) ==
  IF task[t].waitFor # {} THEN task[t].waitFor
  ELSE {c \in Children(t) : ~IsTerminal(c)}

FinishStale(t) ==
  /\ exec[t].pc \in {"running", "failing"}
  /\ exec[t].pc = "running" => ~exec[t].aborted
  /\ LeaseLost(t)
  /\ exec' = [exec EXCEPT ![t] = Idle]
  /\ UNCHANGED <<task, scan, process, restarts>>

\* A failed turn, or a completed one overtaken by a cancel or the deadline.
FinishFailed(t) ==
  /\ \/ exec[t].pc = "failing"
     \/ /\ exec[t].pc = "running"
        /\ ~exec[t].aborted
        /\ task[t].cancelReq \/ task[t].expired
  /\ ~LeaseLost(t)
  /\ task' = Close(t, IF task[t].cancelReq THEN "CANCELED" ELSE "FAILED")
  /\ exec' = [exec EXCEPT ![t] = Idle]
  /\ UNCHANGED <<scan, process, restarts>>

FinishCompleted(t) ==
  /\ MayComplete(t)
  /\ ~task[t].question
  /\ Awaited(t) = {}
  /\ task' = [task EXCEPT ![t] = Ended(task[t], "COMPLETED")]
  /\ exec' = [exec EXCEPT ![t] = Idle]
  /\ UNCHANGED <<scan, process, restarts>>

\* Mutant: the phase is named after the state.
FinishPaused(t) ==
  /\ MayComplete(t)
  /\ task[t].question
  /\ task' = [task EXCEPT ![t].state = "INPUT_REQUIRED", ![t].phase = "input-required",
                          ![t].lease = NoLease, ![t].question = FALSE]
  /\ exec' = [exec EXCEPT ![t] = Idle]
  /\ UNCHANGED <<scan, process, restarts>>

FinishWithQuestion(t) ==
  /\ MayComplete(t)
  /\ task[t].question
  /\ task' = [task EXCEPT ![t].state = "INPUT_REQUIRED", ![t].phase = "paused",
                          ![t].lease = NoLease, ![t].question = FALSE]
  /\ exec' = [exec EXCEPT ![t] = Idle]
  /\ UNCHANGED <<scan, process, restarts>>

\* suspendLocalTurn: the turn ends well but its children have not.
SuspendLocalTurn(t) ==
  /\ MayComplete(t)
  /\ ~task[t].question
  /\ Awaited(t) # {}
  /\ task[t].resumes < MaxResumes
  /\ LET settled == \A c \in Awaited(t) : task[c].state \in Settled
     IN task' = [task EXCEPT ![t].phase = IF settled THEN "resumable" ELSE "waiting",
                             ![t].waitFor = Awaited(t),
                             ![t].lease = NoLease]
  /\ exec' = [exec EXCEPT ![t] = Idle]
  /\ UNCHANGED <<scan, process, restarts>>
-----------------------------------------------------------------------------
(* The scheduler: tickAgentWorker *)

\* reconcileLocalWaits reads a page of suspended rows ...
ScanWaits ==
  /\ process = "up"
  /\ scan = {}
  /\ scan' = {t \in Tasks : /\ task[t].state = "WORKING"
                            /\ task[t].phase \in {"waiting", "resumable"}}
  /\ scan' # {}
  /\ UNCHANGED <<task, exec, process, restarts>>

\* Mutant: one settled child is enough to resume.
ReconcileAny(t) ==
  /\ process = "up"
  /\ t \in scan
  /\ scan' = scan \ {t}
  /\ task' = IF /\ task[t].state = "WORKING" /\ task[t].phase = "waiting"
                /\ ~task[t].cancelReq
                /\ \E c \in task[t].waitFor : task[c].state \in Settled
             THEN [task EXCEPT ![t].phase = "resumable"]
             ELSE task
  /\ UNCHANGED <<exec, process, restarts>>

\* ... and then visits them one by one, locking each again.
ReconcileRow(t) ==
  /\ process = "up"
  /\ t \in scan
  /\ scan' = scan \ {t}
  /\ task' = IF /\ task[t].state = "WORKING"
                /\ task[t].phase = "waiting"
                /\ ~task[t].cancelReq
                /\ \A c \in task[t].waitFor : task[c].state \in Settled
             THEN [task EXCEPT ![t].phase = "resumable"]
             ELSE task
  /\ UNCHANGED <<exec, process, restarts>>

\* The visited row lost its authority (which the owner may revoke at any time)
\* or its deadline: the pass interrupts it, whatever it has become since it was
\* read.
StopRow(t) ==
  /\ process = "up"
  /\ t \in scan
  /\ scan' = scan \ {t}
  /\ task' = InterruptTask(t)
  /\ UNCHANGED <<exec, process, restarts>>

\* Mutant: the sweep only looks at tasks that never ran.
SweepUnclaimed(t) ==
  /\ process = "up"
  /\ task[t].expired
  /\ task[t].state = "SUBMITTED"
  /\ task' = InterruptTask(t)
  /\ UNCHANGED <<exec, scan, process, restarts>>

\* The expiry sweep: a task whose deadline passed while no executor has it.
SweepExpired(t) ==
  /\ process = "up"
  /\ task[t].expired
  /\ \/ task[t].state \in {"SUBMITTED"} \cup Interrupted
     \/ /\ task[t].state = "WORKING"
        /\ task[t].phase \in {"waiting", "resumable",
                              "file-stage-ready", "file-staging-failed"}
  /\ task' = InterruptTask(t)
  /\ UNCHANGED <<exec, scan, process, restarts>>

\* receiveTransfers: fetch the files of an admitted message.
ReceiveFiles(t) ==
  /\ process = "up"
  /\ task[t].state = "SUBMITTED"
  /\ task[t].phase = "file-receiving"
  /\ \E ok \in BOOLEAN :
       /\ ok => GrantLive(t)
       /\ task' = [task EXCEPT ![t].phase = IF ok THEN "queued" ELSE "file-transfer-failed"]
  /\ UNCHANGED <<exec, scan, process, restarts>>

\* retryTaskFileTransfers, asked by the owner.
RetryFiles(t) ==
  /\ process = "up"
  /\ task[t].phase \in {"file-transfer-failed", "file-staging-failed"}
  /\ ~IsTerminal(t)
  /\ ~task[t].cancelReq
  /\ ~task[t].expired
  /\ GrantLive(t)
  /\ task' = [task EXCEPT ![t].phase =
                IF @ = "file-staging-failed" THEN "file-stage-ready" ELSE "file-receiving"]
  /\ UNCHANGED <<exec, scan, process, restarts>>

\* A deadline passes. A child's deadline is never later than its parent's.
Expire(t) ==
  /\ Born(t) /\ ~IsTerminal(t)
  /\ ~task[t].expired
  /\ \A c \in Children(t) : IsTerminal(c) \/ task[c].expired
  /\ task' = [task EXCEPT ![t].expired = TRUE]
  /\ UNCHANGED <<exec, scan, process, restarts>>
-----------------------------------------------------------------------------
(* The process *)

\* stopAgentWorker: no new execution, every controller aborted.
StopAgentWorker ==
  /\ process = "up"
  /\ restarts < MaxRestarts
  /\ process' = "stopping"
  /\ exec' = [t \in Tasks |-> IF exec[t].pc \in {"staging", "running"}
                              THEN [exec[t] EXCEPT !.aborted = TRUE] ELSE exec[t]]
  /\ UNCHANGED <<task, scan, restarts>>

Crash ==
  /\ process # "down"
  /\ restarts < MaxRestarts
  /\ process' = "down"
  /\ restarts' = restarts + 1
  /\ exec' = [t \in Tasks |-> Idle]
  /\ scan' = {}
  /\ UNCHANGED task

Restart ==
  /\ process = "down"
  /\ process' = "recovering"
  /\ UNCHANGED <<task, exec, scan, restarts>>

\* startAgentWorker: an execution that was cut off is never replayed.
RecoverTask(t) ==
  /\ process = "recovering"
  /\ task[t].state = "WORKING"
  /\ task[t].phase = "executing"
  /\ task' = InterruptTask(t)
  /\ UNCHANGED <<exec, scan, process, restarts>>

StartAgentWorker ==
  /\ process = "recovering"
  /\ ~\E t \in Tasks : task[t].state = "WORKING" /\ task[t].phase = "executing"
  /\ process' = "up"
  /\ UNCHANGED <<task, exec, scan, restarts>>
-----------------------------------------------------------------------------
Init ==
  /\ task = [t \in Tasks |-> NoRow]
  /\ exec = [t \in Tasks |-> Idle]
  /\ scan = {}
  /\ process = "up"
  /\ restarts = 0

ClientStep(t) ==
  \/ SubmitRoot(t) \/ ContinueTask(t) \/ CommitTaskCancellation(t)
  \/ RetryFiles(t)
  \/ \E p \in Tasks : Delegate(p, t)

ExecutorStep(t) ==
  \/ Admit(t) \/ Unavailable(t) \/ ClaimTask(t) \/ ClaimRefused(t)
  \/ StartTurn(t) \/ DeferTaskFileStaging(t) \/ Abort(t) \/ ExecutorThrows(t)
  \/ RequestLocalWait(t) \/ RequestLocalInput(t)
  \/ FinishStale(t) \/ FinishFailed(t) \/ FinishCompleted(t)
  \/ FinishWithQuestion(t) \/ SuspendLocalTurn(t)

SchedulerStep(t) ==
  \/ ReconcileRow(t) \/ StopRow(t) \/ SweepExpired(t) \/ ReceiveFiles(t)
  \/ Expire(t)

ProcessStep ==
  \/ ScanWaits
  \/ StopAgentWorker \/ Crash \/ Restart \/ StartAgentWorker
  \/ \E t \in Tasks : RecoverTask(t)

Next ==
  \/ \E t \in Tasks : ClientStep(t) \/ ExecutorStep(t) \/ SchedulerStep(t)
  \/ ProcessStep

Spec == Init /\ [][Next]_vars
\* Scheduling the code provides: the 500 ms tick keeps visiting every row, a
\* restarted process recovers, and an executor that was told to end does.
SchedulerFairness ==
  /\ WF_vars(ScanWaits)
  /\ WF_vars(Restart) /\ WF_vars(StartAgentWorker)
  /\ WF_vars(process = "stopping" /\ Crash)
  /\ \A t \in Tasks :
       /\ WF_vars(ReconcileRow(t) \/ StopRow(t))
       /\ WF_vars(SweepExpired(t)) /\ WF_vars(RecoverTask(t))
       /\ WF_vars(Abort(t))
       /\ WF_vars(exec[t].aborted /\ ExecutorThrows(t))
       /\ WF_vars(FinishFailed(t)) /\ WF_vars(FinishStale(t))

\* Time passes every deadline.
DeadlineFairness == \A t \in Tasks : WF_vars(Expire(t))

\* The files of a message arrive, every turn ends by itself, and a ready task is
\* claimed in the end although single attempts may find its session or its
\* sandbox busy.
TurnFairness ==
  \A t \in Tasks :
    /\ []<>(task[t].phase \notin {"file-receiving", "file-transfer-failed"})
    /\ WF_vars(Admit(t)) /\ SF_vars(ClaimTask(t)) /\ WF_vars(ClaimRefused(t))
    /\ WF_vars(StartTurn(t))
    /\ WF_vars(ExecutorThrows(t) \/ FinishCompleted(t) \/ FinishWithQuestion(t)
                 \/ SuspendLocalTurn(t))

FairSpec == Spec /\ SchedulerFairness
-----------------------------------------------------------------------------
(* Properties *)

TypeOK ==
  /\ task \in [Tasks -> Row]
  /\ exec \in [Tasks -> Executors]
  /\ scan \subseteq Tasks
  /\ process \in {"up", "stopping", "down", "recovering"}
  /\ restarts \in Nat

\* Ending or cancelling a task leaves nothing running freely beneath it: every
\* descendant has ended or has been asked to stop.
NoOrphanedWork ==
  \A d \in Tasks : \A a \in task[d].anc :
    IsTerminal(a) \/ task[a].cancelReq => IsTerminal(d) \/ task[d].cancelReq

\* A task that reports COMPLETED has joined its children: all have ended.  One
\* marked resumable can be resumed: its children stay settled until its next
\* turn, so resumeMessage never finds results missing.
ChildrenAreJoined ==
  \A p \in Tasks :
    /\ task[p].state = "COMPLETED" => \A c \in Children(p) : IsTerminal(c)
    /\ task[p].phase = "resumable" =>
         /\ task[p].waitFor # {}
         /\ \A c \in task[p].waitFor : task[c].state \in Settled

\* A context (one conversation with one Agent) has one executing task at most.
OneActivePerContext ==
  \A s, t \in Tasks :
    s # t /\ Born(s) /\ task[s].ctx = task[t].ctx
      => ~(task[s].state \in Active /\ task[t].state \in Active)

\* Two executors never share the sandbox session of a context, not even when
\* one of them runs for a task that has been taken away from it.
SessionExclusive ==
  \A s, t \in Tasks :
    s # t /\ exec[s].pc \in Claimed /\ exec[t].pc \in Claimed
      => task[s].ctx # task[t].ctx

\* "A cancel request does not mean the executor has stopped. The worker settles
\* it": while the process is up, a task whose cancellation is pending is in the
\* hands of the executor that will settle it.
WorkerSettlesCancel ==
  process = "up" =>
    \A t \in Tasks : task[t].cancelReq /\ ~IsTerminal(t) =>
      exec[t].pc \in Claimed /\ exec[t].held = task[t].lease

\* Once ended, a task never changes again, whoever still works for it.
TerminalFrozen ==
  [][\A t \in Tasks : IsTerminal(t) => task'[t] = task[t]]_vars

\* The store keeps the promise of TaskTree.
Tree == INSTANCE TaskTree WITH
  st <- [t \in Tasks |-> task[t].state],
  stop <- [t \in Tasks |-> task[t].cancelReq /\ ~IsTerminal(t)],
  above <- [t \in Tasks |-> task[t].anc]

ImplementsTree == Tree!Spec

\* With deadlines that pass, every submitted task ends: no phase is a trap.  And
\* with turns that end, delegation never deadlocks: even if no deadline ever
\* passes, every submitted task is settled, across a crash too.
EveryTaskEnds ==
  \A t \in Tasks :
    /\ DeadlineFairness => (Born(t) ~> IsTerminal(t))
    /\ TurnFairness => (task[t].state = "SUBMITTED" ~> task[t].state \in Settled)

=============================================================================
