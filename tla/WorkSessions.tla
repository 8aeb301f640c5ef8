----------------------------- MODULE WorkSessions -----------------------------
(***************************************************************************)
(* Work sessions: the rows, their transcript and the requests on them      *)
(* (work/sessions.ts and the routes under work-sessions), the coordinator  *)
(* that claims and executes them in one process (work/coordinator.ts), the *)
(* registry of its abort controllers (work/run-control.ts) and the native  *)
(* task each turn submits and then polls (agents/execution/entries.ts).    *)
(*                                                                         *)
(* The native task is the one of A2ATasks seen from its entry: it is       *)
(* active, being cancelled, or settled; one that asks for input answers    *)
(* the turn like one that completed, and what continues it counts as new.  *)
(* Between an await of the code and the next everything else may happen,   *)
(* so a step here is what runs between two awaits; a conditional update of *)
(* a row is one step.  The statuses waiting_user, completed and cancelled  *)
(* are written by no code that is called, and archived sessions take no    *)
(* part.                                                                   *)
(***************************************************************************)
EXTENDS Naturals, FiniteSets, FiniteSetsExt

CONSTANTS
  Works,        \* the sessions, numbered in the order of createdAt
  Agents,       \* the Agents they belong to
  AgentOf,      \* the Agent of each session
  Slow,         \* the Agents whose native tasks may take for ever
  Runs,         \* executions of this process: calls of runClaimedWork
  MaxTotal,     \* admin setting: Agents running at once
  MaxPerAgent,  \* admin setting: runs of one Agent at once
  MaxInputs,    \* bound of the model: user messages of a session
  MaxRequests,  \* bound of the model: cancels and resumes
  MaxRestarts   \* bound of the model: restarts of the process

ASSUME WorkConstants ==
  /\ Works \subseteq Nat
  /\ AgentOf \in [Works -> Agents]
  /\ {MaxTotal, MaxPerAgent, MaxInputs, MaxRequests, MaxRestarts} \subseteq Nat
  /\ MaxInputs > 0

VARIABLES
  row,       \* WorkSession.status and cancelRequestedAt
  talk,      \* the messages of its conversation
  task,      \* the native task of each user message: its entry receipts
  run,       \* executeWork, one record for each call
  active,    \* CoordinatorState.active and activeAgents
  ctl,       \* __workRunControllers: the run each session's controller is of
  route,     \* the cancel route, between its awaits
  stopping,  \* CoordinatorState.stopping
  requests,
  restarts

vars == <<row, talk, task, run, active, ctl, route, stopping, requests, restarts>>
-----------------------------------------------------------------------------
Statuses == {"none", "idle", "queued", "running", "cancelling", "failed"}

Inputs == 1..MaxInputs

\* terminal of a2a/model.ts.
Terminal == {"completed", "failed", "canceled"}

Unsettled == {"active", "stopping"}

NoRun == [pc |-> "none", work |-> 0, input |-> 0, aborted |-> FALSE]

Free == CHOOSE r \in {x \in Runs : run[x].pc = "none"} : TRUE

Goto(r, pc) == run' = [run EXCEPT ![r].pc = pc]

SetStatus(w, from, to) ==
  row' = IF row[w].status \in from THEN [row EXCEPT ![w].status = to] ELSE row

\* The mark of a cancel, as the entry policy reads it.
CancelSeen(w) == row[w].cancel \/ row[w].status = "cancelling"

\* The task a run polls, and whether it is the one its session's entry binding
\* points to.
TaskOf(r) == task[run[r].work][run[r].input]

IsLastTask(r) ==
  \A m \in Inputs : m > run[r].input => task[run[r].work][m] = "none"

\* requestWorkEntryCancellation.
StopTask(r) ==
  task' = [task EXCEPT ![run[r].work][run[r].input] =
             IF @ = "active" THEN "stopping" ELSE @]

AbortRun(w) ==
  run' = IF ctl[w] \in Runs THEN [run EXCEPT ![ctl[w]].aborted = TRUE] ELSE run
-----------------------------------------------------------------------------
(* Requests *)

CountRequest ==
  /\ requests < MaxRequests
  /\ requests' = requests + 1

\* createWorkSession: a session starts queued with the user's first message.
CreateWorkSession(w) ==
  /\ row[w].status = "none"
  /\ \A v \in Works : v < w => row[v].status # "none"
  /\ row' = [row EXCEPT ![w].status = "queued"]
  /\ talk' = [talk EXCEPT ![w].inputs = 1, ![w].open = TRUE]
  /\ UNCHANGED <<task, run, active, ctl, route, stopping, requests, restarts>>

\* appendWorkSessionInput.
AppendWorkSessionInput(w) ==
  /\ row[w].status \in {"idle", "failed"}
  /\ talk[w].inputs < MaxInputs
  /\ row' = [row EXCEPT ![w] = [status |-> "queued", cancel |-> FALSE]]
  /\ talk' = [talk EXCEPT ![w].inputs = @ + 1, ![w].open = TRUE]
  /\ UNCHANGED <<task, run, active, ctl, route, stopping, requests, restarts>>

\* resumeWorkSession: the session is queued again as it stands.
ResumeWorkSession(w) ==
  /\ row[w].status = "failed"
  /\ row' = [row EXCEPT ![w] = [status |-> "queued", cancel |-> FALSE]]
  /\ CountRequest
  /\ UNCHANGED <<talk, task, run, active, ctl, route, stopping, restarts>>

\* cancelWorkSession, the transaction the cancel route begins with.
CancelWorkSession(w) ==
  /\ route[w] = "none"
  /\ \/ /\ row[w].status = "running"
        /\ row' = [row EXCEPT ![w] = [status |-> "cancelling", cancel |-> TRUE]]
        /\ route' = [route EXCEPT ![w] = "cancelling"]
     \/ /\ row[w].status = "queued"
        /\ row' = [row EXCEPT ![w] = [status |-> "idle", cancel |-> TRUE]]
        /\ route' = [route EXCEPT ![w] = "stopped"]
     \/ /\ row[w].status = "cancelling"
        /\ route' = [route EXCEPT ![w] = "cancelling"]
        /\ UNCHANGED row
  /\ CountRequest
  /\ UNCHANGED <<talk, task, run, active, ctl, stopping, restarts>>

\* abortWorkRun: whatever run is registered now.
AbortWorkRun(w) ==
  /\ route[w] \in {"cancelling", "stopped"}
  /\ AbortRun(w)
  /\ route' = [route EXCEPT ![w] =
                 IF @ = "cancelling" /\ ctl[w] \notin Runs THEN "finalize" ELSE "none"]
  /\ UNCHANGED <<row, talk, task, active, ctl, stopping, requests, restarts>>

\* finalizeWorkSessionCancellation: nothing was registered to do it.
FinalizeCancellation(w) ==
  /\ route[w] = "finalize"
  /\ SetStatus(w, {"cancelling"}, "idle")
  /\ route' = [route EXCEPT ![w] = "none"]
  /\ UNCHANGED <<talk, task, run, active, ctl, stopping, requests, restarts>>
-----------------------------------------------------------------------------
(* The coordinator *)

ActiveOf(a) == {w \in active : AgentOf[w] = a}

\* Mutant: a saturated Agent at the head of the queue holds up the others.
HeadOfQueue ==
  LET queued == {w \in Works : row[w].status = "queued"}
      head == {w \in queued : \A v \in queued : w <= v}
  IN  {w \in head : Cardinality(ActiveOf(AgentOf[w])) < MaxPerAgent}

\* A queued session whose Agent is not saturated.
Claimable ==
  {w \in Works : /\ row[w].status = "queued"
                 /\ Cardinality(ActiveOf(AgentOf[w])) < MaxPerAgent}

\* claimNextWork, in the loop of drainWorkQueue: the oldest claimable session.
\* A row that left the queue between its selection and its conditional update
\* makes the loop select again.
ClaimNextWork ==
  /\ ~stopping
  /\ Cardinality(active) < MaxTotal
  /\ Claimable # {}
  /\ \E r \in Runs : run[r].pc = "none"
  /\ LET w == Min(Claimable) IN
     /\ SetStatus(w, {"queued"}, "running")
     /\ run' = [run EXCEPT ![Free] = [NoRun EXCEPT !.pc = "read", !.work = w]]
     /\ active' = active \cup {w}
  /\ UNCHANGED <<talk, task, ctl, route, stopping, requests, restarts>>

\* Mutant: the run goes by the last user message wherever it is.
ReadLastUser(r) ==
  LET w == run[r].work IN
  /\ run[r].pc = "read"
  /\ IF row[w].status = "running"
     THEN /\ run' = [run EXCEPT ![r].pc = "check", ![r].input = talk[w].inputs]
          /\ ctl' = [ctl EXCEPT ![w] = r]
     ELSE /\ Goto(r, IF row[w].status = "cancelling" THEN "settle" ELSE "leave")
          /\ UNCHANGED ctl
  /\ UNCHANGED <<row, talk, task, active, route, stopping, requests, restarts>>

\* executeWork reads the session with its messages and registers its controller.
ReadWork(r) ==
  LET w == run[r].work IN
  /\ run[r].pc = "read"
  /\ IF row[w].status = "running"
     THEN /\ run' = [run EXCEPT ![r].pc = "check",
                                ![r].input = IF talk[w].open THEN talk[w].inputs ELSE 0]
          /\ ctl' = [ctl EXCEPT ![w] = r]
     ELSE /\ Goto(r, IF row[w].status = "cancelling" THEN "settle" ELSE "leave")
          /\ UNCHANGED ctl
  /\ UNCHANGED <<row, talk, task, active, route, stopping, requests, restarts>>

\* Still running?  And is there a user message to answer?
CheckWork(r) ==
  /\ run[r].pc = "check"
  /\ Goto(r, IF row[run[r].work].status # "running" THEN "finally"
             ELSE IF run[r].input = 0 THEN "failed" ELSE "submit")
  /\ UNCHANGED <<row, talk, task, active, ctl, route, stopping, requests, restarts>>

\* submitAgentEntry: a message that has a receipt gets the task it had, another
\* one a new task once the previous one has settled.
SubmitAgentEntry(r) ==
  LET w == run[r].work IN
  /\ run[r].pc = "submit"
  /\ \/ /\ ~CancelSeen(w)
        /\ TaskOf(r) # "none"
        /\ Goto(r, "observe")
        /\ UNCHANGED task
     \/ /\ ~CancelSeen(w)
        /\ TaskOf(r) = "none"
        /\ \A m \in Inputs : task[w][m] \notin Unsettled
        /\ task' = [task EXCEPT ![w][run[r].input] = "active"]
        /\ Goto(r, "observe")
     \/ /\ Goto(r, "failed")
        /\ UNCHANGED task
  /\ UNCHANGED <<row, talk, active, ctl, route, stopping, requests, restarts>>

\* Mutant: what a task left behind is an answer, however it ended.
AnswerSettled(r) ==
  LET w == run[r].work IN
  /\ run[r].pc = "observe"
  /\ ~run[r].aborted /\ ~CancelSeen(w)
  /\ TaskOf(r) \in Terminal
  /\ Goto(r, "respond")
  /\ UNCHANGED <<row, talk, task, active, ctl, route, stopping, requests, restarts>>

\* runAgentEntry polls: the task settled, and agentEntryResult takes its answer
\* or throws.
ObserveSettled(r) ==
  LET w == run[r].work IN
  /\ run[r].pc = "observe"
  /\ ~run[r].aborted /\ ~CancelSeen(w)
  /\ TaskOf(r) \in Terminal
  /\ Goto(r, IF TaskOf(r) = "completed" THEN "respond" ELSE "failed")
  /\ UNCHANGED <<row, talk, task, active, ctl, route, stopping, requests, restarts>>

\* The poll throws: the run was aborted or its session is being cancelled.
ObserveThrows(r) ==
  /\ run[r].pc = "observe"
  /\ run[r].aborted \/ CancelSeen(run[r].work)
  /\ Goto(r, "thrown")
  /\ UNCHANGED <<row, talk, task, active, ctl, route, stopping, requests, restarts>>

\* Or access was lost, or the deadline of the task has passed.
ObserveRefused(r) ==
  /\ run[r].pc = "observe"
  /\ Goto(r, "thrown")
  /\ UNCHANGED <<row, talk, task, active, ctl, route, stopping, requests, restarts>>

\* The catch of runAgentEntry: only the cancel mark of the row cancels the task.
Thrown(r) ==
  LET w == run[r].work IN
  /\ run[r].pc = "thrown"
  /\ IF row[w].cancel /\ IsLastTask(r)
     THEN /\ StopTask(r)
          /\ Goto(r, "await")
     ELSE /\ Goto(r, "failed")
          /\ UNCHANGED task
  /\ UNCHANGED <<row, talk, active, ctl, route, stopping, requests, restarts>>

\* It waits for the task before it lets the run go on.
AwaitTask(r) ==
  /\ run[r].pc = "await"
  /\ TaskOf(r) \in Terminal
  /\ Goto(r, "failed")
  /\ UNCHANGED <<row, talk, task, active, ctl, route, stopping, requests, restarts>>

\* appendAssistantResult with the answer, unless the run was aborted.
AppendResult(r) ==
  LET w == run[r].work IN
  /\ run[r].pc = "respond"
  /\ IF run[r].aborted
     THEN /\ Goto(r, "failed")
          /\ UNCHANGED talk
     ELSE /\ talk' = [talk EXCEPT ![w].open = FALSE, ![w].answers[run[r].input] = @ + 1]
          /\ Goto(r, "finish")
  /\ UNCHANGED <<row, task, active, ctl, route, stopping, requests, restarts>>

\* The turn is done.
FinishWork(r) ==
  /\ run[r].pc = "finish"
  /\ SetStatus(run[r].work, {"running"}, "idle")
  /\ Goto(r, "finally")
  /\ UNCHANGED <<talk, task, active, ctl, route, stopping, requests, restarts>>

\* The catch of executeWork: the trace of the failed turn becomes a message of
\* the assistant; persisting it may fail.
AppendTrace(r) ==
  LET w == run[r].work IN
  /\ run[r].pc = "failed"
  /\ \/ talk' = [talk EXCEPT ![w].open = FALSE]
     \/ UNCHANGED talk
  /\ Goto(r, IF run[r].aborted THEN "finally" ELSE "fail")
  /\ UNCHANGED <<row, task, active, ctl, route, stopping, requests, restarts>>

\* Mutant: a run that failed says so whatever was asked meanwhile.
FailAnyway(r) ==
  /\ run[r].pc = "fail"
  /\ SetStatus(run[r].work, {"running", "cancelling"}, "failed")
  /\ Goto(r, "finally")
  /\ UNCHANGED <<talk, task, active, ctl, route, stopping, requests, restarts>>

\* A run that was not aborted fails its session.
FailWork(r) ==
  /\ run[r].pc = "fail"
  /\ SetStatus(run[r].work, {"running"}, "failed")
  /\ Goto(r, "finally")
  /\ UNCHANGED <<talk, task, active, ctl, route, stopping, requests, restarts>>

\* Mutant: the run leaves its controller registered.
KeepRegistered(r) ==
  /\ run[r].pc = "finally"
  /\ Goto(r, "settle")
  /\ UNCHANGED <<row, talk, task, active, ctl, route, stopping, requests, restarts>>

\* The finally of executeWork: unregister, then settle a cancelled session.
UnregisterWorkRun(r) ==
  LET w == run[r].work IN
  /\ run[r].pc = "finally"
  /\ ctl' = [ctl EXCEPT ![w] = IF @ = r THEN "none" ELSE @]
  /\ Goto(r, "settle")
  /\ UNCHANGED <<row, talk, task, active, route, stopping, requests, restarts>>

SettleCancellation(r) ==
  /\ run[r].pc = "settle"
  /\ SetStatus(run[r].work, {"cancelling"}, "idle")
  /\ Goto(r, "leave")
  /\ UNCHANGED <<talk, task, active, ctl, route, stopping, requests, restarts>>

\* The finally of runClaimedWork frees the place of its session.
LeaveWork(r) ==
  /\ run[r].pc = "leave"
  /\ active' = active \ {run[r].work}
  /\ run' = [run EXCEPT ![r] = NoRun]
  /\ UNCHANGED <<row, talk, task, ctl, route, stopping, requests, restarts>>
-----------------------------------------------------------------------------
(* The process and the native task *)

\* stopWorkCoordinator aborts the runs it knows of.
StopWorkCoordinator ==
  /\ ~stopping
  /\ restarts < MaxRestarts
  /\ stopping' = TRUE
  /\ run' = [r \in Runs |->
               IF \E w \in active : ctl[w] = r THEN [run[r] EXCEPT !.aborted = TRUE]
               ELSE run[r]]
  /\ UNCHANGED <<row, talk, task, active, ctl, route, requests, restarts>>

\* Mutant: startup reconciles what was running, not what was being cancelled.
Interrupted(status) ==
  IF status = "running" THEN "failed" ELSE status

\* What startup makes of a session.
Reconciled(status) ==
  CASE status = "running" -> "failed"
    [] status = "cancelling" -> "idle"
    [] OTHER -> status

\* The process ends, with or without notice, and startWorkCoordinator and the
\* A2A worker reconcile what it left: a task that was executing fails, one that
\* was not yet claimed stays.
Restart ==
  /\ restarts < MaxRestarts
  /\ restarts' = restarts + 1
  /\ row' = [w \in Works |-> [row[w] EXCEPT !.status = Reconciled(@)]]
  /\ \E lost \in SUBSET Works :
       task' = [w \in Works |->
                  [m \in Inputs |-> IF w \in lost /\ task[w][m] \in Unsettled THEN "failed"
                                    ELSE task[w][m]]]
  /\ run' = [r \in Runs |-> NoRun]
  /\ active' = {}
  /\ ctl' = [w \in Works |-> "none"]
  /\ route' = [w \in Works |-> "none"]
  /\ stopping' = FALSE
  /\ UNCHANGED <<talk, requests>>

\* The A2A worker settles the task.
TaskSettles(w) ==
  /\ \E m \in Inputs :
       \/ /\ task[w][m] = "active"
          /\ \E s \in {"completed", "failed"} : task' = [task EXCEPT ![w][m] = s]
       \/ /\ task[w][m] = "stopping"
          /\ \E s \in {"canceled", "failed"} : task' = [task EXCEPT ![w][m] = s]
  /\ UNCHANGED <<row, talk, run, active, ctl, route, stopping, requests, restarts>>
-----------------------------------------------------------------------------
Init ==
  /\ row = [w \in Works |-> [status |-> "none", cancel |-> FALSE]]
  /\ talk = [w \in Works |-> [inputs |-> 0, open |-> FALSE, answers |-> [m \in Inputs |-> 0]]]
  /\ task = [w \in Works |-> [m \in Inputs |-> "none"]]
  /\ run = [r \in Runs |-> NoRun]
  /\ active = {}
  /\ ctl = [w \in Works |-> "none"]
  /\ route = [w \in Works |-> "none"]
  /\ stopping = FALSE
  /\ requests = 0
  /\ restarts = 0

Request(w) ==
  \/ CreateWorkSession(w)
  \/ AppendWorkSessionInput(w)
  \/ ResumeWorkSession(w)
  \/ CancelWorkSession(w)

CancelRoute(w) == AbortWorkRun(w) \/ FinalizeCancellation(w)

ExecuteWork(r) ==
  \/ ReadWork(r)
  \/ CheckWork(r)
  \/ SubmitAgentEntry(r)
  \/ ObserveSettled(r)
  \/ ObserveThrows(r)
  \/ Thrown(r)
  \/ AwaitTask(r)
  \/ AppendResult(r)
  \/ FinishWork(r)
  \/ AppendTrace(r)
  \/ FailWork(r)
  \/ UnregisterWorkRun(r)
  \/ SettleCancellation(r)
  \/ LeaveWork(r)

Next ==
  \/ \E w \in Works : Request(w) \/ CancelRoute(w) \/ TaskSettles(w)
  \/ ClaimNextWork
  \/ \E r \in Runs : ExecuteWork(r) \/ ObserveRefused(r)
  \/ StopWorkCoordinator
  \/ Restart

Spec == Init /\ [][Next]_vars

\* The coordinator is kicked every second, an execution that is not waiting goes
\* on, and so does a request once it is served.
ProcessGoesOn ==
  /\ WF_vars(ClaimNextWork)
  /\ \A r \in Runs : WF_vars(ExecuteWork(r))
  /\ \A w \in Works : WF_vars(CancelRoute(w))

\* Nothing is assumed of the native tasks of the Agents in Slow.
FairSpec ==
  /\ Spec
  /\ ProcessGoesOn
  /\ \A w \in Works : AgentOf[w] \notin Slow => WF_vars(TaskSettles(w))
-----------------------------------------------------------------------------
(* Properties *)

\* The rows, the places and the registry are of their types, and a registered
\* controller is the one of a run that has not unregistered.
TypeOK ==
  /\ row \in [Works -> [status : Statuses, cancel : BOOLEAN]]
  /\ talk \in [Works -> [inputs : 0..MaxInputs, open : BOOLEAN, answers : [Inputs -> Nat]]]
  /\ task \in [Works -> [Inputs -> {"none"} \cup Unsettled \cup Terminal]]
  /\ active \subseteq Works
  /\ route \in [Works -> {"none", "cancelling", "stopped", "finalize"}]
  /\ stopping \in BOOLEAN
  /\ requests \in 0..MaxRequests
  /\ restarts \in 0..MaxRestarts
  /\ \A w \in Works : ctl[w] # "none" =>
       /\ ctl[w] \in Runs
       /\ run[ctl[w]].work = w
       /\ run[ctl[w]].pc \notin {"none", "read", "settle", "leave"}

\* A stop stands: a session that is being cancelled ends idle, and no run of it
\* that fails meanwhile, no restart and no other request says otherwise.
StopStands ==
  [][\A w \in Works :
       row[w].status = "cancelling" => row'[w].status \in {"cancelling", "idle"}]_vars

\* "Never let an error/cancelled task look like a successful legacy response":
\* an answer in the transcript is the one of a task that completed, across
\* restarts, resumed sessions and runs of one session that overlap.
AnswersAreHonest ==
  \A w \in Works : \A m \in Inputs :
    talk[w].answers[m] > 0 => task[w][m] = "completed"

\* A session that fails or is interrupted, after its answer was stored or before,
\* and is resumed: no run starts on a message that has its answer.
StartsUnanswered ==
  [][\A r \in Runs :
       /\ run[r].pc = "read" /\ run'[r].pc = "check"
       /\ run'[r].input # 0
       => talk[run[r].work].answers[run'[r].input] = 0]_vars

\* "A saturated Agent's Work stays queued without blocking other Agents": what
\* is queued for an Agent that does its work leaves the queue, whatever the
\* tasks of the other Agents do.
SaturationIsLocal ==
  \A w \in Works :
    AgentOf[w] \notin Slow => (row[w].status = "queued" ~> row[w].status # "queued")

\* A cancelled session becomes idle: by its run, by the route, or by a restart.
CancelEnds ==
  \A w \in Works : row[w].status = "cancelling" ~> row[w].status # "cancelling"

\* "Work obeys the admin Agent concurrency limits": no more sessions run than
\* the total allows.
LimitObeyed ==
  Cardinality({w \in Works : row[w].status = "running"}) <= MaxTotal

\* "Work was interrupted by a server restart. Review the transcript, then resume
\* it": a run that begins is not handed a task that has already failed.
ResumeRetries ==
  [][\A r \in Runs :
       run[r].pc = "submit" /\ run'[r].pc = "observe" => TaskOf(r) # "failed"]_vars
=============================================================================
