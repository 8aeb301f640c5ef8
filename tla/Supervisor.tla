------------------------------ MODULE Supervisor ------------------------------
(***************************************************************************)
(* The child processes of MCP deployments (process/supervisor.ts): starts, *)
(* stops, restarts and kills of a deployment one at a time, in the order   *)
(* they were asked for; the registry on disk that outlives a server        *)
(* process; the status in the database, written behind; the sessions'      *)
(* private processes, which stop with the deployment they were made from;  *)
(* and what an owner (RuntimeOwner) does with them when it starts          *)
(* (process/reconcile.ts) and when it shuts down.                          *)
(*                                                                         *)
(* A child lives on when its server process is killed, and so does the     *)
(* file of the launch lock, which a launch that fails may leave behind.    *)
(***************************************************************************)
EXTENDS RuntimeOwner, Sequences, FiniteSets

CONSTANTS
  Deployments, \* rows of the table
  Private,     \* processes of sessions, which have no row
  SourceOf,    \* the deployment each of them was made from
  MaxAsks,     \* bound of the model: operations asked of each process
  MaxChildren, \* bound of the model: children launched
  MaxFaults    \* bound of the model: calls that fail, children that die or do not

Subjects == Deployments \cup Private
Children == 1..MaxChildren

ASSUME SupervisorConstants ==
  /\ Deployments \cap Private = {}
  /\ SourceOf \in [Private -> Deployments]
  /\ MaxAsks \in [Procs -> Nat]
  /\ {MaxChildren, MaxFaults} \subseteq Nat

VARIABLES
  db,       \* the status in the database
  children, \* every child launched so far
  registry, \* the registry file of each subject
  left,     \* history: children alive when their owner has shut down cleanly
  lock,     \* the launch lock of each subject: the process that its file names
  entry,    \* the store of each process
  queue,    \* lifecycleQueues: the first operation is the one under way
  at,       \* how far it is
  second,   \* the registered child that a stop ends after its own
  tomb,     \* tombstones
  source,   \* private processes associated with their source
  writes,   \* persistQueues: statuses to be written
  failed,   \* operations that have failed
  todo,     \* what the recovery has left to start
  untold,   \* history: passed over at a launch without a word on what became of it
  asked, faults

subjectVars == <<db, children, registry, left>>
memoryVars == <<entry, queue, at, second, tomb, source, writes, failed, todo, untold>>
vars == <<ownerVars, subjectVars, lock, memoryVars, asked, faults>>

NoEntry == [child |-> 0, stopping |-> FALSE]
NoRegistry == [child |-> 0, status |-> "none"]
Fresh(init) == [p \in Procs |-> [s \in Subjects |-> init]]
Statuses == {"stopped", "provisioning", "running", "error"}
Steps == {"idle", "checking", "preparing", "spawning",
          "terminating", "persisting", "releasing", "waiting", "failing"}
Operations ==
  [kind : {"start", "stop", "restart"}, id : Nat, maintenance : BOOLEAN]

TypeOK ==
  /\ OwnerTypeOK
  /\ db \in [Deployments -> Statuses]
  /\ children \in Seq([of : Subjects, by : Procs, alive : BOOLEAN, killed : BOOLEAN,
                       line : {"none", "printed", "read"}, seen : BOOLEAN])
  /\ Len(children) <= MaxChildren /\ left \subseteq DOMAIN children
  /\ registry \in [Subjects -> [child : 0..MaxChildren, status : Statuses \cup {"none"}]]
  /\ entry \in [Procs -> [Subjects -> [child : 0..MaxChildren, stopping : BOOLEAN]]]
  /\ queue \in [Procs -> [Subjects -> Seq(Operations)]]
  /\ at \in [Procs -> [Subjects -> Steps]]
  /\ lock \in [Subjects -> Procs \cup {NoProc}]
  /\ second \in [Procs -> [Subjects -> 0..MaxChildren]]
  /\ tomb \in [Procs -> SUBSET Subjects]
  /\ source \in [Procs -> SUBSET Private]
  /\ writes \in [Procs -> [Subjects -> Seq(Statuses)]]
  /\ failed \in [Procs -> SUBSET Nat]
  /\ {todo, untold} \subseteq [Procs -> SUBSET Deployments]
  /\ \A p \in Procs, s \in Subjects : at[p][s] # "idle" => queue[p][s] # <<>>
  /\ asked \in [Procs -> Nat] /\ \A p \in Procs : asked[p] <= MaxAsks[p]
  /\ faults \in 0..MaxFaults

Init ==
  /\ OwnerInit
  /\ db = [d \in Deployments |-> "stopped"]
  /\ children = <<>> /\ registry = [s \in Subjects |-> NoRegistry] /\ left = {}
  /\ lock = [s \in Subjects |-> NoProc]
  /\ entry = Fresh(NoEntry) /\ queue = Fresh(<<>>) /\ at = Fresh("idle") /\ second = Fresh(0)
  /\ tomb = [p \in Procs |-> {}] /\ source = [p \in Procs |-> {}]
  /\ writes = Fresh(<<>>) /\ failed = [p \in Procs |-> {}]
  /\ todo = [p \in Procs |-> {}] /\ untold = [p \in Procs |-> {}]
  /\ asked = [p \in Procs |-> 0] /\ faults = 0
-----------------------------------------------------------------------------
Alive(c) == c # 0 /\ children[c].alive
Live(c) == Alive(c) /\ ~children[c].killed
Pending(p) == \E s \in Subjects : at[p][s] # "idle"
Op(p, s) == Head(queue[p][s])
Prevented(p, s) == s \in tomb[p]
NoSource(p, s) == FALSE
SourcePrevented(p, s) == s \in Private /\ SourceOf[s] \in tomb[p]

\* What stops with s: the private processes made from it that are known.
Group(p, s) == {s} \cup {x \in source[p] : SourceOf[x] = s}

\* rememberProcessSource, once the source may start processes: when a start is
\* asked for, and again at its turn, as a stop before it drops the association.
Remember(p, s) == source' = [source EXCEPT ![p] = @ \cup ({s} \cap Private)]

\* Another process's child is none of its business.
NotMine(s) == FALSE

\* readRegistry and what launchProcess makes of it.
LaunchedAlready(s) ==
  Alive(registry[s].child) /\ registry[s].status \in {"running", "provisioning"}

\* child.exitCode: a child that has ended by a signal never has one.
HasExitCode(c) == children[c].seen /\ ~children[c].killed

\* The look at the store at the head of launchProcess, and once more under the lock.
HasEntry(p, s) ==
  LET e == entry[p][s] IN e.child # 0 /\ ~e.stopping /\ ~HasExitCode(e.child)

\* acquireLaunchLock refuses: the process that the file names is alive.
Locked(s) == lock[s] # NoProc /\ Up(lock[s])
Unlock(p, s) == lock' = [lock EXCEPT ![s] = IF @ = p THEN NoProc ELSE @]

\* persist: written in order, and nothing for a private process.
Written(p, s, status) ==
  IF s \in Private THEN writes ELSE [writes EXCEPT ![p][s] = Append(@, status)]

Write(p, s, status) ==
  /\ writes' = Written(p, s, status)
  /\ untold' = [untold EXCEPT ![p] = @ \ {s}]

\* Nobody is told what has become of it.
PassOver(p, S) == untold' = [untold EXCEPT ![p] = @ \cup (S \cap Deployments)]

Kill(S) == children' = [c \in DOMAIN children |->
                          IF c \in S THEN [children[c] EXCEPT !.killed = TRUE] ELSE children[c]]

Goto(p, s, step) == at' = [at EXCEPT ![p][s] = step] /\ UNCHANGED <<queue, failed>>

\* The operation goes on counting as pending.
FinishUncounted(p, s) ==
  /\ queue' = [queue EXCEPT ![p][s] = Tail(@)]
  /\ UNCHANGED <<at, failed>>

Finish(p, s) ==
  /\ queue' = [queue EXCEPT ![p][s] = Tail(@)]
  /\ at' = [at EXCEPT ![p][s] = "idle"]
  /\ UNCHANGED failed

\* A restart asks after the stops of its private processes.
FinishFailed(p, s) ==
  /\ queue' = [queue EXCEPT ![p][s] = Tail(@)]
  /\ at' = [at EXCEPT ![p][s] = "idle"]
  /\ failed' = IF s \in Private THEN [failed EXCEPT ![p] = @ \cup {Op(p, s).id}] ELSE failed

Enqueue(p, ops) ==
  queue' = [queue EXCEPT ![p] =
              [s \in Subjects |-> IF s \in DOMAIN ops THEN Append(@[s], ops[s]) ELSE @[s]]]

Underway(p, s, step) == Up(p) /\ queue[p][s] # <<>> /\ at[p][s] = step
Fault == faults < MaxFaults /\ faults' = faults + 1
-----------------------------------------------------------------------------
Ask(p, kind) == [kind |-> kind, id |-> asked[p] + 1, maintenance |-> FALSE]

Asks(p, stop) ==
  /\ Up(p) /\ CanOperate(p, stop, FALSE)
  /\ asked[p] < MaxAsks[p] /\ asked' = [asked EXCEPT ![p] = @ + 1]

StartProcess(p, s) ==
  /\ Asks(p, FALSE)
  /\ ~SourcePrevented(p, s)
  /\ Remember(p, s)
  /\ Enqueue(p, [x \in {s} |-> Ask(p, "start")])
  /\ UNCHANGED <<ownerVars, subjectVars, lock, entry, at, second, tomb, writes, failed, todo,
                 untold, faults>>

StopProcess(p, s) ==
  /\ Asks(p, TRUE)
  /\ Enqueue(p, [x \in Group(p, s) |-> Ask(p, "stop")])
  /\ UNCHANGED <<ownerVars, subjectVars, lock, entry, at, second, tomb, source, writes, failed,
                 todo, untold, faults>>

\* killProcess with preventRestart, and killMany.
KillProcess(p, s) ==
  /\ Asks(p, TRUE)
  /\ tomb' = [tomb EXCEPT ![p] = @ \cup Group(p, s)]
  /\ Enqueue(p, [x \in Group(p, s) |-> Ask(p, "stop")])
  /\ UNCHANGED <<ownerVars, subjectVars, lock, entry, at, second, source, writes, failed, todo,
                 untold, faults>>

RestartProcess(p, s) ==
  /\ Asks(p, FALSE)
  /\ ~SourcePrevented(p, s)
  /\ Remember(p, s)
  /\ Enqueue(p, [x \in Group(p, s) |-> Ask(p, IF x = s THEN "restart" ELSE "stop")])
  /\ UNCHANGED <<ownerVars, subjectVars, lock, entry, at, second, tomb, writes, failed, todo,
                 untold, faults>>

AllowProcessRestart(p, d) ==
  /\ Up(p) /\ d \in tomb[p]
  /\ tomb' = [tomb EXCEPT ![p] = @ \ {d}]
  /\ UNCHANGED <<ownerVars, subjectVars, lock, entry, queue, at, second, source, writes, failed,
                 todo, untold, asked, faults>>
-----------------------------------------------------------------------------
\* The turn of an operation, when it is not too late for any.  None that had to
\* wait is one of the recovery.
TurnRefused(p, s) ==
  /\ Underway(p, s, "idle")
  /\ ~CanOperate(p, TRUE, FALSE)
  /\ FinishFailed(p, s)
  /\ UNCHANGED <<ownerVars, subjectVars, lock, entry, second, tomb, source, writes, todo, untold,
                 asked, faults>>

Launchable(p, s) == ~SourcePrevented(p, s) /\ ~Prevented(p, s)

\* The head of launchProcess, up to the query for the workspace.
EnterLaunch(p, s) ==
  /\ IF SourcePrevented(p, s) THEN UNCHANGED source ELSE Remember(p, s)
  /\ IF Launchable(p, s) THEN Goto(p, s, "checking") ELSE Finish(p, s)

BeginStart(p, s) ==
  /\ Underway(p, s, "idle") /\ Op(p, s).kind = "start"
  /\ CanOperate(p, TRUE, FALSE)
  /\ EnterLaunch(p, s)
  /\ UNCHANGED <<ownerVars, subjectVars, lock, entry, second, tomb, writes, todo, untold, asked,
                 faults>>

\* The looks of launchProcess at the owner and at the store.
MayLaunch(p, s) == CanOperate(p, FALSE, Op(p, s).maintenance) /\ ~HasEntry(p, s)

\* Then at the registry, the tombstones and the launch lock: who finds it taken
\* says that another is about to launch.
Check(p, s) ==
  /\ Underway(p, s, "checking")
  /\ \/ /\ ~MayLaunch(p, s) \/ (~LaunchedAlready(s) /\ Prevented(p, s))
        /\ Finish(p, s)
        /\ UNCHANGED <<lock, writes, untold>>
     \/ /\ MayLaunch(p, s) /\ LaunchedAlready(s)
        /\ Write(p, s, registry[s].status) /\ Finish(p, s)
        /\ UNCHANGED lock
     \/ /\ MayLaunch(p, s) /\ ~LaunchedAlready(s) /\ ~Prevented(p, s) /\ Locked(s)
        /\ writes' = Written(p, s, "provisioning") /\ PassOver(p, {s}) /\ Finish(p, s)
        /\ UNCHANGED lock
     \/ /\ MayLaunch(p, s) /\ ~LaunchedAlready(s) /\ ~Prevented(p, s) /\ ~Locked(s)
        /\ lock' = [lock EXCEPT ![s] = p] /\ Goto(p, s, "preparing")
        /\ UNCHANGED <<writes, untold>>
  /\ UNCHANGED <<ownerVars, subjectVars, entry, second, tomb, source, todo, asked, faults>>

\* The workspace is not active any more, or what is asked before the lock fails:
\* nothing is written, which leaves the row as a recovery has found it.
CheckFails(p, s) ==
  /\ Underway(p, s, "checking") /\ Fault
  /\ Finish(p, s) \/ FinishFailed(p, s)
  /\ PassOver(p, IF Op(p, s).maintenance THEN {s} ELSE {})
  /\ UNCHANGED <<ownerVars, subjectVars, lock, entry, second, tomb, source, writes, todo, asked>>

\* The last look at the tombstones.
Prepare(p, s) ==
  /\ Underway(p, s, "preparing")
  /\ IF Prevented(p, s) THEN Unlock(p, s) /\ Finish(p, s)
                        ELSE Goto(p, s, "spawning") /\ UNCHANGED lock
  /\ UNCHANGED <<ownerVars, subjectVars, entry, second, tomb, source, writes, todo, untold,
                 asked, faults>>

PrepareFails(p, s) ==
  /\ Underway(p, s, "preparing") /\ Fault
  /\ Unlock(p, s) /\ Write(p, s, "error") /\ Goto(p, s, "failing")
  /\ UNCHANGED <<ownerVars, subjectVars, entry, second, tomb, source, todo, asked>>

Spawn(p, s) ==
  /\ Underway(p, s, "spawning") /\ Len(children) < MaxChildren
  /\ LET c == Len(children) + 1
     IN /\ children' = Append(children, [of |-> s, by |-> p, alive |-> TRUE, killed |-> FALSE,
                                         line |-> "none", seen |-> FALSE])
        /\ entry' = [entry EXCEPT ![p][s] = [child |-> c, stopping |-> FALSE]]
        /\ registry' = [registry EXCEPT ![s] = [child |-> c, status |-> "provisioning"]]
  /\ Unlock(p, s) /\ Write(p, s, "provisioning")
  /\ Finish(p, s)
  /\ UNCHANGED <<ownerVars, db, left, second, tomb, source, todo, asked, faults>>

\* spawn() throws; or the settings that are awaited before it cannot be read, and
\* the lock stays.
SpawnFails(p, s) ==
  /\ Underway(p, s, "spawning") /\ Fault
  /\ Unlock(p, s) \/ UNCHANGED lock
  /\ FinishFailed(p, s)
  /\ PassOver(p, IF Op(p, s).maintenance THEN {s} ELSE {})
  /\ UNCHANGED <<ownerVars, subjectVars, entry, second, tomb, source, writes, todo, asked>>

\* LAUNCH_LOCK_MAX_AGE_MS: a lock does not count any longer than ten minutes.
LockExpires(s) ==
  /\ lock[s] # NoProc
  /\ lock' = [lock EXCEPT ![s] = NoProc]
  /\ UNCHANGED <<ownerVars, subjectVars, memoryVars, asked, faults>>

\* stopProcessUnlocked: its own child, then the one another process has left.
BeginStop(p, s) ==
  /\ Underway(p, s, "idle") /\ Op(p, s).kind # "start"
  /\ CanOperate(p, TRUE, FALSE)
  /\ LET its == entry[p][s].child
         other == registry[s].child
     IN /\ entry' = [entry EXCEPT ![p][s].stopping = @ \/ its # 0]
        /\ IF Alive(its)
           THEN Kill({its}) /\ second' = [second EXCEPT ![p][s] = IF other = its THEN 0 ELSE other]
           ELSE Kill({c \in {other} : Alive(c)}) /\ UNCHANGED second
  /\ Goto(p, s, "terminating")
  /\ UNCHANGED <<ownerVars, db, registry, left, lock, tomb, source, writes, todo, untold, asked,
                 faults>>

\* Its own has ended: the other one's turn.
StopOther(p, s) ==
  /\ Underway(p, s, "terminating") /\ second[p][s] # 0 /\ ~Alive(entry[p][s].child)
  /\ Kill({c \in {second[p][s]} : Alive(c)})
  /\ second' = [second EXCEPT ![p][s] = 0]
  /\ UNCHANGED <<ownerVars, db, registry, left, lock, entry, queue, at, tomb, source, writes,
                 failed, todo, untold, asked, faults>>

Dying(s) == {c \in DOMAIN children : children[c].of = s /\ children[c].killed /\ Alive(c)}

Terminated(p, s) ==
  /\ Underway(p, s, "terminating") /\ second[p][s] = 0 /\ Dying(s) = {}
  /\ registry' = [registry EXCEPT ![s] = NoRegistry]
  /\ entry' = [entry EXCEPT ![p][s] = NoEntry]
  /\ Write(p, s, "stopped") /\ Goto(p, s, "persisting")
  /\ UNCHANGED <<ownerVars, db, children, left, lock, second, tomb, source, todo, asked, faults>>

\* It is not gone after a SIGKILL and a second.  The registry is rewritten for a
\* child of its own whose end was not heard.
TerminateFails(p, s) ==
  /\ Underway(p, s, "terminating") /\ Dying(s) # {} /\ Fault
  /\ LET its == entry[p][s].child
     IN registry' = [registry EXCEPT ![s] =
          IF its # 0 /\ ~children[its].seen THEN [child |-> its, status |-> "error"] ELSE @]
  /\ second' = [second EXCEPT ![p][s] = 0]
  /\ Write(p, s, "error") /\ Goto(p, s, "failing")
  /\ UNCHANGED <<ownerVars, db, children, left, lock, entry, tomb, source, todo, asked>>

Failed(p, s) ==
  /\ Underway(p, s, "failing") /\ writes[p][s] = <<>>
  /\ FinishFailed(p, s)
  /\ UNCHANGED <<ownerVars, subjectVars, lock, entry, second, tomb, source, writes, todo, untold,
                 asked, faults>>

\* releaseProcessSource has the container of a private process removed first.
Stopped(p, s) ==
  /\ Underway(p, s, "persisting") /\ writes[p][s] = <<>>
  /\ IF s \in source[p] THEN Goto(p, s, "releasing")
     ELSE IF Op(p, s).kind = "restart" THEN Goto(p, s, "waiting") ELSE Finish(p, s)
  /\ UNCHANGED <<ownerVars, subjectVars, lock, entry, second, tomb, source, writes, todo, untold,
                 asked, faults>>

ReleaseSource(p, s) ==
  /\ Underway(p, s, "releasing")
  /\ source' = [source EXCEPT ![p] = @ \ {s}]
  /\ IF Op(p, s).kind = "restart" THEN Goto(p, s, "waiting") ELSE Finish(p, s)
  /\ UNCHANGED <<ownerVars, subjectVars, lock, entry, second, tomb, writes, todo, untold, asked,
                 faults>>

\* The container cannot be removed: the association stays.
ReleaseFails(p, s) ==
  /\ Underway(p, s, "releasing")
  /\ FinishFailed(p, s)
  /\ UNCHANGED <<ownerVars, subjectVars, lock, entry, second, tomb, source, writes, todo, untold,
                 asked, faults>>

\* Its own is among them.
AllOf(p, s) == {x \in Subjects : \E i \in DOMAIN queue[p][x] : queue[p][x][i].id = Op(p, s).id}

\* The stops of its private processes that a restart waits for.
StopsOf(p, s) == {x \in Private : \E i \in DOMAIN queue[p][x] : queue[p][x][i].id = Op(p, s).id}

Relaunch(p, s) ==
  /\ Underway(p, s, "waiting")
  /\ StopsOf(p, s) = {}
  /\ IF Op(p, s).id \in failed[p] THEN FinishFailed(p, s) /\ UNCHANGED source
     ELSE EnterLaunch(p, s)
  /\ UNCHANGED <<ownerVars, subjectVars, lock, entry, second, tomb, writes, todo, untold, asked,
                 faults>>
-----------------------------------------------------------------------------
\* The child and what the supervisor hears of it: that a private process listens
\* makes no difference to what is modelled.
Announces(c) ==
  /\ Live(c) /\ Up(children[c].by) /\ children[c].line = "none"
  /\ children[c].of \in Deployments
  /\ children' = [children EXCEPT ![c].line = "printed"]
  /\ UNCHANGED <<ownerVars, db, registry, left, lock, memoryVars, asked, faults>>

Dies(c, signalled) ==
  /\ Alive(c)
  /\ children' = [children EXCEPT ![c].alive = FALSE, ![c].killed = signalled]
  /\ UNCHANGED <<ownerVars, db, registry, left, lock, memoryVars, asked>>

Killed(c) == children[c].killed /\ Dies(c, TRUE) /\ UNCHANGED faults

\* It ends by itself, with an error, or by a signal that is not the supervisor's.
Crashes(c) ==
  /\ ~children[c].killed /\ Fault
  /\ \E signalled \in BOOLEAN : Dies(c, signalled)

\* Whether or not it is being stopped.
CurrentOrStopping(c) == entry[children[c].by][children[c].of].child = c

\* The entry of the child is still the current one, and nobody stops it.
Current(c) == entry[children[c].by][children[c].of] = [child |-> c, stopping |-> FALSE]

\* LISTENING: the line may have been in the pipe for a while.
Listening(c) ==
  /\ Up(children[c].by) /\ children[c].line = "printed"
  /\ children' = [children EXCEPT ![c].line = "read"]
  /\ IF Current(c) /\ ~HasExitCode(c)
     THEN /\ registry' = [registry EXCEPT ![children[c].of] = [child |-> c, status |-> "running"]]
          /\ Write(children[c].by, children[c].of, "running")
     ELSE UNCHANGED <<registry, writes, untold>>
  /\ UNCHANGED <<ownerVars, db, left, lock, entry, queue, at, second, tomb, source, failed, todo,
                 asked, faults>>

\* The exit of the child.
Exited(c) ==
  /\ Up(children[c].by) /\ ~children[c].alive /\ ~children[c].seen
  /\ children' = [children EXCEPT ![c].seen = TRUE]
  /\ registry' = [registry EXCEPT ![children[c].of] = IF @.child = c THEN NoRegistry ELSE @]
  /\ IF Current(c) THEN Write(children[c].by, children[c].of, "error") ELSE UNCHANGED <<writes, untold>>
  /\ UNCHANGED <<ownerVars, db, left, lock, entry, queue, at, second, tomb, source, failed, todo,
                 asked, faults>>

\* A process that has shut down cleanly exits before it writes anything more.
Persist(p, d) ==
  /\ Up(p) /\ ~(own[p].clean /\ own[p].shut = "done") /\ writes[p][d] # <<>>
  /\ db' = [db EXCEPT ![d] = Head(writes[p][d])]
  /\ writes' = [writes EXCEPT ![p][d] = Tail(@)]
  /\ UNCHANGED <<ownerVars, children, registry, left, lock, entry, queue, at, second, tomb,
                 source, failed, todo, untold, asked, faults>>
-----------------------------------------------------------------------------
\* reconcileDeployments: what the table says runs is started, one after the other.
StartRecovery(p) ==
  /\ WriteMarker(p)
  /\ todo' = IF own'[p].status = "recovering"
             THEN [todo EXCEPT ![p] = {d \in Deployments : db[d] \in {"running", "provisioning"}}]
             ELSE todo
  /\ UNCHANGED <<subjectVars, lock, entry, queue, at, second, tomb, source, writes, failed,
                 untold, asked, faults>>

Recovering(p) == Up(p) /\ own[p].acq = "recovering" /\ \A s \in Subjects : queue[p][s] = <<>>

\* A start that is refused is skipped.  Nothing is queued before it, so that it
\* begins with the continuations that follow, before anything else happens.
Recover(p) ==
  /\ Recovering(p)
  /\ \E d \in todo[p] :
       /\ todo' = [todo EXCEPT ![p] = @ \ {d}]
       /\ IF CanOperate(p, FALSE, TRUE) /\ Launchable(p, d)
          THEN /\ Enqueue(p, [x \in {d} |-> [kind |-> "start", id |-> 0, maintenance |-> TRUE]])
               /\ at' = [at EXCEPT ![p][d] = "checking"]
          ELSE UNCHANGED <<queue, at>>
  /\ UNCHANGED <<ownerVars, subjectVars, lock, entry, second, tomb, source, writes, failed,
                 untold, asked, faults>>

\* Its spec cannot be resolved (a credential is missing or invalid), or it is
\* history that is only read: nothing is started, and its row stays as it is.
RecoverySkips(p) ==
  /\ Recovering(p) /\ Fault
  /\ \E d \in todo[p] : todo' = [todo EXCEPT ![p] = @ \ {d}] /\ PassOver(p, {d})
  /\ UNCHANGED <<ownerVars, subjectVars, lock, entry, queue, at, second, tomb, source, writes,
                 failed, asked>>

Recovered(p) ==
  /\ Recovering(p) /\ todo[p] = {}
  /\ BecomeReady(p)
  /\ UNCHANGED <<subjectVars, lock, memoryVars, asked, faults>>

RecoveryGivesUp(p) ==
  /\ Recovering(p) /\ Fault
  /\ RecoveryFails(p)
  /\ UNCHANGED <<subjectVars, lock, memoryVars, asked>>
-----------------------------------------------------------------------------
\* shutdownOwnedProcesses: the children of this moment, whatever is under way.
Sweep(p) ==
  /\ Up(p) /\ own[p].shut = "stopping"
  /\ Become(p, [own[p] EXCEPT !.shut =
       IF \A s \in Subjects : entry[p][s] = NoEntry THEN "draining" ELSE "sweeping"])
  /\ entry' = [entry EXCEPT ![p] = [s \in Subjects |->
                 [child |-> @[s].child, stopping |-> @[s].stopping \/ @[s].child # 0]]]
  /\ Kill({c \in DOMAIN children : \E s \in Subjects : entry[p][s].child = c /\ Alive(c)})
  /\ UNCHANGED <<holder, marker, db, registry, left, lock, queue, at, second, tomb, source,
                 writes, failed, todo, untold, asked, faults>>

Swept(p) == {s \in Subjects : entry[p][s].stopping}

EndSweep(p) ==
  /\ Up(p) /\ own[p].shut = "sweeping"
  /\ \A s \in Swept(p) : ~Alive(entry[p][s].child)
  /\ StopEnds(p, TRUE)
  /\ registry' = [s \in Subjects |-> IF s \in Swept(p) /\ registry[s].child = entry[p][s].child
                                     THEN NoRegistry ELSE registry[s]]
  /\ entry' = [entry EXCEPT ![p] = [s \in Subjects |-> IF s \in Swept(p) THEN NoEntry ELSE @[s]]]
  /\ UNCHANGED <<db, children, left, lock, queue, at, second, tomb, source, writes, failed, todo,
                 untold, asked, faults>>

\* A part of it throws, or forty seconds have passed.
StopGivesUp(p) ==
  /\ Up(p) /\ own[p].shut \in {"stopping", "sweeping"} /\ Fault
  /\ StopEnds(p, FALSE)
  /\ UNCHANGED <<subjectVars, lock, memoryVars, asked>>

DrainOperations(p) ==
  /\ Drain(p, Pending(p))
  /\ UNCHANGED <<subjectVars, lock, memoryVars, asked, faults>>
-----------------------------------------------------------------------------
\* What the operator promises: the owner that left its marker is gone, and so is
\* what it had started.
Acknowledged(q) ==
  /\ q # NoProc /\ own[q].run = "dead"
  /\ \A c \in DOMAIN children : children[c].by = q => ~children[c].alive

Boot(p) ==
  /\ \E a \in {NoProc} \cup {q \in {marker} : Acknowledged(q)} : BootWith(p, a)
  /\ UNCHANGED <<subjectVars, lock, memoryVars, asked, faults>>

OperatorEnds(c) ==
  /\ Alive(c) /\ children[c].by = marker /\ own[marker].run = "dead"
  /\ children' = [children EXCEPT ![c].alive = FALSE, ![c].killed = TRUE]
  /\ UNCHANGED <<ownerVars, db, registry, left, lock, memoryVars, asked, faults>>

\* Nothing of the memory of a process outlives it, and it hears of no child again.
ProcessEnds(p) ==
  /\ Exit(p)
  /\ children' = [c \in DOMAIN children |->
                    IF children[c].by = p THEN [children[c] EXCEPT !.line = "read", !.seen = TRUE]
                                          ELSE children[c]]
  /\ entry' = [entry EXCEPT ![p] = [s \in Subjects |-> NoEntry]]
  /\ queue' = [queue EXCEPT ![p] = [s \in Subjects |-> <<>>]]
  /\ at' = [at EXCEPT ![p] = [s \in Subjects |-> "idle"]]
  /\ writes' = [writes EXCEPT ![p] = [s \in Subjects |-> <<>>]]
  /\ tomb' = [tomb EXCEPT ![p] = {}] /\ source' = [source EXCEPT ![p] = {}]
  /\ second' = [second EXCEPT ![p] = [s \in Subjects |-> 0]]
  /\ failed' = [failed EXCEPT ![p] = {}] /\ todo' = [todo EXCEPT ![p] = {}]
  /\ untold' = [untold EXCEPT ![p] = {}]
  /\ UNCHANGED <<db, registry, left, lock, asked, faults>>

OwnerStep(p) ==
  /\ \/ Connect(p) \/ TryLock(p) \/ ReadMarker(p) \/ QueryFails(p)
     \/ Notice(p) \/ Signal(p)
  /\ UNCHANGED <<subjectVars, lock, memoryVars, asked, faults>>

ReleaseOwner(p) ==
  /\ Release(p)
  /\ left' = IF own[p].clean THEN left \cup {c \in DOMAIN children : children[c].by = p /\ Alive(c)}
                             ELSE left
  /\ UNCHANGED <<db, children, registry, lock, memoryVars, asked, faults>>

SessionEnds(p) ==
  /\ SessionBreaks(p) /\ Fault
  /\ UNCHANGED <<subjectVars, lock, memoryVars, asked>>

Operate(p, s) ==
  \/ TurnRefused(p, s) \/ BeginStart(p, s) \/ Check(p, s) \/ Prepare(p, s) \/ Spawn(p, s)
  \/ BeginStop(p, s) \/ StopOther(p, s) \/ Terminated(p, s) \/ Failed(p, s) \/ Stopped(p, s)
  \/ ReleaseSource(p, s) \/ Relaunch(p, s)

\* The steps that nothing makes happen.
OperationFails(p, s) ==
  \/ CheckFails(p, s) \/ PrepareFails(p, s) \/ SpawnFails(p, s)
  \/ TerminateFails(p, s) \/ ReleaseFails(p, s)

Next ==
  \/ \E p \in Procs :
       \/ Boot(p) \/ OwnerStep(p) \/ ReleaseOwner(p) \/ StartRecovery(p) \/ Recover(p) \/ RecoverySkips(p)
       \/ Recovered(p) \/ RecoveryGivesUp(p) \/ SessionEnds(p) \/ Sweep(p) \/ EndSweep(p) \/ StopGivesUp(p)
       \/ DrainOperations(p) \/ ProcessEnds(p)
       \/ \E s \in Subjects :
            \/ StartProcess(p, s) \/ StopProcess(p, s)
            \/ Operate(p, s) \/ OperationFails(p, s)
       \/ \E d \in Deployments :
            RestartProcess(p, d) \/ KillProcess(p, d) \/ AllowProcessRestart(p, d) \/ Persist(p, d)
  \/ \E s \in Subjects : LockExpires(s)
  \/ \E c \in DOMAIN children :
       \/ Announces(c) \/ Killed(c) \/ Crashes(c) \/ Listening(c) \/ Exited(c) \/ OperatorEnds(c)

Spec == Init /\ [][Next]_vars

\* What a process has begun goes on, a child that was killed ends, and the
\* statements of the database are answered.  Nobody has to ask for anything.
Fairness ==
  /\ \A p \in Procs, s \in Subjects : WF_vars(Operate(p, s))
  /\ \A p \in Procs, d \in Deployments : WF_vars(Persist(p, d))
  /\ \A c \in Children : WF_vars(c \in DOMAIN children /\ Killed(c))

FairSpec == Spec /\ Fairness
-----------------------------------------------------------------------------
\* Whoever recovers or runs the domain is the only one, and nothing that an
\* earlier owner has begun is still under way in it: not even when the database
\* has dropped the earlier owner's session behind its back.
OneOwner ==
  \A p, q \in Procs : (p # q /\ Operating(q)) => ~Operating(p) /\ ~(Up(p) /\ Pending(p))

\* Another owner than those of c and e has launched a child for the same subject.
ThirdLauncher(c, e) ==
  \E x \in DOMAIN children :
    children[x].of = children[c].of /\ children[x].by \notin {children[c].by, children[e].by}

\* No deployment and no session has two children that nobody has told to stop,
\* whichever process has launched them. The exception takes an orphan (NoOrphans),
\* which the registry alone tells the next owner of, and a third owner: a line of
\* a child of its own, heard after it has let go of the lock, overwrites it there.
OneChild ==
  \A c, e \in DOMAIN children :
    (Live(c) /\ Live(e) /\ children[c].of = children[e].of) =>
      c = e \/ ({c, e} \cap left # {} /\ ThirdLauncher(c, e))

InvolvedIn(d) == {d} \cup {x \in Private : SourceOf[x] = d}

\* A deployment that was killed for good has no child once its operations are
\* over, and neither has a session that uses it: no start that was under way,
\* was waiting or had been forgotten about brings one back.
KillHolds ==
  \A p \in Procs : own[p].status = "ready" => \A d \in tomb[p] \cap Deployments :
    (\A s \in InvolvedIn(d) : queue[p][s] = <<>>) =>
      \A c \in DOMAIN children : ~(Live(c) /\ children[c].by = p /\ children[c].of \in InvolvedIn(d))

\* No owner has left a child of d behind (NoOrphans).
ItsOwn(d) == \A c \in left : children[c].of # d

\* The child that the store has of d ended by a signal, and is taken for alive.
Deceased(p, d) ==
  LET e == entry[p][d] IN e.child # 0 /\ ~e.stopping /\ children[e.child].seen /\ children[e.child].killed

Quiet(p, d) ==
  /\ queue[p][d] = <<>> /\ writes[p][d] = <<>>
  /\ \A c \in DOMAIN children : (children[c].of = d /\ children[c].by = p) =>
       (children[c].alive \/ children[c].seen) /\ children[c].line # "printed"

\* The children of d that nobody has told to stop.
Its(d) == {c \in DOMAIN children : children[c].of = d /\ Live(c)}

Agrees(d) ==
  /\ db[d] \in {"running", "provisioning"} <=> Its(d) # {}
  /\ db[d] = "running" <=> \E c \in Its(d) : children[c].line = "read"

Settled(p, d) == own[p].status = "ready" /\ Quiet(p, d) /\ ItsOwn(d) /\ ~Deceased(p, d)

\* When nothing is under way, the table says of a deployment what is true of its
\* child, which neither a late line nor the exit of a child that was replaced, nor
\* a restart of the server changes.  Of one without a child it may be wrong when
\* the process has passed it over (untold): its recovery found the row and could
\* not launch, or a launch found a lock that one before it has left behind.
StatusAgrees ==
  \A p \in Procs, d \in Deployments :
    Settled(p, d) => Agrees(d) \/ (Its(d) = {} /\ d \in untold[p])

\* Every operation comes to its turn and ends, however many of them wait for
\* each other's: a restart for the stops of the sessions, a stop for the child.
EveryOperationEnds ==
  \A p \in Procs, s \in Subjects : []<>(queue[p][s] = <<>> \/ own[p].clean)

\* A start that nothing forbids either launches a child or leaves one there that
\* is not known to have ended.
SkipsTheSupervised ==
  [][\A p \in Procs, s \in Subjects :
       (Check(p, s) /\ at'[p][s] = "idle" /\ HasEntry(p, s)) => ~children[entry[p][s].child].seen]_vars

\* reconcileDeployments makes the live state match what the table claims, and a
\* failure flips the status to "error" (process/reconcile.ts:77-80).
NonePassedOver ==
  \A p \in Procs, d \in Deployments : Settled(p, d) => Agrees(d)

\* A shutdown that calls itself clean has left no child behind.
NoOrphans == left = {}
=============================================================================
