---------------------------- MODULE ChannelInbound ----------------------------
(***************************************************************************)
(* The durable queue of messages that reach an Agent through a channel     *)
(* (agents/channel-inbound-queue.ts), what handles a message of it         *)
(* (agents/message-service.ts for a callback channel, the hosted runner of *)
(* agents/channel-runtime.ts around it), and the process they run in.      *)
(*                                                                         *)
(* A message is a command, whose mutation commits together with its reply, *)
(* or a turn, which submits a native task once (the entry receipt of       *)
(* agents/execution/entries.ts) and saves a reply when the task has        *)
(* settled.  A hosted channel then sends the reply; a callback channel     *)
(* leaves it in the row.  One process owns the runtime, so between the     *)
(* read of a row and its conditional update nothing else writes it and the *)
(* two are one step.  Rows are not deleted (the code keeps settled ones    *)
(* for seven days), and a message that is redelivered while its row exists *)
(* only wakes the queue.                                                   *)
(***************************************************************************)
EXTENDS Naturals, FiniteSets

CONSTANTS
  Messages,
  Queues,        \* routing keys: conversations of the channels
  Connections,
  QueueOf,       \* the queue of each message
  ConnectionOf,  \* the connection of each queue
  Commands,      \* the messages that are commands
  MaxAttempts,   \* MAX_ATTEMPTS
  MaxQueued,     \* MAX_QUEUED
  MaxFaults      \* bound of the model: crashes, shutdowns, stops, lost updates

ASSUME InboundConstants ==
  /\ QueueOf \in [Messages -> Queues]
  /\ ConnectionOf \in [Queues -> Connections]
  /\ Commands \subseteq Messages
  /\ "none" \notin Messages
  /\ {MaxAttempts, MaxQueued, MaxFaults} \subseteq Nat

VARIABLES
  row,       \* AgentChannelInboundEvent: status, attempts, an unexpired lease
  arrived,   \* the order of createdAt
  drain,     \* the entry of each queue in "active", and the message it is on
  reply,     \* messages with a saved reply: result in the row, or the message
  receipt,   \* turns with an entry receipt: the one task they submitted
  effects,   \* how often a message took effect: a mutation, a task submitted
  delivered, \* messages of hosted channels whose reply the platform accepted
  refused,   \* messages answered without a reply of their own
  host,      \* the process
  hosted,    \* the connections of a platform that a runner of this process serves
  runner,    \* the hosted runners that are registered
  faults

vars == <<row, arrived, drain, reply, receipt, effects, delivered, refused, host, hosted, runner, faults>>
-----------------------------------------------------------------------------
NoDrain == [at |-> "idle", on |-> "none", cut |-> FALSE]

\* A drain between two messages.
Looking == [NoDrain EXCEPT !.at = "look"]

Settled(m) == row[m].status \in {"done", "failed"}

Open(q) ==
  {m \in Messages : QueueOf[m] = q /\ row[m].status \in {"queued", "processing"}}

\* The count persistChannelInboundEvent takes.
CountOpen(c) ==
  Cardinality({m \in Messages : ConnectionOf[QueueOf[m]] = c /\ m \in Open(QueueOf[m])})

\* A search that passes over a row whose lease is held.
IsFreeHead(q, m) ==
  /\ m \in Open(q)
  /\ ~row[m].leased
  /\ \A n \in Open(q) : ~row[n].leased => arrived[m] <= arrived[n]

\* findFirst, by createdAt.
IsHead(q, m) ==
  /\ m \in Open(q)
  /\ \A n \in Open(q) : arrived[m] <= arrived[n]

IsHosted(q) == ConnectionOf[q] \in hosted

\* A handler is registered: always one for a callback, the runner's if hosted.
HasHandler(q) == IsHosted(q) => ConnectionOf[q] \in runner

\* The signal of the handler of a message: recoveryAbort, or the controller of
\* the runner it was taken from, which a runner started later does not revive.
Aborted(q) == drain[q].cut

On(q, at) == drain[q].at = at

Goto(q, at) == drain' = [drain EXCEPT ![q].at = at]

CountFault ==
  /\ faults < MaxFaults
  /\ faults' = faults + 1
-----------------------------------------------------------------------------
(* Acceptance *)

\* persistChannelInboundEvent, under the lock of the connection's row.
PersistChannelInboundEvent(m) ==
  LET q == QueueOf[m] IN
  /\ host \in {"up", "stopping"}
  /\ IsHosted(q) => host = "up" /\ HasHandler(q)
  /\ row[m].status = "none"
  /\ CountOpen(ConnectionOf[q]) < MaxQueued
  /\ row' = [row EXCEPT ![m].status = "queued"]
  /\ arrived' = [arrived EXCEPT
                   ![m] = Cardinality({n \in Messages : row[n].status # "none"}) + 1]
  /\ UNCHANGED <<drain, reply, receipt, effects, delivered, refused, host, hosted, runner, faults>>

\* processChannelInboundQueue: called after a message was accepted and by the
\* recovery timers.  A queue that is being drained is not entered again.
ProcessChannelInboundQueue(q) ==
  /\ host = "up"
  /\ On(q, "idle")
  /\ \E m \in Open(q) : row[m].status = "queued" \/ ~row[m].leased
  /\ Goto(q, "look")
  /\ UNCHANGED <<row, arrived, reply, receipt, effects, delivered, refused, host, hosted, runner, faults>>
-----------------------------------------------------------------------------
(* drain *)

\* A drain that never takes over a row another attempt began.
LeavesBegun(q) ==
  \A m \in Open(q) : IsHead(q, m) => row[m].status = "processing" \/ ~HasHandler(q)

\* Nothing to do now: no row, one whose lease is held, or nobody to handle it.
Leaves(q) ==
  \A m \in Open(q) : IsHead(q, m) =>
    (row[m].status = "processing" /\ row[m].leased) \/ ~HasHandler(q)

Leave(q) ==
  /\ On(q, "look")
  /\ Leaves(q)
  /\ drain' = [drain EXCEPT ![q] = NoDrain]
  /\ UNCHANGED <<row, arrived, reply, receipt, effects, delivered, refused, host, hosted, runner, faults>>

\* An attempt too many.
ClaimOnceMore(q, m) ==
  /\ row[m].attempts <= MaxAttempts
  /\ row' = [row EXCEPT ![m] = [status |-> "processing", attempts |-> @.attempts + 1,
                                leased |-> TRUE]]
  /\ drain' = [drain EXCEPT ![q] = [at |-> "handle", on |-> m, cut |-> host = "stopping"]]

\* The attempt is counted before the handler is called.
Claim(q, m) ==
  /\ row[m].attempts < MaxAttempts
  /\ row' = [row EXCEPT ![m] = [status |-> "processing", attempts |-> @.attempts + 1,
                                leased |-> TRUE]]
  /\ drain' = [drain EXCEPT ![q] = [at |-> "handle", on |-> m, cut |-> host = "stopping"]]

GiveUp(m) ==
  /\ row[m].attempts >= MaxAttempts
  /\ row' = [row EXCEPT ![m].status = "failed", ![m].leased = FALSE]
  /\ UNCHANGED drain

Take(q) ==
  /\ On(q, "look")
  /\ ~Leaves(q)
  /\ \E m \in Messages : IsHead(q, m) /\ (Claim(q, m) \/ GiveUp(m))
  /\ UNCHANGED <<arrived, reply, receipt, effects, delivered, refused, host, hosted, runner, faults>>

\* The catch: a shutdown, or whatever calls itself an AbortError, puts the message
\* back and ends the drain; another failure counts.
FailAttempt(q) ==
  LET m == drain[q].on IN
  \/ /\ row' = [row EXCEPT ![m].status = "queued", ![m].leased = FALSE]
     /\ drain' = [drain EXCEPT ![q] = NoDrain]
  \/ /\ host # "stopping"
     /\ row' = [row EXCEPT
                  ![m].status = IF row[m].attempts >= MaxAttempts THEN "failed" ELSE "queued",
                  ![m].leased = FALSE]
     /\ drain' = [drain EXCEPT ![q] = Looking]

\* The try: the handler has returned.
Complete(q) ==
  /\ On(q, "complete")
  /\ row' = [row EXCEPT ![drain[q].on].status = "done", ![drain[q].on].leased = FALSE]
  /\ drain' = [drain EXCEPT ![q] = Looking]
  /\ UNCHANGED <<arrived, reply, receipt, effects, delivered, refused, host, hosted, runner, faults>>

\* Neither the update of the try nor the one of the catch reaches the database:
\* the row keeps its lease, and the drain ends.
LoseUpdate(q) ==
  /\ drain[q].on # "none"
  /\ CountFault
  /\ drain' = [drain EXCEPT ![q] = NoDrain]
  /\ UNCHANGED <<row, arrived, reply, receipt, effects, delivered, refused, host, hosted, runner>>
-----------------------------------------------------------------------------
(* The handler *)

\* Where the handler goes with a reply: out through the platform, or back.
Answer(q) == Goto(q, IF IsHosted(q) THEN "deliver" ELSE "complete")

\* runAgentChannelMessage up to the saved result: a message whose sender, chat,
\* binding or channel is not admitted any more is answered and not run.
Begin(q) ==
  /\ On(q, "handle")
  /\ ~Aborted(q)
  /\ \/ /\ refused' = refused \cup {drain[q].on}
        /\ Goto(q, "complete")
     \/ /\ IF drain[q].on \in reply THEN Answer(q) ELSE Goto(q, "run")
        /\ UNCHANGED refused
  /\ UNCHANGED <<row, arrived, reply, receipt, effects, delivered, host, hosted, runner, faults>>

\* A mutation that commits without its reply.
RunCommandAlone(q) ==
  LET m == drain[q].on IN
  /\ On(q, "run")
  /\ m \in Commands
  /\ effects' = [effects EXCEPT ![m] = @ + 1]
  /\ Answer(q)
  /\ UNCHANGED <<row, arrived, reply, receipt, delivered, refused, host, hosted, runner, faults>>

\* A command: its mutation and its reply in one transaction (rememberResult). A
\* command that changes nothing has nothing to repeat: it is refused in Begin. One
\* of the runtime (executeRuntimeCommand) is no Command here but submits a turn.
RunCommand(q) ==
  LET m == drain[q].on IN
  /\ On(q, "run")
  /\ m \in Commands
  /\ effects' = [effects EXCEPT ![m] = @ + 1]
  /\ reply' = reply \cup {m}
  /\ Answer(q)
  /\ UNCHANGED <<row, arrived, receipt, delivered, refused, host, hosted, runner, faults>>

\* A turn: submitAgentEntry gives the task of an earlier attempt, or a new one.
RunTurn(q) ==
  LET m == drain[q].on IN
  /\ On(q, "run")
  /\ m \notin Commands
  /\ IF m \notin receipt
       THEN /\ receipt' = receipt \cup {m}
            /\ effects' = [effects EXCEPT ![m] = @ + 1]
       ELSE UNCHANGED <<receipt, effects>>
  /\ Goto(q, "observe")
  /\ UNCHANGED <<row, arrived, reply, delivered, refused, host, hosted, runner, faults>>

\* The turn's reply is saved: the task has settled, or was not accepted, or can
\* no longer be observed; each is a reply to the user. The signal is looked at
\* before the reply is inserted, so one that is aborted meanwhile is saved too.
SaveReply(q) ==
  /\ \/ On(q, "observe")
     \/ On(q, "run") /\ drain[q].on \notin Commands
  /\ On(q, "run") => drain[q].on \notin receipt
  /\ reply' = reply \cup {drain[q].on}
  /\ Answer(q)
  /\ UNCHANGED <<row, arrived, receipt, effects, delivered, refused, host, hosted, runner, faults>>

\* adapter.sendMessage.
SendMessage(q) ==
  /\ On(q, "deliver")
  /\ ~Aborted(q)
  /\ delivered' = delivered \cup {drain[q].on}
  /\ Goto(q, "complete")
  /\ UNCHANGED <<row, arrived, reply, receipt, effects, refused, host, hosted, runner, faults>>

\* runAgentChannelMessage throws in a hosted runner that goes on: the user is
\* told that the execution failed, and the message is done with that.
Apologize(q) ==
  /\ drain[q].at \in {"handle", "run", "observe"}
  /\ IsHosted(q) /\ ~Aborted(q)
  /\ refused' = refused \cup {drain[q].on}
  /\ Goto(q, "complete")
  /\ UNCHANGED <<row, arrived, reply, receipt, effects, delivered, host, hosted, runner, faults>>

\* The handler throws: it was aborted, the platform refused the reply or the
\* notice of a failure, or the database refused what it read or wrote.
HandlerThrows(q) ==
  /\ drain[q].at \in {"handle", "run", "observe", "deliver"}
  /\ FailAttempt(q)
  /\ UNCHANGED <<arrived, reply, receipt, effects, delivered, refused, host, hosted, runner, faults>>

DrainStep(q) ==
  \/ ProcessChannelInboundQueue(q)
  \/ Leave(q)
  \/ Take(q)
  \/ Complete(q)
  \/ Begin(q)
  \/ RunCommand(q)
  \/ RunTurn(q)
  \/ SaveReply(q)
  \/ SendMessage(q)
  \/ Apologize(q)
  \/ HandlerThrows(q)
-----------------------------------------------------------------------------
(* Surroundings *)

\* leaseUntil passes: nobody renews the lease of a message that is not handled.
LeaseExpires(m) ==
  /\ row[m].leased
  /\ \A q \in Queues : drain[q].on # m
  /\ row' = [row EXCEPT ![m].leased = FALSE]
  /\ UNCHANGED <<arrived, drain, reply, receipt, effects, delivered, refused, host, hosted, runner, faults>>

\* startAgentChannelRunner, by a user or by reconcileAgentChannelRunners.
StartRunner(c) ==
  /\ host = "up"
  /\ c \in hosted \ runner
  /\ runner' = runner \cup {c}
  /\ UNCHANGED <<row, arrived, drain, reply, receipt, effects, delivered, refused, host, hosted, faults>>

\* stopAgentChannelRunner, and a fatal error of the adapter.
StopRunner(c) ==
  /\ host = "up"
  /\ c \in runner
  /\ CountFault
  /\ runner' = runner \ {c}
  /\ drain' = [q \in Queues |->
       [drain[q] EXCEPT !.cut = @ \/ (ConnectionOf[q] = c /\ drain[q].on # "none")]]
  /\ UNCHANGED <<row, arrived, reply, receipt, effects, delivered, refused, host, hosted>>

\* shutdownAgentChannelRunners: it waits for the queues that are being drained.
Shutdown ==
  /\ host = "up"
  /\ CountFault
  /\ host' = "stopping"
  /\ runner' = {}
  /\ drain' = [q \in Queues |-> [drain[q] EXCEPT !.cut = drain[q].on # "none"]]
  /\ UNCHANGED <<row, arrived, reply, receipt, effects, delivered, refused, hosted>>

Exit ==
  /\ host = "stopping"
  /\ \A q \in Queues : On(q, "idle")
  /\ host' = "down"
  /\ UNCHANGED <<row, arrived, drain, reply, receipt, effects, delivered, refused, hosted, runner, faults>>

\* The process dies, or the shutdown does not wait any longer.
Crash ==
  /\ host # "down"
  /\ CountFault
  /\ host' = "down"
  /\ runner' = {}
  /\ drain' = [q \in Queues |-> NoDrain]
  /\ UNCHANGED <<row, arrived, reply, receipt, effects, delivered, refused, hosted>>

Restart ==
  /\ host = "down"
  /\ host' = "up"
  /\ UNCHANGED <<row, arrived, drain, reply, receipt, effects, delivered, refused, hosted, runner, faults>>
-----------------------------------------------------------------------------
Init ==
  /\ row = [m \in Messages |-> [status |-> "none", attempts |-> 0, leased |-> FALSE]]
  /\ arrived = [m \in Messages |-> 0]
  /\ drain = [q \in Queues |-> NoDrain]
  /\ reply = {}
  /\ receipt = {}
  /\ effects = [m \in Messages |-> 0]
  /\ delivered = {}
  /\ refused = {}
  /\ host = "up"
  /\ hosted \in SUBSET Connections
  /\ runner = hosted
  /\ faults = 0

Next ==
  \/ \E m \in Messages :
       PersistChannelInboundEvent(m) \/ LeaseExpires(m)
  \/ \E q \in Queues : DrainStep(q) \/ LoseUpdate(q)
  \/ \E c \in Connections : StartRunner(c) \/ StopRunner(c)
  \/ Shutdown
  \/ Exit
  \/ Crash
  \/ Restart

Spec == Init /\ [][Next]_vars

\* The drains and the recovery timer go on (the observation of a task ends: it
\* settles by EveryTaskSettles of A2ATasks), time passes, and a process that
\* stops does stop.
FairSpec ==
  /\ Spec
  /\ \A q \in Queues : WF_vars(DrainStep(q))
  /\ \A m \in Messages : WF_vars(LeaseExpires(m))
  /\ WF_vars(Exit)
-----------------------------------------------------------------------------
(* Properties *)

TypeOK ==
  /\ row \in [Messages -> [status : {"none", "queued", "processing", "done", "failed"},
                           attempts : 0..MaxAttempts, leased : BOOLEAN]]
  /\ \A m \in Messages : row[m].leased => row[m].status = "processing"
  /\ drain \in [Queues -> [at : {"idle", "look", "handle", "run", "observe", "deliver", "complete"},
                           on : Messages \cup {"none"}, cut : BOOLEAN]]
  /\ \A q \in Queues :
       drain[q].on \in Messages =>
         QueueOf[drain[q].on] = q /\ row[drain[q].on].status = "processing"
  /\ reply \subseteq Messages /\ receipt \subseteq Messages \ Commands
  /\ runner \subseteq hosted
  /\ host \in {"up", "stopping", "down"}
  /\ host # "up" => runner = {}

\* "A failed transport send may retry the same saved reply, but never the
\* execution": whatever is interrupted, retried or redelivered, a message takes
\* effect once.  And one that is done has been answered without a reply of its
\* own (refused, or with the notice that it failed), or has its reply, and a
\* hosted one was sent.
AnsweredOnce ==
  \A m \in Messages :
    /\ effects[m] <= 1
    /\ row[m].status = "done" /\ m \notin refused =>
         /\ m \in reply
         /\ IsHosted(QueueOf[m]) => m \in delivered

\* Messages of one conversation are run in the order they were accepted: when
\* one is run or answered, the earlier ones of its queue are done or given up.
InOrder ==
  \A m, n \in Messages :
    /\ QueueOf[m] = QueueOf[n]
    /\ 0 < arrived[m] /\ arrived[m] < arrived[n]
    /\ effects[n] > 0 \/ n \in refused \cup reply
    => Settled(m)

\* What a queue has accepted is done or given up (a message is accepted once, so
\* every message is), unless the process goes down or a hosted channel is
\* disconnected again and again.
EveryMessageSettles ==
  \A q \in Queues : Open(q) # {} ~> Open(q) = {} \/ host # "up" \/ runner # hosted
=============================================================================
