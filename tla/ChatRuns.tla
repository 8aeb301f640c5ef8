------------------------------- MODULE ChatRuns -------------------------------
(***************************************************************************)
(* The turns of one chat thread: their durable runs under a fenced lease   *)
(* (chat/run-control.ts), the single-use tool calls of a run               *)
(* (chat/durable-tools.ts), their end (completeChatTurn, finishChatTurn),  *)
(* stopping, recovery of runs whose lease expired, and the subscribers     *)
(* that follow the event log.                                              *)
(*                                                                         *)
(* A transaction locks the ChatTurn row and is one action.  The status of  *)
(* the assistant message is written with the status of its turn, in the    *)
(* same transactions, and is left out.                                     *)
(***************************************************************************)
EXTENDS Naturals, Sequences

CONSTANTS
  Turns,      \* the turns of the thread: idempotency keys of its requests
  Calls,      \* toolCallIds the model may use in a turn
  MaxChunks   \* bound of the model: length of a log beyond which no text is sent

ASSUME ChatConstants == MaxChunks \in Nat

VARIABLES
  turn,     \* the ChatTurn rows
  events,   \* their ChatRunEvents, in the order of sequence
  conf,     \* their ChatToolConfirmations
  exec,     \* the run of each turn in this process: startChatRun
  tool,     \* the tool calls in flight of each run: wrapChatTools
  effects,  \* how often each call reached its tool
  sub       \* one subscriber of the thread: subscribeChatRun

vars == <<turn, events, conf, exec, tool, effects, sub>>
-----------------------------------------------------------------------------
Ends == {"completed", "failed", "cancelled"}

\* The last event of a turn that ended.
Closing == [completed |-> "finish", failed |-> "error", cancelled |-> "abort"]

Row ==
  [status : {"none", "pending"} \cup Ends, leased : BOOLEAN, live : BOOLEAN,
   gen : 0..2, stop : BOOLEAN, old : BOOLEAN]

NoRow ==
  [status |-> "none", leased |-> FALSE, live |-> FALSE, gen |-> 0,
   stop |-> FALSE, old |-> FALSE]

NoExec == [pc |-> "none", gen |-> 0, aborted |-> "no", unknown |-> FALSE]

Pending(t) == turn[t].status = "pending"

\* lockChatRun and chatRunFenceWhere: the run still owns its turn.
Holds(t) ==
  /\ Pending(t)
  /\ turn[t].leased /\ turn[t].live
  /\ turn[t].gen = exec[t].gen

\* recoverStaleChatRuns selects turns whose lease expired, and turns nobody
\* claimed within CHAT_TURN_STALE_AFTER_MS.
Stale(t) ==
  /\ Pending(t)
  /\ IF turn[t].leased THEN ~turn[t].live ELSE turn[t].old

\* End the turn and publish it, in one transaction.
Publish(t, status) ==
  /\ turn' = [turn EXCEPT ![t].status = status]
  /\ events' = [events EXCEPT ![t] = Append(@, Closing[status])]

Log(t, n) ==
  events' = [events EXCEPT ![t] = @ \o [i \in 1..n |-> "chunk"]]
-----------------------------------------------------------------------------
(* Requests *)

\* beginChatTurn: one pending turn for a thread, and the log starts.
BeginChatTurn(t) ==
  /\ turn[t].status = "none"
  /\ \A u \in Turns : ~Pending(u)
  /\ turn' = [turn EXCEPT ![t].status = "pending"]
  /\ Log(t, 1)
  /\ UNCHANGED <<conf, exec, tool, effects, sub>>

\* Mutant: a retried request takes the run over.
TakeChatRun(t) ==
  /\ Pending(t)
  /\ ~turn[t].stop
  /\ turn[t].gen < 3
  /\ turn' = [turn EXCEPT ![t].leased = TRUE, ![t].live = TRUE, ![t].gen = @ + 1]
  /\ exec' = [exec EXCEPT ![t] = [NoExec EXCEPT !.pc = "streaming", !.gen = turn[t].gen + 1]]
  /\ UNCHANGED <<events, conf, tool, effects, sub>>

\* startChatRun, by the request or by a retry of it.  If the runtime is draining
\* the claim stands and no run is created.
StartChatRun(t) ==
  /\ Pending(t)
  /\ ~turn[t].leased /\ ~turn[t].stop
  /\ turn' = [turn EXCEPT ![t].leased = TRUE, ![t].live = TRUE, ![t].gen = @ + 1]
  /\ \/ exec' = [exec EXCEPT ![t] = [NoExec EXCEPT !.pc = "streaming", !.gen = turn[t].gen + 1]]
     \/ UNCHANGED exec
  /\ UNCHANGED <<events, conf, tool, effects, sub>>

\* The request failed to start the run: finishChatTurn without a fence.
StartFails(t) ==
  /\ Pending(t) /\ ~turn[t].leased
  /\ Publish(t, "failed")
  /\ UNCHANGED <<conf, exec, tool, effects, sub>>

\* cancelChatRun: a run that exists is asked to stop and ends itself.
CancelChatRun(t) ==
  /\ Pending(t)
  /\ IF turn[t].leased
     THEN /\ turn' = [turn EXCEPT ![t].stop = TRUE]
          /\ UNCHANGED events
     ELSE /\ turn' = [turn EXCEPT ![t].stop = TRUE, ![t].status = "cancelled"]
          /\ events' = [events EXCEPT ![t] = Append(@, "abort")]
  /\ UNCHANGED <<conf, exec, tool, effects, sub>>

\* Mutant: recovery leaves the tool calls of the run alone.
RecoverTurnOnly(t) ==
  /\ Stale(t)
  /\ turn' = [turn EXCEPT ![t].status = "failed", ![t].leased = FALSE,
                          ![t].live = FALSE, ![t].gen = @ + 1]
  /\ events' = [events EXCEPT ![t] = Append(@, "error")]
  /\ UNCHANGED <<conf, exec, tool, effects, sub>>

\* recoverStaleChatRuns: the outcome of what was executing is unknown.
RecoverStale(t) ==
  /\ Stale(t)
  /\ turn' = [turn EXCEPT ![t].status = "failed", ![t].leased = FALSE,
                          ![t].live = FALSE, ![t].gen = @ + 1]
  /\ events' = [events EXCEPT ![t] = Append(@, "error")]
  /\ conf' = [conf EXCEPT ![t] =
                [c \in Calls |-> IF @[c] = "executing" THEN "unknown" ELSE @[c]]]
  /\ UNCHANGED <<exec, tool, effects, sub>>
-----------------------------------------------------------------------------
(* The run *)

\* appendChatRunEvent; an append whose fence is lost fails the stream.
AppendChatRunEvent(t) ==
  /\ exec[t].pc = "streaming"
  /\ Holds(t)
  /\ Len(events[t]) < MaxChunks
  /\ Log(t, 1)
  /\ UNCHANGED <<turn, conf, exec, tool, effects, sub>>

\* The heartbeat sees a lost lease; or the deadline, lost access or a concurrent
\* recovery abort the run ("lost").  An AbortError is that of a stop which the
\* heartbeat sees, or of the owner of the runtime which shuts down ("stopped").
Abort(t) ==
  /\ exec[t].pc = "streaming"
  /\ exec[t].aborted = "no"
  /\ \E why \in {"lost", "stopped"} : exec' = [exec EXCEPT ![t].aborted = why]
  /\ UNCHANGED <<turn, events, conf, tool, effects, sub>>

StreamEnds(t) ==
  /\ exec[t].pc = "streaming"
  /\ exec[t].aborted = "no"
  /\ \A c \in Calls : tool[t][c] = "idle"
  /\ exec' = [exec EXCEPT ![t].pc = "counting"]
  /\ UNCHANGED <<turn, events, conf, tool, effects, sub>>

\* The stream breaks off, whatever tools are still running.
StreamFails(t) ==
  /\ exec[t].pc = "streaming"
  /\ exec' = [exec EXCEPT ![t].pc = "failing",
                          ![t].aborted = IF @ = "no" THEN "lost" ELSE @]
  /\ UNCHANGED <<turn, events, conf, tool, effects, sub>>

\* A turn with a call of unknown outcome does not complete.
CountOpenCalls(t) ==
  /\ exec[t].pc = "counting"
  /\ exec' = [exec EXCEPT
       ![t].pc = IF \E c \in Calls : conf[t][c] \in {"executing", "unknown"}
                 THEN "failing" ELSE "finalizing",
       ![t].aborted = IF \E c \in Calls : conf[t][c] \in {"executing", "unknown"}
                      THEN "lost" ELSE @]
  /\ UNCHANGED <<turn, events, conf, tool, effects, sub>>

\* completeChatTurn: a stop that came first wins.
CompleteChatTurn(t) ==
  /\ exec[t].pc = "finalizing"
  /\ IF ~Holds(t) THEN UNCHANGED <<turn, events>>
     ELSE Publish(t, IF turn[t].stop THEN "cancelled" ELSE "completed")
  /\ exec' = [exec EXCEPT ![t].pc = "done"]
  /\ UNCHANGED <<conf, tool, effects, sub>>

\* The stream has ended, but the Agent did not succeed: finishChatTurn at once.
FinishUnsucceeded(t) ==
  /\ exec[t].pc = "finalizing"
  /\ IF ~Holds(t) THEN UNCHANGED <<turn, events>> ELSE Publish(t, "failed")
  /\ exec' = [exec EXCEPT ![t].pc = "done"]
  /\ UNCHANGED <<conf, tool, effects, sub>>

\* The transaction of either fails.
FinalizeFails(t) ==
  /\ exec[t].pc = "finalizing"
  /\ exec' = [exec EXCEPT ![t].pc = "failing", ![t].aborted = "lost"]
  /\ UNCHANGED <<turn, events, conf, tool, effects, sub>>

\* The catch of the run: what still executes has an unknown outcome.  Without
\* the lease, or if the database fails, the run is left to recovery.
MarkUnknown(t) ==
  /\ exec[t].pc = "failing"
  /\ \/ /\ Holds(t)
        /\ conf' = [conf EXCEPT ![t] =
                      [c \in Calls |-> IF @[c] = "executing" THEN "unknown" ELSE @[c]]]
        /\ exec' = [exec EXCEPT ![t].pc = "marked"]
     \/ /\ exec' = [exec EXCEPT ![t].pc = "done"]
        /\ UNCHANGED conf
  /\ UNCHANGED <<turn, events, tool, effects, sub>>

CountUnknown(t) ==
  /\ exec[t].pc = "marked"
  /\ exec' = [exec EXCEPT ![t].pc = "finishing",
                          ![t].unknown = \E c \in Calls : conf[t][c] = "unknown"]
  /\ UNCHANGED <<turn, events, conf, tool, effects, sub>>

\* Mutant: the end of a failed run is written without its fence.
FinishUnfenced(t) ==
  /\ exec[t].pc = "finishing"
  /\ Publish(t, "failed")
  /\ exec' = [exec EXCEPT ![t].pc = "done"]
  /\ UNCHANGED <<conf, tool, effects, sub>>

\* finishChatTurn under the fence of the run.
FinishChatTurn(t) ==
  /\ exec[t].pc = "finishing"
  /\ IF ~Holds(t) THEN UNCHANGED <<turn, events>>
     ELSE Publish(t, IF ~exec[t].unknown /\ exec[t].aborted = "stopped"
                     THEN "cancelled" ELSE "failed")
  /\ exec' = [exec EXCEPT ![t].pc = "done"]
  /\ UNCHANGED <<conf, tool, effects, sub>>
-----------------------------------------------------------------------------
(* Tool calls: wrapChatTools *)

\* Mutant: a call that was recorded before is executed again.
ClaimCallAgain(t, c) ==
  /\ exec[t].pc = "streaming" /\ exec[t].aborted = "no"
  /\ Holds(t) /\ ~turn[t].stop
  /\ tool[t][c] = "idle"
  /\ effects[t][c] < 2
  /\ conf' = [conf EXCEPT ![t][c] = "executing"]
  /\ tool' = [tool EXCEPT ![t][c] = "claimed"]
  /\ Log(t, 2)
  /\ UNCHANGED <<turn, exec, effects, sub>>

\* Fence, authority and the durable claim commit before the tool is invoked.
ClaimCall(t, c) ==
  /\ exec[t].pc = "streaming" /\ exec[t].aborted = "no"
  /\ Holds(t) /\ ~turn[t].stop
  /\ conf[t][c] = "none"
  /\ conf' = [conf EXCEPT ![t][c] = "executing"]
  /\ tool' = [tool EXCEPT ![t][c] = "claimed"]
  /\ Log(t, 2)
  /\ UNCHANGED <<turn, exec, effects, sub>>

\* The tool returns, or throws after or before it had its effect.
InvokeTool(t, c) ==
  /\ tool[t][c] = "claimed"
  /\ exec[t].aborted = "no"
  /\ \/ /\ effects' = [effects EXCEPT ![t][c] = @ + 1]
        /\ tool' \in {[tool EXCEPT ![t][c] = out] : out \in {"returned", "threw"}}
     \/ /\ tool' = [tool EXCEPT ![t][c] = "threw"]
        /\ UNCHANGED effects
  /\ UNCHANGED <<turn, events, conf, exec, sub>>

\* McpToolNotDispatchedError: aborted in time, or proved by the transport.
NotDispatched(t, c) ==
  /\ tool[t][c] = "claimed"
  /\ tool' = [tool EXCEPT ![t][c] = "undispatched"]
  /\ UNCHANGED <<turn, events, conf, exec, effects, sub>>

\* Mutant: the result of a late call is recorded without the fence.
RecordResultLate(t, c) ==
  /\ tool[t][c] = "returned"
  /\ conf' = [conf EXCEPT ![t][c] = "succeeded"]
  /\ IF Holds(t) THEN Log(t, 1) ELSE UNCHANGED events
  /\ tool' = [tool EXCEPT ![t][c] = "idle"]
  /\ UNCHANGED <<turn, exec, effects, sub>>

\* A result that cannot be recorded under the fence is treated as an error.
RecordResult(t, c) ==
  /\ tool[t][c] = "returned"
  /\ \/ /\ Holds(t)
        /\ conf' = [conf EXCEPT ![t][c] = "succeeded"]
        /\ Log(t, 1)
        /\ tool' = [tool EXCEPT ![t][c] = "idle"]
     \/ /\ tool' = [tool EXCEPT ![t][c] = "threw"]
        /\ UNCHANGED <<conf, events>>
  /\ UNCHANGED <<turn, exec, effects, sub>>

\* Only the transport can prove that the tool was never reached.
CallOutcome(t, c) == IF tool[t][c] = "undispatched" THEN "failed" ELSE "unknown"

\* The catch of a call: if it cannot be recorded, the call stays executing.
RecordFailure(t, c) ==
  /\ tool[t][c] \in {"threw", "undispatched"}
  /\ tool' = [tool EXCEPT ![t][c] = "idle"]
  /\ \/ /\ Holds(t)
        /\ conf' = [conf EXCEPT ![t][c] = IF @ = "executing" THEN CallOutcome(t, c) ELSE @]
        /\ Log(t, 1)
        /\ exec' = [exec EXCEPT ![t].aborted =
                      IF @ = "no" /\ tool[t][c] = "threw" THEN "lost" ELSE @]
     \/ UNCHANGED <<conf, events, exec>>
  /\ UNCHANGED <<turn, effects, sub>>
-----------------------------------------------------------------------------
(* Subscribers: subscribeChatRun *)

Subscribe(t) ==
  /\ sub.pc = "none"
  /\ turn[t].status # "none"
  /\ \E cursor \in 0..Len(events[t]) :
       sub' = [pc |-> "read", of |-> {t}, cursor |-> cursor]
  /\ UNCHANGED <<turn, events, conf, exec, tool, effects>>

ReadEvents(t) ==
  /\ sub.pc = "read" /\ t \in sub.of
  /\ sub' = IF sub.cursor < Len(events[t])
            THEN [sub EXCEPT !.cursor = Len(events[t])]
            ELSE [sub EXCEPT !.pc = "check"]
  /\ UNCHANGED <<turn, events, conf, exec, tool, effects>>

\* Mutant: the stream is closed as soon as the turn is over.
CloseOnStatus(t) ==
  /\ sub.pc = "check" /\ t \in sub.of
  /\ sub' = [sub EXCEPT !.pc = IF ~Pending(t) THEN "closed" ELSE "wait"]
  /\ UNCHANGED <<turn, events, conf, exec, tool, effects>>

\* The turn is over and its last event was delivered, or wait and look again.
CheckStatus(t) ==
  /\ sub.pc = "check" /\ t \in sub.of
  /\ sub' = [sub EXCEPT !.pc = IF ~Pending(t) /\ Len(events[t]) = sub.cursor
                               THEN "closed" ELSE "wait"]
  /\ UNCHANGED <<turn, events, conf, exec, tool, effects>>

\* Each round first recovers the stale runs of the thread.
Wake ==
  /\ sub.pc = "wait"
  /\ \A t \in Turns : ~Stale(t)
  /\ sub' = [sub EXCEPT !.pc = "read"]
  /\ UNCHANGED <<turn, events, conf, exec, tool, effects>>
-----------------------------------------------------------------------------
(* Time and the process *)

\* The heartbeat was missed for LEASE_MS; an expired lease is never renewed.
LeaseExpires(t) ==
  /\ Pending(t) /\ turn[t].leased /\ turn[t].live
  /\ turn' = [turn EXCEPT ![t].live = FALSE]
  /\ UNCHANGED <<events, conf, exec, tool, effects, sub>>

GrowsOld(t) ==
  /\ Pending(t) /\ ~turn[t].old
  /\ turn' = [turn EXCEPT ![t].old = TRUE]
  /\ UNCHANGED <<events, conf, exec, tool, effects, sub>>

Crash ==
  /\ \E t \in Turns : exec[t].pc \notin {"none", "done"}
  /\ exec' = [t \in Turns |-> [exec[t] EXCEPT !.pc = IF @ = "none" THEN @ ELSE "done"]]
  /\ tool' = [t \in Turns |-> [c \in Calls |-> "idle"]]
  /\ UNCHANGED <<turn, events, conf, effects, sub>>
-----------------------------------------------------------------------------
Init ==
  /\ turn = [t \in Turns |-> NoRow]
  /\ events = [t \in Turns |-> <<>>]
  /\ conf = [t \in Turns |-> [c \in Calls |-> "none"]]
  /\ exec = [t \in Turns |-> NoExec]
  /\ tool = [t \in Turns |-> [c \in Calls |-> "idle"]]
  /\ effects = [t \in Turns |-> [c \in Calls |-> 0]]
  /\ sub = [pc |-> "none", of |-> {}, cursor |-> 0]

Request(t) ==
  \/ BeginChatTurn(t) \/ StartChatRun(t) \/ StartFails(t) \/ CancelChatRun(t)

RunStep(t) ==
  \/ AppendChatRunEvent(t) \/ StreamEnds(t) \/ StreamFails(t)
  \/ CountOpenCalls(t) \/ CompleteChatTurn(t) \/ FinishUnsucceeded(t) \/ FinalizeFails(t)
  \/ MarkUnknown(t) \/ CountUnknown(t) \/ FinishChatTurn(t)

ToolStep(t, c) ==
  \/ ClaimCall(t, c) \/ InvokeTool(t, c) \/ NotDispatched(t, c)
  \/ RecordResult(t, c) \/ RecordFailure(t, c)

Next ==
  \/ \E t \in Turns :
       \/ Request(t) \/ RecoverStale(t) \/ RunStep(t) \/ Abort(t)
       \/ \E c \in Calls : ToolStep(t, c)
       \/ Subscribe(t) \/ ReadEvents(t) \/ CheckStatus(t)
       \/ LeaseExpires(t) \/ GrowsOld(t)
  \/ Wake \/ Crash

Spec == Init /\ [][Next]_vars

\* A subscriber keeps polling and recovers what is stale; a run moves on (its
\* deadline aborts it); a lease without a run expires; time passes.
Fairness ==
  /\ \A t \in Turns :
       /\ WF_vars(RunStep(t))
       /\ WF_vars(ReadEvents(t)) /\ WF_vars(CheckStatus(t))
       /\ WF_vars(sub.pc = "wait" /\ RecoverStale(t))
       /\ WF_vars(exec[t].pc \in {"none", "done"} /\ LeaseExpires(t))
       /\ WF_vars(GrowsOld(t))
  /\ WF_vars(Wake)

FairSpec == Spec /\ Fairness
-----------------------------------------------------------------------------
(* Properties *)

\* Rows, runs and calls stay in their types; a turn is claimed once and
\* recovered at most once (gen).
TypeOK ==
  /\ turn \in [Turns -> Row]
  /\ events \in [Turns -> Seq({"chunk", "finish", "error", "abort"})]
  /\ conf \in [Turns -> [Calls -> {"none", "executing", "succeeded", "failed", "unknown"}]]
  /\ exec \in [Turns ->
       [pc : {"none", "streaming", "counting", "finalizing", "failing", "marked",
              "finishing", "done"},
        gen : 0..1, aborted : {"no", "stopped", "lost"}, unknown : BOOLEAN]]
  /\ tool \in [Turns -> [Calls -> {"idle", "claimed", "returned", "threw", "undispatched"}]]
  /\ effects \in [Turns -> [Calls -> Nat]]
  /\ sub \in [pc : {"none", "read", "check", "wait", "closed"}, of : SUBSET Turns,
              cursor : Nat]

\* A tool call has its effect at most once: no duplicate of the call, retry of
\* the request, recovery or restart repeats it.  A call that reached its tool is
\* never recorded as failed, and one recorded as succeeded did reach it.
OutcomesAreHonest ==
  \A t \in Turns, c \in Calls :
    /\ effects[t][c] <= 1
    /\ effects[t][c] > 0 => conf[t][c] \in {"executing", "succeeded", "unknown"}
    /\ conf[t][c] = "succeeded" => effects[t][c] > 0

\* No call is left executing by a turn that ended, and a turn completes only when
\* the outcome of each of its calls is known.
VerdictIsCertain ==
  \A t \in Turns, c \in Calls :
    /\ turn[t].status \in Ends => conf[t][c] # "executing"
    /\ turn[t].status = "completed" => conf[t][c] # "unknown"

\* The log of a turn has one closing event, the last one, and it tells the
\* status: whoever of the run, a stop, a recovery and a failed start comes first.
\* A turn whose stop was requested before it ended does not end as completed.
OneEnding ==
  \A t \in Turns :
    /\ \A i \in DOMAIN events[t] : events[t][i] # "chunk" => i = Len(events[t])
    /\ turn[t].status \in Ends => events[t][Len(events[t])] = Closing[turn[t].status]
    /\ turn[t].status = "completed" => ~turn[t].stop

\* A turn that ended is not written again, nor its log, nor its calls.
SettledFrozen ==
  [][\A t \in Turns : turn[t].status \in Ends =>
       /\ turn'[t] = turn[t] /\ events'[t] = events[t] /\ conf'[t] = conf[t]]_vars

\* A subscriber has got every event, the closing one last.
SeenToTheEnd == \A t \in sub.of : turn[t].status \in Ends /\ sub.cursor = Len(events[t])

\* A stream that was opened closes, even if the process that ran the turn died,
\* and not before its subscriber has seen the end.
SubscriberEnds == sub.pc = "read" ~> (sub.pc = "closed" /\ SeenToTheEnd)
=============================================================================
