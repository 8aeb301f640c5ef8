------------------------------ MODULE RemoteTask ------------------------------
(***************************************************************************)
(* One A2A task delegated to a remote Agent (a2a/remote-executor.ts).  The *)
(* business message is sent exactly once by the executor that claimed the  *)
(* task; afterwards a separate observer polls the peer, forwards a         *)
(* cancellation at most once, and projects what the peer reports onto the  *)
(* local row.  Result files are fetched before a final state is shown.     *)
(*                                                                         *)
(* Local transactions hold the row lock (lockTask) and are one action.     *)
(* Calls to the peer are actions of their own: they may fail before or     *)
(* after the peer has acted, and the process may crash in between.         *)
(***************************************************************************)
EXTENDS A2AStates, Naturals

CONSTANTS
  MaxMessages,  \* bound of the model: the first message and its continuations
  MaxFiles,     \* bound of the model: batches of result files of the peer
  MaxFailures,  \* failed polls after which the observation is given up (4)
  MaxCrashes    \* bound of the model: process crashes

ASSUME RemoteConstants ==
  /\ {MaxMessages, MaxFiles, MaxFailures, MaxCrashes} \subseteq Nat
  /\ MaxMessages > 0

VARIABLES
  row,      \* the A2ATask row
  exec,     \* the executor that claimed it: executeRemoteTask
  poll,     \* the observer's memory of the row: reconcileRemoteTasks
  peer,     \* the remote Agent's own task
  process,  \* "up" or "recovering"
  crashes

vars == <<row, exec, poll, peer, process, crashes>>
-----------------------------------------------------------------------------
Messages == 1..MaxMessages

PeerStates == {"NONE", "WORKING", "INPUT_REQUIRED", "AUTH_REQUIRED",
               "COMPLETED", "FAILED", "CANCELED"}

\* What a call to the peer returns: its state, the batches of files it refers
\* to so far, and how many messages it had taken in by then.
Reports == [state : PeerStates, files : 0..MaxFiles, round : 0..MaxMessages]

NoReport == [state |-> "NONE", files |-> 0, round |-> 0]

\* What the peer reports of itself now.
PeerNow == [state |-> peer.state, files |-> peer.files, round |-> peer.round]

Phases == {"none", "queued", "executing", "remote-waiting", "done",
           "remote-file-receiving", "remote-file-failed"}

\* msg counts accepted messages; sent is remoteMessageId; lease names the claim
\* by the message it is for (a message is claimed once); known is remoteTaskId;
\* shows is the round whose status the snapshot holds; want and have are the
\* file batches referred to and received.
Row ==
  [state : States \cup {"NONE"}, phase : Phases, msg : 0..MaxMessages,
   lease : 0..MaxMessages, sent : 0..MaxMessages, dispatched : BOOLEAN,
   known : BOOLEAN, cancelReq : BOOLEAN, cancelSent : BOOLEAN,
   observed : PeerStates, shows : 0..MaxMessages, want : 0..MaxFiles,
   have : 0..MaxFiles, fails : 0..MaxFailures, expired : BOOLEAN,
   retained : BOOLEAN]

NoRow ==
  [state |-> "NONE", phase |-> "none", msg |-> 0, lease |-> 0, sent |-> 0,
   dispatched |-> FALSE, known |-> FALSE, cancelReq |-> FALSE,
   cancelSent |-> FALSE, observed |-> "NONE", shows |-> 0, want |-> 0,
   have |-> 0, fails |-> 0, expired |-> FALSE, retained |-> TRUE]

NoExec == [pc |-> "idle", msg |-> 0, reply |-> NoReport]

\* It has recorded the reply, and receives the files that the reply refers to.
Staging == [NoExec EXCEPT !.pc = "staging"]

NoPoll ==
  [pc |-> "idle", msg |-> 0, fails |-> 0, known |-> FALSE, reply |-> NoReport]

Ended(r) == r.state \in Terminal
-----------------------------------------------------------------------------
(* Writes of the row *)

\* persist with a terminal state.
Settle(r, s) == [r EXCEPT !.state = s, !.phase = "done", !.lease = 0]

\* Mutant: a pending cancellation is taken for a confirmed one.
InterruptAsCanceled(r) ==
  IF Ended(r) THEN r ELSE Settle(r, IF r.cancelReq THEN "CANCELED" ELSE "FAILED")

\* interruptTask: once something was dispatched the outcome at the peer is
\* unknown, and the task failed.
InterruptTask(r) ==
  IF Ended(r) THEN r
  ELSE Settle(r, IF r.cancelReq /\ ~r.dispatched THEN "CANCELED" ELSE "FAILED")

\* markRemoteCancellation: keep observing until the peer confirms.
MarkRemoteCancellation(r) ==
  [r EXCEPT !.cancelReq = TRUE,
            !.state = IF @ = "SUBMITTED" THEN "WORKING" ELSE @,
            !.phase = IF r.lease = 0 THEN "remote-waiting" ELSE @]

CommitCancellation(r) ==
  IF r.dispatched THEN MarkRemoteCancellation(r)
  ELSE IF r.state = "WORKING" /\ r.phase = "executing" /\ r.lease # 0
       THEN [r EXCEPT !.cancelReq = TRUE]
       ELSE [Settle(r, "CANCELED") EXCEPT !.cancelReq = TRUE]

\* The observed state shown locally; files still missing keep it WORKING.
Observed(report) == IF report.state = "SUBMITTED" THEN "WORKING" ELSE report.state

AwaitsFiles(r, report) == report.files > r.have

\* transition: an interrupted task may only go on as SUBMITTED.
Projects(r, report) ==
  LET shown == IF AwaitsFiles(r, report) THEN "WORKING" ELSE Observed(report)
  IN \/ r.state = shown
     \/ shown = "WORKING" /\ r.state \in Interrupted
     \/ CanTransition(r.state, shown)

\* recordObservation.
Record(r, report) ==
  LET waits == AwaitsFiles(r, report)
      shown == IF waits THEN "WORKING" ELSE Observed(report)
  IN [r EXCEPT !.state = shown,
               !.known = TRUE,
               !.observed = Observed(report),
               !.shows = report.round,
               !.want = report.files,
               !.fails = 0,
               !.lease = 0,
               !.phase = IF waits THEN "remote-file-receiving"
                         ELSE IF shown \in Terminal THEN "done"
                         ELSE "remote-waiting"]
-----------------------------------------------------------------------------
(* Clients: the delegating turn, the owner and the cascade of an ancestor *)

\* submitTaskInTransaction with a remote grant.
Submit ==
  /\ row.state = "NONE"
  /\ row' = [row EXCEPT !.state = "SUBMITTED", !.phase = "queued", !.msg = 1]
  /\ UNCHANGED <<exec, poll, peer, process, crashes>>

\* The answer to a question of the peer is a new message for the same task.
Continue ==
  /\ row.state = "INPUT_REQUIRED"
  /\ ~row.cancelReq /\ ~row.expired
  /\ row.msg < MaxMessages
  /\ row' = [row EXCEPT !.state = "SUBMITTED", !.phase = "queued",
                        !.msg = @ + 1, !.observed = "NONE"]
  /\ UNCHANGED <<exec, poll, peer, process, crashes>>

CancelTask ==
  /\ row.state # "NONE" /\ ~Ended(row)
  /\ row' = CommitCancellation(row)
  /\ UNCHANGED <<exec, poll, peer, process, crashes>>

\* cancelLocalDescendants: nothing is left to cancel at a peer that ended.
CancelFromAbove ==
  /\ row.state # "NONE" /\ ~Ended(row)
  /\ row.observed \notin Terminal
  /\ row' = CommitCancellation(row)
  /\ UNCHANGED <<exec, poll, peer, process, crashes>>

\* retryTaskFileTransfers.
RetryFiles ==
  /\ process = "up"
  /\ row.phase = "remote-file-failed"
  /\ ~Ended(row) /\ ~row.cancelReq /\ row.retained
  /\ row' = [row EXCEPT !.phase = "remote-file-receiving"]
  /\ UNCHANGED <<exec, poll, peer, process, crashes>>
-----------------------------------------------------------------------------
(* The executor: claimTask and executeRemoteTask *)

ClaimTask ==
  /\ process = "up"
  /\ exec.pc = "idle"
  /\ row.state = "SUBMITTED" /\ row.phase = "queued"
  /\ ~row.cancelReq /\ ~row.expired
  /\ row' = [row EXCEPT !.state = "WORKING", !.phase = "executing", !.lease = row.msg]
  /\ exec' = [NoExec EXCEPT !.pc = "claimed", !.msg = row.msg]
  /\ UNCHANGED <<poll, peer, process, crashes>>

\* The last check before the message leaves, and the mark that it did.
Dispatch ==
  /\ exec.pc = "claimed"
  /\ row.lease = exec.msg
  /\ ~row.cancelReq /\ ~row.expired
  /\ row.sent # exec.msg
  /\ row' = [row EXCEPT !.sent = exec.msg, !.dispatched = TRUE, !.cancelSent = FALSE]
  /\ exec' = [exec EXCEPT !.pc = "dispatched"]
  /\ UNCHANGED <<poll, peer, process, crashes>>

\* claimTask finds the execution quota exhausted.
ClaimFails ==
  /\ process = "up"
  /\ exec.pc = "idle"
  /\ row.state = "SUBMITTED" /\ row.phase = "queued"
  /\ row' = InterruptTask(row)
  /\ UNCHANGED <<exec, poll, peer, process, crashes>>

\* Mutant: a send whose reply is lost is tried again.
SendRetried ==
  /\ exec.pc = "dispatched"
  /\ peer.state \notin Terminal
  /\ peer.round < MaxMessages
  /\ peer' = [peer EXCEPT !.state = "WORKING", !.round = @ + 1,
                          !.got[exec.msg] = @ + 1]
  /\ exec' \in {exec, [exec EXCEPT !.pc = "replied", !.reply = PeerNow']}
  /\ UNCHANGED <<row, poll, process, crashes>>

\* sendMessage reaches the peer, which starts or continues its task; its reply
\* may be lost on the way back.
SendMessage ==
  /\ exec.pc = "dispatched"
  /\ peer.state \notin Terminal
  /\ peer' = [peer EXCEPT !.state = "WORKING", !.round = @ + 1,
                          !.got[exec.msg] = @ + 1]
  /\ exec' = [exec EXCEPT !.pc = "replied", !.reply = PeerNow']
  /\ UNCHANGED <<row, poll, process, crashes>>

\* The peer may answer a message with a task that has already moved on.
PeerAnswersLate ==
  /\ exec.pc = "replied"
  /\ exec.reply # PeerNow
  /\ exec' = [exec EXCEPT !.reply = PeerNow]
  /\ UNCHANGED <<row, poll, peer, process, crashes>>

\* recordObservation under the executor's lease.
RecordReply ==
  /\ exec.pc = "replied"
  /\ ~row.expired
  /\ IF Ended(row) \/ row.lease # exec.msg
     THEN UNCHANGED row /\ exec' = NoExec
     ELSE /\ Projects(row, exec.reply) /\ row' = Record(row, exec.reply)
          /\ exec' = IF AwaitsFiles(row, exec.reply) THEN Staging ELSE NoExec
  /\ UNCHANGED <<poll, peer, process, crashes>>

\* stageTaskFileTransfers returns, whatever has become of the files: ReceiveFiles.
StagingEnds ==
  /\ exec.pc = "staging"
  /\ exec' = NoExec
  /\ UNCHANGED <<row, poll, peer, process, crashes>>

\* Anything else: a lost reply, a failed check, an abort, and also one while the
\* files come, when the row is nobody's any more.  No automatic replay.
ExecutorFails ==
  /\ process = "up"
  /\ exec.pc # "idle"
  /\ row' = InterruptTask(row)
  /\ exec' = NoExec
  /\ UNCHANGED <<poll, peer, process, crashes>>
-----------------------------------------------------------------------------
(* The observer: reconcileRemoteTasks *)

Reachable == /\ row.phase = "remote-waiting"
             /\ row.state \in {"WORKING", "INPUT_REQUIRED", "AUTH_REQUIRED"}

\* A pass reads the row ...
PollRow ==
  /\ process = "up"
  /\ poll.pc = "idle"
  /\ Reachable
  /\ poll' = [NoPoll EXCEPT !.pc = "read", !.msg = row.sent, !.fails = row.fails,
                            !.known = row.known]
  /\ UNCHANGED <<row, exec, peer, process, crashes>>

StillPolled == row.phase = "remote-waiting" /\ ~Ended(row) /\ row.sent = poll.msg

\* ... reads it again, and asks the peer unless it has changed.
PollAgain ==
  /\ poll.pc = "read"
  /\ poll.known /\ ~row.expired
  /\ poll' = IF ~StillPolled THEN NoPoll
             ELSE [poll EXCEPT !.pc = IF row.cancelReq /\ ~row.cancelSent
                                      THEN "mark" ELSE "ask"]
  /\ UNCHANGED <<row, exec, peer, process, crashes>>

\* The conditional update that lets CancelTask be sent once.
MarkCancelSent ==
  /\ poll.pc = "mark"
  /\ IF StillPolled /\ ~row.cancelSent
     THEN /\ row' = [row EXCEPT !.cancelSent = TRUE]
          /\ poll' = [poll EXCEPT !.pc = "cancel"]
     ELSE /\ poll' = NoPoll
          /\ UNCHANGED row
  /\ UNCHANGED <<exec, peer, process, crashes>>

\* CancelTask may get lost, and the peer may obey or not; if it failed, the
\* peer is asked for its task instead.
PeerTakesCancel ==
  /\ poll.pc = "cancel"
  /\ \/ peer' = [peer EXCEPT !.cancels[poll.msg] = @ + 1,
                             !.state = IF @ \in Terminal THEN @ ELSE "CANCELED"]
     \/ peer' = [peer EXCEPT !.cancels[poll.msg] = @ + 1]
     \/ UNCHANGED peer
  /\ poll' = [poll EXCEPT !.pc = "ask"]
  /\ UNCHANGED <<row, exec, process, crashes>>

GetTask ==
  /\ poll.pc = "ask"
  /\ poll' = [poll EXCEPT !.pc = "replied", !.reply = PeerNow]
  /\ UNCHANGED <<row, exec, peer, process, crashes>>

RecordPolled ==
  /\ Projects(row, poll.reply) /\ row' = Record(row, poll.reply)
  /\ poll' = IF AwaitsFiles(row, poll.reply)
             THEN [poll EXCEPT !.pc = "staging", !.reply = NoReport] ELSE NoPoll

\* Mutant: the observation does not ask which message it answers.
RecordAnyPoll ==
  /\ poll.pc = "replied"
  /\ ~row.expired
  /\ IF Ended(row) \/ row.phase # "remote-waiting"
     THEN UNCHANGED row /\ poll' = NoPoll
     ELSE RecordPolled
  /\ UNCHANGED <<exec, peer, process, crashes>>

\* recordObservation without a lease: only for the generation that was polled.
RecordPoll ==
  /\ poll.pc = "replied"
  /\ ~row.expired
  /\ IF ~StillPolled THEN UNCHANGED row /\ poll' = NoPoll ELSE RecordPolled
  /\ UNCHANGED <<exec, peer, process, crashes>>

\* The next pass waits for the files as well.
PollEnds ==
  /\ poll.pc = "staging"
  /\ poll' = NoPoll
  /\ UNCHANGED <<row, exec, peer, process, crashes>>

\* What is written when a read failed: another try, or the end of it.
GiveUpOrRetry(live, tries) ==
  IF row.phase # "remote-waiting" \/ row.sent # poll.msg THEN row
  ELSE IF ~live \/ ~poll.known \/ row.expired \/ poll.fails >= tries
       THEN InterruptTask(row)
       ELSE [row EXCEPT !.fails = @ + 1]

\* Mutant: one failure too many is tolerated.
PollFailsLonger ==
  /\ process = "up"
  /\ poll.pc # "idle"
  /\ \E live \in BOOLEAN : row' = GiveUpOrRetry(live, MaxFailures + 1)
  /\ poll' = NoPoll
  /\ UNCHANGED <<exec, peer, process, crashes>>

\* A read failed, or what followed it.  It is retried a few times; then, or when
\* the authority, the deadline or the binding is gone, the observation stops.
PollFails ==
  /\ process = "up"
  /\ poll.pc # "idle"
  /\ \E live \in BOOLEAN : row' = GiveUpOrRetry(live, MaxFailures)
  /\ poll' = NoPoll
  /\ UNCHANGED <<exec, peer, process, crashes>>
-----------------------------------------------------------------------------
(* Files, deadlines and retention *)

\* receiveTransfers: the retained outcome is shown once its files are here.
ReceiveFiles ==
  /\ process = "up"
  /\ row.phase = "remote-file-receiving"
  /\ ~Ended(row) /\ ~row.cancelReq
  /\ \/ /\ row.retained
        /\ row' = [row EXCEPT !.state = row.observed, !.have = row.want, !.lease = 0,
                     !.phase = IF row.observed \in Terminal THEN "done" ELSE "remote-waiting"]
     \/ row' = [row EXCEPT !.phase = "remote-file-failed", !.lease = 0]
  /\ UNCHANGED <<exec, poll, peer, process, crashes>>

\* Mutant: the sweep leaves continuations that were never claimed alone.
SweepFilesOnly ==
  /\ process = "up"
  /\ row.expired
  /\ row.observed \notin Terminal
  /\ row.state = "WORKING" /\ row.phase \in {"remote-file-receiving", "remote-file-failed"}
  /\ row' = InterruptTask(row)
  /\ UNCHANGED <<exec, poll, peer, process, crashes>>

\* tickAgentWorker: the expiry sweep spares an outcome that is already known.
SweepExpired ==
  /\ process = "up"
  /\ row.expired
  /\ row.observed \notin Terminal
  /\ \/ row.state \in {"SUBMITTED"} \cup Interrupted
     \/ row.state = "WORKING" /\ row.phase \in {"remote-file-receiving", "remote-file-failed"}
  /\ row' = InterruptTask(row)
  /\ UNCHANGED <<exec, poll, peer, process, crashes>>

\* ... until the retention of its context has passed.
SweepDelivery ==
  /\ process = "up"
  /\ ~row.retained
  /\ row.state = "WORKING"
  /\ row.phase \in {"remote-file-receiving", "remote-file-failed"}
  /\ row' = InterruptTask(row)
  /\ UNCHANGED <<exec, poll, peer, process, crashes>>

Expire ==
  /\ row.state # "NONE" /\ ~Ended(row) /\ ~row.expired
  /\ row' = [row EXCEPT !.expired = TRUE]
  /\ UNCHANGED <<exec, poll, peer, process, crashes>>

RetentionEnds ==
  /\ row.expired /\ row.retained /\ ~Ended(row)
  /\ row' = [row EXCEPT !.retained = FALSE]
  /\ UNCHANGED <<exec, poll, peer, process, crashes>>
-----------------------------------------------------------------------------
(* The peer, as its protocol allows it to behave *)

PeerMoves ==
  /\ peer.state \in {"WORKING", "INPUT_REQUIRED", "AUTH_REQUIRED"}
  /\ \E to \in PeerStates \ {"NONE", "CANCELED"}, n \in {0, 1} :
       /\ to # peer.state
       /\ peer.state # "WORKING" => to \in {"WORKING", "FAILED"}
       /\ n = 1 => to \in {"COMPLETED", "INPUT_REQUIRED"} /\ peer.files < MaxFiles
       /\ peer' = [peer EXCEPT !.state = to, !.files = @ + n]
  /\ UNCHANGED <<row, exec, poll, process, crashes>>
-----------------------------------------------------------------------------
(* The process *)

Crash ==
  /\ crashes < MaxCrashes
  /\ crashes' = crashes + 1
  /\ process' = "recovering"
  /\ exec' = NoExec
  /\ poll' = NoPoll
  /\ UNCHANGED <<row, peer>>

\* startAgentWorker: a known peer task is only read, anything else is given up.
Recover ==
  /\ process = "recovering"
  /\ process' = "up"
  /\ row' = IF row.state # "WORKING" \/ row.phase # "executing" THEN row
            ELSE IF row.known THEN [row EXCEPT !.phase = "remote-waiting", !.lease = 0]
            ELSE InterruptTask(row)
  /\ UNCHANGED <<exec, poll, peer, crashes>>
-----------------------------------------------------------------------------
Init ==
  /\ row = NoRow
  /\ exec = NoExec
  /\ poll = NoPoll
  /\ peer = [state |-> "NONE", files |-> 0, round |-> 0,
             got |-> [m \in Messages |-> 0], cancels |-> [m \in Messages |-> 0]]
  /\ process = "up"
  /\ crashes = 0

ClientStep == Submit \/ Continue \/ CancelTask \/ CancelFromAbove \/ RetryFiles

ExecutorStep ==
  \/ ClaimTask \/ ClaimFails \/ Dispatch \/ SendMessage \/ PeerAnswersLate \/ RecordReply
  \/ StagingEnds \/ ExecutorFails

ObserverStep ==
  \/ PollRow \/ PollAgain \/ MarkCancelSent \/ PeerTakesCancel \/ GetTask
  \/ RecordPoll \/ PollEnds \/ PollFails

WorkerStep ==
  ReceiveFiles \/ SweepExpired \/ SweepDelivery \/ Expire \/ RetentionEnds

Next ==
  \/ ClientStep \/ ExecutorStep \/ ObserverStep \/ WorkerStep
  \/ PeerMoves \/ Crash \/ Recover

Spec == Init /\ [][Next]_vars

\* The worker keeps ticking, calls to the peer return or time out, and time
\* passes the deadline and the retention of the context.
Fairness ==
  /\ WF_vars(ClaimTask \/ Dispatch \/ SendMessage)
  /\ WF_vars(RecordReply \/ StagingEnds \/ ExecutorFails)
  /\ WF_vars(PollRow)
  /\ WF_vars(PollAgain \/ MarkCancelSent \/ PeerTakesCancel \/ GetTask
               \/ RecordPoll \/ PollEnds \/ PollFails)
  /\ WF_vars(SweepExpired) /\ WF_vars(SweepDelivery)
  /\ WF_vars(Expire) /\ WF_vars(RetentionEnds)
  /\ WF_vars(Recover)

FairSpec == Spec /\ Fairness
-----------------------------------------------------------------------------
(* Properties *)

TypeOK ==
  /\ row \in Row
  /\ exec \in [pc : {"idle", "claimed", "dispatched", "replied", "staging"},
               msg : 0..MaxMessages, reply : Reports]
  /\ poll \in [pc : {"idle", "read", "mark", "cancel", "ask", "replied", "staging"},
               msg : 0..MaxMessages, fails : 0..MaxFailures, known : BOOLEAN,
               reply : Reports]
  /\ peer \in [state : PeerStates, files : 0..MaxFiles, round : 0..MaxMessages,
               got : [Messages -> Nat], cancels : [Messages -> Nat]]
  /\ process \in {"up", "recovering"}
  /\ crashes \in 0..MaxCrashes

\* "Submit exactly once per accepted local message": no retry, recovery or
\* continuation makes the peer do the same work twice; nor is CancelTask sent
\* twice for a message.
SentAtMostOnce == \A m \in Messages : peer.got[m] <= 1 /\ peer.cancels[m] <= 1

\* The row never claims an outcome the peer does not have: CANCELED when the
\* peer was cancelled or never heard of the task, COMPLETED when it completed and
\* all its result files are here.
OutcomeIsThePeers ==
  /\ row.state = "CANCELED" => peer.state \in {"NONE", "CANCELED"}
  /\ row.state = "COMPLETED" => peer.state = "COMPLETED" /\ row.have = peer.files

\* A question is shown only if the peer asked it after it had taken in every
\* message sent: an old question is never answered twice.  (After a crash the
\* last message may not have left; the peer is then shown as it is.)
QuestionIsCurrent ==
  row.state = "INPUT_REQUIRED" /\ crashes = 0 => row.shows = row.sent

\* "Its retained file reception remains retryable": files of an observed
\* outcome that are still to be received can be received.
ReceptionStaysRetryable ==
  row.phase \in {"remote-file-receiving", "remote-file-failed"} => ~row.cancelReq

\* Every submitted task ends at last, however the peer and the network behave.
EveryRemoteTaskEnds == row.state = "SUBMITTED" ~> Ended(row)
=============================================================================
