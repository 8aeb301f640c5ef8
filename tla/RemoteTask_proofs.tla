-------------------------- MODULE RemoteTask_proofs --------------------------
(***************************************************************************)
(* Proofs about RemoteTask, for any number of messages, of batches of      *)
(* files, of failed polls that are tolerated and of crashes.               *)
(***************************************************************************)
EXTENDS RemoteTask, TLAPS

\* Whatever was sent was marked before, and each message is marked once: the
\* mark is what a second sending would have to pass.
Sending ==
  /\ row.state = "NONE" => row.sent = 0 /\ row.msg = 0 /\ row.phase = "none"
  /\ row.sent <= row.msg
  /\ row.state = "SUBMITTED" => row.sent < row.msg
  /\ exec.pc = "claimed" => row.sent < exec.msg /\ exec.msg <= row.msg
  /\ exec.pc = "dispatched" => /\ exec.msg = row.sent /\ row.sent > 0
                               /\ peer.got[row.sent] = 0 /\ peer.round < row.sent
  /\ peer.round <= row.sent
  /\ \A m \in Messages : peer.got[m] <= 1 /\ (peer.got[m] > 0 => m <= row.sent)

\* The same of the cancels, whose mark is taken away with the next message.
Cancelling ==
  /\ poll.pc # "idle" => poll.msg <= row.sent /\ row.fails <= poll.fails
  /\ poll.pc = "cancel" => /\ poll.msg = row.sent => row.cancelSent
                           /\ poll.msg \in Messages => peer.cancels[poll.msg] = 0
  /\ \A m \in Messages :
       /\ peer.cancels[m] <= 1
       /\ peer.cancels[m] > 0 => m < row.sent \/ (m = row.sent /\ row.cancelSent)

\* What was once true of the peer still is, if it had ended.
Trusted(state, files) ==
  /\ files <= peer.files
  /\ state = "NONE" => files = 0
  /\ state \in Terminal => peer.state = state /\ peer.files = files

\* The peer has only heard of a task that is marked.
Heard ==
  /\ \/ row.known \/ row.phase \in {"remote-waiting", "remote-file-receiving", "remote-file-failed"}
     \/ poll.pc # "idle" \/ exec.pc \in {"dispatched", "replied"}
     => row.dispatched
  /\ row.state = "NONE" => ~row.dispatched
  /\ ~row.dispatched => peer.state = "NONE"
  /\ peer.state = "NONE" => peer.files = 0

Outcome ==
  /\ row.state # "WORKING" => row.lease = 0
  /\ exec.pc = "claimed" => exec.msg > 0
  /\ row.phase \in {"remote-file-receiving", "remote-file-failed"} => row.observed # "NONE"
  /\ Trusted(exec.reply.state, exec.reply.files)
  /\ Trusted(poll.reply.state, poll.reply.files)
  /\ row.observed \in Terminal => peer.state = row.observed /\ peer.files = row.want
  /\ row.want <= peer.files /\ row.have <= peer.files
  /\ row.state = "CANCELED" => peer.state = "CANCELED" \/ (peer.state = "NONE" /\ exec.pc # "dispatched")
  /\ row.state = "COMPLETED" => peer.state = "COMPLETED" /\ row.have = peer.files

RemoteInv == TypeOK /\ Sending /\ Cancelling /\ Heard /\ Outcome
-----------------------------------------------------------------------------
LEMMA Constants == {MaxMessages, MaxFiles, MaxFailures, MaxCrashes} \subseteq Nat /\ MaxMessages > 0
BY RemoteConstants DEF RemoteConstants

LEMMA InitRemote == Init => RemoteInv
BY Constants DEF Init, RemoteInv, TypeOK, Row, NoRow, NoExec, NoPoll, NoReport, Reports, PeerStates, Phases,
   States, Terminal, Interrupted, Active, Messages, Sending, Cancelling, Trusted, Heard, Outcome, Ended

LEMMA SettleRow ==
  ASSUME NEW r \in Row, NEW s \in {"FAILED", "CANCELED"}
  PROVE  /\ Settle(r, s) \in Row
         /\ Settle(r, s) = [r EXCEPT !.state = s, !.phase = "done", !.lease = 0]
<1>1. s \in States \cup {"NONE"} /\ "done" \in Phases /\ 0 \in 0..MaxMessages
  BY Constants DEF States, Terminal, Phases
<1>2. Settle(r, s) \in Row
  BY <1>1 DEF Settle, Row
<1> QED
  BY <1>2, Zenon DEF Settle

\* A write that ends the row, unless it has ended: who had not heard of it may be
\* said to be cancelled.
LEMMA InterruptRow ==
  ASSUME NEW r \in Row, ~Ended(r)
  PROVE  \E s \in {"FAILED", "CANCELED"} :
           /\ InterruptTask(r) = [r EXCEPT !.state = s, !.phase = "done", !.lease = 0]
           /\ InterruptTask(r) \in Row
           /\ s = "CANCELED" => ~r.dispatched
<1>1. PICK s \in {"FAILED", "CANCELED"} :
        /\ InterruptTask(r) = Settle(r, s)
        /\ s = "CANCELED" => ~r.dispatched
  BY DEF InterruptTask
<1>2. /\ Settle(r, s) = [r EXCEPT !.state = s, !.phase = "done", !.lease = 0]
      /\ Settle(r, s) \in Row
  BY SettleRow
<1> QED
  BY <1>1, <1>2, Zenon

\* What ends an executor, a poll or the process, or leaves them with the files to
\* come, and leaves the peer as it is.
Resets ==
  /\ exec' \in {exec, NoExec, Staging}
  /\ \/ poll' \in {poll, NoPoll}
     \/ poll.pc # "idle" /\ poll' = [poll EXCEPT !.pc = "staging", !.reply = NoReport]
  /\ peer' = peer
  /\ process' \in {"up", "recovering"} /\ crashes' \in 0..MaxCrashes

LEMMA ResetFacts ==
  ASSUME RemoteInv, Resets
  PROVE  /\ \/ exec' = exec
            \/ exec'.pc \in {"idle", "staging"} /\ exec'.reply.state = "NONE" /\ exec'.reply.files = 0
         /\ \/ poll' = poll
            \/ /\ poll'.reply.state = "NONE" /\ poll'.reply.files = 0
               /\ \/ poll'.pc = "idle"
                  \/ /\ poll.pc # "idle" /\ poll'.pc = "staging"
                     /\ poll'.msg = poll.msg /\ poll'.fails = poll.fails
         /\ row' \in Row => TypeOK'
         /\ peer.files >= 0
<1>1. {NoExec, Staging} \subseteq
        [pc : {"idle", "claimed", "dispatched", "replied", "staging"},
         msg : 0..MaxMessages, reply : Reports]
  BY Constants DEF NoExec, Staging, NoReport, Reports, PeerStates
<1>2. NoPoll \in [pc : {"idle", "read", "mark", "cancel", "ask", "replied", "staging"},
                  msg : 0..MaxMessages, fails : 0..MaxFailures, known : BOOLEAN,
                  reply : Reports]
  BY Constants DEF NoPoll, NoReport, Reports, PeerStates
<1>3. poll \in [pc : {"idle", "read", "mark", "cancel", "ask", "replied", "staging"},
                msg : 0..MaxMessages, fails : 0..MaxFailures, known : BOOLEAN,
                reply : Reports]
  BY DEF RemoteInv, TypeOK
<1>4. NoReport \in Reports
  BY Constants DEF NoReport, Reports, PeerStates
<1>5. poll' \in [pc : {"idle", "read", "mark", "cancel", "ask", "replied", "staging"},
                 msg : 0..MaxMessages, fails : 0..MaxFailures, known : BOOLEAN,
                 reply : Reports]
  BY <1>2, <1>3, <1>4 DEF Resets
<1>6. row' \in Row => TypeOK'
  BY <1>1, <1>5 DEF RemoteInv, Resets, TypeOK
<1>7. peer.files >= 0
  BY Constants DEF RemoteInv, TypeOK
<1>8. \/ exec' = exec
      \/ exec'.pc \in {"idle", "staging"} /\ exec'.reply.state = "NONE" /\ exec'.reply.files = 0
  BY DEF Resets, NoExec, Staging, NoReport
<1>9. \/ poll' = poll
      \/ /\ poll'.reply.state = "NONE" /\ poll'.reply.files = 0
         /\ \/ poll'.pc = "idle"
            \/ /\ poll.pc # "idle" /\ poll'.pc = "staging"
               /\ poll'.msg = poll.msg /\ poll'.fails = poll.fails
  <2>1. CASE poll' \in {poll, NoPoll}
    BY <2>1 DEF NoPoll, NoReport
  <2>2. CASE poll.pc # "idle" /\ poll' = [poll EXCEPT !.pc = "staging", !.reply = NoReport]
    <3>1. /\ poll'.pc = "staging" /\ poll'.reply = NoReport
          /\ poll'.msg = poll.msg /\ poll'.fails = poll.fails
      BY <1>3, <2>2
    <3> QED
      BY <2>2, <3>1 DEF NoReport
  <2> QED
    BY <2>1, <2>2 DEF Resets
<1> QED
  BY <1>6, <1>7, <1>8, <1>9

LEMMA EndInv ==
  ASSUME RemoteInv, Resets, ~Ended(row), row' = InterruptTask(row)
  PROVE  RemoteInv'
<1>1. row \in Row
  BY DEF RemoteInv, TypeOK
<1>2. PICK s \in {"FAILED", "CANCELED"} :
        /\ row' = [row EXCEPT !.state = s, !.phase = "done", !.lease = 0]
        /\ row' \in Row
        /\ s = "CANCELED" => ~row.dispatched
  BY <1>1, InterruptRow
<1>3. /\ row'.state = s /\ row'.phase = "done" /\ row'.lease = 0
      /\ row'.msg = row.msg /\ row'.sent = row.sent /\ row'.dispatched = row.dispatched
      /\ row'.known = row.known /\ row'.cancelSent = row.cancelSent /\ row'.observed = row.observed
      /\ row'.want = row.want /\ row'.have = row.have /\ row'.fails = row.fails
  BY <1>1, <1>2 DEF Row
<1>4. TypeOK'
  BY <1>2, ResetFacts
<1>5. Sending' /\ Cancelling'
  BY <1>3, ResetFacts DEF RemoteInv, Sending, Cancelling, Resets
<1>6. Heard' /\ Outcome'
  BY <1>2, <1>3, ResetFacts DEF RemoteInv, Heard, Outcome, Trusted, Ended, Terminal, Resets
<1> QED
  BY <1>4, <1>5, <1>6 DEF RemoteInv

LEMMA ResetInv ==
  ASSUME RemoteInv, Resets, UNCHANGED row
  PROVE  RemoteInv'
<1>1. TypeOK'
  BY ResetFacts DEF RemoteInv, TypeOK
<1>2. Sending' /\ Cancelling'
  BY ResetFacts DEF RemoteInv, Sending, Cancelling, Resets
<1>3. Heard' /\ Outcome'
  BY ResetFacts DEF RemoteInv, Heard, Outcome, Trusted, Ended, Terminal, Resets
<1> QED
  BY <1>1, <1>2, <1>3 DEF RemoteInv

\* A poll that failed, or an executor: the row ends, or counts the failure.
LEMMA InterruptInv ==
  ASSUME RemoteInv, Resets, row' = InterruptTask(row)
  PROVE  RemoteInv'
BY EndInv, ResetInv DEF InterruptTask
-----------------------------------------------------------------------------
\* The clients.
LEMMA SubmitInv == RemoteInv /\ Submit => RemoteInv'
<1> SUFFICES ASSUME RemoteInv, Submit PROVE RemoteInv'
  OBVIOUS
<1>1. row \in Row
  BY DEF RemoteInv, TypeOK
<1>2. "SUBMITTED" \in States /\ "queued" \in Phases /\ 1 \in 0..MaxMessages
  BY Constants DEF States, Active, Phases
<1>3. row' \in Row
  BY <1>1, <1>2 DEF Submit, Row
<1>4. /\ row'.state = "SUBMITTED" /\ row'.phase = "queued" /\ row'.msg = 1
      /\ row'.lease = row.lease /\ row'.sent = row.sent /\ row'.dispatched = row.dispatched
      /\ row'.known = row.known /\ row'.cancelSent = row.cancelSent /\ row'.observed = row.observed
      /\ row'.want = row.want /\ row'.have = row.have /\ row'.fails = row.fails
  BY <1>1 DEF Submit, Row
<1>5. TypeOK'
  BY <1>3 DEF Submit, RemoteInv, TypeOK
<1>6. /\ row.state = "NONE" /\ UNCHANGED <<exec, poll, peer>>
      /\ row.msg \in Nat /\ row.sent \in Nat /\ exec.msg \in Nat
  BY <1>1, Constants DEF Submit, Row, RemoteInv, TypeOK
<1>7. Sending' /\ Cancelling'
  BY <1>4, <1>6 DEF RemoteInv, Sending, Cancelling
<1>8. Heard' /\ Outcome'
  BY <1>4 DEF Submit, RemoteInv, Heard, Outcome, Trusted, Ended, Terminal
<1> QED
  BY <1>5, <1>7, <1>8 DEF RemoteInv

LEMMA ContinueInv == RemoteInv /\ Continue => RemoteInv'
<1> SUFFICES ASSUME RemoteInv, Continue PROVE RemoteInv'
  OBVIOUS
<1>1. row \in Row
  BY DEF RemoteInv, TypeOK
<1>2. /\ "SUBMITTED" \in States /\ "queued" \in Phases /\ "NONE" \in PeerStates
      /\ row.msg + 1 \in 0..MaxMessages
  BY <1>1, Constants DEF Continue, States, Active, Phases, PeerStates, Row
<1>3. row' \in Row
  BY <1>1, <1>2 DEF Continue, Row
<1>4. /\ row'.state = "SUBMITTED" /\ row'.phase = "queued" /\ row'.msg = row.msg + 1
      /\ row'.observed = "NONE"
      /\ row'.lease = row.lease /\ row'.sent = row.sent /\ row'.dispatched = row.dispatched
      /\ row'.known = row.known /\ row'.cancelSent = row.cancelSent
      /\ row'.want = row.want /\ row'.have = row.have /\ row'.fails = row.fails
  BY <1>1 DEF Continue, Row
<1>5. TypeOK'
  BY <1>3 DEF Continue, RemoteInv, TypeOK
<1>6. row.msg \in Nat /\ row.sent \in Nat /\ exec.msg \in Nat
  BY <1>1, Constants DEF Row, RemoteInv, TypeOK
<1>7. Sending' /\ Cancelling'
  BY <1>4, <1>6 DEF Continue, RemoteInv, Sending, Cancelling
<1>8. Heard' /\ Outcome'
  BY <1>4 DEF Continue, RemoteInv, Heard, Outcome, Trusted, Ended, Terminal
<1> QED
  BY <1>5, <1>7, <1>8 DEF RemoteInv

\* Either the row ends as cancelled, as nothing was dispatched; or the cancel is
\* noted, and the row perhaps put back to be observed.
LEMMA CancelInv ==
  ASSUME RemoteInv, row.state # "NONE", ~Ended(row), row' = CommitCancellation(row),
         UNCHANGED <<exec, poll, peer, process, crashes>>
  PROVE  RemoteInv'
<1>1. row \in Row
  BY DEF RemoteInv, TypeOK
<1>2. PICK state \in {row.state, "WORKING", "CANCELED"}, phase \in {row.phase, "remote-waiting", "done"},
           lease \in {row.lease, 0} :
        /\ row' = [row EXCEPT !.cancelReq = TRUE, !.state = state, !.phase = phase, !.lease = lease]
        /\ phase = "remote-waiting" => row.dispatched \/ row.phase = phase
        /\ state = "WORKING" => row.state # "NONE"
        /\ state = "CANCELED" => ~row.dispatched /\ lease = 0
  <2>1. CASE row.dispatched
    <3> DEFINE state == IF row.state = "SUBMITTED" THEN "WORKING" ELSE row.state
               phase == IF row.lease = 0 THEN "remote-waiting" ELSE row.phase
    <3>1. row' = [row EXCEPT !.cancelReq = TRUE, !.state = state, !.phase = phase]
      BY <2>1 DEF CommitCancellation, MarkRemoteCancellation
    <3>2. row' = [row EXCEPT !.cancelReq = TRUE, !.state = state, !.phase = phase, !.lease = row.lease]
      BY <1>1, <3>1 DEF Row
    <3>3. state # "CANCELED"
      BY DEF Ended, Terminal
    <3> HIDE DEF state, phase
    <3>4. state \in {row.state, "WORKING", "CANCELED"} /\ phase \in {row.phase, "remote-waiting", "done"}
      BY DEF state, phase
    <3> QED
      BY <2>1, <3>2, <3>3, <3>4
  <2>2. CASE ~row.dispatched /\ row' = [row EXCEPT !.cancelReq = TRUE]
    <3>1. row' = [row EXCEPT !.cancelReq = TRUE, !.state = row.state, !.phase = row.phase, !.lease = row.lease]
      BY <1>1, <2>2 DEF Row
    <3>2. row.state # "CANCELED"
      BY DEF Ended, Terminal
    <3> QED
      BY <3>1, <3>2
  <2>3. CASE ~row.dispatched /\ row' = [Settle(row, "CANCELED") EXCEPT !.cancelReq = TRUE]
    <3>1. row' = [row EXCEPT !.cancelReq = TRUE, !.state = "CANCELED", !.phase = "done", !.lease = 0]
      BY <1>1, <2>3 DEF Row, Settle
    <3> QED
      BY <2>3, <3>1
  <2> QED
    BY <2>1, <2>2, <2>3 DEF CommitCancellation
<1>3. state \in States \cup {"NONE"} /\ phase \in Phases /\ lease \in 0..MaxMessages
  BY <1>1, Constants DEF Row, States, Active, Terminal, Phases
<1>4. row' \in Row
  BY <1>1, <1>2, <1>3 DEF Row
<1>5. /\ row'.state = state /\ row'.phase = phase /\ row'.lease = lease /\ row'.msg = row.msg
      /\ row'.sent = row.sent /\ row'.dispatched = row.dispatched
      /\ row'.known = row.known /\ row'.cancelSent = row.cancelSent /\ row'.observed = row.observed
      /\ row'.want = row.want /\ row'.have = row.have /\ row'.fails = row.fails
  BY <1>1, <1>2 DEF Row
<1>6. TypeOK'
  BY <1>4 DEF RemoteInv, TypeOK
<1>7. Sending' /\ Cancelling'
  BY <1>2, <1>5 DEF RemoteInv, Sending, Cancelling
<1>8. Heard' /\ Outcome'
  BY <1>2, <1>5 DEF RemoteInv, Heard, Outcome, Trusted, Ended, Terminal
<1> QED
  BY <1>6, <1>7, <1>8 DEF RemoteInv

LEMMA RetryFilesInv == RemoteInv /\ RetryFiles => RemoteInv'
<1> SUFFICES ASSUME RemoteInv, RetryFiles PROVE RemoteInv'
  OBVIOUS
<1>1. row \in Row
  BY DEF RemoteInv, TypeOK
<1>2. "remote-file-receiving" \in Phases
  BY DEF Phases
<1>3. row' \in Row
  BY <1>1, <1>2 DEF RetryFiles, Row
<1>4. /\ row'.phase = "remote-file-receiving" /\ row.phase = "remote-file-failed"
      /\ row'.state = row.state /\ row'.msg = row.msg
      /\ row'.lease = row.lease /\ row'.sent = row.sent /\ row'.dispatched = row.dispatched
      /\ row'.known = row.known /\ row'.cancelSent = row.cancelSent /\ row'.observed = row.observed
      /\ row'.want = row.want /\ row'.have = row.have /\ row'.fails = row.fails
  BY <1>1 DEF RetryFiles, Row
<1>5. TypeOK'
  BY <1>3 DEF RetryFiles, RemoteInv, TypeOK
<1>6. Sending' /\ Cancelling'
  BY <1>4 DEF RetryFiles, RemoteInv, Sending, Cancelling
<1>7. Heard' /\ Outcome'
  BY <1>4 DEF RetryFiles, RemoteInv, Heard, Outcome, Trusted, Ended
<1> QED
  BY <1>5, <1>6, <1>7 DEF RemoteInv

LEMMA ClientInv == RemoteInv /\ ClientStep => RemoteInv'
BY SubmitInv, ContinueInv, CancelInv, RetryFilesInv DEF ClientStep, CancelTask, CancelFromAbove
-----------------------------------------------------------------------------
\* The executor.
LEMMA ClaimTaskInv == RemoteInv /\ ClaimTask => RemoteInv'
<1> SUFFICES ASSUME RemoteInv, ClaimTask PROVE RemoteInv'
  OBVIOUS
<1>1. row \in Row
  BY DEF RemoteInv, TypeOK
<1>2. "WORKING" \in States /\ "executing" \in Phases /\ row.msg \in 0..MaxMessages
  BY <1>1 DEF States, Active, Phases, Row
<1>3. row' \in Row
  BY <1>1, <1>2 DEF ClaimTask, Row
<1>4. /\ row'.state = "WORKING" /\ row'.phase = "executing" /\ row'.lease = row.msg
      /\ row'.msg = row.msg /\ row'.sent = row.sent /\ row'.dispatched = row.dispatched
      /\ row'.known = row.known /\ row'.cancelSent = row.cancelSent /\ row'.observed = row.observed
      /\ row'.want = row.want /\ row'.have = row.have /\ row'.fails = row.fails
  BY <1>1 DEF ClaimTask, Row
<1>5. /\ exec' = [pc |-> "claimed", msg |-> row.msg, reply |-> NoReport]
      /\ UNCHANGED <<poll, peer, process, crashes>> /\ row.state = "SUBMITTED"
  BY DEF ClaimTask, NoExec
<1>6. NoReport \in Reports /\ NoReport.state = "NONE" /\ NoReport.files = 0
  BY Constants DEF NoReport, Reports, PeerStates
<1>7. TypeOK'
  BY <1>2, <1>3, <1>5, <1>6 DEF RemoteInv, TypeOK
<1>8. row.msg \in Nat /\ row.sent \in Nat /\ peer.files \in Nat
  BY <1>1, Constants DEF Row, RemoteInv, TypeOK
<1>9. Sending' /\ Cancelling'
  BY <1>4, <1>5, <1>8 DEF RemoteInv, Sending, Cancelling
<1>10. Heard' /\ Outcome'
  BY <1>4, <1>5, <1>6, <1>8 DEF RemoteInv, Sending, Heard, Outcome, Trusted, Ended, Terminal
<1> QED
  BY <1>7, <1>9, <1>10 DEF RemoteInv

LEMMA DispatchInv == RemoteInv /\ Dispatch => RemoteInv'
<1> SUFFICES ASSUME RemoteInv, Dispatch PROVE RemoteInv'
  OBVIOUS
<1>1. row \in Row /\ exec.msg \in 0..MaxMessages
  BY DEF RemoteInv, TypeOK
<1>2. row' \in Row
  BY <1>1 DEF Dispatch, Row
<1>3. /\ row'.sent = exec.msg /\ row'.dispatched = TRUE /\ row'.cancelSent = FALSE
      /\ row'.state = row.state /\ row'.phase = row.phase /\ row'.lease = row.lease
      /\ row'.msg = row.msg /\ row'.known = row.known /\ row'.observed = row.observed
      /\ row'.want = row.want /\ row'.have = row.have /\ row'.fails = row.fails
  BY <1>1 DEF Dispatch, Row
<1>4. /\ exec' \in [pc : {"idle", "claimed", "dispatched", "replied", "staging"},
                    msg : 0..MaxMessages, reply : Reports]
      /\ exec'.pc = "dispatched" /\ exec'.msg = exec.msg /\ exec'.reply = exec.reply
      /\ UNCHANGED <<poll, peer, process, crashes>>
      /\ exec.pc = "claimed" /\ row.lease = exec.msg
  BY DEF Dispatch, RemoteInv, TypeOK
<1>5. TypeOK'
  BY <1>2, <1>4 DEF RemoteInv, TypeOK
<1>6. /\ row.sent \in Nat /\ exec.msg \in Nat /\ peer.round \in Nat /\ poll.msg \in Nat
      /\ \A m \in Messages : m \in Nat /\ peer.got[m] \in Nat /\ peer.cancels[m] \in Nat
      /\ exec.msg > 0 => exec.msg \in Messages
  <2>1. row.sent \in Nat
    BY <1>1, Constants DEF Row
  <2> QED
    BY <1>1, <2>1, Constants DEF RemoteInv, TypeOK, Messages
<1>7. row.sent < exec.msg /\ exec.msg > 0 /\ exec.msg \in Messages /\ exec.msg <= row.msg
  BY <1>4, <1>6 DEF RemoteInv, Sending, Outcome
<1>8. Sending'
  <2>1. peer.got[exec.msg] = 0
    BY <1>6, <1>7 DEF RemoteInv, Sending
  <2>2. /\ peer.round < exec.msg
        /\ \A m \in Messages : peer.got[m] <= 1 /\ (peer.got[m] > 0 => m <= exec.msg)
    BY <1>6, <1>7 DEF RemoteInv, Sending
  <2>3. row.state = "WORKING"
    BY <1>4, <1>7 DEF RemoteInv, Outcome
  <2> QED
    BY <1>3, <1>4, <1>6, <1>7, <2>1, <2>2, <2>3 DEF Sending
<1>9. Cancelling'
  BY <1>3, <1>4, <1>6, <1>7 DEF RemoteInv, Cancelling
<1>10. Heard' /\ Outcome'
  BY <1>3, <1>4, <1>7 DEF RemoteInv, Heard, Outcome, Trusted, Ended, Terminal
<1> QED
  BY <1>5, <1>8, <1>9, <1>10 DEF RemoteInv

LEMMA SendMessageInv == RemoteInv /\ SendMessage => RemoteInv'
<1> SUFFICES ASSUME RemoteInv, SendMessage PROVE RemoteInv'
  OBVIOUS
<1>1. row \in Row
  BY DEF RemoteInv, TypeOK
<1>2. /\ row.sent \in 0..MaxMessages /\ peer.round \in 0..MaxMessages
      /\ exec.pc = "dispatched" /\ exec.msg = row.sent /\ row.sent \in Messages
      /\ peer.got[row.sent] = 0 /\ peer.round < row.sent
  BY <1>1, Constants DEF SendMessage, Row, RemoteInv, TypeOK, Sending, Messages
<1>3. /\ peer' = [peer EXCEPT !.state = "WORKING", !.round = peer.round + 1,
                              !.got[exec.msg] = peer.got[exec.msg] + 1]
      /\ exec' = [exec EXCEPT !.pc = "replied",
                              !.reply = [state |-> peer'.state, files |-> peer'.files, round |-> peer'.round]]
      /\ UNCHANGED <<row, poll, process, crashes>> /\ peer.state \notin Terminal
  BY DEF SendMessage, PeerNow
<1>4. peer \in [state : PeerStates, files : 0..MaxFiles, round : 0..MaxMessages,
                got : [Messages -> Nat], cancels : [Messages -> Nat]]
  BY DEF RemoteInv, TypeOK
<1>5. /\ peer'.state = "WORKING" /\ peer'.files = peer.files /\ peer'.round = peer.round + 1
      /\ peer'.got = [peer.got EXCEPT ![row.sent] = 1] /\ peer'.cancels = peer.cancels
  BY <1>2, <1>3, <1>4
<1>6. peer' \in [state : PeerStates, files : 0..MaxFiles, round : 0..MaxMessages,
                 got : [Messages -> Nat], cancels : [Messages -> Nat]]
  <2>1. "WORKING" \in PeerStates /\ peer.round + 1 \in 0..MaxMessages
    BY <1>2, Constants DEF PeerStates
  <2>2. [peer.got EXCEPT ![exec.msg] = peer.got[exec.msg] + 1] \in [Messages -> Nat]
    BY <1>2, <1>4
  <2> QED
    BY <1>3, <1>4, <2>1, <2>2
<1>7. /\ exec'.pc = "replied" /\ exec'.msg = exec.msg
      /\ exec'.reply = [state |-> peer'.state, files |-> peer'.files, round |-> peer'.round]
  BY <1>3 DEF RemoteInv, TypeOK
<1>8. exec' \in [pc : {"idle", "claimed", "dispatched", "replied", "staging"},
                 msg : 0..MaxMessages, reply : Reports]
  <2>1. [state |-> peer'.state, files |-> peer'.files, round |-> peer'.round] \in Reports
    BY <1>6 DEF Reports
  <2> QED
    BY <1>3, <2>1 DEF RemoteInv, TypeOK
<1>9. TypeOK'
  BY <1>3, <1>6, <1>8 DEF RemoteInv, TypeOK
<1>10. Sending'
  BY <1>2, <1>3, <1>4, <1>5, <1>7, Constants DEF RemoteInv, Sending, Messages
<1>11. Cancelling'
  BY <1>3, <1>5 DEF RemoteInv, Cancelling
<1>12. Heard' /\ Outcome'
  BY <1>2, <1>3, <1>4, <1>5, <1>7 DEF RemoteInv, Heard, Outcome, Trusted, Ended, Terminal
<1> QED
  BY <1>9, <1>10, <1>11, <1>12 DEF RemoteInv

LEMMA PeerAnswersLateInv == RemoteInv /\ PeerAnswersLate => RemoteInv'
<1> SUFFICES ASSUME RemoteInv, PeerAnswersLate PROVE RemoteInv'
  OBVIOUS
<1>1. PeerNow \in Reports /\ PeerNow.state = peer.state /\ PeerNow.files = peer.files
  BY DEF PeerNow, Reports, RemoteInv, TypeOK
<1>2. /\ exec' \in [pc : {"idle", "claimed", "dispatched", "replied", "staging"},
                    msg : 0..MaxMessages, reply : Reports]
      /\ exec'.pc = exec.pc /\ exec'.msg = exec.msg /\ exec'.reply = PeerNow
      /\ UNCHANGED <<row, poll, peer, process, crashes>>
  BY <1>1 DEF PeerAnswersLate, RemoteInv, TypeOK
<1>3. TypeOK'
  BY <1>2 DEF RemoteInv, TypeOK
<1>4. Sending' /\ Cancelling'
  BY <1>2 DEF RemoteInv, Sending, Cancelling
<1>5. peer.files \in Nat
  BY Constants DEF RemoteInv, TypeOK
<1>6. Heard' /\ Outcome'
  BY <1>1, <1>2, <1>5 DEF RemoteInv, Heard, Outcome, Trusted, Ended
<1> QED
  BY <1>3, <1>4, <1>6 DEF RemoteInv

\* What is shown is what the peer reported, and if it has ended so has the peer.
LEMMA RecordInv ==
  ASSUME RemoteInv, Resets, NEW report \in Reports, Trusted(report.state, report.files),
         row.dispatched, ~Ended(row), Projects(row, report), row' = Record(row, report)
  PROVE  RemoteInv'
<1>1. row \in Row
  BY DEF RemoteInv, TypeOK
<1> DEFINE waits == report.files > row.have
           shown == IF waits THEN "WORKING" ELSE report.state
           phase == IF waits THEN "remote-file-receiving"
                    ELSE IF shown \in Terminal THEN "done" ELSE "remote-waiting"
<1>2. report.state # "SUBMITTED" /\ Observed(report) = report.state /\ report.state \in PeerStates
  BY DEF Reports, PeerStates, Observed
<1>3. row' = [row EXCEPT !.state = shown, !.known = TRUE, !.observed = report.state,
                         !.shows = report.round, !.want = report.files, !.fails = 0,
                         !.lease = 0, !.phase = phase]
  BY <1>2, Zenon DEF Record, AwaitsFiles
<1>4. shown \in States /\ shown # "SUBMITTED"
  <2>1. row.state # "NONE"
    BY DEF RemoteInv, Heard
  <2>2. row.state \in States
    BY <1>1, <2>1 DEF Row
  <2>3. row.state = shown \/ shown = "WORKING" \/ CanTransition(row.state, shown)
    BY <1>2 DEF Projects, AwaitsFiles
  <2> QED
    BY <1>2, <2>2, <2>3 DEF CanTransition, States, Terminal, Interrupted, Active
<1>5. /\ report.round \in 0..MaxMessages /\ report.files \in 0..MaxFiles /\ report.files \in Nat
      /\ row.have \in Nat /\ peer.files \in Nat
  <2>1. row.have \in Nat
    BY <1>1, Constants DEF Row
  <2> QED
    BY <2>1, Constants DEF Reports, RemoteInv, TypeOK
<1>6. /\ phase \in Phases
      /\ phase \in {"remote-file-receiving", "remote-waiting", "done"}
      /\ phase = "remote-file-receiving" => waits
  BY DEF Phases
<1>7. /\ shown \in Terminal => shown = report.state /\ ~waits
      /\ waits => report.state # "NONE"
      /\ shown = "WORKING" \/ shown = report.state
  BY <1>5 DEF Trusted, Terminal
<1> HIDE DEF shown, phase
<1>8. row' \in Row
  <2>1. 0 \in 0..MaxFailures /\ 0 \in 0..MaxMessages /\ shown \in States \cup {"NONE"}
    BY <1>4, Constants
  <2>2. PICK r : r = [row EXCEPT !.state = shown, !.known = TRUE, !.observed = report.state,
                                 !.shows = report.round]
    OBVIOUS
  <2>3. r \in Row
    BY <1>1, <1>2, <1>5, <2>1, <2>2 DEF Row
  <2>4. row' = [r EXCEPT !.want = report.files, !.fails = 0, !.lease = 0, !.phase = phase]
    BY <1>1, <1>3, <2>2 DEF Row
  <2> QED
    BY <1>5, <1>6, <2>1, <2>3, <2>4 DEF Row
<1>9. /\ row'.state = shown /\ row'.phase = phase /\ row'.lease = 0
      /\ row'.msg = row.msg /\ row'.sent = row.sent /\ row'.dispatched = row.dispatched
      /\ row'.cancelSent = row.cancelSent /\ row'.observed = report.state
      /\ row'.want = report.files /\ row'.have = row.have /\ row'.fails = 0
  BY <1>1, <1>3 DEF Row
<1>10. TypeOK'
  BY <1>8, ResetFacts
<1>11. Sending'
  BY <1>4, <1>9, ResetFacts DEF RemoteInv, Sending, States, Terminal, Interrupted, Active, Resets
<1>12. Cancelling'
  <2>1. poll.fails >= 0
    BY Constants DEF RemoteInv, TypeOK
  <2> QED
    BY <1>9, <2>1, ResetFacts DEF RemoteInv, Cancelling, Resets
<1>13. Heard'
  BY <1>4, <1>9, ResetFacts DEF RemoteInv, Heard, Resets, States, Terminal, Interrupted, Active
<1>14. Outcome'
  BY <1>5, <1>6, <1>7, <1>9, ResetFacts DEF RemoteInv, Outcome, Trusted, Terminal, Resets
<1> QED
  BY <1>10, <1>11, <1>12, <1>13, <1>14 DEF RemoteInv

LEMMA ResetsNone ==
  ASSUME RemoteInv, UNCHANGED <<peer, process, crashes>>,
         exec' \in {exec, NoExec, Staging},
         \/ poll' \in {poll, NoPoll}
         \/ poll.pc # "idle" /\ poll' = [poll EXCEPT !.pc = "staging", !.reply = NoReport]
  PROVE  Resets
BY DEF RemoteInv, TypeOK, Resets

LEMMA RecordReplyInv == RemoteInv /\ RecordReply => RemoteInv'
<1> SUFFICES ASSUME RemoteInv, RecordReply PROVE RemoteInv'
  OBVIOUS
<1>1. Resets
  BY ResetsNone DEF RecordReply
<1>2. CASE row' = row
  BY <1>1, <1>2, ResetInv
<1>3. CASE row' # row
  <2>1. ~Ended(row) /\ Projects(row, exec.reply) /\ row' = Record(row, exec.reply) /\ exec.pc = "replied"
    BY <1>3 DEF RecordReply
  <2>2. exec.reply \in Reports /\ Trusted(exec.reply.state, exec.reply.files) /\ row.dispatched
    BY <2>1 DEF RemoteInv, TypeOK, Heard, Outcome
  <2> QED
    BY <1>1, <2>1, <2>2, RecordInv
<1> QED
  BY <1>2, <1>3

LEMMA ExecutorInv == RemoteInv /\ ExecutorStep => RemoteInv'
<1>1. RemoteInv /\ (ClaimFails \/ ExecutorFails) => RemoteInv'
  BY ResetsNone, InterruptInv DEF ClaimFails, ExecutorFails
<1>2. RemoteInv /\ StagingEnds => RemoteInv'
  BY ResetsNone, ResetInv DEF StagingEnds
<1> QED
  BY <1>1, <1>2, ClaimTaskInv, DispatchInv, SendMessageInv, PeerAnswersLateInv, RecordReplyInv DEF ExecutorStep
-----------------------------------------------------------------------------
\* The observer.
LEMMA RecordPollInv == RemoteInv /\ RecordPoll => RemoteInv'
<1> SUFFICES ASSUME RemoteInv, RecordPoll PROVE RemoteInv'
  OBVIOUS
<1>1. Resets
  BY ResetsNone DEF RecordPoll, RecordPolled
<1>2. CASE row' = row
  BY <1>1, <1>2, ResetInv
<1>3. CASE row' # row
  <2>1. ~Ended(row) /\ Projects(row, poll.reply) /\ row' = Record(row, poll.reply) /\ poll.pc = "replied"
    BY <1>3 DEF RecordPoll, RecordPolled, StillPolled
  <2>2. poll.reply \in Reports /\ Trusted(poll.reply.state, poll.reply.files) /\ row.dispatched
    BY <2>1 DEF RemoteInv, TypeOK, Heard, Outcome
  <2> QED
    BY <1>1, <2>1, <2>2, RecordInv
<1> QED
  BY <1>2, <1>3

\* A step that changes only what the observer remembers.
LEMMA PollInv ==
  ASSUME RemoteInv, UNCHANGED <<row, exec, peer, process, crashes>>,
         poll' \in [pc : {"idle", "read", "mark", "cancel", "ask", "replied", "staging"},
                    msg : 0..MaxMessages, fails : 0..MaxFailures, known : BOOLEAN,
                    reply : Reports],
         poll'.pc # "idle" =>
           row.dispatched /\ poll'.msg <= row.sent /\ row.fails <= poll'.fails,
         poll'.pc # "cancel",
         Trusted(poll'.reply.state, poll'.reply.files)
  PROVE  RemoteInv'
<1>1. TypeOK'
  BY DEF RemoteInv, TypeOK
<1>2. Sending' /\ Cancelling' /\ Heard'
  BY DEF RemoteInv, Sending, Cancelling, Heard
<1>3. Outcome'
  BY DEF RemoteInv, Outcome, Trusted, Terminal
<1> QED
  BY <1>1, <1>2, <1>3 DEF RemoteInv

LEMMA PollRowInv == RemoteInv /\ PollRow => RemoteInv'
<1> SUFFICES ASSUME RemoteInv, PollRow PROVE RemoteInv'
  OBVIOUS
<1>1. /\ row.sent \in 0..MaxMessages /\ row.fails \in 0..MaxFailures /\ row.known \in BOOLEAN
      /\ peer.files \in 0..MaxFiles
  BY DEF Row, RemoteInv, TypeOK
<1>2. poll' = [pc |-> "read", msg |-> row.sent, fails |-> row.fails, known |-> row.known,
               reply |-> NoReport]
  BY DEF PollRow, NoPoll
<1>3. NoReport \in Reports /\ NoReport.state = "NONE" /\ NoReport.files = 0
  BY Constants DEF NoReport, Reports, PeerStates
<1>4. poll' \in [pc : {"idle", "read", "mark", "cancel", "ask", "replied", "staging"},
                 msg : 0..MaxMessages, fails : 0..MaxFailures, known : BOOLEAN,
                 reply : Reports]
  BY <1>1, <1>2, <1>3
<1>5. row.dispatched
  BY DEF PollRow, Reachable, RemoteInv, Heard
<1>6. row.sent <= row.sent /\ row.fails <= row.fails /\ 0 <= peer.files
  BY <1>1, Constants
<1>7. Trusted(poll'.reply.state, poll'.reply.files)
  BY <1>2, <1>3, <1>6 DEF Trusted, Terminal
<1> QED
  BY <1>2, <1>4, <1>5, <1>6, <1>7, PollInv DEF PollRow

LEMMA PollAgainInv == RemoteInv /\ PollAgain => RemoteInv'
<1> SUFFICES ASSUME RemoteInv, PollAgain PROVE RemoteInv'
  OBVIOUS
<1>1. CASE poll' = NoPoll
  <2>1. UNCHANGED row /\ Resets
    BY <1>1, ResetsNone DEF PollAgain
  <2> QED
    BY <2>1, ResetInv
<1>2. CASE poll' # NoPoll
  <2>1. PICK pc \in {"mark", "ask"} : poll' = [poll EXCEPT !.pc = pc]
    BY <1>2 DEF PollAgain
  <2>2. /\ poll' \in [pc : {"idle", "read", "mark", "cancel", "ask", "replied", "staging"},
                      msg : 0..MaxMessages, fails : 0..MaxFailures, known : BOOLEAN,
                      reply : Reports]
        /\ poll'.pc = pc /\ poll'.msg = poll.msg /\ poll'.fails = poll.fails
        /\ poll'.reply = poll.reply /\ poll.pc # "idle"
    BY <2>1 DEF PollAgain, RemoteInv, TypeOK
  <2>3. /\ row.dispatched /\ poll.msg <= row.sent /\ row.fails <= poll.fails
        /\ Trusted(poll.reply.state, poll.reply.files)
    BY <2>2 DEF RemoteInv, Heard, Cancelling, Outcome
  <2> QED
    BY <2>2, <2>3, PollInv DEF PollAgain
<1> QED
  BY <1>1, <1>2

LEMMA GetTaskInv == RemoteInv /\ GetTask => RemoteInv'
<1> SUFFICES ASSUME RemoteInv, GetTask PROVE RemoteInv'
  OBVIOUS
<1>1. PeerNow \in Reports /\ PeerNow.state = peer.state /\ PeerNow.files = peer.files
  BY DEF PeerNow, Reports, RemoteInv, TypeOK
<1>2. /\ poll' \in [pc : {"idle", "read", "mark", "cancel", "ask", "replied", "staging"},
                    msg : 0..MaxMessages, fails : 0..MaxFailures, known : BOOLEAN,
                    reply : Reports]
      /\ poll'.pc = "replied" /\ poll'.msg = poll.msg /\ poll'.fails = poll.fails
      /\ poll'.reply = PeerNow /\ poll.pc # "idle"
  BY <1>1 DEF GetTask, RemoteInv, TypeOK
<1>3. peer.files \in Nat
  BY Constants DEF RemoteInv, TypeOK
<1>4. /\ row.dispatched /\ poll.msg <= row.sent /\ row.fails <= poll.fails
      /\ Trusted(peer.state, peer.files)
  BY <1>2, <1>3 DEF RemoteInv, Heard, Cancelling, Trusted
<1> QED
  BY <1>1, <1>2, <1>4, PollInv DEF GetTask

\* The mark says that the cancel of this message leaves now: none has yet.
LEMMA MarkCancelSentInv == RemoteInv /\ MarkCancelSent => RemoteInv'
<1> SUFFICES ASSUME RemoteInv, MarkCancelSent PROVE RemoteInv'
  OBVIOUS
<1>1. CASE poll' = NoPoll /\ UNCHANGED row
  <2>1. Resets
    BY <1>1, ResetsNone DEF MarkCancelSent
  <2> QED
    BY <1>1, <2>1, ResetInv
<1>2. CASE /\ StillPolled /\ ~row.cancelSent
           /\ row' = [row EXCEPT !.cancelSent = TRUE]
           /\ poll' = [poll EXCEPT !.pc = "cancel"]
  <2>1. row \in Row
    BY DEF RemoteInv, TypeOK
  <2>2. row' \in Row
    BY <1>2, <2>1 DEF Row
  <2>3. /\ row'.cancelSent = TRUE
        /\ row'.state = row.state /\ row'.phase = row.phase /\ row'.lease = row.lease
        /\ row'.msg = row.msg /\ row'.sent = row.sent /\ row'.dispatched = row.dispatched
        /\ row'.known = row.known /\ row'.observed = row.observed
        /\ row'.want = row.want /\ row'.have = row.have /\ row'.fails = row.fails
    BY <1>2, <2>1 DEF Row
  <2>4. /\ poll' \in [pc : {"idle", "read", "mark", "cancel", "ask", "replied", "staging"},
                      msg : 0..MaxMessages, fails : 0..MaxFailures, known : BOOLEAN,
                      reply : Reports]
        /\ poll'.pc = "cancel" /\ poll'.msg = poll.msg /\ poll'.fails = poll.fails
        /\ poll'.reply = poll.reply /\ poll.pc = "mark" /\ row.sent = poll.msg
        /\ UNCHANGED <<exec, peer, process, crashes>>
    BY <1>2 DEF MarkCancelSent, StillPolled, RemoteInv, TypeOK
  <2>5. TypeOK'
    BY <2>2, <2>4 DEF RemoteInv, TypeOK
  <2>6. Sending' /\ Heard' /\ Outcome'
    BY <2>3, <2>4 DEF RemoteInv, Sending, Heard, Outcome, Trusted, Ended
  <2>7. row.sent \in Messages => peer.cancels[row.sent] = 0
    <3>1. ASSUME row.sent \in Messages PROVE peer.cancels[row.sent] \in Nat /\ row.sent \in Nat
      BY <3>1, Constants DEF RemoteInv, TypeOK, Messages
    <3> QED
      BY <1>2, <3>1 DEF RemoteInv, Cancelling
  <2>8. Cancelling'
    BY <1>2, <2>3, <2>4, <2>7 DEF RemoteInv, Cancelling
  <2> QED
    BY <2>5, <2>6, <2>8 DEF RemoteInv
<1> QED
  BY <1>1, <1>2 DEF MarkCancelSent

\* The mark is used up: the peer has counted the cancel, or it was lost.
LEMMA PeerTakesCancelInv == RemoteInv /\ PeerTakesCancel => RemoteInv'
<1> SUFFICES ASSUME RemoteInv, PeerTakesCancel PROVE RemoteInv'
  OBVIOUS
<1>1. /\ poll' \in [pc : {"idle", "read", "mark", "cancel", "ask", "replied", "staging"},
                    msg : 0..MaxMessages, fails : 0..MaxFailures, known : BOOLEAN,
                    reply : Reports]
      /\ poll'.pc = "ask" /\ poll'.msg = poll.msg /\ poll'.fails = poll.fails
      /\ poll'.reply = poll.reply /\ poll.pc = "cancel"
      /\ UNCHANGED <<row, exec, process, crashes>>
  BY DEF PeerTakesCancel, RemoteInv, TypeOK
<1>2. CASE UNCHANGED peer
  <2>1. /\ row.dispatched /\ poll.msg <= row.sent /\ row.fails <= poll.fails
        /\ Trusted(poll.reply.state, poll.reply.files)
    BY <1>1 DEF RemoteInv, Heard, Cancelling, Outcome
  <2> QED
    BY <1>1, <1>2, <2>1, PollInv
<1>3. CASE peer' # peer
  <2>1. peer \in [state : PeerStates, files : 0..MaxFiles, round : 0..MaxMessages,
                  got : [Messages -> Nat], cancels : [Messages -> Nat]]
    BY DEF RemoteInv, TypeOK
  <2>2. PICK state \in {peer.state, "CANCELED"} :
          /\ peer.state \in Terminal => state = peer.state
          /\ peer' = [peer EXCEPT !.cancels[poll.msg] = peer.cancels[poll.msg] + 1, !.state = state]
    <3>1. CASE peer' = [peer EXCEPT !.cancels[poll.msg] = peer.cancels[poll.msg] + 1]
      <4>1. peer' = [peer EXCEPT !.cancels[poll.msg] = peer.cancels[poll.msg] + 1, !.state = peer.state]
        BY <2>1, <3>1
      <4> QED
        BY <4>1
    <3>2. CASE peer' = [peer EXCEPT !.cancels[poll.msg] = peer.cancels[poll.msg] + 1,
                                    !.state = IF peer.state \in Terminal THEN peer.state ELSE "CANCELED"]
      BY <3>2
    <3> QED
      BY <1>3, <3>1, <3>2 DEF PeerTakesCancel
  <2>3. /\ peer'.state = state /\ peer'.files = peer.files /\ peer'.round = peer.round
        /\ peer'.got = peer.got
        /\ peer'.cancels = [peer.cancels EXCEPT ![poll.msg] = peer.cancels[poll.msg] + 1]
    BY <2>1, <2>2
  <2>4. [peer.cancels EXCEPT ![poll.msg] = peer.cancels[poll.msg] + 1] \in [Messages -> Nat]
    <3>1. peer.cancels \in [Messages -> Nat]
      BY <2>1
    <3>2. CASE poll.msg \in Messages
      BY <3>1, <3>2
    <3>3. CASE poll.msg \notin Messages
      BY <3>1, <3>3
    <3> QED
      BY <3>2, <3>3
  <2>5. state \in PeerStates
    BY <2>1 DEF PeerStates
  <2>6. peer' \in [state : PeerStates, files : 0..MaxFiles, round : 0..MaxMessages,
                   got : [Messages -> Nat], cancels : [Messages -> Nat]]
    BY <2>1, <2>2, <2>4, <2>5
  <2>7. TypeOK'
    BY <1>1, <2>6 DEF RemoteInv, TypeOK
  <2>8. Sending'
    BY <1>1, <2>3 DEF RemoteInv, Sending
  <2>9. row.dispatched /\ row.state # "NONE"
    BY <1>1 DEF RemoteInv, Heard
  <2>10. row.sent \in Nat /\ poll.msg \in Nat
    <3>1. row.sent \in 0..MaxMessages /\ poll.msg \in 0..MaxMessages
      BY DEF RemoteInv, TypeOK, Row
    <3> QED
      BY <3>1, Constants
  <2>11. Cancelling'
    <3>1. /\ poll.msg <= row.sent /\ (poll.msg = row.sent => row.cancelSent)
          /\ poll.msg \in Messages => peer.cancels[poll.msg] = 0
      BY <1>1 DEF RemoteInv, Cancelling
    <3>2. ASSUME NEW m \in Messages
          PROVE  /\ peer'.cancels[m] <= 1
                 /\ peer'.cancels[m] > 0 => m < row'.sent \/ (m = row'.sent /\ row'.cancelSent)
      <4>1. CASE m = poll.msg
        BY <1>1, <2>1, <2>3, <2>10, <3>1, <4>1
      <4>2. CASE m # poll.msg
        BY <1>1, <2>1, <2>3, <4>2 DEF RemoteInv, Cancelling
      <4> QED
        BY <4>1, <4>2
    <3> QED
      BY <1>1, <3>2 DEF RemoteInv, Cancelling
  <2>12. Heard'
    BY <1>1, <2>2, <2>3, <2>9 DEF RemoteInv, Heard
  <2>13. Outcome'
    BY <1>1, <2>2, <2>3 DEF RemoteInv, Outcome, Trusted, Terminal
  <2> QED
    BY <2>7, <2>8, <2>11, <2>12, <2>13 DEF RemoteInv
<1> QED
  BY <1>2, <1>3

LEMMA PollFailsInv == RemoteInv /\ PollFails => RemoteInv'
<1> SUFFICES ASSUME RemoteInv, PollFails PROVE RemoteInv'
  OBVIOUS
<1>1. Resets /\ poll' = NoPoll /\ poll.pc # "idle"
  BY ResetsNone DEF PollFails
<1>2. CASE row' = row \/ row' = InterruptTask(row)
  BY <1>1, <1>2, ResetInv, InterruptInv
<1>3. CASE row' = [row EXCEPT !.fails = @ + 1] /\ ~(poll.fails >= MaxFailures)
  <2>1. row \in Row
    BY DEF RemoteInv, TypeOK
  <2>2. row.fails \in 0..MaxFailures /\ poll.fails \in 0..MaxFailures
    BY <2>1 DEF Row, RemoteInv, TypeOK
  <2>3. row.fails <= poll.fails
    BY <1>1 DEF RemoteInv, Cancelling
  <2>4. row.fails + 1 \in 0..MaxFailures
    BY <1>3, <2>2, <2>3, Constants
  <2>5. row' \in Row
    BY <1>3, <2>1, <2>4 DEF Row
  <2>6. /\ row'.state = row.state /\ row'.phase = row.phase /\ row'.lease = row.lease
        /\ row'.msg = row.msg /\ row'.sent = row.sent /\ row'.dispatched = row.dispatched
        /\ row'.known = row.known /\ row'.cancelSent = row.cancelSent /\ row'.observed = row.observed
        /\ row'.want = row.want /\ row'.have = row.have
    BY <1>3, <2>1 DEF Row
  <2>7. TypeOK'
    BY <1>1, <2>5, ResetFacts
  <2>8. poll'.pc = "idle" /\ poll'.reply.state = "NONE" /\ poll'.reply.files = 0 /\ peer.files >= 0
    BY <1>1, ResetFacts DEF NoPoll, NoReport
  <2>9. UNCHANGED <<exec, peer>>
    BY DEF PollFails
  <2>10. Sending' /\ Cancelling'
    BY <2>6, <2>8, <2>9 DEF RemoteInv, Sending, Cancelling
  <2>11. Heard' /\ Outcome'
    BY <2>6, <2>8, <2>9 DEF RemoteInv, Heard, Outcome, Trusted, Ended, Terminal
  <2> QED
    BY <2>7, <2>10, <2>11 DEF RemoteInv
<1> QED
  BY <1>2, <1>3 DEF PollFails, GiveUpOrRetry

LEMMA ObserverInv == RemoteInv /\ ObserverStep => RemoteInv'
<1>1. RemoteInv /\ PollEnds => RemoteInv'
  BY ResetsNone, ResetInv DEF PollEnds
<1> QED
  BY <1>1, PollRowInv, PollAgainInv, MarkCancelSentInv, PeerTakesCancelInv, GetTaskInv, RecordPollInv,
     PollFailsInv DEF ObserverStep
-----------------------------------------------------------------------------
\* Files, deadlines and retention.  The outcome that was held back for its files
\* is the one the peer ended with.
LEMMA ReceiveFilesInv == RemoteInv /\ ReceiveFiles => RemoteInv'
<1> SUFFICES ASSUME RemoteInv, ReceiveFiles PROVE RemoteInv'
  OBVIOUS
<1>1. row \in Row /\ row.observed \in PeerStates /\ row.observed # "NONE"
      /\ row.phase = "remote-file-receiving" /\ row.want \in 0..MaxFiles /\ row.state # "NONE"
  BY DEF ReceiveFiles, Row, RemoteInv, TypeOK, Heard, Outcome
<1>2. Resets
  BY ResetsNone DEF ReceiveFiles
<1>3. PICK state \in {row.state, row.observed}, have \in {row.have, row.want},
           phase \in {"done", "remote-waiting", "remote-file-failed"} :
        /\ row' = [row EXCEPT !.state = state, !.have = have, !.lease = 0, !.phase = phase]
        /\ state # row.state => state = row.observed /\ have = row.want
        /\ state = "COMPLETED" => state = row.observed /\ have = row.want
  <2>1. CASE row' = [row EXCEPT !.phase = "remote-file-failed", !.lease = 0]
    <3>1. row' = [row EXCEPT !.state = row.state, !.have = row.have, !.lease = 0,
                             !.phase = "remote-file-failed"]
      BY <1>1, <2>1 DEF Row
    <3>2. row.state # "COMPLETED"
      BY DEF ReceiveFiles, Ended, Terminal
    <3> QED
      BY <3>1, <3>2
  <2>2. CASE row' = [row EXCEPT !.state = row.observed, !.have = row.want, !.lease = 0,
                       !.phase = IF row.observed \in Terminal THEN "done" ELSE "remote-waiting"]
    BY <2>2
  <2> QED
    BY <2>1, <2>2 DEF ReceiveFiles
<1>4. /\ state \in States /\ have \in 0..MaxFiles /\ 0 \in 0..MaxMessages /\ phase \in Phases
      /\ state \in {row.state} \cup (PeerStates \ {"NONE"})
  BY <1>1, Constants DEF Row, PeerStates, States, Active, Interrupted, Terminal, Phases
<1>5. row' \in Row
  BY <1>1, <1>3, <1>4 DEF Row
<1>6. /\ row'.state = state /\ row'.phase = phase /\ row'.lease = 0 /\ row'.have = have
      /\ row'.msg = row.msg /\ row'.sent = row.sent /\ row'.dispatched = row.dispatched
      /\ row'.known = row.known /\ row'.cancelSent = row.cancelSent /\ row'.observed = row.observed
      /\ row'.want = row.want /\ row'.fails = row.fails
  BY <1>1, <1>3 DEF Row
<1>7. TypeOK'
  BY <1>2, <1>5, ResetFacts
<1>8. state = "SUBMITTED" => state = row.state
  BY <1>4 DEF PeerStates
<1>9. UNCHANGED <<exec, poll, peer>> /\ row.dispatched /\ row.state \notin Terminal
  BY <1>1 DEF ReceiveFiles, RemoteInv, Heard, Ended
<1>10. Sending' /\ Cancelling' /\ Heard'
  BY <1>1, <1>4, <1>6, <1>8, <1>9 DEF RemoteInv, Sending, Cancelling, Heard, States, Active, Interrupted, Terminal
<1>11. Outcome'
  BY <1>1, <1>3, <1>6, <1>9 DEF RemoteInv, Outcome, Trusted, Terminal
<1> QED
  BY <1>7, <1>10, <1>11 DEF RemoteInv

\* Time: the deadline and the retention are not what these invariants are about.
LEMMA TimeInv ==
  ASSUME RemoteInv, NEW expired \in BOOLEAN, NEW retained \in BOOLEAN,
         row' = [row EXCEPT !.expired = expired, !.retained = retained],
         UNCHANGED <<exec, poll, peer, process, crashes>>
  PROVE  RemoteInv'
<1>1. row \in Row
  BY DEF RemoteInv, TypeOK
<1>2. row' \in Row
  BY <1>1 DEF Row
<1>3. /\ row'.state = row.state /\ row'.phase = row.phase /\ row'.lease = row.lease
      /\ row'.msg = row.msg /\ row'.sent = row.sent /\ row'.dispatched = row.dispatched
      /\ row'.known = row.known /\ row'.cancelSent = row.cancelSent /\ row'.observed = row.observed
      /\ row'.want = row.want /\ row'.have = row.have /\ row'.fails = row.fails
  BY <1>1 DEF Row
<1>4. TypeOK'
  BY <1>2 DEF RemoteInv, TypeOK
<1>5. Sending' /\ Cancelling'
  BY <1>3 DEF RemoteInv, Sending, Cancelling
<1>6. Heard' /\ Outcome'
  BY <1>3 DEF RemoteInv, Heard, Outcome, Trusted, Ended
<1> QED
  BY <1>4, <1>5, <1>6 DEF RemoteInv

LEMMA WorkerInv == RemoteInv /\ WorkerStep => RemoteInv'
<1>1. RemoteInv /\ (SweepExpired \/ SweepDelivery) => RemoteInv'
  BY ResetsNone, InterruptInv DEF SweepExpired, SweepDelivery
<1>2. RemoteInv /\ (Expire \/ RetentionEnds) => RemoteInv'
  <2> SUFFICES ASSUME RemoteInv, Expire \/ RetentionEnds PROVE RemoteInv'
    OBVIOUS
  <2>1. row \in Row /\ row.expired \in BOOLEAN /\ row.retained \in BOOLEAN
    BY DEF RemoteInv, TypeOK, Row
  <2>2. CASE Expire
    <3>1. row' = [row EXCEPT !.expired = TRUE, !.retained = row.retained]
      BY <2>1, <2>2 DEF Expire, Row
    <3> QED
      BY <2>1, <2>2, <3>1, TimeInv DEF Expire
  <2>3. CASE RetentionEnds
    <3>1. row' = [row EXCEPT !.expired = row.expired, !.retained = FALSE]
      BY <2>1, <2>3 DEF RetentionEnds, Row
    <3> QED
      BY <2>1, <2>3, <3>1, TimeInv DEF RetentionEnds
  <2> QED
    BY <2>2, <2>3
<1> QED
  BY <1>1, <1>2, ReceiveFilesInv DEF WorkerStep
-----------------------------------------------------------------------------
\* The peer moves only while it has not ended.
LEMMA PeerMovesInv == RemoteInv /\ PeerMoves => RemoteInv'
<1> SUFFICES ASSUME RemoteInv, PeerMoves PROVE RemoteInv'
  OBVIOUS
<1>1. PICK to \in PeerStates \ {"NONE", "CANCELED"}, n \in {0, 1} :
        /\ n = 1 => peer.files < MaxFiles
        /\ peer' = [peer EXCEPT !.state = to, !.files = peer.files + n]
  BY DEF PeerMoves
<1>2. peer \in [state : PeerStates, files : 0..MaxFiles, round : 0..MaxMessages,
                got : [Messages -> Nat], cancels : [Messages -> Nat]]
  BY DEF RemoteInv, TypeOK
<1>3. /\ peer'.state = to /\ peer'.files = peer.files + n /\ peer'.round = peer.round
      /\ peer'.got = peer.got /\ peer'.cancels = peer.cancels
  BY <1>1, <1>2
<1>4. peer.files + n \in 0..MaxFiles /\ peer.files \in Nat
  BY <1>1, <1>2, Constants
<1>5. peer' \in [state : PeerStates, files : 0..MaxFiles, round : 0..MaxMessages,
                 got : [Messages -> Nat], cancels : [Messages -> Nat]]
  BY <1>1, <1>2, <1>4
<1>6. /\ UNCHANGED <<row, exec, poll, process, crashes>> /\ to # "NONE"
      /\ peer.state \in {"WORKING", "INPUT_REQUIRED", "AUTH_REQUIRED"}
  BY DEF PeerMoves
<1>7. TypeOK'
  BY <1>5, <1>6 DEF RemoteInv, TypeOK
<1>8. Sending' /\ Cancelling' /\ Heard'
  BY <1>3, <1>6 DEF RemoteInv, Sending, Cancelling, Heard
<1>9. /\ row.want \in Nat /\ row.have \in Nat /\ exec.reply.files \in Nat /\ poll.reply.files \in Nat
      /\ peer.files <= peer'.files
  <2>1. row.want \in 0..MaxFiles /\ row.have \in 0..MaxFiles
    BY DEF RemoteInv, TypeOK, Row
  <2>2. exec.reply \in Reports /\ poll.reply \in Reports
    BY DEF RemoteInv, TypeOK
  <2>3. exec.reply.files \in 0..MaxFiles /\ poll.reply.files \in 0..MaxFiles
    BY <2>2 DEF Reports
  <2> QED
    BY <1>3, <1>4, <2>1, <2>3, Constants
<1>10. Outcome'
  BY <1>3, <1>4, <1>6, <1>9 DEF RemoteInv, Outcome, Trusted, Terminal
<1> QED
  BY <1>7, <1>8, <1>10 DEF RemoteInv

LEMMA CrashInv == RemoteInv /\ Crash => RemoteInv'
<1> SUFFICES ASSUME RemoteInv, Crash PROVE RemoteInv'
  OBVIOUS
<1>1. Resets
  BY Constants DEF Crash, Resets, RemoteInv, TypeOK
<1> QED
  BY <1>1, ResetInv DEF Crash

LEMMA RecoverInv == RemoteInv /\ Recover => RemoteInv'
<1> SUFFICES ASSUME RemoteInv, Recover PROVE RemoteInv'
  OBVIOUS
<1>1. Resets
  BY DEF Recover, Resets, RemoteInv, TypeOK
<1>2. CASE row' = row \/ row' = InterruptTask(row)
  BY <1>1, <1>2, ResetInv, InterruptInv
<1>3. CASE row.known /\ row' = [row EXCEPT !.phase = "remote-waiting", !.lease = 0]
           /\ row.state = "WORKING"
  <2>1. row \in Row /\ row.dispatched /\ "remote-waiting" \in Phases /\ 0 \in 0..MaxMessages
    BY <1>3, Constants DEF RemoteInv, TypeOK, Heard, Phases
  <2>2. row' \in Row
    BY <1>3, <2>1 DEF Row
  <2>3. /\ row'.phase = "remote-waiting" /\ row'.lease = 0
        /\ row'.state = row.state /\ row'.msg = row.msg
        /\ row'.sent = row.sent /\ row'.dispatched = row.dispatched
        /\ row'.known = row.known /\ row'.cancelSent = row.cancelSent /\ row'.observed = row.observed
        /\ row'.want = row.want /\ row'.have = row.have /\ row'.fails = row.fails
    BY <1>3, <2>1 DEF Row
  <2>4. TypeOK'
    BY <1>1, <2>2, ResetFacts
  <2>5. UNCHANGED <<exec, poll, peer>>
    BY DEF Recover
  <2>6. Sending' /\ Cancelling' /\ Heard'
    BY <1>3, <2>1, <2>3, <2>5 DEF RemoteInv, Sending, Cancelling, Heard
  <2>7. Outcome'
    BY <1>3, <2>3, <2>5 DEF RemoteInv, Outcome, Trusted
  <2> QED
    BY <2>4, <2>6, <2>7 DEF RemoteInv
<1> QED
  BY <1>2, <1>3 DEF Recover
-----------------------------------------------------------------------------
LEMMA NextInv == RemoteInv /\ [Next]_vars => RemoteInv'
<1>1. RemoteInv /\ UNCHANGED vars => RemoteInv'
  BY DEF vars, RemoteInv, TypeOK, Sending, Cancelling, Heard, Outcome, Trusted, Ended
<1> QED
  BY <1>1, ClientInv, ExecutorInv, ObserverInv, WorkerInv, PeerMovesInv, CrashInv, RecoverInv DEF Next

\* What the inductive invariant says of the properties.
LEMMA RemoteInvIsEnough == RemoteInv => TypeOK /\ SentAtMostOnce /\ OutcomeIsThePeers
BY DEF RemoteInv, Sending, Cancelling, Outcome, SentAtMostOnce, OutcomeIsThePeers

LEMMA RemoteAlways == Spec => []RemoteInv
BY InitRemote, NextInv, PTL DEF Spec

\* The row, the memories of the executor and the observer, and the peer keep to
\* their types: no counter of failures leaves its bound.
THEOREM RemoteTypes == Spec => []TypeOK
BY RemoteAlways, RemoteInvIsEnough, PTL

\* The peer is sent each message, and the cancel of each message, at most once,
\* over any crashes, failed polls, repeated observations and continuations.
THEOREM SentOnceAlways == Spec => []SentAtMostOnce
BY RemoteAlways, RemoteInvIsEnough, PTL

\* A task shown as completed was completed by the peer and has all its files; one
\* shown as cancelled was cancelled by the peer or never reached it.
THEOREM OutcomeAlways == Spec => []OutcomeIsThePeers
BY RemoteAlways, RemoteInvIsEnough, PTL
-----------------------------------------------------------------------------
(* Questions.  While the process has not died, the peer has taken in every *)
(* message sent but the one that is on its way, which only the executor    *)
(* holds; whoever reports on the row reports what the peer said after it.  *)

\* The executor has the row no more, if it had: it may still receive files.
Free == exec.pc \in {"idle", "staging"}

\* Who holds the row: the executor from its claim on, or nobody.
Holding ==
  /\ process = "up"
  /\ Free => row.phase # "executing"
  /\ ~Free =>
       /\ row.state = "WORKING" /\ row.phase = "executing" /\ row.lease = exec.msg
       /\ exec.msg = row.msg /\ row.msg > 0
  /\ row.state = "SUBMITTED" => row.phase = "queued"
  /\ row.state \in {"NONE", "SUBMITTED"} \/ ~Free => row.observed = "NONE"
  /\ row.state = "INPUT_REQUIRED" => row.observed = "INPUT_REQUIRED"

\* Which message is the last one sent, and what has been reported since.
Rounds ==
  /\ row.state = "SUBMITTED" \/ exec.pc = "claimed" => row.sent + 1 = row.msg
  /\ row.state # "SUBMITTED" /\ exec.pc # "claimed" => row.cancelReq \/ row.sent = row.msg
  /\ exec.pc = "dispatched" => peer.round + 1 = row.sent
  /\ exec.pc # "dispatched" => peer.round = row.sent
  /\ exec.pc = "replied" => exec.reply.round = row.sent
  /\ poll.pc # "idle" /\ poll.msg = row.sent => exec.pc # "dispatched"
  /\ poll.pc = "replied" /\ poll.msg = row.sent => poll.reply.round = row.sent
  /\ row.observed = "INPUT_REQUIRED" => row.shows = row.sent

Current == Holding /\ Rounds

CurrentInv == crashes = 0 /\ ~Ended(row) => Current

LEMMA Numbers ==
  ASSUME RemoteInv
  PROVE  /\ row \in Row /\ row.msg \in Nat /\ row.sent \in Nat /\ row.lease \in Nat
         /\ row.cancelReq \in BOOLEAN
         /\ exec.msg \in Nat /\ poll.msg \in Nat /\ peer.round \in Nat
         /\ row.observed \in PeerStates /\ row.state \in States \cup {"NONE"}
BY Constants DEF RemoteInv, TypeOK, Row

\* A step that writes nothing of the row these facts are about, and lets an
\* executor or a poll end or go on.
LEMMA CurrentFrame ==
  ASSUME RemoteInv, Current, UNCHANGED <<exec, peer, process>>, poll' \in {poll, NoPoll},
         row'.state = row.state, row'.phase = row.phase, row'.lease = row.lease,
         row'.msg = row.msg, row'.sent = row.sent, row'.cancelReq = row.cancelReq,
         row'.observed = row.observed, row'.shows = row.shows
  PROVE  Current'
<1>1. poll' = poll \/ poll'.pc = "idle"
  BY DEF NoPoll
<1>2. Holding'
  BY DEF Current, Free, Holding
<1>3. Rounds'
  BY <1>1 DEF Current, Rounds
<1> QED
  BY <1>2, <1>3 DEF Current

\* A write that ends the row leaves nothing to say.
LEMMA InterruptCurrent ==
  ASSUME RemoteInv, row' = InterruptTask(row)
  PROVE  Ended(row)'
<1>1. CASE Ended(row)
  BY <1>1 DEF InterruptTask, Ended
<1>2. CASE ~Ended(row)
  <2>1. row \in Row
    BY Numbers
  <2>2. PICK s \in {"FAILED", "CANCELED"} :
          row' = [row EXCEPT !.state = s, !.phase = "done", !.lease = 0]
    BY <1>2, <2>1, InterruptRow
  <2>3. row'.state = s
    BY <2>1, <2>2 DEF Row
  <2> QED
    BY <2>3 DEF Ended, Terminal
<1> QED
  BY <1>1, <1>2

LEMMA SubmitCurrent == RemoteInv /\ Current /\ Submit => Current'
<1> SUFFICES ASSUME RemoteInv, Current, Submit PROVE Current'
  OBVIOUS
<1>1. /\ row'.state = "SUBMITTED" /\ row'.phase = "queued" /\ row'.msg = 1
      /\ row'.sent = row.sent /\ row'.cancelReq = row.cancelReq
      /\ row'.observed = row.observed /\ row'.shows = row.shows
  BY Numbers DEF Submit, Row
<1>2. row.state = "NONE" /\ UNCHANGED <<exec, poll, peer, process>> /\ row.sent = 0 /\ row.msg = 0
  BY DEF Submit, RemoteInv, Sending
<1>3. Free /\ row.observed = "NONE"
  BY <1>2 DEF Current, Free, Holding
<1>4. Holding'
  BY <1>1, <1>2, <1>3 DEF Current, Free, Holding
<1>5. Rounds'
  BY <1>1, <1>2, <1>3 DEF Current, Rounds
<1> QED
  BY <1>4, <1>5 DEF Current

\* Every message so far was sent: the next one is the one to come.
LEMMA ContinueCurrent == RemoteInv /\ Current /\ Continue => Current'
<1> SUFFICES ASSUME RemoteInv, Current, Continue PROVE Current'
  OBVIOUS
<1>1. /\ row'.state = "SUBMITTED" /\ row'.phase = "queued" /\ row'.msg = row.msg + 1
      /\ row'.sent = row.sent /\ row'.cancelReq = row.cancelReq
      /\ row'.observed = "NONE" /\ row'.shows = row.shows
  BY Numbers DEF Continue, Row
<1>2. row.state = "INPUT_REQUIRED" /\ ~row.cancelReq /\ UNCHANGED <<exec, poll, peer, process>>
  BY DEF Continue
<1>3. Free
  BY <1>2 DEF Current, Free, Holding
<1>4. row.sent = row.msg
  BY <1>2, <1>3 DEF Current, Free, Rounds
<1>5. Holding'
  BY <1>1, <1>2, <1>3 DEF Current, Free, Holding
<1>6. Rounds'
  BY <1>1, <1>2, <1>3, <1>4 DEF Current, Rounds
<1> QED
  BY <1>5, <1>6 DEF Current

\* A cancel that is noted leaves the row with its holder, or to the observer.
LEMMA CancelCurrent ==
  ASSUME RemoteInv, Current, row.state # "NONE", ~Ended(row), row' = CommitCancellation(row),
         UNCHANGED <<exec, poll, peer, process>>
  PROVE  Current' \/ Ended(row)'
<1>1. row \in Row
  BY Numbers
<1>2. CASE row.dispatched
  <2> DEFINE state == IF row.state = "SUBMITTED" THEN "WORKING" ELSE row.state
             phase == IF row.lease = 0 THEN "remote-waiting" ELSE row.phase
  <2>1. row' = [row EXCEPT !.cancelReq = TRUE, !.state = state, !.phase = phase]
    BY <1>2 DEF CommitCancellation, MarkRemoteCancellation
  <2>2. /\ state # "SUBMITTED" /\ state # "NONE"
        /\ row.state # "SUBMITTED" => state = row.state
        /\ state = "INPUT_REQUIRED" => row.state = "INPUT_REQUIRED"
        /\ row.state = "WORKING" => state = "WORKING"
    OBVIOUS
  <2>3. /\ row.lease # 0 => phase = row.phase
        /\ phase = "executing" => row.phase = "executing"
    OBVIOUS
  <2> HIDE DEF state, phase
  <2>4. /\ row'.state = state /\ row'.phase = phase /\ row'.lease = row.lease
        /\ row'.msg = row.msg /\ row'.sent = row.sent /\ row'.cancelReq
        /\ row'.observed = row.observed /\ row'.shows = row.shows
    BY <1>1, <2>1 DEF Row
  <2>5. ~Free => row.state = "WORKING" /\ row.phase = "executing" /\ row.lease # 0
    <3>1. ASSUME ~Free
          PROVE  row.state = "WORKING" /\ row.phase = "executing" /\ row.lease = row.msg /\ row.msg > 0
      BY <3>1 DEF Current, Free, Holding
    <3>2. row.msg \in Nat
      BY Numbers
    <3> QED
      BY <3>1, <3>2
  <2>6. /\ Free => phase # "executing"
        /\ ~Free => state = "WORKING" /\ phase = "executing"
        /\ state = "INPUT_REQUIRED" => row.observed = "INPUT_REQUIRED"
    BY <2>2, <2>3, <2>5 DEF Current, Free, Holding
  <2>7. Holding'
    <3>1. /\ process = "up"
          /\ ~Free => row.lease = exec.msg /\ exec.msg = row.msg /\ row.msg > 0 /\ row.observed = "NONE"
      BY DEF Current, Free, Holding
    <3> QED
      BY <2>2, <2>4, <2>6, <3>1 DEF Free, Holding
  <2>8. exec.pc = "claimed" => row.sent + 1 = row.msg
    BY DEF Current, Rounds
  <2>9. Rounds'
    BY <2>2, <2>4, <2>5, <2>8 DEF Current, Rounds
  <2> QED
    BY <2>7, <2>9 DEF Current
<1>3. CASE ~row.dispatched /\ row' = [row EXCEPT !.cancelReq = TRUE]
  <2>1. /\ row'.state = row.state /\ row'.phase = row.phase /\ row'.lease = row.lease
        /\ row'.msg = row.msg /\ row'.sent = row.sent /\ row'.cancelReq
        /\ row'.observed = row.observed /\ row'.shows = row.shows
    BY <1>1, <1>3 DEF Row
  <2>2. Holding' /\ Rounds'
    BY <2>1 DEF Current, Free, Holding, Rounds
  <2> QED
    BY <2>2 DEF Current
<1>4. CASE ~row.dispatched /\ row' = [Settle(row, "CANCELED") EXCEPT !.cancelReq = TRUE]
  <2>1. row'.state = "CANCELED"
    BY <1>1, <1>4 DEF Row, Settle
  <2> QED
    BY <2>1 DEF Ended, Terminal
<1> QED
  BY <1>2, <1>3, <1>4 DEF CommitCancellation

LEMMA RetryFilesCurrent == RemoteInv /\ Current /\ RetryFiles => Current'
<1> SUFFICES ASSUME RemoteInv, Current, RetryFiles PROVE Current'
  OBVIOUS
<1>1. /\ row'.phase = "remote-file-receiving" /\ row.phase = "remote-file-failed"
      /\ row'.state = row.state /\ row'.lease = row.lease
      /\ row'.msg = row.msg /\ row'.sent = row.sent /\ row'.cancelReq = row.cancelReq
      /\ row'.observed = row.observed /\ row'.shows = row.shows
  BY Numbers DEF RetryFiles, Row
<1>2. Holding' /\ Rounds'
  BY <1>1 DEF RetryFiles, Current, Free, Holding, Rounds
<1> QED
  BY <1>2 DEF Current

LEMMA ClientCurrent == RemoteInv /\ Current /\ ~Ended(row) /\ ClientStep => Current' \/ Ended(row)'
BY SubmitCurrent, ContinueCurrent, CancelCurrent, RetryFilesCurrent DEF ClientStep, CancelTask, CancelFromAbove
-----------------------------------------------------------------------------
\* The executor.
LEMMA ClaimTaskCurrent == RemoteInv /\ Current /\ ClaimTask => Current'
<1> SUFFICES ASSUME RemoteInv, Current, ClaimTask PROVE Current'
  OBVIOUS
<1>1. /\ row'.state = "WORKING" /\ row'.phase = "executing" /\ row'.lease = row.msg
      /\ row'.msg = row.msg /\ row'.sent = row.sent /\ row'.cancelReq = row.cancelReq
      /\ row'.observed = row.observed /\ row'.shows = row.shows
  BY Numbers DEF ClaimTask, Row
<1>2. /\ exec'.pc = "claimed" /\ exec'.msg = row.msg /\ Free
      /\ row.state = "SUBMITTED" /\ UNCHANGED <<poll, peer, process>>
  BY DEF ClaimTask, NoExec, Free
<1>3. row.sent + 1 = row.msg /\ row.msg > 0 /\ row.observed = "NONE"
  BY <1>2, Numbers DEF Current, Free, Holding, Rounds
<1>4. Holding'
  BY <1>1, <1>2, <1>3 DEF Current, Free, Holding
<1>5. Rounds'
  BY <1>1, <1>2, <1>3 DEF Current, Free, Rounds
<1> QED
  BY <1>4, <1>5 DEF Current

\* A poll that began before knows an earlier message.
LEMMA DispatchCurrent == RemoteInv /\ Current /\ Dispatch => Current'
<1> SUFFICES ASSUME RemoteInv, Current, Dispatch PROVE Current'
  OBVIOUS
<1>1. /\ row'.sent = exec.msg /\ row'.state = row.state /\ row'.phase = row.phase
      /\ row'.lease = row.lease /\ row'.msg = row.msg /\ row'.cancelReq = row.cancelReq
      /\ row'.observed = row.observed /\ row'.shows = row.shows
  BY Numbers DEF Dispatch, Row
<1>2. /\ exec'.pc = "dispatched" /\ exec'.msg = exec.msg /\ exec.pc = "claimed"
      /\ UNCHANGED <<poll, peer, process>>
  BY DEF Dispatch, RemoteInv, TypeOK
<1>3. /\ exec.msg = row.msg /\ row.sent + 1 = row.msg /\ peer.round = row.sent
      /\ row.observed = "NONE" /\ row.state = "WORKING"
  BY <1>2 DEF Current, Free, Holding, Rounds
<1>4. poll.pc # "idle" => poll.msg <= row.sent
  BY DEF RemoteInv, Cancelling
<1>5. Holding'
  BY <1>1, <1>2 DEF Current, Free, Holding
<1>6. Rounds'
  BY <1>1, <1>2, <1>3, <1>4, Numbers DEF Rounds
<1> QED
  BY <1>5, <1>6 DEF Current

LEMMA SendMessageCurrent == RemoteInv /\ Current /\ SendMessage => Current'
<1> SUFFICES ASSUME RemoteInv, Current, SendMessage PROVE Current'
  OBVIOUS
<1>1. /\ exec.pc = "dispatched" /\ UNCHANGED <<row, poll, process>>
      /\ peer' = [peer EXCEPT !.state = "WORKING", !.round = peer.round + 1,
                              !.got[exec.msg] = peer.got[exec.msg] + 1]
      /\ exec' = [exec EXCEPT !.pc = "replied", !.reply = PeerNow']
  BY DEF SendMessage
<1>2. peer'.round = peer.round + 1
  BY <1>1 DEF RemoteInv, TypeOK
<1>3. exec'.pc = "replied" /\ exec'.msg = exec.msg /\ exec'.reply.round = peer'.round
  BY <1>1 DEF RemoteInv, TypeOK, PeerNow
<1>4. peer'.round = row.sent
  BY <1>1, <1>2 DEF Current, Rounds
<1>5. Holding'
  BY <1>1, <1>3 DEF Current, Free, Holding
<1>6. Rounds'
  BY <1>1, <1>3, <1>4 DEF Current, Rounds
<1> QED
  BY <1>5, <1>6 DEF Current

LEMMA PeerAnswersLateCurrent == RemoteInv /\ Current /\ PeerAnswersLate => Current'
<1> SUFFICES ASSUME RemoteInv, Current, PeerAnswersLate PROVE Current'
  OBVIOUS
<1>1. /\ exec'.pc = exec.pc /\ exec'.msg = exec.msg /\ exec'.reply.round = peer.round
      /\ exec.pc = "replied" /\ UNCHANGED <<row, poll, peer, process>>
  BY DEF PeerAnswersLate, RemoteInv, TypeOK, PeerNow
<1>2. Holding' /\ Rounds'
  BY <1>1 DEF Current, Free, Holding, Rounds
<1> QED
  BY <1>2 DEF Current

\* Whoever records holds a report the peer made after the last message.
LEMMA RecordCurrent ==
  ASSUME RemoteInv, Current, NEW report \in Reports, report.round = row.sent,
         Projects(row, report), row' = Record(row, report), ~Ended(row),
         row.state # "SUBMITTED", exec.pc \in {"idle", "staging", "replied"}, Free',
         \/ poll' \in {poll, NoPoll}
         \/ poll.pc # "idle" /\ poll' = [poll EXCEPT !.pc = "staging", !.reply = NoReport],
         UNCHANGED <<peer, process>>
  PROVE  Current'
<1> DEFINE waits == report.files > row.have
           shown == IF waits THEN "WORKING" ELSE report.state
           phase == IF waits THEN "remote-file-receiving"
                    ELSE IF shown \in Terminal THEN "done" ELSE "remote-waiting"
<1>1. row \in Row
  BY Numbers
<1>2. report.state # "SUBMITTED" /\ Observed(report) = report.state
  BY DEF Reports, PeerStates, Observed
<1>3. row' = [row EXCEPT !.state = shown, !.known = TRUE, !.observed = report.state,
                         !.shows = report.round, !.want = report.files, !.fails = 0,
                         !.lease = 0, !.phase = phase]
  BY <1>2, Zenon DEF Record, AwaitsFiles
<1>4. /\ shown # "SUBMITTED" /\ (shown = "NONE" => report.state = "NONE")
      /\ shown = "INPUT_REQUIRED" => report.state = "INPUT_REQUIRED"
      /\ phase # "executing"
  BY <1>2
<1> HIDE DEF shown, phase
<1>5. /\ row'.state = shown /\ row'.phase = phase /\ row'.msg = row.msg /\ row'.sent = row.sent
      /\ row'.cancelReq = row.cancelReq /\ row'.observed = report.state /\ row'.shows = report.round
  BY <1>1, <1>3 DEF Row
<1>6. poll \in [pc : {"idle", "read", "mark", "cancel", "ask", "replied", "staging"},
                msg : 0..MaxMessages, fails : 0..MaxFailures, known : BOOLEAN,
                reply : Reports]
  BY DEF RemoteInv, TypeOK
<1>7. \/ poll' = poll \/ poll'.pc = "idle"
      \/ poll.pc # "idle" /\ poll'.pc = "staging" /\ poll'.msg = poll.msg
  <2>1. CASE poll' \in {poll, NoPoll}
    BY <2>1 DEF NoPoll
  <2>2. CASE poll.pc # "idle" /\ poll' = [poll EXCEPT !.pc = "staging", !.reply = NoReport]
    BY <1>6, <2>2
  <2> QED
    BY <2>1, <2>2
<1>8. Holding'
  BY <1>4, <1>5 DEF Current, Free, Holding
<1>9. Rounds'
  BY <1>4, <1>5, <1>7 DEF Current, Free, Rounds
<1> QED
  BY <1>8, <1>9 DEF Current

LEMMA RecordReplyCurrent == RemoteInv /\ Current /\ RecordReply => Current' \/ Ended(row)'
<1> SUFFICES ASSUME RemoteInv, Current, RecordReply, ~Ended(row)' PROVE Current'
  OBVIOUS
<1>1. exec.pc = "replied" /\ Free' /\ UNCHANGED <<poll, peer, process>>
  BY DEF RecordReply, NoExec, Staging, Free
<1>2. row.lease = exec.msg /\ row.state = "WORKING" /\ exec.reply.round = row.sent
  BY <1>1 DEF Current, Free, Holding, Rounds
<1>3. ~Ended(row)
  BY <1>2 DEF Ended, Terminal
<1>4. Projects(row, exec.reply) /\ row' = Record(row, exec.reply)
  BY <1>2, <1>3 DEF RecordReply
<1>5. exec.reply \in Reports
  BY DEF RemoteInv, TypeOK
<1> QED
  BY <1>1, <1>2, <1>3, <1>4, <1>5, RecordCurrent

LEMMA ExecutorCurrent == RemoteInv /\ Current /\ ExecutorStep => Current' \/ Ended(row)'
<1>1. RemoteInv /\ (ClaimFails \/ ExecutorFails) => Ended(row)'
  BY InterruptCurrent DEF ClaimFails, ExecutorFails
<1>2. RemoteInv /\ Current /\ StagingEnds => Current'
  <2> SUFFICES ASSUME RemoteInv, Current, StagingEnds PROVE Current'
    OBVIOUS
  <2>1. exec.pc = "staging" /\ exec'.pc = "idle" /\ UNCHANGED <<row, poll, peer, process>>
    BY DEF StagingEnds, NoExec
  <2>2. Holding' /\ Rounds'
    BY <2>1 DEF Current, Free, Holding, Rounds
  <2> QED
    BY <2>2 DEF Current
<1> QED
  BY <1>1, <1>2, ClaimTaskCurrent, DispatchCurrent, SendMessageCurrent, PeerAnswersLateCurrent,
     RecordReplyCurrent DEF ExecutorStep
-----------------------------------------------------------------------------
\* The observer.
LEMMA RecordPollCurrent == RemoteInv /\ Current /\ RecordPoll => Current' \/ Ended(row)'
<1> SUFFICES ASSUME RemoteInv, Current, RecordPoll, ~Ended(row)' PROVE Current'
  OBVIOUS
<1>1. /\ poll.pc = "replied" /\ UNCHANGED <<exec, peer, process>>
      /\ \/ poll' = NoPoll
         \/ StillPolled /\ poll' = [poll EXCEPT !.pc = "staging", !.reply = NoReport]
  BY DEF RecordPoll, RecordPolled
<1>2. CASE ~StillPolled
  BY <1>1, <1>2, CurrentFrame DEF RecordPoll
<1>3. CASE StillPolled
  <2>1. /\ row.phase = "remote-waiting" /\ ~Ended(row) /\ row.sent = poll.msg
        /\ Projects(row, poll.reply) /\ row' = Record(row, poll.reply)
    BY <1>3 DEF RecordPoll, RecordPolled, StillPolled
  <2>2. Free /\ row.state # "SUBMITTED"
    BY <2>1 DEF Current, Free, Holding
  <2>3. poll.reply.round = row.sent /\ poll.reply \in Reports
    BY <1>1, <2>1 DEF Current, Rounds, RemoteInv, TypeOK
  <2> QED
    BY <1>1, <2>1, <2>2, <2>3, RecordCurrent DEF Free
<1> QED
  BY <1>2, <1>3

\* A poll that begins, or asks the peer, does so for the last message sent.
LEMMA PollCurrent ==
  ASSUME RemoteInv, Current, UNCHANGED <<row, exec, process>>, peer'.round = peer.round,
         poll'.pc # "idle" /\ poll'.msg = row.sent => exec.pc # "dispatched",
         poll'.pc = "replied" /\ poll'.msg = row.sent => poll'.reply.round = row.sent
  PROVE  Current'
<1>1. Holding' /\ Rounds'
  BY DEF Current, Free, Holding, Rounds
<1> QED
  BY <1>1 DEF Current

LEMMA PollRowCurrent == RemoteInv /\ Current /\ PollRow => Current'
<1> SUFFICES ASSUME RemoteInv, Current, PollRow PROVE Current'
  OBVIOUS
<1>1. poll'.pc = "read" /\ UNCHANGED <<row, exec, peer, process>> /\ row.phase = "remote-waiting"
  BY DEF PollRow, NoPoll, Reachable
<1>2. Free
  BY <1>1 DEF Current, Free, Holding
<1> QED
  BY <1>1, <1>2, PollCurrent DEF Free

LEMMA PollAgainCurrent == RemoteInv /\ Current /\ PollAgain => Current'
<1> SUFFICES ASSUME RemoteInv, Current, PollAgain PROVE Current'
  OBVIOUS
<1>1. UNCHANGED <<row, exec, peer, process>> /\ poll.pc = "read"
  BY DEF PollAgain
<1>2. CASE poll' = NoPoll
  BY <1>1, <1>2, PollCurrent DEF NoPoll
<1>3. CASE poll' # NoPoll
  <2>1. PICK pc \in {"mark", "ask"} : poll' = [poll EXCEPT !.pc = pc]
    BY <1>3 DEF PollAgain
  <2>2. poll'.pc = pc /\ poll'.msg = poll.msg
    BY <2>1 DEF RemoteInv, TypeOK
  <2>3. poll'.pc # "idle" /\ poll'.msg = row.sent => exec.pc # "dispatched"
    BY <1>1, <2>2 DEF Current, Rounds
  <2> QED
    BY <1>1, <2>2, <2>3, PollCurrent
<1> QED
  BY <1>2, <1>3

LEMMA MarkCancelSentCurrent == RemoteInv /\ Current /\ MarkCancelSent => Current'
<1> SUFFICES ASSUME RemoteInv, Current, MarkCancelSent PROVE Current'
  OBVIOUS
<1>1. UNCHANGED <<exec, peer, process>> /\ poll.pc = "mark"
  BY DEF MarkCancelSent
<1>2. CASE poll' = NoPoll /\ UNCHANGED row
  BY <1>1, <1>2, CurrentFrame
<1>3. CASE row' = [row EXCEPT !.cancelSent = TRUE] /\ poll' = [poll EXCEPT !.pc = "cancel"]
  <2>1. /\ row'.state = row.state /\ row'.phase = row.phase /\ row'.lease = row.lease
        /\ row'.msg = row.msg /\ row'.sent = row.sent /\ row'.cancelReq = row.cancelReq
        /\ row'.observed = row.observed /\ row'.shows = row.shows
    BY <1>3, Numbers DEF Row
  <2>2. poll'.pc = "cancel" /\ poll'.msg = poll.msg
    BY <1>3 DEF RemoteInv, TypeOK
  <2>3. Holding'
    BY <1>1, <2>1 DEF Current, Free, Holding
  <2>4. Rounds'
    BY <1>1, <2>1, <2>2 DEF Current, Rounds
  <2> QED
    BY <2>3, <2>4 DEF Current
<1> QED
  BY <1>2, <1>3 DEF MarkCancelSent

LEMMA PeerTakesCancelCurrent == RemoteInv /\ Current /\ PeerTakesCancel => Current'
<1> SUFFICES ASSUME RemoteInv, Current, PeerTakesCancel PROVE Current'
  OBVIOUS
<1>1. UNCHANGED <<row, exec, process>> /\ poll.pc = "cancel" /\ poll'.pc = "ask" /\ poll'.msg = poll.msg
  BY DEF PeerTakesCancel, RemoteInv, TypeOK
<1>2. peer'.round = peer.round
  <2>1. CASE UNCHANGED peer
    BY <2>1
  <2>2. CASE peer' = [peer EXCEPT !.cancels[poll.msg] = peer.cancels[poll.msg] + 1]
    BY <2>2 DEF RemoteInv, TypeOK
  <2>3. CASE peer' = [peer EXCEPT !.cancels[poll.msg] = peer.cancels[poll.msg] + 1,
                                  !.state = IF peer.state \in Terminal THEN peer.state ELSE "CANCELED"]
    BY <2>3 DEF RemoteInv, TypeOK
  <2> QED
    BY <2>1, <2>2, <2>3 DEF PeerTakesCancel
<1>3. poll'.pc # "idle" /\ poll'.msg = row.sent => exec.pc # "dispatched"
  BY <1>1 DEF Current, Rounds
<1> QED
  BY <1>1, <1>2, <1>3, PollCurrent

LEMMA GetTaskCurrent == RemoteInv /\ Current /\ GetTask => Current'
<1> SUFFICES ASSUME RemoteInv, Current, GetTask PROVE Current'
  OBVIOUS
<1>1. /\ UNCHANGED <<row, exec, peer, process>> /\ poll.pc = "ask"
      /\ poll'.pc = "replied" /\ poll'.msg = poll.msg /\ poll'.reply.round = peer.round
  BY DEF GetTask, RemoteInv, TypeOK, PeerNow
<1>2. poll.msg = row.sent => exec.pc # "dispatched" /\ peer.round = row.sent
  BY <1>1 DEF Current, Rounds
<1> QED
  BY <1>1, <1>2, PollCurrent

LEMMA PollFailsCurrent == RemoteInv /\ Current /\ PollFails => Current' \/ Ended(row)'
<1> SUFFICES ASSUME RemoteInv, Current, PollFails, ~Ended(row)' PROVE Current'
  OBVIOUS
<1>1. poll' = NoPoll /\ UNCHANGED <<exec, peer, process>>
  BY DEF PollFails
<1>2. row' # InterruptTask(row)
  BY InterruptCurrent
<1>3. CASE row' = row
  BY <1>1, <1>3, CurrentFrame
<1>4. CASE row' = [row EXCEPT !.fails = @ + 1]
  <2>1. /\ row'.state = row.state /\ row'.phase = row.phase /\ row'.lease = row.lease
        /\ row'.msg = row.msg /\ row'.sent = row.sent /\ row'.cancelReq = row.cancelReq
        /\ row'.observed = row.observed /\ row'.shows = row.shows
    BY <1>4, Numbers DEF Row
  <2> QED
    BY <1>1, <2>1, CurrentFrame
<1> QED
  BY <1>2, <1>3, <1>4 DEF PollFails, GiveUpOrRetry

LEMMA ObserverCurrent == RemoteInv /\ Current /\ ObserverStep => Current' \/ Ended(row)'
<1>1. RemoteInv /\ Current /\ PollEnds => Current'
  BY PollCurrent DEF PollEnds, NoPoll
<1> QED
  BY <1>1, PollRowCurrent, PollAgainCurrent, MarkCancelSentCurrent, PeerTakesCancelCurrent, GetTaskCurrent,
     RecordPollCurrent, PollFailsCurrent DEF ObserverStep
-----------------------------------------------------------------------------
\* Files, time and the peer.
LEMMA ReceiveFilesCurrent == RemoteInv /\ Current /\ ReceiveFiles => Current'
<1> SUFFICES ASSUME RemoteInv, Current, ReceiveFiles PROVE Current'
  OBVIOUS
<1>1. /\ row.phase = "remote-file-receiving" /\ UNCHANGED <<exec, poll, peer, process>>
      /\ row \in Row
  BY Numbers DEF ReceiveFiles
<1>2. /\ Free /\ row.state # "SUBMITTED"
      /\ row.observed # "NONE" /\ row.observed # "SUBMITTED"
  BY <1>1, Numbers DEF Current, Free, Holding, RemoteInv, Outcome, PeerStates
<1>3. CASE row' = [row EXCEPT !.state = row.observed, !.have = row.want, !.lease = 0,
                     !.phase = IF row.observed \in Terminal THEN "done" ELSE "remote-waiting"]
  <2>1. PICK phase \in {"done", "remote-waiting"} :
          row' = [row EXCEPT !.state = row.observed, !.have = row.want, !.lease = 0, !.phase = phase]
    BY <1>3
  <2>2. /\ row'.state = row.observed /\ row'.phase = phase
        /\ row'.msg = row.msg /\ row'.sent = row.sent /\ row'.cancelReq = row.cancelReq
        /\ row'.observed = row.observed /\ row'.shows = row.shows
    BY <1>1, <2>1 DEF Row
  <2>3. Holding' /\ Rounds'
    BY <1>1, <1>2, <2>2 DEF Current, Free, Holding, Rounds
  <2> QED
    BY <2>3 DEF Current
<1>4. CASE row' = [row EXCEPT !.phase = "remote-file-failed", !.lease = 0]
  <2>1. /\ row'.state = row.state /\ row'.phase = "remote-file-failed"
        /\ row'.msg = row.msg /\ row'.sent = row.sent /\ row'.cancelReq = row.cancelReq
        /\ row'.observed = row.observed /\ row'.shows = row.shows
    BY <1>1, <1>4 DEF Row
  <2>2. Holding' /\ Rounds'
    BY <1>1, <1>2, <2>1 DEF Current, Free, Holding, Rounds
  <2> QED
    BY <2>2 DEF Current
<1> QED
  BY <1>3, <1>4 DEF ReceiveFiles

LEMMA WorkerCurrent == RemoteInv /\ Current /\ WorkerStep => Current' \/ Ended(row)'
<1>1. RemoteInv /\ (SweepExpired \/ SweepDelivery) => Ended(row)'
  BY InterruptCurrent DEF SweepExpired, SweepDelivery
<1>2. RemoteInv /\ Current /\ (Expire \/ RetentionEnds) => Current'
  <2> SUFFICES ASSUME RemoteInv, Current, Expire \/ RetentionEnds PROVE Current'
    OBVIOUS
  <2>1. UNCHANGED <<exec, poll, peer, process>>
    BY DEF Expire, RetentionEnds
  <2>2. /\ row'.state = row.state /\ row'.phase = row.phase /\ row'.lease = row.lease
        /\ row'.msg = row.msg /\ row'.sent = row.sent /\ row'.cancelReq = row.cancelReq
        /\ row'.observed = row.observed /\ row'.shows = row.shows
    BY Numbers DEF Expire, RetentionEnds, Row
  <2> QED
    BY <2>1, <2>2, CurrentFrame
<1> QED
  BY <1>1, <1>2, ReceiveFilesCurrent DEF WorkerStep

LEMMA PeerMovesCurrent == RemoteInv /\ Current /\ PeerMoves => Current'
<1> SUFFICES ASSUME RemoteInv, Current, PeerMoves PROVE Current'
  OBVIOUS
<1>1. PICK to \in PeerStates, n \in {0, 1} :
        peer' = [peer EXCEPT !.state = to, !.files = peer.files + n]
  BY DEF PeerMoves
<1>2. peer'.round = peer.round
  BY <1>1 DEF RemoteInv, TypeOK
<1>3. UNCHANGED <<row, exec, poll, process>>
  BY DEF PeerMoves
<1>4. poll'.pc # "idle" /\ poll'.msg = row.sent => exec.pc # "dispatched"
  BY <1>3 DEF Current, Rounds
<1>5. poll'.pc = "replied" /\ poll'.msg = row.sent => poll'.reply.round = row.sent
  BY <1>3 DEF Current, Rounds
<1> QED
  BY <1>2, <1>3, <1>4, <1>5, PollCurrent
-----------------------------------------------------------------------------
\* A row that has ended stays as it ended.
LEMMA EndedStays == RemoteInv /\ Ended(row) /\ [Next]_vars => Ended(row)'
<1> SUFFICES ASSUME RemoteInv, Ended(row), [Next]_vars PROVE Ended(row)'
  OBVIOUS
<1>1. row \in Row /\ row.state \in Terminal
  BY Numbers DEF Ended
<1>2. row'.state = row.state => Ended(row)'
  BY <1>1 DEF Ended
<1>3. row' = InterruptTask(row) => row' = row
  BY DEF InterruptTask
<1>4. CASE ClientStep
  BY <1>1, <1>4 DEF ClientStep, Submit, Continue, CancelTask, CancelFromAbove, RetryFiles, Ended, Terminal
<1>5. CASE ExecutorStep
  <2>1. CASE Dispatch
    <3>1. row'.state = row.state
      BY <1>1, <2>1 DEF Dispatch, Row
    <3> QED
      BY <1>2, <3>1
  <2>2. CASE ClaimTask \/ ClaimFails
    BY <1>1, <2>2 DEF ClaimTask, ClaimFails, Terminal
  <2>3. CASE SendMessage \/ PeerAnswersLate \/ RecordReply \/ StagingEnds
    BY <1>2, <2>3 DEF SendMessage, PeerAnswersLate, RecordReply, StagingEnds
  <2>4. CASE ExecutorFails
    BY <1>2, <1>3, <2>4 DEF ExecutorFails
  <2> QED
    BY <1>5, <2>1, <2>2, <2>3, <2>4 DEF ExecutorStep
<1>6. CASE ObserverStep
  <2>1. CASE PollFails
    <3>1. row' = InterruptTask(row) \/ row' = row \/ row' = [row EXCEPT !.fails = @ + 1]
      BY <2>1 DEF PollFails, GiveUpOrRetry
    <3>2. row'.state = row.state
      BY <1>1, <1>3, <3>1 DEF Row
    <3> QED
      BY <1>2, <3>2
  <2>2. CASE ~PollFails
    <3>1. row' = row
      BY <1>6, <2>2 DEF ObserverStep, PollRow, PollAgain, MarkCancelSent, PeerTakesCancel, GetTask, RecordPoll, PollEnds,
         StillPolled
    <3> QED
      BY <1>2, <3>1
  <2> QED
    BY <2>1, <2>2
<1>7. CASE WorkerStep
  <2>1. CASE SweepExpired
    BY <1>2, <1>3, <2>1 DEF SweepExpired
  <2>2. CASE SweepDelivery
    BY <1>2, <1>3, <2>2 DEF SweepDelivery
  <2>3. CASE ReceiveFiles \/ Expire \/ RetentionEnds
    BY <2>3 DEF ReceiveFiles, Expire, RetentionEnds
  <2> QED
    BY <1>7, <2>1, <2>2, <2>3 DEF WorkerStep
<1>8. CASE PeerMoves \/ Crash \/ UNCHANGED vars
  BY <1>2, <1>8 DEF PeerMoves, Crash, vars
<1>9. CASE Recover
  <2>1. row' = row
    BY <1>1, <1>9 DEF Recover, Terminal
  <2> QED
    BY <1>2, <2>1
<1> QED
  BY <1>4, <1>5, <1>6, <1>7, <1>8, <1>9 DEF Next

LEMMA NextCurrent == RemoteInv /\ CurrentInv /\ [Next]_vars => CurrentInv'
<1> SUFFICES ASSUME RemoteInv, CurrentInv, [Next]_vars, crashes' = 0, ~Ended(row)' PROVE Current'
  BY DEF CurrentInv
<1>1. ~Ended(row)
  BY EndedStays
<1>2. crashes \in Nat
  BY Constants DEF RemoteInv, TypeOK
<1>3. ~Crash
  BY <1>2 DEF Crash
<1>4. crashes = 0
  BY <1>3 DEF Next, vars, ClientStep, Submit, Continue, CancelTask, CancelFromAbove, RetryFiles,
     ExecutorStep, ClaimTask, ClaimFails, Dispatch, SendMessage, PeerAnswersLate, RecordReply, StagingEnds, ExecutorFails,
     ObserverStep, PollRow, PollAgain, MarkCancelSent, PeerTakesCancel, GetTask, RecordPoll, RecordPolled, PollEnds, PollFails,
     WorkerStep, ReceiveFiles, SweepExpired, SweepDelivery, Expire, RetentionEnds, PeerMoves, Recover
<1>5. Current
  BY <1>1, <1>4 DEF CurrentInv
<1>6. CASE UNCHANGED vars
  <2>1. Holding' /\ Rounds'
    BY <1>5, <1>6 DEF vars, Current, Free, Holding, Rounds
  <2> QED
    BY <2>1 DEF Current
<1>7. ~Recover
  BY <1>5 DEF Recover, Current, Holding
<1> QED
  BY <1>1, <1>3, <1>5, <1>6, <1>7, ClientCurrent, ExecutorCurrent, ObserverCurrent, WorkerCurrent,
     PeerMovesCurrent DEF Next

LEMMA InitCurrent == Init => CurrentInv
BY DEF Init, CurrentInv, Current, Free, Holding, Rounds, NoRow, NoExec, NoPoll, NoReport

LEMMA CurrentIsEnough == CurrentInv => QuestionIsCurrent
BY DEF CurrentInv, Current, Holding, Rounds, QuestionIsCurrent, Ended, Terminal

\* A question shown to the client is one the peer asked after it took in every
\* message sent: an observation that is late, or of an earlier message, never
\* brings an answered question back, unless the process died in between
\* (recordObservation and the generation check of remote-executor.ts).
THEOREM QuestionAlwaysCurrent == Spec => []QuestionIsCurrent
<1>1. Spec => []CurrentInv
  BY RemoteAlways, InitCurrent, NextCurrent, PTL DEF Spec
<1> QED
  BY <1>1, CurrentIsEnough, PTL
=============================================================================
