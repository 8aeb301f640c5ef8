--------------------------- MODULE A2ATasks_proofs ---------------------------
(***************************************************************************)
(* Proofs about A2ATasks, for any set of tasks, leases and limits.         *)
(***************************************************************************)
EXTENDS A2ATasks, TLAPS

USE ConstantsOK DEF ConstantsOK

-----------------------------------------------------------------------------
(* The writes of a row keep its type. *)

LEMMA EndedType ==
  ASSUME NEW r \in Row, NEW s \in States
  PROVE  Ended(r, s) \in Row
BY DEF Ended, Row, Phases

LEMMA StoppedType ==
  ASSUME NEW r \in Row
  PROVE  Stopped(r) \in Row
<1>1. Ended(r, "CANCELED") \in Row
  BY EndedType DEF States, Terminal
<1>2. [r EXCEPT !.cancelReq = TRUE] \in Row
  BY DEF Row
<1>3. [Ended(r, "CANCELED") EXCEPT !.cancelReq = TRUE] \in Row
  BY <1>1 DEF Row
<1> QED
  BY <1>2, <1>3 DEF Stopped

LEMMA CascadeType ==
  ASSUME NEW rows \in [Tasks -> Row], NEW p
  PROVE  CancelLocalDescendants(rows, p) \in [Tasks -> Row]
BY StoppedType DEF CancelLocalDescendants

LEMMA CloseType ==
  ASSUME task \in [Tasks -> Row], NEW t \in Tasks, NEW s \in States
  PROVE  Close(t, s) \in [Tasks -> Row]
<1>1. [task EXCEPT ![t] = Ended(task[t], s)] \in [Tasks -> Row]
  BY EndedType
<1> QED
  BY <1>1, CascadeType DEF Close

LEMMA InterruptType ==
  ASSUME task \in [Tasks -> Row], NEW t \in Tasks
  PROVE  InterruptTask(t) \in [Tasks -> Row]
<1>1. {"CANCELED", "FAILED"} \subseteq States
  BY DEF States, Terminal
<1> QED
  BY <1>1, CloseType DEF InterruptTask

-----------------------------------------------------------------------------
(* Type correctness *)

LEMMA InitType == Init => TypeOK
BY DEF Init, TypeOK, NoRow, Row, States, Phases, Idle, Executors

LEMMA NewRowType ==
  ASSUME NEW p \in Tasks \cup {NoTask}, NEW A \in SUBSET Tasks,
         NEW c \in Tasks \cup {NoTask}, NEW rec \in BOOLEAN
  PROVE  NewRow(p, A, c, rec) \in Row
BY DEF NewRow, NoRow, Row, Entrance, Phases, States, Active

\* Every write of the admission and cancellation paths is well typed.
LEMMA ClientType ==
  ASSUME TypeOK, NEW t \in Tasks, ClientStep(t)
  PROVE  TypeOK'
<1> USE DEF TypeOK
<1>1. CASE SubmitRoot(t)
  <2>1. PICK c \in {t} \cup {task[s].ctx : s \in Children(NoTask) \ {t}}, rec \in Receiving :
          task' = [task EXCEPT ![t] = NewRow(NoTask, {}, c, rec)]
    BY <1>1 DEF SubmitRoot
  <2>2. c \in Tasks \cup {NoTask}
    BY DEF Children, Row
  <2>3. NewRow(NoTask, {}, c, rec) \in Row
    BY <2>2, NewRowType
  <2> QED
    BY <1>1, <2>1, <2>3 DEF SubmitRoot
<1>2. CASE ContinueTask(t)
  <2>1. PICK rec \in Receiving :
          task' = [task EXCEPT ![t].state = "SUBMITTED",
                               ![t].phase = Entrance(rec),
                               ![t].question = FALSE]
    BY <1>2 DEF ContinueTask
  <2>2. Entrance(rec) \in Phases /\ "SUBMITTED" \in States
    BY DEF Entrance, Phases, States, Active
  <2>3. \A r \in Row, ph \in Phases, s \in States :
          [r EXCEPT !.state = s, !.phase = ph, !.question = FALSE] \in Row
    BY DEF Row
  <2> QED
    BY <1>2, <2>1, <2>2, <2>3 DEF ContinueTask
<1>3. CASE CommitTaskCancellation(t)
  <2> DEFINE r == task[t]
             leased == r.state = "WORKING" /\ r.phase = "executing" /\ r.lease # NoLease
             own == IF r.state \in Terminal THEN r
                    ELSE IF leased THEN [r EXCEPT !.cancelReq = TRUE]
                    ELSE [Ended(r, "CANCELED") EXCEPT !.cancelReq = TRUE]
  <2>1. task' = CancelLocalDescendants([task EXCEPT ![t] = own], t)
    BY <1>3 DEF CommitTaskCancellation
  <2>2. own \in Row
    <3>1. Ended(r, "CANCELED") \in Row
      BY EndedType DEF States, Terminal
    <3>2. \A x \in Row : [x EXCEPT !.cancelReq = TRUE] \in Row
      BY DEF Row
    <3> QED
      BY <3>1, <3>2
  <2>3. task' \in [Tasks -> Row]
    <3>1. [task EXCEPT ![t] = own] \in [Tasks -> Row]
      BY <2>2
    <3> HIDE DEF own
    <3> QED
      BY <2>1, <3>1, CascadeType
  <2> QED
    BY <1>3, <2>3 DEF CommitTaskCancellation
<1>4. CASE RetryFiles(t)
  <2>1. \A r \in Row, ph \in Phases : [r EXCEPT !.phase = ph] \in Row
    BY DEF Row
  <2> QED
    BY <1>4, <2>1 DEF RetryFiles, Phases
<1>5. ASSUME NEW p \in Tasks, Delegate(p, t) PROVE TypeOK'
  <2>1. PICK c \in {t} \cup {task[s].ctx : s \in Children(p)}, rec \in Receiving :
          task' = [task EXCEPT ![t] = NewRow(p, task[p].anc \cup {p}, c, rec)]
    BY <1>5 DEF Delegate
  <2>2. c \in Tasks \cup {NoTask} /\ task[p].anc \cup {p} \in SUBSET Tasks
    BY DEF Children, Row
  <2>3. NewRow(p, task[p].anc \cup {p}, c, rec) \in Row
    BY <2>2, NewRowType
  <2> QED
    BY <1>5, <2>1, <2>3 DEF Delegate
<1> QED
  BY <1>1, <1>2, <1>3, <1>4, <1>5 DEF ClientStep

\* The steps of a worker keep the types of the rows and of its memory.
LEMMA ExecutorType ==
  ASSUME TypeOK, NEW t \in Tasks, ExecutorStep(t)
  PROVE  TypeOK'
<1> USE DEF TypeOK
<1>i. Idle \in Executors
  BY DEF Idle, Executors
<1>p. \A e \in Executors, pc \in {"admitted", "running", "failing"} :
        [e EXCEPT !.pc = pc] \in Executors
  BY DEF Executors
<1>a. \A e \in Executors : [e EXCEPT !.aborted = TRUE] \in Executors
  BY DEF Executors
<1>1. CASE Admit(t)
  BY <1>1, <1>p DEF Admit
<1>2. CASE Unavailable(t)
  BY <1>2, <1>i, InterruptType DEF Unavailable
<1>3. CASE ClaimTask(t)
  <2>1. PICK token \in Leases :
          /\ task' = [task EXCEPT
                     ![t].state = "WORKING", ![t].phase = "executing",
                     ![t].lease = token, ![t].waitFor = {}, ![t].question = FALSE,
                     ![t].resumes = IF task[t].phase = "resumable" THEN @ + 1 ELSE @]
          /\ exec' = [exec EXCEPT ![t] =
                     [pc |-> "staging", held |-> token, aborted |-> FALSE]]
    BY <1>3 DEF ClaimTask
  <2>2. ASSUME NEW r \in Row, NEW n \in Nat
        PROVE  [r EXCEPT !.state = "WORKING", !.phase = "executing", !.lease = token,
                         !.waitFor = {}, !.question = FALSE, !.resumes = n] \in Row
    <3>1. PICK b \in BOOLEAN : b = FALSE
      OBVIOUS
    <3>2. PICK e : e = [r EXCEPT !.state = "WORKING"]
      OBVIOUS
    <3>3. PICK f : f = [e EXCEPT !.phase = "executing"]
      OBVIOUS
    <3>4. PICK g : g = [f EXCEPT !.lease = token]
      OBVIOUS
    <3>5. PICK h : h = [g EXCEPT !.waitFor = {}]
      OBVIOUS
    <3>6. PICK i : i = [h EXCEPT !.question = b]
      OBVIOUS
    <3>7. e \in Row
      BY <3>2 DEF Row, States, Active
    <3>8. f \in Row
      BY <3>3, <3>7 DEF Row, Phases
    <3>9. g \in Row
      BY <3>4, <3>8 DEF Row
    <3>10. h \in Row
      BY <3>5, <3>9 DEF Row
    <3>11. i \in Row
      BY <3>6, <3>10 DEF Row
    <3>12. [i EXCEPT !.resumes = n] \in Row
      BY <3>11 DEF Row
    <3>13. [r EXCEPT !.state = "WORKING", !.phase = "executing", !.lease = token,
                     !.waitFor = {}, !.question = b, !.resumes = n] = [i EXCEPT !.resumes = n]
      BY <3>2, <3>3, <3>4, <3>5, <3>6
    <3> QED
      BY <3>1, <3>12, <3>13, Zenon
  <2>3. task[t].resumes \in Nat /\ task[t].resumes + 1 \in Nat
    BY DEF Row
  <2>4. task' \in [Tasks -> Row]
    BY <2>1, <2>2, <2>3
  <2>5. [pc |-> "staging", held |-> token, aborted |-> FALSE] \in Executors
    BY DEF Executors
  <2> QED
    BY <1>3, <2>1, <2>4, <2>5 DEF ClaimTask
<1>4. CASE ClaimRefused(t)
  BY <1>4, <1>i DEF ClaimRefused
<1>5. CASE StartTurn(t)
  BY <1>5, <1>p DEF StartTurn
<1>6. CASE DeferTaskFileStaging(t)
  <2>1. \A r \in Row : [r EXCEPT !.phase = "file-staging-failed", !.lease = NoLease] \in Row
    BY DEF Row, Phases
  <2> QED
    BY <1>6, <1>i, <2>1 DEF DeferTaskFileStaging
<1>7. CASE Abort(t)
  BY <1>7, <1>a DEF Abort
<1>8. CASE ExecutorThrows(t)
  BY <1>8, <1>p DEF ExecutorThrows
<1>9. CASE RequestLocalWait(t)
  <2>1. \A r \in Row, ids \in SUBSET Tasks : [r EXCEPT !.waitFor = ids] \in Row
    BY DEF Row
  <2> QED
    BY <1>9, <2>1 DEF RequestLocalWait, Children
<1>10. CASE RequestLocalInput(t)
  <2>1. \A r \in Row : [r EXCEPT !.question = TRUE] \in Row
    BY DEF Row
  <2> QED
    BY <1>10, <2>1 DEF RequestLocalInput
<1>11. CASE FinishStale(t)
  BY <1>11, <1>i DEF FinishStale
<1>12. CASE FinishFailed(t)
  <2>1. {"CANCELED", "FAILED"} \subseteq States
    BY DEF States, Terminal
  <2> QED
    BY <1>12, <1>i, <2>1, CloseType DEF FinishFailed
<1>13. CASE FinishCompleted(t)
  <2>1. Ended(task[t], "COMPLETED") \in Row
    BY EndedType DEF States, Terminal
  <2> QED
    BY <1>13, <1>i, <2>1 DEF FinishCompleted
<1>14. CASE FinishWithQuestion(t)
  <2>1. ASSUME NEW r \in Row
        PROVE  [r EXCEPT !.state = "INPUT_REQUIRED", !.phase = "paused",
                         !.lease = NoLease, !.question = FALSE] \in Row
    <3>1. PICK b \in BOOLEAN : b = FALSE
      OBVIOUS
    <3>2. PICK e : e = [r EXCEPT !.state = "INPUT_REQUIRED"]
      OBVIOUS
    <3>3. PICK f : f = [e EXCEPT !.phase = "paused"]
      OBVIOUS
    <3>4. PICK g : g = [f EXCEPT !.lease = NoLease]
      OBVIOUS
    <3>5. e \in Row
      BY <3>2 DEF Row, States, Interrupted
    <3>6. f \in Row
      BY <3>3, <3>5 DEF Row, Phases
    <3>7. g \in Row
      BY <3>4, <3>6 DEF Row
    <3>8. [g EXCEPT !.question = b] \in Row
      BY <3>7 DEF Row
    <3>9. [r EXCEPT !.state = "INPUT_REQUIRED", !.phase = "paused",
                    !.lease = NoLease, !.question = b] = [g EXCEPT !.question = b]
      BY <3>2, <3>3, <3>4
    <3> QED
      BY <3>1, <3>8, <3>9, Zenon
  <2> QED
    BY <1>14, <1>i, <2>1 DEF FinishWithQuestion
<1>15. CASE SuspendLocalTurn(t)
  <2>1. \A r \in Row, ph \in {"resumable", "waiting"}, w \in SUBSET Tasks :
          [r EXCEPT !.phase = ph, !.waitFor = w, !.lease = NoLease] \in Row
    BY DEF Row, Phases
  <2>2. Awaited(t) \in SUBSET Tasks
    BY DEF Awaited, Children, Row
  <2>3. \A b : (IF b THEN "resumable" ELSE "waiting") \in {"resumable", "waiting"}
    OBVIOUS
  <2> QED
    BY <1>15, <1>i, <2>1, <2>2, <2>3 DEF SuspendLocalTurn
<1> QED
  BY <1>1, <1>2, <1>3, <1>4, <1>5, <1>6, <1>7, <1>8, <1>9, <1>10, <1>11,
     <1>12, <1>13, <1>14, <1>15 DEF ExecutorStep

\* So do the steps of the scheduler and of the process.
LEMMA SchedulerType ==
  ASSUME TypeOK, NEW t \in Tasks, SchedulerStep(t)
  PROVE  TypeOK'
<1> USE DEF TypeOK
<1>p. \A r \in Row, ph \in {"resumable", "queued", "file-transfer-failed"} :
        [r EXCEPT !.phase = ph] \in Row
  BY DEF Row, Phases
<1>1. CASE ReconcileRow(t)
  BY <1>1, <1>p DEF ReconcileRow
<1>2. CASE StopRow(t)
  BY <1>2, InterruptType DEF StopRow
<1>3. CASE SweepExpired(t)
  BY <1>3, InterruptType DEF SweepExpired
<1>4. CASE ReceiveFiles(t)
  <2>1. PICK ok \in BOOLEAN :
          task' = [task EXCEPT ![t].phase = IF ok THEN "queued" ELSE "file-transfer-failed"]
    BY <1>4 DEF ReceiveFiles
  <2>2. CASE ok
    BY <1>4, <1>p, <2>1, <2>2 DEF ReceiveFiles
  <2>3. CASE ~ok
    BY <1>4, <1>p, <2>1, <2>3 DEF ReceiveFiles
  <2> QED
    BY <2>2, <2>3
<1>5. CASE Expire(t)
  <2>1. \A r \in Row : [r EXCEPT !.expired = TRUE] \in Row
    BY DEF Row
  <2> QED
    BY <1>5, <2>1 DEF Expire
<1> QED
  BY <1>1, <1>2, <1>3, <1>4, <1>5 DEF SchedulerStep

LEMMA ProcessType ==
  ASSUME TypeOK, ProcessStep
  PROVE  TypeOK'
<1> USE DEF TypeOK
<1>1. CASE ScanWaits
  BY <1>1 DEF ScanWaits
<1>2. CASE StopAgentWorker
  <2>1. \A e \in Executors : [e EXCEPT !.aborted = TRUE] \in Executors
    BY DEF Executors
  <2> QED
    BY <1>2, <2>1 DEF StopAgentWorker
<1>3. CASE Crash
  <2>1. Idle \in Executors
    BY DEF Idle, Executors
  <2> QED
    BY <1>3, <2>1 DEF Crash
<1>4. CASE Restart
  BY <1>4 DEF Restart
<1>5. CASE StartAgentWorker
  BY <1>5 DEF StartAgentWorker
<1>6. ASSUME NEW t \in Tasks, RecoverTask(t) PROVE TypeOK'
  BY <1>6, InterruptType DEF RecoverTask
<1> QED
  BY <1>1, <1>2, <1>3, <1>4, <1>5, <1>6 DEF ProcessStep

LEMMA NextType == TypeOK /\ [Next]_vars => TypeOK'
<1> SUFFICES ASSUME TypeOK, [Next]_vars PROVE TypeOK'
  OBVIOUS
<1>1. CASE UNCHANGED vars
  BY <1>1 DEF TypeOK, vars
<1>2. CASE Next
  BY <1>2, ClientType, ExecutorType, SchedulerType, ProcessType DEF Next
<1> QED
  BY <1>1, <1>2

\* Rows, executors and the scheduler's memory keep their types, whatever the
\* number of tasks, leases and restarts (a2a/store.ts, execution/worker.ts).
THEOREM TypeCorrect == Spec => []TypeOK
BY InitType, NextType, PTL DEF Spec

-----------------------------------------------------------------------------
(* Lineage: how the rows of a delegation tree hang together *)

\* A task that gave up its place: it ended, or was asked to.
Quiet(t) == IsTerminal(t) \/ task[t].cancelReq

Lineage ==
  /\ \A t \in Tasks : ~Born(t) => task[t] = NoRow
  /\ \A d \in Tasks : \A a \in task[d].anc : Born(a)
  /\ \A d \in Tasks : \A a \in task[d].anc : task[a].anc \subseteq task[d].anc
  /\ \A d \in Tasks : \A a \in task[d].anc :
       \E c \in task[d].anc \cup {d} : task[c].parent = a

\* The strengthening of NoOrphanedWork that every step preserves.
TreeInv == TypeOK /\ Lineage /\ NoOrphanedWork

\* A step that neither creates a row nor gives back one.
SameTree ==
  \A x \in Tasks :
    /\ task'[x].anc = task[x].anc
    /\ task'[x].parent = task[x].parent
    /\ Born(x)' <=> Born(x)
    /\ ~Born(x) => task'[x] = task[x]

\* What has ended is left alone.
Frozen == \A x \in Tasks : IsTerminal(x) => task'[x] = task[x]

\* No row is forgotten, and none that ended is written.
Forward == Frozen /\ \A x \in Tasks : Born(x) => Born(x)'

LEMMA NotTerminal == Terminal \cap {"NONE", "SUBMITTED", "WORKING", "INPUT_REQUIRED"} = {}
BY DEF Terminal

LEMMA LineageKept ==
  ASSUME TypeOK, Lineage, SameTree
  PROVE  Lineage'
<1>1. \A d \in Tasks : task[d].anc \subseteq Tasks
  BY DEF TypeOK, Row
<1> QED
  BY <1>1 DEF Lineage, SameTree, Born

\* A step in which nobody becomes quiet, or stops being it.
LEMMA CalmStep ==
  ASSUME TreeInv, TypeOK', SameTree, Frozen,
         \A x \in Tasks : Quiet(x)' <=> Quiet(x)
  PROVE  TreeInv' /\ Forward
<1>1. Lineage'
  BY LineageKept DEF TreeInv
<1>2. \A d \in Tasks : task[d].anc \subseteq Tasks
  BY DEF TypeOK, Row, TreeInv
<1>3. NoOrphanedWork'
  BY <1>2 DEF TreeInv, NoOrphanedWork, SameTree, Quiet
<1> QED
  BY <1>1, <1>3 DEF TreeInv, SameTree, Forward

\* A step in which t becomes quiet and takes everything below it along.
LEMMA QuietStep ==
  ASSUME TreeInv, TypeOK', SameTree, Frozen, NEW t \in Tasks,
         \A x \in Tasks : Quiet(x)' <=> (Quiet(x) \/ x = t \/ t \in task[x].anc)
  PROVE  TreeInv' /\ Forward
<1>1. Lineage'
  BY LineageKept DEF TreeInv
<1>2. SUFFICES ASSUME NEW d \in Tasks, NEW a \in task[d].anc, Quiet(a)'
               PROVE  Quiet(d)'
  BY <1>1 DEF TreeInv, NoOrphanedWork, SameTree, Forward, Quiet
<1>3. a \in Tasks
  BY DEF TypeOK, Row, TreeInv
<1>4. CASE Quiet(a)
  BY <1>3, <1>4 DEF TreeInv, NoOrphanedWork, Quiet
<1>5. CASE a = t
  BY <1>5
<1>6. CASE t \in task[a].anc
  BY <1>6 DEF TreeInv, Lineage
<1> QED
  BY <1>2, <1>3, <1>4, <1>5, <1>6

\* What the cascade of a born task does to the tree.
LEMMA CascadeStep ==
  ASSUME TreeInv, TypeOK', NEW t \in Tasks, Born(t), NEW own \in Row,
         own.anc = task[t].anc, own.parent = task[t].parent,
         own.state # "NONE", own.state \in Terminal \/ own.cancelReq,
         IsTerminal(t) => own = task[t],
         task' = CancelLocalDescendants([task EXCEPT ![t] = own], t)
  PROVE  TreeInv' /\ Forward
<1> DEFINE rows == [task EXCEPT ![t] = own]
<1>1. \A x \in Tasks : task'[x] = IF t \in rows[x].anc THEN Stopped(rows[x]) ELSE rows[x]
  BY DEF CancelLocalDescendants
<1>2. rows \in [Tasks -> Row] /\ task \in [Tasks -> Row]
  BY DEF TreeInv, TypeOK
<1>3. \A r \in Row : /\ Stopped(r).anc = r.anc
                     /\ Stopped(r).parent = r.parent
                     /\ Stopped(r).state = "NONE" <=> r.state = "NONE"
                     /\ r.state = "NONE" => Stopped(r) = r
                     /\ r.state # "NONE" => Stopped(r).state \in Terminal \/ Stopped(r).cancelReq
                     /\ r.state \in Terminal => Stopped(r) = r
                     /\ r.cancelReq => Stopped(r).cancelReq
  BY DEF Stopped, Ended, Row, Terminal, States, Phases
<1>4. rows[t] = own /\ \A x \in Tasks \ {t} : rows[x] = task[x]
  BY <1>2
<1> HIDE DEF rows
<1>5. \A x \in Tasks : x # t /\ t \in task[x].anc => task[x].state # "NONE"
  BY DEF TreeInv, Lineage, Born, NoRow
<1>6. SameTree
  <2> SUFFICES ASSUME NEW x \in Tasks
               PROVE  /\ task'[x].anc = task[x].anc
                      /\ task'[x].parent = task[x].parent
                      /\ Born(x)' <=> Born(x)
                      /\ ~Born(x) => task'[x] = task[x]
    BY DEF SameTree
  <2>1. rows[x].anc = task[x].anc /\ rows[x].parent = task[x].parent
        /\ (rows[x].state = "NONE" <=> task[x].state = "NONE")
    BY <1>4 DEF Born
  <2>2. task'[x].anc = rows[x].anc /\ task'[x].parent = rows[x].parent
        /\ (task'[x].state = "NONE" <=> rows[x].state = "NONE")
    <3>1. PICK r : r = rows[x] /\ r \in Row
      BY <1>2
    <3>2. task'[x] \in {r, Stopped(r)}
      BY <1>1, <3>1
    <3> QED
      BY <1>3, <3>1, <3>2, Zenon
  <2>3. ~Born(x) => task'[x] = task[x]
    <3> SUFFICES ASSUME ~Born(x) PROVE task'[x] = task[x]
      OBVIOUS
    <3>1. x # t
      BY DEF Born
    <3>2. rows[x] = task[x] /\ rows[x] \in Row /\ rows[x].state = "NONE"
      BY <3>1, <1>2, <1>4 DEF Born
    <3>3. Stopped(rows[x]) = rows[x]
      BY <3>2, <1>3
    <3> QED
      BY <3>2, <3>3, <1>1
  <2> QED
    BY <2>1, <2>2, <2>3 DEF Born
<1>7. t \notin task[t].anc \/ Quiet(t)'
  BY <1>1, <1>2, <1>3, <1>4 DEF Quiet, IsTerminal
<1>8. \A x \in Tasks : Quiet(x)' <=> (Quiet(x) \/ x = t \/ t \in task[x].anc)
  <2> SUFFICES ASSUME NEW x \in Tasks
               PROVE  Quiet(x)' <=> (Quiet(x) \/ x = t \/ t \in task[x].anc)
    OBVIOUS
  <2>1. CASE x = t
    <3>1. Quiet(t)'
      BY <1>7, <1>1, <1>4, <1>3, <1>2 DEF Quiet, IsTerminal
    <3> QED
      BY <2>1, <3>1
  <2>2. CASE x # t /\ t \in task[x].anc
    <3>1. rows[x] = task[x] /\ rows[x] \in Row /\ rows[x].state # "NONE"
      BY <2>2, <1>2, <1>4, <1>5
    <3>2. task'[x] = Stopped(rows[x])
      BY <2>2, <3>1, <1>1
    <3>3. task'[x].state \in Terminal \/ task'[x].cancelReq
      BY <3>1, <3>2, <1>3
    <3> QED
      BY <2>2, <3>3 DEF Quiet, IsTerminal
  <2>3. CASE x # t /\ t \notin task[x].anc
    BY <2>3, <1>1, <1>4 DEF Quiet, IsTerminal
  <2> QED
    BY <2>1, <2>2, <2>3
<1>9. Frozen
  <2> SUFFICES ASSUME NEW x \in Tasks, IsTerminal(x)
               PROVE  task'[x] = task[x]
    BY DEF Frozen
  <2>1. rows[x] = task[x]
    BY <1>4
  <2>2. rows[x] \in Row /\ rows[x].state \in Terminal
    BY <2>1, <1>2 DEF IsTerminal
  <2>3. Stopped(rows[x]) = rows[x]
    BY <2>2, <1>3
  <2> QED
    BY <2>1, <2>3, <1>1
<1> QED
  BY <1>6, <1>8, <1>9, QuietStep

\* A step that rewrites one living row and neither ends it nor asks it to end.
LEMMA WriteStep ==
  ASSUME TreeInv, TypeOK', NEW t \in Tasks, NEW r \in Row,
         task' = [task EXCEPT ![t] = r],
         Born(t), ~IsTerminal(t), r.state \notin Terminal \cup {"NONE"},
         r.anc = task[t].anc, r.parent = task[t].parent,
         r.cancelReq = task[t].cancelReq
  PROVE  TreeInv' /\ Forward
<1>1. task \in [Tasks -> Row]
  BY DEF TreeInv, TypeOK
<1>2. task'[t] = r /\ \A x \in Tasks \ {t} : task'[x] = task[x]
  BY <1>1
<1>3. SameTree
  BY <1>2 DEF SameTree, Born
<1>4. \A x \in Tasks : Quiet(x)' <=> Quiet(x)
  BY <1>2 DEF Quiet, IsTerminal
<1>5. Frozen
  BY <1>2 DEF Frozen
<1> QED
  BY <1>3, <1>4, <1>5, CalmStep

\* A step that leaves every row alone.
LEMMA NoWriteStep ==
  ASSUME TreeInv, TypeOK', task' = task
  PROVE  TreeInv' /\ Forward
BY DEF TreeInv, Lineage, NoOrphanedWork, Born, IsTerminal, Forward, Frozen

\* The birth of a task beneath nobody, or beneath a parent that still speaks.
LEMMA BirthStep ==
  ASSUME TreeInv, TypeOK', NEW t \in Tasks, ~Born(t), NEW p, NEW A, NEW c, NEW rec,
         task' = [task EXCEPT ![t] = NewRow(p, A, c, rec)],
         \/ A = {}
         \/ /\ p \in Tasks /\ Born(p) /\ ~Quiet(p)
            /\ A = task[p].anc \cup {p}
  PROVE  TreeInv' /\ Forward
<1>1. task \in [Tasks -> Row]
  BY DEF TreeInv, TypeOK
<1>2. task'[t] = NewRow(p, A, c, rec) /\ \A x \in Tasks \ {t} : task'[x] = task[x]
  BY <1>1
<1>3. /\ task'[t].anc = A /\ task'[t].parent = p
      /\ task'[t].state = "SUBMITTED" /\ ~task'[t].cancelReq
  <2> DEFINE n == NewRow(p, A, c, rec)
  <2>1. n.anc = A /\ n.parent = p /\ n.state = "SUBMITTED" /\ n.cancelReq = FALSE
    BY DEF NewRow, NoRow
  <2> HIDE DEF n
  <2> QED
    BY <1>2, <2>1 DEF n
<1>4. \A d \in Tasks : t \notin task[d].anc /\ task[d].anc \subseteq Tasks
  BY <1>1 DEF TreeInv, Lineage, Row
<1>5. Forward
  BY <1>2, <1>3 DEF Forward, Frozen, Born, IsTerminal, Terminal
<1>6. Lineage'
  <2>1. \A x \in Tasks : ~Born(x)' => task'[x] = NoRow
    BY <1>2, <1>3 DEF TreeInv, Lineage, Born
  <2>2. \A a \in A : a \in Tasks /\ a # t /\ Born(a)
    BY <1>1, <1>4 DEF TreeInv, Lineage
  <2>3. \A d \in Tasks : \A a \in task'[d].anc : Born(a)'
    BY <1>2, <1>3, <1>4, <2>2 DEF TreeInv, Lineage, Born
  <2>4. \A a \in A : task[a].anc \subseteq A
    BY DEF TreeInv, Lineage
  <2>5. \A d \in Tasks : \A a \in task'[d].anc : task'[a].anc \subseteq task'[d].anc
    BY <1>2, <1>3, <1>4, <2>2, <2>4 DEF TreeInv, Lineage
  <2>6. \A a \in A : p = a \/ \E x \in A : task[x].parent = a
    BY DEF TreeInv, Lineage
  <2>7. \A d \in Tasks : \A a \in task'[d].anc :
          \E x \in task'[d].anc \cup {d} : task'[x].parent = a
    <3> SUFFICES ASSUME NEW d \in Tasks, NEW a \in task'[d].anc
                 PROVE  \E x \in task'[d].anc \cup {d} : task'[x].parent = a
      OBVIOUS
    <3>1. CASE d = t
      BY <3>1, <1>2, <1>3, <2>2, <2>6
    <3>2. CASE d # t
      <4>1. PICK x \in task[d].anc \cup {d} : task[x].parent = a
        BY <3>2, <1>2 DEF TreeInv, Lineage
      <4>2. x \in Tasks /\ x # t
        BY <3>2, <1>4
      <4> QED
        BY <3>2, <4>1, <4>2, <1>2
    <3> QED
      BY <3>1, <3>2
  <2> QED
    BY <2>1, <2>3, <2>5, <2>7 DEF Lineage
<1>7. NoOrphanedWork'
  <2> SUFFICES ASSUME NEW d \in Tasks, NEW a \in task'[d].anc, Quiet(a)'
               PROVE  Quiet(d)'
    BY DEF NoOrphanedWork, Quiet
  <2>1. CASE d # t
    <3>1. a \in task[d].anc /\ a \in Tasks /\ a # t
      BY <2>1, <1>2, <1>4
    <3>2. Quiet(a)
      BY <3>1, <1>2 DEF Quiet, IsTerminal
    <3>3. Quiet(d)
      BY <3>1, <3>2 DEF TreeInv, NoOrphanedWork, Quiet
    <3> QED
      BY <2>1, <3>3, <1>2 DEF Quiet, IsTerminal
  <2>2. CASE d = t
    <3>1. a \in A /\ p \in Tasks /\ ~Quiet(p) /\ A = task[p].anc \cup {p} /\ Born(p)
      BY <2>2, <1>3
    <3>2. a \in Tasks /\ a # t
      BY <3>1, <1>4
    <3>3. Quiet(a)
      BY <3>2, <1>2 DEF Quiet, IsTerminal
    <3>4. Quiet(p)
      BY <3>1, <3>3 DEF TreeInv, NoOrphanedWork, Quiet
    <3> QED
      BY <3>1, <3>4
  <2> QED
    BY <2>1, <2>2
<1> QED
  BY <1>5, <1>6, <1>7 DEF TreeInv

\* Ending a task that is not well: it and everything below it become quiet.
LEMMA CloseStep ==
  ASSUME TreeInv, TypeOK', NEW t \in Tasks, Born(t), ~IsTerminal(t),
         NEW s \in Terminal, task' = Close(t, s)
  PROVE  TreeInv' /\ Forward
<1> DEFINE own == Ended(task[t], s)
<1>1. task[t] \in Row
  BY DEF TreeInv, TypeOK
<1>2. own \in Row
  BY <1>1, EndedType DEF States
<1>3. own.anc = task[t].anc /\ own.parent = task[t].parent /\ own.state = s
  BY <1>1 DEF Ended, Row
<1>4. task' = CancelLocalDescendants([task EXCEPT ![t] = own], t)
  BY DEF Close
<1>5. own.state # "NONE" /\ own.state \in Terminal
  BY <1>3 DEF Terminal
<1> HIDE DEF own
<1> QED
  BY <1>2, <1>3, <1>4, <1>5, CascadeStep

LEMMA InterruptStep ==
  ASSUME TreeInv, TypeOK', NEW t \in Tasks, Born(t), task' = InterruptTask(t)
  PROVE  TreeInv' /\ Forward
<1>1. CASE IsTerminal(t)
  BY <1>1, NoWriteStep DEF InterruptTask
<1>2. CASE ~IsTerminal(t)
  <2>1. PICK s \in {"CANCELED", "FAILED"} : task' = Close(t, s)
    BY <1>2 DEF InterruptTask
  <2>2. s \in Terminal
    BY DEF Terminal
  <2> QED
    BY <1>2, <2>1, <2>2, CloseStep
<1> QED
  BY <1>1, <1>2

\* A completed task has nothing open beneath it: its children ended, and they
\* stand between it and everything further down.
LEMMA CompleteStep ==
  ASSUME TreeInv, TypeOK', NEW t \in Tasks, FinishCompleted(t)
  PROVE  TreeInv' /\ Forward
<1> DEFINE r == Ended(task[t], "COMPLETED")
<1>1. task \in [Tasks -> Row]
  BY DEF TreeInv, TypeOK
<1>2. task' = [task EXCEPT ![t] = r] /\ task[t].state = "WORKING"
  BY DEF FinishCompleted, MayComplete, LeaseLost
<1>3. r.anc = task[t].anc /\ r.parent = task[t].parent /\ r.state = "COMPLETED"
      /\ r.cancelReq = task[t].cancelReq
  BY <1>1 DEF Ended, Row
<1> HIDE DEF r
<1>4. task'[t] = r /\ \A x \in Tasks \ {t} : task'[x] = task[x]
  BY <1>1, <1>2
<1>5. SameTree
  BY <1>2, <1>3, <1>4 DEF SameTree, Born
<1>6. \A x \in Tasks : task[x].parent = t => IsTerminal(x)
  <2>1. {c \in Children(t) : ~IsTerminal(c)} = {}
    BY DEF FinishCompleted, Awaited
  <2> QED
    BY <2>1 DEF Children
<1>7. \A x \in Tasks : t \in task[x].anc => Quiet(x)
  <2> SUFFICES ASSUME NEW x \in Tasks, t \in task[x].anc
               PROVE  Quiet(x)
    OBVIOUS
  <2>1. PICK c \in task[x].anc \cup {x} : task[c].parent = t
    BY DEF TreeInv, Lineage
  <2>2. c \in Tasks
    BY <1>1 DEF Row
  <2>3. Quiet(c)
    BY <2>1, <2>2, <1>6 DEF Quiet
  <2> QED
    BY <2>1, <2>3 DEF TreeInv, NoOrphanedWork, Quiet
<1>8. \A x \in Tasks : Quiet(x)' <=> (Quiet(x) \/ x = t \/ t \in task[x].anc)
  <2> SUFFICES ASSUME NEW x \in Tasks
               PROVE  Quiet(x)' <=> (Quiet(x) \/ x = t \/ t \in task[x].anc)
    OBVIOUS
  <2>1. CASE x = t
    BY <2>1, <1>3, <1>4 DEF Quiet, IsTerminal, Terminal
  <2>2. CASE x # t
    BY <2>2, <1>4, <1>7 DEF Quiet, IsTerminal
  <2> QED
    BY <2>1, <2>2
<1>9. Frozen
  BY <1>2, <1>4, NotTerminal DEF Frozen, IsTerminal
<1> QED
  BY <1>5, <1>8, <1>9, QuietStep

-----------------------------------------------------------------------------
(* Every action preserves the tree. *)

\* The worker and the scheduler only know tasks that exist.
Known == \A t \in Tasks : exec[t].pc # "idle" \/ t \in scan => Born(t)

LEMMA ClientTree ==
  ASSUME TreeInv, TypeOK', NEW t \in Tasks, ClientStep(t)
  PROVE  TreeInv' /\ Forward
<1>0. task \in [Tasks -> Row]
  BY DEF TreeInv, TypeOK
<1>1. CASE SubmitRoot(t)
  <2>1. PICK c, rec : task' = [task EXCEPT ![t] = NewRow(NoTask, {}, c, rec)]
    BY <1>1 DEF SubmitRoot
  <2> QED
    BY <1>1, <2>1, BirthStep DEF SubmitRoot
<1>2. CASE ContinueTask(t)
  <2> DEFINE r(rec) == [task[t] EXCEPT !.state = "SUBMITTED",
                                       !.phase = Entrance(rec),
                                       !.question = FALSE]
  <2>1. PICK rec \in Receiving : task' = [task EXCEPT ![t] = r(rec)]
    BY <1>2 DEF ContinueTask
  <2>2. r(rec) \in Row
    BY <1>0, <2>1 DEF TypeOK
  <2>3. /\ r(rec).state = "SUBMITTED" /\ r(rec).anc = task[t].anc
        /\ r(rec).parent = task[t].parent /\ r(rec).cancelReq = task[t].cancelReq
    BY <1>0 DEF Row
  <2>4. Born(t) /\ ~IsTerminal(t)
    BY <1>2, NotTerminal DEF ContinueTask, Born, IsTerminal
  <2> HIDE DEF r
  <2> QED
    BY <2>1, <2>2, <2>3, <2>4, NotTerminal, WriteStep
<1>3. CASE CommitTaskCancellation(t)
  <2> DEFINE r == task[t]
             leased == r.state = "WORKING" /\ r.phase = "executing" /\ r.lease # NoLease
             own == IF r.state \in Terminal THEN r
                    ELSE IF leased THEN [r EXCEPT !.cancelReq = TRUE]
                    ELSE [Ended(r, "CANCELED") EXCEPT !.cancelReq = TRUE]
  <2>1. task' = CancelLocalDescendants([task EXCEPT ![t] = own], t) /\ Born(t)
    BY <1>3 DEF CommitTaskCancellation
  <2>2. \A x \in Row : LET e == Ended(x, "CANCELED") IN
          /\ e \in Row /\ e.anc = x.anc /\ e.parent = x.parent /\ e.state = "CANCELED"
    BY EndedType DEF Ended, Row, States, Terminal
  <2>3. \A x \in Row : LET f == [x EXCEPT !.cancelReq = TRUE] IN
          /\ f \in Row /\ f.anc = x.anc /\ f.parent = x.parent /\ f.state = x.state
          /\ f.cancelReq
    BY DEF Row
  <2>4. /\ own \in Row /\ own.anc = r.anc /\ own.parent = r.parent /\ own.state # "NONE"
        /\ own.state \in Terminal \/ own.cancelReq
        /\ IsTerminal(t) => own = task[t]
    BY <1>0, <2>1, <2>2, <2>3 DEF Born, IsTerminal
  <2> HIDE DEF own
  <2> QED
    BY <2>1, <2>4, CascadeStep
<1>4. CASE RetryFiles(t)
  <2>1. PICK ph \in Phases : task' = [task EXCEPT ![t] = [task[t] EXCEPT !.phase = ph]]
    BY <1>4, <1>0 DEF RetryFiles, Phases
  <2> DEFINE r == [task[t] EXCEPT !.phase = ph]
  <2>2. /\ r \in Row /\ r.state = task[t].state /\ r.anc = task[t].anc
        /\ r.parent = task[t].parent /\ r.cancelReq = task[t].cancelReq
    BY <1>0 DEF Row
  <2>3. Born(t)
    BY <1>4 DEF RetryFiles, TreeInv, Lineage, NoRow
  <2>4. ~IsTerminal(t)
    BY <1>4 DEF RetryFiles
  <2>5. task' = [task EXCEPT ![t] = r]
    BY <2>1
  <2> HIDE DEF r
  <2> QED
    BY <2>2, <2>3, <2>4, <2>5, WriteStep DEF Born, IsTerminal
<1>5. ASSUME NEW p \in Tasks, Delegate(p, t) PROVE TreeInv' /\ Forward
  <2>1. PICK c, rec : task' = [task EXCEPT ![t] = NewRow(p, task[p].anc \cup {p}, c, rec)]
    BY <1>5 DEF Delegate
  <2>2. Born(p) /\ ~Quiet(p)
    BY <1>5, NotTerminal DEF Delegate, ParentAdmits, Born, Quiet, IsTerminal
  <2> QED
    BY <1>5, <2>1, <2>2, BirthStep DEF Delegate
<1> QED
  BY <1>1, <1>2, <1>3, <1>4, <1>5 DEF ClientStep

LEMMA ExecutorTree ==
  ASSUME TreeInv, Known, TypeOK', NEW t \in Tasks, ExecutorStep(t)
  PROVE  TreeInv' /\ Forward
<1>0. task \in [Tasks -> Row] /\ task[t] \in Row
  BY DEF TreeInv, TypeOK
<1>1. CASE task' = task
  BY <1>1, NoWriteStep
<1>2. CASE Unavailable(t)
  <2>1. Born(t) /\ task' = InterruptTask(t)
    BY <1>2 DEF Unavailable, Known
  <2> QED
    BY <2>1, InterruptStep
<1>3. CASE ClaimTask(t)
  <2> DEFINE r(token, n) ==
        [task[t] EXCEPT !.state = "WORKING", !.phase = "executing", !.lease = token,
                        !.waitFor = {}, !.question = FALSE, !.resumes = n]
  <2>1. PICK token \in Leases :
          task' = [task EXCEPT
                     ![t].state = "WORKING", ![t].phase = "executing",
                     ![t].lease = token, ![t].waitFor = {}, ![t].question = FALSE,
                     ![t].resumes = IF task[t].phase = "resumable" THEN @ + 1 ELSE @]
    BY <1>3 DEF ClaimTask
  <2>2. PICK n \in Nat : task' = [task EXCEPT ![t] = r(token, n)]
    <3> DEFINE n == IF task[t].phase = "resumable" THEN task[t].resumes + 1 ELSE task[t].resumes
    <3>1. n \in Nat
      BY <1>0 DEF Row
    <3>2. task' = [task EXCEPT ![t] = r(token, n)]
      BY <1>0, <2>1
    <3> QED
      BY <3>1, <3>2
  <2>3. /\ r(token, n) \in Row /\ r(token, n).state = "WORKING"
        /\ r(token, n).anc = task[t].anc /\ r(token, n).parent = task[t].parent
        /\ r(token, n).cancelReq = task[t].cancelReq
    BY <1>0 DEF Row, States, Active, Phases
  <2>4. Born(t) /\ ~IsTerminal(t)
    BY <1>3, NotTerminal DEF ClaimTask, Ready, Born, IsTerminal
  <2> HIDE DEF r
  <2> QED
    BY <2>2, <2>3, <2>4, NotTerminal, WriteStep
<1>4. CASE DeferTaskFileStaging(t) /\ task' # task
  <2> DEFINE r == [task[t] EXCEPT !.phase = "file-staging-failed", !.lease = NoLease]
  <2>1. task' = [task EXCEPT ![t] = r] /\ task[t].state \notin Terminal
        /\ task[t].phase = "executing"
    BY <1>0, <1>4 DEF DeferTaskFileStaging
  <2>2. Born(t)
    BY <2>1 DEF TreeInv, Lineage, NoRow
  <2>3. /\ r \in Row /\ r.state = task[t].state /\ r.anc = task[t].anc
        /\ r.parent = task[t].parent /\ r.cancelReq = task[t].cancelReq
    BY <1>0 DEF Row, Phases
  <2> HIDE DEF r
  <2> QED
    BY <2>1, <2>2, <2>3, WriteStep DEF Born, IsTerminal
<1>5. CASE RequestLocalWait(t) \/ RequestLocalInput(t)
  <2>1. PICK w \in SUBSET Tasks, q \in BOOLEAN :
          task' = [task EXCEPT ![t] = [task[t] EXCEPT !.waitFor = w, !.question = q]]
    <3>1. CASE RequestLocalWait(t)
      <4>1. PICK w \in SUBSET Tasks : task' = [task EXCEPT ![t].waitFor = w]
        BY <3>1 DEF RequestLocalWait, Children
      <4>2. task[t].question \in BOOLEAN
            /\ [task[t] EXCEPT !.waitFor = w]
                 = [task[t] EXCEPT !.waitFor = w, !.question = task[t].question]
        BY <1>0 DEF Row
      <4> QED
        BY <1>0, <4>1, <4>2
    <3>2. CASE RequestLocalInput(t)
      <4>1. task[t].waitFor \in SUBSET Tasks
            /\ [task[t] EXCEPT !.question = TRUE]
                 = [task[t] EXCEPT !.waitFor = task[t].waitFor, !.question = TRUE]
        BY <1>0 DEF Row
      <4> QED
        BY <1>0, <3>2, <4>1 DEF RequestLocalInput
    <3> QED
      BY <1>5, <3>1, <3>2
  <2> DEFINE r == [task[t] EXCEPT !.waitFor = w, !.question = q]
  <2>2. task[t].state = "WORKING"
    BY <1>5 DEF RequestLocalWait, RequestLocalInput, WritableTurn
  <2>3. /\ r \in Row /\ r.state = task[t].state /\ r.anc = task[t].anc
        /\ r.parent = task[t].parent /\ r.cancelReq = task[t].cancelReq
    BY <1>0 DEF Row
  <2>4. task' = [task EXCEPT ![t] = r]
    BY <2>1
  <2> HIDE DEF r
  <2> QED
    BY <2>2, <2>3, <2>4, NotTerminal, WriteStep DEF Born, IsTerminal
<1>6. CASE FinishFailed(t)
  <2>1. PICK s \in {"CANCELED", "FAILED"} : task' = Close(t, s)
    BY <1>6 DEF FinishFailed
  <2>2. s \in Terminal
    BY DEF Terminal
  <2>3. Born(t) /\ ~IsTerminal(t)
    BY <1>6, NotTerminal DEF FinishFailed, LeaseLost, Born, IsTerminal
  <2> QED
    BY <2>1, <2>2, <2>3, CloseStep
<1>7. CASE FinishCompleted(t)
  BY <1>7, CompleteStep
<1>8. CASE FinishWithQuestion(t)
  <2> DEFINE r == [task[t] EXCEPT !.state = "INPUT_REQUIRED", !.phase = "paused",
                                  !.lease = NoLease, !.question = FALSE]
  <2>1. task' = [task EXCEPT ![t] = r] /\ task[t].state = "WORKING"
    BY <1>0, <1>8 DEF FinishWithQuestion, MayComplete, LeaseLost
  <2>2. /\ r \in Row /\ r.state = "INPUT_REQUIRED" /\ r.anc = task[t].anc
        /\ r.parent = task[t].parent /\ r.cancelReq = task[t].cancelReq
    BY <1>0 DEF Row, States, Interrupted, Phases
  <2> HIDE DEF r
  <2> QED
    BY <2>1, <2>2, NotTerminal, WriteStep DEF Born, IsTerminal
<1>9. CASE SuspendLocalTurn(t)
  <2> DEFINE r(ph) == [task[t] EXCEPT !.phase = ph, !.waitFor = Awaited(t), !.lease = NoLease]
  <2>1. PICK ph \in {"resumable", "waiting"} : task' = [task EXCEPT ![t] = r(ph)]
    BY <1>0, <1>9 DEF SuspendLocalTurn
  <2>2. Awaited(t) \in SUBSET Tasks
    BY <1>0 DEF Awaited, Children, Row
  <2>3. /\ r(ph) \in Row /\ r(ph).state = task[t].state /\ r(ph).anc = task[t].anc
        /\ r(ph).parent = task[t].parent /\ r(ph).cancelReq = task[t].cancelReq
    BY <1>0, <2>2 DEF Row, Phases
  <2>4. task[t].state = "WORKING"
    BY <1>9 DEF SuspendLocalTurn, MayComplete, LeaseLost
  <2> HIDE DEF r
  <2> QED
    BY <2>1, <2>3, <2>4, NotTerminal, WriteStep DEF Born, IsTerminal
<1>10. CASE \/ Admit(t) \/ ClaimRefused(t) \/ StartTurn(t) \/ Abort(t)
            \/ ExecutorThrows(t) \/ FinishStale(t)
  BY <1>1, <1>10 DEF Admit, ClaimRefused, StartTurn, Abort, ExecutorThrows, FinishStale
<1> QED
  BY <1>1, <1>2, <1>3, <1>4, <1>5, <1>6, <1>7, <1>8, <1>9, <1>10 DEF ExecutorStep

LEMMA SchedulerTree ==
  ASSUME TreeInv, Known, TypeOK', NEW t \in Tasks, SchedulerStep(t)
  PROVE  TreeInv' /\ Forward
<1>0. task \in [Tasks -> Row] /\ task[t] \in Row
  BY DEF TreeInv, TypeOK
<1>1. CASE task' = task
  BY <1>1, NoWriteStep
<1>2. CASE StopRow(t)
  BY <1>2, InterruptStep DEF StopRow, Known
<1>3. CASE SweepExpired(t)
  <2>1. Born(t)
    BY <1>3 DEF SweepExpired, TreeInv, Lineage, NoRow
  <2> QED
    BY <1>3, <2>1, InterruptStep DEF SweepExpired
<1>4. CASE (ReconcileRow(t) \/ ReceiveFiles(t)) /\ task' # task
  <2>1. PICK ph \in Phases : task' = [task EXCEPT ![t] = [task[t] EXCEPT !.phase = ph]]
    <3>1. CASE ReconcileRow(t)
      BY <1>0, <1>4, <3>1 DEF ReconcileRow, Phases
    <3>2. CASE ReceiveFiles(t)
      <4>1. PICK ok \in BOOLEAN : task' = [task EXCEPT ![t].phase =
                                   IF ok THEN "queued" ELSE "file-transfer-failed"]
        BY <3>2 DEF ReceiveFiles
      <4>2. CASE ok
        BY <1>0, <4>1, <4>2 DEF Phases
      <4>3. CASE ~ok
        BY <1>0, <4>1, <4>3 DEF Phases
      <4> QED
        BY <4>2, <4>3
    <3> QED
      BY <1>4, <3>1, <3>2
  <2> DEFINE r == [task[t] EXCEPT !.phase = ph]
  <2>2. task[t].state \in {"WORKING", "SUBMITTED"}
    BY <1>4 DEF ReconcileRow, ReceiveFiles
  <2>3. /\ r \in Row /\ r.state = task[t].state /\ r.anc = task[t].anc
        /\ r.parent = task[t].parent /\ r.cancelReq = task[t].cancelReq
    BY <1>0 DEF Row
  <2>4. task' = [task EXCEPT ![t] = r]
    BY <2>1
  <2> HIDE DEF r
  <2> QED
    BY <2>2, <2>3, <2>4, NotTerminal, WriteStep DEF Born, IsTerminal
<1>5. CASE Expire(t)
  <2> DEFINE r == [task[t] EXCEPT !.expired = TRUE]
  <2>1. task' = [task EXCEPT ![t] = r] /\ Born(t) /\ ~IsTerminal(t)
    BY <1>0, <1>5 DEF Expire
  <2>2. /\ r \in Row /\ r.state = task[t].state /\ r.anc = task[t].anc
        /\ r.parent = task[t].parent /\ r.cancelReq = task[t].cancelReq
    BY <1>0 DEF Row
  <2> HIDE DEF r
  <2> QED
    BY <2>1, <2>2, WriteStep DEF Born, IsTerminal
<1> QED
  BY <1>1, <1>2, <1>3, <1>4, <1>5 DEF SchedulerStep

LEMMA ProcessTree ==
  ASSUME TreeInv, TypeOK', ProcessStep
  PROVE  TreeInv' /\ Forward
<1>1. CASE task' = task
  BY <1>1, NoWriteStep
<1>2. ASSUME NEW t \in Tasks, RecoverTask(t) PROVE TreeInv' /\ Forward
  BY <1>2, InterruptStep DEF RecoverTask, Born
<1> QED
  BY <1>1, <1>2 DEF ProcessStep, ScanWaits, StopAgentWorker, Crash, Restart, StartAgentWorker

LEMMA KnownKept ==
  ASSUME TypeOK, Known, Forward, Next
  PROVE  Known'
<1>0. exec \in [Tasks -> Executors]
  BY DEF TypeOK
<1>1. ASSUME NEW t \in Tasks, ClientStep(t) PROVE Known'
  BY <1>1 DEF ClientStep, SubmitRoot, Delegate, ContinueTask, CommitTaskCancellation,
              RetryFiles, Known, Forward
<1>2. ASSUME NEW t \in Tasks, ExecutorStep(t) PROVE Known'
  <2>1. Idle.pc = "idle"
    BY DEF Idle
  <2>2. scan' = scan
    BY <1>2 DEF ExecutorStep, Admit, Unavailable, ClaimTask, ClaimRefused, StartTurn,
         DeferTaskFileStaging, Abort, ExecutorThrows, RequestLocalWait, RequestLocalInput,
         FinishStale, FinishFailed, FinishCompleted, FinishWithQuestion, SuspendLocalTurn
  <2>3. exec[t].pc # "idle" \/ Born(t) \/ exec' = exec
    BY <1>2 DEF ExecutorStep, Admit, Unavailable, ClaimTask, ClaimRefused, StartTurn,
         DeferTaskFileStaging, Abort, ExecutorThrows, RequestLocalWait, RequestLocalInput,
         FinishStale, FinishFailed, FinishCompleted, FinishWithQuestion, SuspendLocalTurn,
         Ready, MayComplete, Born
  <2>4. \A x \in Tasks \ {t} : exec'[x] = exec[x]
    BY <1>0, <1>2 DEF ExecutorStep, Admit, Unavailable, ClaimTask, ClaimRefused, StartTurn,
         DeferTaskFileStaging, Abort, ExecutorThrows, RequestLocalWait, RequestLocalInput,
         FinishStale, FinishFailed, FinishCompleted, FinishWithQuestion, SuspendLocalTurn
  <2> QED
    BY <2>2, <2>3, <2>4 DEF Known, Forward
<1>3. ASSUME NEW t \in Tasks, SchedulerStep(t) PROVE Known'
  BY <1>3 DEF SchedulerStep, ReconcileRow, StopRow, SweepExpired, ReceiveFiles, Expire,
              Known, Forward
<1>4. CASE ProcessStep
  <2>1. CASE ScanWaits
    BY <2>1 DEF ScanWaits, Known, Born
  <2>2. CASE StopAgentWorker
    <3>1. \A x \in Tasks : exec'[x].pc = exec[x].pc
      BY <1>0, <2>2 DEF StopAgentWorker, Executors
    <3> QED
      BY <2>2, <3>1 DEF StopAgentWorker, Known, Forward
  <2>3. CASE Crash
    BY <2>3 DEF Crash, Known, Idle
  <2>4. CASE Restart \/ StartAgentWorker \/ \E t \in Tasks : RecoverTask(t)
    BY <2>4 DEF Restart, StartAgentWorker, RecoverTask, Known, Forward
  <2> QED
    BY <1>4, <2>1, <2>2, <2>3, <2>4 DEF ProcessStep
<1> QED
  BY <1>1, <1>2, <1>3, <1>4 DEF Next

LEMMA TreeInit == Init => TreeInv /\ Known
<1> SUFFICES ASSUME Init PROVE TreeInv /\ Known
  OBVIOUS
<1>1. \A t \in Tasks : task[t] = NoRow /\ task[t].anc = {} /\ exec[t].pc = "idle"
  BY DEF Init, NoRow, Idle
<1> QED
  BY <1>1, InitType DEF Init, TreeInv, Lineage, NoOrphanedWork, Known

LEMMA TreeNext == TreeInv /\ Known /\ [Next]_vars => TreeInv' /\ Known' /\ Frozen
<1> SUFFICES ASSUME TreeInv, Known, [Next]_vars PROVE TreeInv' /\ Known' /\ Frozen
  OBVIOUS
<1>1. TypeOK'
  BY NextType DEF TreeInv
<1>2. CASE UNCHANGED vars
  BY <1>1, <1>2, NoWriteStep DEF vars, Known, Born, Forward
<1>3. CASE Next
  <2>1. TreeInv' /\ Forward
    BY <1>1, <1>3, ClientTree, ExecutorTree, SchedulerTree, ProcessTree DEF Next
  <2> QED
    BY <1>3, <2>1, KnownKept DEF TreeInv, Forward
<1> QED
  BY <1>2, <1>3

\* However deep the delegation and however many tasks, restarts and leases:
\* when a task has ended or was asked to stop, so has everything below it
\* (cancelLocalDescendants, finishTask, interruptTask in a2a/store.ts).
THEOREM NothingOrphaned == Spec => []NoOrphanedWork
<1>1. TreeInv => NoOrphanedWork
  BY DEF TreeInv
<1> QED
  BY <1>1, TreeInit, TreeNext, PTL DEF Spec

\* A late finish, a stale scan, an expired sweep or a recovery never rewrites a
\* task that has ended (the terminal checks of a2a/store.ts).
THEOREM NothingRewritten == Spec => TerminalFrozen
<1>1. TreeInv /\ Known /\ [Next]_vars => [\A t \in Tasks : IsTerminal(t) => task'[t] = task[t]]_vars
  BY TreeNext DEF Frozen
<1> QED
  BY <1>1, TreeInit, TreeNext, PTL DEF Spec, TerminalFrozen

=============================================================================
