---------------------------- MODULE A2ATasks_turns ----------------------------
(***************************************************************************)
(* More proofs about A2ATasks: who works in a context and in its session,  *)
(* what a task has joined when it completes or resumes, and that the store *)
(* implements TaskTree.                                                    *)
(***************************************************************************)
EXTENDS A2ATasks_proofs

USE ConstantsOK DEF ConstantsOK

-----------------------------------------------------------------------------
(* What the columns of one row say about each other *)

Queueing == {"queued", "file-receiving", "file-transfer-failed"}

Suspended == {"waiting", "resumable"}

Parked == {"file-staging-failed", "file-stage-ready"}

\* The phase determines the state; an execution has a lease, a suspended turn
\* something to wait for, and only an executing turn can be asked to stop
\* without being stopped.
RowFits(r) ==
  /\ r.phase = "none" => r.state = "NONE"
  /\ r.phase \in Queueing => r.state = "SUBMITTED"
  /\ r.phase \in {"executing"} \cup Suspended \cup Parked => r.state = "WORKING"
  /\ r.phase = "paused" => r.state = "INPUT_REQUIRED"
  /\ r.phase = "done" => r.state \in Terminal
  /\ r.phase = "executing" => r.lease # NoLease
  /\ r.phase \in Suspended => r.waitFor # {}
  /\ r.cancelReq => r.phase \in {"executing", "done"}

RowsFit == \A t \in Tasks : RowFits(task[t])

\* A turn waits for its own children, and no task is its own ancestor.
Waits == \A p \in Tasks : task[p].waitFor \subseteq Children(p)

Rooted == \A t \in Tasks : t \notin task[t].anc

\* Every executor that was admitted has the session of its context for itself,
\* before its claim too.
Sessions ==
  \A s, t \in Tasks :
    s # t /\ exec[s].pc # "idle" /\ exec[t].pc # "idle" => task[s].ctx # task[t].ctx

\* What the kinds of steps below are derived from.
Sound == TreeInv /\ Known /\ RowsFit

-----------------------------------------------------------------------------
(* The kinds of steps, by what they do to the rows *)

Only(t) == \A x \in Tasks \ {t} : task'[x] = task[x]

Keeps(x) ==
  /\ task'[x].parent = task[x].parent
  /\ task'[x].anc = task[x].anc
  /\ task'[x].ctx = task[x].ctx

\* t is submitted, in a free context, as a root or beneath a turn that speaks.
Opens(t) ==
  /\ ~Born(t) /\ Only(t)
  /\ task'[t].state = "SUBMITTED" /\ ~task'[t].cancelReq /\ task'[t].waitFor = {}
  /\ RowFits(task'[t])
  /\ ContextFree(task'[t].ctx)
  /\ \/ task'[t].parent = NoTask /\ task'[t].anc = {}
     \/ \E p \in Tasks : /\ ParentAdmits(p)
                         /\ task'[t].parent = p /\ task'[t].anc = task[p].anc \cup {p}

\* t goes on, without ending and without being asked to.
Moves(t) ==
  /\ Born(t) /\ ~IsTerminal(t) /\ Only(t) /\ Keeps(t)
  /\ RowFits(task'[t])
  /\ task'[t].cancelReq = task[t].cancelReq
  /\ task'[t].state \notin Terminal
  /\ task'[t].state # task[t].state =>
       /\ ~task[t].cancelReq
       /\ CanTransition(task[t].state, task'[t].state)
  /\ task'[t].state \in Active => task[t].state \in Active \/ ContextFree(task[t].ctx)
  /\ task[t].state \in Settled /\ task[t].parent # NoTask =>
       task'[t].state \in Settled \/ ParentAdmits(task[t].parent)
  /\ task'[t].waitFor \subseteq task[t].waitFor \cup Children(t)
  /\ task'[t].phase = "resumable" =>
       \/ task[t].phase = "resumable" /\ task'[t].waitFor = task[t].waitFor
       \/ \A c \in task'[t].waitFor : task[c].state \in Settled

\* t ends well, its children having ended.
Completes(t) ==
  /\ task[t].state = "WORKING" /\ ~task[t].cancelReq /\ Only(t) /\ Keeps(t)
  /\ task'[t].state = "COMPLETED" /\ task'[t].phase = "done"
  /\ task'[t].waitFor = {}
  /\ \A c \in Children(t) : IsTerminal(c)

\* x is ended with s, or goes on executing with the request to stop.
Stops(x, s) ==
  /\ Born(x) /\ ~IsTerminal(x) /\ Keeps(x)
  /\ \/ task'[x].state = s /\ task'[x].phase = "done" /\ task'[x].waitFor = {}
     \/ /\ task'[x].cancelReq /\ task'[x].state = task[x].state
        /\ task[x].phase = "executing" /\ task'[x].phase = "executing"
        /\ task'[x].lease = task[x].lease
        /\ task'[x].waitFor = task[x].waitFor

\* t is stopped, and everything below it that was working freely.
Halts(t) ==
  /\ \E s \in {"FAILED", "CANCELED"} : Stops(t, s)
  /\ \A x \in Tasks \ {t} :
       IF t \in task[x].anc /\ ~Quiet(x) THEN Stops(x, "CANCELED")
       ELSE task'[x] = task[x]

Kind ==
  \/ task' = task
  \/ \E t \in Tasks : Opens(t) \/ Moves(t) \/ Completes(t) \/ Halts(t)

LEMMA OneRow ==
  ASSUME task \in [Tasks -> Row], NEW t \in Tasks, NEW r, task' = [task EXCEPT ![t] = r]
  PROVE  task'[t] = r /\ Only(t)
BY DEF Only

\* What ended, or is executing with the request to stop, is left alone.
LEMMA QuietRow ==
  ASSUME NEW r \in Row, RowFits(r), r.state \in Terminal \/ r.cancelReq
  PROVE  Stopped(r) = r
<1>1. CASE r.state \in Terminal
  BY <1>1 DEF Stopped
<1>2. CASE r.state \notin Terminal /\ r.cancelReq
  <2>1. r.phase = "executing" /\ r.lease # NoLease /\ r.state = "WORKING"
    BY <1>2 DEF RowFits
  <2>2. [r EXCEPT !.cancelReq = TRUE] = r
    BY <1>2 DEF Row
  <2> QED
    BY <2>1, <2>2, NotTerminal DEF Stopped
<1> QED
  BY <1>1, <1>2

\* The cascade from a living task whose own row ended or was asked to stop.
LEMMA CascadeHalts ==
  ASSUME Sound, NEW t \in Tasks, Born(t), ~IsTerminal(t), Rooted, NEW own \in Row,
         own.anc = task[t].anc, own.parent = task[t].parent, own.ctx = task[t].ctx,
         \/ /\ own.state \in {"FAILED", "CANCELED"} /\ own.phase = "done"
            /\ own.waitFor = {}
         \/ /\ own.cancelReq /\ own.state = task[t].state
            /\ own.phase = "executing" /\ task[t].phase = "executing"
            /\ own.lease = task[t].lease
            /\ own.waitFor = task[t].waitFor,
         task' = CancelLocalDescendants([task EXCEPT ![t] = own], t)
  PROVE  Halts(t)
<1> DEFINE rows == [task EXCEPT ![t] = own]
<1>1. task \in [Tasks -> Row]
  BY DEF Sound, TreeInv, TypeOK
<1>2. rows[t] = own /\ \A x \in Tasks \ {t} : rows[x] = task[x]
  BY <1>1
<1>3. \A x \in Tasks : task'[x] = IF t \in rows[x].anc THEN Stopped(rows[x]) ELSE rows[x]
  BY DEF CancelLocalDescendants
<1> HIDE DEF rows
<1>4. task'[t] = own
  BY <1>2, <1>3 DEF Rooted
<1>5. PICK s \in {"FAILED", "CANCELED"} : Stops(t, s)
  BY <1>4 DEF Stops, Keeps
<1>6. ASSUME NEW x \in Tasks \ {t}
      PROVE  IF t \in task[x].anc /\ ~Quiet(x) THEN Stops(x, "CANCELED")
             ELSE task'[x] = task[x]
  <2> DEFINE r == task[x]
  <2>1. r \in Row /\ RowFits(r)
    BY <1>1 DEF Sound, RowsFit
  <2>2. task'[x] = IF t \in r.anc THEN Stopped(r) ELSE r
    BY <1>2, <1>3
  <2>3. CASE t \notin r.anc \/ Quiet(x)
    BY <2>1, <2>2, <2>3, QuietRow DEF Quiet, IsTerminal
  <2>4. CASE t \in r.anc /\ ~Quiet(x)
    <3>1. Born(x)
      BY <2>4 DEF Sound, TreeInv, Lineage, NoRow
    <3> DEFINE e == Ended(r, "CANCELED")
    <3>2. /\ e \in Row /\ e.anc = r.anc /\ e.parent = r.parent /\ e.ctx = r.ctx
          /\ e.state = "CANCELED" /\ e.phase = "done" /\ e.waitFor = {}
      <4>1. e \in Row
        BY <2>1, EndedType DEF States, Terminal
      <4>2. e.anc = r.anc /\ e.parent = r.parent /\ e.ctx = r.ctx
        BY <2>1 DEF Ended, Row
      <4>3. e.state = "CANCELED" /\ e.phase = "done" /\ e.waitFor = {}
        BY <2>1 DEF Ended, Row
      <4> QED BY <4>1, <4>2, <4>3
    <3>3. CASE r.phase = "executing" /\ r.lease # NoLease
      <4>1. task'[x] = [r EXCEPT !.cancelReq = TRUE]
        BY <2>2, <2>4, <3>1, <3>3 DEF Stopped, Born, Quiet, IsTerminal
      <4> QED
        BY <2>1, <2>4, <3>1, <3>3, <4>1 DEF Stops, Keeps, Row, Quiet
    <3>4. CASE ~(r.phase = "executing" /\ r.lease # NoLease)
      <4>1. task'[x] = [e EXCEPT !.cancelReq = TRUE]
        BY <2>2, <2>4, <3>1, <3>4 DEF Stopped, Born, Quiet, IsTerminal
      <4> HIDE DEF e
      <4>2. /\ task'[x].anc = e.anc /\ task'[x].parent = e.parent /\ task'[x].ctx = e.ctx
            /\ task'[x].state = e.state /\ task'[x].phase = e.phase
            /\ task'[x].waitFor = e.waitFor
        BY <3>2, <4>1 DEF Row
      <4> QED
        BY <2>4, <3>1, <3>2, <4>2 DEF Stops, Keeps, Quiet
    <3> QED
      BY <3>3, <3>4
  <2> QED
    BY <2>3, <2>4
<1> QED
  BY <1>5, <1>6 DEF Halts

LEMMA CloseHalts ==
  ASSUME Sound, Rooted, NEW t \in Tasks, Born(t), ~IsTerminal(t),
         NEW s \in {"FAILED", "CANCELED"}, task' = Close(t, s)
  PROVE  Halts(t)
<1> DEFINE own == Ended(task[t], s)
<1>1. task[t] \in Row /\ s \in States
  BY DEF Sound, TreeInv, TypeOK, States, Terminal
<1>2. /\ own \in Row /\ own.anc = task[t].anc /\ own.parent = task[t].parent
      /\ own.ctx = task[t].ctx /\ own.state = s /\ own.phase = "done" /\ own.waitFor = {}
  BY <1>1, EndedType DEF Ended, Row
<1>3. task' = CancelLocalDescendants([task EXCEPT ![t] = own], t)
  BY DEF Close
<1> HIDE DEF own
<1> QED
  BY <1>2, <1>3, CascadeHalts

LEMMA InterruptHalts ==
  ASSUME Sound, Rooted, NEW t \in Tasks, Born(t), task' = InterruptTask(t)
  PROVE  Kind
<1>1. CASE IsTerminal(t)
  BY <1>1 DEF InterruptTask, Kind
<1>2. CASE ~IsTerminal(t)
  <2>1. PICK s \in {"FAILED", "CANCELED"} : task' = Close(t, s)
    BY <1>2 DEF InterruptTask
  <2> QED
    BY <1>2, <2>1, CloseHalts DEF Kind
<1> QED
  BY <1>1, <1>2

-----------------------------------------------------------------------------
(* Every action is of one kind. *)

LEMMA ClientKind ==
  ASSUME Sound, Rooted, NEW t \in Tasks, ClientStep(t)
  PROVE  Kind
<1>0. task \in [Tasks -> Row] /\ task[t] \in Row /\ RowFits(task[t])
  BY DEF Sound, TreeInv, TypeOK, RowsFit
<1>1. ASSUME NEW p, NEW A, NEW c, NEW rec \in BOOLEAN,
             task' = [task EXCEPT ![t] = NewRow(p, A, c, rec)]
      PROVE  /\ Only(t) /\ RowFits(task'[t])
             /\ task'[t].state = "SUBMITTED" /\ ~task'[t].cancelReq /\ task'[t].waitFor = {}
             /\ task'[t].parent = p /\ task'[t].anc = A /\ task'[t].ctx = c
  <2> DEFINE n == NewRow(p, A, c, rec)
  <2>1. /\ n.state = "SUBMITTED" /\ ~n.cancelReq /\ n.waitFor = {} /\ n.parent = p
        /\ n.anc = A /\ n.ctx = c /\ n.phase \in {"queued", "file-receiving"}
    BY DEF NewRow, NoRow, Entrance
  <2> HIDE DEF n
  <2>2. task'[t] = n /\ Only(t)
    BY <1>0, <1>1, OneRow DEF n
  <2> QED
    BY <2>1, <2>2 DEF RowFits, Queueing, Suspended, Parked
<1>2. CASE SubmitRoot(t)
  <2>1. PICK c \in {t} \cup {task[s].ctx : s \in Children(NoTask) \ {t}}, rec \in Receiving :
          ContextFree(c) /\ task' = [task EXCEPT ![t] = NewRow(NoTask, {}, c, rec)]
    BY <1>2 DEF SubmitRoot
  <2>2. /\ Only(t) /\ RowFits(task'[t])
        /\ task'[t].state = "SUBMITTED" /\ ~task'[t].cancelReq /\ task'[t].waitFor = {}
        /\ task'[t].parent = NoTask /\ task'[t].anc = {} /\ task'[t].ctx = c
    BY <1>1, <2>1
  <2>3. Opens(t)
    BY <1>2, <2>1, <2>2 DEF SubmitRoot, Opens
  <2> QED
    BY <2>3 DEF Kind
<1>3. ASSUME NEW p \in Tasks, Delegate(p, t) PROVE Kind
  <2>1. PICK c \in {t} \cup {task[s].ctx : s \in Children(p)}, rec \in Receiving :
          ContextFree(c)
          /\ task' = [task EXCEPT ![t] = NewRow(p, task[p].anc \cup {p}, c, rec)]
    BY <1>3 DEF Delegate
  <2>2. /\ Only(t) /\ RowFits(task'[t])
        /\ task'[t].state = "SUBMITTED" /\ ~task'[t].cancelReq /\ task'[t].waitFor = {}
        /\ task'[t].parent = p /\ task'[t].anc = task[p].anc \cup {p} /\ task'[t].ctx = c
    BY <1>1, <2>1
  <2>3. Opens(t)
    BY <1>3, <2>1, <2>2 DEF Delegate, Opens
  <2> QED
    BY <2>3 DEF Kind
<1>4. CASE ContinueTask(t)
  <2> DEFINE r(rec) == [task[t] EXCEPT !.state = "SUBMITTED", !.phase = Entrance(rec),
                                       !.question = FALSE]
  <2>1. PICK rec \in Receiving : task' = [task EXCEPT ![t] = r(rec)]
    BY <1>0, <1>4 DEF ContinueTask
  <2>2. /\ r(rec).state = "SUBMITTED" /\ r(rec).phase \in {"queued", "file-receiving"}
        /\ r(rec).anc = task[t].anc /\ r(rec).parent = task[t].parent
        /\ r(rec).ctx = task[t].ctx /\ r(rec).cancelReq = task[t].cancelReq
        /\ r(rec).waitFor = task[t].waitFor
    BY <1>0 DEF Row, Entrance
  <2> HIDE DEF r
  <2>3. task'[t] = r(rec) /\ Only(t)
    BY <1>0, <2>1, OneRow
  <2>4. /\ task[t].state = "INPUT_REQUIRED" /\ ~task[t].cancelReq
        /\ task[t].parent # NoTask => ParentAdmits(task[t].parent)
        /\ ContextFree(task[t].ctx)
    BY <1>4 DEF ContinueTask
  <2>5. Born(t) /\ ~IsTerminal(t) /\ CanTransition("INPUT_REQUIRED", "SUBMITTED")
    BY <2>4, NotTerminal DEF Born, IsTerminal, CanTransition, Interrupted
  <2>6. RowFits(task'[t]) /\ Keeps(t)
    BY <2>2, <2>3, <2>4 DEF RowFits, Queueing, Suspended, Parked, Keeps
  <2>7. Moves(t)
    BY <2>2, <2>3, <2>4, <2>5, <2>6, NotTerminal DEF Moves
  <2> QED
    BY <2>7 DEF Kind
<1>5. CASE CommitTaskCancellation(t)
  <2> DEFINE r == task[t]
             leased == r.state = "WORKING" /\ r.phase = "executing" /\ r.lease # NoLease
             own == IF r.state \in Terminal THEN r
                    ELSE IF leased THEN [r EXCEPT !.cancelReq = TRUE]
                    ELSE [Ended(r, "CANCELED") EXCEPT !.cancelReq = TRUE]
  <2>1. task' = CancelLocalDescendants([task EXCEPT ![t] = own], t) /\ Born(t)
    BY <1>5 DEF CommitTaskCancellation
  <2>2. CASE IsTerminal(t)
    <3>1. own = task[t] /\ [task EXCEPT ![t] = own] = task
      BY <1>0, <2>2 DEF IsTerminal
    <3>2. ASSUME NEW x \in Tasks, t \in task[x].anc
          PROVE  Stopped(task[x]) = task[x]
      <4>1. task[x] \in Row /\ RowFits(task[x])
        BY <1>0 DEF Sound, RowsFit
      <4>2. IsTerminal(x) \/ task[x].cancelReq
        BY <2>2, <3>2 DEF Sound, TreeInv, NoOrphanedWork
      <4> QED
        BY <4>1, <4>2, QuietRow DEF IsTerminal
    <3>3. task' = [x \in Tasks |-> IF t \in task[x].anc THEN Stopped(task[x]) ELSE task[x]]
      <4> HIDE DEF own
      <4>1. task' = CancelLocalDescendants(task, t)
        BY <2>1, <3>1
      <4> QED
        BY <4>1 DEF CancelLocalDescendants
    <3>4. \A x \in Tasks : task'[x] = task[x]
      BY <3>2, <3>3
    <3> QED
      BY <1>0, <3>3, <3>4 DEF Kind
  <2>3. CASE ~IsTerminal(t)
    <3> DEFINE e == Ended(r, "CANCELED")
    <3>1. /\ e \in Row /\ e.anc = r.anc /\ e.parent = r.parent /\ e.ctx = r.ctx
          /\ e.state = "CANCELED" /\ e.phase = "done" /\ e.waitFor = {}
      BY <1>0, EndedType DEF Ended, Row, States, Terminal
    <3>2. CASE leased
      <4>1. own = [r EXCEPT !.cancelReq = TRUE]
        BY <2>3, <3>2 DEF IsTerminal
      <4>2. /\ own \in Row /\ own.anc = r.anc /\ own.parent = r.parent /\ own.ctx = r.ctx
            /\ own.cancelReq /\ own.state = r.state /\ own.phase = r.phase
            /\ own.lease = r.lease /\ own.waitFor = r.waitFor /\ r.phase = "executing"
        BY <1>0, <3>2, <4>1 DEF Row
      <4> HIDE DEF own
      <4> QED
        BY <2>1, <2>3, <4>2, CascadeHalts DEF Kind
    <3>3. CASE ~leased
      <4>1. own = [e EXCEPT !.cancelReq = TRUE]
        BY <2>3, <3>3 DEF IsTerminal
      <4> HIDE DEF e
      <4>2. /\ own \in Row /\ own.anc = r.anc /\ own.parent = r.parent /\ own.ctx = r.ctx
            /\ own.state = "CANCELED" /\ own.phase = "done" /\ own.waitFor = {}
        BY <3>1, <4>1 DEF Row
      <4> HIDE DEF own
      <4> QED
        BY <2>1, <2>3, <4>2, CascadeHalts DEF Kind
    <3> QED
      BY <3>2, <3>3
  <2> QED
    BY <2>2, <2>3
<1>6. CASE RetryFiles(t)
  <2> DEFINE r(ph) == [task[t] EXCEPT !.phase = ph]
  <2>1. PICK ph \in {"file-stage-ready", "file-receiving"} :
          /\ task' = [task EXCEPT ![t] = r(ph)]
          /\ ph = "file-stage-ready" => task[t].phase = "file-staging-failed"
          /\ ph = "file-receiving" => task[t].phase = "file-transfer-failed"
    BY <1>0, <1>6 DEF RetryFiles
  <2>2. /\ r(ph).state = task[t].state /\ r(ph).phase = ph
        /\ r(ph).anc = task[t].anc /\ r(ph).parent = task[t].parent
        /\ r(ph).ctx = task[t].ctx /\ r(ph).cancelReq = task[t].cancelReq
        /\ r(ph).waitFor = task[t].waitFor
    BY <1>0 DEF Row
  <2> HIDE DEF r
  <2>3. task'[t] = r(ph) /\ Only(t)
    BY <1>0, <2>1, OneRow
  <2>4. task[t].state \in Active /\ ~task[t].cancelReq
    BY <1>0, <1>6, <2>1 DEF RetryFiles, RowFits, Queueing, Parked, Active
  <2>5. RowFits(task'[t]) /\ Keeps(t)
    BY <1>0, <2>1, <2>2, <2>3, <2>4 DEF RowFits, Queueing, Suspended, Parked, Keeps
  <2>6. Moves(t)
    BY <1>0, <2>1, <2>2, <2>3, <2>4, <2>5 DEF Moves, Born, IsTerminal, Active, Terminal,
                                            Settled, Interrupted
  <2> QED
    BY <2>6 DEF Kind
<1> QED
  BY <1>2, <1>3, <1>4, <1>5, <1>6 DEF ClientStep

\* A living row goes on with other columns but the same place in the tree.
LEMMA RowMoves ==
  ASSUME Sound, NEW t \in Tasks, Born(t), ~IsTerminal(t), NEW r,
         task' = [task EXCEPT ![t] = r], RowFits(r),
         r.anc = task[t].anc, r.parent = task[t].parent, r.ctx = task[t].ctx,
         r.cancelReq = task[t].cancelReq,
         \/ r.state = task[t].state
         \/ /\ ~task[t].cancelReq /\ r.state \notin Terminal /\ task[t].state \in Active
            /\ CanTransition(task[t].state, r.state),
         r.waitFor \subseteq task[t].waitFor \cup Children(t),
         r.phase = "resumable" =>
            \/ task[t].phase = "resumable" /\ r.waitFor = task[t].waitFor
            \/ \A c \in r.waitFor : task[c].state \in Settled
  PROVE  Moves(t)
<1>1. task'[t] = r /\ Only(t)
  BY OneRow DEF Sound, TreeInv, TypeOK
<1>2. task[t].state \in Active => task[t].state \notin Settled
  BY DEF Active, Settled, Terminal, Interrupted
<1> QED
  BY <1>1, <1>2 DEF Moves, Keeps, IsTerminal

\* A row whose phase alone changes, between phases of the same state.
LEMMA PhaseMoves ==
  ASSUME Sound, NEW t \in Tasks, NEW ph \in Phases,
         ~task[t].cancelReq \/ task[t].phase # "executing",
         task' = [task EXCEPT ![t] = [task[t] EXCEPT !.phase = ph]],
         \/ task[t].state = "SUBMITTED" /\ ph \in Queueing
         \/ task[t].state = "WORKING" /\ ph \in Parked
         \/ /\ task[t].state = "WORKING" /\ task[t].waitFor # {} /\ ph = "resumable"
            /\ \A c \in task[t].waitFor : task[c].state \in Settled
  PROVE  Moves(t)
<1> DEFINE r == [task[t] EXCEPT !.phase = ph]
<1>1. task[t] \in Row /\ RowFits(task[t])
  BY DEF Sound, TreeInv, TypeOK, RowsFit
<1>2. /\ r.state = task[t].state /\ r.phase = ph /\ r.lease = task[t].lease
      /\ r.anc = task[t].anc /\ r.parent = task[t].parent
      /\ r.ctx = task[t].ctx /\ r.cancelReq = task[t].cancelReq
      /\ r.waitFor = task[t].waitFor
  BY <1>1 DEF Row
<1>3. task' = [task EXCEPT ![t] = r]
  OBVIOUS
<1> HIDE DEF r
<1>4. ~task[t].cancelReq /\ Born(t) /\ ~IsTerminal(t)
  BY <1>1 DEF RowFits, Born, IsTerminal, Terminal
<1>5. RowFits(r)
  BY <1>2, <1>4 DEF RowFits, Queueing, Suspended, Parked
<1> QED
  BY <1>2, <1>3, <1>4, <1>5, RowMoves DEF Queueing, Parked

LEMMA ExecutorKind ==
  ASSUME Sound, Rooted, NEW t \in Tasks, ExecutorStep(t)
  PROVE  Kind
<1>0. task \in [Tasks -> Row] /\ task[t] \in Row /\ RowFits(task[t])
  BY DEF Sound, TreeInv, TypeOK, RowsFit
<1>1. CASE task' = task
  BY <1>1 DEF Kind
<1>2. CASE Unavailable(t)
  <2>1. Born(t) /\ task' = InterruptTask(t)
    BY <1>2 DEF Unavailable, Sound, Known
  <2> QED
    BY <2>1, InterruptHalts
<1>3. CASE ClaimTask(t)
  <2> DEFINE r(token, n) ==
        [task[t] EXCEPT !.state = "WORKING", !.phase = "executing", !.lease = token,
                        !.waitFor = {}, !.question = FALSE, !.resumes = n]
  <2>1. PICK token \in Leases :
          task' = [task EXCEPT
                     ![t].state = "WORKING", ![t].phase = "executing",
                     ![t].lease = token, ![t].waitFor = {}, ![t].question = FALSE,
                     ![t].resumes = IF task[t].phase = "resumable" THEN @ + 1 ELSE @]
    BY <1>3 DEF ClaimTask
  <2>2. PICK n : task' = [task EXCEPT ![t] = r(token, n)]
    <3> DEFINE n == IF task[t].phase = "resumable" THEN task[t].resumes + 1 ELSE task[t].resumes
    <3>1. task' = [task EXCEPT ![t] = r(token, n)]
      BY <1>0, <2>1
    <3> QED
      BY <3>1
  <2>3. /\ r(token, n).state = "WORKING" /\ r(token, n).phase = "executing"
        /\ r(token, n).lease # NoLease /\ r(token, n).waitFor = {}
        /\ r(token, n).anc = task[t].anc /\ r(token, n).parent = task[t].parent
        /\ r(token, n).ctx = task[t].ctx /\ r(token, n).cancelReq = task[t].cancelReq
    BY <1>0 DEF Row
  <2>4. task[t].state \in Active /\ ~task[t].cancelReq
    BY <1>3 DEF ClaimTask, Ready, Active
  <2>5. Born(t) /\ ~IsTerminal(t)
    BY <2>4 DEF Born, IsTerminal, Active, Terminal
  <2>6. task[t].state = "WORKING" \/ CanTransition(task[t].state, "WORKING")
    BY <2>4 DEF Active, CanTransition
  <2> HIDE DEF r
  <2>7. RowFits(r(token, n))
    BY <2>3, <2>4 DEF RowFits, Queueing, Suspended, Parked
  <2>8. Moves(t)
    BY <2>2, <2>3, <2>4, <2>5, <2>6, <2>7, NotTerminal, RowMoves
  <2> QED
    BY <2>8 DEF Kind
<1>4. CASE DeferTaskFileStaging(t) /\ task' # task
  <2> DEFINE r == [task[t] EXCEPT !.phase = "file-staging-failed", !.lease = NoLease]
  <2>1. task' = [task EXCEPT ![t] = r] /\ ~task[t].cancelReq /\ task[t].phase = "executing"
    BY <1>0, <1>4 DEF DeferTaskFileStaging
  <2>2. /\ r.state = task[t].state /\ r.phase = "file-staging-failed"
        /\ r.anc = task[t].anc /\ r.parent = task[t].parent
        /\ r.ctx = task[t].ctx /\ r.cancelReq = task[t].cancelReq
        /\ r.waitFor = task[t].waitFor
    BY <1>0 DEF Row
  <2> HIDE DEF r
  <2>3. task[t].state = "WORKING"
    BY <1>0, <2>1 DEF RowFits
  <2>4. RowFits(r) /\ Born(t) /\ ~IsTerminal(t)
    BY <2>1, <2>2, <2>3, NotTerminal DEF RowFits, Queueing, Suspended, Parked, Born, IsTerminal
  <2>5. Moves(t)
    BY <2>1, <2>2, <2>4, RowMoves
  <2> QED
    BY <2>5 DEF Kind
<1>5. CASE RequestLocalWait(t)
  <2> DEFINE r(ids) == [task[t] EXCEPT !.waitFor = ids]
  <2>1. PICK ids \in SUBSET Children(t) \ {{}} : task' = [task EXCEPT ![t] = r(ids)]
    BY <1>0, <1>5 DEF RequestLocalWait
  <2>2. /\ r(ids).state = task[t].state /\ r(ids).phase = task[t].phase
        /\ r(ids).anc = task[t].anc /\ r(ids).parent = task[t].parent
        /\ r(ids).ctx = task[t].ctx /\ r(ids).cancelReq = task[t].cancelReq
        /\ r(ids).waitFor = ids /\ r(ids).lease = task[t].lease
    BY <1>0 DEF Row
  <2> HIDE DEF r
  <2>3. task[t].state = "WORKING" /\ task[t].phase = "executing"
    BY <1>5 DEF RequestLocalWait, WritableTurn
  <2>4. RowFits(r(ids)) /\ Born(t) /\ ~IsTerminal(t)
    BY <1>0, <2>2, <2>3, NotTerminal DEF RowFits, Queueing, Suspended, Parked, Born, IsTerminal
  <2>5. Moves(t)
    BY <2>1, <2>2, <2>3, <2>4, RowMoves
  <2> QED
    BY <2>5 DEF Kind
<1>6. CASE RequestLocalInput(t)
  <2> DEFINE r == [task[t] EXCEPT !.question = TRUE]
  <2>1. task' = [task EXCEPT ![t] = r] /\ task[t].state = "WORKING"
    BY <1>0, <1>6 DEF RequestLocalInput, WritableTurn
  <2>2. /\ r.state = task[t].state /\ r.phase = task[t].phase /\ r.lease = task[t].lease
        /\ r.anc = task[t].anc /\ r.parent = task[t].parent
        /\ r.ctx = task[t].ctx /\ r.cancelReq = task[t].cancelReq
        /\ r.waitFor = task[t].waitFor
    BY <1>0 DEF Row
  <2> HIDE DEF r
  <2>3. RowFits(r) /\ Born(t) /\ ~IsTerminal(t)
    BY <1>0, <2>1, <2>2, NotTerminal DEF RowFits, Born, IsTerminal
  <2>4. Moves(t)
    BY <2>1, <2>2, <2>3, RowMoves
  <2> QED
    BY <2>4 DEF Kind
<1>7. CASE FinishFailed(t)
  <2>1. PICK s \in {"FAILED", "CANCELED"} : task' = Close(t, s)
    BY <1>7 DEF FinishFailed
  <2>2. Born(t) /\ ~IsTerminal(t)
    BY <1>7, NotTerminal DEF FinishFailed, LeaseLost, Born, IsTerminal
  <2> QED
    BY <2>1, <2>2, CloseHalts DEF Kind
<1>8. CASE FinishCompleted(t)
  <2> DEFINE r == Ended(task[t], "COMPLETED")
  <2>1. task' = [task EXCEPT ![t] = r] /\ task[t].state = "WORKING" /\ ~task[t].cancelReq
    BY <1>8 DEF FinishCompleted, MayComplete, LeaseLost
  <2>2. /\ r.anc = task[t].anc /\ r.parent = task[t].parent /\ r.ctx = task[t].ctx
        /\ r.state = "COMPLETED" /\ r.phase = "done" /\ r.waitFor = {}
    BY <1>0 DEF Ended, Row
  <2> HIDE DEF r
  <2>3. \A c \in Children(t) : IsTerminal(c)
    BY <1>8 DEF FinishCompleted, Awaited
  <2>4. Completes(t)
    BY <1>0, <2>1, <2>2, <2>3, OneRow DEF Completes, Keeps
  <2> QED
    BY <2>4 DEF Kind
<1>9. CASE FinishWithQuestion(t)
  <2> DEFINE r == [task[t] EXCEPT !.state = "INPUT_REQUIRED", !.phase = "paused",
                                  !.lease = NoLease, !.question = FALSE]
  <2>1. task' = [task EXCEPT ![t] = r] /\ task[t].state = "WORKING" /\ ~task[t].cancelReq
    BY <1>0, <1>9 DEF FinishWithQuestion, MayComplete, LeaseLost
  <2>2. /\ r.state = "INPUT_REQUIRED" /\ r.phase = "paused"
        /\ r.anc = task[t].anc /\ r.parent = task[t].parent
        /\ r.ctx = task[t].ctx /\ r.cancelReq = task[t].cancelReq
        /\ r.waitFor = task[t].waitFor
    BY <1>0 DEF Row
  <2> HIDE DEF r
  <2>3. RowFits(r) /\ Born(t) /\ ~IsTerminal(t)
    BY <2>1, <2>2, NotTerminal DEF RowFits, Queueing, Suspended, Parked, Born, IsTerminal
  <2>4. CanTransition(task[t].state, r.state) /\ r.state \notin Terminal /\ task[t].state \in Active
    BY <2>1, <2>2, NotTerminal DEF CanTransition, Interrupted, Active
  <2>5. Moves(t)
    BY <2>1, <2>2, <2>3, <2>4, RowMoves
  <2> QED
    BY <2>5 DEF Kind
<1>10. CASE SuspendLocalTurn(t)
  <2> DEFINE r(ph) == [task[t] EXCEPT !.phase = ph, !.waitFor = Awaited(t), !.lease = NoLease]
  <2>1. PICK ph \in {"resumable", "waiting"} :
          /\ task' = [task EXCEPT ![t] = r(ph)]
          /\ ph = "resumable" => \A c \in Awaited(t) : task[c].state \in Settled
    BY <1>0, <1>10 DEF SuspendLocalTurn
  <2>2. /\ r(ph).state = task[t].state /\ r(ph).phase = ph
        /\ r(ph).anc = task[t].anc /\ r(ph).parent = task[t].parent
        /\ r(ph).ctx = task[t].ctx /\ r(ph).cancelReq = task[t].cancelReq
        /\ r(ph).waitFor = Awaited(t)
    BY <1>0 DEF Row
  <2> HIDE DEF r
  <2>3. task[t].state = "WORKING" /\ ~task[t].cancelReq /\ Awaited(t) # {}
    BY <1>10 DEF SuspendLocalTurn, MayComplete, LeaseLost
  <2>4. RowFits(r(ph)) /\ Born(t) /\ ~IsTerminal(t)
    BY <2>2, <2>3, NotTerminal DEF RowFits, Queueing, Suspended, Parked, Born, IsTerminal
  <2>5. Awaited(t) \subseteq task[t].waitFor \cup Children(t)
    BY DEF Awaited
  <2>6. Moves(t)
    BY <2>1, <2>2, <2>4, <2>5, RowMoves
  <2> QED
    BY <2>6 DEF Kind
<1>11. CASE \/ Admit(t) \/ ClaimRefused(t) \/ StartTurn(t) \/ Abort(t)
            \/ ExecutorThrows(t) \/ FinishStale(t)
  BY <1>1, <1>11 DEF Admit, ClaimRefused, StartTurn, Abort, ExecutorThrows, FinishStale
<1> QED
  BY <1>1, <1>2, <1>3, <1>4, <1>5, <1>6, <1>7, <1>8, <1>9, <1>10, <1>11 DEF ExecutorStep

LEMMA SchedulerKind ==
  ASSUME Sound, Rooted, NEW t \in Tasks, SchedulerStep(t)
  PROVE  Kind
<1>0. task \in [Tasks -> Row] /\ task[t] \in Row /\ RowFits(task[t])
  BY DEF Sound, TreeInv, TypeOK, RowsFit
<1>1. CASE task' = task
  BY <1>1 DEF Kind
<1>2. CASE ReconcileRow(t) /\ task' # task
  <2>1. /\ task' = [task EXCEPT ![t] = [task[t] EXCEPT !.phase = "resumable"]]
        /\ task[t].state = "WORKING" /\ task[t].phase = "waiting" /\ ~task[t].cancelReq
        /\ \A c \in task[t].waitFor : task[c].state \in Settled
    BY <1>0, <1>2 DEF ReconcileRow
  <2>2. task[t].waitFor # {}
    BY <1>0, <2>1 DEF RowFits, Suspended
  <2>3. Moves(t)
    BY <2>1, <2>2, PhaseMoves DEF Phases
  <2> QED
    BY <2>3 DEF Kind
<1>3. CASE StopRow(t)
  BY <1>3, InterruptHalts DEF StopRow, Sound, Known
<1>4. CASE SweepExpired(t)
  <2>1. Born(t)
    BY <1>4 DEF SweepExpired, Sound, TreeInv, Lineage, NoRow
  <2> QED
    BY <1>4, <2>1, InterruptHalts DEF SweepExpired
<1>5. CASE ReceiveFiles(t)
  <2>1. PICK ok \in BOOLEAN : task' = [task EXCEPT ![t].phase =
                                IF ok THEN "queued" ELSE "file-transfer-failed"]
    BY <1>5 DEF ReceiveFiles
  <2>2. PICK ph \in {"queued", "file-transfer-failed"} :
          task' = [task EXCEPT ![t] = [task[t] EXCEPT !.phase = ph]]
    <3>1. CASE ok
      BY <1>0, <2>1, <3>1
    <3>2. CASE ~ok
      BY <1>0, <2>1, <3>2
    <3> QED
      BY <3>1, <3>2
  <2>3. Moves(t)
    BY <1>5, <2>2, PhaseMoves DEF ReceiveFiles, Phases, Queueing
  <2> QED
    BY <2>3 DEF Kind
<1>6. CASE Expire(t)
  <2> DEFINE r == [task[t] EXCEPT !.expired = TRUE]
  <2>1. task' = [task EXCEPT ![t] = r] /\ Born(t) /\ ~IsTerminal(t)
    BY <1>0, <1>6 DEF Expire
  <2>2. /\ r.state = task[t].state /\ r.phase = task[t].phase /\ r.lease = task[t].lease
        /\ r.anc = task[t].anc /\ r.parent = task[t].parent
        /\ r.ctx = task[t].ctx /\ r.cancelReq = task[t].cancelReq
        /\ r.waitFor = task[t].waitFor
    BY <1>0 DEF Row
  <2> HIDE DEF r
  <2>3. RowFits(r)
    BY <1>0, <2>2 DEF RowFits
  <2>4. Moves(t)
    BY <2>1, <2>2, <2>3, RowMoves
  <2> QED
    BY <2>4 DEF Kind
<1> QED
  BY <1>1, <1>2, <1>3, <1>4, <1>5, <1>6 DEF SchedulerStep

LEMMA ProcessKind ==
  ASSUME Sound, Rooted, ProcessStep
  PROVE  Kind
<1>1. CASE task' = task
  BY <1>1 DEF Kind
<1>2. ASSUME NEW t \in Tasks, RecoverTask(t) PROVE Kind
  BY <1>2, InterruptHalts DEF RecoverTask, Born
<1> QED
  BY <1>1, <1>2 DEF ProcessStep, ScanWaits, StopAgentWorker, Crash, Restart, StartAgentWorker

LEMMA StepKind ==
  ASSUME Sound, Rooted, [Next]_vars
  PROVE  Kind
<1>1. CASE UNCHANGED vars
  BY <1>1 DEF vars, Kind
<1>2. CASE Next
  BY <1>2, ClientKind, ExecutorKind, SchedulerKind, ProcessKind DEF Next
<1> QED
  BY <1>1, <1>2

-----------------------------------------------------------------------------
(* What every kind of step preserves *)

\* A row that exists keeps its place in the tree and its context, a task that
\* ended stays as it is, and only a submission makes a row.
LEMMA BornKept ==
  ASSUME Sound, Kind, NEW x \in Tasks
  PROVE  /\ Born(x) => Keeps(x)
         /\ IsTerminal(x) => task'[x] = task[x]
         /\ ~Born(x) => task'[x] = task[x] \/ Opens(x)
<1>1. ASSUME NEW t \in Tasks, Opens(t) \/ Moves(t) \/ Completes(t) \/ Halts(t)
      PROVE  /\ Born(x) => Keeps(x)
             /\ IsTerminal(x) => task'[x] = task[x]
             /\ ~Born(x) => task'[x] = task[x] \/ Opens(x)
  <2>1. CASE Opens(t)
    BY <2>1 DEF Opens, Only, Keeps, Born, IsTerminal, Terminal
  <2>2. CASE Moves(t)
    BY <2>2 DEF Moves, Only, Keeps
  <2>3. CASE Completes(t)
    BY <2>3, NotTerminal DEF Completes, Only, Keeps, Born, IsTerminal
  <2>4. CASE Halts(t)
    BY <2>4 DEF Halts, Stops, Keeps
  <2> QED
    BY <1>1, <2>1, <2>2, <2>3, <2>4
<1> QED
  BY <1>1 DEF Kind, Keeps

LEMMA FitsKept ==
  ASSUME Sound, Kind
  PROVE  RowsFit'
<1> SUFFICES ASSUME NEW x \in Tasks PROVE RowFits(task'[x])
  BY DEF RowsFit
<1>0. RowFits(task[x])
  BY DEF Sound, RowsFit
<1>1. ASSUME NEW s \in {"FAILED", "CANCELED"}, Stops(x, s) PROVE RowFits(task'[x])
  BY <1>0, <1>1 DEF Stops, RowFits, Queueing, Suspended, Parked, Terminal
<1>2. ASSUME NEW t \in Tasks, Opens(t) \/ Moves(t) \/ Completes(t) \/ Halts(t)
      PROVE  RowFits(task'[x])
  <2>1. CASE Opens(t) \/ Moves(t)
    BY <1>0, <2>1 DEF Opens, Moves, Only
  <2>2. CASE Completes(t)
    BY <1>0, <2>2 DEF Completes, Only, RowFits, Queueing, Suspended, Parked, Terminal
  <2>3. CASE Halts(t)
    BY <1>0, <1>1, <2>3 DEF Halts
  <2> QED
    BY <1>2, <2>1, <2>2, <2>3
<1> QED
  BY <1>0, <1>2 DEF Kind

LEMMA RootedKept ==
  ASSUME Sound, Rooted, Kind
  PROVE  Rooted'
<1> SUFFICES ASSUME NEW x \in Tasks PROVE x \notin task'[x].anc
  BY DEF Rooted
<1>1. CASE Born(x)
  BY <1>1, BornKept DEF Rooted, Keeps
<1>2. CASE ~Born(x) /\ Opens(x)
  <2>1. \A p \in Tasks : ParentAdmits(p) => x # p /\ x \notin task[p].anc
    BY <1>2, NotTerminal DEF ParentAdmits, Born, Sound, TreeInv, Lineage
  <2> QED
    BY <1>2, <2>1 DEF Opens
<1> QED
  BY <1>1, <1>2, BornKept DEF Rooted

LEMMA WaitsKept ==
  ASSUME Sound, Waits, Kind
  PROVE  Waits'
<1> SUFFICES ASSUME NEW p \in Tasks, NEW c \in task'[p].waitFor
             PROVE  c \in Tasks /\ task'[c].parent = p
  BY DEF Waits, Children
<1>1. c \in Children(p)
  <2>1. \A t \in Tasks : task[t].waitFor \subseteq Children(t)
    BY DEF Waits
  <2>2. ASSUME NEW t \in Tasks, Opens(t) \/ Moves(t) \/ Completes(t) \/ Halts(t)
        PROVE  c \in Children(p)
    <3>1. CASE Opens(t)
      BY <2>1, <3>1 DEF Opens, Only
    <3>2. CASE Moves(t)
      BY <2>1, <3>2 DEF Moves, Only
    <3>3. CASE Completes(t)
      BY <2>1, <3>3 DEF Completes, Only
    <3>4. CASE Halts(t)
      BY <2>1, <3>4 DEF Halts, Stops
    <3> QED
      BY <2>2, <3>1, <3>2, <3>3, <3>4
  <2> QED
    BY <2>1, <2>2 DEF Kind
<1>2. c \in Tasks /\ task[c].parent = p
  BY <1>1 DEF Children
<1>3. Born(c)
  BY <1>2 DEF Sound, TreeInv, Lineage, NoRow
<1> QED
  BY <1>2, <1>3, BornKept DEF Keeps

LEMMA JoinsKept ==
  ASSUME Sound, Waits, Kind, ChildrenAreJoined
  PROVE  ChildrenAreJoined'
<1>w. Waits' /\ RowsFit'
  BY WaitsKept, FitsKept
<1> SUFFICES ASSUME NEW p \in Tasks
             PROVE  /\ task'[p].state = "COMPLETED" =>
                         \A c \in Tasks : task'[c].parent = p => task'[c].state \in Terminal
                    /\ task'[p].phase = "resumable" =>
                         /\ task'[p].waitFor # {}
                         /\ \A c \in task'[p].waitFor : task'[c].state \in Settled
  BY DEF ChildrenAreJoined, Children, IsTerminal
<1>1. ASSUME task'[p].state = "COMPLETED", NEW c \in Tasks, task'[c].parent = p
      PROVE  task'[c].state \in Terminal
  <2>1. ASSUME task[p].state = "COMPLETED" \/ Completes(p)
        PROVE  task'[c].state \in Terminal
    <3>1. \A x \in Children(p) : IsTerminal(x)
      BY <2>1 DEF ChildrenAreJoined, Completes
    <3>2. task[c].parent = p
      <4>1. CASE Born(c)
        BY <1>1, <4>1, BornKept DEF Keeps
      <4>2. CASE ~Born(c) /\ Opens(c)
        <5>1. ParentAdmits(p)
          BY <1>1, <4>2 DEF Opens
        <5>2. ~(task[p].state = "COMPLETED") /\ Only(c) /\ c # p
          BY <4>2, <5>1 DEF ParentAdmits, Opens, Born
        <5>3. task'[p] = task[p]
          BY <5>2 DEF Only
        <5> QED
          BY <1>1, <5>2, <5>3
      <4> QED
        BY <1>1, <4>1, <4>2, BornKept
    <3> QED
      BY <3>1, <3>2, BornKept DEF Children, IsTerminal
  <2>2. task[p].state = "COMPLETED" \/ Completes(p)
    <3>1. ASSUME NEW t \in Tasks, Opens(t) \/ Moves(t) \/ Completes(t) \/ Halts(t)
          PROVE  task[p].state = "COMPLETED" \/ Completes(p)
      <4>1. CASE Opens(t)
        BY <1>1, <4>1 DEF Opens, Only
      <4>2. CASE Moves(t)
        BY <1>1, <4>2 DEF Moves, Only, Terminal
      <4>3. CASE Completes(t)
        BY <1>1, <4>3 DEF Completes, Only
      <4>4. CASE Halts(t)
        BY <1>1, <4>4 DEF Halts, Stops
      <4> QED
        BY <3>1, <4>1, <4>2, <4>3, <4>4
    <3> QED
      BY <1>1, <3>1 DEF Kind
  <2> QED
    BY <2>1, <2>2
<1>2. ASSUME task'[p].phase = "resumable"
      PROVE  task'[p].waitFor # {}
  BY <1>2, <1>w DEF RowsFit, RowFits, Suspended
<1>3. ASSUME task'[p].phase = "resumable", NEW c \in task'[p].waitFor
      PROVE  task'[c].state \in Settled
  <2>1. c \in Tasks /\ task'[c].parent = p
    BY <1>w DEF Waits, Children
  <2>2. /\ task[c].state \in Settled
        /\ task[p].state \in Active
    <3>1. ASSUME NEW t \in Tasks, Opens(t) \/ Moves(t) \/ Completes(t) \/ Halts(t)
          PROVE  \/ task[p].phase = "resumable" /\ task'[p].waitFor = task[p].waitFor
                 \/ Moves(p) /\ \A d \in task'[p].waitFor : task[d].state \in Settled
      <4>1. CASE Opens(t)
        BY <1>3, <4>1 DEF Opens, Only
      <4>2. CASE Moves(t)
        BY <1>3, <4>2 DEF Moves, Only
      <4>3. CASE Completes(t)
        BY <1>3, <4>3 DEF Completes, Only
      <4>4. CASE Halts(t)
        BY <1>3, <4>4 DEF Halts, Stops
      <4> QED
        BY <3>1, <4>1, <4>2, <4>3, <4>4
    <3>2. task'[p].state = "WORKING"
      BY <1>3, <1>w DEF RowsFit, RowFits, Suspended
    <3>3. CASE task[p].phase = "resumable" /\ task'[p].waitFor = task[p].waitFor
      BY <3>3 DEF ChildrenAreJoined, Sound, RowsFit, RowFits, Suspended, Active
    <3>4. CASE Moves(p) /\ \A d \in task'[p].waitFor : task[d].state \in Settled
      BY <3>2, <3>4 DEF Moves, CanTransition, Active, Terminal, Interrupted
    <3> QED
      BY <1>3, <3>1, <3>3, <3>4 DEF Kind
  <2>3. task[c].parent = p /\ c # p /\ Born(c)
    <3>1. c # p /\ Born(c)
      BY <2>2 DEF Born, Settled, Active, Terminal, Interrupted
    <3> QED
      BY <2>1, <3>1, BornKept DEF Keeps
  <2>4. ASSUME NEW t \in Tasks, Opens(t) \/ Moves(t) \/ Completes(t) \/ Halts(t)
        PROVE  task'[c].state \in Settled
    <3>1. CASE Opens(t)
      BY <2>1, <2>2, <2>3, <3>1 DEF Opens, Only
    <3>2. CASE Moves(t)
      <4>1. CASE t # c
        BY <2>1, <2>2, <3>2, <4>1 DEF Moves, Only
      <4>2. CASE t = c
        <5>1. task'[p] = task[p]
          BY <2>3, <3>2, <4>2 DEF Moves, Only
        <5>2. ~ParentAdmits(p)
          BY <1>3, <5>1 DEF ParentAdmits
        <5> QED
          BY <2>2, <2>3, <3>2, <4>2, <5>2 DEF Moves
      <4> QED
        BY <4>1, <4>2
    <3>3. CASE Completes(t)
      BY <2>1, <2>2, <3>3 DEF Completes, Only, Settled, Terminal
    <3>4. CASE Halts(t)
      BY <2>1, <2>2, <3>4 DEF Halts, Stops, Settled, Terminal
    <3> QED
      BY <2>4, <3>1, <3>2, <3>3, <3>4
  <2> QED
    BY <2>2, <2>4 DEF Kind
<1> QED
  BY <1>1, <1>2, <1>3

LEMMA ContextsKept ==
  ASSUME Sound, Kind, OneActivePerContext
  PROVE  OneActivePerContext'
<1>1. ASSUME NEW x \in Tasks, task'[x].state \in Active
      PROVE  \/ task[x].state \in Active /\ Born(x)
             \/ /\ Opens(x) \/ Moves(x) 
                /\ ContextFree(task'[x].ctx)
  <2>1. ASSUME NEW t \in Tasks, Opens(t) \/ Moves(t) \/ Completes(t) \/ Halts(t)
        PROVE  \/ task[x].state \in Active
               \/ (Opens(x) \/ Moves(x)) /\ ContextFree(task'[x].ctx)
    <3>1. CASE Opens(t)
      BY <1>1, <3>1 DEF Opens, Only
    <3>2. CASE Moves(t)
      BY <1>1, <3>2 DEF Moves, Only, Keeps
    <3>3. CASE Completes(t)
      BY <1>1, <3>3 DEF Completes, Only, Active
    <3>4. CASE Halts(t)
      BY <1>1, <3>4 DEF Halts, Stops, Active
    <3> QED
      BY <2>1, <3>1, <3>2, <3>3, <3>4
  <2> QED
    BY <1>1, <2>1 DEF Kind, Born, Active
<1>2. ASSUME NEW s \in Tasks, NEW t \in Tasks, s # t, task'[s].ctx = task'[t].ctx,
             task'[s].state \in Active, task'[t].state \in Active,
             Opens(s) \/ Moves(s), ContextFree(task'[s].ctx)
      PROVE  FALSE
  <2>1. task'[t] = task[t]
    BY <1>2 DEF Opens, Moves, Only
  <2> QED
    BY <1>2, <2>1 DEF ContextFree
<1> SUFFICES ASSUME NEW s \in Tasks, NEW t \in Tasks, s # t, task'[s].ctx = task'[t].ctx,
                    task'[s].state \in Active, task'[t].state \in Active
             PROVE  FALSE
  BY DEF OneActivePerContext
<1>3. /\ task[s].state \in Active /\ Born(s)
      /\ task[t].state \in Active /\ Born(t)
  BY <1>1, <1>2
<1>4. task'[s].ctx = task[s].ctx /\ task'[t].ctx = task[t].ctx
  BY <1>3, BornKept DEF Keeps
<1> QED
  BY <1>3, <1>4 DEF OneActivePerContext

\* An executor only begins where nobody else holds the session.
LEMMA Begins ==
  ASSUME Sound, [Next]_vars, NEW t \in Tasks, exec'[t].pc # "idle"
  PROVE  \/ exec[t].pc # "idle"
         \/ SessionFree(t) /\ task' = task /\ \A s \in Tasks \ {t} : exec'[s] = exec[s]
<1>0. exec \in [Tasks -> Executors]
  BY DEF Sound, TreeInv, TypeOK
<1>1. CASE exec' = exec
  BY <1>1
<1>2. ASSUME NEW x \in Tasks, ExecutorStep(x)
      PROVE  \/ exec[t].pc # "idle"
             \/ SessionFree(t) /\ task' = task /\ \A s \in Tasks \ {t} : exec'[s] = exec[s]
  <2>1. CASE Admit(x)
    BY <1>0, <2>1 DEF Admit
  <2>2. CASE ~Admit(x)
    <3>1. \A y \in Tasks \ {x} : exec'[y] = exec[y]
      BY <1>0, <1>2, <2>2 DEF ExecutorStep, Unavailable, ClaimTask, ClaimRefused, StartTurn,
         DeferTaskFileStaging, Abort, ExecutorThrows, RequestLocalWait, RequestLocalInput,
         FinishStale, FinishFailed, FinishCompleted, FinishWithQuestion, SuspendLocalTurn
    <3>2. exec[x].pc # "idle" \/ exec' = exec
      BY <1>2, <2>2 DEF ExecutorStep, Unavailable, ClaimTask, ClaimRefused, StartTurn,
         DeferTaskFileStaging, Abort, ExecutorThrows, RequestLocalWait, RequestLocalInput,
         FinishStale, FinishFailed, FinishCompleted, FinishWithQuestion, SuspendLocalTurn,
         MayComplete
    <3> QED
      BY <3>1, <3>2
  <2> QED
    BY <2>1, <2>2
<1>3. CASE StopAgentWorker
  BY <1>0, <1>3 DEF StopAgentWorker, Executors
<1>4. CASE Crash
  BY <1>4 DEF Crash, Idle
<1>5. ASSUME NEW x \in Tasks, ClientStep(x) PROVE exec' = exec
  BY <1>5 DEF ClientStep, SubmitRoot, Delegate, ContinueTask, CommitTaskCancellation, RetryFiles
<1>6. ASSUME NEW x \in Tasks, SchedulerStep(x) PROVE exec' = exec
  BY <1>6 DEF SchedulerStep, ReconcileRow, StopRow, SweepExpired, ReceiveFiles, Expire
<1>7. ASSUME ProcessStep, ~StopAgentWorker, ~Crash PROVE exec' = exec
  BY <1>7 DEF ProcessStep, ScanWaits, Restart, StartAgentWorker, RecoverTask
<1> QED
  BY <1>1, <1>2, <1>3, <1>4, <1>5, <1>6, <1>7 DEF Next, vars

LEMMA SessionsKept ==
  ASSUME Sound, Kind, [Next]_vars, Sessions
  PROVE  Sessions'
<1> SUFFICES ASSUME NEW s \in Tasks, NEW t \in Tasks, s # t,
                    exec'[s].pc # "idle", exec'[t].pc # "idle"
             PROVE  task'[s].ctx # task'[t].ctx
  BY DEF Sessions
<1>1. CASE exec[s].pc # "idle" /\ exec[t].pc # "idle"
  <2>1. Born(s) /\ Born(t)
    BY <1>1 DEF Sound, Known
  <2> QED
    BY <1>1, <2>1, BornKept DEF Sessions, Keeps
<1>2. CASE exec[s].pc = "idle"
  <2>1. SessionFree(s) /\ task' = task /\ exec'[t] = exec[t]
    BY <1>2, Begins
  <2> QED
    BY <2>1 DEF SessionFree
<1>3. CASE exec[t].pc = "idle"
  <2>1. SessionFree(t) /\ task' = task /\ exec'[s] = exec[s]
    BY <1>3, Begins
  <2> QED
    BY <2>1 DEF SessionFree
<1> QED
  BY <1>1, <1>2, <1>3

-----------------------------------------------------------------------------
(* The invariant *)

TurnInv ==
  /\ Sound /\ Rooted /\ Waits /\ Sessions
  /\ ChildrenAreJoined /\ OneActivePerContext

LEMMA TurnInit == Init => TurnInv
<1> SUFFICES ASSUME Init PROVE TurnInv
  OBVIOUS
<1>1. TreeInv /\ Known
  BY TreeInit
<1>2. \A t \in Tasks : task[t] = NoRow /\ exec[t].pc = "idle"
  BY DEF Init, Idle
<1>3. /\ NoRow.state = "NONE" /\ NoRow.phase = "none" /\ ~NoRow.cancelReq
      /\ NoRow.waitFor = {} /\ NoRow.anc = {}
  BY DEF NoRow
<1>4. RowsFit
  BY <1>2, <1>3 DEF RowsFit, RowFits, Queueing, Suspended, Parked
<1>5. Rooted /\ Waits /\ Sessions /\ ChildrenAreJoined /\ OneActivePerContext
  BY <1>2, <1>3 DEF Rooted, Waits, Sessions, ChildrenAreJoined, OneActivePerContext, Active
<1> QED
  BY <1>1, <1>4, <1>5 DEF TurnInv, Sound

LEMMA TurnNext == TurnInv /\ [Next]_vars => TurnInv'
<1> SUFFICES ASSUME TurnInv, [Next]_vars PROVE TurnInv'
  OBVIOUS
<1>1. Kind
  BY StepKind DEF TurnInv
<1>2. TreeInv' /\ Known'
  BY TreeNext DEF TurnInv, Sound
<1> QED
  BY <1>1, <1>2, FitsKept, RootedKept, WaitsKept, JoinsKept, ContextsKept, SessionsKept
     DEF TurnInv, Sound

LEMMA TurnAlways == Spec => []TurnInv
BY TurnInit, TurnNext, PTL DEF Spec

\* Two executors never run in the sandbox session of one context: the session is
\* taken before the claim and held until the executor is idle, even when its
\* task has been taken away (withSandboxSession around executeAgentTask).
THEOREM SessionsAreExclusive == Spec => []SessionExclusive
<1>1. TurnInv => SessionExclusive
  BY DEF TurnInv, Sessions, SessionExclusive, Claimed
<1> QED
  BY <1>1, TurnAlways, PTL

\* One conversation with one Agent never has two executing tasks, whichever way
\* they came: submitted, delegated or continued (submitTaskInTransaction).
THEOREM OneActiveAlways == Spec => []OneActivePerContext
<1>1. TurnInv => OneActivePerContext
  BY DEF TurnInv
<1> QED
  BY <1>1, TurnAlways, PTL

\* A task that reports COMPLETED has no unfinished child, and one marked
\* resumable finds the results of everything it waits for (finishTask,
\* suspendLocalTurn, reconcileLocalWaits, resumeMessage).
THEOREM ChildrenJoinedAlways == Spec => []ChildrenAreJoined
<1>1. TurnInv => ChildrenAreJoined
  BY DEF TurnInv
<1> QED
  BY <1>1, TurnAlways, PTL

-----------------------------------------------------------------------------
(* The store implements TaskTree. *)

\* The variables of TaskTree, as the rows give them.
Stop(t) == task[t].cancelReq /\ ~IsTerminal(t)

Open(t) == Born(t) /\ ~Quiet(t)

Unmoved(x) ==
  /\ task'[x].state = task[x].state /\ task'[x].anc = task[x].anc
  /\ Stop(x)' = Stop(x)

LEMMA SameStates ==
  /\ Tree!Terminal = Terminal /\ Tree!Active = Active /\ Tree!Interrupted = Interrupted
  /\ \A s, n : CanTransition(s, n) <=> Tree!CanTransition(s, n)
BY DEF Tree!Terminal, Tree!Active, Tree!Interrupted, Terminal, Active, Interrupted,
       CanTransition, Tree!CanTransition

LEMMA StateOf ==
  ASSUME TypeOK, NEW t \in Tasks
  PROVE  /\ task[t].state = "NONE" \/ task[t].state \in Active \cup Interrupted
              \/ task[t].state \in Terminal
         /\ Tree!Open(t) <=> Open(t)
         /\ Tree!Quiet(t) <=> ~Open(t)
BY SameStates DEF TypeOK, Row, States, Tree!Open, Tree!Quiet, Open, Quiet, Born,
       IsTerminal, Terminal, Active, Interrupted

LEMMA TreeStutter ==
  ASSUME \A x \in Tasks : Unmoved(x)
  PROVE  UNCHANGED Tree!treeVars
BY DEF Tree!treeVars, Unmoved, Stop

LEMMA TreeAdmit ==
  ASSUME TurnInv, TurnInv', NEW t \in Tasks, Opens(t)
  PROVE  Tree!Admit(t)
<1>0. TypeOK /\ TypeOK'
  BY DEF TurnInv, Sound, TreeInv
<1>1. ASSUME NEW a \in task'[t].anc PROVE a \in Tasks /\ Open(a)
  <2>1. PICK p \in Tasks : ParentAdmits(p) /\ task'[t].anc = task[p].anc \cup {p}
    BY <1>1 DEF Opens
  <2>2. Open(p)
    BY <2>1, NotTerminal DEF ParentAdmits, Open, Quiet, Born, IsTerminal
  <2>3. CASE a \in task[p].anc
    <3>1. Born(a)
      BY <2>3 DEF TurnInv, Sound, TreeInv, Lineage
    <3>2. a \in Tasks
      BY <1>0, <2>3 DEF TypeOK, Row
    <3>3. ~Quiet(a)
      BY <2>2, <2>3 DEF TurnInv, Sound, TreeInv, NoOrphanedWork, Open, Quiet
    <3> QED
      BY <3>1, <3>2, <3>3 DEF Open
  <2> QED
    BY <1>1, <2>1, <2>2, <2>3
<1>2. task[t].state = "NONE" /\ task'[t].state = "SUBMITTED" /\ ~Stop(t)'
  BY DEF Opens, Born, Stop
<1>3. \A d \in Tasks \ {t} : Unmoved(d)
  BY DEF Opens, Only, Unmoved, Stop, IsTerminal
<1>4. \A a \in task'[t].anc : Tree!Open(a)
  BY <1>0, <1>1, StateOf
<1> QED
  BY <1>2, <1>3, <1>4 DEF Tree!Admit, Tree!Same, Unmoved, Stop

LEMMA TreeMove ==
  ASSUME TurnInv, NEW t \in Tasks, Moves(t)
  PROVE  Tree!Move(t) \/ UNCHANGED Tree!treeVars
<1>0. TypeOK
  BY DEF TurnInv, Sound, TreeInv
<1>1. \A d \in Tasks \ {t} : Unmoved(d)
  BY DEF Moves, Only, Unmoved, Stop, IsTerminal
<1>2. task'[t].anc = task[t].anc
  BY DEF Moves, Keeps
<1>3. CASE task'[t].state = task[t].state
  <2>1. Unmoved(t)
    BY <1>2, <1>3 DEF Moves, Unmoved, Stop, IsTerminal
  <2> QED
    BY <1>1, <2>1, TreeStutter
<1>4. CASE task'[t].state # task[t].state
  <2>1. Open(t) /\ ~Stop(t)' /\ task'[t].state \notin Terminal
        /\ CanTransition(task[t].state, task'[t].state)
    BY <1>4 DEF Moves, Open, Quiet, Stop
  <2>2. Tree!Open(t)
    BY <1>0, <2>1, StateOf
  <2>3. Tree!CanTransition(task[t].state, task'[t].state)
    BY <2>1, SameStates
  <2>4. \A x \in Tasks : task'[x].anc = task[x].anc
    BY <1>1, <1>2 DEF Unmoved
  <2>5. Tree!Move(t)
    BY <1>1, <2>1, <2>2, <2>3, <2>4, SameStates DEF Tree!Move, Tree!Same, Unmoved, Stop
  <2> QED
    BY <2>5
<1> QED
  BY <1>3, <1>4

LEMMA TreeComplete ==
  ASSUME TurnInv, NEW t \in Tasks, Completes(t)
  PROVE  Tree!Complete(t)
<1>0. TypeOK
  BY DEF TurnInv, Sound, TreeInv
<1>1. \A d \in Tasks \ {t} : Unmoved(d)
  BY DEF Completes, Only, Unmoved, Stop, IsTerminal
<1>2. \A x \in Tasks : task'[x].anc = task[x].anc
  BY <1>1 DEF Completes, Keeps, Unmoved
<1>3. Open(t) /\ CanTransition(task[t].state, "COMPLETED")
  BY NotTerminal DEF Completes, Open, Quiet, Born, IsTerminal, CanTransition, Terminal
<1>4. ASSUME NEW d \in Tasks, t \in task[d].anc PROVE ~Open(d)
  <2>1. PICK c \in task[d].anc \cup {d} : task[c].parent = t
    BY <1>4 DEF TurnInv, Sound, TreeInv, Lineage
  <2>2. c \in Tasks /\ IsTerminal(c)
    BY <1>0, <2>1 DEF TypeOK, Row, Completes, Children
  <2>3. IsTerminal(d) \/ task[d].cancelReq
    BY <2>1, <2>2 DEF TurnInv, Sound, TreeInv, NoOrphanedWork
  <2> QED
    BY <2>3 DEF Open, Quiet
<1>5. Tree!Open(t) /\ \A d \in Tasks : t \in task[d].anc => Tree!Quiet(d)
  BY <1>0, <1>3, <1>4, StateOf
<1>6. Tree!CanTransition(task[t].state, "COMPLETED") /\ task'[t].state = "COMPLETED"
  BY <1>3, SameStates DEF Completes
<1> QED
  BY <1>1, <1>2, <1>5, <1>6 DEF Tree!Complete, Tree!Below, Tree!Same, Unmoved, Stop

\* A row that is stopped is so in the sense of TaskTree.
LEMMA StopsBar ==
  ASSUME TurnInv, NEW x \in Tasks, NEW s \in {"FAILED", "CANCELED"}, Stops(x, s)
  PROVE  /\ task[x].state \in Active \cup Interrupted
         /\ task'[x].anc = task[x].anc
         /\ \/ task'[x].state = s /\ CanTransition(task[x].state, s) /\ ~Stop(x)'
            \/ task'[x].state = task[x].state /\ Stop(x)'
<1>0. TypeOK /\ RowFits(task[x])
  BY DEF TurnInv, Sound, TreeInv, RowsFit
<1>1. task[x].state \in Active \cup Interrupted /\ task'[x].anc = task[x].anc
  BY <1>0, StateOf DEF Stops, Keeps, Born, IsTerminal
<1>2. s \in Terminal /\ CanTransition(task[x].state, s)
  BY <1>1 DEF CanTransition, Active, Interrupted, Terminal
<1>3. CASE task'[x].state = s
  <2>1. ~Stop(x)'
    BY <1>2, <1>3 DEF Stop, IsTerminal
  <2> QED
    BY <1>1, <1>2, <1>3, <2>1
<1>4. CASE task'[x].state # s
  <2>1. task'[x].cancelReq /\ task'[x].state = task[x].state
    BY <1>4 DEF Stops
  <2>2. Stop(x)'
    BY <2>1 DEF Stop, Stops, IsTerminal
  <2> QED
    BY <1>1, <2>1, <2>2
<1> QED
  BY <1>3, <1>4

LEMMA TreeHalt ==
  ASSUME TurnInv, NEW t \in Tasks, Halts(t)
  PROVE  Tree!Halt(t)
<1>0. TypeOK
  BY DEF TurnInv, Sound, TreeInv
<1>1. PICK s \in {"FAILED", "CANCELED"} : Stops(t, s)
  BY DEF Halts
<1>2. /\ task[t].state \in Active \cup Interrupted
      /\ \/ task'[t].state = s /\ CanTransition(task[t].state, s) /\ ~Stop(t)'
         \/ task'[t].state = task[t].state /\ Stop(t)'
  BY <1>1, StopsBar
<1>3. ASSUME NEW d \in Tasks, t \in task[d].anc, Open(d)
      PROVE  \/ task'[d].state = "CANCELED" /\ ~Stop(d)'
             \/ task'[d].state = task[d].state /\ Stop(d)'
  <2>1. d # t /\ ~Quiet(d)
    BY <1>3 DEF TurnInv, Rooted, Open
  <2>2. Stops(d, "CANCELED")
    BY <1>3, <2>1 DEF Halts
  <2> QED
    BY <2>2, StopsBar
<1>4. ASSUME NEW d \in Tasks \ {t}, t \notin task[d].anc \/ ~Open(d)
      PROVE  task'[d].state = task[d].state /\ Stop(d)' = Stop(d)
  <2>1. t \notin task[d].anc \/ Quiet(d)
    BY <1>4 DEF Open, TurnInv, Sound, TreeInv, Lineage, NoRow
  <2>2. task'[d] = task[d]
    BY <2>1 DEF Halts
  <2> QED
    BY <2>2 DEF Stop, IsTerminal
<1>5. \A x \in Tasks : task'[x].anc = task[x].anc
  BY <1>1, StopsBar DEF Halts
<1>6. \A d \in Tree!Below(t) : Tree!Open(d) => Tree!Halted(d)
  BY <1>0, <1>3, StateOf DEF Tree!Below, Tree!Halted, Stop
<1>7. \A d \in Tasks \ {t} : t \notin task[d].anc \/ Tree!Quiet(d) =>
        task'[d].state = task[d].state /\ Stop(d)' = Stop(d)
  BY <1>0, <1>4, StateOf
<1>8. s \in Terminal \ {"COMPLETED"}
  BY DEF Terminal
<1>9. /\ s \in Tree!Terminal \ {"COMPLETED"}
      /\ CanTransition(task[t].state, s) => Tree!CanTransition(task[t].state, s)
      /\ task[t].state \in Tree!Active \cup Tree!Interrupted
  BY <1>2, <1>8, SameStates
<1>10. \/ /\ task'[t].state \in Tree!Terminal \ {"COMPLETED"}
          /\ Tree!CanTransition(task[t].state, task'[t].state) /\ ~Stop(t)'
       \/ task'[t].state = task[t].state /\ Stop(t)'
  BY <1>2, <1>9
<1> QED
  BY <1>5, <1>6, <1>7, <1>9, <1>10 DEF Tree!Halt, Tree!Same, Stop

LEMMA TreeInitBar == Init => Tree!Init
<1> SUFFICES ASSUME Init PROVE Tree!Init
  OBVIOUS
<1>1. \A t \in Tasks : task[t] = NoRow
  BY DEF Init
<1>2. NoRow.state = "NONE" /\ NoRow.cancelReq = FALSE /\ NoRow.anc = {}
  BY DEF NoRow
<1> QED
  BY <1>1, <1>2 DEF Tree!Init

LEMMA TreeNextBar == TurnInv /\ TurnInv' /\ [Next]_vars => [Tree!Next]_(Tree!treeVars)
<1> SUFFICES ASSUME TurnInv, TurnInv', [Next]_vars
             PROVE  Tree!Next \/ UNCHANGED Tree!treeVars
  OBVIOUS
<1>1. Kind
  BY StepKind DEF TurnInv
<1>2. CASE task' = task
  BY <1>2 DEF Tree!treeVars, IsTerminal
<1>3. ASSUME NEW t \in Tasks, Opens(t) \/ Moves(t) \/ Completes(t) \/ Halts(t)
      PROVE  Tree!Next \/ UNCHANGED Tree!treeVars
  BY <1>3, TreeAdmit, TreeMove, TreeComplete, TreeHalt DEF Tree!Next
<1> QED
  BY <1>1, <1>2, <1>3 DEF Kind

\* Through queues, leases, suspended turns, stale scans and restarts the rows of
\* the store only ever move as TaskTree allows: along assertTransition, admitted
\* beneath ancestors that still want work, and stopped with all that is below
\* (submitTaskInTransaction, finishTask, interruptTask, cancelLocalDescendants).
THEOREM StoreImplementsTree == Spec => ImplementsTree
BY TreeInitBar, TreeNextBar, TurnAlways, PTL DEF Spec, ImplementsTree, Tree!Spec
=============================================================================
