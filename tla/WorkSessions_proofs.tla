-------------------------- MODULE WorkSessions_proofs --------------------------
(***************************************************************************)
(* Proofs about WorkSessions, for any sessions, Agents, runs and limits.   *)
(***************************************************************************)
EXTENDS WorkSessions, WellFoundedInduction, TLAPS

USE WorkConstants DEF WorkConstants

-----------------------------------------------------------------------------
(* The inductive invariant: what is stored, what runs, what was said *)

RowType == [status : Statuses, cancel : BOOLEAN]

TalkType == [inputs : 0..MaxInputs, open : BOOLEAN, answers : [Inputs -> Nat]]

TaskType == {"none"} \cup Unsettled \cup Terminal

Points ==
  {"none", "read", "check", "submit", "observe", "thrown", "await", "respond", "finish",
   "failed", "fail", "finally", "settle", "leave"}

RunType ==
  [pc : Points, work : Works \cup {0}, input : 0..MaxInputs, aborted : BOOLEAN]

\* Where a run is on a user message.
Asking == {"submit", "observe", "thrown", "await", "respond", "finish"}

Stored ==
  /\ row \in [Works -> RowType] /\ talk \in [Works -> TalkType]
  /\ task \in [Works -> [Inputs -> TaskType]]
  /\ active \subseteq Works
  /\ route \in [Works -> {"none", "cancelling", "stopped", "finalize"}]
  /\ stopping \in BOOLEAN
  /\ requests \in 0..MaxRequests /\ restarts \in 0..MaxRestarts

\* A run is of a session, answers a message of it, and has an answer only of a
\* task that completed.
RunFits(r) ==
  /\ run[r].pc # "none" => run[r].work \in Works
  /\ run[r].input # 0 =>
       run[r].work \in Works /\ run[r].input <= talk[run[r].work].inputs
  /\ run[r].pc \in Asking => run[r].input # 0
  /\ run[r].pc = "respond" => TaskOf(r) = "completed"

Registered(w) ==
  ctl[w] # "none" =>
    /\ ctl[w] \in Runs
    /\ run[ctl[w]].work = w
    /\ run[ctl[w]].pc \notin {"none", "read", "settle", "leave"}

Running ==
  /\ run \in [Runs -> RunType] /\ ctl \in [Works -> Runs \cup {"none"}]
  /\ \A r \in Runs : RunFits(r)
  /\ \A w \in Works : Registered(w)

\* An open message is the last one and has no answer; an answer is of a message
\* that was sent, whose task completed.
TalkFits(w) ==
  /\ row[w].status = "none" => talk[w].inputs = 0
  /\ talk[w].open => talk[w].inputs > 0 /\ talk[w].answers[talk[w].inputs] = 0
  /\ \A m \in Inputs :
       talk[w].answers[m] > 0 => m <= talk[w].inputs /\ task[w][m] = "completed"

WorkInv == Stored /\ Running /\ \A w \in Works : TalkFits(w)

LEMMA TypesFollow == (WorkInv => TypeOK) /\ (WorkInv' => TypeOK')
BY DEF WorkInv, Stored, Running, Registered, TypeOK, RowType, TalkType, TaskType

-----------------------------------------------------------------------------
(* What a step leaves alone *)

\* No message is taken back, and a task that completed stays completed.
Onward ==
  /\ \A w \in Works : talk[w].inputs <= talk'[w].inputs
  /\ \A w \in Works, m \in Inputs : task[w][m] = "completed" => task'[w][m] = "completed"

LEMMA OnwardIf ==
  ASSUME Stored, UNCHANGED talk, UNCHANGED task
  PROVE  Onward
BY DEF Stored, TalkType, Onward

\* A run that goes on, or that has left, still fits.
LEMMA RunKept ==
  ASSUME Stored, Stored', Running, Onward, NEW r \in Runs,
         run'[r].work = run[r].work, run'[r].input = run[r].input, run'[r] \in RunType,
         run[r].pc # "none",
         run'[r].pc \in Asking => run[r].input # 0,
         run'[r].pc = "respond" => TaskOf(r) = "completed"
  PROVE  RunFits(r)'
<1>1. RunFits(r) /\ run[r] \in RunType
  BY DEF Running
<1>2. run[r].work \in Works
  BY <1>1 DEF RunFits
<1>3. run[r].input \in 0..MaxInputs
  BY <1>1 DEF RunType
<1>4. run[r].input # 0 => run[r].input \in Inputs
  BY <1>3 DEF Inputs
<1>5. run[r].input # 0 => run[r].input <= talk'[run[r].work].inputs
  <2>1. /\ talk[run[r].work].inputs \in 0..MaxInputs
        /\ talk'[run[r].work].inputs \in 0..MaxInputs
    BY <1>2 DEF Stored, TalkType
  <2>2. talk[run[r].work].inputs <= talk'[run[r].work].inputs
    BY <1>2 DEF Onward
  <2>3. run[r].input # 0 => run[r].input <= talk[run[r].work].inputs
    BY <1>1 DEF RunFits
  <2> QED
    BY <1>3, <2>1, <2>2, <2>3
<1>6. run'[r].pc = "respond" => task'[run[r].work][run[r].input] = "completed"
  <2>1. "respond" \in Asking
    BY DEF Asking
  <2> QED
    BY <1>2, <1>4, <2>1 DEF Onward, TaskOf
<1> QED
  BY <1>2, <1>5, <1>6 DEF RunFits, TaskOf

LEMMA SameRunKept ==
  ASSUME Stored, Stored', Running, Onward, NEW r \in Runs, run'[r] = run[r]
  PROVE  RunFits(r)'
<1>1. RunFits(r) /\ run[r] \in RunType
  BY DEF Running
<1>2. CASE run[r].pc # "none"
  BY <1>1, <1>2, RunKept DEF RunFits
<1>3. CASE run[r].pc = "none"
  <2>1. run[r].input # 0 =>
          run[r].work \in Works /\ run[r].input <= talk[run[r].work].inputs
    BY <1>1 DEF RunFits
  <2>2. run[r].input # 0 => run[r].input <= talk'[run[r].work].inputs
    <3> SUFFICES ASSUME run[r].input # 0 PROVE run[r].input <= talk'[run[r].work].inputs
      OBVIOUS
    <3>1. /\ talk[run[r].work].inputs \in 0..MaxInputs
          /\ talk'[run[r].work].inputs \in 0..MaxInputs
          /\ talk[run[r].work].inputs <= talk'[run[r].work].inputs
      BY <2>1 DEF Stored, TalkType, Onward
    <3>2. run[r].input \in 0..MaxInputs
      BY <1>1 DEF RunType
    <3> QED
      BY <2>1, <3>1, <3>2
  <2> QED
    BY <1>3, <2>1, <2>2 DEF RunFits, Asking
<1> QED
  BY <1>2, <1>3

LEMMA TalkKept ==
  ASSUME Stored, Onward, NEW w \in Works, TalkFits(w), talk'[w] = talk[w],
         row'[w].status = "none" => row[w].status = "none"
  PROVE  TalkFits(w)'
BY DEF TalkFits, Onward

LEMMA TalksKept ==
  ASSUME WorkInv, Onward, UNCHANGED talk,
         \A w \in Works : row'[w].status = "none" => row[w].status = "none"
  PROVE  \A w \in Works : TalkFits(w)'
BY TalkKept DEF WorkInv

\* The runs, their messages and the registry when no run moves.
LEMMA RunningKept ==
  ASSUME Stored, Stored', Running, Onward, UNCHANGED <<run, ctl>>
  PROVE  Running'
<1>1. \A r \in Runs : RunFits(r)'
  BY SameRunKept
<1> QED
  BY <1>1 DEF Running, Registered

LEMMA SetStatusRow ==
  ASSUME Stored, NEW w \in Works, NEW from, NEW to \in Statuses \ {"none"},
         SetStatus(w, from, to)
  PROVE  /\ row' \in [Works -> RowType]
         /\ \A v \in Works : row'[v].status = "none" => row[v].status = "none"
<1>1. row \in [Works -> RowType] /\ row[w] \in RowType
  BY DEF Stored
<1> DEFINE x == [row[w] EXCEPT !.status = to]
<1>2. x \in RowType /\ x.status = to
  BY <1>1 DEF RowType
<1>3. row' = row \/ row' = [row EXCEPT ![w] = x]
  BY DEF SetStatus
<1> HIDE DEF x
<1> QED
  BY <1>1, <1>2, <1>3

-----------------------------------------------------------------------------
(* Requests *)

LEMMA RequestInv ==
  ASSUME WorkInv, NEW w \in Works, Request(w)
  PROVE  WorkInv'
<1>0. /\ row \in [Works -> RowType] /\ talk \in [Works -> TalkType]
      /\ task \in [Works -> [Inputs -> TaskType]]
      /\ route \in [Works -> {"none", "cancelling", "stopped", "finalize"}]
      /\ requests \in 0..MaxRequests
      /\ row[w] \in RowType /\ talk[w] \in TalkType
      /\ TalkFits(w) /\ Stored /\ Running
  BY DEF WorkInv, Stored
<1>1. UNCHANGED <<task, run, active, ctl, stopping, restarts>>
  BY DEF Request, CreateWorkSession, AppendWorkSessionInput, ResumeWorkSession, CancelWorkSession
<1>2. requests' \in 0..MaxRequests
  <2>1. UNCHANGED requests \/ CountRequest
    BY DEF Request, CreateWorkSession, AppendWorkSessionInput, ResumeWorkSession,
           CancelWorkSession
  <2>2. MaxRequests \in Nat
    OBVIOUS
  <2> QED
    BY <1>0, <2>1, <2>2 DEF CountRequest
<1>3. route' \in [Works -> {"none", "cancelling", "stopped", "finalize"}]
  BY <1>0 DEF Request, CreateWorkSession, AppendWorkSessionInput, ResumeWorkSession,
              CancelWorkSession
\* A session and its first message, or one more message.
<1>4. ASSUME NEW n \in 1..MaxInputs, n = talk[w].inputs + 1,
             talk' = [talk EXCEPT ![w].inputs = n, ![w].open = TRUE],
             row' \in [Works -> RowType], row'[w].status = "queued",
             \A v \in Works \ {w} : row'[v] = row[v]
      PROVE  WorkInv'
  <2> DEFINE x == [talk[w] EXCEPT !.inputs = n, !.open = TRUE]
  <2>n. n \in 0..MaxInputs /\ n > 0 /\ row'[w].status = "queued"
    BY <1>4
  <2>1. x \in TalkType /\ x.inputs = n /\ x.open /\ x.answers = talk[w].answers
    BY <1>0, <2>n DEF TalkType
  <2>2. talk' = [talk EXCEPT ![w] = x]
    BY <1>0, <1>4
  <2> HIDE DEF x
  <2>3. talk'[w] = x /\ \A v \in Works \ {w} : talk'[v] = talk[v]
    BY <1>0, <2>2
  <2>4. Stored'
    BY <1>0, <1>1, <1>2, <1>3, <1>4, <2>1, <2>2 DEF Stored
  <2>5. talk[w].inputs \in 0..MaxInputs /\ talk[w].answers \in [Inputs -> Nat]
    BY <1>0 DEF TalkType
  <2>6. Onward
    <3>1. ASSUME NEW v \in Works PROVE talk[v].inputs <= talk'[v].inputs
      <4>1. CASE v = w
        BY <1>4, <2>1, <2>3, <2>5, <4>1
      <4>2. CASE v # w
        BY <1>0, <2>3, <4>2 DEF TalkType
      <4> QED
        BY <4>1, <4>2
    <3> QED
      BY <1>1, <3>1 DEF Onward
  <2>7. TalkFits(w)'
    <3>1. n \in Inputs
      BY DEF Inputs
    <3>2. talk[w].answers[n] = 0
      <4>1. talk[w].answers[n] > 0 => n <= talk[w].inputs
        BY <1>0, <3>1 DEF TalkFits
      <4>2. talk[w].answers[n] \in Nat
        BY <2>5, <3>1
      <4> QED
        BY <1>4, <2>5, <4>1, <4>2
    <3>3. \A m \in Inputs :
            talk'[w].answers[m] > 0 => m <= talk'[w].inputs /\ task'[w][m] = "completed"
      <4>1. \A m \in Inputs : m <= talk[w].inputs => m <= n
        BY <1>4, <2>5 DEF Inputs
      <4> QED
        BY <1>0, <1>1, <2>1, <2>3, <4>1 DEF TalkFits
    <3> QED
      BY <2>n, <2>1, <2>3, <3>2, <3>3 DEF TalkFits
  <2>8. ASSUME NEW v \in Works PROVE TalkFits(v)'
    <3>1. CASE v = w
      BY <2>7, <3>1
    <3>2. CASE v # w
      BY <1>0, <1>4, <2>3, <2>6, <3>2, TalkKept DEF WorkInv
    <3> QED
      BY <3>1, <3>2
  <2> QED
    BY <1>0, <1>1, <2>4, <2>6, <2>8, RunningKept DEF WorkInv
<1>5. ASSUME UNCHANGED talk, row' \in [Works -> RowType],
             \A v \in Works : row'[v].status = "none" => row[v].status = "none"
      PROVE  WorkInv'
  <2>1. Stored'
    BY <1>0, <1>1, <1>2, <1>3, <1>5 DEF Stored
  <2>2. Onward
    BY <1>0, <1>1, <1>5, OnwardIf
  <2>3. \A v \in Works : TalkFits(v)'
    BY <1>5, <2>2, TalksKept
  <2> QED
    BY <1>0, <1>1, <2>1, <2>2, <2>3, RunningKept DEF WorkInv
<1>q. [status |-> "queued", cancel |-> FALSE] \in RowType
  BY DEF RowType, Statuses
<1>6. CASE CreateWorkSession(w)
  <2> DEFINE y == [row[w] EXCEPT !.status = "queued"]
  <2>1. y \in RowType /\ y.status = "queued" /\ row' = [row EXCEPT ![w] = y]
    BY <1>0, <1>6 DEF RowType, Statuses, CreateWorkSession
  <2>2. talk[w].inputs = 0 /\ MaxInputs >= 1
    BY <1>0, <1>6 DEF CreateWorkSession, TalkFits
  <2> HIDE DEF y
  <2>3. row' \in [Works -> RowType] /\ row'[w].status = "queued"
        /\ \A v \in Works \ {w} : row'[v] = row[v]
    BY <1>0, <2>1
  <2> DEFINE n == 1
  <2>4. n \in 1..MaxInputs /\ n = talk[w].inputs + 1
        /\ talk' = [talk EXCEPT ![w].inputs = n, ![w].open = TRUE]
    BY <1>6, <2>2 DEF CreateWorkSession
  <2> HIDE DEF n
  <2> QED
    BY <1>4, <2>3, <2>4
<1>7. CASE AppendWorkSessionInput(w)
  <2>1. row' = [row EXCEPT ![w] = [status |-> "queued", cancel |-> FALSE]]
    BY <1>7 DEF AppendWorkSessionInput
  <2>2. row' \in [Works -> RowType] /\ row'[w].status = "queued"
        /\ \A v \in Works \ {w} : row'[v] = row[v]
    BY <1>0, <1>q, <2>1
  <2> DEFINE n == talk[w].inputs + 1
  <2>3. n \in 1..MaxInputs /\ n = talk[w].inputs + 1
    BY <1>0, <1>7 DEF AppendWorkSessionInput, TalkType
  <2>4. talk' = [talk EXCEPT ![w].inputs = n, ![w].open = TRUE]
    BY <1>7 DEF AppendWorkSessionInput
  <2> HIDE DEF n
  <2> QED
    BY <1>4, <2>2, <2>3, <2>4
<1>8. CASE ResumeWorkSession(w)
  <2>1. row' = [row EXCEPT ![w] = [status |-> "queued", cancel |-> FALSE]] /\ UNCHANGED talk
    BY <1>8 DEF ResumeWorkSession
  <2>2. row' \in [Works -> RowType]
        /\ \A v \in Works : row'[v].status = "none" => row[v].status = "none"
    BY <1>0, <1>q, <2>1
  <2> QED
    BY <1>5, <2>1, <2>2
<1>9. CASE CancelWorkSession(w)
  <2>1. /\ [status |-> "cancelling", cancel |-> TRUE] \in RowType
        /\ [status |-> "idle", cancel |-> TRUE] \in RowType
    BY DEF RowType, Statuses
  <2>2. \/ row' = [row EXCEPT ![w] = [status |-> "cancelling", cancel |-> TRUE]]
        \/ row' = [row EXCEPT ![w] = [status |-> "idle", cancel |-> TRUE]]
        \/ row' = row
    BY <1>9 DEF CancelWorkSession
  <2>3. row' \in [Works -> RowType]
        /\ \A v \in Works : row'[v].status = "none" => row[v].status = "none"
    <3>1. CASE row' = [row EXCEPT ![w] = [status |-> "cancelling", cancel |-> TRUE]]
      BY <1>0, <2>1, <3>1
    <3>2. CASE row' = [row EXCEPT ![w] = [status |-> "idle", cancel |-> TRUE]]
      BY <1>0, <2>1, <3>2
    <3> QED
      BY <1>0, <2>2, <3>1, <3>2
  <2>4. UNCHANGED talk
    BY <1>9 DEF CancelWorkSession
  <2> QED
    BY <1>5, <2>3, <2>4
<1> QED
  BY <1>6, <1>7, <1>8, <1>9 DEF Request

-----------------------------------------------------------------------------
(* Runs *)

\* One run moves; the others and what is registered of them stay.
LEMMA OneRun ==
  ASSUME Stored, Stored', Running, Onward, NEW r \in Runs, NEW e \in RunType,
         run' = [run EXCEPT ![r] = e], RunFits(r)',
         ctl' \in [Works -> Runs \cup {"none"}], \A v \in Works : Registered(v)'
  PROVE  Running'
<1>1. run' \in [Runs -> RunType] /\ \A s \in Runs \ {r} : run'[s] = run[s]
  BY DEF Running
<1>2. ASSUME NEW s \in Runs PROVE RunFits(s)'
  <2>1. CASE s = r
    BY <2>1
  <2>2. CASE s # r
    BY <1>1, <2>2, SameRunKept
  <2> QED
    BY <2>1, <2>2
<1> QED
  BY <1>1, <1>2 DEF Running

LEMMA RegistryKept ==
  ASSUME Running, UNCHANGED ctl
  PROVE  ctl' \in [Works -> Runs \cup {"none"}]
BY DEF Running

\* A run goes on from one await to the next.
LEMMA GoesOn ==
  ASSUME Stored, Stored', Running, Onward, NEW r \in Runs,
         NEW pc \in Points \ {"none", "read"}, Goto(r, pc), run[r].pc # "none",
         pc \in Asking => run[r].input # 0,
         pc = "respond" => TaskOf(r) = "completed",
         ctl' \in [Works -> Runs \cup {"none"}],
         \A v \in Works : ctl'[v] = ctl[v] \/ ctl'[v] = "none",
         pc \in {"settle", "leave"} => \A v \in Works : ctl'[v] # r \/ ctl'[v] = "none"
  PROVE  Running'
<1>0. run \in [Runs -> RunType] /\ run[r] \in RunType
  BY DEF Running
<1> DEFINE e == [run[r] EXCEPT !.pc = pc]
<1>1. /\ e \in RunType /\ e.pc = pc /\ e.work = run[r].work /\ e.input = run[r].input
  BY <1>0 DEF RunType
<1>2. run' = [run EXCEPT ![r] = e]
  BY DEF Goto
<1> HIDE DEF e
<1>3. run'[r] = e /\ \A s \in Runs \ {r} : run'[s] = run[s]
  BY <1>0, <1>2
<1>4. RunFits(r)'
  BY <1>1, <1>3, RunKept
<1>5. ASSUME NEW v \in Works PROVE Registered(v)'
  <2>1. Registered(v)
    BY DEF Running
  <2> QED
    BY <1>1, <1>3, <2>1 DEF Registered
<1> QED
  BY <1>1, <1>2, <1>4, <1>5, OneRun

\* Nothing but the place of a run changes.
LEMMA OnlyGoesOn ==
  ASSUME WorkInv, NEW r \in Runs, NEW pc \in Points \ {"none", "read"}, Goto(r, pc),
         run[r].pc # "none",
         pc \in Asking => run[r].input # 0,
         pc = "respond" => TaskOf(r) = "completed",
         pc \in {"settle", "leave"} => \A v \in Works : ctl[v] # r \/ ctl[v] = "none",
         UNCHANGED <<row, talk, task, active, ctl, route, stopping, requests, restarts>>
  PROVE  WorkInv'
<1>1. Stored /\ Running /\ Stored' /\ Onward
  BY OnwardIf DEF WorkInv, Stored
<1>2. \A w \in Works : TalkFits(w)'
  BY <1>1, TalksKept
<1>3. Running'
  BY <1>1, RegistryKept, GoesOn
<1> QED
  BY <1>1, <1>2, <1>3 DEF WorkInv

\* A run that has not registered, or has unregistered, is in nobody's registry.
LEMMA NotRegistered ==
  ASSUME Running, NEW r \in Runs, run[r].pc \in {"none", "read", "settle", "leave"}
  PROVE  \A v \in Works : ctl[v] # r \/ ctl[v] = "none"
BY DEF Running, Registered

\* Aborting a run changes no more than its signal.
LEMMA SignalKept ==
  ASSUME Stored, Stored', Running, Onward, UNCHANGED ctl,
         run' \in [Runs -> RunType],
         \A s \in Runs : /\ run'[s].pc = run[s].pc /\ run'[s].work = run[s].work
                         /\ run'[s].input = run[s].input
  PROVE  Running'
<1>1. ASSUME NEW s \in Runs PROVE RunFits(s)'
  <2>0. RunFits(s) /\ run[s] \in RunType /\ run'[s] \in RunType
    BY DEF Running
  <2>1. CASE run[s].pc # "none"
    BY <2>0, <2>1, RunKept DEF RunFits
  <2>2. CASE run[s].pc = "none"
    <3>1. run[s].input # 0 =>
            run[s].work \in Works /\ run[s].input <= talk[run[s].work].inputs
      BY <2>0 DEF RunFits
    <3>2. run[s].input # 0 => run[s].input <= talk'[run[s].work].inputs
      <4> SUFFICES ASSUME run[s].input # 0 PROVE run[s].input <= talk'[run[s].work].inputs
        OBVIOUS
      <4>1. /\ talk[run[s].work].inputs \in 0..MaxInputs
            /\ talk'[run[s].work].inputs \in 0..MaxInputs
            /\ talk[run[s].work].inputs <= talk'[run[s].work].inputs
        BY <3>1 DEF Stored, TalkType, Onward
      <4>2. run[s].input \in 0..MaxInputs
        BY <2>0 DEF RunType
      <4> QED
        BY <3>1, <4>1, <4>2
    <3> QED
      BY <2>2, <3>1, <3>2 DEF RunFits, Asking
  <2> QED
    BY <2>1, <2>2
<1>2. ASSUME NEW v \in Works PROVE Registered(v)'
  BY DEF Running, Registered
<1> QED
  BY <1>1, <1>2 DEF Running

LEMMA CancelRouteInv ==
  ASSUME WorkInv, NEW w \in Works, CancelRoute(w)
  PROVE  WorkInv'
<1>0. Stored /\ Running /\ run \in [Runs -> RunType]
  BY DEF WorkInv, Running
<1>1. CASE AbortWorkRun(w)
  <2>1. UNCHANGED <<row, talk, task, active, ctl, stopping, requests, restarts>>
    BY <1>1 DEF AbortWorkRun
  <2>2. route' \in [Works -> {"none", "cancelling", "stopped", "finalize"}]
    BY <1>0, <1>1 DEF AbortWorkRun, Stored
  <2>3. Stored' /\ Onward
    BY <1>0, <2>1, <2>2, OnwardIf DEF Stored
  <2>4. \A v \in Works : TalkFits(v)'
    BY <2>1, <2>3, TalksKept
  <2>5. Running'
    <3>1. CASE ctl[w] \in Runs
      <4> DEFINE e == [run[ctl[w]] EXCEPT !.aborted = TRUE]
      <4>1. /\ e \in RunType /\ e.pc = run[ctl[w]].pc /\ e.work = run[ctl[w]].work
            /\ e.input = run[ctl[w]].input
        BY <1>0, <3>1 DEF RunType
      <4>2. run' = [run EXCEPT ![ctl[w]] = e]
        BY <1>1, <3>1 DEF AbortWorkRun, AbortRun
      <4> HIDE DEF e
      <4>3. /\ run' \in [Runs -> RunType]
            /\ \A s \in Runs : /\ run'[s].pc = run[s].pc /\ run'[s].work = run[s].work
                               /\ run'[s].input = run[s].input
        BY <1>0, <3>1, <4>1, <4>2
      <4> QED
        BY <1>0, <2>1, <2>3, <4>3, SignalKept
    <3>2. CASE ctl[w] \notin Runs
      <4>1. UNCHANGED <<run, ctl>>
        BY <1>1, <2>1, <3>2 DEF AbortWorkRun, AbortRun
      <4> QED
        BY <1>0, <2>3, <4>1, RunningKept
    <3> QED
      BY <3>1, <3>2
  <2> QED
    BY <2>3, <2>4, <2>5 DEF WorkInv
<1>2. CASE FinalizeCancellation(w)
  <2>1. /\ UNCHANGED <<talk, task, run, active, ctl, stopping, requests, restarts>>
        /\ SetStatus(w, {"cancelling"}, "idle")
        /\ route' = [route EXCEPT ![w] = "none"]
    BY <1>2 DEF FinalizeCancellation
  <2>2. /\ row' \in [Works -> RowType]
        /\ \A v \in Works : row'[v].status = "none" => row[v].status = "none"
    BY <1>0, <2>1, SetStatusRow DEF Statuses
  <2>3. Stored' /\ Onward
    BY <1>0, <2>1, <2>2, OnwardIf DEF Stored
  <2> QED
    BY <1>0, <2>1, <2>2, <2>3, TalksKept, RunningKept DEF WorkInv
<1> QED
  BY <1>1, <1>2 DEF CancelRoute

\* The oldest of the claimable sessions is one of them.
LEMMA LeastNat ==
  ASSUME NEW S \in SUBSET Nat, S # {}
  PROVE  Min(S) \in S
<1> DEFINE R == {ss \in Nat \X Nat : ss[1] < ss[2]}
<1>1. IsWellFoundedOn(R, Nat)
  BY NatLessThanWellFounded, Zenon DEF OpToRel
<1> HIDE DEF R
<1>2. \E n \in S : \A m \in S : ~(<<m, n>> \in R)
  BY <1>1, WFMin
<1>3. PICK n \in S : \A m \in S : ~(<<m, n>> \in R)
  BY <1>2
<1>4. \A m \in S : ~(m < n)
  BY <1>3 DEF R
<1>5. \A m \in S : n <= m
  BY <1>4
<1> QED
  BY <1>5 DEF Min

LEMMA ClaimInv ==
  ASSUME WorkInv, ClaimNextWork
  PROVE  WorkInv'
<1>0. Stored /\ Running /\ run \in [Runs -> RunType]
  BY DEF WorkInv, Running
<1>1. PICK w \in Works : w = Min(Claimable)
  <2>1. Claimable \in SUBSET Nat /\ Claimable # {} /\ Claimable \subseteq Works
    BY DEF Claimable, ClaimNextWork
  <2> QED
    BY <2>1, LeastNat
<1>2. PICK r \in Runs : r = Free /\ run[r].pc = "none"
  BY DEF Free, ClaimNextWork
<1> DEFINE e == [NoRun EXCEPT !.pc = "read", !.work = w]
<1>n. NoRun \in RunType /\ NoRun.input = 0
  BY DEF NoRun, RunType, Points
<1>3. e \in RunType /\ e.pc = "read" /\ e.work = w /\ e.input = 0
  BY <1>n DEF RunType, Points
<1>4. /\ UNCHANGED <<talk, task, ctl, route, stopping, requests, restarts>>
      /\ SetStatus(w, {"queued"}, "running") /\ active' = active \cup {w}
  BY <1>1 DEF ClaimNextWork
<1>5. run' = [run EXCEPT ![r] = e]
  BY <1>1, <1>2 DEF ClaimNextWork
<1> HIDE DEF e
<1>6. /\ row' \in [Works -> RowType]
      /\ \A v \in Works : row'[v].status = "none" => row[v].status = "none"
  BY <1>0, <1>1, <1>4, SetStatusRow DEF Statuses
<1>7. Stored' /\ Onward
  BY <1>0, <1>1, <1>4, <1>6, OnwardIf DEF Stored
<1>8. run'[r] = e /\ \A s \in Runs \ {r} : run'[s] = run[s]
  BY <1>0, <1>2, <1>5
<1>9. RunFits(r)'
  BY <1>1, <1>3, <1>8 DEF RunFits, Asking
<1>10. \A v \in Works : Registered(v)'
  BY <1>0, <1>2, <1>4, <1>8 DEF Running, Registered
<1>11. Running'
  BY <1>0, <1>2, <1>3, <1>4, <1>5, <1>7, <1>9, <1>10, RegistryKept, OneRun
<1> QED
  BY <1>4, <1>6, <1>7, <1>11, TalksKept DEF WorkInv

-----------------------------------------------------------------------------
(* The steps of a run *)

LEMMA RunParts ==
  ASSUME WorkInv, NEW r \in Runs
  PROVE  /\ Stored /\ Running /\ RunFits(r)
         /\ run \in [Runs -> RunType] /\ run[r] \in RunType
         /\ run[r].pc # "none" => run[r].work \in Works
BY DEF WorkInv, Running, RunFits

\* Reading the session: the run registers and takes the message that is open.
LEMMA ReadInv ==
  ASSUME WorkInv, NEW r \in Runs, ReadWork(r)
  PROVE  WorkInv'
<1>0. /\ Stored /\ Running /\ RunFits(r) /\ run \in [Runs -> RunType] /\ run[r] \in RunType
      /\ run[r].work \in Works
  BY RunParts DEF ReadWork
<1>r. /\ run[r].pc = "read"
      /\ UNCHANGED <<row, talk, task, active, route, stopping, requests, restarts>>
  BY DEF ReadWork
<1>1. CASE row[run[r].work].status = "running"
  <2>1. PICK w \in Works : w = run[r].work
    BY <1>0
  <2> DEFINE n == IF talk[w].open THEN talk[w].inputs ELSE 0
  <2>2. talk[w].inputs \in 0..MaxInputs /\ talk[w].open \in BOOLEAN
    BY <1>0 DEF Stored, TalkType
  <2>3. PICK k \in 0..MaxInputs : k = n /\ k <= talk[w].inputs
    BY <2>2
  <2> DEFINE e == [run[r] EXCEPT !.pc = "check", !.input = k]
  <2>4. e \in RunType /\ e.pc = "check" /\ e.input = k /\ e.work = w
    BY <1>0, <2>1 DEF RunType, Points
  <2>5. run' = [run EXCEPT ![r] = e] /\ ctl' = [ctl EXCEPT ![w] = r]
    BY <1>0, <1>1, <2>1, <2>3 DEF ReadWork
  <2> HIDE DEF e, n
  <2>6. Stored' /\ Onward
    BY <1>0, <1>r, OnwardIf DEF Stored
  <2>7. run'[r] = e /\ \A s \in Runs \ {r} : run'[s] = run[s]
    BY <1>0, <2>5
  <2>8. RunFits(r)'
    BY <1>r, <2>1, <2>3, <2>4, <2>7 DEF RunFits, Asking
  <2>9. ASSUME NEW v \in Works PROVE Registered(v)'
    <3>1. Registered(v)
      BY <1>0 DEF Running
    <3>2. ctl'[v] # "none" => ctl'[v] = ctl[v] \/ (ctl'[v] = r /\ v = w)
      BY <2>5
    <3>3. CASE ctl'[v] = r /\ v = w
      BY <2>4, <2>7, <3>3 DEF Registered
    <3>4. CASE ctl'[v] = ctl[v]
      BY <1>r, <2>7, <3>1, <3>4 DEF Registered
    <3> QED
      BY <3>2, <3>3, <3>4 DEF Registered
  <2>11. ctl' \in [Works -> Runs \cup {"none"}]
    BY <1>0, <2>5 DEF Running
  <2>10. Running'
    BY <1>0, <2>4, <2>5, <2>6, <2>8, <2>9, <2>11, OneRun
  <2> QED
    BY <1>r, <2>6, <2>10, TalksKept DEF WorkInv
<1>2. CASE row[run[r].work].status # "running"
  <2>1. PICK pc \in {"settle", "leave"} : Goto(r, pc)
    BY <1>2 DEF ReadWork
  <2>2. UNCHANGED ctl
    BY <1>2 DEF ReadWork
  <2>3. pc \in Points \ {"none", "read"} /\ pc \notin Asking /\ pc # "respond"
    BY DEF Points, Asking
  <2> QED
    BY <1>0, <1>r, <2>1, <2>2, <2>3, NotRegistered, OnlyGoesOn
<1> QED
  BY <1>1, <1>2

\* The steps that change nothing but the place of the run.
LEMMA WaitingInv ==
  ASSUME WorkInv, NEW r \in Runs,
         \/ CheckWork(r) \/ ObserveSettled(r) \/ ObserveThrows(r) \/ ObserveRefused(r)
         \/ AwaitTask(r)
  PROVE  WorkInv'
<1>0. Running /\ RunFits(r) /\ run[r] \in RunType
  BY RunParts
<1>1. /\ UNCHANGED <<row, talk, task, active, ctl, route, stopping, requests, restarts>>
      /\ run[r].pc \in {"check", "observe", "await"}
  BY DEF CheckWork, ObserveSettled, ObserveThrows, ObserveRefused, AwaitTask
<1>2. run[r].pc \in Asking => run[r].input # 0
  BY <1>0 DEF RunFits
<1>3. PICK pc \in {"finally", "failed", "submit", "respond", "thrown"} :
        /\ Goto(r, pc)
        /\ pc \in Asking => run[r].input # 0
        /\ pc = "respond" => TaskOf(r) = "completed"
  <2>1. CASE CheckWork(r)
    <3>1. CASE row[run[r].work].status # "running"
      <4>1. Goto(r, "finally")
        BY <2>1, <3>1 DEF CheckWork
      <4> QED
        BY <4>1 DEF Asking
    <3>2. CASE row[run[r].work].status = "running" /\ run[r].input = 0
      <4>1. Goto(r, "failed")
        BY <2>1, <3>2 DEF CheckWork
      <4> QED
        BY <4>1 DEF Asking
    <3>3. CASE row[run[r].work].status = "running" /\ run[r].input # 0
      <4>1. Goto(r, "submit")
        BY <2>1, <3>3 DEF CheckWork
      <4> QED
        BY <3>3, <4>1
    <3> QED
      BY <3>1, <3>2, <3>3
  <2>2. CASE ObserveSettled(r)
    BY <1>2, <2>2 DEF ObserveSettled, Asking
  <2>3. CASE ObserveThrows(r) \/ ObserveRefused(r)
    BY <1>2, <2>3 DEF ObserveThrows, ObserveRefused, Asking
  <2>4. CASE AwaitTask(r)
    BY <2>4 DEF AwaitTask, Asking
  <2> QED
    BY <2>1, <2>2, <2>3, <2>4
<1>4. pc \in Points \ {"none", "read"} /\ pc \notin {"settle", "leave"}
  BY DEF Points
<1> QED
  BY <1>1, <1>3, <1>4, OnlyGoesOn

\* A step of a run that also writes one of the tasks of its session.
LEMMA TaskWritten ==
  ASSUME WorkInv, NEW r \in Runs, NEW pc \in {"observe", "await"}, Goto(r, pc),
         run[r].pc \in Asking, NEW x \in TaskType,
         task' = [task EXCEPT ![run[r].work] = [task[run[r].work] EXCEPT ![run[r].input] = x]],
         TaskOf(r) # "completed",
         UNCHANGED <<row, talk, active, ctl, route, stopping, requests, restarts>>
  PROVE  WorkInv'
<1>0. /\ Stored /\ Running /\ RunFits(r) /\ run[r] \in RunType
      /\ task \in [Works -> [Inputs -> TaskType]]
  BY RunParts DEF Stored
<1>1. run[r].work \in Works /\ run[r].input \in Inputs /\ run[r].pc # "none"
      /\ run[r].input # 0
  BY <1>0 DEF RunFits, RunType, Asking, Inputs
<1>2. /\ task' \in [Works -> [Inputs -> TaskType]]
      /\ \A w \in Works, m \in Inputs :
           task[w][m] = "completed" => task'[w][m] = "completed"
  BY <1>0, <1>1 DEF TaskOf
<1>3. Stored' /\ Onward
  BY <1>0, <1>2 DEF Stored, Onward, TalkType
<1>4. Running'
  BY <1>0, <1>1, <1>3, RegistryKept, GoesOn DEF Points
<1> QED
  BY <1>3, <1>4, TalksKept DEF WorkInv

LEMMA SubmitInv ==
  ASSUME WorkInv, NEW r \in Runs, SubmitAgentEntry(r)
  PROVE  WorkInv'
<1>0. Running /\ RunFits(r) /\ run[r] \in RunType
  BY RunParts
<1>1. /\ UNCHANGED <<row, talk, active, ctl, route, stopping, requests, restarts>>
      /\ run[r].pc = "submit" /\ run[r].pc \in Asking
  BY DEF SubmitAgentEntry, Asking
<1>2. run[r].input # 0
  BY <1>0, <1>1 DEF RunFits
<1>3. ASSUME NEW pc \in {"observe", "failed"}, Goto(r, pc), UNCHANGED task
      PROVE  WorkInv'
  <2>1. pc \in Points \ {"none", "read"} /\ pc \notin {"settle", "leave"} /\ pc # "respond"
    BY DEF Points
  <2> QED
    BY <1>1, <1>2, <1>3, <2>1, OnlyGoesOn
<1>4. ASSUME Goto(r, "observe"), TaskOf(r) = "none",
             task' = [task EXCEPT ![run[r].work][run[r].input] = "active"]
      PROVE  WorkInv'
  <2>1. "active" \in TaskType
    BY DEF TaskType, Unsettled
  <2>2. task' = [task EXCEPT ![run[r].work] =
                    [task[run[r].work] EXCEPT ![run[r].input] = "active"]]
    BY <1>4
  <2> QED
    BY <1>1, <1>4, <2>1, <2>2, TaskWritten
<1> QED
  BY <1>3, <1>4 DEF SubmitAgentEntry

LEMMA ThrownInv ==
  ASSUME WorkInv, NEW r \in Runs, Thrown(r)
  PROVE  WorkInv'
<1>0. Stored /\ Running /\ RunFits(r) /\ run[r] \in RunType
  BY RunParts
<1>1. /\ UNCHANGED <<row, talk, active, ctl, route, stopping, requests, restarts>>
      /\ run[r].pc = "thrown" /\ run[r].pc \in Asking
  BY DEF Thrown, Asking
<1>2. run[r].input # 0 /\ run[r].work \in Works /\ run[r].input \in Inputs
  BY <1>0, <1>1 DEF RunFits, RunType, Inputs
<1>3. ASSUME NEW pc \in {"await", "failed"}, Goto(r, pc), UNCHANGED task
      PROVE  WorkInv'
  <2>1. pc \in Points \ {"none", "read"} /\ pc \notin {"settle", "leave"} /\ pc # "respond"
    BY DEF Points
  <2> QED
    BY <1>1, <1>2, <1>3, <2>1, OnlyGoesOn
<1>4. ASSUME Goto(r, "await"), StopTask(r)
      PROVE  WorkInv'
  <2>1. task \in [Works -> [Inputs -> TaskType]]
    BY <1>0 DEF Stored
  <2>2. CASE TaskOf(r) = "active"
    <3>1. "stopping" \in TaskType
      BY DEF TaskType, Unsettled
    <3>2. task' = [task EXCEPT ![run[r].work] =
                      [task[run[r].work] EXCEPT ![run[r].input] = "stopping"]]
      BY <1>4, <2>2 DEF StopTask, TaskOf
    <3> QED
      BY <1>1, <1>4, <2>2, <3>1, <3>2, TaskWritten
  <2>3. CASE TaskOf(r) # "active"
    <3>1. task' = [task EXCEPT ![run[r].work] =
                      [task[run[r].work] EXCEPT ![run[r].input] = TaskOf(r)]]
      BY <1>4, <2>3 DEF StopTask, TaskOf
    <3>2. task' = task
      BY <1>2, <2>1, <3>1 DEF TaskOf
    <3> QED
      BY <1>3, <1>4, <3>2
  <2> QED
    BY <2>2, <2>3
<1> QED
  BY <1>3, <1>4 DEF Thrown

\* Writing an answer, or the trace of a turn that failed, closes what was open.
LEMMA SaidInv ==
  ASSUME WorkInv, NEW r \in Runs, AppendResult(r) \/ AppendTrace(r)
  PROVE  WorkInv'
<1>0. /\ Stored /\ Running /\ RunFits(r) /\ run[r] \in RunType /\ talk \in [Works -> TalkType]
      /\ run[r].work \in Works
  BY RunParts DEF Stored, AppendResult, AppendTrace
<1>1. /\ UNCHANGED <<row, task, active, ctl, route, stopping, requests, restarts>>
      /\ run[r].pc \in {"respond", "failed"}
  BY DEF AppendResult, AppendTrace
<1>2. PICK pc \in {"failed", "finish", "finally", "fail"} :
        Goto(r, pc) /\ (pc = "finish" => run[r].pc = "respond")
  BY DEF AppendResult, AppendTrace
<1>3. /\ pc \in Points \ {"none", "read"} /\ pc \notin {"settle", "leave"} /\ pc # "respond"
      /\ pc \in Asking => run[r].input # 0
  BY <1>0, <1>2 DEF Points, Asking, RunFits
<1>w. PICK w \in Works : w = run[r].work
  BY <1>0
<1>t. talk[w] \in TalkType /\ TalkFits(w)
  BY <1>0 DEF WorkInv
<1>4. CASE UNCHANGED talk
  BY <1>1, <1>2, <1>3, <1>4, OnlyGoesOn
<1>5. ASSUME NEW y \in TalkType, talk' = [talk EXCEPT ![w] = y], ~y.open,
             y.inputs = talk[w].inputs,
             \A m \in Inputs : y.answers[m] > 0 =>
               m <= talk[w].inputs /\ task[w][m] = "completed"
      PROVE  WorkInv'
  <2>1. talk'[w] = y /\ \A v \in Works \ {w} : talk'[v] = talk[v]
    BY <1>0, <1>5
  <2>2. Stored'
    BY <1>0, <1>1, <1>5 DEF Stored
  <2>3. Onward
    <3>1. ASSUME NEW v \in Works PROVE talk[v].inputs <= talk'[v].inputs
      <4>1. talk'[v].inputs = talk[v].inputs
        BY <1>5, <2>1
      <4>2. talk[v].inputs \in 0..MaxInputs
        BY <1>0 DEF TalkType
      <4> QED
        BY <4>1, <4>2
    <3> QED
      BY <1>1, <3>1 DEF Onward
  <2>4. ASSUME NEW v \in Works PROVE TalkFits(v)'
    <3>1. CASE v = w
      <4>1. row'[w] = row[w] /\ task' = task /\ talk'[w] = y
        BY <1>1, <2>1
      <4>2. row[w].status = "none" => y.inputs = 0
        BY <1>t, <1>5 DEF TalkFits
      <4> QED
        BY <1>5, <3>1, <4>1, <4>2 DEF TalkFits
    <3>2. CASE v # w
      BY <1>0, <1>1, <2>1, <2>3, <3>2, TalkKept DEF WorkInv
    <3> QED
      BY <3>1, <3>2
  <2>5. Running'
    BY <1>0, <1>1, <1>2, <1>3, <2>2, <2>3, RegistryKept, GoesOn
  <2> QED
    BY <2>2, <2>4, <2>5 DEF WorkInv
<1>6. ASSUME talk' = [talk EXCEPT ![w].open = FALSE]
      PROVE  WorkInv'
  <2> DEFINE y == [talk[w] EXCEPT !.open = FALSE]
  <2>1. y \in TalkType /\ ~y.open /\ y.inputs = talk[w].inputs /\ y.answers = talk[w].answers
    BY <1>t DEF TalkType
  <2>2. talk' = [talk EXCEPT ![w] = y]
    BY <1>0, <1>6
  <2> HIDE DEF y
  <2>3. \A m \in Inputs : y.answers[m] > 0 => m <= talk[w].inputs /\ task[w][m] = "completed"
    BY <1>t, <2>1 DEF TalkFits
  <2> QED
    BY <1>5, <2>1, <2>2, <2>3
<1>7. ASSUME run[r].pc = "respond",
             talk' = [talk EXCEPT ![w].open = FALSE, ![w].answers[run[r].input] = @ + 1]
      PROVE  WorkInv'
  <2>1. "respond" \in Asking
    BY DEF Asking
  <2>2. /\ run[r].input # 0 /\ run[r].input <= talk[w].inputs
        /\ task[w][run[r].input] = "completed"
    BY <1>0, <1>7, <1>w, <2>1 DEF RunFits, TaskOf
  <2>3. PICK i \in Inputs : i = run[r].input
    BY <1>0, <2>2 DEF RunType, Inputs
  <2>4. talk[w].answers \in [Inputs -> Nat]
    BY <1>t DEF TalkType
  <2>5. PICK n \in Nat : n = talk[w].answers[i] + 1
    BY <2>3, <2>4
  <2> DEFINE a == [talk[w].answers EXCEPT ![i] = n]
             y == [[talk[w] EXCEPT !.open = FALSE] EXCEPT !.answers = a]
  <2>6. a \in [Inputs -> Nat] /\ \A m \in Inputs \ {i} : a[m] = talk[w].answers[m]
    BY <2>4
  <2>7. talk' = [talk EXCEPT ![w] = y]
    BY <1>0, <1>7, <2>3, <2>5
  <2> HIDE DEF a
  <2>8. y \in TalkType /\ ~y.open /\ y.inputs = talk[w].inputs /\ y.answers = a
    BY <1>t, <2>6 DEF TalkType
  <2> HIDE DEF y
  <2>9. ASSUME NEW m \in Inputs, y.answers[m] > 0
        PROVE  m <= talk[w].inputs /\ task[w][m] = "completed"
    <3>1. CASE m = i
      BY <2>2, <2>3, <3>1
    <3>2. CASE m # i
      BY <1>t, <2>6, <2>8, <2>9, <3>2 DEF TalkFits
    <3> QED
      BY <3>1, <3>2
  <2> QED
    BY <1>5, <2>7, <2>8, <2>9
<1> QED
  BY <1>4, <1>6, <1>7, <1>w DEF AppendResult, AppendTrace

\* The end of a turn writes the status, only if nobody stopped it.
LEMMA StatusInv ==
  ASSUME WorkInv, NEW r \in Runs, FinishWork(r) \/ FailWork(r) \/ SettleCancellation(r)
  PROVE  WorkInv'
<1>0. Stored /\ Running /\ run[r].work \in Works /\ run[r].pc # "none"
  BY RunParts DEF FinishWork, FailWork, SettleCancellation
<1>1. UNCHANGED <<talk, task, active, ctl, route, stopping, requests, restarts>>
  BY DEF FinishWork, FailWork, SettleCancellation
<1>2. PICK from \in {{"running"}, {"cancelling"}}, to \in {"idle", "failed"} :
        SetStatus(run[r].work, from, to)
  BY DEF FinishWork, FailWork, SettleCancellation
<1>3. /\ row' \in [Works -> RowType]
      /\ \A v \in Works : row'[v].status = "none" => row[v].status = "none"
  BY <1>0, <1>2, SetStatusRow DEF Statuses
<1>4. Stored' /\ Onward
  BY <1>0, <1>1, <1>3, OnwardIf DEF Stored
<1>5. PICK pc \in {"finally", "leave"} : Goto(r, pc) /\ (pc = "leave" => run[r].pc = "settle")
  BY DEF FinishWork, FailWork, SettleCancellation
<1>6. pc \in Points \ {"none", "read"} /\ pc \notin Asking /\ pc # "respond" /\ pc # "settle"
  BY DEF Points, Asking
<1>7. Running'
  BY <1>0, <1>1, <1>4, <1>5, <1>6, NotRegistered, RegistryKept, GoesOn
<1> QED
  BY <1>1, <1>3, <1>4, <1>7, TalksKept DEF WorkInv

LEMMA LeavingInv ==
  ASSUME WorkInv, NEW r \in Runs, UnregisterWorkRun(r) \/ LeaveWork(r)
  PROVE  WorkInv'
<1>0. /\ Stored /\ Running /\ run[r].work \in Works /\ run[r].pc # "none"
      /\ run \in [Runs -> RunType]
  BY RunParts DEF UnregisterWorkRun, LeaveWork
<1>1. /\ UNCHANGED <<row, talk, task, route, stopping, requests, restarts>>
      /\ active' \subseteq active
  BY DEF UnregisterWorkRun, LeaveWork
<1>2. Stored' /\ Onward
  BY <1>0, <1>1, OnwardIf DEF Stored
<1>3. CASE UnregisterWorkRun(r)
  <2>1. /\ Goto(r, "settle")
        /\ ctl' = [ctl EXCEPT ![run[r].work] = IF ctl[run[r].work] = r THEN "none"
                                               ELSE ctl[run[r].work]]
    BY <1>3 DEF UnregisterWorkRun
  <2>2. \A v \in Works : ctl'[v] = ctl[v] \/ ctl'[v] = "none"
    BY <2>1
  <2>3. ASSUME NEW v \in Works PROVE ctl'[v] # r \/ ctl'[v] = "none"
    <3>1. Registered(v)
      BY <1>0 DEF Running
    <3>2. CASE v = run[r].work
      BY <1>0, <2>1, <3>2 DEF Running
    <3>3. CASE v # run[r].work
      BY <2>2, <3>1, <3>3 DEF Registered
    <3> QED
      BY <3>2, <3>3
  <2>4. "settle" \in Points \ {"none", "read"} /\ "settle" \notin Asking
    BY DEF Points, Asking
  <2>6. ctl' \in [Works -> Runs \cup {"none"}]
    BY <1>0, <2>1 DEF Running
  <2>5. Running'
    BY <1>0, <1>2, <2>1, <2>2, <2>3, <2>4, <2>6, GoesOn
  <2> QED
    BY <1>1, <1>2, <2>5, TalksKept DEF WorkInv
<1>4. CASE LeaveWork(r)
  <2>1. run[r].pc = "leave" /\ UNCHANGED ctl /\ run' = [run EXCEPT ![r] = NoRun]
    BY <1>4 DEF LeaveWork
  <2>2. NoRun \in RunType /\ NoRun.pc = "none" /\ NoRun.input = 0
    BY DEF NoRun, RunType, Points
  <2>3. run'[r] = NoRun /\ \A s \in Runs \ {r} : run'[s] = run[s]
    BY <1>0, <2>1
  <2>4. RunFits(r)'
    BY <2>2, <2>3 DEF RunFits, Asking
  <2>5. \A v \in Works : Registered(v)'
    BY <1>0, <2>1, <2>3, NotRegistered DEF Running, Registered
  <2>6. Running'
    BY <1>0, <1>2, <2>1, <2>2, <2>4, <2>5, RegistryKept, OneRun
  <2> QED
    BY <1>1, <1>2, <2>6, TalksKept DEF WorkInv
<1> QED
  BY <1>3, <1>4

-----------------------------------------------------------------------------
(* The process and the tasks *)

LEMMA StopInv ==
  ASSUME WorkInv, StopWorkCoordinator
  PROVE  WorkInv'
<1>0. Stored /\ Running /\ run \in [Runs -> RunType]
  BY DEF WorkInv, Running
<1>1. UNCHANGED <<row, talk, task, active, ctl, route, requests, restarts>> /\ stopping'
  BY DEF StopWorkCoordinator
<1>2. Stored' /\ Onward
  BY <1>0, <1>1, OnwardIf DEF Stored, StopWorkCoordinator
<1>3. \A s \in Runs : LET e == [run[s] EXCEPT !.aborted = TRUE] IN
        e \in RunType /\ e.pc = run[s].pc /\ e.work = run[s].work /\ e.input = run[s].input
  BY <1>0 DEF RunType
<1>4. run' = [s \in Runs |-> IF \E w \in active : ctl[w] = s
                             THEN [run[s] EXCEPT !.aborted = TRUE] ELSE run[s]]
  BY DEF StopWorkCoordinator
<1>5. /\ run' \in [Runs -> RunType]
      /\ \A s \in Runs : /\ run'[s].pc = run[s].pc /\ run'[s].work = run[s].work
                         /\ run'[s].input = run[s].input
  BY <1>0, <1>3, <1>4
<1>6. Running'
  BY <1>0, <1>1, <1>2, <1>5, SignalKept
<1> QED
  BY <1>1, <1>2, <1>6, TalksKept DEF WorkInv

LEMMA RestartInv ==
  ASSUME WorkInv, Restart
  PROVE  WorkInv'
<1>0. /\ Stored /\ row \in [Works -> RowType] /\ talk \in [Works -> TalkType]
      /\ task \in [Works -> [Inputs -> TaskType]] /\ restarts \in 0..MaxRestarts
  BY DEF WorkInv, Stored
<1>1. /\ UNCHANGED <<talk, requests>> /\ run' = [r \in Runs |-> NoRun] /\ active' = {}
      /\ ctl' = [w \in Works |-> "none"] /\ route' = [w \in Works |-> "none"]
      /\ stopping' = FALSE /\ restarts' = restarts + 1 /\ restarts < MaxRestarts
  BY DEF Restart
<1>2. \A w \in Works :
        LET x == [row[w] EXCEPT !.status = Reconciled(row[w].status)] IN
        x \in RowType /\ (x.status = "none" => row[w].status = "none")
  <2>1. \A st \in Statuses : Reconciled(st) \in Statuses /\ (Reconciled(st) = "none" => st = "none")
    BY DEF Statuses, Reconciled
  <2> QED
    BY <1>0, <2>1 DEF RowType
<1>3. row' = [w \in Works |-> [row[w] EXCEPT !.status = Reconciled(row[w].status)]]
  BY DEF Restart
<1>4. /\ row' \in [Works -> RowType]
      /\ \A w \in Works : row'[w].status = "none" => row[w].status = "none"
  BY <1>2, <1>3
<1>5. PICK lost \in SUBSET Works :
        task' = [w \in Works |->
                  [m \in Inputs |-> IF w \in lost /\ task[w][m] \in Unsettled THEN "failed"
                                    ELSE task[w][m]]]
  BY DEF Restart
<1>6. /\ task' \in [Works -> [Inputs -> TaskType]]
      /\ \A w \in Works, m \in Inputs :
           task[w][m] = "completed" => task'[w][m] = "completed"
  BY <1>0, <1>5 DEF TaskType, Terminal, Unsettled
<1>7. restarts' \in 0..MaxRestarts
  <2>1. restarts' = restarts + 1 /\ restarts < MaxRestarts /\ MaxRestarts \in Nat
    BY DEF Restart
  <2> QED
    BY <1>0, <2>1
<1>8. Stored' /\ Onward
  <2>1. /\ UNCHANGED <<talk, requests>> /\ active' \subseteq Works /\ stopping' \in BOOLEAN
        /\ route' \in [Works -> {"none", "cancelling", "stopped", "finalize"}]
    BY <1>1
  <2> QED
    BY <1>0, <1>4, <1>6, <1>7, <2>1 DEF Stored, Onward, TalkType
<1>9. Running'
  <2>1. NoRun \in RunType /\ NoRun.pc = "none" /\ NoRun.input = 0
    BY DEF NoRun, RunType, Points
  <2>2. run' \in [Runs -> RunType] /\ \A r \in Runs : run'[r] = NoRun
    BY <1>1, <2>1
  <2> QED
    BY <1>1, <2>1, <2>2 DEF Running, RunFits, Registered, Asking
<1> QED
  BY <1>1, <1>4, <1>8, <1>9, TalksKept DEF WorkInv

LEMMA TaskSettlesInv ==
  ASSUME WorkInv, NEW w \in Works, TaskSettles(w)
  PROVE  WorkInv'
<1>0. Stored /\ Running /\ task \in [Works -> [Inputs -> TaskType]]
  BY DEF WorkInv, Stored
<1>1. UNCHANGED <<row, talk, run, active, ctl, route, stopping, requests, restarts>>
  BY DEF TaskSettles
<1>2. PICK m \in Inputs, s \in Terminal :
        task[w][m] \in Unsettled /\ task' = [task EXCEPT ![w] = [task[w] EXCEPT ![m] = s]]
  BY DEF TaskSettles, Terminal, Unsettled
<1>3. /\ task' \in [Works -> [Inputs -> TaskType]]
      /\ \A v \in Works, i \in Inputs :
           task[v][i] = "completed" => task'[v][i] = "completed"
  BY <1>0, <1>2 DEF TaskType, Unsettled
<1>4. Stored' /\ Onward
  BY <1>0, <1>1, <1>3 DEF Stored, Onward, TalkType
<1> QED
  BY <1>0, <1>1, <1>4, RunningKept, TalksKept DEF WorkInv

-----------------------------------------------------------------------------
LEMMA WorkInit == Init => WorkInv
<1> SUFFICES ASSUME Init PROVE WorkInv
  OBVIOUS
<1>1. [status |-> "none", cancel |-> FALSE] \in RowType
  BY DEF RowType, Statuses
<1> DEFINE a == [m \in Inputs |-> 0]
           y == [inputs |-> 0, open |-> FALSE, answers |-> a]
<1>2. a \in [Inputs -> Nat] /\ \A m \in Inputs : a[m] = 0
  OBVIOUS
<1> HIDE DEF a
<1>3. y \in TalkType /\ y.inputs = 0 /\ ~y.open /\ y.answers = a
  BY <1>2 DEF TalkType
<1>4. talk = [w \in Works |-> y]
  BY DEF Init, a
<1> HIDE DEF y
<1>5. NoRun \in RunType /\ NoRun.pc = "none" /\ NoRun.input = 0
  BY DEF NoRun, RunType, Points
<1>6. Stored
  <2>1. "none" \in TaskType
    BY DEF TaskType
  <2>2. requests \in 0..MaxRequests /\ restarts \in 0..MaxRestarts
    BY DEF Init
  <2> QED
    BY <1>1, <1>3, <1>4, <2>1, <2>2 DEF Init, Stored
<1>7. Running
  BY <1>5 DEF Init, Running, RunFits, Registered, Asking
<1>8. \A w \in Works : TalkFits(w)
  BY <1>2, <1>3, <1>4 DEF TalkFits
<1> QED
  BY <1>6, <1>7, <1>8 DEF WorkInv

LEMMA WorkNext == WorkInv /\ [Next]_vars => WorkInv'
<1> SUFFICES ASSUME WorkInv, [Next]_vars PROVE WorkInv'
  OBVIOUS
<1>1. CASE UNCHANGED vars
  <2>1. /\ UNCHANGED <<row, talk, task, run, active, ctl, route, stopping, requests, restarts>>
    BY <1>1 DEF vars
  <2>2. Stored /\ Running /\ Stored' /\ Onward
    BY <2>1, OnwardIf DEF WorkInv, Stored
  <2> QED
    BY <2>1, <2>2, RunningKept, TalksKept DEF WorkInv
<1>2. ASSUME NEW w \in Works, Request(w) \/ CancelRoute(w) \/ TaskSettles(w)
      PROVE  WorkInv'
  BY <1>2, RequestInv, CancelRouteInv, TaskSettlesInv
<1>3. ASSUME NEW r \in Runs, ExecuteWork(r) \/ ObserveRefused(r)
      PROVE  WorkInv'
  BY <1>3, ReadInv, WaitingInv, SubmitInv, ThrownInv, SaidInv, StatusInv, LeavingInv
     DEF ExecuteWork
<1> QED
  BY <1>1, <1>2, <1>3, ClaimInv, StopInv, RestartInv DEF Next

LEMMA WorkAlways == Spec => []WorkInv
BY WorkInit, WorkNext, PTL DEF Spec

-----------------------------------------------------------------------------
(* What follows *)

\* Rows, tasks and runs keep their types, and a controller in __workRunControllers is
\* the one of a run of that session that has registered and not unregistered, however
\* runs of one session overlap.
THEOREM RegistryIsCurrent == Spec => []TypeOK
BY TypesFollow, WorkAlways, PTL

\* An answer in the transcript is the one of a task that completed, across restarts,
\* resumed sessions and runs of one session that overlap (agentEntryResult,
\* appendAssistantResult).
THEOREM AnswersAlwaysHonest == Spec => []AnswersAreHonest
<1>1. WorkInv => AnswersAreHonest
  BY DEF WorkInv, TalkFits, AnswersAreHonest
<1> QED
  BY <1>1, WorkAlways, PTL

\* A run gets from reading to checking by ReadWork alone.
LEMMA OnlyReadChecks ==
  ASSUME WorkInv, [Next]_vars, NEW r \in Runs, run[r].pc = "read", ~ReadWork(r)
  PROVE  run'[r].pc # "check"
<1>0. run \in [Runs -> RunType] /\ run[r] \in RunType
  BY RunParts
<1>1. ASSUME UNCHANGED run PROVE run'[r].pc # "check"
  BY <1>1
<1>2. ASSUME NEW s \in Runs \ {r}, NEW e, run' = [run EXCEPT ![s] = e]
      PROVE  run'[r].pc # "check"
  BY <1>0, <1>2
<1>3. ASSUME NEW s \in Runs, ExecuteWork(s) \/ ObserveRefused(s)
      PROVE  run'[r].pc # "check"
  <2>1. s # r
    BY <1>3 DEF ExecuteWork, CheckWork, SubmitAgentEntry, ObserveSettled, ObserveThrows,
       Thrown, AwaitTask, AppendResult, FinishWork, AppendTrace, FailWork,
       UnregisterWorkRun, SettleCancellation, LeaveWork, ObserveRefused
  <2>2. \E e : run' = [run EXCEPT ![s] = e]
    BY <1>3 DEF ExecuteWork, ReadWork, CheckWork, SubmitAgentEntry, ObserveSettled,
       ObserveThrows, Thrown, AwaitTask, AppendResult, FinishWork, AppendTrace, FailWork,
       UnregisterWorkRun, SettleCancellation, LeaveWork, ObserveRefused, Goto
  <2> QED
    BY <1>2, <2>1, <2>2
<1>4. ASSUME NEW w \in Works, Request(w) \/ CancelRoute(w) \/ TaskSettles(w)
      PROVE  run'[r].pc # "check"
  <2>1. CASE AbortWorkRun(w) /\ ctl[w] \in Runs
    <3>1. run' = [run EXCEPT ![ctl[w]].aborted = TRUE]
      BY <2>1 DEF AbortWorkRun, AbortRun
    <3> QED
      BY <1>0, <2>1, <3>1 DEF RunType
  <2>2. CASE ~(AbortWorkRun(w) /\ ctl[w] \in Runs)
    <3>1. UNCHANGED run
      BY <1>4, <2>2 DEF Request, CreateWorkSession, AppendWorkSessionInput,
         ResumeWorkSession, CancelWorkSession, CancelRoute, AbortWorkRun, AbortRun,
         FinalizeCancellation, TaskSettles
    <3> QED
      BY <1>1, <3>1
  <2> QED
    BY <2>1, <2>2
<1>5. CASE ClaimNextWork
  <2>1. PICK s \in Runs : s = Free /\ run[s].pc = "none"
    BY <1>5 DEF Free, ClaimNextWork
  <2>2. \E e : run' = [run EXCEPT ![s] = e]
    BY <1>5, <2>1 DEF ClaimNextWork
  <2> QED
    BY <1>2, <2>1, <2>2
<1>6. CASE StopWorkCoordinator
  <2>1. run'[r] = IF \E w \in active : ctl[w] = r THEN [run[r] EXCEPT !.aborted = TRUE]
                  ELSE run[r]
    BY <1>6 DEF StopWorkCoordinator
  <2>2. [run[r] EXCEPT !.aborted = TRUE].pc = run[r].pc
    BY <1>0 DEF RunType
  <2> QED
    BY <2>1, <2>2
<1>7. CASE Restart
  BY <1>7 DEF Restart, NoRun
<1>8. CASE UNCHANGED vars
  BY <1>1, <1>8 DEF vars
<1> QED
  BY <1>3, <1>4, <1>5, <1>6, <1>7, <1>8 DEF Next

\* No run of executeWork starts on a message that has its answer: what is open is the
\* last message, and whatever is said in the conversation closes it.
THEOREM RunsStartUnanswered == Spec => StartsUnanswered
<1>1. ASSUME WorkInv, [Next]_vars, NEW r \in Runs,
             run[r].pc = "read", run'[r].pc = "check", run'[r].input # 0
      PROVE  talk[run[r].work].answers[run'[r].input] = 0
  <2>0. /\ run \in [Runs -> RunType] /\ run[r] \in RunType /\ run[r].work \in Works
        /\ \A w \in Works : TalkFits(w)
    BY <1>1, RunParts DEF WorkInv
  <2>1. CASE ReadWork(r)
    <3>1. PICK w \in Works : w = run[r].work
      BY <2>0
    <3>2. talk[w].open \in BOOLEAN /\ talk[w].inputs \in 0..MaxInputs
      BY <1>1 DEF WorkInv, Stored, TalkType
    <3>3. PICK k \in 0..MaxInputs :
            k = IF talk[w].open THEN talk[w].inputs ELSE 0
      BY <3>2
    <3>4. CASE row[w].status = "running"
      <4> DEFINE e == [run[r] EXCEPT !.pc = "check", !.input = k]
      <4>1. e.input = k
        BY <2>0 DEF RunType
      <4>2. run' = [run EXCEPT ![r] = e]
        BY <2>0, <2>1, <3>1, <3>3, <3>4 DEF ReadWork
      <4> HIDE DEF e
      <4>3. run'[r].input = k
        BY <2>0, <4>1, <4>2
      <4>4. k # 0
        BY <1>1, <4>3
      <4>5. talk[w].open /\ k = talk[w].inputs
        BY <3>2, <3>3, <4>4
      <4>6. talk[w].answers[talk[w].inputs] = 0
        BY <2>0, <4>5 DEF TalkFits
      <4> QED
        BY <3>1, <4>3, <4>5, <4>6
    <3>5. CASE row[w].status # "running"
      <4>1. PICK pc \in {"settle", "leave"} : Goto(r, pc)
        BY <2>1, <3>1, <3>5 DEF ReadWork
      <4>2. run'[r].pc = pc
        BY <2>0, <4>1 DEF Goto, RunType
      <4> QED
        BY <1>1, <4>2
    <3> QED
      BY <3>4, <3>5
  <2>2. CASE ~ReadWork(r)
    BY <1>1, <2>2, OnlyReadChecks
  <2> QED
    BY <2>1, <2>2
<1>2. WorkInv /\ [Next]_vars =>
        [\A r \in Runs :
           /\ run[r].pc = "read" /\ run'[r].pc = "check"
           /\ run'[r].input # 0
           => talk[run[r].work].answers[run'[r].input] = 0]_vars
  BY <1>1
<1> QED
  BY <1>2, WorkAlways, PTL DEF Spec, StartsUnanswered

\* What a conditional update may do to a session that is being cancelled.
LEMMA StatusStands ==
  ASSUME WorkInv, NEW w \in Works, row[w].status = "cancelling", NEW v \in Works,
         NEW from, NEW to, SetStatus(v, from, to), "cancelling" \in from => to = "idle"
  PROVE  row'[w].status \in {"cancelling", "idle"}
<1>0. row \in [Works -> RowType]
  BY DEF WorkInv, Stored
<1>1. CASE v = w /\ "cancelling" \in from
  BY <1>0, <1>1 DEF SetStatus, RowType
<1>2. CASE v = w /\ "cancelling" \notin from
  BY <1>0, <1>2 DEF SetStatus, RowType
<1>3. CASE v # w
  BY <1>0, <1>3 DEF SetStatus, RowType
<1> QED
  BY <1>1, <1>2, <1>3

\* A stop stands: what FinishWork, FailWork, a restart, a resume or a new message
\* would write does not reach a session whose cancellation was requested.
THEOREM StopAlwaysStands == Spec => StopStands
<1>1. ASSUME WorkInv, [Next]_vars, NEW w \in Works, row[w].status = "cancelling"
      PROVE  row'[w].status \in {"cancelling", "idle"}
  <2>0. row \in [Works -> RowType]
    BY <1>1 DEF WorkInv, Stored
  <2>1. ASSUME UNCHANGED row PROVE row'[w].status \in {"cancelling", "idle"}
    BY <1>1, <2>1
  <2>2. ASSUME NEW v \in Works, Request(v)
        PROVE  row'[w].status \in {"cancelling", "idle"}
    <3>1. CASE v = w
      BY <1>1, <2>2, <3>1 DEF Request, CreateWorkSession, AppendWorkSessionInput,
                              ResumeWorkSession, CancelWorkSession
    <3>2. CASE v # w
      <4>1. (\E x : row' = [row EXCEPT ![v] = x]) \/ UNCHANGED row
        BY <2>2 DEF Request, CreateWorkSession, AppendWorkSessionInput,
                    ResumeWorkSession, CancelWorkSession
      <4> QED
        BY <1>1, <2>0, <3>2, <4>1
    <3> QED
      BY <3>1, <3>2
  <2>3. ASSUME NEW v \in Works, CancelRoute(v) \/ TaskSettles(v)
        PROVE  row'[w].status \in {"cancelling", "idle"}
    <3>1. CASE FinalizeCancellation(v)
      BY <1>1, <3>1, StatusStands DEF FinalizeCancellation
    <3>2. CASE ~FinalizeCancellation(v)
      BY <2>1, <2>3, <3>2 DEF CancelRoute, AbortWorkRun, TaskSettles
    <3> QED
      BY <3>1, <3>2
  <2>4. CASE ClaimNextWork
    <3>1. PICK v \in Works : v = Min(Claimable)
      <4>1. Claimable \in SUBSET Nat /\ Claimable # {} /\ Claimable \subseteq Works
        BY <2>4 DEF Claimable, ClaimNextWork
      <4> QED
        BY <4>1, LeastNat
    <3>2. SetStatus(v, {"queued"}, "running")
      BY <2>4, <3>1 DEF ClaimNextWork
    <3> QED
      BY <1>1, <3>2, StatusStands
  <2>5. ASSUME NEW r \in Runs, ExecuteWork(r) \/ ObserveRefused(r)
        PROVE  row'[w].status \in {"cancelling", "idle"}
    <3>1. CASE FinishWork(r) \/ FailWork(r) \/ SettleCancellation(r)
      <4>1. run[r].work \in Works
        BY <1>1, <3>1, RunParts DEF FinishWork, FailWork, SettleCancellation
      <4>2. \/ SetStatus(run[r].work, {"running"}, "idle")
            \/ SetStatus(run[r].work, {"running"}, "failed")
            \/ SetStatus(run[r].work, {"cancelling"}, "idle")
        BY <3>1 DEF FinishWork, FailWork, SettleCancellation
      <4> QED
        BY <1>1, <4>1, <4>2, StatusStands
    <3>2. CASE ~(FinishWork(r) \/ FailWork(r) \/ SettleCancellation(r))
      BY <2>1, <2>5, <3>2 DEF ExecuteWork, ReadWork, CheckWork, SubmitAgentEntry,
         ObserveSettled, ObserveThrows, Thrown, AwaitTask, AppendResult, AppendTrace,
         UnregisterWorkRun, LeaveWork, ObserveRefused
    <3> QED
      BY <3>1, <3>2
  <2>6. CASE Restart
    <3>1. row'[w] = [row[w] EXCEPT !.status = Reconciled(row[w].status)]
      BY <2>6 DEF Restart
    <3>2. Reconciled("cancelling") = "idle"
      BY DEF Reconciled
    <3> QED
      BY <1>1, <2>0, <3>1, <3>2 DEF RowType
  <2>7. CASE StopWorkCoordinator \/ UNCHANGED vars
    BY <2>1, <2>7 DEF StopWorkCoordinator, vars
  <2> QED
    BY <1>1, <2>2, <2>3, <2>4, <2>5, <2>6, <2>7 DEF Next
<1>2. WorkInv /\ [Next]_vars =>
        [\A w \in Works :
           row[w].status = "cancelling" => row'[w].status \in {"cancelling", "idle"}]_vars
  BY <1>1
<1> QED
  BY <1>2, WorkAlways, PTL DEF Spec, StopStands
=============================================================================
