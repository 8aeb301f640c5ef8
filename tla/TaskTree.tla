------------------------------ MODULE TaskTree ------------------------------
(***************************************************************************)
(* What the A2A task store promises, without queues, leases, executors or  *)
(* processes: tasks move along the transitions of assertTransition, a task *)
(* is only admitted beneath ancestors that still want work, and whoever    *)
(* ends or is stopped takes everything beneath along in the same step.     *)
(***************************************************************************)
EXTENDS A2AStates

CONSTANT Tasks

VARIABLES
  st,     \* the state of each task
  stop,   \* running tasks that were asked to stop
  above   \* the ancestors of each task

treeVars == <<st, stop, above>>

Ended(t) == st[t] \in Terminal

Open(t) == st[t] \in Active \cup Interrupted /\ ~stop[t]

Below(t) == {d \in Tasks : t \in above[d]}

\* d is not working freely: never submitted, ended or asked to stop.
Quiet(d) == ~Open(d)

Same(S) == \A d \in S : st'[d] = st[d] /\ stop'[d] = stop[d]

Init ==
  /\ st = [t \in Tasks |-> "NONE"]
  /\ stop = [t \in Tasks |-> FALSE]
  /\ above = [t \in Tasks |-> {}]

Admit(t) ==
  /\ st[t] = "NONE"
  /\ st'[t] = "SUBMITTED" /\ ~stop'[t]
  /\ \A a \in above'[t] : Open(a)
  /\ \A d \in Tasks \ {t} : above'[d] = above[d]
  /\ Same(Tasks \ {t})

Move(t) ==
  /\ Open(t)
  /\ st'[t] \notin Terminal
  /\ CanTransition(st[t], st'[t])
  /\ ~stop'[t]
  /\ UNCHANGED above
  /\ Same(Tasks \ {t})

\* A task that completes has nothing open beneath it.
Complete(t) ==
  /\ Open(t)
  /\ CanTransition(st[t], "COMPLETED")
  /\ \A d \in Below(t) : Quiet(d)
  /\ st'[t] = "COMPLETED"
  /\ UNCHANGED above
  /\ Same(Tasks \ {t})

\* An open task below a halted one is cancelled, or asked to stop.
Halted(d) ==
  \/ st'[d] = "CANCELED" /\ ~stop'[d]
  \/ st'[d] = st[d] /\ stop'[d]

\* t fails, is cancelled or rejected, or is asked to stop.
Halt(t) ==
  /\ st[t] \in Active \cup Interrupted
  /\ \/ st'[t] \in Terminal \ {"COMPLETED"} /\ CanTransition(st[t], st'[t]) /\ ~stop'[t]
     \/ st'[t] = st[t] /\ stop'[t]
  /\ \A d \in Below(t) : Open(d) => Halted(d)
  /\ UNCHANGED above
  /\ Same({d \in Tasks \ {t} : t \notin above[d] \/ Quiet(d)})

Next == \E t \in Tasks : Admit(t) \/ Move(t) \/ Complete(t) \/ Halt(t)

Spec == Init /\ [][Next]_treeVars
=============================================================================
