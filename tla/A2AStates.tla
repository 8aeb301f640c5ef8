----------------------------- MODULE A2AStates -----------------------------
(***************************************************************************)
(* The states of an A2A task and the transitions between them, as          *)
(* src/lib/a2a/model.ts declares them.  "NONE" stands for a task that has  *)
(* not been submitted yet: no row of the A2ATask table.                    *)
(***************************************************************************)

Terminal == {"COMPLETED", "FAILED", "CANCELED", "REJECTED"}

Interrupted == {"INPUT_REQUIRED", "AUTH_REQUIRED"}

Active == {"SUBMITTED", "WORKING"}

States == Terminal \cup Interrupted \cup Active

\* A settled task will not move unless somebody outside acts on it.
Settled == Terminal \cup Interrupted

\* assertTransition: the moves a stored task may make.
CanTransition(from, to) ==
  \/ from = "SUBMITTED" /\ to \in Terminal \cup {"WORKING"}
  \/ from = "WORKING" /\ to \in Terminal \cup Interrupted
  \/ from \in Interrupted /\ to \in Terminal \cup {"SUBMITTED"}
=============================================================================
