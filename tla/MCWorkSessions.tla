---------------------------- MODULE MCWorkSessions ----------------------------
(* Instances of WorkSessions for TLC. *)
EXTENDS WorkSessions

OneAgent == [w \in Works |-> "a"]

\* The last session is the only one of Agent b.
TwoAgents == [w \in Works |-> IF w = Max(Works) THEN "b" ELSE "a"]
=============================================================================
