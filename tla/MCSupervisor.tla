----------------------------- MODULE MCSupervisor -----------------------------
(* Instances of Supervisor for TLC. *)
EXTENDS Supervisor

MadeFrom == [x \in Private |-> "mcp"]

\* One process that is asked three times.
Alone == {1}
ThreeAsks == <<3>>

\* Two processes that are asked once each; the second also recovers what the
\* first was asked for.
TwoProcs == {1, 2}
OneEach == <<1, 1>>
=============================================================================
