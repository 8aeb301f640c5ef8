---------------------------- MODULE MCSandboxGate ----------------------------
EXTENDS SandboxGate

\* Two sessions of one Agent, each with a task.
OneAgent == [s \in Sessions |-> "agent"]
OwnSession == [t \in Turns |-> IF t = "t1" THEN "s1" ELSE "s2"]
TwoLimits == {[total |-> 1, perAgent |-> 1], [total |-> 2, perAgent |-> 2]}
=============================================================================
