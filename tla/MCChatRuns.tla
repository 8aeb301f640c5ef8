----------------------------- MODULE MCChatRuns -----------------------------
(* Instances of ChatRuns for TLC. *)
EXTENDS ChatRuns

CONSTANTS t1, c1, c2
=============================================================================
