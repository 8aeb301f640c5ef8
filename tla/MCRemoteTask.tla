---------------------------- MODULE MCRemoteTask ----------------------------
(* Instances of RemoteTask for TLC. *)
EXTENDS RemoteTask
=============================================================================
