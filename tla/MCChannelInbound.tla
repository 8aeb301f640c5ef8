--------------------------- MODULE MCChannelInbound ---------------------------
(* Instances of ChannelInbound for TLC. *)
EXTENDS ChannelInbound

\* One conversation of one channel.
OneQueue == [m \in Messages |-> "chat"]

OneChannel == [q \in Queues |-> "channel"]
=============================================================================
