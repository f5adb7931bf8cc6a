---------------------- MODULE MCWebsocketConnections ------------------------
(* Instances of WebsocketConnections for TLC: a connection that may open,    *)
(* send and close beside one of which a single buffer is read.               *)
EXTENDS WebsocketConnections

CONSTANTS c1, c2

Reads == [c \in Conns |-> IF c = c1 THEN 2 ELSE 1]
=============================================================================
