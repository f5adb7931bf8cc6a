-------------------------- MODULE ConnectionEvents ---------------------------
(***************************************************************************)
(* What a connection manager of the Android server promises to its         *)
(* listeners (IConnectionMgrListener): a connection is announced once,     *)
(* then its messages come, and when its end has been told nothing more is. *)
(* The message router keeps its lists of connections by these calls alone. *)
(***************************************************************************)
EXTENDS Sequences

CONSTANT Conns   (* connections                                            *)

VARIABLE heard   (* the calls made for each connection, in their order      *)

Init == heard = [c \in Conns |-> <<>>]

Told(c, event) == heard' = [heard EXCEPT ![c] = Append(@, event)]

Live(c) == heard[c] # <<>> /\ heard[c][Len(heard[c])] # "closed"

New(c) == heard[c] = <<>> /\ Told(c, "new")
Message(c) == Live(c) /\ Told(c, "message")
Closed(c) == Live(c) /\ Told(c, "closed")

Next == \E c \in Conns : New(c) \/ Message(c) \/ Closed(c)

Spec == Init /\ [][Next]_heard
=============================================================================
