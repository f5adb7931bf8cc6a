------------------------------ MODULE NodeLink ------------------------------
(***************************************************************************)
(* A link that carries messages from several nodes to one receiver, whole, *)
(* once, and each node's in the order it sent them; messages of different  *)
(* nodes may overtake each other.                                          *)
(***************************************************************************)
EXTENDS Naturals, Sequences

CONSTANTS Node, Msg

VARIABLES outbox,  (* outbox[n]: the messages n has sent, in order            *)
          arrived  (* arrived[n]: those of them the receiver has been given   *)

vars == <<outbox, arrived>>

Init == /\ outbox = [n \in Node |-> <<>>]
        /\ arrived = [n \in Node |-> <<>>]

Send(n, m) == /\ outbox' = [outbox EXCEPT ![n] = Append(@, m)]
              /\ UNCHANGED arrived

Deliver(n) ==
    /\ Len(arrived[n]) < Len(outbox[n])
    /\ arrived' = [arrived EXCEPT ![n] = Append(@, outbox[n][Len(@) + 1])]
    /\ UNCHANGED outbox

Next == \/ \E n \in Node, m \in Msg : Send(n, m)
        \/ \E n \in Node : Deliver(n)

Spec == Init /\ [][Next]_vars /\ \A n \in Node : WF_vars(Deliver(n))
=============================================================================
