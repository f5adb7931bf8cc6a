----------------------------- MODULE MessageHub -----------------------------
(***************************************************************************)
(* What a MsgTools hub promises its clients, whatever transports and       *)
(* subscriptions are behind it: messages are published one at a time, a    *)
(* client that is a member at that moment may be given the message, and    *)
(* nobody is given a message twice or out of order.  An id that some       *)
(* client claimed as private goes only to those who claimed it and to the  *)
(* trusted (hardware) links, and it never becomes public again.            *)
(***************************************************************************)
EXTENDS Naturals, Sequences

CONSTANTS Client,    (* connections, each of which joins at most once        *)
          Id,        (* message ids                                          *)
          Trusted    (* the members that see private ids without a claim     *)

VARIABLES members,   (* the clients connected now                            *)
          claims,    (* claims[i]: the clients that claimed id i as private  *)
          published, (* the ids published so far, in order                   *)
          inbox      (* inbox[c]: the positions in published given to c      *)

vars == <<members, claims, published, inbox>>

Init == /\ members = {}
        /\ claims = [i \in Id |-> {}]
        /\ published = <<>>
        /\ inbox = [c \in Client |-> <<>>]

Join(c) == /\ members' = members \cup {c}
           /\ UNCHANGED <<claims, published, inbox>>

Leave(c) == /\ members' = members \ {c}
            /\ UNCHANGED <<claims, published, inbox>>

Claim(c, ids) ==
    /\ c \in members
    /\ claims' = [i \in Id |-> IF i \in ids THEN claims[i] \cup {c} ELSE claims[i]]
    /\ UNCHANGED <<members, published, inbox>>

(* The clients an id may be shown to. *)
Audience(i) == IF claims[i] = {} THEN Client ELSE claims[i] \cup Trusted

Publish(i, given) ==
    /\ given \subseteq members \cap Audience(i)
    /\ published' = Append(published, i)
    /\ inbox' = [c \in Client |-> IF c \in given
                                   THEN Append(inbox[c], Len(published'))
                                   ELSE inbox[c]]
    /\ UNCHANGED <<members, claims>>

Next == \/ \E c \in Client : Join(c) \/ Leave(c)
        \/ \E c \in Client, ids \in SUBSET Id : Claim(c, ids)
        \/ \E i \in Id, given \in SUBSET Client : Publish(i, given)

Spec == Init /\ [][Next]_vars
=============================================================================
