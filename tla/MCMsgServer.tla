----------------------------- MODULE MCMsgServer -----------------------------
(* An instance of MsgServer for TLC: a TCP client, a WebSocket and a         *)
(* hardware plugin, and lists and masks that select nothing or the one id.   *)
EXTENDS MsgServer, TLC

CONSTANTS t1, w1, h1, i1

MCLists == {{}, {i1}}
MCMasks == {{i1}}
MCNames == [n \in LogName |-> CASE n = "a.csv" -> "csv"
                                [] n = "a.log" -> "bin"
                                [] n = "b.json" -> "json"
                                [] OTHER -> Unmatched]

(* The bounds: three connections, two control operations and no log, or two  *)
(* connections, the log, and as many control operations as MaxControls       *)
(* allows, none of them a subscription.                                      *)
Routing == /\ controls <= 2
           /\ logFile = NoLog
           /\ \A n \in LogName : files[n] = <<>>

Logging == /\ link[w1] = "new"
           /\ \A c \in Client : /\ subscriptions[c] = {}
                                /\ matches[c] = IF c \in Plugin THEN Id ELSE {}
           /\ \A i \in Id : privateSubscriptions[i] = {}

(* The first conjunct, which the last implies, spares TLC most log messages. *)
MCNext == /\ ~Logging => logFile' = NoLog
          /\ Next
          /\ (Routing \/ Logging)'

MCSpec == Init /\ [][MCNext]_vars
==============================================================================
