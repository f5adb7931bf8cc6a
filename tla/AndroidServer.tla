--------------------------- MODULE AndroidServer ---------------------------
(***************************************************************************)
(* The message router of the Android server (MessageRouterThread) with     *)
(* what it works on: the TCP connections and the selector thread that      *)
(* serves them (TCPConnectionMgr), the Bluetooth connections as            *)
(* BluetoothConnections presents them, each with its send queue, the log   *)
(* (MessageLogger) and the service's own thread (MsgServerService).        *)
(*                                                                         *)
(* A message is its place in the order in which the router's queue took    *)
(* them.  The router's queue is what it has received and not handled.      *)
(***************************************************************************)
EXTENDS MessageLogger

CONSTANTS TCP,         (* TCP connections ever made                          *)
          Bluetooth,   (* Bluetooth connections ever made                    *)
          QueueDepth,  (* MAX_QUEUE_DEPTH: 150 for TCP, 100 for Bluetooth    *)
          MaxMessages, (* bound: messages the router's queue takes           *)
          Asked        (* the requests about the log among them              *)

Conn == TCP \cup Bluetooth
NoConn == "no connection"

ASSUME ServerAssumption ==
    /\ TCP \cap Bluetooth = {} /\ NoConn \notin Conn
    /\ QueueDepth \in Nat \ {0} /\ MaxMessages \in Nat
    /\ Asked \subseteq {"stop", "query", "clear", "unsupported"} \cup LogFile
    /\ {"data", "stop", "query", "clear", "unsupported"} \cap LogFile = {}

(* What a message is; a StartLog carries the name of a file. *)
Kind == {"data"} \cup Asked

VARIABLES channel,   (* a connection's channel                               *)
          key,       (* its SelectionKey, of a TCP connection                *)
          selected,  (* keys the selector thread has not come to             *)
          writing,   (* the connection it is writing to                      *)
          inHand,    (* and the message, when there is one                   *)
          connections, (* m_Connections of the router                        *)
          out,       (* a connection's queue                                 *)
          sent,      (* what went out of it                                  *)
          received,  (* every message the router's queue has taken           *)
          handled,   (* how many of them the router is done with             *)
          router,    (* where the router is                                  *)
          todo,      (* connections it has not come to for this message      *)
          closing,   (* connection in whose close() it is                    *)
          lastState, (* m_LastLogState                                       *)
          haltRequested (* of the managers and the router                    *)

tcpVars == <<channel, key, selected, writing, inHand>>
queueVars == <<connections, out, sent>>
routerVars == <<received, handled, router, todo, closing>>
serviceVars == <<lastState, haltRequested>>
vars == <<loggerVars, tcpVars, queueVars, routerVars, serviceVars>>

Init == /\ LoggerInit
        /\ channel = [c \in Conn |-> "none"]
        /\ key = [c \in TCP |-> "none"]
        /\ selected = {} /\ writing = NoConn /\ inHand = <<>>
        /\ connections = {}
        /\ out = [c \in Conn |-> <<>>] /\ sent = [c \in Conn |-> <<>>]
        /\ received = <<>> /\ handled = 0
        /\ router = "poll" /\ todo = {} /\ closing = NoConn
        /\ lastState = FALSE /\ haltRequested = FALSE

current == handled + 1
-----------------------------------------------------------------------------
(* What the managers tell the router. *)

(* onNewConnection; the router's iteration may or may not come to it. *)
Announce(c) ==
    /\ connections' = connections \cup {c}
    /\ todo' \in IF router = "route" /\ received[current].what = "data"
                 THEN {todo, todo \cup {c}} ELSE {todo}

(* onMessage: the queue of the router has no limit. *)
Receive(c, what) ==
    /\ Len(received) < MaxMessages
    /\ received' = Append(received, [src |-> c, what |-> what])
    /\ UNCHANGED <<loggerVars, channel, key, writing, inHand, queueVars, handled, router,
                   todo, closing, serviceVars>>
-----------------------------------------------------------------------------
(* The selector thread. *)

(* select() drops the cancelled keys, then finds some channels ready.  The *)
(* round before may have left keys: less than a message to read, the end   *)
(* of a stream, which nobody acts on, or nothing to send.                  *)
Select ==
    /\ writing = NoConn /\ ~haltRequested
    /\ key' = [c \in TCP |-> IF key[c] = "cancelled" THEN "gone" ELSE key[c]]
    /\ selected' \in SUBSET {c \in TCP : key[c] = "registered"}
    /\ UNCHANGED <<loggerVars, channel, writing, inHand, queueVars, routerVars, serviceVars>>

Accept(c) ==
    /\ writing = NoConn /\ ~haltRequested
    /\ channel[c] = "none"
    /\ channel' = [channel EXCEPT ![c] = "open"]
    /\ key' = [key EXCEPT ![c] = "registered"]
    /\ Announce(c)
    /\ UNCHANGED <<loggerVars, selected, writing, inHand, out, sent, received, handled,
                   router, closing, serviceVars>>

(* isValid() is false: onClosedConnection from this thread. *)
FindInvalid(c) ==
    /\ writing = NoConn
    /\ c \in selected /\ key[c] = "cancelled"
    /\ selected' = selected \ {c}
    /\ connections' = connections \ {c}
    /\ UNCHANGED <<loggerVars, channel, key, writing, inHand, out, sent, routerVars,
                   serviceVars>>

(* The key is cancelled between two looks at it, or read() raises: an      *)
(* exception ends the round.                                               *)
RoundFails(c) ==
    /\ writing = NoConn
    /\ c \in selected
    /\ key[c] = "cancelled" \/ channel[c] = "broken"
    /\ selected' = {}
    /\ UNCHANGED <<loggerVars, channel, key, writing, inHand, queueVars, routerVars,
                   serviceVars>>

ReadMessage(c, what) ==
    /\ writing = NoConn
    /\ c \in selected /\ channel[c] = "open"
    /\ selected' = selected \ {c}
    /\ Receive(c, what)

(* sendNextMessage() up to its loop, in which the thread stays until the   *)
(* message is written or the channel fails.                                *)
TakeNext(c) ==
    /\ writing = NoConn
    /\ c \in selected /\ channel[c] \in {"open", "broken"}
    /\ out[c] # <<>>
    /\ selected' = selected \ {c}
    /\ writing' = c
    /\ inHand' = <<Head(out[c])>>
    /\ out' = [out EXCEPT ![c] = Tail(@)]
    /\ UNCHANGED <<loggerVars, channel, key, connections, sent, routerVars, serviceVars>>

Written ==
    /\ writing # NoConn
    /\ channel[writing] = "open"
    /\ sent' = [sent EXCEPT ![writing] = Append(@, inHand[1])]
    /\ writing' = NoConn /\ inHand' = <<>>
    /\ UNCHANGED <<loggerVars, channel, key, selected, connections, out, routerVars,
                   serviceVars>>

(* write() raises, and the message is lost. *)
WriteFails ==
    /\ writing # NoConn
    /\ channel[writing] # "open"
    /\ writing' = NoConn /\ inHand' = <<>>
    /\ UNCHANGED <<loggerVars, channel, key, selected, queueVars, routerVars, serviceVars>>

(* The peer resets the connection. *)
Break(c) ==
    /\ channel[c] = "open"
    /\ channel' = [channel EXCEPT ![c] = "broken"]
    /\ UNCHANGED <<loggerVars, key, selected, writing, inHand, queueVars, routerVars,
                   serviceVars>>

(* cleanup() closes the selector; close() of every connection then finds   *)
(* no key and raises before it tells anybody.                              *)
CloseAll ==
    /\ haltRequested
    /\ selected = {} /\ writing = NoConn
    /\ \E c \in TCP : key[c] \in {"registered", "cancelled"}
    /\ channel' = [c \in Conn |-> IF c \in TCP \cap connections THEN "closed" ELSE channel[c]]
    /\ key' = [c \in TCP |-> IF key[c] = "none" THEN "none" ELSE "gone"]
    /\ UNCHANGED <<loggerVars, selected, writing, inHand, queueVars, routerVars,
                   serviceVars>>
-----------------------------------------------------------------------------
(* Bluetooth connections; BluetoothConnections has their threads. *)

BluetoothConnects(c) ==
    /\ channel[c] = "none"
    /\ channel' = [channel EXCEPT ![c] = "open"]
    /\ Announce(c)
    /\ UNCHANGED <<loggerVars, key, selected, writing, inHand, out, sent, received, handled,
                   router, closing, serviceVars>>

BluetoothMessage(c, what) ==
    /\ channel[c] = "open"
    /\ UNCHANGED selected
    /\ Receive(c, what)

(* The thread that sends. *)
BluetoothSends(c) ==
    /\ channel[c] = "open"
    /\ out[c] # <<>>
    /\ sent' = [sent EXCEPT ![c] = Append(@, Head(out[c]))]
    /\ out' = [out EXCEPT ![c] = Tail(@)]
    /\ UNCHANGED <<loggerVars, tcpVars, connections, routerVars, serviceVars>>

BluetoothCloses(c) ==
    /\ channel[c] = "open"
    /\ channel' = [channel EXCEPT ![c] = "closed"]
    /\ connections' = connections \ {c}
    /\ UNCHANGED <<loggerVars, key, selected, writing, inHand, out, sent, routerVars,
                   serviceVars>>
-----------------------------------------------------------------------------
(* The router thread. *)

(* Slip: the sender is not left out. *)
RecipientsWithSender(msg) == IF msg.what = "data" THEN connections ELSE {msg.src}

(* A reply is a message to route to the one that asked. *)
Recipients(msg) == IF msg.what = "data" THEN connections \ {msg.src} ELSE {msg.src}

(* Where run() goes with the next message. *)
Poll ==
    /\ router = "poll"
    /\ handled < Len(received)
    /\ LET msg == received[current]
       IN  /\ IF msg.what \in LogFile THEN StartLogging(msg.what)
              ELSE IF msg.what = "stop" THEN StopLogging
              ELSE IF msg.what = "clear" THEN ClearLogs
              ELSE UNCHANGED loggerVars
           /\ IF msg.what \in {"clear", "unsupported"}
              THEN handled' = current /\ UNCHANGED <<router, todo>>
              ELSE router' = "route" /\ todo' = Recipients(msg) /\ UNCHANGED handled
    /\ UNCHANGED <<tcpVars, queueVars, received, closing, serviceVars>>

(* A full queue of a Bluetooth connection is emptied first. *)
SendBluetooth(c) ==
    /\ c \in todo \cap Bluetooth
    /\ out' = [out EXCEPT ![c] = IF Len(@) < QueueDepth THEN Append(@, current)
                                 ELSE <<current>>]
    /\ UNCHANGED <<channel, key, closing>>

(* Slip: a full queue refuses, and the connection stays. *)
SendTCPRefuses(c) ==
    /\ c \in todo \cap TCP
    /\ out' = [out EXCEPT ![c] = IF Len(@) < QueueDepth THEN Append(@, current) ELSE @]
    /\ UNCHANGED <<channel, key, closing>>

(* m_Channel is null once close() has run to its end, and then a full      *)
(* queue just refuses.  key.cancel() is done by channel.close() already.   *)
SendTCP(c) ==
    /\ c \in todo \cap TCP
    /\ IF Len(out[c]) < QueueDepth
       THEN out' = [out EXCEPT ![c] = Append(@, current)] /\ UNCHANGED <<channel, key, closing>>
       ELSE /\ UNCHANGED out
            /\ IF c \in connections
               THEN /\ channel' = [channel EXCEPT ![c] = "closed"]
                    /\ key' = [key EXCEPT ![c] = IF @ = "gone" THEN @ ELSE "cancelled"]
                    /\ closing' = c
               ELSE UNCHANGED <<channel, key, closing>>

Send(c) ==
    /\ router = "route" /\ closing = NoConn
    /\ SendTCP(c) \/ SendBluetooth(c)
    /\ todo' = todo \ {c}
    /\ UNCHANGED <<loggerVars, selected, writing, inHand, connections, sent, received,
                   handled, router, serviceVars>>

(* One that has closed meanwhile may be gone from the iteration. *)
Skip(c) ==
    /\ router = "route" /\ closing = NoConn
    /\ c \in todo \ connections
    /\ received[current].what = "data"
    /\ todo' = todo \ {c}
    /\ UNCHANGED <<loggerVars, tcpVars, queueVars, received, handled, router, closing,
                   serviceVars>>

(* Slip: the exception is caught nowhere. *)
FinishCloseEnds ==
    /\ closing # NoConn
    /\ connections' = IF key[closing] = "gone" THEN connections ELSE connections \ {closing}
    /\ closing' = NoConn
    /\ router' = IF key[closing] = "gone" THEN "done" ELSE router
    /\ UNCHANGED <<loggerVars, tcpVars, out, sent, received, handled, todo, serviceVars>>

(* The rest of close().  A key that is gone is null here: the exception is *)
(* caught by the router, and nobody is told.                               *)
FinishClose ==
    /\ closing # NoConn
    /\ connections' = IF key[closing] = "gone" THEN connections ELSE connections \ {closing}
    /\ closing' = NoConn
    /\ UNCHANGED <<loggerVars, tcpVars, out, sent, received, handled, router, todo,
                   serviceVars>>

(* All have it: a message that was routed is written to the log. *)
Finish ==
    /\ router = "route" /\ closing = NoConn /\ todo = {}
    /\ IF received[current].what = "data" THEN Log(current) ELSE UNCHANGED loggerVars
    /\ handled' = current
    /\ router' = "poll"
    /\ UNCHANGED <<tcpVars, queueVars, received, todo, closing, serviceVars>>

Halt ==
    /\ router = "poll" /\ haltRequested
    /\ router' = "done"
    /\ UNCHANGED <<loggerVars, tcpVars, queueVars, received, handled, todo, closing,
                   serviceVars>>
-----------------------------------------------------------------------------
(* The service's thread: requests of bound clients, each with the broadcast *)
(* of the state of the log that follows it, the timer, the end.            *)

ApiStart(f) ==
    /\ ~haltRequested
    /\ StartLogging(f)
    /\ lastState' = (logName' # NoFile)
    /\ UNCHANGED <<tcpVars, queueVars, routerVars, haltRequested>>

ApiStop ==
    /\ ~haltRequested
    /\ StopLogging
    /\ lastState' = FALSE
    /\ UNCHANGED <<tcpVars, queueVars, routerVars, haltRequested>>

ApiClear ==
    /\ ~haltRequested
    /\ ClearLogs
    /\ UNCHANGED <<tcpVars, queueVars, routerVars, serviceVars>>

(* Slip: only a log that closes is noticed. *)
TickClosed ==
    /\ ~haltRequested
    /\ lastState /\ ~IsEnabled
    /\ lastState' = FALSE
    /\ UNCHANGED <<loggerVars, tcpVars, queueVars, routerVars, haltRequested>>

(* The timer, which broadcasts the state of the log when it has changed. *)
Tick ==
    /\ ~haltRequested
    /\ IsEnabled # lastState
    /\ lastState' = IsEnabled
    /\ UNCHANGED <<loggerVars, tcpVars, queueVars, routerVars, haltRequested>>

Destroy ==
    /\ ~haltRequested
    /\ StopLogging
    /\ haltRequested' = TRUE
    /\ UNCHANGED <<tcpVars, queueVars, routerVars, lastState>>
-----------------------------------------------------------------------------
Selector == \/ Select \/ Written \/ WriteFails \/ CloseAll
            \/ \E c \in TCP : \/ Accept(c) \/ FindInvalid(c) \/ RoundFails(c)
                              \/ TakeNext(c)
                              \/ \E k \in Kind : ReadMessage(c, k)

BluetoothThreads ==
    \E c \in Bluetooth : \/ BluetoothConnects(c) \/ BluetoothSends(c) \/ BluetoothCloses(c)
                         \/ \E k \in Kind : BluetoothMessage(c, k)

Router == Poll \/ FinishClose \/ Finish \/ Halt \/ \E c \in Conn : Send(c) \/ Skip(c)

Service == \/ ApiStop \/ ApiClear \/ Tick \/ Destroy
           \/ \E f \in LogFile : ApiStart(f)

Next == Selector \/ BluetoothThreads \/ Router \/ Service \/ \E c \in TCP : Break(c)

Fairness == WF_vars(Router) /\ WF_vars(Tick)

Spec == Init /\ [][Next]_vars

FairSpec == Spec /\ Fairness
-----------------------------------------------------------------------------
Message == 1 .. Len(received)

TypeOK == /\ logName \in LogFile \cup {NoFile}
          /\ stored \subseteq LogFile
          /\ content \in [LogFile -> Seq(Nat)]
          /\ failed \subseteq Nat
          /\ channel \in [Conn -> {"none", "open", "broken", "closed"}]
          /\ key \in [TCP -> {"none", "registered", "cancelled", "gone"}]
          /\ selected \subseteq TCP
          /\ writing \in TCP \cup {NoConn}
          /\ inHand \in Seq(Nat)
          /\ Len(inHand) = IF writing = NoConn THEN 0 ELSE 1
          /\ connections \subseteq Conn
          /\ out \in [Conn -> Seq(Nat)] /\ sent \in [Conn -> Seq(Nat)]
          /\ received \in Seq([src : Conn, what : Kind])
          /\ handled \in 0 .. Len(received)
          /\ router \in {"poll", "route", "done"}
          /\ router = "route" => handled < Len(received)
          /\ todo \subseteq Conn
          /\ closing \in TCP \cup {NoConn}
          /\ lastState \in BOOLEAN /\ haltRequested \in BOOLEAN

(* A connection is due what others sent and the replies to its requests. *)
Due(c, i) == CASE received[i].what = "data" -> received[i].src # c
               [] received[i].what \in {"clear", "unsupported"} -> FALSE
               [] OTHER -> received[i].src = c

Increasing(s) == \A i, j \in DOMAIN s : i < j => s[i] < s[j]
AllBefore(s, t) == \A i \in DOMAIN s, j \in DOMAIN t : s[i] < t[j]
Elements(s) == {s[i] : i \in DOMAIN s}

(* What the selector thread is writing to c. *)
beingWritten(c) == IF writing = c THEN inHand ELSE <<>>

(***************************************************************************)
(* A connection is sent messages in the order in which the router took     *)
(* them, each once and never one of its own, through its queue, the        *)
(* selector thread and Bluetooth's flush (MessageRouterThread.java:88-160, *)
(* TCPConnectionMgr.java:75-150, BluetoothConnectionThread.java:362-448).  *)
(***************************************************************************)
RoutedInOrder ==
    \A c \in Conn :
        /\ Increasing(sent[c]) /\ Increasing(out[c])
        /\ AllBefore(sent[c], beingWritten(c))
        /\ AllBefore(sent[c], out[c]) /\ AllBefore(beingWritten(c), out[c])
        /\ \A i \in Elements(sent[c]) \cup Elements(beingWritten(c)) \cup Elements(out[c]) :
              i \in Message /\ Due(c, i)

(***************************************************************************)
(* A TCP connection whose channel is open has lost nothing: between two    *)
(* messages it was given it was given all that were due.  The only answer  *)
(* to a full queue is to close (TCPConnectionMgr.java:75-94).              *)
(***************************************************************************)
NoGapWhileOpen ==
    \A c \in TCP : channel[c] = "open" =>
        LET given == Elements(sent[c]) \cup Elements(beingWritten(c)) \cup Elements(out[c])
        IN  \A i, k \in given : \A j \in i .. k : Due(c, j) => j \in given

(***************************************************************************)
(* The log that is open exists, and of the messages routed since some time *)
(* after it was opened it leaves out only those a write failed for: it     *)
(* holds the others in their order, up to the last one, while two threads  *)
(* start, stop and clear logs and the disk is full now and then            *)
(* (MessageLogger.java:85-197).                                            *)
(***************************************************************************)
LogHoldsRun ==
    IsEnabled =>
        LET tried == Elements(content[logName]) \cup failed
        IN  /\ logName \in stored
            /\ Increasing(content[logName])
            /\ \A i \in tried :
                  /\ i \in 1 .. handled
                  /\ \A j \in i .. handled : j \in tried <=> received[j].what = "data"

(***************************************************************************)
(* Until it is told to halt, the router comes to every message, whatever   *)
(* the connections do (MessageRouterThread.java:88-160).                   *)
(***************************************************************************)
EveryMessageHandled ==
    \A i \in 1 .. MaxMessages :
        (Len(received) >= i) ~> (handled >= i \/ haltRequested)

(***************************************************************************)
(* A change of the log by the router, at a client's request, comes to the  *)
(* notice of the bound clients (MsgServerService.java:80-91, 416-450).     *)
(***************************************************************************)
StatusTold == (IsEnabled # lastState) ~> (IsEnabled = lastState \/ haltRequested)
=============================================================================
