------------------------------ MODULE MsgServer ------------------------------
(***************************************************************************)
(* The Python message server (msgtools/server/server.py): connections come *)
(* and go, subscribe to ids by list or by mask, claim ids as private,      *)
(* control the log, and every other message is logged and then handed to   *)
(* the interested connections.                                             *)
(*                                                                         *)
(* Qt calls the slots one at a time from one event loop, so each slot is   *)
(* one action.  A connection is an object that joins once; a reconnecting  *)
(* peer is another connection.                                             *)
(***************************************************************************)
EXTENDS Naturals, Sequences, FiniteSets

CONSTANTS Client,     (* connection objects                                  *)
          Tcp,        (* those of TcpServer.py                               *)
          Plugin,     (* those of a plugin; the others are WebSockets        *)
          Hardware,   (* the plugins with isHardwareLink set                 *)
          Id,         (* message ids, none of them 0                         *)
          IdLists,    (* the lists of ids a subscription message may hold    *)
          MaskSets,   (* the sets {id : id & mask = value} a mask may select *)
          LogName,    (* log file names                                      *)
          TypeOfName, (* the log type the suffix of a name selects           *)
          MaxMsgs,    (* bound: messages handled                             *)
          MaxControls (* bound: control messages and button presses          *)

NoLog == "no log"
Unmatched == "unmatched"  (* a logFileType that logMsg has no branch for     *)
LogTypes == {"csv", "json", "bin", Unmatched}
TextTypes == {"csv", "json"}

ASSUME ServerAssumption ==
    /\ Tcp \subseteq Client
    /\ Plugin \subseteq Client \ Tcp
    /\ Hardware \subseteq Plugin
    /\ IdLists \subseteq SUBSET Id
    /\ MaskSets \subseteq SUBSET Id
    /\ NoLog \notin LogName
    /\ TypeOfName \in [LogName -> LogTypes]
    /\ MaxMsgs \in Nat /\ MaxControls \in Nat

VARIABLES up,            (* the process runs: no slot has raised             *)
          accepted,      (* connections accepted so far                      *)
          clients,       (* the dict: insertion rank, 0 for one not in it    *)
          link,          (* what has become of the connection's socket       *)
          subscriptions, (* ids of the last SubscriptionList                 *)
          matches,       (* ids with id & subMask == subValue                *)
          privateSubscriptions, (* the claimants of an id; {}: no entry      *)
          claimedAt,     (* history: messages handled before the id's first
                            claim, MaxMsgs while there is none               *)
          logFile, logFileType, loggedMsgHeader,
          saveDialog,    (* the Start Logging button waits for a file name   *)
          files,         (* what each log file holds                         *)
          handled,       (* messages that reached the routing branch         *)
          received,      (* positions in handled given to the connection     *)
          logStatus,     (* the last LogStatus given to the connection       *)
          controls       (* control operations so far                        *)

routingVars == <<subscriptions, matches, privateSubscriptions, claimedAt>>
connectionVars == <<accepted, clients, link>>
logVars == <<logFile, logFileType, loggedMsgHeader, saveDialog, files>>
deliveryVars == <<handled, received>>
vars == <<up, connectionVars, routingVars, logVars, deliveryVars, logStatus, controls>>

Members == {c \in Client : clients[c] # 0}
Unknown == [file |-> "unknown", type |-> Unmatched]
Status == [file : LogName \cup {NoLog}, type : LogTypes] \cup {Unknown}
Message == [id : Id, from : Client]
Entry == [kind : {"header", "row"}, id : Id]
-----------------------------------------------------------------------------
(* Init: subMask is ~0 for a socket, which selects only id 0, and 0 for a   *)
(* plugin, which selects every id.                                          *)
Init == /\ up = TRUE
        /\ accepted = 0
        /\ clients = [c \in Client |-> 0]
        /\ link = [c \in Client |-> "new"]
        /\ subscriptions = [c \in Client |-> {}]
        /\ matches = [c \in Client |-> IF c \in Plugin THEN Id ELSE {}]
        /\ privateSubscriptions = [i \in Id |-> {}]
        /\ claimedAt = [i \in Id |-> MaxMsgs]
        /\ logFile = NoLog
        /\ logFileType = Unmatched
        /\ saveDialog = FALSE
        /\ loggedMsgHeader = {}
        /\ files = [n \in LogName |-> <<>>]
        /\ handled = <<>>
        /\ received = [c \in Client |-> <<>>]
        /\ logStatus = [c \in Client |-> Unknown]
        /\ controls = 0

(* A connection whose messages the server still reads. *)
Readable(c) == c \in Members /\ (c \in Tcp => link[c] = "open")

Control == /\ up
           /\ controls < MaxControls
           /\ controls' = controls + 1
-----------------------------------------------------------------------------
(* Connections. *)

NewConnection(c) ==
    /\ up
    /\ link[c] = "new"
    /\ accepted' = accepted + 1
    /\ clients' = [clients EXCEPT ![c] = accepted + 1]
    /\ link' = [link EXCEPT ![c] = "open"]
    /\ UNCHANGED <<up, routingVars, logVars, deliveryVars, logStatus, controls>>

(* The Remove button of a socket: the device closes at once, while its      *)
(* disconnected signal waits for the bytes not yet written.                 *)
CloseSocket(c) ==
    /\ up
    /\ c \in Members \ Plugin
    /\ link[c] = "open"
    /\ link' = [link EXCEPT ![c] = "closing"]
    /\ UNCHANGED <<up, accepted, clients, routingVars, logVars, deliveryVars,
                   logStatus, controls>>

(* Slip: the private subscriptions of the connection are dropped too. *)
ConnectionDiedDropsClaims(c) ==
    /\ up
    /\ c \in Members
    /\ clients' = [clients EXCEPT ![c] = 0]
    /\ link' = [link EXCEPT ![c] = "gone"]
    /\ privateSubscriptions' = [i \in Id |-> privateSubscriptions[i] \ {c}]
    /\ UNCHANGED <<up, accepted, subscriptions, matches, claimedAt, logVars,
                   deliveryVars, logStatus, controls>>

(* Any end of a connection.  Its private subscriptions stay. *)
ConnectionDied(c) ==
    /\ up
    /\ c \in Members
    /\ clients' = [clients EXCEPT ![c] = 0]
    /\ link' = [link EXCEPT ![c] = "gone"]
    /\ UNCHANGED <<up, accepted, routingVars, logVars, deliveryVars, logStatus,
                   controls>>
-----------------------------------------------------------------------------
(* Subscriptions. *)

SubscriptionList(c, ids) ==
    /\ Control
    /\ Readable(c)
    /\ subscriptions' = [subscriptions EXCEPT ![c] = ids]
    /\ UNCHANGED <<up, connectionVars, matches, privateSubscriptions, claimedAt, logVars,
                   deliveryVars, logStatus>>

MaskedSubscription(c, ids) ==
    /\ Control
    /\ Readable(c)
    /\ matches' = [matches EXCEPT ![c] = ids]
    /\ UNCHANGED <<up, connectionVars, subscriptions, privateSubscriptions, claimedAt,
                   logVars, deliveryVars, logStatus>>

PrivateSubscriptionList(c, ids) ==
    /\ Control
    /\ Readable(c)
    /\ privateSubscriptions' =
         [i \in Id |-> IF i \in ids THEN privateSubscriptions[i] \cup {c}
                                    ELSE privateSubscriptions[i]]
    /\ claimedAt' = [i \in Id |-> IF i \in ids /\ privateSubscriptions[i] = {}
                                   THEN Len(handled) ELSE claimedAt[i]]
    /\ UNCHANGED <<up, connectionVars, subscriptions, matches, logVars,
                   deliveryVars, logStatus>>
-----------------------------------------------------------------------------
(* Sending.  write() raises on a TCP socket whose device is closed; a       *)
(* closing WebSocket drops the message silently; a plugin may raise.        *)

RaisingSends(broken) ==
    {c \in Members : c \in Tcp /\ link[c] = "closing"} \cup (broken \cap Members)

(* queryLog tells every client, in the order of the dict, until a send      *)
(* raises: the exception leaves the slot and PyQt ends the process.         *)
QueryLog(file, type, broken) ==
    LET raising == RaisingSends(broken)
        told == {c \in Members : /\ link[c] = "open"
                                 /\ \A r \in raising : clients[c] < clients[r]}
    IN  /\ logStatus' = [c \in Client |-> IF c \in told
                                           THEN [file |-> file, type |-> type]
                                           ELSE logStatus[c]]
        /\ up' = (raising = {})

Interested(c, i) == i \in subscriptions[c] \cup matches[c]

(* Slip: a subscription by mask is not checked against the claims. *)
EntitledByMask(c, i) == \/ privateSubscriptions[i] = {} \/ i \in matches[c]
                        \/ c \in privateSubscriptions[i] \cup Hardware

Entitled(c, i) == \/ privateSubscriptions[i] = {}
                  \/ c \in privateSubscriptions[i] \cup Hardware

(* Slip: the try block is around the loop, so the first failure ends it. *)
AttemptedUntilFailure(s, i, raising) ==
    LET chosen == {d \in Members \ {s} : Interested(d, i) /\ Entitled(d, i)}
    IN  {d \in chosen : \A f \in chosen \cap raising : clients[d] <= clients[f]}

(* The loop over clients skips the sender, unless a send to an earlier      *)
(* client raised: the handler rebinds c, the name that holds the sender.    *)
Attempted(s, i, raising) ==
    LET chosen == {d \in Members : Interested(d, i) /\ Entitled(d, i)}
        failed == (chosen \cap raising) \ {s}
    IN  {d \in chosen : d # s \/ \E f \in failed : clients[f] < clients[s]}

(* Slip: one send for the list and one for the mask. *)
DeliverTwice(s, i, n, raising) ==
    [c \in Client |-> IF c \notin Attempted(s, i, raising) \ raising \/ link[c] # "open"
                      THEN received[c]
                      ELSE IF i \in subscriptions[c] \cap matches[c]
                      THEN received[c] \o <<n, n>>
                      ELSE Append(received[c], n)]

(* What each connection has been given once message n is routed. *)
Deliver(s, i, n, raising) ==
    [c \in Client |-> IF /\ c \in Attempted(s, i, raising) \ raising
                         /\ link[c] = "open"
                      THEN Append(received[c], n)
                      ELSE received[c]]
-----------------------------------------------------------------------------
(* The log. *)

(* Slip: loggedMsgHeader is left as it is. *)
StartLogKeepsHeaders(name, given, broken) ==
    LET type == IF TypeOfName[name] # Unmatched THEN TypeOfName[name] ELSE given
    IN  /\ logFileType' = type
        /\ logFile' = name
        /\ QueryLog(name, type, broken)
        /\ UNCHANGED <<connectionVars, routingVars, loggedMsgHeader, files,
                       deliveryVars>>

StartLog(name, given, broken) ==
    LET type == IF TypeOfName[name] # Unmatched THEN TypeOfName[name] ELSE given
    IN  /\ loggedMsgHeader' = {}
        /\ logFileType' = type
        /\ logFile' = name
        /\ QueryLog(name, type, broken)
        /\ UNCHANGED <<connectionVars, routingVars, files, deliveryVars>>

(* A StartLog message first sets logFileType to its own enumeration, which  *)
(* is none of logMsg's three types; the button leaves the last one.         *)
StartLogMessage(name, broken) ==
    /\ Control
    /\ \E c \in Client : Readable(c)
    /\ StartLog(name, Unmatched, broken)
    /\ UNCHANGED saveDialog

(* The button opens a modal dialog, whose own event loop runs the slots     *)
(* above and below until the user has chosen.                               *)
LogButton ==
    /\ Control
    /\ ~saveDialog
    /\ logFile = NoLog
    /\ saveDialog' = TRUE
    /\ UNCHANGED <<up, connectionVars, routingVars, logFile, logFileType,
                   loggedMsgHeader, files, deliveryVars, logStatus>>

SaveDialogAccepted(name, broken) ==
    /\ up
    /\ saveDialog
    /\ saveDialog' = FALSE
    /\ StartLog(name, logFileType, broken)
    /\ UNCHANGED controls

SaveDialogCancelled ==
    /\ up
    /\ saveDialog
    /\ saveDialog' = FALSE
    /\ UNCHANGED <<up, connectionVars, routingVars, logFile, logFileType,
                   loggedMsgHeader, files, deliveryVars, logStatus, controls>>

(* Slip: the clients are not told. *)
StopLogSilently(broken) ==
    /\ Control
    /\ logFile # NoLog
    /\ logFile' = NoLog
    /\ UNCHANGED <<up, connectionVars, routingVars, logFileType, loggedMsgHeader,
                   saveDialog, files, deliveryVars, logStatus>>

(* The message and the button: both do nothing without an open log. *)
StopLog(broken) ==
    /\ Control
    /\ logFile # NoLog
    /\ logFile' = NoLog
    /\ QueryLog(NoLog, Unmatched, broken)
    /\ UNCHANGED <<connectionVars, routingVars, logFileType, loggedMsgHeader,
                   saveDialog, files, deliveryVars>>

QueryLogMessage(broken) ==
    /\ Control
    /\ \E c \in Client : Readable(c)
    /\ QueryLog(logFile, IF logFile = NoLog THEN Unmatched ELSE logFileType, broken)
    /\ UNCHANGED <<connectionVars, routingVars, logVars, deliveryVars>>

Header(i) == IF i \in loggedMsgHeader THEN <<>> ELSE <<[kind |-> "header", id |-> i]>>
Row(i) == <<[kind |-> "row", id |-> i]>>

(* logMsg for the types it can finish. *)
LogMsg(i) ==
    \/ /\ logFile = NoLog
       /\ UNCHANGED logVars
    \/ /\ logFile # NoLog
       /\ logFileType \in TextTypes
       /\ files' = [files EXCEPT ![logFile] = @ \o Header(i) \o Row(i)]
       /\ loggedMsgHeader' = loggedMsgHeader \cup {i}
       /\ UNCHANGED <<logFile, logFileType, saveDialog>>
-----------------------------------------------------------------------------
(* Any other message: log it, then route it. *)

Handle(s, i) ==
    /\ up
    /\ Readable(s)
    /\ Len(handled) < MaxMsgs
    /\ handled' = Append(handled, [id |-> i, from |-> s])

RouteMessage(s, i, broken) ==
    /\ Handle(s, i)
    /\ LogMsg(i)
    /\ received' = Deliver(s, i, Len(handled'), RaisingSends(broken))
    /\ UNCHANGED <<up, connectionVars, routingVars, logStatus, controls>>

(* With a binary log, or a type logMsg does not know, its last line reads a *)
(* variable that only the text branches assign: the slot raises.            *)
LoggingRaises(s, i) ==
    /\ Handle(s, i)
    /\ logFile # NoLog
    /\ logFileType \notin TextTypes
    /\ files' = [files EXCEPT ![logFile] =
                   IF logFileType = "bin" THEN @ \o Row(i) ELSE @]
    /\ up' = FALSE
    /\ UNCHANGED <<connectionVars, routingVars, logFile, logFileType, loggedMsgHeader,
                   saveDialog, received, logStatus, controls>>
-----------------------------------------------------------------------------
Next == \/ \E c \in Client : \/ NewConnection(c)
                             \/ CloseSocket(c)
                             \/ ConnectionDied(c)
        \/ \E c \in Client, ids \in IdLists : \/ SubscriptionList(c, ids)
                                              \/ PrivateSubscriptionList(c, ids)
        \/ \E c \in Client, ids \in MaskSets : MaskedSubscription(c, ids)
        \/ \E broken \in SUBSET Plugin :
             \/ \E n \in LogName : \/ StartLogMessage(n, broken)
                                 \/ SaveDialogAccepted(n, broken)
             \/ StopLog(broken)
             \/ QueryLogMessage(broken)
             \/ \E s \in Client, i \in Id : RouteMessage(s, i, broken)
        \/ \E s \in Client, i \in Id : LoggingRaises(s, i)
        \/ LogButton
        \/ SaveDialogCancelled

Spec == Init /\ [][Next]_vars
-----------------------------------------------------------------------------
TypeOK == /\ up \in BOOLEAN
          /\ accepted \in Nat
          /\ clients \in [Client -> 0 .. accepted]
          /\ link \in [Client -> {"new", "open", "closing", "gone"}]
          /\ \A c \in Client : (c \in Members) <=> (link[c] \in {"open", "closing"})
          /\ subscriptions \in [Client -> SUBSET Id]
          /\ matches \in [Client -> SUBSET Id]
          /\ privateSubscriptions \in [Id -> SUBSET Client]
          /\ logFile \in LogName \cup {NoLog}
          /\ claimedAt \in [Id -> Nat]
          /\ logFileType \in LogTypes
          /\ saveDialog \in BOOLEAN
          /\ loggedMsgHeader \in SUBSET Id
          /\ files \in [LogName -> Seq(Entry)]
          /\ handled \in Seq(Message)
          /\ received \in [Client -> Seq(1 .. Len(handled))]
          /\ logStatus \in [Client -> Status]
          /\ controls \in Nat

(***************************************************************************)
(* No connection is handed a message twice or out of the order in which    *)
(* the server handled them, whatever mix of lists, masks, claims and       *)
(* failing sends selected it (server.py:537-553).                          *)
(***************************************************************************)
DeliveredInOrder ==
    \A c \in Client : \A j, k \in DOMAIN received[c] :
        j < k => received[c][j] < received[c][k]

(***************************************************************************)
(* Once an id has been claimed as private, only its claimants and the      *)
(* hardware links are given messages with it, however the claimants come   *)
(* and go and whatever they subscribe to later (server.py:520-532,         *)
(* 543-547).                                                               *)
(***************************************************************************)
PrivateStaysPrivate ==
    \A c \in Client \ Hardware : \A k \in DOMAIN received[c] :
        LET n == received[c][k]
            i == handled[n].id
        IN  n > claimedAt[i] => c \in privateSubscriptions[i]

(* Its strengthening: an id without claimants was never claimed. *)
PrivacyInv == /\ PrivateStaysPrivate
              /\ Len(handled) <= MaxMsgs
              /\ \A i \in Id : privateSubscriptions[i] = {} => claimedAt[i] = MaxMsgs

(***************************************************************************)
(* What a connection was last told about the log is so: starting,          *)
(* stopping, and a start from the dialog that lands on a running log are   *)
(* all reported to every connection (server.py:322-364).                   *)
(***************************************************************************)
LogStatusAgrees ==
    up => \A c \in Members :
            link[c] = "open" /\ logStatus[c] # Unknown
              => logStatus[c] = [file |-> logFile,
                                 type |-> IF logFile = NoLog THEN Unmatched
                                                             ELSE logFileType]

(***************************************************************************)
(* In a log file every row of a message comes after a header line for that *)
(* message, across files that are closed, replaced or appended to again    *)
(* (server.py:326-328, 463-476).  Rows of a binary log have no header.     *)
(***************************************************************************)
HeaderBeforeRow ==
    \A n \in LogName : TypeOfName[n] \in TextTypes =>
        \A k \in DOMAIN files[n] : files[n][k].kind = "row" =>
            \E j \in 1 .. k - 1 : files[n][j] = [kind |-> "header", id |-> files[n][k].id]

(* The connections a newly handled message is for. *)
Addressees(m) == {c \in Members \ {m.from} : Interested(c, m.id) /\ Entitled(c, m.id)}

Given(c, n) == \E k \in DOMAIN received'[c] : received'[c][k] = n

(***************************************************************************)
(* A message that is routed reaches every other interested and entitled    *)
(* socket that is still open, even when sends to others raise              *)
(* (server.py:542-553).  Plugins are left out: their own send may raise.   *)
(***************************************************************************)
OthersServed ==
    [][handled' # handled /\ up' =>
         LET n == Len(handled')
         IN  \A c \in Addressees(handled'[n]) \ Plugin :
               link[c] = "open" => Given(c, n)]_vars

(***************************************************************************)
(* The server keeps the promise of MessageHub: members are the connections *)
(* in the dict, claims the private subscriptions, and one message at a     *)
(* time is given to some of those who may see its id.                      *)
(***************************************************************************)
Hub == INSTANCE MessageHub
         WITH Trusted <- Hardware,
              members <- Members,
              claims <- privateSubscriptions,
              published <- [n \in DOMAIN handled |-> handled[n].id],
              inbox <- received

HubSpec == Hub!Spec
=============================================================================
