------------------------ MODULE AndroidServerProofs ------------------------
(***************************************************************************)
(* Proofs about AndroidServer for every set of connections and log files,  *)
(* every depth of the queues and every number of messages: type            *)
(* correctness, the order of delivery, and the log.                        *)
(***************************************************************************)
EXTENDS AndroidServer, TLAPS

LEMMA AppendFacts ==
  ASSUME NEW S, NEW s \in Seq(S), NEW e \in S
  PROVE  /\ Append(s, e) \in Seq(S)
         /\ Len(s) \in Nat
         /\ Len(Append(s, e)) = Len(s) + 1
         /\ DOMAIN s = 1 .. Len(s) /\ DOMAIN Append(s, e) = 1 .. Len(s) + 1
         /\ \A i \in DOMAIN s : Append(s, e)[i] = s[i]
         /\ Append(s, e)[Len(s) + 1] = e
  OBVIOUS

LEMMA TailFacts ==
  ASSUME NEW S, NEW s \in Seq(S), s # <<>>
  PROVE  /\ Tail(s) \in Seq(S) /\ Head(s) \in S
         /\ Len(s) \in Nat \ {0}
         /\ DOMAIN s = 1 .. Len(s) /\ DOMAIN Tail(s) = 1 .. Len(s) - 1
         /\ \A i \in DOMAIN Tail(s) : i + 1 \in DOMAIN s /\ Tail(s)[i] = s[i + 1]
         /\ Head(s) = s[1] /\ 1 \in DOMAIN s
  OBVIOUS

LEMMA SingletonFacts ==
  ASSUME NEW S, NEW e \in S
  PROVE  /\ <<e>> \in Seq(S) /\ Len(<<e>>) = 1
         /\ DOMAIN <<e>> = {1} /\ <<e>>[1] = e
         /\ <<>> \in Seq(S) /\ Len(<<>>) = 0 /\ DOMAIN <<>> = {}
  OBVIOUS

LEMMA ElementFacts ==
  ASSUME NEW S, NEW s \in Seq(S)
  PROVE  Len(s) \in Nat /\ DOMAIN s = 1 .. Len(s) /\ \A i \in 1 .. Len(s) : s[i] \in S
  OBVIOUS

(* The places of the messages, and of the current one while it is routed. *)
LEMMA MessageFacts ==
  ASSUME TypeOK
  PROVE  /\ Len(received) \in Nat /\ handled \in Nat /\ current \in Nat
         /\ Message = DOMAIN received /\ Message \subseteq Nat
         /\ \A i \in Message : received[i].src \in Conn /\ received[i].what \in Kind
         /\ router = "route" => current \in Message
<1>1. received \in Seq([src : Conn, what : Kind])
  BY DEF TypeOK
<1>2. /\ Len(received) \in Nat /\ DOMAIN received = 1 .. Len(received)
      /\ \A i \in 1 .. Len(received) : received[i] \in [src : Conn, what : Kind]
  BY <1>1, ElementFacts
<1>3. handled \in Nat /\ handled \in 0 .. Len(received)
  BY <1>2 DEF TypeOK
<1>4. router = "route" => handled < Len(received)
  BY DEF TypeOK
<1> QED BY <1>2, <1>3, <1>4 DEF Message, current

-----------------------------------------------------------------------------
LEMMA LogTypes ==
  ASSUME TypeOK, NEW m \in Nat,
         \/ \E f \in LogFile : StartLogging(f)
         \/ StopLogging \/ ClearLogs \/ Log(m) \/ UNCHANGED loggerVars
  PROVE  /\ logName' \in LogFile \cup {NoFile}
         /\ stored' \subseteq LogFile
         /\ content' \in [LogFile -> Seq(Nat)]
         /\ failed' \subseteq Nat
<1> USE DEF TypeOK, loggerVars
<1>1. ASSUME NEW f \in LogFile, StartLogging(f)
      PROVE  /\ logName' \in LogFile \cup {NoFile} /\ stored' \subseteq LogFile
             /\ content' \in [LogFile -> Seq(Nat)] /\ failed' \subseteq Nat
  <2>1. <<>> \in Seq(Nat)
    OBVIOUS
  <2>2. [content EXCEPT ![f] = <<>>] \in [LogFile -> Seq(Nat)]
    BY <2>1
  <2> QED BY <1>1, <2>2 DEF StartLogging, Opened, OnlyMade
<1>2. CASE Log(m)
  <2>1. ASSUME IsEnabled, Take(m) PROVE content' \in [LogFile -> Seq(Nat)]
    <3>1. logName \in LogFile /\ content[logName] \in Seq(Nat)
      BY <2>1 DEF IsEnabled
    <3>2. Append(content[logName], m) \in Seq(Nat)
      BY <3>1
    <3> QED BY <2>1, <3>2 DEF Take
  <2> QED BY <1>2, <2>1 DEF Log
<1>3. CASE StopLogging \/ ClearLogs \/ UNCHANGED loggerVars
  BY <1>3 DEF StopLogging, ClearLogs
<1> QED BY <1>1, <1>2, <1>3

LEMMA ReceiveType ==
  ASSUME TypeOK, NEW c \in Conn, NEW k \in Kind, Receive(c, k),
         selected' \subseteq selected
  PROVE  TypeOK'
<1>1. [src |-> c, what |-> k] \in [src : Conn, what : Kind]
  OBVIOUS
<1>2. /\ received' \in Seq([src : Conn, what : Kind])
      /\ Len(received') = Len(received) + 1 /\ Len(received) \in Nat
  BY <1>1 DEF Receive, TypeOK
<1>3. /\ handled' \in 0 .. Len(received')
      /\ router' = "route" => handled' < Len(received')
  <2>1. handled' = handled /\ router' = router
    BY DEF Receive
  <2>2. /\ handled \in 0 .. Len(received)
        /\ router = "route" => handled < Len(received)
    BY DEF TypeOK
  <2> QED BY <1>2, <2>1, <2>2
<1>4. /\ selected' \subseteq TCP
      /\ UNCHANGED <<logName, stored, content, failed, channel, key, writing, inHand, connections,
                      out, sent, router, todo, closing, lastState, haltRequested>>
  BY DEF Receive, TypeOK, loggerVars, queueVars, serviceVars
<1>5. /\ inHand' \in Seq(Nat) /\ Len(inHand') = IF writing' = NoConn THEN 0 ELSE 1
      /\ writing' \in TCP \cup {NoConn}
  BY <1>4 DEF TypeOK
<1>6. /\ out' \in [Conn -> Seq(Nat)] /\ sent' \in [Conn -> Seq(Nat)]
      /\ content' \in [LogFile -> Seq(Nat)]
  BY <1>4 DEF TypeOK
<1> QED BY <1>2, <1>3, <1>4, <1>5, <1>6 DEF TypeOK

LEMMA PollType ==
  ASSUME TypeOK, Poll
  PROVE  TypeOK'
<1>1. Len(received) \in Nat /\ handled \in 0 .. Len(received) /\ handled < Len(received)
  BY DEF Poll, TypeOK
<1>2. received[current] \in [src : Conn, what : Kind]
  <2>1. received \in Seq([src : Conn, what : Kind])
    BY DEF TypeOK
  <2>2. current \in 1 .. Len(received)
    BY <1>1 DEF current
  <2> QED BY <2>1, <2>2, ElementFacts
<1>3. \/ \E f \in LogFile : StartLogging(f)
      \/ StopLogging \/ ClearLogs \/ UNCHANGED loggerVars
  BY DEF Poll
<1>4. /\ logName' \in LogFile \cup {NoFile} /\ stored' \subseteq LogFile
      /\ content' \in [LogFile -> Seq(Nat)] /\ failed' \subseteq Nat
  BY <1>3, LogTypes
<1>5. Recipients(received[current]) \subseteq Conn
  BY <1>2 DEF Recipients, TypeOK
<1>6. /\ handled' \in 0 .. Len(received)
      /\ router' \in {"poll", "route", "done"}
      /\ router' = "route" => handled' < Len(received)
      /\ todo' \subseteq Conn
  BY <1>1, <1>5 DEF Poll, TypeOK, current
<1> QED BY <1>4, <1>6 DEF Poll, TypeOK, tcpVars, queueVars, serviceVars

LEMMA SendType ==
  ASSUME TypeOK, NEW c \in Conn, Send(c)
  PROVE  TypeOK'
<1>1. current \in Nat
  BY MessageFacts
<1>2. out[c] \in Seq(Nat) /\ Append(out[c], current) \in Seq(Nat) /\ <<current>> \in Seq(Nat)
  BY <1>1 DEF TypeOK
<1>3. /\ out' \in [Conn -> Seq(Nat)]
      /\ channel' \in [Conn -> {"none", "open", "broken", "closed"}]
      /\ key' \in [TCP -> {"none", "registered", "cancelled", "gone"}]
      /\ closing' \in TCP \cup {NoConn}
  <2>1. CASE SendTCP(c)
    BY <2>1, <1>2 DEF SendTCP, TypeOK
  <2>2. CASE SendBluetooth(c)
    BY <2>2, <1>2 DEF SendBluetooth, TypeOK
  <2> QED BY <2>1, <2>2 DEF Send
<1> QED BY <1>3 DEF Send, TypeOK, loggerVars, serviceVars

LEMMA TypeInductive == TypeOK /\ [Next]_vars => TypeOK'
<1> SUFFICES ASSUME TypeOK, [Next]_vars PROVE TypeOK'
  OBVIOUS
<1> USE DEF loggerVars, tcpVars, queueVars, routerVars, serviceVars
<1>0. TCP \subseteq Conn /\ Bluetooth \subseteq Conn /\ NoConn \notin Conn
  BY ServerAssumption DEF Conn
<1>1. CASE Select
  BY <1>1 DEF Select, TypeOK
<1>2. ASSUME NEW c \in TCP, Accept(c) PROVE TypeOK'
  <2>1. todo' \subseteq Conn /\ connections' \subseteq Conn
    BY <1>2, <1>0 DEF Accept, Announce, TypeOK
  <2> QED BY <1>2, <1>0, <2>1 DEF Accept, Announce, TypeOK
<1>3. ASSUME NEW c \in TCP, FindInvalid(c) \/ RoundFails(c) PROVE TypeOK'
  BY <1>3 DEF FindInvalid, RoundFails, TypeOK
<1>4. ASSUME NEW c \in TCP, NEW k \in Kind, ReadMessage(c, k) PROVE TypeOK'
  BY <1>4, <1>0, ReceiveType DEF ReadMessage
<1>5. ASSUME NEW c \in TCP, TakeNext(c) PROVE TypeOK'
  <2>1. out[c] \in Seq(Nat) /\ out[c] # <<>>
    BY <1>5, <1>0 DEF TakeNext, TypeOK
  <2>2. Tail(out[c]) \in Seq(Nat) /\ <<Head(out[c])>> \in Seq(Nat) /\ Len(<<Head(out[c])>>) = 1
    BY <2>1
  <2>3. out' \in [Conn -> Seq(Nat)]
    BY <1>5, <1>0, <2>2 DEF TakeNext, TypeOK
  <2> QED BY <1>5, <1>0, <2>2, <2>3 DEF TakeNext, TypeOK
<1>6. CASE Written
  <2>1. writing \in Conn /\ sent[writing] \in Seq(Nat) /\ inHand[1] \in Nat
    <3>1. writing \in Conn /\ sent[writing] \in Seq(Nat)
      BY <1>6, <1>0 DEF Written, TypeOK
    <3>2. inHand \in Seq(Nat) /\ Len(inHand) = 1
      BY <1>6 DEF Written, TypeOK
    <3>3. \A i \in 1 .. Len(inHand) : inHand[i] \in Nat
      BY <3>2, ElementFacts
    <3>4. 1 \in 1 .. Len(inHand)
      BY <3>2
    <3> QED BY <3>1, <3>3, <3>4
  <2>2. Append(sent[writing], inHand[1]) \in Seq(Nat)
    BY <2>1
  <2>3. sent' \in [Conn -> Seq(Nat)]
    BY <1>6, <2>1, <2>2 DEF Written, TypeOK
  <2>4. writing' = NoConn /\ inHand' \in Seq(Nat) /\ Len(inHand') = 0
    <3>1. inHand' = <<>> /\ writing' = NoConn
      BY <1>6 DEF Written
    <3>2. <<>> \in Seq(Nat) /\ Len(<<>>) = 0
      OBVIOUS
    <3> QED BY <3>1, <3>2
  <2> QED BY <1>6, <2>3, <2>4 DEF Written, TypeOK
<1>7. CASE WriteFails
  <2>1. <<>> \in Seq(Nat) /\ Len(<<>>) = 0
    OBVIOUS
  <2> QED BY <1>7, <2>1 DEF WriteFails, TypeOK
<1>8. ASSUME NEW c \in TCP, Break(c) PROVE TypeOK'
  BY <1>8 DEF Break, TypeOK
<1>9. CASE CloseAll
  BY <1>9 DEF CloseAll, TypeOK
<1>10. ASSUME NEW c \in Bluetooth, BluetoothConnects(c) PROVE TypeOK'
  <2>1. todo' \subseteq Conn /\ connections' \subseteq Conn
    BY <1>10, <1>0 DEF BluetoothConnects, Announce, TypeOK
  <2> QED BY <1>10, <1>0, <2>1 DEF BluetoothConnects, Announce, TypeOK
<1>11. ASSUME NEW c \in Bluetooth, NEW k \in Kind, BluetoothMessage(c, k) PROVE TypeOK'
  BY <1>11, <1>0, ReceiveType DEF BluetoothMessage
<1>12. ASSUME NEW c \in Bluetooth, BluetoothSends(c) PROVE TypeOK'
  <2>1. out[c] \in Seq(Nat) /\ out[c] # <<>> /\ sent[c] \in Seq(Nat)
    BY <1>12, <1>0 DEF BluetoothSends, TypeOK
  <2>2. Tail(out[c]) \in Seq(Nat) /\ Append(sent[c], Head(out[c])) \in Seq(Nat)
    BY <2>1
  <2> QED BY <1>12, <2>2 DEF BluetoothSends, TypeOK
<1>13. ASSUME NEW c \in Bluetooth, BluetoothCloses(c) PROVE TypeOK'
  BY <1>13 DEF BluetoothCloses, TypeOK
<1>14. CASE Poll
  BY <1>14, PollType
<1>15. CASE FinishClose
  BY <1>15 DEF FinishClose, TypeOK
<1>16. CASE Finish
  <2>1. current \in Nat /\ Len(received) \in Nat /\ handled \in Nat /\ handled < Len(received)
    BY <1>16, MessageFacts DEF Finish, TypeOK
  <2>2. /\ logName' \in LogFile \cup {NoFile} /\ stored' \subseteq LogFile
        /\ content' \in [LogFile -> Seq(Nat)] /\ failed' \subseteq Nat
    BY <1>16, <2>1, LogTypes DEF Finish
  <2>3. handled' \in 0 .. Len(received)
    BY <1>16, <2>1 DEF Finish, current
  <2> QED BY <1>16, <2>2, <2>3 DEF Finish, TypeOK
<1>17. CASE Halt
  BY <1>17 DEF Halt, TypeOK
<1>18. ASSUME NEW c \in Conn, Send(c) PROVE TypeOK'
  BY <1>18, SendType
<1>19. ASSUME NEW c \in Conn, Skip(c) PROVE TypeOK'
  BY <1>19 DEF Skip, TypeOK
<1>20. ASSUME NEW f \in LogFile, ApiStart(f) PROVE TypeOK'
  <2>1. /\ logName' \in LogFile \cup {NoFile} /\ stored' \subseteq LogFile
        /\ content' \in [LogFile -> Seq(Nat)] /\ failed' \subseteq Nat
    BY <1>20, LogTypes, MessageFacts DEF ApiStart
  <2> QED BY <1>20, <2>1 DEF ApiStart, TypeOK
<1>21. CASE ApiStop \/ ApiClear \/ Tick \/ Destroy
  BY <1>21 DEF ApiStop, ApiClear, Tick, Destroy, StopLogging, ClearLogs, IsEnabled, TypeOK
<1>22. CASE UNCHANGED vars
  BY <1>22 DEF vars, TypeOK
<1> QED
  BY <1>1, <1>2, <1>3, <1>4, <1>5, <1>6, <1>7, <1>8, <1>9, <1>10, <1>11, <1>12, <1>13,
     <1>14, <1>15, <1>16, <1>17, <1>18, <1>19, <1>20, <1>21, <1>22
  DEF Next, Selector, BluetoothThreads, Router, Service

LEMMA TypeInit == Init => TypeOK
<1> SUFFICES ASSUME Init PROVE TypeOK
  OBVIOUS
<1>1. /\ <<>> \in Seq(Nat) /\ Len(<<>>) = 0 /\ <<>> \in Seq([src : Conn, what : Kind])
  OBVIOUS
<1>2. content \in [LogFile -> Seq(Nat)]
  BY <1>1 DEF Init, LoggerInit
<1>5. inHand \in Seq(Nat) /\ Len(inHand) = 0 /\ writing = NoConn
  BY <1>1 DEF Init
<1>3. out \in [Conn -> Seq(Nat)] /\ sent \in [Conn -> Seq(Nat)]
  BY <1>1 DEF Init
<1>4. received \in Seq([src : Conn, what : Kind]) /\ handled \in 0 .. Len(received)
  BY <1>1 DEF Init
<1>6. /\ channel \in [Conn -> {"none", "open", "broken", "closed"}]
      /\ key \in [TCP -> {"none", "registered", "cancelled", "gone"}]
      /\ selected = {} /\ connections = {} /\ todo = {} /\ closing = NoConn
      /\ router = "poll" /\ lastState = FALSE /\ haltRequested = FALSE
      /\ logName = NoFile /\ stored = {} /\ failed = {}
  BY DEF Init, LoggerInit
<1> QED BY <1>2, <1>3, <1>4, <1>5, <1>6 DEF TypeOK

(***************************************************************************)
(* Every variable keeps its type, and the selector thread has a message in *)
(* hand exactly while it writes.                                           *)
(***************************************************************************)
THEOREM TypeCorrect == Spec => []TypeOK
  BY TypeInit, TypeInductive, PTL DEF Spec

-----------------------------------------------------------------------------
(* The log.  D is the set of messages that are routed, F of those that a   *)
(* write failed for.                                                       *)

Tried(s, F) == Elements(s) \cup F

Run(s, F, h, D) ==
    /\ Increasing(s)
    /\ \A i \in Tried(s, F) : /\ i \in D /\ i =< h
                             /\ \A j \in D : i =< j /\ j =< h => j \in Tried(s, F)

LEMMA IncreasingGrows ==
  ASSUME NEW s \in Seq(Nat), NEW h \in Nat, Increasing(s), \A x \in Elements(s) : x =< h
  PROVE  /\ Increasing(Append(s, h + 1))
         /\ Elements(Append(s, h + 1)) = Elements(s) \cup {h + 1}
<1> DEFINE t == Append(s, h + 1)
<1>1. /\ t \in Seq(Nat) /\ Len(s) \in Nat
      /\ DOMAIN s = 1 .. Len(s) /\ DOMAIN t = 1 .. Len(s) + 1
      /\ \A i \in DOMAIN s : t[i] = s[i] /\ s[i] \in Nat
      /\ t[Len(s) + 1] = h + 1
  BY AppendFacts, ElementFacts
<1> HIDE DEF t
<1>2. \A i \in DOMAIN s : s[i] =< h
  <2> SUFFICES ASSUME NEW i \in DOMAIN s PROVE s[i] =< h
    OBVIOUS
  <2>1. s[i] \in Elements(s)
    BY DEF Elements
  <2> QED BY <2>1
<1>3. Increasing(t)
  <2> SUFFICES ASSUME NEW i \in DOMAIN t, NEW j \in DOMAIN t, i < j PROVE t[i] < t[j]
    BY DEF Increasing
  <2>1. i \in DOMAIN s
    BY <1>1
  <2>2. CASE j \in DOMAIN s
    BY <1>1, <2>1, <2>2 DEF Increasing
  <2>3. CASE j = Len(s) + 1
    BY <1>1, <1>2, <2>1, <2>3
  <2> QED BY <1>1, <2>2, <2>3
<1>4. Elements(t) = Elements(s) \cup {h + 1}
  <2>1. ASSUME NEW x \in Elements(t) PROVE x \in Elements(s) \cup {h + 1}
    <3>1. PICK i \in DOMAIN t : x = t[i]
      BY DEF Elements
    <3>2. CASE i \in DOMAIN s
      BY <1>1, <3>1, <3>2 DEF Elements
    <3>3. CASE i = Len(s) + 1
      BY <1>1, <3>1, <3>3
    <3> QED BY <1>1, <3>2, <3>3
  <2>2. ASSUME NEW x \in Elements(s) PROVE x \in Elements(t)
    <3>1. PICK i \in DOMAIN s : x = s[i]
      BY DEF Elements
    <3>2. i \in DOMAIN t /\ t[i] = x
      BY <1>1, <3>1
    <3> QED BY <3>2 DEF Elements
  <2>3. Len(s) + 1 \in DOMAIN t
    BY <1>1
  <2>4. h + 1 \in Elements(t)
    BY <1>1, <2>3 DEF Elements
  <2> QED BY <2>1, <2>2, <2>4
<1> QED BY <1>3, <1>4 DEF t

(* The next message is taken, or its write fails, or both. *)
LEMMA RunGrows ==
  ASSUME NEW s \in Seq(Nat), NEW F \in SUBSET Nat, NEW h \in Nat, NEW D \in SUBSET Nat,
         Run(s, F, h, D), h + 1 \in D
  PROVE  LET t == Append(s, h + 1)
             G == F \cup {h + 1}
         IN  Run(t, F, h + 1, D) /\ Run(t, G, h + 1, D) /\ Run(s, G, h + 1, D)
<1> DEFINE T == Tried(s, F)
           t == Append(s, h + 1)
           G == F \cup {h + 1}
<1>1. \A x \in Elements(s) : x =< h
  BY DEF Run, Tried
<1>2. /\ Increasing(s) /\ Increasing(t)
      /\ Elements(t) = Elements(s) \cup {h + 1}
  BY <1>1, IncreasingGrows DEF Run
<1>3. \A i \in T : i \in D /\ i =< h /\ \A j \in D : i =< j /\ j =< h => j \in T
  BY DEF Run
<1>4. /\ Tried(t, F) = T \cup {h + 1}
      /\ Tried(t, G) = T \cup {h + 1}
      /\ Tried(s, G) = T \cup {h + 1}
  BY <1>2 DEF Tried
<1> HIDE DEF T
<1>5. ASSUME NEW i \in T \cup {h + 1}
      PROVE  /\ i \in D /\ i =< h + 1
             /\ \A j \in D : i =< j /\ j =< h + 1 => j \in T \cup {h + 1}
  <2>1. i \in Nat /\ i \in D /\ i =< h + 1
    <3>1. CASE i = h + 1
      BY <3>1
    <3>2. CASE i \in T
      <4>1. i \in D /\ i =< h
        BY <1>3, <3>2
      <4> QED BY <4>1
    <3> QED BY <1>5, <3>1, <3>2
  <2>2. ASSUME NEW j \in D, i =< j, j =< h + 1, j # h + 1 PROVE j \in T
    <3>1. j \in Nat /\ j =< h /\ i # h + 1
      BY <2>1, <2>2
    <3> QED BY <1>3, <1>5, <2>2, <3>1
  <2> QED BY <2>1, <2>2
<1> HIDE DEF t, G
<1>6. Run(t, F, h + 1, D) /\ Run(t, G, h + 1, D) /\ Run(s, G, h + 1, D)
  BY <1>2, <1>4, <1>5 DEF Run
<1> QED BY <1>6 DEF t, G

LEMMA RunStays ==
  ASSUME NEW s, NEW F, NEW h \in Nat, NEW D \in SUBSET Nat, Run(s, F, h, D), h + 1 \notin D
  PROVE  Run(s, F, h + 1, D)
<1>1. \A j \in D : j =< h + 1 => j =< h
  OBVIOUS
<1>2. \A i \in D : i =< h => i =< h + 1
  OBVIOUS
<1> QED BY <1>1, <1>2 DEF Run

(* The messages taken so far that are routed. *)
Routed == {i \in Message : received[i].what = "data"}

LogInv == IsEnabled => /\ logName \in stored
                       /\ Run(content[logName], failed, handled, Routed)

LEMMA LogInvSuffices == TypeOK /\ LogInv => LogHoldsRun
<1> SUFFICES ASSUME TypeOK, LogInv, IsEnabled PROVE LogHoldsRun
  BY DEF LogHoldsRun
<1> DEFINE s == content[logName]
           tried == Elements(s) \cup failed
<1>1. logName \in stored /\ Run(s, failed, handled, Routed)
  BY DEF LogInv
<1>2. /\ Increasing(s)
      /\ \A i \in tried : /\ i \in Routed /\ i =< handled
                         /\ \A j \in Routed : i =< j /\ j =< handled => j \in tried
  BY <1>1 DEF Run, Tried
<1>3. Len(received) \in Nat /\ handled \in Nat /\ handled =< Len(received)
  BY MessageFacts DEF TypeOK
<1> HIDE DEF tried
<1>4. ASSUME NEW i \in tried
      PROVE  /\ i \in 1 .. handled
             /\ \A j \in i .. handled : j \in tried <=> received[j].what = "data"
  <2>1. i \in 1 .. Len(received) /\ i =< handled
    BY <1>2 DEF Routed, Message
  <2>2. i \in 1 .. handled
    BY <1>3, <2>1
  <2>3. ASSUME NEW j \in i .. handled PROVE j \in tried <=> received[j].what = "data"
    <3>1. j \in 1 .. Len(received) /\ i =< j /\ j =< handled
      BY <1>3, <2>1
    <3>2. j \in Routed <=> received[j].what = "data"
      BY <3>1 DEF Routed, Message
    <3> QED BY <1>2, <3>1, <3>2
  <2> QED BY <2>2, <2>3
<1> QED BY <1>1, <1>2, <1>4 DEF LogHoldsRun, s, tried

(* No step that leaves the file and what is done with matters to the log. *)
LEMMA LogKept ==
  ASSUME TypeOK, LogInv, UNCHANGED <<logName, content, failed, handled>>,
         logName \in stored => logName \in stored',
         \A i \in Nat : i =< handled => (i \in Routed' <=> i \in Routed)
  PROVE  LogInv'
<1> SUFFICES ASSUME IsEnabled' PROVE LogInv'
  BY DEF LogInv
<1>1. IsEnabled /\ logName \in stored'
  BY DEF IsEnabled, LogInv
<1>2. Run(content[logName], failed, handled, Routed)
  BY <1>1 DEF LogInv
<1>3. Routed \subseteq Nat /\ Routed' \subseteq Nat
  BY DEF Routed, Message
<1>4. Run(content[logName], failed, handled, Routed')
  BY <1>2, <1>3 DEF Run
<1> QED BY <1>1, <1>4 DEF LogInv

LEMMA LogStarts ==
  ASSUME TypeOK, LogInv, UNCHANGED <<handled, received>>,
         \/ \E f \in LogFile : StartLogging(f)
         \/ StopLogging \/ ClearLogs \/ UNCHANGED loggerVars
  PROVE  LogInv'
<1>1. CASE UNCHANGED <<logName, content, failed>> /\ (logName \in stored => logName \in stored')
  BY <1>1, LogKept DEF Routed, Message
<1>2. CASE StopLogging
  BY <1>2 DEF StopLogging, LogInv, IsEnabled
<1>3. CASE ClearLogs
  BY <1>3, <1>1 DEF ClearLogs
<1>4. ASSUME NEW f \in LogFile, StartLogging(f) PROVE LogInv'
  <2>1. CASE UNCHANGED loggerVars
    BY <2>1, <1>1 DEF loggerVars
  <2>2. CASE Opened(f)
    <3>1. content'[logName'] = <<>> /\ logName' \in stored' /\ failed' = {}
      BY <2>2, <1>4 DEF Opened, TypeOK
    <3>2. Run(<<>>, {}, handled, Routed)
      BY DEF Run, Tried, Increasing, Elements
    <3>3. Routed' = Routed /\ handled' = handled
      BY DEF Routed, Message
    <3> QED BY <3>1, <3>2, <3>3 DEF LogInv
  <2>3. CASE ~IsEnabled /\ OnlyMade(f)
    BY <2>3 DEF OnlyMade, LogInv, IsEnabled
  <2> QED BY <1>4, <2>1, <2>2, <2>3 DEF StartLogging
<1> QED BY <1>1, <1>2, <1>3, <1>4 DEF loggerVars

LEMMA LogReceives ==
  ASSUME TypeOK, LogInv, NEW c \in Conn, NEW k \in Kind, Receive(c, k)
  PROVE  LogInv'
<1>1. [src |-> c, what |-> k] \in [src : Conn, what : Kind]
  OBVIOUS
<1>2. received \in Seq([src : Conn, what : Kind])
  BY DEF TypeOK
<1>3. /\ Len(received) \in Nat /\ Len(received') = Len(received) + 1
      /\ \A i \in 1 .. Len(received) : received'[i] = received[i]
  BY <1>1, <1>2, AppendFacts DEF Receive
<1>4. handled \in Nat /\ handled =< Len(received)
  BY MessageFacts DEF TypeOK
<1>5. \A i \in Nat : i =< handled => (i \in Routed' <=> i \in Routed)
  BY <1>3, <1>4 DEF Routed, Message
<1> QED BY <1>5, LogKept DEF Receive, loggerVars

LEMMA LogPolls == TypeOK /\ LogInv /\ Poll => LogInv'
<1> SUFFICES ASSUME TypeOK, LogInv, Poll PROVE LogInv'
  OBVIOUS
<1> DEFINE what == received[current].what
<1>1. /\ handled \in Nat /\ current = handled + 1 /\ current \in Message
      /\ UNCHANGED received
  <2>1. handled \in Nat /\ Len(received) \in Nat
    BY MessageFacts
  <2>2. handled < Len(received) /\ UNCHANGED received
    BY DEF Poll
  <2> QED BY <2>1, <2>2 DEF current, Message
<1>2. \/ \E f \in LogFile : StartLogging(f)
      \/ StopLogging \/ ClearLogs \/ UNCHANGED loggerVars
  BY DEF Poll
<1>3. CASE UNCHANGED handled
  BY <1>1, <1>2, <1>3, LogStarts
<1>4. CASE what \in {"clear", "unsupported"}
  <2>1. /\ handled' = handled + 1
        /\ UNCHANGED <<logName, content, failed>> /\ (logName \in stored => logName \in stored')
    BY <1>1, <1>4, ServerAssumption DEF Poll, ClearLogs, loggerVars
  <2>2. handled + 1 \notin Routed /\ Routed' = Routed /\ Routed \in SUBSET Nat
    BY <1>1, <1>4 DEF Routed, Message
  <2>3. ASSUME IsEnabled PROVE Run(content[logName], failed, handled + 1, Routed)
    BY <1>1, <2>2, <2>3, RunStays DEF LogInv
  <2> QED BY <2>1, <2>2, <2>3 DEF LogInv, IsEnabled
<1> QED BY <1>3, <1>4 DEF Poll

LEMMA LogFinishes == TypeOK /\ LogInv /\ Finish => LogInv'
<1> SUFFICES ASSUME TypeOK, LogInv, Finish PROVE LogInv'
  OBVIOUS
<1>1. /\ handled \in Nat /\ current = handled + 1 /\ current \in Message
      /\ handled' = handled + 1 /\ Routed' = Routed /\ UNCHANGED <<logName, stored>>
  BY MessageFacts DEF Finish, current, Message, Routed, TypeOK, Log, loggerVars
<1> SUFFICES ASSUME IsEnabled PROVE LogInv'
  BY <1>1 DEF LogInv, IsEnabled
<1>2. /\ content \in [LogFile -> Seq(Nat)] /\ logName \in LogFile
      /\ failed \in SUBSET Nat /\ Routed \in SUBSET Nat
      /\ Run(content[logName], failed, handled, Routed) /\ logName \in stored
  BY DEF LogInv, TypeOK, IsEnabled, Routed, Message
<1>3. CASE received[current].what = "data"
  <2> DEFINE s == content[logName]
             t == Append(s, handled + 1)
             G == failed \cup {handled + 1}
  <2>1. handled + 1 \in Routed /\ s \in Seq(Nat)
    BY <1>1, <1>2, <1>3 DEF Routed
  <2>2. /\ Run(t, failed, handled + 1, Routed)
        /\ Run(t, G, handled + 1, Routed)
        /\ Run(s, G, handled + 1, Routed)
    BY <1>1, <1>2, <2>1, RunGrows
  <2>3. \/ content'[logName] = t /\ failed' = failed
        \/ content'[logName] = t /\ failed' = G
        \/ content'[logName] = s /\ failed' = G
    BY <1>1, <1>2, <1>3 DEF Finish, Log, Take
  <2> HIDE DEF s, t, G
  <2>4. Run(content'[logName], failed', handled + 1, Routed)
    BY <2>2, <2>3
  <2> QED BY <1>1, <1>2, <2>4 DEF LogInv
<1>4. CASE received[current].what # "data"
  <2>1. handled + 1 \notin Routed /\ content' = content /\ failed' = failed
    BY <1>1, <1>4 DEF Routed, Finish, loggerVars
  <2>2. Run(content[logName], failed, handled + 1, Routed)
    BY <1>1, <1>2, <2>1, RunStays
  <2> QED BY <1>1, <1>2, <2>1, <2>2 DEF LogInv
<1> QED BY <1>3, <1>4

LEMMA LogInductive == TypeOK /\ LogInv /\ [Next]_vars => LogInv'
<1> SUFFICES ASSUME TypeOK, LogInv, [Next]_vars PROVE LogInv'
  OBVIOUS
<1>0. TCP \subseteq Conn /\ Bluetooth \subseteq Conn
  BY DEF Conn
<1>1. CASE UNCHANGED <<loggerVars, handled, received>>
  BY <1>1, LogStarts DEF loggerVars
<1>2. CASE Poll
  BY <1>2, LogPolls
<1>3. CASE Finish
  BY <1>3, LogFinishes
<1>4. ASSUME NEW c \in TCP, NEW k \in Kind, ReadMessage(c, k) PROVE LogInv'
  BY <1>0, <1>4, LogReceives DEF ReadMessage
<1>5. ASSUME NEW c \in Bluetooth, NEW k \in Kind, BluetoothMessage(c, k) PROVE LogInv'
  BY <1>0, <1>5, LogReceives DEF BluetoothMessage
<1>6. CASE Service
  BY <1>6, <1>1, LogStarts
  DEF Service, ApiStart, ApiStop, ApiClear, Tick, Destroy, routerVars
<1>7. CASE Select \/ Written \/ WriteFails \/ CloseAll \/ FinishClose \/ Halt
  BY <1>7, <1>1 DEF Select, Written, WriteFails, CloseAll, FinishClose, Halt, routerVars
<1>8. ASSUME NEW c \in TCP, Accept(c) \/ FindInvalid(c) \/ RoundFails(c) \/ TakeNext(c) \/ Break(c)
      PROVE  LogInv'
  BY <1>8, <1>1 DEF Accept, FindInvalid, RoundFails, TakeNext, Break, routerVars
<1>9. ASSUME NEW c \in Bluetooth, BluetoothConnects(c) \/ BluetoothSends(c) \/ BluetoothCloses(c)
      PROVE  LogInv'
  BY <1>9, <1>1 DEF BluetoothConnects, BluetoothSends, BluetoothCloses, routerVars
<1>10. ASSUME NEW c \in Conn, Send(c) \/ Skip(c) PROVE LogInv'
  BY <1>10, <1>1 DEF Send, Skip
<1>11. CASE UNCHANGED vars
  BY <1>11, <1>1 DEF vars, routerVars
<1> QED
  BY <1>2, <1>3, <1>4, <1>5, <1>6, <1>7, <1>8, <1>9, <1>10, <1>11
  DEF Next, Selector, BluetoothThreads, Router

(***************************************************************************)
(* The open log exists and leaves out none of the messages routed since    *)
(* some time after it was opened but those a write failed for: nobody,     *)
(* neither the router, a client nor the service, clears it or takes        *)
(* anything out of its run, and after a failed write it goes on in order   *)
(* (MessageLogger.java:85-197).                                            *)
(***************************************************************************)
THEOREM LogIsRun == Spec => []LogHoldsRun
<1>1. Init => LogInv
  BY DEF Init, LoggerInit, LogInv, IsEnabled
<1>2. Spec => []LogInv
  BY <1>1, TypeInit, TypeInductive, LogInductive, PTL DEF Spec
<1> QED BY <1>2, TypeCorrect, LogInvSuffices, PTL

-----------------------------------------------------------------------------
(* The order of delivery.  Of a connection, s is what was sent, w what is  *)
(* being written and o the queue.                                          *)

Ordered(s, w, o) == /\ Increasing(s) /\ Increasing(o)
                    /\ AllBefore(s, w) /\ AllBefore(s, o) /\ AllBefore(w, o)

Given(s, w, o) == Elements(s) \cup Elements(w) \cup Elements(o)

LEMMA ElementsAppend ==
  ASSUME NEW s \in Seq(Nat), NEW n \in Nat
  PROVE  Elements(Append(s, n)) = Elements(s) \cup {n}
<1> DEFINE t == Append(s, n)
<1>1. /\ Len(s) \in Nat /\ DOMAIN s = 1 .. Len(s) /\ DOMAIN t = 1 .. Len(s) + 1
      /\ \A i \in DOMAIN s : t[i] = s[i]
      /\ t[Len(s) + 1] = n
  BY AppendFacts
<1> HIDE DEF t
<1>2. ASSUME NEW x \in Elements(t) PROVE x \in Elements(s) \cup {n}
  <2>1. PICK i \in DOMAIN t : x = t[i]
    BY DEF Elements
  <2>2. CASE i \in DOMAIN s
    BY <1>1, <2>1, <2>2 DEF Elements
  <2>3. CASE i = Len(s) + 1
    BY <1>1, <2>1, <2>3
  <2> QED BY <1>1, <2>2, <2>3
<1>3. ASSUME NEW x \in Elements(s) PROVE x \in Elements(t)
  <2>1. PICK i \in DOMAIN s : x = s[i]
    BY DEF Elements
  <2>2. i \in DOMAIN t /\ t[i] = x
    BY <1>1, <2>1
  <2> QED BY <2>2 DEF Elements
<1>4. Len(s) + 1 \in DOMAIN t
  BY <1>1
<1>5. n \in Elements(t)
  BY <1>1, <1>4 DEF Elements
<1> QED BY <1>2, <1>3, <1>5 DEF t

LEMMA ElementsTail ==
  ASSUME NEW s \in Seq(Nat), s # <<>>
  PROVE  Elements(Tail(s)) \subseteq Elements(s) /\ Head(s) \in Elements(s)
<1> DEFINE t == Tail(s)
<1>1. /\ \A i \in DOMAIN t : i + 1 \in DOMAIN s /\ t[i] = s[i + 1]
      /\ Head(s) = s[1] /\ 1 \in DOMAIN s
  BY TailFacts
<1> HIDE DEF t
<1>2. Elements(t) \subseteq Elements(s)
  BY <1>1 DEF Elements
<1> QED BY <1>1, <1>2 DEF Elements, t

LEMMA IncreasingAppend ==
  ASSUME NEW s \in Seq(Nat), NEW n \in Nat, Increasing(s), \A i \in DOMAIN s : s[i] < n
  PROVE  Increasing(Append(s, n))
<1> DEFINE t == Append(s, n)
<1>1. /\ Len(s) \in Nat /\ DOMAIN s = 1 .. Len(s) /\ DOMAIN t = 1 .. Len(s) + 1
      /\ \A i \in DOMAIN s : t[i] = s[i]
      /\ t[Len(s) + 1] = n
  BY AppendFacts
<1> HIDE DEF t
<1>2. ASSUME NEW i \in DOMAIN t, NEW j \in DOMAIN t, i < j PROVE t[i] < t[j]
  <2>1. i \in DOMAIN s
    BY <1>1, <1>2
  <2>2. CASE j \in DOMAIN s
    BY <1>1, <1>2, <2>1, <2>2 DEF Increasing
  <2>3. CASE j = Len(s) + 1
    BY <1>1, <2>1, <2>3
  <2> QED BY <1>1, <2>2, <2>3
<1> QED BY <1>2 DEF Increasing, t

LEMMA AppendBefore ==
  ASSUME NEW s \in Seq(Nat), NEW t \in Seq(Nat), NEW n \in Nat
  PROVE  /\ AllBefore(s, t) /\ (\A i \in DOMAIN s : s[i] < n) => AllBefore(s, Append(t, n))
         /\ AllBefore(s, t) /\ (\A i \in DOMAIN t : n < t[i]) => AllBefore(Append(s, n), t)
<1>1. \A u \in Seq(Nat) : /\ Len(u) \in Nat /\ DOMAIN u = 1 .. Len(u)
                          /\ DOMAIN Append(u, n) = 1 .. Len(u) + 1
                          /\ \A i \in DOMAIN u : Append(u, n)[i] = u[i]
                          /\ Append(u, n)[Len(u) + 1] = n
  BY AppendFacts
<1>2. \A u \in Seq(Nat) : \A i \in DOMAIN Append(u, n) : i \in DOMAIN u \/ i = Len(u) + 1
  BY <1>1
<1> QED BY <1>1, <1>2 DEF AllBefore

(* A message younger than all of them goes to the end of the queue, *)
LEMMA Queued ==
  ASSUME NEW s \in Seq(Nat), NEW w \in Seq(Nat), NEW o \in Seq(Nat), NEW n \in Nat,
         Ordered(s, w, o), \A i \in Given(s, w, o) : i < n
  PROVE  /\ Ordered(s, w, Append(o, n))
         /\ Given(s, w, Append(o, n)) = Given(s, w, o) \cup {n}
<1>1. /\ \A i \in DOMAIN s : s[i] < n
      /\ \A i \in DOMAIN w : w[i] < n
      /\ \A i \in DOMAIN o : o[i] < n
  BY DEF Given, Elements
<1>2. AllBefore(s, Append(o, n)) /\ AllBefore(w, Append(o, n))
  BY <1>1, AppendBefore DEF Ordered
<1>3. Increasing(Append(o, n))
  BY <1>1, IncreasingAppend DEF Ordered
<1> QED BY <1>2, <1>3, ElementsAppend DEF Ordered, Given

(* or it is alone in it; *)
LEMMA Flushed ==
  ASSUME NEW s \in Seq(Nat), NEW w \in Seq(Nat), NEW o \in Seq(Nat), NEW n \in Nat,
         Ordered(s, w, o), \A i \in Given(s, w, o) : i < n
  PROVE  /\ Ordered(s, w, <<n>>)
         /\ Given(s, w, <<n>>) \subseteq Given(s, w, o) \cup {n}
<1>1. DOMAIN <<n>> = {1} /\ <<n>>[1] = n
  BY SingletonFacts
<1>2. \A i \in DOMAIN s : s[i] < n
  BY DEF Given, Elements
<1>3. \A i \in DOMAIN w : w[i] < n
  BY DEF Given, Elements
<1>4. Increasing(<<n>>) /\ AllBefore(s, <<n>>) /\ AllBefore(w, <<n>>)
  BY <1>1, <1>2, <1>3 DEF Increasing, AllBefore
<1>5. Elements(<<n>>) = {n}
  BY <1>1 DEF Elements
<1> QED BY <1>4, <1>5 DEF Ordered, Given

(* the head of the queue is taken from it, *)
LEMMA Taken ==
  ASSUME NEW s \in Seq(Nat), NEW o \in Seq(Nat), o # <<>>, Ordered(s, <<>>, o)
  PROVE  /\ Ordered(s, <<Head(o)>>, Tail(o))
         /\ Given(s, <<Head(o)>>, Tail(o)) \subseteq Given(s, <<>>, o)
<1> DEFINE t == Tail(o)  w == <<Head(o)>>
<1>1. /\ \A i \in DOMAIN t : i + 1 \in DOMAIN o /\ t[i] = o[i + 1]
      /\ DOMAIN o = 1 .. Len(o) /\ DOMAIN t = 1 .. Len(o) - 1
      /\ Head(o) = o[1] /\ 1 \in DOMAIN o /\ Head(o) \in Nat /\ Len(o) \in Nat
  BY TailFacts
<1>2. DOMAIN w = {1} /\ w[1] = Head(o)
  BY <1>1, SingletonFacts
<1>3. Elements(t) \subseteq Elements(o) /\ Elements(w) \subseteq Elements(o)
  <2>1. Elements(t) \subseteq Elements(o) /\ Head(o) \in Elements(o)
    BY ElementsTail
  <2> QED BY <1>2, <2>1 DEF Elements
<1> HIDE DEF t, w
<1>4. Increasing(t)
  <2> SUFFICES ASSUME NEW i \in DOMAIN t, NEW j \in DOMAIN t, i < j PROVE t[i] < t[j]
    BY DEF Increasing
  <2>1. i + 1 \in DOMAIN o /\ j + 1 \in DOMAIN o /\ i + 1 < j + 1
    BY <1>1
  <2>2. o[i + 1] < o[j + 1]
    BY <2>1 DEF Ordered, Increasing
  <2> QED BY <1>1, <2>2
<1>5. AllBefore(s, w)
  <2> SUFFICES ASSUME NEW i \in DOMAIN s PROVE s[i] < w[1]
    BY <1>2 DEF AllBefore
  <2> QED BY <1>1, <1>2 DEF Ordered, AllBefore
<1>6. AllBefore(s, t)
  <2> SUFFICES ASSUME NEW i \in DOMAIN s, NEW j \in DOMAIN t PROVE s[i] < t[j]
    BY DEF AllBefore
  <2>1. j + 1 \in DOMAIN o
    BY <1>1
  <2>2. s[i] < o[j + 1]
    BY <2>1 DEF Ordered, AllBefore
  <2> QED BY <1>1, <2>2
<1>7. AllBefore(w, t)
  <2> SUFFICES ASSUME NEW j \in DOMAIN t PROVE w[1] < t[j]
    BY <1>2 DEF AllBefore
  <2>1. j + 1 \in DOMAIN o /\ 1 < j + 1
    BY <1>1
  <2>2. o[1] < o[j + 1]
    BY <1>1, <2>1 DEF Ordered, Increasing
  <2> QED BY <1>1, <1>2, <2>2
<1>8. Ordered(s, w, t)
  BY <1>4, <1>5, <1>6, <1>7 DEF Ordered
<1>9. Given(s, w, t) \subseteq Given(s, <<>>, o)
  BY <1>3 DEF Given
<1> QED BY <1>8, <1>9 DEF t, w

(* and written, *)
LEMMA WrittenOut ==
  ASSUME NEW s \in Seq(Nat), NEW w \in Seq(Nat), NEW o \in Seq(Nat),
         Len(w) = 1, Ordered(s, w, o)
  PROVE  /\ Ordered(Append(s, w[1]), <<>>, o)
         /\ Given(Append(s, w[1]), <<>>, o) \subseteq Given(s, w, o)
<1>1. DOMAIN w = 1 .. 1 /\ 1 \in DOMAIN w /\ w[1] \in Nat
  BY ElementFacts
<1>2. /\ \A i \in DOMAIN s : s[i] < w[1]
      /\ \A i \in DOMAIN o : w[1] < o[i]
  BY <1>1 DEF Ordered, AllBefore
<1>3. AllBefore(Append(s, w[1]), o)
  BY <1>1, <1>2, AppendBefore DEF Ordered
<1>4. Increasing(Append(s, w[1]))
  BY <1>1, <1>2, IncreasingAppend DEF Ordered
<1>5. DOMAIN <<>> = {}
  BY SingletonFacts
<1>6. \A t : AllBefore(t, <<>>) /\ AllBefore(<<>>, t)
  BY <1>5 DEF AllBefore
<1>7. Elements(Append(s, w[1])) = Elements(s) \cup {w[1]} /\ Elements(<<>>) = {}
  BY <1>1, <1>5, ElementsAppend DEF Elements
<1>8. w[1] \in Elements(w)
  BY <1>1 DEF Elements
<1> QED BY <1>3, <1>4, <1>6, <1>7, <1>8 DEF Ordered, Given

(* or lost. *)
LEMMA Lost ==
  ASSUME NEW s \in Seq(Nat), NEW w \in Seq(Nat), NEW o \in Seq(Nat), Ordered(s, w, o)
  PROVE  Ordered(s, <<>>, o) /\ Given(s, <<>>, o) \subseteq Given(s, w, o)
<1>1. DOMAIN <<>> = {}
  BY SingletonFacts
<1> QED BY <1>1 DEF Ordered, AllBefore, Given, Elements

-----------------------------------------------------------------------------
given(c) == Given(sent[c], beingWritten(c), out[c])

InOrder == \A c \in Conn : Ordered(sent[c], beingWritten(c), out[c])

(* What c was given is its due, and routed; the current one only once. *)
GivenDue == \A c \in Conn : \A i \in given(c) :
               /\ i \in Message /\ Due(c, i)
               /\ i =< handled \/ (i = current /\ router = "route" /\ c \notin todo)

(* A connection that has not been made yet. *)
Fresh == \A c \in Conn : channel[c] = "none" =>
            /\ c \notin connections /\ c \notin todo /\ given(c) = {}
            /\ \A i \in Message : received[i].src # c

TodoDue == /\ router = "route" => \A c \in todo : Due(c, current)
           /\ router # "route" => todo = {}

RouteInv == InOrder /\ GivenDue /\ Fresh /\ TodoDue

LEMMA RouteTypes ==
  ASSUME TypeOK, NEW c \in Conn
  PROVE  sent[c] \in Seq(Nat) /\ out[c] \in Seq(Nat) /\ beingWritten(c) \in Seq(Nat)
<1>1. <<>> \in Seq(Nat)
  OBVIOUS
<1> QED BY <1>1 DEF TypeOK, beingWritten

LEMMA RouteInvSuffices == RouteInv => RoutedInOrder
  BY DEF RouteInv, InOrder, GivenDue, given, Ordered, Given, RoutedInOrder

(* What moves a message within its connection, or loses it, or nothing. *)
LEMMA RouteMoves ==
  ASSUME RouteInv, UNCHANGED <<received, handled>>,
         router' = router \/ (router = "poll" /\ router' = "done"),
         todo' \subseteq todo, connections' \subseteq connections,
         \A c \in Conn : channel'[c] = "none" => channel[c] = "none",
         \A c \in Conn : /\ Ordered(sent[c], beingWritten(c), out[c])'
                         /\ given(c)' \subseteq given(c)
  PROVE  RouteInv'
<1>1. InOrder'
  BY DEF InOrder
<1>2. Message' = Message /\ current' = current /\ \A c, i : Due(c, i)' = Due(c, i)
  BY DEF Message, current, Due
<1>3. GivenDue'
  BY <1>2 DEF RouteInv, GivenDue
<1>4. Fresh'
  BY <1>2 DEF RouteInv, Fresh
<1>5. TodoDue'
  BY <1>2 DEF RouteInv, TodoDue
<1> QED BY <1>1, <1>3, <1>4, <1>5 DEF RouteInv

LEMMA RouteQuiet ==
  ASSUME RouteInv, UNCHANGED <<received, handled, sent, out, writing, inHand>>,
         router' = router \/ (router = "poll" /\ router' = "done"),
         todo' \subseteq todo, connections' \subseteq connections,
         \A c \in Conn : channel'[c] = "none" => channel[c] = "none"
  PROVE  RouteInv'
<1>1. ASSUME NEW c \in Conn
      PROVE  /\ Ordered(sent[c], beingWritten(c), out[c])'
             /\ given(c)' \subseteq given(c)
  <2>1. sent'[c] = sent[c] /\ out'[c] = out[c] /\ beingWritten(c)' = beingWritten(c)
    BY DEF beingWritten
  <2> QED BY <2>1 DEF RouteInv, InOrder, given
<1> QED BY <1>1, RouteMoves

(* Only c is moved. *)
LEMMA RouteMovesOne ==
  ASSUME RouteInv, UNCHANGED <<received, handled, router, todo, connections, channel>>,
         NEW c \in Conn,
         Ordered(sent[c], beingWritten(c), out[c])', given(c)' \subseteq given(c),
         \A d \in Conn \ {c} : /\ sent'[d] = sent[d] /\ out'[d] = out[d]
                               /\ beingWritten(d)' = beingWritten(d)
  PROVE  RouteInv'
<1>1. ASSUME NEW d \in Conn
      PROVE  /\ Ordered(sent[d], beingWritten(d), out[d])'
             /\ given(d)' \subseteq given(d)
  <2>1. CASE d = c
    BY <2>1
  <2>2. CASE d # c
    BY <2>2 DEF RouteInv, InOrder, given
  <2> QED BY <2>1, <2>2
<1> QED BY <1>1, RouteMoves

LEMMA RouteAnnounces ==
  ASSUME TypeOK, RouteInv, NEW c \in Conn, channel[c] = "none", Announce(c),
         channel' = [channel EXCEPT ![c] = "open"],
         UNCHANGED <<received, handled, router, sent, out, writing, inHand>>
  PROVE  RouteInv'
<1>1. \A d \in Conn : /\ given(d)' = given(d)
                      /\ Ordered(sent[d], beingWritten(d), out[d])'
                            = Ordered(sent[d], beingWritten(d), out[d])
  BY DEF given, beingWritten, Given
<1>2. Message' = Message /\ current' = current /\ \A d, i : Due(d, i)' = Due(d, i)
  BY DEF Message, current, Due
<1>3. /\ connections' = connections \cup {c}
      /\ todo' = todo \/ (todo' = todo \cup {c} /\ router = "route"
                           /\ received[current].what = "data")
  BY DEF Announce
<1>4. InOrder'
  BY <1>1 DEF RouteInv, InOrder
<1>5. given(c) = {} /\ \A i \in Message : received[i].src # c
  BY DEF RouteInv, Fresh
<1>6. GivenDue'
  BY <1>1, <1>2, <1>3, <1>5 DEF RouteInv, GivenDue
<1>7. channel'[c] = "open" /\ \A d \in Conn \ {c} : channel'[d] = channel[d]
  BY DEF TypeOK
<1>8. Fresh'
  BY <1>1, <1>2, <1>3, <1>7 DEF RouteInv, Fresh
<1>9. TodoDue'
  <2>1. router = "route" => current \in Message
    BY MessageFacts
  <2>2. router = "route" /\ received[current].what = "data" => Due(c, current)
    BY <1>5, <2>1 DEF Due
  <2> QED BY <1>2, <1>3, <2>2 DEF RouteInv, TodoDue
<1> QED BY <1>4, <1>6, <1>8, <1>9 DEF RouteInv

LEMMA RouteReceives ==
  ASSUME TypeOK, RouteInv, NEW c \in Conn, NEW k \in Kind, channel[c] = "open", Receive(c, k)
  PROVE  RouteInv'
<1>1. [src |-> c, what |-> k] \in [src : Conn, what : Kind]
  OBVIOUS
<1>2. received \in Seq([src : Conn, what : Kind])
  BY DEF TypeOK
<1>3. /\ Len(received) \in Nat /\ Len(received') = Len(received) + 1
      /\ \A i \in Message : i \in Message' /\ received'[i] = received[i]
      /\ \A i \in Message' : i \in Message \/ received'[i].src = c
  <2>1. /\ Len(received) \in Nat /\ Len(received') = Len(received) + 1
        /\ \A i \in 1 .. Len(received) : received'[i] = received[i]
        /\ received'[Len(received) + 1] = [src |-> c, what |-> k]
    BY <1>1, <1>2, AppendFacts DEF Receive
  <2> QED BY <2>1 DEF Message
<1>4. /\ UNCHANGED <<handled, router, todo, connections, channel>>
      /\ current' = current
      /\ \A d : given(d)' = given(d)
  BY DEF Receive, queueVars, current, given, beingWritten
<1>5. \A d : \A i \in Message : Due(d, i)' = Due(d, i)
  BY <1>3 DEF Due
<1>6. InOrder'
  <2>1. \A d : Ordered(sent[d], beingWritten(d), out[d])' = Ordered(sent[d], beingWritten(d), out[d])
    BY DEF Receive, queueVars, beingWritten
  <2> QED BY <2>1 DEF RouteInv, InOrder
<1>7. GivenDue'
  BY <1>3, <1>4, <1>5 DEF RouteInv, GivenDue
<1>8. Fresh'
  BY <1>3, <1>4 DEF RouteInv, Fresh
<1>9. TodoDue'
  BY MessageFacts, <1>4, <1>5 DEF RouteInv, TodoDue
<1> QED BY <1>6, <1>7, <1>8, <1>9 DEF RouteInv

LEMMA RoutePolls == TypeOK /\ RouteInv /\ Poll => RouteInv'
<1> SUFFICES ASSUME TypeOK, RouteInv, Poll PROVE RouteInv'
  OBVIOUS
<1>1. /\ handled \in Nat /\ current = handled + 1 /\ current \in Message
      /\ Message' = Message /\ UNCHANGED <<received, connections, channel, sent, out, writing, inHand>>
  <2>1. handled \in Nat /\ Len(received) \in Nat
    BY MessageFacts
  <2>2. handled < Len(received) /\ UNCHANGED <<received, connections, channel, sent, out, writing, inHand>>
    BY DEF Poll, tcpVars, queueVars
  <2> QED BY <2>1, <2>2 DEF current, Message
<1>2. \A d : given(d)' = given(d) /\ \A i : Due(d, i)' = Due(d, i)
  BY <1>1 DEF given, beingWritten, Due
<1>3. InOrder'
  <2>1. \A d : Ordered(sent[d], beingWritten(d), out[d])' = Ordered(sent[d], beingWritten(d), out[d])
    BY <1>1 DEF beingWritten
  <2> QED BY <2>1 DEF RouteInv, InOrder
<1>4. \A c \in Conn : \A i \in given(c) : i \in Message /\ Due(c, i) /\ i =< handled
  BY DEF RouteInv, GivenDue, Poll
<1>5. \A c \in Conn : \A i \in given(c) : i \in Nat
  BY <1>4, MessageFacts
<1>6. todo = {}
  BY DEF RouteInv, TodoDue, Poll
<1>7. received[current].src \in Conn /\ received[current].what \in Kind
  BY <1>1, MessageFacts
<1>8. CASE received[current].what \in {"clear", "unsupported"}
  <2>1. handled' = handled + 1 /\ UNCHANGED <<router, todo>>
    BY <1>1, <1>8 DEF Poll
  <2>2. GivenDue'
    BY <1>1, <1>2, <1>4, <1>5, <2>1 DEF GivenDue
  <2>3. Fresh'
    BY <1>1, <1>2, <2>1 DEF RouteInv, Fresh
  <2>4. TodoDue'
    BY <1>6, <2>1 DEF TodoDue
  <2> QED BY <1>3, <2>2, <2>3, <2>4 DEF RouteInv
<1>9. CASE received[current].what \notin {"clear", "unsupported"}
  <2>1. router' = "route" /\ todo' = Recipients(received[current]) /\ handled' = handled
    BY <1>9 DEF Poll
  <2>2. GivenDue'
    BY <1>1, <1>2, <1>4, <2>1 DEF GivenDue
  <2>3. current' = current
    BY <2>1 DEF current
  <2>4. \A c \in Conn : channel[c] = "none" => c \notin todo'
    <3>1. \A c \in Conn : channel[c] = "none" => c \notin connections /\ c # received[current].src
      BY <1>1 DEF RouteInv, Fresh
    <3> QED BY <2>1, <3>1 DEF Recipients
  <2>5. Fresh'
    BY <1>1, <1>2, <2>4 DEF RouteInv, Fresh
  <2>6. \A c \in todo' : Due(c, current)
    BY <1>9, <2>1 DEF Recipients, Due
  <2>7. TodoDue'
    BY <1>2, <2>1, <2>3, <2>6 DEF TodoDue
  <2> QED BY <1>3, <2>2, <2>5, <2>7 DEF RouteInv
<1> QED BY <1>8, <1>9

LEMMA RouteFinishes == TypeOK /\ RouteInv /\ Finish => RouteInv'
<1> SUFFICES ASSUME TypeOK, RouteInv, Finish PROVE RouteInv'
  OBVIOUS
<1>1. /\ handled \in Nat /\ current = handled + 1 /\ handled' = current
      /\ router' = "poll" /\ todo' = {} /\ Message' = Message
      /\ UNCHANGED <<received, connections, channel, sent, out, writing, inHand>>
  BY MessageFacts DEF Finish, tcpVars, queueVars, current, Message
<1>2. \A d : given(d)' = given(d) /\ \A i : Due(d, i)' = Due(d, i)
  BY <1>1 DEF given, beingWritten, Due
<1>3. InOrder'
  <2>1. \A d : Ordered(sent[d], beingWritten(d), out[d])' = Ordered(sent[d], beingWritten(d), out[d])
    BY <1>1 DEF beingWritten
  <2> QED BY <2>1 DEF RouteInv, InOrder
<1>4. GivenDue'
  <2>1. \A c \in Conn : \A i \in given(c) : i \in Message /\ i \in Nat /\ Due(c, i)
                                           /\ (i =< handled \/ i = current)
    BY MessageFacts DEF RouteInv, GivenDue
  <2> QED BY <1>1, <1>2, <2>1 DEF GivenDue
<1>5. Fresh'
  BY <1>1, <1>2 DEF RouteInv, Fresh
<1>6. TodoDue'
  BY <1>1 DEF TodoDue
<1> QED BY <1>3, <1>4, <1>5, <1>6 DEF RouteInv

LEMMA RouteSends ==
  ASSUME TypeOK, RouteInv, NEW c \in Conn, Send(c)
  PROVE  RouteInv'
<1>1. /\ handled \in Nat /\ current \in Nat /\ current = handled + 1 /\ current \in Message
      /\ router = "route" /\ c \in todo /\ todo' = todo \ {c}
      /\ UNCHANGED <<received, handled, router, connections, sent, writing, inHand>>
  BY MessageFacts DEF Send, SendTCP, SendBluetooth, current
<1>2. Message' = Message /\ current' = current /\ \A d, i : Due(d, i)' = Due(d, i)
  BY <1>1 DEF Message, current, Due
<1>3. \A d \in Conn : channel'[d] = "none" => channel[d] = "none"
  BY DEF Send, SendTCP, SendBluetooth, TypeOK
<1>4. \A d \in Conn \ {c} : out'[d] = out[d]
  BY DEF Send, SendTCP, SendBluetooth, TypeOK
<1>5. beingWritten(c)' = beingWritten(c) /\ \A d : beingWritten(d)' = beingWritten(d)
  BY <1>1 DEF beingWritten
<1>6. \A i \in given(c) : i \in Message /\ Due(c, i) /\ i =< handled /\ i < current
  <2>1. \A i \in given(c) : i \in Message /\ Due(c, i) /\ i =< handled
    BY <1>1 DEF RouteInv, GivenDue
  <2> QED BY <1>1, <2>1, MessageFacts
<1>7. Due(c, current)
  BY <1>1 DEF RouteInv, TodoDue
<1> DEFINE s == sent[c]  w == beingWritten(c)  o == out[c]
<1>8. s \in Seq(Nat) /\ w \in Seq(Nat) /\ o \in Seq(Nat) /\ Ordered(s, w, o)
  BY RouteTypes DEF RouteInv, InOrder
<1>9. out'[c] \in {o, Append(o, current), <<current>>}
  BY DEF Send, SendTCP, SendBluetooth, TypeOK
<1>10. \A i \in Given(s, w, o) : i < current
  BY <1>6 DEF given
<1>11. Ordered(s, w, out'[c]) /\ Given(s, w, out'[c]) \subseteq Given(s, w, o) \cup {current}
  <2> HIDE DEF s, w, o
  <2>1. /\ Ordered(s, w, Append(o, current)) /\ Ordered(s, w, <<current>>)
        /\ Given(s, w, Append(o, current)) = Given(s, w, o) \cup {current}
        /\ Given(s, w, <<current>>) \subseteq Given(s, w, o) \cup {current}
    BY <1>1, <1>8, <1>10, Queued, Flushed
  <2> QED BY <1>8, <1>9, <2>1
<1>12. Ordered(sent[c], beingWritten(c), out[c])' /\ given(c)' \subseteq given(c) \cup {current}
  BY <1>1, <1>5, <1>11 DEF given
<1>13. \A d \in Conn \ {c} : /\ Ordered(sent[d], beingWritten(d), out[d])'
                             /\ given(d)' = given(d)
  BY <1>1, <1>4, <1>5 DEF RouteInv, InOrder, given
<1>14. InOrder'
  BY <1>12, <1>13 DEF InOrder
<1>15. GivenDue'
  <2>1. ASSUME NEW d \in Conn \ {c}, NEW i \in given(d)'
        PROVE  /\ i \in Message /\ Due(d, i)
               /\ i =< handled \/ (i = current /\ router = "route" /\ d \notin todo)
    BY <2>1, <1>13 DEF RouteInv, GivenDue
  <2>2. ASSUME NEW i \in given(c)'
        PROVE  i \in Message /\ Due(c, i) /\ (i =< handled \/ i = current)
    BY <2>2, <1>1, <1>6, <1>7, <1>12
  <2> QED BY <1>1, <1>2, <2>1, <2>2 DEF GivenDue
<1>16. channel[c] # "none"
  BY <1>1 DEF RouteInv, Fresh
<1>17. Fresh'
  BY <1>1, <1>2, <1>3, <1>13, <1>16 DEF RouteInv, Fresh
<1>18. TodoDue'
  BY <1>1, <1>2 DEF RouteInv, TodoDue
<1> QED BY <1>14, <1>15, <1>17, <1>18 DEF RouteInv

LEMMA RouteWrites ==
  ASSUME TypeOK, RouteInv,
         \/ \E c \in TCP : TakeNext(c)
         \/ Written \/ WriteFails
         \/ \E c \in Bluetooth : BluetoothSends(c)
  PROVE  RouteInv'
<1>0. TCP \subseteq Conn /\ Bluetooth \subseteq Conn /\ NoConn \notin Conn /\ TCP \cap Bluetooth = {}
  BY ServerAssumption DEF Conn
<1>1. \A c \in Conn : Ordered(sent[c], beingWritten(c), out[c])
  BY DEF RouteInv, InOrder
<1>2. ASSUME NEW c \in TCP, TakeNext(c) PROVE RouteInv'
  <2>1. /\ beingWritten(c) = <<>> /\ out[c] # <<>> /\ sent'[c] = sent[c]
        /\ out'[c] = Tail(out[c]) /\ beingWritten(c)' = <<Head(out[c])>>
        /\ UNCHANGED <<received, handled, router, todo, connections, channel>>
    BY <1>0, <1>2 DEF TakeNext, beingWritten, TypeOK, routerVars
  <2>2. \A d \in Conn \ {c} : /\ sent'[d] = sent[d] /\ out'[d] = out[d]
                              /\ beingWritten(d)' = beingWritten(d)
    BY <1>0, <1>2 DEF TakeNext, beingWritten, TypeOK
  <2>3. /\ Ordered(sent[c], <<Head(out[c])>>, Tail(out[c]))
        /\ Given(sent[c], <<Head(out[c])>>, Tail(out[c])) \subseteq Given(sent[c], <<>>, out[c])
    BY <1>0, <1>1, <2>1, RouteTypes, Taken
  <2> QED BY <1>0, <2>1, <2>2, <2>3, RouteMovesOne DEF given
<1>3. CASE Written
  <2>0. PICK c \in Conn : c = writing
    BY <1>0, <1>3 DEF Written, TypeOK
  <2>1. /\ beingWritten(c) = inHand /\ Len(inHand) = 1
        /\ sent'[c] = Append(sent[c], inHand[1]) /\ out'[c] = out[c]
        /\ beingWritten(c)' = <<>>
        /\ UNCHANGED <<received, handled, router, todo, connections, channel>>
    BY <1>0, <1>3, <2>0 DEF Written, beingWritten, TypeOK, routerVars
  <2>2. \A d \in Conn \ {c} : /\ sent'[d] = sent[d] /\ out'[d] = out[d]
                              /\ beingWritten(d)' = beingWritten(d)
    BY <1>0, <1>3, <2>0 DEF Written, beingWritten, TypeOK
  <2> DEFINE s == sent[c]  w == beingWritten(c)  o == out[c]
  <2>3. s \in Seq(Nat) /\ w \in Seq(Nat) /\ o \in Seq(Nat) /\ Len(w) = 1 /\ Ordered(s, w, o)
    BY <1>1, <2>1, RouteTypes
  <2>4. /\ Ordered(Append(s, w[1]), <<>>, o)
        /\ Given(Append(s, w[1]), <<>>, o) \subseteq Given(s, w, o)
    <3> HIDE DEF s, w, o
    <3> QED BY <2>3, WrittenOut
  <2> QED BY <2>1, <2>2, <2>4, RouteMovesOne DEF given
<1>4. CASE WriteFails
  <2>0. PICK c \in Conn : c = writing
    BY <1>0, <1>4 DEF WriteFails, TypeOK
  <2>1. /\ sent'[c] = sent[c] /\ out'[c] = out[c] /\ beingWritten(c)' = <<>>
        /\ UNCHANGED <<received, handled, router, todo, connections, channel>>
    BY <1>0, <1>4, <2>0 DEF WriteFails, beingWritten, TypeOK, routerVars, queueVars
  <2>2. \A d \in Conn \ {c} : /\ sent'[d] = sent[d] /\ out'[d] = out[d]
                              /\ beingWritten(d)' = beingWritten(d)
    BY <1>0, <1>4, <2>0 DEF WriteFails, beingWritten, TypeOK, queueVars
  <2>3. /\ Ordered(sent[c], <<>>, out[c])
        /\ Given(sent[c], <<>>, out[c]) \subseteq Given(sent[c], beingWritten(c), out[c])
    BY <1>1, RouteTypes, Lost
  <2> QED BY <2>1, <2>2, <2>3, RouteMovesOne DEF given
<1>5. ASSUME NEW c \in Bluetooth, BluetoothSends(c) PROVE RouteInv'
  <2>0. /\ UNCHANGED <<received, handled, router, todo, connections, channel, writing, inHand>>
        /\ writing # c
    BY <1>0, <1>5 DEF BluetoothSends, TypeOK, routerVars, tcpVars
  <2>1. /\ beingWritten(c) = <<>> /\ beingWritten(c)' = <<>> /\ out[c] # <<>>
        /\ sent'[c] = Append(sent[c], Head(out[c])) /\ out'[c] = Tail(out[c])
        /\ UNCHANGED <<received, handled, router, todo, connections, channel>>
    <3>1. sent'[c] = Append(sent[c], Head(out[c])) /\ out'[c] = Tail(out[c]) /\ out[c] # <<>>
      BY <1>0, <1>5 DEF BluetoothSends, TypeOK
    <3> QED BY <2>0, <3>1 DEF beingWritten
  <2>2. \A d \in Conn \ {c} : /\ sent'[d] = sent[d] /\ out'[d] = out[d]
                              /\ beingWritten(d)' = beingWritten(d)
    BY <1>0, <1>5 DEF BluetoothSends, beingWritten, TypeOK, tcpVars
  <2> DEFINE s == sent[c]  o == out[c]  w == <<Head(o)>>  t == Tail(o)
  <2>3. s \in Seq(Nat) /\ o \in Seq(Nat) /\ o # <<>> /\ Ordered(s, <<>>, o)
    BY <1>0, <1>1, <2>1, RouteTypes
  <2>4. t \in Seq(Nat) /\ w \in Seq(Nat) /\ Len(w) = 1 /\ w[1] = Head(o)
    BY <2>3
  <2>5. Ordered(s, w, t) /\ Given(s, w, t) \subseteq Given(s, <<>>, o)
    BY <2>3, Taken
  <2>6. /\ Ordered(Append(s, w[1]), <<>>, t)
        /\ Given(Append(s, w[1]), <<>>, t) \subseteq Given(s, w, t)
    <3> HIDE DEF s, w, t
    <3> QED BY <2>3, <2>4, <2>5, WrittenOut
  <2> QED BY <1>0, <2>1, <2>2, <2>4, <2>5, <2>6, RouteMovesOne DEF given
<1> QED BY <1>2, <1>3, <1>4, <1>5

LEMMA RouteInductive == TypeOK /\ RouteInv /\ [Next]_vars => RouteInv'
<1> SUFFICES ASSUME TypeOK, RouteInv, [Next]_vars PROVE RouteInv'
  OBVIOUS
<1> USE DEF loggerVars, tcpVars, queueVars, routerVars, serviceVars
<1>0. TCP \subseteq Conn /\ Bluetooth \subseteq Conn
  BY DEF Conn
<1>1. ASSUME NEW c \in TCP, Accept(c) PROVE RouteInv'
  BY <1>0, <1>1, RouteAnnounces DEF Accept
<1>2. ASSUME NEW c \in Bluetooth, BluetoothConnects(c) PROVE RouteInv'
  BY <1>0, <1>2, RouteAnnounces DEF BluetoothConnects
<1>3. ASSUME NEW c \in TCP, NEW k \in Kind, ReadMessage(c, k) PROVE RouteInv'
  BY <1>0, <1>3, RouteReceives DEF ReadMessage
<1>4. ASSUME NEW c \in Bluetooth, NEW k \in Kind, BluetoothMessage(c, k) PROVE RouteInv'
  BY <1>0, <1>4, RouteReceives DEF BluetoothMessage
<1>5. CASE Poll
  BY <1>5, RoutePolls
<1>6. CASE Finish
  BY <1>6, RouteFinishes
<1>7. ASSUME NEW c \in Conn, Send(c) PROVE RouteInv'
  BY <1>7, RouteSends
<1>8. ASSUME NEW c \in TCP, TakeNext(c) PROVE RouteInv'
  BY <1>8, RouteWrites
<1>9. CASE Written \/ WriteFails
  BY <1>9, RouteWrites
<1>10. ASSUME NEW c \in Bluetooth, BluetoothSends(c) PROVE RouteInv'
  BY <1>10, RouteWrites
<1>11. CASE Select \/ Halt \/ FinishClose
  BY <1>11, RouteQuiet DEF Select, Halt, FinishClose
<1>12. CASE CloseAll
  <2>1. \A c \in Conn : channel'[c] = "none" => channel[c] = "none"
    BY <1>12 DEF CloseAll
  <2> QED BY <1>12, <2>1, RouteQuiet DEF CloseAll
<1>13. ASSUME NEW c \in TCP, FindInvalid(c) \/ RoundFails(c) PROVE RouteInv'
  BY <1>13, RouteQuiet DEF FindInvalid, RoundFails
<1>14. ASSUME NEW c \in TCP, Break(c) PROVE RouteInv'
  <2>1. \A d \in Conn : channel'[d] = "none" => channel[d] = "none"
    BY <1>14 DEF Break, TypeOK
  <2> QED BY <1>14, <2>1, RouteQuiet DEF Break
<1>15. ASSUME NEW c \in Bluetooth, BluetoothCloses(c) PROVE RouteInv'
  <2>1. \A d \in Conn : channel'[d] = "none" => channel[d] = "none"
    BY <1>15 DEF BluetoothCloses, TypeOK
  <2> QED BY <1>15, <2>1, RouteQuiet DEF BluetoothCloses
<1>16. ASSUME NEW c \in Conn, Skip(c) PROVE RouteInv'
  BY <1>16, RouteQuiet DEF Skip
<1>17. CASE Service
  BY <1>17, RouteQuiet DEF Service, ApiStart, ApiStop, ApiClear, Tick, Destroy
<1>18. CASE UNCHANGED vars
  BY <1>18, RouteQuiet DEF vars
<1> QED
  BY <1>1, <1>2, <1>3, <1>4, <1>5, <1>6, <1>7, <1>8, <1>9, <1>10, <1>11, <1>12, <1>13,
     <1>14, <1>15, <1>16, <1>17, <1>18
  DEF Next, Selector, BluetoothThreads, Router

LEMMA RouteInit == Init => RouteInv
<1> SUFFICES ASSUME Init PROVE RouteInv
  OBVIOUS
<1>1. Len(<<>>) = 0 /\ DOMAIN <<>> = {}
  BY SingletonFacts
<1>2. \A c \in Conn : sent[c] = <<>> /\ out[c] = <<>> /\ beingWritten(c) = <<>>
  BY DEF Init, beingWritten
<1>3. Ordered(<<>>, <<>>, <<>>) /\ Given(<<>>, <<>>, <<>>) = {}
  BY <1>1 DEF Ordered, Increasing, AllBefore, Given, Elements
<1>4. Message = {}
  BY <1>1 DEF Init, Message
<1>5. connections = {} /\ todo = {} /\ router = "poll"
  BY DEF Init
<1> QED BY <1>2, <1>3, <1>4, <1>5 DEF RouteInv, InOrder, GivenDue, Fresh, TodoDue, given

(***************************************************************************)
(* Every connection is sent its due in the order in which the router took  *)
(* the messages, each once and none of its own: no step of the threads     *)
(* that share a queue disorders or repeats it.                             *)
(***************************************************************************)
THEOREM RoutingIsOrderly == Spec => []RoutedInOrder
<1>1. Spec => []RouteInv
  BY RouteInit, TypeInit, TypeInductive, RouteInductive, PTL DEF Spec
<1> QED BY <1>1, RouteInvSuffices, PTL
-----------------------------------------------------------------------------
(* No gap in what an open TCP connection is given. *)

(* The strengthening of NoGapWhileOpen.  An open connection is known to the *)
(* router; one whose key is cancelled, or in whose close() the router is,   *)
(* has closed.                                                              *)
Shut == \A c \in TCP :
           /\ channel[c] = "open" => c \in connections
           /\ key[c] = "cancelled" \/ closing = c => channel[c] = "closed"

(* Since the first message an open connection was given, it was given all   *)
(* that were due and handled; the current one it has, or is still to get.   *)
Unbroken ==
    \A c \in TCP : channel[c] = "open" =>
        /\ \A i \in given(c) : \A j \in i .. handled : Due(c, j) => j \in given(c)
        /\ router = "route" /\ given(c) # {} /\ Due(c, current) =>
              c \in todo \/ current \in given(c)

LEMMA ShutInductive == TypeOK /\ Shut /\ [Next]_vars => Shut'
<1> SUFFICES ASSUME TypeOK, Shut, [Next]_vars PROVE Shut'
  OBVIOUS
<1> USE DEF loggerVars, tcpVars, queueVars, routerVars, serviceVars, Shut, TypeOK
<1>0. /\ TCP \subseteq Conn /\ Bluetooth \subseteq Conn /\ NoConn \notin Conn
      /\ TCP \cap Bluetooth = {}
  BY ServerAssumption DEF Conn
<1>1. ASSUME NEW c \in TCP, Accept(c) PROVE Shut'
  BY <1>0, <1>1 DEF Accept, Announce
<1>2. ASSUME NEW c \in Bluetooth, BluetoothConnects(c) PROVE Shut'
  BY <1>0, <1>2 DEF BluetoothConnects, Announce
<1>3. ASSUME NEW c \in Bluetooth, BluetoothCloses(c) PROVE Shut'
  BY <1>0, <1>3 DEF BluetoothCloses
<1>4. ASSUME NEW c \in TCP, FindInvalid(c) \/ RoundFails(c) \/ TakeNext(c) PROVE Shut'
  BY <1>4 DEF FindInvalid, RoundFails, TakeNext
<1>5. CASE Select
  BY <1>5 DEF Select
<1>6. CASE CloseAll
  BY <1>0, <1>6 DEF CloseAll
<1>7. ASSUME NEW c \in TCP, Break(c) PROVE Shut'
  BY <1>0, <1>7 DEF Break
<1>8. ASSUME NEW c \in Conn, Send(c) PROVE Shut'
  BY <1>0, <1>8 DEF Send, SendTCP, SendBluetooth
<1>9. CASE FinishClose
  BY <1>0, <1>9 DEF FinishClose
<1>10. CASE UNCHANGED <<channel, key, connections, closing>>
  BY <1>10
<1> QED
  BY <1>1, <1>2, <1>3, <1>4, <1>5, <1>6, <1>7, <1>8, <1>9, <1>10
  DEF Next, Selector, BluetoothThreads, Router, Service, Written, WriteFails, ReadMessage,
      Receive, BluetoothMessage, BluetoothSends, Poll, Finish, Halt, Skip, ApiStart, ApiStop,
      ApiClear, Tick, Destroy, vars

(* A step that leaves the open connections what they were given, and those  *)
(* that are to get the current message.                                     *)
LEMMA UnbrokenQuiet ==
  ASSUME Unbroken, UNCHANGED <<received, handled>>,
         router' = router \/ (router = "poll" /\ router' = "done"),
         \A c \in TCP : channel'[c] = "open" =>
            /\ given(c)' = given(c)
            /\ channel[c] = "open" \/ given(c) = {}
            /\ c \in todo => c \in todo'
  PROVE  Unbroken'
<1>1. current' = current /\ \A c, i : Due(c, i)' = Due(c, i)
  BY DEF current, Due
<1> QED BY <1>1 DEF Unbroken

LEMMA GivenKept ==
  ASSUME UNCHANGED <<sent, out, writing, inHand>>
  PROVE  \A c : given(c)' = given(c)
BY DEF given, beingWritten

(* The selector thread moves a message through its connection. *)
LEMMA MovedWhole ==
  ASSUME NEW s \in Seq(Nat), NEW o \in Seq(Nat)
  PROVE  /\ o # <<>> => Given(s, <<Head(o)>>, Tail(o)) = Given(s, <<>>, o)
         /\ \A w \in Seq(Nat) : Len(w) = 1 => Given(Append(s, w[1]), <<>>, o) = Given(s, w, o)
<1>1. ASSUME o # <<>> PROVE Given(s, <<Head(o)>>, Tail(o)) = Given(s, <<>>, o)
  <2> DEFINE t == Tail(o)  w == <<Head(o)>>
  <2>1. /\ DOMAIN o = 1 .. Len(o) /\ DOMAIN t = 1 .. Len(o) - 1 /\ Len(o) \in Nat
        /\ \A i \in DOMAIN t : i + 1 \in DOMAIN o /\ t[i] = o[i + 1]
        /\ Head(o) = o[1] /\ 1 \in DOMAIN o
    BY <1>1, TailFacts
  <2>2. DOMAIN w = {1} /\ w[1] = Head(o) /\ DOMAIN <<>> = {}
    BY SingletonFacts, <1>1
  <2> HIDE DEF t, w
  <2>3. ASSUME NEW x \in Elements(o) PROVE x \in Elements(w) \cup Elements(t)
    <3>1. PICK i \in DOMAIN o : x = o[i]
      BY DEF Elements
    <3>2. CASE i = 1
      BY <2>1, <2>2, <3>1, <3>2 DEF Elements
    <3>3. CASE i # 1
      <4>1. i - 1 \in DOMAIN t /\ t[i - 1] = o[i]
        BY <2>1, <3>3
      <4> QED BY <3>1, <4>1 DEF Elements
    <3> QED BY <3>2, <3>3
  <2>4. Elements(t) \subseteq Elements(o) /\ Elements(w) \subseteq Elements(o)
    BY <2>1, <2>2 DEF Elements
  <2>5. Elements(<<>>) = {}
    BY <2>2 DEF Elements
  <2> QED BY <2>3, <2>4, <2>5 DEF Given, t, w
<1>2. ASSUME NEW w \in Seq(Nat), Len(w) = 1
      PROVE  Given(Append(s, w[1]), <<>>, o) = Given(s, w, o)
  <2>1. DOMAIN w = 1 .. 1 /\ w[1] \in Nat
    <3>1. DOMAIN w = 1 .. Len(w) /\ \A i \in 1 .. Len(w) : w[i] \in Nat
      BY ElementFacts
    <3> QED BY <1>2, <3>1
  <2>2. Elements(w) = {w[1]}
    BY <2>1 DEF Elements
  <2>3. Elements(Append(s, w[1])) = Elements(s) \cup {w[1]}
    BY <2>1, ElementsAppend
  <2>4. Elements(<<>>) = {}
    BY SingletonFacts DEF Elements
  <2> QED BY <2>2, <2>3, <2>4 DEF Given
<1> QED BY <1>1, <1>2

LEMMA UnbrokenWrites ==
  ASSUME TypeOK, Unbroken,
         \/ \E c \in TCP : TakeNext(c)
         \/ Written \/ WriteFails
         \/ \E c \in Bluetooth : BluetoothSends(c)
  PROVE  Unbroken'
<1>0. /\ TCP \subseteq Conn /\ Bluetooth \subseteq Conn /\ NoConn \notin Conn
      /\ TCP \cap Bluetooth = {}
  BY ServerAssumption DEF Conn
<1>1. /\ UNCHANGED <<received, handled, router, todo, channel>>
  BY DEF TakeNext, Written, WriteFails, BluetoothSends, routerVars, tcpVars
<1>2. SUFFICES ASSUME NEW c \in TCP, channel[c] = "open"
               PROVE  given(c)' = given(c)
  BY <1>1, UnbrokenQuiet
<1>3. c \in Conn /\ sent[c] \in Seq(Nat) /\ out[c] \in Seq(Nat)
  BY <1>0, RouteTypes
<1>4. CASE UNCHANGED <<sent[c], out[c], beingWritten(c)>>
  BY <1>4 DEF given
<1>5. CASE TakeNext(c)
  <2>1. /\ beingWritten(c) = <<>> /\ out[c] # <<>> /\ sent'[c] = sent[c]
        /\ out'[c] = Tail(out[c]) /\ beingWritten(c)' = <<Head(out[c])>>
    BY <1>0, <1>5 DEF TakeNext, beingWritten, TypeOK
  <2> QED BY <1>3, <2>1, MovedWhole DEF given
<1>6. CASE Written /\ writing = c
  <2>1. /\ beingWritten(c) = inHand /\ Len(inHand) = 1 /\ inHand \in Seq(Nat)
        /\ sent'[c] = Append(sent[c], inHand[1]) /\ out'[c] = out[c]
        /\ beingWritten(c)' = <<>>
    BY <1>0, <1>6 DEF Written, beingWritten, TypeOK
  <2>2. Given(Append(sent[c], inHand[1]), <<>>, out[c]) = Given(sent[c], inHand, out[c])
    BY <1>3, <2>1, MovedWhole
  <2> QED BY <2>1, <2>2 DEF given
<1>7. ASSUME NEW d \in TCP, TakeNext(d), d # c PROVE UNCHANGED <<sent[c], out[c], beingWritten(c)>>
  BY <1>0, <1>7 DEF TakeNext, beingWritten, TypeOK
<1>8. ASSUME Written \/ WriteFails, writing # c
      PROVE  UNCHANGED <<sent[c], out[c], beingWritten(c)>>
  BY <1>0, <1>8 DEF Written, WriteFails, beingWritten, TypeOK, queueVars
<1>9. ASSUME NEW d \in Bluetooth, BluetoothSends(d)
      PROVE  UNCHANGED <<sent[c], out[c], beingWritten(c)>>
  <2>1. d # c
    BY <1>0
  <2> QED BY <1>0, <1>9, <2>1 DEF BluetoothSends, beingWritten, TypeOK, tcpVars
<1>10. WriteFails => writing # c
  BY <1>2 DEF WriteFails
<1> QED BY <1>4, <1>5, <1>6, <1>7, <1>8, <1>9, <1>10

LEMMA UnbrokenReceives ==
  ASSUME TypeOK, RouteInv, Unbroken, NEW c \in Conn, NEW k \in Kind, Receive(c, k)
  PROVE  Unbroken'
<1>1. received \in Seq([src : Conn, what : Kind]) /\ [src |-> c, what |-> k] \in [src : Conn, what : Kind]
  BY DEF TypeOK
<1>2. \A i \in 1 .. Len(received) : received'[i] = received[i]
  BY <1>1, AppendFacts DEF Receive
<1>3. UNCHANGED <<handled, router, todo, channel, sent, out, writing, inHand>> /\ current' = current
  BY DEF Receive, queueVars, current
<1>4. \A d, i : i \in Message => Due(d, i)' = Due(d, i)
  BY <1>2 DEF Message, Due
<1>5. /\ Len(received) \in Nat /\ handled \in Nat /\ handled =< Len(received)
      /\ Message = 1 .. Len(received)
      /\ router = "route" => current \in Message
  BY MessageFacts DEF TypeOK, Message
<1>6. \A d \in TCP : given(d) \subseteq Message
  BY DEF RouteInv, GivenDue, Conn
<1>7. \A d \in TCP : \A i \in given(d) : \A j \in i .. handled : j \in Message
  BY <1>5, <1>6
<1> QED BY <1>3, <1>4, <1>5, <1>7, GivenKept DEF Unbroken

LEMMA UnbrokenPolls ==
  ASSUME TypeOK, RouteInv, Shut, Unbroken, Poll
  PROVE  Unbroken'
<1>1. /\ handled \in Nat /\ current = handled + 1
      /\ UNCHANGED <<received, channel, sent, out, writing, inHand>>
  BY MessageFacts DEF Poll, tcpVars, queueVars, current
<1>2. \A c, i : Due(c, i)' = Due(c, i)
  BY <1>1 DEF Due
<1>3. \A c \in TCP : \A i \in given(c) : i \in Nat /\ i =< handled
  BY MessageFacts DEF RouteInv, GivenDue, Poll, Conn
<1>4. CASE received[current].what \in {"clear", "unsupported"}
  <2>1. handled' = current /\ router' = "poll"
    BY <1>4 DEF Poll
  <2>2. \A c : ~Due(c, current)
    BY <1>4 DEF Due
  <2>3. \A c \in TCP : \A i \in given(c) : \A j \in i .. handled' : j \in i .. handled \/ j = current
    BY <1>1, <1>3, <2>1
  <2> QED BY <1>1, <1>2, <2>1, <2>2, <2>3, GivenKept DEF Unbroken
<1>5. CASE received[current].what \notin {"clear", "unsupported"}
  <2>1. todo' = Recipients(received[current]) /\ handled' = handled /\ current' = current
    BY <1>5 DEF Poll, current
  <2>2. \A c \in TCP : channel[c] = "open" /\ Due(c, current) => c \in todo'
    BY <1>5, <2>1 DEF Due, Recipients, Shut
  <2> QED BY <1>1, <1>2, <2>1, <2>2, GivenKept DEF Unbroken
<1> QED BY <1>4, <1>5

LEMMA UnbrokenFinishes ==
  ASSUME TypeOK, RouteInv, Unbroken, Finish
  PROVE  Unbroken'
<1>1. /\ handled \in Nat /\ current = handled + 1 /\ handled' = current
      /\ router = "route" /\ router' = "poll" /\ todo = {}
      /\ UNCHANGED <<received, channel, sent, out, writing, inHand>>
  BY MessageFacts DEF Finish, tcpVars, queueVars, current
<1>2. \A c, i : Due(c, i)' = Due(c, i)
  BY <1>1 DEF Due
<1>3. \A c \in TCP : \A i \in given(c) : i \in Nat
  BY MessageFacts DEF RouteInv, GivenDue, Conn
<1>4. \A c \in TCP : \A i \in given(c) : \A j \in i .. handled' : j \in i .. handled \/ j = current
  BY <1>1, <1>3
<1> QED BY <1>1, <1>2, <1>4, GivenKept DEF Unbroken

LEMMA UnbrokenSends ==
  ASSUME TypeOK, RouteInv, Shut, Unbroken, NEW c \in Conn, Send(c)
  PROVE  Unbroken'
<1>0. TCP \subseteq Conn /\ TCP \cap Bluetooth = {}
  BY ServerAssumption DEF Conn
<1>1. /\ handled \in Nat /\ current \in Nat /\ current = handled + 1
      /\ router = "route" /\ c \in todo /\ todo' = todo \ {c}
      /\ UNCHANGED <<received, handled, router, sent, writing, inHand>>
  BY MessageFacts DEF Send, SendTCP, SendBluetooth, current
<1>2. current' = current /\ \A d, i : Due(d, i)' = Due(d, i)
  BY <1>1 DEF current, Due
<1>3. \A d \in TCP \ {c} : given(d)' = given(d) /\ (channel'[d] = "open" => channel[d] = "open")
  <2>1. \A d \in TCP \ {c} : out'[d] = out[d] /\ channel'[d] = channel[d]
    BY <1>0 DEF Send, SendTCP, SendBluetooth, TypeOK
  <2> QED BY <1>1, <2>1 DEF given, beingWritten
<1>4. ASSUME c \in TCP, channel'[c] = "open"
      PROVE  channel[c] = "open" /\ given(c)' = given(c) \cup {current}
  <2>1. SendTCP(c)
    BY <1>0, <1>4 DEF Send, SendBluetooth
  <2>2. out'[c] = Append(out[c], current) /\ channel[c] = "open"
    BY <1>0, <1>4, <2>1 DEF SendTCP, Shut, TypeOK
  <2>3. Elements(out'[c]) = Elements(out[c]) \cup {current}
    BY <1>1, <2>2, RouteTypes, ElementsAppend
  <2> QED BY <1>1, <2>2, <2>3 DEF given, Given, beingWritten
<1>5. \A d \in TCP : \A i \in given(d) : i \in Nat
  BY MessageFacts DEF RouteInv, GivenDue, Conn
<1>6. \A i \in {current} : \A j \in i .. handled : FALSE
  BY <1>1
<1>7. ASSUME NEW d \in TCP, channel'[d] = "open"
      PROVE  /\ \A i \in given(d)' : \A j \in i .. handled : Due(d, j) => j \in given(d)'
             /\ given(d)' # {} /\ Due(d, current) => d \in todo' \/ current \in given(d)'
  <2>1. CASE d = c
    BY <1>4, <1>6, <1>7, <2>1 DEF Unbroken
  <2>2. CASE d # c
    BY <1>1, <1>3, <1>7, <2>2 DEF Unbroken
  <2> QED BY <2>1, <2>2
<1> QED BY <1>1, <1>2, <1>7 DEF Unbroken

LEMMA UnbrokenInductive ==
  TypeOK /\ RouteInv /\ Shut /\ Unbroken /\ [Next]_vars => Unbroken'
<1> SUFFICES ASSUME TypeOK, RouteInv, Shut, Unbroken, [Next]_vars PROVE Unbroken'
  OBVIOUS
<1> USE DEF loggerVars, tcpVars, queueVars, routerVars, serviceVars
<1>0. TCP \subseteq Conn /\ Bluetooth \subseteq Conn /\ TCP \cap Bluetooth = {}
  BY ServerAssumption DEF Conn
<1>1. ASSUME NEW c \in TCP, Accept(c) PROVE Unbroken'
  <2>1. given(c) = {}
    BY <1>0, <1>1 DEF Accept, RouteInv, Fresh
  <2> QED BY <1>0, <1>1, <2>1, GivenKept, UnbrokenQuiet DEF Accept, Announce, TypeOK
<1>2. ASSUME NEW c \in Bluetooth, BluetoothConnects(c) PROVE Unbroken'
  BY <1>0, <1>2, GivenKept, UnbrokenQuiet DEF BluetoothConnects, Announce, TypeOK
<1>3. ASSUME NEW c \in TCP, NEW k \in Kind, ReadMessage(c, k) PROVE Unbroken'
  BY <1>0, <1>3, UnbrokenReceives DEF ReadMessage
<1>4. ASSUME NEW c \in Bluetooth, NEW k \in Kind, BluetoothMessage(c, k) PROVE Unbroken'
  BY <1>0, <1>4, UnbrokenReceives DEF BluetoothMessage
<1>5. CASE Poll \/ Finish
  BY <1>5, UnbrokenPolls, UnbrokenFinishes
<1>6. ASSUME NEW c \in Conn, Send(c) PROVE Unbroken'
  BY <1>6, UnbrokenSends
<1>7. CASE Written \/ WriteFails \/ (\E c \in TCP : TakeNext(c))
           \/ (\E c \in Bluetooth : BluetoothSends(c))
  BY <1>7, UnbrokenWrites
<1>8. CASE Select \/ Halt \/ FinishClose
  BY <1>8, GivenKept, UnbrokenQuiet DEF Select, Halt, FinishClose
<1>9. CASE CloseAll
  BY <1>0, <1>9, GivenKept, UnbrokenQuiet DEF CloseAll
<1>10. ASSUME NEW c \in TCP, FindInvalid(c) \/ RoundFails(c) PROVE Unbroken'
  BY <1>10, GivenKept, UnbrokenQuiet DEF FindInvalid, RoundFails
<1>11. ASSUME NEW c \in TCP, Break(c) PROVE Unbroken'
  BY <1>0, <1>11, GivenKept, UnbrokenQuiet DEF Break, TypeOK
<1>12. ASSUME NEW c \in Bluetooth, BluetoothCloses(c) PROVE Unbroken'
  BY <1>0, <1>12, GivenKept, UnbrokenQuiet DEF BluetoothCloses, TypeOK
<1>13. ASSUME NEW c \in Conn, Skip(c) PROVE Unbroken'
  BY <1>0, <1>13, GivenKept, UnbrokenQuiet DEF Skip, Shut
<1>14. CASE Service
  BY <1>14, GivenKept, UnbrokenQuiet DEF Service, ApiStart, ApiStop, ApiClear, Tick, Destroy
<1>15. CASE UNCHANGED vars
  BY <1>15, GivenKept, UnbrokenQuiet DEF vars
<1> QED
  BY <1>1, <1>2, <1>3, <1>4, <1>5, <1>6, <1>7, <1>8, <1>9, <1>10, <1>11, <1>12, <1>13,
     <1>14, <1>15
  DEF Next, Selector, BluetoothThreads, Router

LEMMA UnbrokenSuffices == TypeOK /\ RouteInv /\ Unbroken => NoGapWhileOpen
<1> SUFFICES ASSUME TypeOK, RouteInv, Unbroken, NEW c \in TCP, channel[c] = "open",
                    NEW i \in given(c), NEW k \in given(c), NEW j \in i .. k, Due(c, j)
             PROVE  j \in given(c)
  BY DEF NoGapWhileOpen, given, Given
<1>1. c \in Conn
  BY DEF Conn
<1>2. /\ i \in Nat /\ k \in Nat /\ handled \in Nat /\ current = handled + 1
      /\ k =< handled \/ (k = current /\ router = "route")
  BY <1>1, MessageFacts DEF RouteInv, GivenDue, current
<1>3. CASE j =< handled
  <2>1. j \in i .. handled
    BY <1>2, <1>3
  <2> QED BY <2>1 DEF Unbroken
<1>4. CASE j = current
  <2>1. j = k
    BY <1>2, <1>4
  <2> QED BY <2>1
<1> QED BY <1>2, <1>3, <1>4

(***************************************************************************)
(* A TCP connection whose channel is open has been given, from the first   *)
(* message it was given, every one it is due: a full queue, whatever the   *)
(* selector thread is doing, closes the channel before one is dropped.     *)
(***************************************************************************)
THEOREM NothingDropped == Spec => []NoGapWhileOpen
<1>1. Spec => []RouteInv
  BY RouteInit, TypeInit, TypeInductive, RouteInductive, PTL DEF Spec
<1>2. Init => Shut /\ Unbroken
  BY RouteInit, ServerAssumption DEF Init, Shut, Unbroken, Conn
<1>3. Spec => [](Shut /\ Unbroken)
  BY <1>1, <1>2, TypeInit, TypeInductive, ShutInductive, UnbrokenInductive, PTL DEF Spec
<1> QED BY <1>1, <1>3, TypeCorrect, UnbrokenSuffices, PTL
=============================================================================
