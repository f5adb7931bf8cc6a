--------------------------- MODULE MsgServerProofs ---------------------------
(***************************************************************************)
(* Proofs about MsgServer for every set of connections, ids, lists, masks  *)
(* and log names: type correctness, order of delivery, privacy, and that   *)
(* the server keeps the promise of MessageHub.                             *)
(***************************************************************************)
EXTENDS MsgServer, SequenceTheorems, TLAPS

(* A sequence over a set is one over any larger set. *)
LEMMA SeqWiden ==
  ASSUME NEW S, NEW T, S \subseteq T, NEW s \in Seq(S)
  PROVE  s \in Seq(T)
  OBVIOUS

(* The entries logMsg writes for one message. *)
LEMMA LogMsgType ==
  ASSUME TypeOK, NEW i \in Id, LogMsg(i)
  PROVE  /\ files' \in [LogName -> Seq(Entry)]
         /\ loggedMsgHeader' \in SUBSET Id
         /\ logFile' \in LogName \cup {NoLog}
         /\ logFileType' \in LogTypes
         /\ saveDialog' \in BOOLEAN
<1>1. CASE logFile = NoLog /\ UNCHANGED logVars
  BY <1>1 DEF TypeOK, logVars
<1>2. CASE /\ logFile # NoLog
           /\ files' = [files EXCEPT ![logFile] = @ \o Header(i) \o Row(i)]
           /\ loggedMsgHeader' = loggedMsgHeader \cup {i}
           /\ UNCHANGED <<logFile, logFileType, saveDialog>>
  <2>1. Header(i) \in Seq(Entry) /\ Row(i) \in Seq(Entry)
    <3>1. [kind |-> "header", id |-> i] \in Entry /\ [kind |-> "row", id |-> i] \in Entry
      BY DEF Entry
    <3> QED BY <3>1 DEF Header, Row
  <2>2. files[logFile] \o Header(i) \o Row(i) \in Seq(Entry)
    BY <2>1, <1>2 DEF TypeOK
  <2> QED BY <1>2, <2>2 DEF TypeOK
<1> QED BY <1>1, <1>2 DEF LogMsg

(* A routed message adds its own position, or nothing, to what a connection *)
(* has been given.                                                          *)
LEMMA DeliverType ==
  ASSUME TypeOK, NEW s \in Client, NEW i \in Id, NEW raising, Handle(s, i),
         received' = Deliver(s, i, Len(handled'), raising)
  PROVE  /\ handled' \in Seq(Message)
         /\ Len(handled') = Len(handled) + 1
         /\ received' \in [Client -> Seq(1 .. Len(handled'))]
<1>1. [id |-> i, from |-> s] \in Message
  BY DEF Message
<1>2. /\ handled' \in Seq(Message)
      /\ Len(handled') = Len(handled) + 1
      /\ Len(handled) \in Nat
  BY <1>1 DEF Handle, TypeOK
<1>3. ASSUME NEW c \in Client
      PROVE  received[c] \in Seq(1 .. Len(handled'))
  <2>1. received[c] \in Seq(1 .. Len(handled))
    BY DEF TypeOK
  <2>2. 1 .. Len(handled) \subseteq 1 .. Len(handled')
    BY <1>2
  <2> QED BY <2>1, <2>2, SeqWiden
<1>4. ASSUME NEW c \in Client
      PROVE  Append(received[c], Len(handled')) \in Seq(1 .. Len(handled'))
  BY <1>2, <1>3
<1> QED BY <1>2, <1>3, <1>4 DEF Deliver

(* queryLog leaves well-formed statuses and a Boolean up. *)
LEMMA QueryLogType ==
  ASSUME TypeOK, NEW file \in LogName \cup {NoLog}, NEW type \in LogTypes, NEW broken,
         QueryLog(file, type, broken)
  PROVE  logStatus' \in [Client -> Status] /\ up' \in BOOLEAN
<1>1. [file |-> file, type |-> type] \in Status
  BY DEF Status
<1> QED BY <1>1 DEF QueryLog, TypeOK

-----------------------------------------------------------------------------
(***************************************************************************)
(* Every variable keeps its type, a connection is in the dict exactly from *)
(* its acceptance to its end, and what a connection was given are          *)
(* positions of messages that were handled.                                *)
(***************************************************************************)
THEOREM TypeCorrect == Spec => []TypeOK
<1>1. Init => TypeOK
  <2> SUFFICES ASSUME Init PROVE TypeOK
    OBVIOUS
  <2>1. Unknown \in Status /\ Unmatched \in LogTypes
    BY DEF Status, LogTypes
  <2>2. Plugin \subseteq Client /\ MaxMsgs \in Nat
    BY ServerAssumption
  <2>3. received \in [Client -> Seq(1 .. Len(handled))] /\ files \in [LogName -> Seq(Entry)]
    BY DEF Init
  <2>4. /\ clients \in [Client -> 0 .. accepted]
        /\ link \in [Client -> {"new", "open", "closing", "gone"}]
        /\ \A c \in Client : (c \in Members) <=> (link[c] \in {"open", "closing"})
    BY DEF Init, Members
  <2>5. /\ subscriptions \in [Client -> SUBSET Id]
        /\ matches \in [Client -> SUBSET Id]
        /\ privateSubscriptions \in [Id -> SUBSET Client]
        /\ claimedAt \in [Id -> Nat]
    BY <2>2 DEF Init
  <2>6. logStatus \in [Client -> Status] /\ handled \in Seq(Message)
    BY <2>1 DEF Init
  <2> QED BY <2>1, <2>3, <2>4, <2>5, <2>6 DEF Init, TypeOK
<1>2. TypeOK /\ [Next]_vars => TypeOK'
  <2> SUFFICES ASSUME TypeOK, [Next]_vars PROVE TypeOK'
    OBVIOUS
  <2> USE DEF connectionVars, routingVars, logVars, deliveryVars
  <2>1. ASSUME NEW c \in Client, NewConnection(c) PROVE TypeOK'
    BY <2>1 DEF NewConnection, TypeOK, Members
  <2>2. ASSUME NEW c \in Client, CloseSocket(c) PROVE TypeOK'
    BY <2>2 DEF CloseSocket, TypeOK, Members
  <2>3. ASSUME NEW c \in Client, ConnectionDied(c) PROVE TypeOK'
    BY <2>3 DEF ConnectionDied, TypeOK, Members
  <2>4. ASSUME NEW c \in Client, NEW ids \in IdLists, SubscriptionList(c, ids)
        PROVE  TypeOK'
    BY <2>4, ServerAssumption DEF SubscriptionList, Control, TypeOK, Members
  <2>5. ASSUME NEW c \in Client, NEW ids \in IdLists, PrivateSubscriptionList(c, ids)
        PROVE  TypeOK'
    <3>1. /\ privateSubscriptions' \in [Id -> SUBSET Client]
          /\ controls' \in Nat
      BY <2>5 DEF PrivateSubscriptionList, Control, TypeOK
    <3>2. claimedAt' \in [Id -> Nat]
      BY <2>5 DEF PrivateSubscriptionList, TypeOK
    <3> QED BY <2>5, <3>1, <3>2 DEF PrivateSubscriptionList, TypeOK, Members
  <2>6. ASSUME NEW c \in Client, NEW ids \in MaskSets, MaskedSubscription(c, ids)
        PROVE  TypeOK'
    BY <2>6, ServerAssumption DEF MaskedSubscription, Control, TypeOK, Members
  <2>7. ASSUME NEW name \in LogName, NEW given \in LogTypes, NEW broken,
               StartLog(name, given, broken), saveDialog' \in BOOLEAN, controls' \in Nat
        PROVE  TypeOK'
    <3> DEFINE type == IF TypeOfName[name] # Unmatched THEN TypeOfName[name] ELSE given
    <3>1. type \in LogTypes
      BY ServerAssumption
    <3>2. logStatus' \in [Client -> Status] /\ up' \in BOOLEAN
      BY <2>7, <3>1, QueryLogType DEF StartLog
    <3> QED BY <2>7, <3>1, <3>2 DEF StartLog, TypeOK, Members
  <2>8. ASSUME NEW name \in LogName, NEW broken, StartLogMessage(name, broken)
        PROVE  TypeOK'
    BY <2>7, <2>8 DEF StartLogMessage, Control, TypeOK, LogTypes
  <2>9. ASSUME NEW name \in LogName, NEW broken, SaveDialogAccepted(name, broken)
        PROVE  TypeOK'
    BY <2>7, <2>9 DEF SaveDialogAccepted, TypeOK
  <2>10. ASSUME NEW broken, StopLog(broken) PROVE TypeOK'
    <3>1. logStatus' \in [Client -> Status] /\ up' \in BOOLEAN
      BY <2>10, QueryLogType DEF StopLog, LogTypes
    <3> QED BY <2>10, <3>1 DEF StopLog, Control, TypeOK, Members
  <2>11. ASSUME NEW broken, QueryLogMessage(broken) PROVE TypeOK'
    <3>1. logStatus' \in [Client -> Status] /\ up' \in BOOLEAN
      BY <2>11, QueryLogType DEF QueryLogMessage, LogTypes, TypeOK
    <3> QED BY <2>11, <3>1 DEF QueryLogMessage, Control, TypeOK, Members
  <2>12. ASSUME NEW s \in Client, NEW i \in Id, NEW broken, RouteMessage(s, i, broken)
         PROVE  TypeOK'
    <3>1. /\ handled' \in Seq(Message)
          /\ received' \in [Client -> Seq(1 .. Len(handled'))]
      BY <2>12, DeliverType DEF RouteMessage
    <3>2. /\ files' \in [LogName -> Seq(Entry)]
          /\ loggedMsgHeader' \in SUBSET Id
          /\ logFile' \in LogName \cup {NoLog}
          /\ logFileType' \in LogTypes
          /\ saveDialog' \in BOOLEAN
      BY <2>12, LogMsgType DEF RouteMessage
    <3> QED BY <2>12, <3>1, <3>2 DEF RouteMessage, TypeOK, Members
  <2>13. ASSUME NEW s \in Client, NEW i \in Id, LoggingRaises(s, i) PROVE TypeOK'
    <3>1. received = Deliver(s, i, Len(handled'), Client)
      BY DEF Deliver, TypeOK
    <3>2. /\ handled' \in Seq(Message)
          /\ received' \in [Client -> Seq(1 .. Len(handled'))]
      BY <2>13, <3>1, DeliverType DEF LoggingRaises
    <3>3. [kind |-> "row", id |-> i] \in Entry
      BY DEF Entry
    <3>4. files' \in [LogName -> Seq(Entry)]
      <4>1. files[logFile] \in Seq(Entry) /\ files[logFile] \o Row(i) \in Seq(Entry)
        BY <2>13, <3>3 DEF LoggingRaises, Row, TypeOK
      <4> QED BY <2>13, <4>1 DEF LoggingRaises, TypeOK
    <3> QED BY <2>13, <3>2, <3>4 DEF LoggingRaises, TypeOK, Members
  <2>14. CASE LogButton
    BY <2>14 DEF LogButton, Control, TypeOK, Members
  <2>15. CASE SaveDialogCancelled
    BY <2>15 DEF SaveDialogCancelled, TypeOK, Members
  <2>16. CASE UNCHANGED vars
    BY <2>16 DEF vars, TypeOK, Members
  <2> QED BY <2>1, <2>2, <2>3, <2>4, <2>5, <2>6, <2>8, <2>9, <2>10, <2>11, <2>12,
             <2>13, <2>14, <2>15, <2>16 DEF Next
<1> QED BY <1>1, <1>2, PTL DEF Spec
-----------------------------------------------------------------------------
(* A step that neither handles a message nor gives one to a connection. *)
LEMMA QuietSteps ==
  ASSUME [Next]_vars,
         \A s \in Client, i \in Id, broken \in SUBSET Plugin : ~RouteMessage(s, i, broken),
         \A s \in Client, i \in Id : ~LoggingRaises(s, i)
  PROVE  UNCHANGED deliveryVars
BY DEF Next, vars, deliveryVars, NewConnection, CloseSocket, ConnectionDied,
       SubscriptionList, MaskedSubscription, PrivateSubscriptionList, StartLogMessage,
       SaveDialogAccepted, StartLog, StopLog, QueryLogMessage, LogButton,
       SaveDialogCancelled

(* What routing gives a connection is what it had, and the new position if  *)
(* the connection is a member that is entitled to the id.                   *)
LEMMA RoutedTo ==
  ASSUME TypeOK, NEW s \in Client, NEW i \in Id, NEW broken, RouteMessage(s, i, broken),
         NEW c \in Client
  PROVE  \/ received'[c] = received[c]
         \/ /\ received'[c] = Append(received[c], Len(handled) + 1)
            /\ c \in Members
            /\ Entitled(c, i)
<1>1. Len(handled') = Len(handled) + 1
  BY DeliverType DEF RouteMessage
<1>2. Attempted(s, i, RaisingSends(broken)) \subseteq {d \in Members : Entitled(d, i)}
  BY DEF Attempted
<1> QED BY <1>1, <1>2 DEF RouteMessage, Deliver

(***************************************************************************)
(* Nobody is handed a message twice or out of order.                       *)
(***************************************************************************)
THEOREM OrderCorrect == Spec => []DeliveredInOrder
<1>1. Init => DeliveredInOrder
  BY DEF Init, DeliveredInOrder
<1>2. TypeOK /\ DeliveredInOrder /\ [Next]_vars => DeliveredInOrder'
  <2> SUFFICES ASSUME TypeOK, DeliveredInOrder, [Next]_vars PROVE DeliveredInOrder'
    OBVIOUS
  <2>1. ASSUME NEW s \in Client, NEW i \in Id, NEW broken, RouteMessage(s, i, broken)
        PROVE  DeliveredInOrder'
    <3> SUFFICES ASSUME NEW c \in Client, NEW j \in DOMAIN received'[c],
                        NEW k \in DOMAIN received'[c], j < k
                 PROVE  received'[c][j] < received'[c][k]
      BY DEF DeliveredInOrder
    <3>1. received[c] \in Seq(1 .. Len(handled)) /\ Len(handled) \in Nat
      BY DEF TypeOK
    <3>2. CASE received'[c] = received[c]
      BY <3>2 DEF DeliveredInOrder
    <3>3. CASE received'[c] = Append(received[c], Len(handled) + 1)
      <4>1. CASE k \in DOMAIN received[c]
        BY <3>1, <3>3, <4>1 DEF DeliveredInOrder
      <4>2. CASE k \notin DOMAIN received[c]
        <5>1. /\ received'[c][k] = Len(handled) + 1
              /\ j \in DOMAIN received[c]
              /\ received'[c][j] = received[c][j]
          BY <3>1, <3>3, <4>2
        <5>2. received[c][j] \in 1 .. Len(handled)
          BY <3>1, <5>1
        <5> QED BY <3>1, <5>1, <5>2
      <4> QED BY <4>1, <4>2
    <3> QED BY <2>1, <3>2, <3>3, RoutedTo
  <2>2. ASSUME NEW s \in Client, NEW i \in Id, LoggingRaises(s, i)
        PROVE  DeliveredInOrder'
    BY <2>2 DEF LoggingRaises, DeliveredInOrder
  <2>3. CASE UNCHANGED deliveryVars
    BY <2>3 DEF deliveryVars, DeliveredInOrder
  <2> QED BY <2>1, <2>2, <2>3, QuietSteps
<1> QED BY <1>1, <1>2, TypeCorrect, PTL DEF Spec
-----------------------------------------------------------------------------
(* A step that makes no claim leaves the claims and their history alone. *)
LEMMA ClaimsStay ==
  ASSUME [Next]_vars,
         \A c \in Client, ids \in IdLists : ~PrivateSubscriptionList(c, ids)
  PROVE  UNCHANGED <<privateSubscriptions, claimedAt>>
BY DEF Next, vars, routingVars, NewConnection, CloseSocket, ConnectionDied,
       SubscriptionList, MaskedSubscription, StartLogMessage, SaveDialogAccepted,
       StartLog, StopLog, QueryLogMessage, RouteMessage, LoggingRaises, LogButton,
       SaveDialogCancelled

(* A handled message is added to the history and the rest of it stays. *)
LEMMA HandledGrows ==
  ASSUME TypeOK, NEW s \in Client, NEW i \in Id, Handle(s, i)
  PROVE  /\ Len(handled') = Len(handled) + 1
         /\ Len(handled') <= MaxMsgs
         /\ handled'[Len(handled')].id = i
         /\ \A n \in 1 .. Len(handled) : handled'[n] = handled[n]
BY ServerAssumption DEF Handle, TypeOK

(***************************************************************************)
(* A claimed id stays private.  That an id without claimants has no claim  *)
(* in its history is what makes the invariant inductive: were the last     *)
(* claimant's departure to drop its claim, the id would be public again    *)
(* while its history says otherwise.                                       *)
(***************************************************************************)
THEOREM PrivacyCorrect == Spec => []PrivateStaysPrivate
<1>1. Init => PrivacyInv
  BY ServerAssumption DEF Init, PrivacyInv, PrivateStaysPrivate
<1>2. TypeOK /\ PrivacyInv /\ [Next]_vars => PrivacyInv'
  <2> SUFFICES ASSUME TypeOK, PrivacyInv, [Next]_vars PROVE PrivacyInv'
    OBVIOUS
  <2>1. ASSUME NEW s \in Client, NEW i \in Id, NEW broken, RouteMessage(s, i, broken)
        PROVE  PrivacyInv'
    <3>1. UNCHANGED <<privateSubscriptions, claimedAt>>
      BY <2>1 DEF RouteMessage, routingVars
    <3>2. /\ Len(handled') = Len(handled) + 1
          /\ Len(handled') <= MaxMsgs
          /\ handled'[Len(handled')].id = i
          /\ \A n \in 1 .. Len(handled) : handled'[n] = handled[n]
      BY <2>1, HandledGrows DEF RouteMessage
    <3>3. ASSUME NEW c \in Client \ Hardware, NEW k \in DOMAIN received'[c],
                 received'[c][k] > claimedAt'[handled'[received'[c][k]].id]
          PROVE  c \in privateSubscriptions'[handled'[received'[c][k]].id]
      <4>1. received[c] \in Seq(1 .. Len(handled)) /\ Len(handled) \in Nat
        BY DEF TypeOK
      <4>2. CASE received'[c] = received[c]
        <5>1. received[c][k] \in 1 .. Len(handled)
          BY <4>1, <4>2
        <5> QED BY <3>1, <3>2, <3>3, <4>2, <5>1 DEF PrivacyInv, PrivateStaysPrivate
      <4>3. CASE received'[c] = Append(received[c], Len(handled) + 1) /\ Entitled(c, i)
        <5>1. CASE k \in DOMAIN received[c]
          <6>1. received'[c][k] = received[c][k] /\ received[c][k] \in 1 .. Len(handled)
            BY <4>1, <4>3, <5>1
          <6> QED BY <3>1, <3>2, <3>3, <5>1, <6>1 DEF PrivacyInv, PrivateStaysPrivate
        <5>2. CASE k \notin DOMAIN received[c]
          <6>1. received'[c][k] = Len(handled')
            BY <3>2, <4>1, <4>3, <5>2
          <6>2. Len(handled') > claimedAt[i]
            BY <3>1, <3>2, <3>3, <6>1
          <6>3. privateSubscriptions[i] # {}
            BY <3>2, <6>2, <4>1, ServerAssumption DEF PrivacyInv
          <6> QED BY <3>1, <3>2, <4>3, <6>1, <6>3 DEF Entitled
        <5> QED BY <5>1, <5>2
      <4> QED BY <2>1, <4>2, <4>3, RoutedTo
    <3> QED BY <3>1, <3>2, <3>3 DEF PrivacyInv, PrivateStaysPrivate
  <2>2. ASSUME NEW s \in Client, NEW i \in Id, LoggingRaises(s, i)
        PROVE  PrivacyInv'
    <3>1. UNCHANGED <<privateSubscriptions, claimedAt, received>>
      BY <2>2 DEF LoggingRaises, routingVars
    <3>2. /\ Len(handled') <= MaxMsgs
          /\ \A n \in 1 .. Len(handled) : handled'[n] = handled[n]
      BY <2>2, HandledGrows DEF LoggingRaises
    <3>3. \A c \in Client : \A k \in DOMAIN received[c] : received[c][k] \in 1 .. Len(handled)
      BY DEF TypeOK
    <3> QED BY <3>1, <3>2, <3>3 DEF PrivacyInv, PrivateStaysPrivate
  <2>3. ASSUME NEW c \in Client, NEW ids \in IdLists, PrivateSubscriptionList(c, ids)
        PROVE  PrivacyInv'
    <3>1. UNCHANGED <<handled, received>>
      BY <2>3 DEF PrivateSubscriptionList, deliveryVars
    <3>2. ASSUME NEW i \in Id
          PROVE  /\ privateSubscriptions[i] \subseteq privateSubscriptions'[i]
                 /\ \/ claimedAt'[i] = claimedAt[i]
                    \/ claimedAt'[i] = Len(handled) /\ c \in privateSubscriptions'[i]
                 /\ privateSubscriptions'[i] = {} => i \notin ids
                 /\ i \notin ids => claimedAt'[i] = claimedAt[i]
      <4>1. /\ privateSubscriptions'[i] = IF i \in ids
                                          THEN privateSubscriptions[i] \cup {c}
                                          ELSE privateSubscriptions[i]
            /\ claimedAt'[i] = IF i \in ids /\ privateSubscriptions[i] = {}
                               THEN Len(handled) ELSE claimedAt[i]
        BY <2>3 DEF PrivateSubscriptionList
      <4> QED BY <4>1
    <3>3. \A d \in Client : \A k \in DOMAIN received[d] :
             /\ received[d][k] \in 1 .. Len(handled)
             /\ handled[received[d][k]].id \in Id
      <4>1. ASSUME NEW d \in Client, NEW k \in DOMAIN received[d]
            PROVE  received[d][k] \in 1 .. Len(handled)
        <5>1. received[d] \in Seq(1 .. Len(handled))
          BY DEF TypeOK
        <5> QED BY <5>1
      <4>2. \A n \in 1 .. Len(handled) : handled[n].id \in Id
        <5>1. handled \in Seq(Message)
          BY DEF TypeOK
        <5>2. \A n \in 1 .. Len(handled) : handled[n] \in Message
          BY <5>1
        <5> QED BY <5>2 DEF Message
      <4> QED BY <4>1, <4>2
    <3>4. ASSUME NEW d \in Client \ Hardware, NEW k \in DOMAIN received[d],
                 received[d][k] > claimedAt'[handled[received[d][k]].id]
          PROVE  d \in privateSubscriptions'[handled[received[d][k]].id]
      <4> DEFINE i == handled[received[d][k]].id
      <4>1. i \in Id /\ received[d][k] \in 1 .. Len(handled) /\ Len(handled) \in Nat
        BY <3>3 DEF TypeOK
      <4>2. claimedAt'[i] = claimedAt[i]
        BY <3>4, <3>2, <4>1
      <4> QED BY <3>4, <3>2, <4>1, <4>2 DEF PrivacyInv, PrivateStaysPrivate
    <3>5. PrivateStaysPrivate'
      BY <3>1, <3>4 DEF PrivateStaysPrivate
    <3>6. \A i \in Id : privateSubscriptions'[i] = {} => claimedAt'[i] = MaxMsgs
      BY <3>2 DEF PrivacyInv
    <3> QED BY <3>1, <3>5, <3>6 DEF PrivacyInv
  <2>4. CASE UNCHANGED <<deliveryVars, privateSubscriptions, claimedAt>>
    BY <2>4 DEF deliveryVars, PrivacyInv, PrivateStaysPrivate
  <2> QED BY <2>1, <2>2, <2>3, <2>4, QuietSteps, ClaimsStay
<1>3. PrivacyInv => PrivateStaysPrivate
  BY DEF PrivacyInv
<1> QED BY <1>1, <1>2, <1>3, TypeCorrect, PTL DEF Spec
-----------------------------------------------------------------------------
Ids(h) == [n \in DOMAIN h |-> h[n].id]

(* The ids published, as the hub sees them. *)
LEMMA IdsAppend ==
  ASSUME NEW h \in Seq(Message), NEW m \in Message
  PROVE  /\ Ids(Append(h, m)) = Append(Ids(h), m.id)
         /\ Len(Ids(Append(h, m))) = Len(h) + 1
<1>1. Ids(h) \in Seq(Id) /\ Len(Ids(h)) = Len(h)
  <2>1. \A n \in 1 .. Len(h) : h[n].id \in Id
    <3>1. \A n \in 1 .. Len(h) : h[n] \in Message
      OBVIOUS
    <3> QED BY <3>1 DEF Message
  <2> QED BY <2>1 DEF Ids
<1>2. m.id \in Id
  BY DEF Message
<1>3. Append(h, m) \in Seq(Message) /\ Len(Append(h, m)) = Len(h) + 1
  OBVIOUS
<1>4. /\ DOMAIN Ids(Append(h, m)) = 1 .. Len(h) + 1
      /\ DOMAIN Append(Ids(h), m.id) = 1 .. Len(h) + 1
  BY <1>1, <1>2, <1>3 DEF Ids
<1>5. ASSUME NEW n \in 1 .. Len(h) + 1
      PROVE  Ids(Append(h, m))[n] = Append(Ids(h), m.id)[n]
  <2>1. Ids(Append(h, m))[n] = Append(h, m)[n].id
    BY <1>3 DEF Ids
  <2>2. CASE n \in 1 .. Len(h)
    BY <1>1, <1>2, <2>1, <2>2 DEF Ids
  <2>3. CASE n = Len(h) + 1
    <3>1. Append(h, m)[n] = m
      BY <2>3
    <3>2. Append(Ids(h), m.id)[n] = m.id
      <4> DEFINE hs == Ids(h)
                 e == m.id
      <4>1. hs \in Seq(Id) /\ e \in Id /\ n = Len(hs) + 1
        BY <1>1, <1>2, <2>3
      <4> HIDE DEF hs, e
      <4>2. Append(hs, e)[n] = e
        BY <4>1
      <4> QED BY <4>2 DEF hs, e
    <3> QED BY <2>1, <3>1, <3>2
  <2>4. n \in 1 .. Len(h) \/ n = Len(h) + 1
    BY <1>1
  <2> QED BY <2>2, <2>3, <2>4
<1>6. Ids(Append(h, m)) \in Seq(Id) /\ Append(Ids(h), m.id) \in Seq(Id)
  <2>1. \A n \in 1 .. Len(h) + 1 : Append(h, m)[n].id \in Id
    <3>1. \A n \in 1 .. Len(h) + 1 : Append(h, m)[n] \in Message
      BY <1>3
    <3> QED BY <3>1 DEF Message
  <2> QED BY <1>1, <1>2, <1>3, <2>1 DEF Ids
<1>7. Ids(Append(h, m)) = Append(Ids(h), m.id)
  BY <1>4, <1>5, <1>6
<1> QED BY <1>1, <1>2, <1>7

(* Handling a message, with whatever it gives to connections, publishes it. *)
LEMMA HandlePublishes ==
  ASSUME TypeOK, NEW s \in Client, NEW i \in Id, Handle(s, i),
         UNCHANGED <<clients, privateSubscriptions>>,
         NEW given \in SUBSET Client,
         \A c \in given : c \in Members /\ Entitled(c, i),
         received' = [c \in Client |-> IF c \in given
                                       THEN Append(received[c], Len(handled'))
                                       ELSE received[c]]
  PROVE  Hub!Publish(i, given)
<1> DEFINE m == [id |-> i, from |-> s]
<1>1. handled' = Append(handled, m) /\ m \in Message /\ handled \in Seq(Message)
  BY DEF Handle, Message, TypeOK
<1>2. /\ Ids(handled') = Append(Ids(handled), i)
      /\ Len(Ids(handled')) = Len(handled) + 1
      /\ Len(handled') = Len(handled) + 1
  BY <1>1, IdsAppend
<1>3. given \subseteq Members \cap Hub!Audience(i)
  BY DEF Entitled, Hub!Audience
<1>4. UNCHANGED <<Members, privateSubscriptions>>
  BY DEF Members
<1> QED BY <1>2, <1>3, <1>4 DEF Hub!Publish, Ids

(***************************************************************************)
(* Every step of the server is a step of MessageHub or leaves what the hub *)
(* promises alone: accepting is joining, dying is leaving, a private       *)
(* subscription is a claim, and a handled message is published.            *)
(***************************************************************************)
THEOREM HubCorrect == Spec => HubSpec
<1>1. Init => Hub!Init
  BY DEF Init, Hub!Init, Members
<1>2. TypeOK /\ [Next]_vars => [Hub!Next]_(Hub!vars)
  <2> SUFFICES ASSUME TypeOK, [Next]_vars PROVE [Hub!Next]_(Hub!vars)
    OBVIOUS
  <2>1. ASSUME NEW c \in Client, NewConnection(c) PROVE Hub!Next
    <3>1. Members' = Members \cup {c} /\ UNCHANGED <<privateSubscriptions, handled, received>>
      BY <2>1 DEF NewConnection, Members, routingVars, deliveryVars, TypeOK
    <3>2. Hub!Join(c)
      BY <3>1 DEF Hub!Join
    <3> QED BY <3>2 DEF Hub!Next
  <2>2. ASSUME NEW c \in Client, ConnectionDied(c) PROVE Hub!Next
    <3>1. Members' = Members \ {c} /\ UNCHANGED <<privateSubscriptions, handled, received>>
      BY <2>2 DEF ConnectionDied, Members, routingVars, deliveryVars, TypeOK
    <3>2. Hub!Leave(c)
      BY <3>1 DEF Hub!Leave
    <3> QED BY <3>2 DEF Hub!Next
  <2>3. ASSUME NEW c \in Client, NEW ids \in IdLists, PrivateSubscriptionList(c, ids)
        PROVE  Hub!Next
    <3>1. ids \in SUBSET Id
      BY ServerAssumption
    <3>2. Hub!Claim(c, ids)
      BY <2>3 DEF PrivateSubscriptionList, Readable, Members, connectionVars, deliveryVars,
                  Hub!Claim
    <3> QED BY <3>1, <3>2 DEF Hub!Next
  <2>4. ASSUME NEW s \in Client, NEW i \in Id, NEW broken, RouteMessage(s, i, broken)
        PROVE  Hub!Next
    <3>1. Attempted(s, i, RaisingSends(broken)) \subseteq {d \in Members : Entitled(d, i)}
      BY DEF Attempted
    <3>2. PICK given \in SUBSET Client :
             given = {c \in Attempted(s, i, RaisingSends(broken))
                              \ RaisingSends(broken) : link[c] = "open"}
      BY <3>1 DEF Members
    <3>3. \A c \in given : c \in Members /\ Entitled(c, i)
      BY <3>1, <3>2
    <3>4. received' = [c \in Client |-> IF c \in given
                                        THEN Append(received[c], Len(handled'))
                                        ELSE received[c]]
      BY <2>4, <3>2 DEF RouteMessage, Deliver
    <3>5. Handle(s, i) /\ UNCHANGED <<clients, privateSubscriptions>>
      BY <2>4 DEF RouteMessage, connectionVars, routingVars
    <3>6. Hub!Publish(i, given)
      BY <3>3, <3>4, <3>5, HandlePublishes
    <3> QED BY <3>6 DEF Hub!Next
  <2>5. ASSUME NEW s \in Client, NEW i \in Id, LoggingRaises(s, i) PROVE Hub!Next
    <3>1. received' = [c \in Client |-> IF c \in {}
                                        THEN Append(received[c], Len(handled'))
                                        ELSE received[c]]
      BY <2>5 DEF LoggingRaises, TypeOK
    <3>2. Hub!Publish(i, {})
      BY <2>5, <3>1, HandlePublishes DEF LoggingRaises, connectionVars, routingVars
    <3> QED BY <3>2 DEF Hub!Next
  <2>6. CASE UNCHANGED <<clients, privateSubscriptions, handled, received>>
    BY <2>6 DEF Hub!vars, Members
  <2>7. \/ \E c \in Client : NewConnection(c) \/ ConnectionDied(c)
        \/ \E c \in Client, ids \in IdLists : PrivateSubscriptionList(c, ids)
        \/ \E s \in Client, i \in Id, broken \in SUBSET Plugin : RouteMessage(s, i, broken)
        \/ \E s \in Client, i \in Id : LoggingRaises(s, i)
        \/ UNCHANGED <<clients, privateSubscriptions, handled, received>>
    BY DEF Next, vars, connectionVars, routingVars, deliveryVars, CloseSocket,
           SubscriptionList, MaskedSubscription, StartLogMessage, SaveDialogAccepted,
           StartLog, StopLog, QueryLogMessage, LogButton, SaveDialogCancelled
  <2> QED BY <2>1, <2>2, <2>3, <2>4, <2>5, <2>6, <2>7
<1> QED BY <1>1, <1>2, TypeCorrect, PTL DEF Spec, HubSpec, Hub!Spec
-----------------------------------------------------------------------------
(* What a step that leaves the log and the statuses alone leaves alone. *)
LEMMA LogStaysQuiet ==
  ASSUME [Next]_vars,
         \A n \in LogName, broken \in SUBSET Plugin :
            ~StartLogMessage(n, broken) /\ ~SaveDialogAccepted(n, broken),
         \A broken \in SUBSET Plugin : ~StopLog(broken) /\ ~QueryLogMessage(broken)
  PROVE  /\ logStatus' = logStatus
         /\ up' = FALSE \/ UNCHANGED <<up, logFile, logFileType>>
BY DEF Next, vars, logVars, NewConnection, CloseSocket, ConnectionDied, SubscriptionList,
       MaskedSubscription, PrivateSubscriptionList, LogButton, SaveDialogCancelled,
       RouteMessage, LogMsg, LoggingRaises

(* A connection in the dict was there before, or is new. *)
LEMMA MembersGrow ==
  ASSUME TypeOK, [Next]_vars, NEW c \in Client
  PROVE  /\ link'[c] = "new" => link[c] = "new"
         /\ link'[c] = "open" => link[c] \in {"open", "new"}
         /\ link[c] = "new" => c \notin Members
<1>1. ASSUME \/ link' = link
             \/ \E d \in Client : link' = [link EXCEPT ![d] = "open"] /\ link[d] = "new"
             \/ \E d \in Client : link' = [link EXCEPT ![d] = "closing"]
             \/ \E d \in Client : link' = [link EXCEPT ![d] = "gone"]
      PROVE  /\ link'[c] = "new" => link[c] = "new"
             /\ link'[c] = "open" => link[c] \in {"open", "new"}
  BY <1>1 DEF TypeOK
<1>2. link[c] = "new" => c \notin Members
  BY DEF TypeOK
<1> QED
  BY <1>1, <1>2 DEF Next, vars, connectionVars, NewConnection, CloseSocket, ConnectionDied,
     SubscriptionList, MaskedSubscription, PrivateSubscriptionList, StartLogMessage,
     SaveDialogAccepted, StartLog, StopLog, QueryLogMessage, LogButton,
     SaveDialogCancelled, RouteMessage, LoggingRaises

(* The strengthening of LogStatusAgrees: nobody was told anything before it *)
(* joined.                                                                  *)
StatusInv == /\ LogStatusAgrees
             /\ \A c \in Client : link[c] = "new" => logStatus[c] = Unknown

(* queryLog tells all whose socket is open, or ends the process. *)
LEMMA ToldByQueryLog ==
  ASSUME TypeOK, NEW file, NEW type, NEW broken, QueryLog(file, type, broken), up',
         NEW c \in Members, link[c] = "open"
  PROVE  logStatus'[c] = [file |-> file, type |-> type]
<1>1. RaisingSends(broken) = {}
  BY DEF QueryLog
<1> QED BY <1>1 DEF QueryLog, Members

(* ... and nobody else. *)
LEMMA UntoldByQueryLog ==
  ASSUME TypeOK, NEW file, NEW type, NEW broken, QueryLog(file, type, broken),
         NEW c \in Client, c \notin Members
  PROVE  logStatus'[c] = logStatus[c]
BY DEF QueryLog

(***************************************************************************)
(* What an open connection was last told about the log is still so.        *)
(***************************************************************************)
THEOREM StatusCorrect == Spec => []LogStatusAgrees
<1>1. Init => StatusInv
  BY DEF Init, StatusInv, LogStatusAgrees, Members
<1>2. TypeOK /\ StatusInv /\ [Next]_vars => StatusInv'
  <2> SUFFICES ASSUME TypeOK, StatusInv, [Next]_vars PROVE StatusInv'
    OBVIOUS
  <2>1. ASSUME NEW file, NEW type, NEW broken, QueryLog(file, type, broken),
               UNCHANGED connectionVars, logFile' = file,
               type = IF file = NoLog THEN Unmatched ELSE logFileType'
        PROVE  StatusInv'
    <3>1. Members' = Members /\ link' = link
      BY <2>1 DEF connectionVars, Members
    <3>2. LogStatusAgrees'
      BY <2>1, <3>1, ToldByQueryLog DEF LogStatusAgrees
    <3>3. \A c \in Client : link[c] = "new" => logStatus'[c] = Unknown
      BY <2>1, UntoldByQueryLog, MembersGrow DEF StatusInv
    <3> QED BY <3>1, <3>2, <3>3 DEF StatusInv
  <2>2. ASSUME NEW name \in LogName, NEW given, NEW broken, StartLog(name, given, broken)
        PROVE  StatusInv'
    <3>1. name # NoLog
      BY ServerAssumption
    <3> QED BY <2>1, <2>2, <3>1 DEF StartLog
  <2>3. ASSUME NEW broken, StopLog(broken) PROVE StatusInv'
    BY <2>1, <2>3 DEF StopLog
  <2>4. ASSUME NEW broken, QueryLogMessage(broken) PROVE StatusInv'
    BY <2>1, <2>4 DEF QueryLogMessage, logVars
  <2>5. CASE UNCHANGED <<up, logFile, logFileType, logStatus>>
    <3>1. ASSUME NEW c \in Members', up', link'[c] = "open", logStatus'[c] # Unknown
          PROVE  logStatus'[c] = [file |-> logFile', type |-> IF logFile' = NoLog
                                                             THEN Unmatched ELSE logFileType']
      <4>1. c \in Client /\ link[c] \in {"open", "new"}
        BY <3>1, MembersGrow DEF Members
      <4>2. link[c] = "open"
        BY <2>5, <3>1, <4>1 DEF StatusInv
      <4>3. c \in Members
        BY <4>1, <4>2 DEF TypeOK
      <4> QED BY <2>5, <3>1, <4>2, <4>3 DEF StatusInv, LogStatusAgrees
    <3>2. \A c \in Client : link'[c] = "new" => logStatus'[c] = Unknown
      BY <2>5, MembersGrow DEF StatusInv
    <3> QED BY <3>1, <3>2 DEF StatusInv, LogStatusAgrees
  <2>6. ASSUME UNCHANGED logStatus, up' = FALSE PROVE StatusInv'
    BY <2>6, MembersGrow DEF StatusInv, LogStatusAgrees
  <2> QED
    BY <2>2, <2>3, <2>4, <2>5, <2>6, LogStaysQuiet
       DEF StartLogMessage, SaveDialogAccepted
<1>3. StatusInv => LogStatusAgrees
  BY DEF StatusInv
<1> QED BY <1>1, <1>2, <1>3, TypeCorrect, PTL DEF Spec
-----------------------------------------------------------------------------
Headed(s, i) == \E j \in DOMAIN s : s[j] = [kind |-> "header", id |-> i]

(* Every row of s comes after a header for its message. *)
RowsHeaded(s) ==
    \A k \in DOMAIN s : s[k].kind = "row" =>
        \E j \in 1 .. k - 1 : s[j] = [kind |-> "header", id |-> s[k].id]

(* A header keeps its place when entries are appended. *)
LEMMA HeadedStays ==
  ASSUME NEW s \in Seq(Entry), NEW t \in Seq(Entry), NEW i, Headed(s, i)
  PROVE  Headed(s \o t, i)
<1>1. PICK j \in DOMAIN s : s[j] = [kind |-> "header", id |-> i]
  BY DEF Headed
<1>2. j \in DOMAIN (s \o t) /\ (s \o t)[j] = s[j]
  BY <1>1
<1> QED BY <1>1, <1>2 DEF Headed

(* What is written of a message are entries. *)
LEMMA EntriesWritten ==
  ASSUME NEW i \in Id
  PROVE  Header(i) \in Seq(Entry) /\ Row(i) \in Seq(Entry)
<1>1. [kind |-> "header", id |-> i] \in Entry /\ [kind |-> "row", id |-> i] \in Entry
  BY DEF Entry
<1>2. \A e \in Entry : <<e>> \in Seq(Entry)
  OBVIOUS
<1>3. <<>> \in Seq(Entry)
  OBVIOUS
<1> QED BY <1>1, <1>2, <1>3 DEF Header, Row

LEMMA HeaderAppended ==
  ASSUME NEW s \in Seq(Entry), NEW i \in Id, RowsHeaded(s)
  PROVE  LET t == Append(s, [kind |-> "header", id |-> i])
         IN  t \in Seq(Entry) /\ RowsHeaded(t) /\ Headed(t, i)
<1> DEFINE e == [kind |-> "header", id |-> i]
           t == Append(s, e)
<1>1. e \in Entry /\ t \in Seq(Entry)
  BY DEF Entry
<1>2. Headed(t, i)
  <2>1. Len(s) + 1 \in DOMAIN t /\ t[Len(s) + 1] = e
    BY <1>1
  <2> QED BY <2>1 DEF Headed
<1>3. ASSUME NEW k \in DOMAIN t, t[k].kind = "row"
      PROVE  \E j \in 1 .. k - 1 : t[j] = [kind |-> "header", id |-> t[k].id]
  <2>1. k \in DOMAIN s /\ t[k] = s[k]
    <3>1. k \in DOMAIN s \/ t[k] = e
      OBVIOUS
    <3>2. e.kind # "row"
      OBVIOUS
    <3> QED BY <1>3, <3>1, <3>2
  <2>2. PICK j \in 1 .. k - 1 : s[j] = [kind |-> "header", id |-> s[k].id]
    BY <1>3, <2>1 DEF RowsHeaded
  <2>3. t[j] = s[j]
    BY <2>1, <2>2
  <2> QED BY <2>1, <2>2, <2>3
<1> QED BY <1>1, <1>2, <1>3 DEF RowsHeaded

LEMMA RowAppended ==
  ASSUME NEW s \in Seq(Entry), NEW i \in Id, RowsHeaded(s), Headed(s, i)
  PROVE  RowsHeaded(Append(s, [kind |-> "row", id |-> i]))
<1> DEFINE e == [kind |-> "row", id |-> i]
           t == Append(s, e)
<1>1. SUFFICES ASSUME NEW k \in DOMAIN t, t[k].kind = "row"
               PROVE  \E j \in 1 .. k - 1 : t[j] = [kind |-> "header", id |-> t[k].id]
  BY DEF RowsHeaded
<1>2. CASE k \in DOMAIN s
  <2>1. t[k] = s[k]
    BY <1>2
  <2>2. PICK j \in 1 .. k - 1 : s[j] = [kind |-> "header", id |-> s[k].id]
    BY <1>1, <1>2, <2>1 DEF RowsHeaded
  <2>3. t[j] = s[j]
    BY <1>2, <2>2
  <2> QED BY <2>1, <2>2, <2>3
<1>3. CASE k = Len(s) + 1
  <2>1. PICK j \in DOMAIN s : s[j] = [kind |-> "header", id |-> i]
    BY DEF Headed
  <2>2. t[j] = s[j] /\ j \in 1 .. k - 1 /\ t[k] = e
    BY <1>3, <2>1
  <2>3. e.id = i
    OBVIOUS
  <2> QED BY <2>1, <2>2, <2>3
<1> QED BY <1>1, <1>2, <1>3

(* The strengthening of HeaderBeforeRow: while a log is open, its type is   *)
(* the one its name selects if that is a text type, and loggedMsgHeader     *)
(* holds only ids whose header is in the file.                              *)
HeaderInv ==
    /\ \A n \in LogName : TypeOfName[n] \in TextTypes => RowsHeaded(files[n])
    /\ logFile # NoLog =>
         /\ TypeOfName[logFile] \in TextTypes => logFileType = TypeOfName[logFile]
         /\ \A i \in loggedMsgHeader : Headed(files[logFile], i)

(* What logMsg writes keeps the rows of the file behind their headers. *)
LEMMA LogMsgKeepsHeaders ==
  ASSUME TypeOK, HeaderInv, NEW i \in Id, LogMsg(i), logFile # NoLog
  PROVE  HeaderInv'
<1> DEFINE s == files[logFile]
           t == s \o Header(i) \o Row(i)
<1>1. /\ logFile \in LogName /\ s \in Seq(Entry)
      /\ files' = [files EXCEPT ![logFile] = t]
      /\ loggedMsgHeader' = loggedMsgHeader \cup {i}
      /\ UNCHANGED <<logFile, logFileType>>
  BY DEF TypeOK, LogMsg
<1>2. /\ Header(i) \in Seq(Entry) /\ Row(i) \in Seq(Entry)
      /\ s \o Header(i) \in Seq(Entry)
  BY <1>1, EntriesWritten
<1>3. Headed(s \o Header(i), i) /\ (RowsHeaded(s) => RowsHeaded(s \o Header(i)))
  <2>1. CASE i \in loggedMsgHeader
    BY <1>1, <2>1 DEF Header, HeaderInv
  <2>2. CASE i \notin loggedMsgHeader
    <3>1. s \o Header(i) = Append(s, [kind |-> "header", id |-> i])
      BY <1>1, <2>2 DEF Header
    <3>2. ASSUME RowsHeaded(s)
          PROVE  RowsHeaded(s \o Header(i))
      BY <1>1, <3>1, <3>2, HeaderAppended
    <3>3. Headed(s \o Header(i), i)
      <4> DEFINE e == [kind |-> "header", id |-> i]
      <4>1. e \in Entry
        BY DEF Entry
      <4>2. Len(s) + 1 \in DOMAIN Append(s, e) /\ Append(s, e)[Len(s) + 1] = e
        BY <1>1, <4>1
      <4> QED BY <3>1, <4>2 DEF Headed
    <3> QED BY <3>2, <3>3
  <2> QED BY <2>1, <2>2
<1>4. t = Append(s \o Header(i), [kind |-> "row", id |-> i])
  BY <1>2 DEF Row
<1>5. RowsHeaded(s) => RowsHeaded(t)
  BY <1>2, <1>3, <1>4, RowAppended
<1>6. \A m \in loggedMsgHeader \cup {i} : Headed(t, m)
  <2>1. \A m \in loggedMsgHeader : Headed(s \o Header(i), m)
    BY <1>1, <1>2, HeadedStays DEF HeaderInv
  <2> QED BY <1>2, <1>3, <2>1, HeadedStays
<1>7. files'[logFile] = t /\ \A n \in LogName \ {logFile} : files'[n] = files[n]
  BY <1>1 DEF TypeOK
<1>8. \A n \in LogName : TypeOfName[n] \in TextTypes => RowsHeaded(files'[n])
  BY <1>5, <1>7 DEF HeaderInv
<1> QED BY <1>1, <1>6, <1>7, <1>8 DEF HeaderInv

(* A step that logs no message leaves the files alone, and with them what   *)
(* it leaves open of the log.                                               *)
LEMMA FilesStay ==
  ASSUME [Next]_vars,
         \A s \in Client, i \in Id, broken \in SUBSET Plugin : ~RouteMessage(s, i, broken),
         \A s \in Client, i \in Id : ~LoggingRaises(s, i)
  PROVE  /\ files' = files
         /\ \/ UNCHANGED <<logFile, logFileType, loggedMsgHeader>>
            \/ logFile' = NoLog
            \/ \E n \in LogName : \E given, broken : StartLog(n, given, broken)
BY DEF Next, vars, logVars, NewConnection, CloseSocket, ConnectionDied, SubscriptionList,
       MaskedSubscription, PrivateSubscriptionList, StartLogMessage, SaveDialogAccepted,
       StartLog, StopLog, QueryLogMessage, LogButton, SaveDialogCancelled

(***************************************************************************)
(* In a text log every row comes after a header for its message.           *)
(***************************************************************************)
THEOREM HeaderCorrect == Spec => []HeaderBeforeRow
<1>1. Init => HeaderInv
  BY DEF Init, HeaderInv, RowsHeaded
<1>2. TypeOK /\ HeaderInv /\ [Next]_vars => HeaderInv'
  <2> SUFFICES ASSUME TypeOK, HeaderInv, [Next]_vars PROVE HeaderInv'
    OBVIOUS
  <2>1. ASSUME NEW s \in Client, NEW i \in Id, NEW broken, RouteMessage(s, i, broken)
        PROVE  HeaderInv'
    <3>1. CASE logFile = NoLog
      BY <2>1, <3>1 DEF RouteMessage, LogMsg, logVars, HeaderInv
    <3> QED BY <2>1, <3>1, LogMsgKeepsHeaders DEF RouteMessage
  <2>2. ASSUME NEW s \in Client, NEW i \in Id, LoggingRaises(s, i) PROVE HeaderInv'
    <3>1. /\ logFile \in LogName /\ logFileType \notin TextTypes
          /\ UNCHANGED <<logFile, logFileType, loggedMsgHeader>>
      BY <2>2 DEF LoggingRaises, TypeOK
    <3>2. TypeOfName[logFile] \notin TextTypes
      BY <3>1, ServerAssumption DEF HeaderInv
    <3>3. \A n \in LogName \ {logFile} : files'[n] = files[n]
      BY <2>2 DEF LoggingRaises, TypeOK
    <3>4. ASSUME NEW m \in loggedMsgHeader PROVE Headed(files'[logFile], m)
      <4>1. files[logFile] \in Seq(Entry) /\ Row(i) \in Seq(Entry)
        BY <3>1, EntriesWritten DEF TypeOK
      <4>2. files'[logFile] = files[logFile] \/ files'[logFile] = files[logFile] \o Row(i)
        BY <2>2, <3>1 DEF LoggingRaises, TypeOK
      <4>3. Headed(files[logFile], m)
        BY <3>1, ServerAssumption DEF HeaderInv
      <4> QED BY <4>1, <4>2, <4>3, HeadedStays
    <3> QED BY <3>1, <3>2, <3>3, <3>4 DEF HeaderInv
  <2>3. ASSUME NEW n \in LogName, NEW given, NEW broken, StartLog(n, given, broken),
               files' = files
        PROVE  HeaderInv'
    BY <2>3 DEF StartLog, HeaderInv, TextTypes, Unmatched
  <2>4. CASE files' = files /\ UNCHANGED <<logFile, logFileType, loggedMsgHeader>>
    BY <2>4 DEF HeaderInv
  <2>5. CASE files' = files /\ logFile' = NoLog
    BY <2>5 DEF HeaderInv
  <2> QED BY <2>1, <2>2, <2>3, <2>4, <2>5, FilesStay
<1>3. HeaderInv => HeaderBeforeRow
  BY DEF HeaderInv, RowsHeaded, HeaderBeforeRow
<1> QED BY <1>1, <1>2, <1>3, TypeCorrect, PTL DEF Spec
-----------------------------------------------------------------------------
(***************************************************************************)
(* A message that is routed reaches every open socket it is for, whichever *)
(* sends to others raise.                                                  *)
(***************************************************************************)
THEOREM ServedCorrect == Spec => OthersServed
<1> DEFINE Served ==
      handled' # handled /\ up' =>
        LET n == Len(handled')
        IN  \A c \in Addressees(handled'[n]) \ Plugin : link[c] = "open" => Given(c, n)
<1>1. TypeOK /\ [Next]_vars => Served
  <2> SUFFICES ASSUME TypeOK, [Next]_vars, handled' # handled, up',
                      NEW c \in Addressees(handled'[Len(handled')]) \ Plugin,
                      link[c] = "open"
               PROVE  Given(c, Len(handled'))
    OBVIOUS
  <2>1. PICK s \in Client, i \in Id, broken \in SUBSET Plugin : RouteMessage(s, i, broken)
    BY QuietSteps DEF deliveryVars, LoggingRaises
  <2>2. /\ Len(handled') = Len(handled) + 1
        /\ handled'[Len(handled')] = [id |-> i, from |-> s]
    BY <2>1 DEF RouteMessage, Handle, TypeOK
  <2>3. c \in Members /\ c # s /\ Interested(c, i) /\ Entitled(c, i)
    BY <2>2 DEF Addressees
  <2>4. c \in Attempted(s, i, RaisingSends(broken)) \ RaisingSends(broken)
    BY <2>3 DEF Attempted, RaisingSends
  <2>5. received'[c] = Append(received[c], Len(handled'))
    BY <2>1, <2>3, <2>4 DEF RouteMessage, Deliver, Members
  <2>6. received[c] \in Seq(1 .. Len(handled))
    BY <2>3 DEF TypeOK, Members
  <2>7. Len(received[c]) + 1 \in DOMAIN received'[c]
        /\ received'[c][Len(received[c]) + 1] = Len(handled')
    BY <2>5, <2>6
  <2> QED BY <2>7 DEF Given
<1> QED BY <1>1, TypeCorrect, PTL DEF Spec, OthersServed
=============================================================================
