---------------------- MODULE WebsocketConnectionsProofs ---------------------
(***************************************************************************)
(* The connections of WebsocketConnections for every set of connections    *)
(* and any number of workers: the listeners are called as ConnectionEvents *)
(* promises, and every connection the server lists is tracked.             *)
(***************************************************************************)
EXTENDS WebsocketConnections, TLAPS

At(w, c, places) == decode[w].conn = c /\ decode[w].at \in places

Unopened(c) == ready[c] \in {"none", "connecting"}

(* What a worker has belongs to it: its connections have it as their       *)
(* worker, so no two workers open one connection.                          *)
Owned ==
    \A w \in Worker :
        /\ \A i \in 1 .. Len(queue[w]) : workerThread[queue[w][i][1]] = w
        /\ decode[w].at # "take" => /\ decode[w].conn \in Conns
                                    /\ workerThread[decode[w].conn] = w

(* Nothing is known of a connection that did not open; what a worker opens *)
(* has not been announced.                                                 *)
Fresh ==
    /\ \A c \in Conns : Unopened(c) =>
           /\ heard[c] = <<>>
           /\ \A w \in Worker : ~At(w, c, {"add", "insert", "announce"})
    /\ \A w \in Worker : decode[w].at \in {"open", "add", "insert", "announce"} =>
           heard[decode[w].conn] = <<>>

TrackedIsLive == \A c \in Conns : c \in tracked <=> Contract!Live(c)

(* c went through addConnection(), or never will: it is in no list before. *)
Added(c) == /\ ~Unopened(c)
            /\ \A w \in Worker : ~At(w, c, {"open", "add", "insert"})

AddedOnce == /\ \A c \in connections : Added(c)
             /\ \A t \in Thread : call[t].step = "report" =>
                    call[t].conn \in Conns /\ call[t].conn \notin connections
                        /\ Added(call[t].conn)

(* A worker that closes a connection before it announces it found the      *)
(* server stopped and did not add it.                                      *)
LateNotAdded == \A w \in Worker :
    decode[w].at = "announce" /\ call[w].step \in {"send", "flush", "mark"} =>
        decode[w].conn \notin connections

(* A worker that opens or reads a frame is in no close(). *)
Undisturbed == \A w \in Worker :
    decode[w].at \in {"open", "add", "insert", "frame"} => Free(w)

Inv == TypeOK /\ Owned /\ Fresh /\ TrackedIsLive /\ AddedOnce /\ LateNotAdded
           /\ Undisturbed /\ ListedIsTracked
-----------------------------------------------------------------------------
(* What the four ways to set one value of a function leave and give.        *)

LEMMA GoesEffect ==
    ASSUME TypeOK, NEW t \in Thread, NEW c \in Conns \union {NoConn},
           NEW step \in {"send", "flush", "reject", "mark", "enter", "report", "leave",
                       "dead"},
           Goes(t, step, c)
    PROVE  /\ call' \in [Thread -> Calls]
           /\ call'[t].step = step /\ call'[t].conn = c
           /\ \A s \in Thread : s # t => call'[s] = call[s]
  BY DEF TypeOK, Goes, Calls

LEMMA ReturnsEffect ==
    ASSUME TypeOK, NEW t \in Thread, Returns(t)
    PROVE  /\ call' \in [Thread -> Calls]
           /\ call'[t] = Idle
           /\ \A s \in Thread : s # t => call'[s] = call[s]
  BY DEF TypeOK, Returns, Calls, Idle

LEMMA CloseEffect ==
    ASSUME TypeOK, NEW t \in Thread, NEW c \in Conns \union {NoConn}, Close(t, c)
    PROVE  /\ call' \in [Thread -> Calls]
           /\ call'[t] = call[t] \/ call'[t].step = "send"
           /\ \A s \in Thread : s # t => call'[s] = call[s]
  BY GoesEffect DEF Close, TypeOK

LEMMA WorksEffect ==
    ASSUME TypeOK, NEW w \in Worker, NEW c \in Conns \union {NoConn},
           NEW at \in {"open", "add", "insert", "announce", "frame"},
           NEW unit \in Units \union {"none"},
           Works(w, at, c, unit)
    PROVE  /\ decode' \in [Worker -> Decodes]
           /\ decode'[w].at = at /\ decode'[w].conn = c
           /\ \A v \in Worker : v # w => decode'[v] = decode[v]
  BY DEF TypeOK, Works, Decodes

LEMMA TakeEffect ==
    ASSUME TypeOK, NEW w \in Thread, decode' = [decode EXCEPT ![w] = Take]
    PROVE  /\ decode' \in [Worker -> Decodes]
           /\ \A v \in Worker : decode'[v] = IF v = w THEN Take ELSE decode[v]
  BY DEF TypeOK, Take, Decodes

LEMMA ToldEffect ==
    ASSUME TypeOK, NEW c \in Conns, NEW event \in {"new", "message", "closed"},
           Told(c, event)
    PROVE  /\ heard' \in [Conns -> Seq({"new", "message", "closed"})]
           /\ heard'[c] # <<>> /\ (Contract!Live(c)' <=> event # "closed")
           /\ \A d \in Conns : d # c => heard'[d] = heard[d]
<1> DEFINE Event == {"new", "message", "closed"}
<1>1. heard[c] \in Seq(Event) /\ heard' = [heard EXCEPT ![c] = Append(heard[c], event)]
  BY DEF TypeOK, Told
<1>2. /\ Append(heard[c], event) \in Seq(Event)
      /\ Append(heard[c], event) # <<>>
      /\ Append(heard[c], event)[Len(Append(heard[c], event))] = event
  BY <1>1
<1>3. heard' \in [Conns -> Seq(Event)] /\ heard'[c] = Append(heard[c], event)
  BY <1>1, <1>2 DEF TypeOK
<1>4. \A d \in Conns : d # c => heard'[d] = heard[d]
  BY <1>1 DEF TypeOK
<1> QED
  BY <1>2, <1>3, <1>4 DEF Contract!Live
-----------------------------------------------------------------------------
LEMMA WorkersAreThreads == Worker \subseteq Thread
  BY WebsocketAssumption DEF Worker, Thread

(* A worker in the middle of something holds a connection. *)
LEMMA HoldsConn ==
    ASSUME Inv, NEW w \in Worker, decode[w].at # "take"
    PROVE  decode[w].conn \in Conns
  BY DEF Inv, Owned

LEMMA TypingOfClosing ==
    ASSUME Inv, NEW t \in Thread, Closing(t)
    PROVE  TypeOK'
<1> DEFINE c == call[t].conn
<1>0. TypeOK /\ c \in Conns \union {NoConn}
  BY DEF Inv, TypeOK, Calls
<1>1. CASE SendClose(t)
  <2>1. call' \in [Thread -> Calls]
    BY <1>0, <1>1, GoesEffect DEF SendClose
  <2> QED
    BY <2>1, <1>0, <1>1 DEF SendClose, TypeOK, connVars, peerVars, queueVars, serverVars,
       managerVars, haltVars
<1>2. CASE SendRaises(t)
  <2>1. call' \in [Thread -> Calls]
    BY <1>0, <1>2, ReturnsEffect DEF SendRaises
  <2>2. decode' \in [Worker -> Decodes]
    <3>1. CASE t = ServiceThread
      BY <3>1, <1>0, <1>2 DEF SendRaises, TypeOK
    <3>2. CASE t # ServiceThread
      BY <3>2, <1>0, <1>2, TakeEffect DEF SendRaises
    <3> QED
      BY <3>1, <3>2
  <2>3. halter' \in {"idle", "closing", "joining", "done"}
    BY <1>0, <1>2 DEF SendRaises, TypeOK
  <2> QED
    BY <2>1, <2>2, <2>3, <1>0, <1>2 DEF SendRaises, TypeOK, connVars, peerVars, queueVars,
       serverVars, managerVars
<1>3. CASE FlushAndClose(t)
  <2>1. call' \in [Thread -> Calls]
    BY <1>0, <1>3, GoesEffect, ReturnsEffect DEF FlushAndClose
  <2>2. flush' \in [Conns -> BOOLEAN]
    BY <1>0, <1>3 DEF FlushAndClose, TypeOK
  <2> QED
    BY <2>1, <2>2, <1>0, <1>3 DEF FlushAndClose, TypeOK, peerVars, queueVars,
       serverVars, managerVars, haltVars
<1>4. CASE MarkClosing(t) \/ LeaveClose(t)
  <2>1. call' \in [Thread -> Calls]
    BY <1>0, <1>4, ReturnsEffect DEF MarkClosing, LeaveClose
  <2>2. ready' \in [Conns -> {"none", "connecting", "open", "closing", "closed"}]
    BY <1>0, <1>4 DEF MarkClosing, LeaveClose, TypeOK
  <2> QED
    BY <2>1, <2>2, <1>0, <1>4 DEF MarkClosing, LeaveClose, TypeOK, peerVars, queueVars,
       serverVars, managerVars, haltVars
<1>5. CASE EnterClose(t)
  <2>1. call' \in [Thread -> Calls]
    BY <1>0, <1>5, GoesEffect, ReturnsEffect DEF EnterClose
  <2>2. key' \in [Conns -> BOOLEAN] /\ gone' \in [Conns -> BOOLEAN]
    BY <1>0, <1>5 DEF EnterClose, TypeOK
  <2>3. connections' \subseteq Conns /\ interrupted' \in BOOLEAN
    BY <1>0, <1>5 DEF EnterClose, TypeOK
  <2> QED
    BY <2>1, <2>2, <2>3, <1>0, <1>5 DEF EnterClose, TypeOK, queueVars, managerVars, haltVars
<1>6. CASE OnClose(t)
  <2>1. c \in Conns
    BY <1>6 DEF Inv, AddedOnce, OnClose
  <2>2. call' \in [Thread -> Calls]
    BY <1>0, <1>6, GoesEffect DEF OnClose
  <2>3. heard' \in [Conns -> Seq({"new", "message", "closed"})]
    <3>1. CASE c \in tracked
      BY <3>1, <1>0, <1>6, <2>1, ToldEffect DEF OnClose
    <3>2. CASE c \notin tracked
      BY <3>2, <1>0, <1>6 DEF OnClose, TypeOK
    <3> QED
      BY <3>1, <3>2
  <2> QED
    BY <2>2, <2>3, <1>0, <1>6 DEF OnClose, TypeOK, connVars, peerVars, queueVars, serverVars,
       haltVars
<1> QED
  BY <1>1, <1>2, <1>3, <1>4, <1>5, <1>6 DEF Closing

(* The selector, the timer, the peers and the service's thread, outside of  *)
(* close() and closeConnection().                                          *)
OtherStep ==
    \/ \E c \in Conns : \/ EndOfStream(c) \/ Batch(c) \/ ConnectionLost(c) \/ PingRaises(c)
                        \/ CloseNext(c)
                        \/ Accept(c) \/ Leaves(c)
                        \/ \E unit \in Units : Read(c, unit)
    \/ SelectorEnds \/ Interrupt \/ Join \/ RequestHalt

LEMMA TypingOfSelector ==
    ASSUME Inv, OtherStep
    PROVE  TypeOK'
<1>0. TypeOK /\ {SelectorThread, TimerThread, ServiceThread} \subseteq Thread
  BY WebsocketAssumption DEF Inv, SelectorThread, TimerThread, ServiceThread, Thread
<1>1. ASSUME NEW c \in Conns, EndOfStream(c) \/ Batch(c) \/ ConnectionLost(c) \/ PingRaises(c)
      PROVE TypeOK'
  <2>1. call' \in [Thread -> Calls]
    BY <1>0, <1>1, GoesEffect DEF EndOfStream, Batch, ConnectionLost, PingRaises
  <2> QED
    BY <2>1, <1>0, <1>1 DEF EndOfStream, Batch, ConnectionLost, PingRaises, TypeOK, connVars, peerVars,
       queueVars, serverVars, managerVars, haltVars
<1>2. ASSUME NEW c \in Conns, CloseNext(c) PROVE TypeOK'
  <2>1. call' \in [Thread -> Calls]
    BY <1>0, <1>2, CloseEffect DEF CloseNext
  <2> QED
    BY <2>1, <1>0, <1>2 DEF CloseNext, TypeOK, connVars, peerVars, queueVars, serverVars,
       managerVars
<1>3. ASSUME NEW c \in Conns, Accept(c) \/ Leaves(c) PROVE TypeOK'
  BY <1>0, <1>3 DEF Accept, Leaves, TypeOK, connVars, peerVars, queueVars, serverVars,
     managerVars, haltVars
<1>4. CASE SelectorEnds \/ Interrupt \/ Join \/ RequestHalt
  BY <1>0, <1>4 DEF SelectorEnds, Interrupt, Join, RequestHalt, TypeOK, connVars, peerVars,
     queueVars, serverVars, managerVars, haltVars
<1>5. ASSUME NEW c \in Conns, NEW unit \in Units, Read(c, unit) PROVE TypeOK'
  <2> DEFINE first == workerThread[c] = Decoders
             w == IF first THEN queueinvokes % Decoders ELSE workerThread[c]
  <2>1. w \in Worker
    BY <1>0, WebsocketAssumption DEF TypeOK, Worker
  <2>2. /\ reads' = [reads EXCEPT ![c] = reads[c] + 1]
        /\ workerThread' = [workerThread EXCEPT ![c] = w]
        /\ queueinvokes' = queueinvokes + (IF first THEN 1 ELSE 0)
        /\ queue' = [queue EXCEPT ![w] = Append(queue[w], <<c, unit>>)]
    BY <1>0, <1>5, <2>1 DEF Read, TypeOK
  <2>3. w \in 0 .. Decoders
    BY <2>1, WebsocketAssumption DEF Worker
  <2>4. Append(queue[w], <<c, unit>>) \in Seq(Conns \X Units)
    BY <1>0, <2>1 DEF TypeOK
  <2> HIDE DEF w
  <2>5. workerThread' \in [Conns -> 0 .. Decoders]
    BY <1>0, <2>2, <2>3 DEF TypeOK
  <2>6. queue' \in [Worker -> Seq(Conns \X Units)]
    BY <1>0, <2>2, <2>4 DEF TypeOK
  <2>7. reads' \in [Conns -> Nat] /\ queueinvokes' \in Nat
    BY <1>0, <2>2 DEF TypeOK
  <2> QED
    BY <2>5, <2>6, <2>7, <1>0, <1>5 DEF Read, TypeOK, connVars, serverVars, managerVars, haltVars
<1> QED
  BY <1>1, <1>2, <1>3, <1>4, <1>5 DEF OtherStep

LEMMA TypingOfWorkers ==
    ASSUME Inv, NEW w \in Worker,
           \/ TakeBuffer(w) \/ Open(w) \/ TestClosed(w) \/ Insert(w) \/ OnOpen(w)
           \/ OnMessage(w) \/ OnClosing(w)
    PROVE  TypeOK'
<1> DEFINE c == decode[w].conn
<1>0. TypeOK /\ w \in Thread /\ c \in Conns \union {NoConn}
  BY WorkersAreThreads DEF Inv, TypeOK, Decodes
<1>1. CASE TakeBuffer(w)
  <2> DEFINE d == Head(queue[w])[1]
             u == Head(queue[w])[2]
  <2>1. /\ d \in Conns /\ u \in Units
        /\ Tail(queue[w]) \in Seq(Conns \X Units)
    <3>1. queue[w] \in Seq(Conns \X Units) /\ queue[w] # <<>>
      BY <1>0, <1>1 DEF TypeOK, TakeBuffer
    <3>2. Head(queue[w]) \in Conns \X Units /\ Tail(queue[w]) \in Seq(Conns \X Units)
      BY <3>1
    <3> QED
      BY <3>2
  <2>2. queue' \in [Worker -> Seq(Conns \X Units)]
    BY <1>0, <1>1, <2>1 DEF TypeOK, TakeBuffer
  <2>3. \/ Works(w, "open", d, u) /\ UNCHANGED call
        \/ Works(w, "frame", d, u) /\ UNCHANGED call
        \/ Goes(w, "reject", d) /\ UNCHANGED decode
        \/ UNCHANGED <<decode, call>>
    BY <1>1, <2>1, Zenon DEF TakeBuffer, Units
  <2> HIDE DEF d, u
  <2>4. decode' \in [Worker -> Decodes] /\ call' \in [Thread -> Calls]
    <3>1. CASE Works(w, "open", d, u) /\ UNCHANGED call
      BY <3>1, <1>0, <2>1, WorksEffect DEF TypeOK
    <3>2. CASE Works(w, "frame", d, u) /\ UNCHANGED call
      BY <3>2, <1>0, <2>1, WorksEffect DEF TypeOK
    <3>3. CASE Goes(w, "reject", d) /\ UNCHANGED decode
      BY <3>3, <1>0, <2>1, GoesEffect DEF TypeOK
    <3>4. CASE UNCHANGED <<decode, call>>
      BY <3>4, <1>0 DEF TypeOK
    <3> QED
      BY <2>3, <3>1, <3>2, <3>3, <3>4
  <2> QED
    BY <2>2, <2>4, <1>0, <1>1 DEF TakeBuffer, TypeOK, connVars, peerVars, serverVars,
       managerVars, haltVars
<1>2. CASE Open(w)
  <2>1. decode' \in [Worker -> Decodes]
    BY <1>0, <1>2, WorksEffect DEF Open
  <2>2. /\ ready' \in [Conns -> {"none", "connecting", "open", "closing", "closed"}]
        /\ draft' \in [Conns -> BOOLEAN]
    BY <1>0, <1>2 DEF Open, TypeOK
  <2> QED
    BY <2>1, <2>2, <1>0, <1>2 DEF Open, TypeOK, peerVars, queueVars, serverVars,
       managerVars, haltVars
<1>3. CASE TestClosed(w)
  <2>1. decode' \in [Worker -> Decodes]
    BY <1>0, <1>3, WorksEffect DEF TestClosed
  <2>2. call' \in [Thread -> Calls]
    <3>1. CASE isclosed
      BY <3>1, <1>0, <1>3, CloseEffect DEF TestClosed
    <3>2. CASE ~isclosed
      BY <3>2, <1>0, <1>3 DEF TestClosed, TypeOK
    <3> QED
      BY <3>1, <3>2
  <2> QED
    BY <2>1, <2>2, <1>0, <1>3 DEF TestClosed, TypeOK, connVars, peerVars, queueVars, serverVars,
       managerVars, haltVars
<1>4. CASE Insert(w)
  <2>1. decode' \in [Worker -> Decodes]
    BY <1>0, <1>4, WorksEffect DEF Insert
  <2>2. connections' \subseteq Conns
    <3>1. c \in Conns
      BY <1>4, HoldsConn DEF Insert
    <3> QED
      BY <3>1, <1>0, <1>4 DEF Insert, TypeOK
  <2> QED
    BY <2>1, <2>2, <1>0, <1>4 DEF Insert, TypeOK, connVars, peerVars, queueVars, managerVars,
       haltVars
<1>5. CASE OnOpen(w) \/ OnMessage(w)
  <2>1. c \in Conns
    BY <1>5, HoldsConn DEF OnOpen, OnMessage
  <2>2. decode' \in [Worker -> Decodes]
    BY <1>0, <1>5, TakeEffect DEF OnOpen, OnMessage
  <2>3. heard' \in [Conns -> Seq({"new", "message", "closed"})]
    <3>1. CASE \E event \in {"new", "message"} : Told(c, event)
      BY <3>1, <1>0, <2>1, ToldEffect
    <3>2. CASE UNCHANGED heard
      BY <3>2, <1>0 DEF TypeOK
    <3> QED
      BY <3>1, <3>2, <1>5 DEF OnOpen, OnMessage
  <2>4. tracked' \subseteq Conns
    BY <1>0, <1>5, <2>1 DEF OnOpen, OnMessage, TypeOK
  <2> QED
    BY <2>2, <2>3, <2>4, <1>0, <1>5 DEF OnOpen, OnMessage, TypeOK, connVars, peerVars,
       queueVars, serverVars, haltVars
<1>6. CASE OnClosing(w)
  <2>1. decode' \in [Worker -> Decodes]
    BY <1>0, <1>6, TakeEffect DEF OnClosing
  <2>2. call' \in [Thread -> Calls]
    <3>1. CASE Goes(w, "enter", c)
      BY <3>1, <1>0, GoesEffect
    <3>2. CASE Close(w, c)
      BY <3>2, <1>0, CloseEffect
    <3> QED
      BY <3>1, <3>2, <1>6 DEF OnClosing
  <2> QED
    BY <2>1, <2>2, <1>0, <1>6 DEF OnClosing, TypeOK, connVars, peerVars, queueVars, serverVars,
       managerVars, haltVars
<1> QED
  BY <1>1, <1>2, <1>3, <1>4, <1>5, <1>6
-----------------------------------------------------------------------------
LEMMA OwnedStays ==
    ASSUME Inv, UNCHANGED <<queue, workerThread>>,
           \A w \in Worker : \/ decode'[w].at = "take"
                             \/ /\ decode[w].at # "take"
                                /\ decode'[w].conn = decode[w].conn
    PROVE  Owned'
  BY DEF Inv, Owned

(* A connection stays added when none goes back to be opened. *)
LEMMA AddedStays ==
    ASSUME NEW c \in Conns, Added(c),
           Unopened(c)' => Unopened(c),
           \A w \in Worker : At(w, c, {"open", "add", "insert"})' =>
                                 At(w, c, {"open", "add", "insert"})
    PROVE  Added(c)'
  BY DEF Added

(* The invariant under the steps that open nothing, announce nothing and   *)
(* leave the lists alone: workers go on or are done, a thread goes from    *)
(* one step of a close() or closeConnection() to the next.                 *)
LEMMA Quiet ==
    ASSUME Inv, TypeOK', Owned',
           \A c \in Conns : Unopened(c)' => Unopened(c),
           UNCHANGED <<connections, tracked, heard>>,
           \A w \in Worker :
               \/ decode'[w] = decode[w]
               \/ /\ decode'[w].at \in {"take", "frame"}
                  /\ decode[w].at = "announce" => decode[w].conn \notin connections,
           \A w \in Worker :
               \/ decode'[w].at = "take"
               \/ call'[w] = call[w] /\ (decode'[w] = decode[w] \/ Free(w))
               \/ /\ decode'[w] = decode[w] /\ ~Free(w)
                  /\ \/ call'[w].step \notin {"send", "flush", "mark"}
                     \/ call[w].step \in {"send", "flush", "mark"},
           \A t \in Thread : call'[t].step = "report" => call'[t] = call[t]
    PROVE  Inv'
<1>0. connections \subseteq Conns
  BY DEF Inv, TypeOK
<1>1. \A w \in Worker, c \in Conns :
          /\ At(w, c, {"open", "add", "insert"})' => At(w, c, {"open", "add", "insert"})
          /\ At(w, c, {"add", "insert", "announce"})' => At(w, c, {"add", "insert", "announce"})
  BY DEF At
<1>2. \A c \in Conns : Added(c) => Added(c)'
  BY <1>1, AddedStays
<1>3. Fresh'
  BY <1>1 DEF Inv, Fresh
<1>4. TrackedIsLive'
  BY DEF Inv, TrackedIsLive, Contract!Live
<1>5. AddedOnce'
  BY <1>0, <1>2 DEF Inv, AddedOnce
<1>6. LateNotAdded'
  BY DEF Inv, LateNotAdded, Free
<1>7. Undisturbed'
  BY DEF Inv, Undisturbed, Free
<1>8. ListedIsTracked'
  BY DEF Inv, ListedIsTracked
<1> QED
  BY <1>3, <1>4, <1>5, <1>6, <1>7, <1>8 DEF Inv

(* The steps of close() and closeConnection() of that kind. *)
LEMMA ClosingIsQuiet ==
    ASSUME Inv, NEW t \in Thread,
           \/ SendClose(t) \/ SendRaises(t) \/ FlushAndClose(t) \/ MarkClosing(t)
           \/ LeaveClose(t)
           \/ EnterClose(t) /\ ready[call[t].conn] = "closed"
    PROVE  Inv'
<1> DEFINE c == call[t].conn
<1>0. TypeOK /\ TypeOK' /\ c \in Conns \union {NoConn}
  BY TypingOfClosing DEF Inv, TypeOK, Calls, Closing
<1>1. /\ call'[t].step \in {"flush", "mark", "idle"}
      /\ call[t].step \in {"send", "flush", "mark", "reject", "enter", "leave"}
      /\ call'[t].step \in {"flush", "mark"} => call[t].step \in {"send", "flush"}
      /\ \A s \in Thread : s # t => call'[s] = call[s]
  BY <1>0, GoesEffect, ReturnsEffect
     DEF SendClose, SendRaises, FlushAndClose, MarkClosing, LeaveClose, EnterClose, Idle
<1>2. UNCHANGED <<connections, tracked, heard, queue, workerThread>>
  BY DEF SendClose, SendRaises, FlushAndClose, MarkClosing, LeaveClose, EnterClose,
         serverVars, managerVars, queueVars
<1>3. \A d \in Conns : Unopened(d)' => Unopened(d)
  BY <1>0 DEF SendClose, SendRaises, FlushAndClose, MarkClosing, LeaveClose, EnterClose,
         connVars, Unopened, TypeOK
<1>4. \A w \in Worker : \/ decode'[w] = decode[w]
                        \/ w = t /\ decode'[w] = Take /\ call[t].step = "send"
  BY <1>0, TakeEffect
     DEF SendClose, SendRaises, FlushAndClose, MarkClosing, LeaveClose, EnterClose
<1>5. \A w \in Worker : \/ decode'[w] = decode[w]
                        \/ /\ decode'[w].at = "take"
                           /\ decode[w].at = "announce" => decode[w].conn \notin connections
  BY <1>4 DEF Inv, LateNotAdded, Take
<1>6. Owned'
  <2>1. \A w \in Worker : decode'[w].at = "take" \/ decode'[w] = decode[w]
    BY <1>5
  <2> QED
    BY <1>2, <2>1 DEF Inv, Owned
<1>7. ~Free(t)
  BY <1>1 DEF Free, Idle
<1> QED
  BY <1>0, <1>1, <1>2, <1>3, <1>5, <1>6, <1>7, WorkersAreThreads, Quiet

(* A connection leaves the server's list, to be reported if it was there. *)
LEMMA EnterCloseKeeps ==
    ASSUME Inv, NEW t \in Thread, EnterClose(t), ready[call[t].conn] # "closed"
    PROVE  Inv'
<1> DEFINE c == call[t].conn
           step == IF c \in connections THEN "report" ELSE "leave"
<1>0. TypeOK /\ TypeOK' /\ c \in Conns \union {NoConn} /\ connections \subseteq Conns
  BY TypingOfClosing DEF Inv, TypeOK, Calls, Closing
<1>1. /\ call'[t].step = step /\ call'[t].conn = c
      /\ \A s \in Thread : s # t => call'[s] = call[s]
  <2>1. Goes(t, step, c)
    BY DEF EnterClose
  <2> QED
    BY <1>0, <2>1, GoesEffect
<1>2. /\ connections' = connections \ {c}
      /\ UNCHANGED <<ready, tracked, heard, queue, workerThread, decode>>
  BY DEF EnterClose, managerVars, queueVars
<1>3. \A d \in Conns : Added(d) => Added(d)'
  BY <1>2 DEF Added, Unopened, At
<1>4. Owned'
  BY <1>2 DEF Inv, Owned
<1>5. Fresh'
  BY <1>2 DEF Inv, Fresh, Unopened, At
<1>6. TrackedIsLive'
  BY <1>2 DEF Inv, TrackedIsLive, Contract!Live
<1>7. AddedOnce'
  BY <1>0, <1>1, <1>2, <1>3 DEF Inv, AddedOnce
<1>8. LateNotAdded'
  BY <1>1, <1>2, WorkersAreThreads DEF Inv, LateNotAdded
<1>9. Undisturbed'
  <2>1. ~Free(t)
    BY DEF EnterClose, Free, Idle
  <2> QED
    BY <1>1, <1>2, <2>1, WorkersAreThreads DEF Inv, Undisturbed, Free
<1>10. ListedIsTracked'
  BY <1>2 DEF Inv, ListedIsTracked
<1> QED
  BY <1>0, <1>4, <1>5, <1>6, <1>7, <1>8, <1>9, <1>10 DEF Inv

(* The reported connection is in no list any more. *)
LEMMA OnCloseKeeps ==
    ASSUME Inv, NEW t \in Thread, OnClose(t)
    PROVE  Inv'
<1> PICK c \in Conns : c = call[t].conn
  BY DEF Inv, AddedOnce, OnClose
<1>0. TypeOK /\ TypeOK' /\ c \notin connections /\ Added(c)
  BY TypingOfClosing DEF Inv, AddedOnce, OnClose, Closing
<1>1. /\ call'[t].step = "leave"
      /\ \A s \in Thread : s # t => call'[s] = call[s]
  BY <1>0, GoesEffect DEF OnClose
<1>2. UNCHANGED <<ready, connections, queue, workerThread, decode>>
  BY DEF OnClose, connVars, serverVars, queueVars
<1>3. \A d \in Conns : Added(d) => Added(d)'
  BY <1>2 DEF Added, Unopened, At
<1>4. \A d \in Conns : d # c => heard'[d] = heard[d]
  BY <1>0, ToldEffect DEF OnClose
<1>5. heard'[c] = heard[c] \/ c \in tracked
  BY DEF OnClose
<1>6. Fresh'
  <2>1. c \in tracked => heard[c] # <<>>
    BY <1>0 DEF Inv, TrackedIsLive, Contract!Live
  <2>2. \A w \in Worker : decode[w].at \in {"open", "add", "insert", "announce"} =>
            decode[w].conn \in Conns /\ heard'[decode[w].conn] = heard[decode[w].conn]
    BY <1>4, <1>5, <2>1, HoldsConn DEF Inv, Fresh
  <2>3. \A d \in Conns : Unopened(d) => heard'[d] = heard[d]
    BY <1>0, <1>4 DEF Added
  <2> QED
    BY <1>2, <2>2, <2>3 DEF Inv, Fresh, Unopened, At
<1>7. TrackedIsLive'
  <2>1. tracked' = tracked \ {c}
    BY DEF OnClose
  <2>2. \A d \in Conns : d # c => (Contract!Live(d)' <=> Contract!Live(d))
    BY <1>4 DEF Contract!Live
  <2>3. ~Contract!Live(c)'
    <3>1. CASE c \in tracked
      BY <3>1, <1>0, ToldEffect DEF OnClose
    <3>2. CASE c \notin tracked
      <4>1. heard' = heard /\ ~Contract!Live(c)
        BY <3>2, <1>0 DEF OnClose, Inv, TrackedIsLive
      <4> QED
        BY <4>1 DEF Contract!Live
    <3> QED
      BY <3>1, <3>2
  <2> QED
    BY <1>0, <2>1, <2>2, <2>3 DEF Inv, TrackedIsLive
<1>8. AddedOnce'
  <2>1. \A d \in connections : d \in Conns
    BY <1>0 DEF TypeOK
  <2> QED
    BY <1>1, <1>2, <1>3, <2>1 DEF Inv, AddedOnce
<1>9. LateNotAdded' /\ Owned'
  BY <1>1, <1>2, WorkersAreThreads DEF Inv, LateNotAdded, Owned
<1>10. Undisturbed'
  <2>1. ~Free(t)
    BY DEF OnClose, Free, Idle
  <2> QED
    BY <1>1, <1>2, <2>1, WorkersAreThreads DEF Inv, Undisturbed, Free
<1>11. ListedIsTracked'
  BY <1>0, <1>2 DEF Inv, ListedIsTracked, OnClose
<1> QED
  BY <1>0, <1>6, <1>7, <1>8, <1>9, <1>10, <1>11 DEF Inv

(* Those steps only start what Closing goes on with, and queue buffers. *)
LEMMA SelectorKeeps ==
    ASSUME Inv, OtherStep
    PROVE  Inv'
<1>0. /\ TypeOK /\ TypeOK'
      /\ {SelectorThread, TimerThread, ServiceThread} \subseteq Thread \ Worker
  BY TypingOfSelector, WebsocketAssumption
     DEF Inv, SelectorThread, TimerThread, ServiceThread, Thread, Worker
<1>1. UNCHANGED <<connections, tracked, heard, decode>>
  BY DEF OtherStep, EndOfStream, Batch, ConnectionLost, PingRaises, CloseNext, Accept, Leaves, SelectorEnds,
         Interrupt, Join, RequestHalt, Read, serverVars, managerVars
<1>2. \A d \in Conns : Unopened(d)' => Unopened(d)
  BY <1>0 DEF OtherStep, EndOfStream, Batch, ConnectionLost, PingRaises, CloseNext, Accept, Leaves, SelectorEnds,
         Interrupt, Join, RequestHalt, Read, connVars, Unopened, TypeOK
<1>3. \A t \in Thread : \/ call'[t] = call[t]
                        \/ t \notin Worker /\ call'[t].step # "report"
  <2>1. ASSUME NEW c \in Conns, EndOfStream(c) \/ Batch(c) \/ ConnectionLost(c) \/ PingRaises(c)
        PROVE  \A t \in Thread : \/ call'[t] = call[t]
                                 \/ t \notin Worker /\ call'[t].step # "report"
    BY <2>1, <1>0, GoesEffect DEF EndOfStream, Batch, ConnectionLost, PingRaises
  <2>2. ASSUME NEW c \in Conns, CloseNext(c)
        PROVE  \A t \in Thread : \/ call'[t] = call[t]
                                 \/ t \notin Worker /\ call'[t].step # "report"
    BY <2>2, <1>0, CloseEffect DEF CloseNext
  <2>3. CASE UNCHANGED call
    BY <2>3
  <2> QED
    BY <2>1, <2>2, <2>3 DEF OtherStep, Accept, Leaves, SelectorEnds, Interrupt, Join, RequestHalt, Read
<1>4. Owned'
  <2>1. CASE UNCHANGED <<queue, workerThread>>
    BY <2>1, <1>1 DEF Inv, Owned
  <2>2. ASSUME NEW c \in Conns, NEW unit \in Units, Read(c, unit) PROVE Owned'
    <3> DEFINE first == workerThread[c] = Decoders
               w == IF first THEN queueinvokes % Decoders ELSE workerThread[c]
    <3>1. w \in Worker
      BY <1>0, WebsocketAssumption DEF TypeOK, Worker
    <3>2. /\ workerThread' = [workerThread EXCEPT ![c] = w]
          /\ queue' = [queue EXCEPT ![w] = Append(queue[w], <<c, unit>>)]
      BY <1>0, <2>2, <3>1 DEF Read, TypeOK
    <3>3. Decoders \notin Worker
      BY WebsocketAssumption DEF Worker
    <3>4. workerThread[c] \in Worker => w = workerThread[c]
      BY <3>3
    <3> HIDE DEF w
    <3>5. /\ workerThread'[c] = w
          /\ \A d \in Conns : workerThread[d] \in Worker => workerThread'[d] = workerThread[d]
      BY <1>0, <3>2, <3>4 DEF TypeOK
    <3>6. ASSUME NEW v \in Worker, NEW i \in 1 .. Len(queue'[v])
          PROVE  workerThread'[queue'[v][i][1]] = v
      <4>1. queue[v] \in Seq(Conns \X Units)
        BY <1>0 DEF TypeOK
      <4>2. ASSUME NEW j \in 1 .. Len(queue[v])
            PROVE  workerThread'[queue[v][j][1]] = v
        <5>1. queue[v][j][1] \in Conns
          BY <4>1
        <5>2. workerThread[queue[v][j][1]] = v
          BY DEF Inv, Owned
        <5> QED
          BY <5>1, <5>2, <3>5
      <4>3. CASE v # w
        <5>1. queue'[v] = queue[v]
          BY <4>3, <1>0, <3>2 DEF TypeOK
        <5> QED
          BY <5>1, <4>2
      <4>4. CASE v = w
        <5>1. queue'[v] = Append(queue[v], <<c, unit>>)
          BY <4>4, <1>0, <3>1, <3>2 DEF TypeOK
        <5>2. CASE i \in 1 .. Len(queue[v])
          <6>1. queue'[v][i] = queue[v][i]
            BY <5>1, <5>2, <4>1
          <6> QED
            BY <6>1, <5>2, <4>2
        <5>3. CASE i \notin 1 .. Len(queue[v])
          <6>1. queue'[v][i] = <<c, unit>>
            BY <5>1, <5>3, <4>1
          <6> QED
            BY <6>1, <4>4, <3>5
        <5> QED
          BY <5>2, <5>3
      <4> QED
        BY <4>3, <4>4
    <3>7. \A v \in Worker : decode'[v].at # "take" =>
              decode'[v].conn \in Conns /\ workerThread'[decode'[v].conn] = v
      BY <1>1, <3>5 DEF Inv, Owned
    <3> QED
      BY <3>6, <3>7 DEF Owned
  <2> QED
    BY <2>1, <2>2 DEF OtherStep, EndOfStream, Batch, ConnectionLost, PingRaises, CloseNext, Accept, Leaves,
       SelectorEnds, Interrupt, Join, RequestHalt, queueVars
<1> QED
  BY <1>0, <1>1, <1>2, <1>3, <1>4, WorkersAreThreads, Quiet

(* The workers.  A buffer is taken for its own worker. *)
LEMMA TakeBufferKeeps ==
    ASSUME Inv, NEW w \in Worker, TakeBuffer(w)
    PROVE  Inv'
<1>0. TypeOK /\ TypeOK' /\ w \in Thread /\ decode[w] = Take /\ Free(w)
  BY TypingOfWorkers, WorkersAreThreads DEF Inv, TakeBuffer
<1>1. queue[w] \in Seq(Conns \X Units) /\ queue[w] # <<>>
  BY <1>0 DEF TypeOK, TakeBuffer
<1> PICK d \in Conns, u \in Units : d = Head(queue[w])[1] /\ u = Head(queue[w])[2]
  <2>1. Head(queue[w]) \in Conns \X Units
    BY <1>1
  <2> QED
    BY <2>1
<1>2. workerThread[d] = w
  <2>1. Head(queue[w]) = queue[w][1] /\ 1 \in 1 .. Len(queue[w])
    BY <1>1
  <2> QED
    BY <2>1 DEF Inv, Owned
<1>3. \A v \in Worker : \A i \in 1 .. Len(queue'[v]) : workerThread[queue'[v][i][1]] = v
  <2> SUFFICES ASSUME NEW v \in Worker, NEW i \in 1 .. Len(queue'[v])
               PROVE  workerThread[queue'[v][i][1]] = v
    OBVIOUS
  <2>1. CASE v = w
    <3>1. queue'[w] = Tail(queue[w])
      BY <1>0 DEF TakeBuffer, TypeOK
    <3>2. i + 1 \in 1 .. Len(queue[w]) /\ queue'[w][i] = queue[w][i + 1]
      BY <1>1, <2>1, <3>1
    <3> QED
      BY <2>1, <3>2 DEF Inv, Owned
  <2>2. CASE v # w
    <3>1. queue'[v] = queue[v]
      BY <1>0, <2>2 DEF TakeBuffer, TypeOK
    <3> QED
      BY <3>1 DEF Inv, Owned
  <2> QED
    BY <2>1, <2>2
<1>4. UNCHANGED <<ready, connections, tracked, heard, workerThread>>
  BY DEF TakeBuffer, connVars, serverVars, managerVars
<1>5. CASE /\ ready[d] = "connecting" \/ ready[d] = "open"
           /\ Works(w, IF ready[d] = "connecting" THEN "open" ELSE "frame", d, u)
           /\ UNCHANGED call
  <2> DEFINE at == IF ready[d] = "connecting" THEN "open" ELSE "frame"
  <2>1. /\ decode'[w].at = at /\ decode'[w].conn = d
        /\ \A v \in Worker : v # w => decode'[v] = decode[v]
    BY <1>0, <1>5, WorksEffect
  <2>2. Owned'
    BY <1>2, <1>3, <1>4, <2>1 DEF Inv, Owned
  <2>3. CASE at = "frame"
    <3>1. \A v \in Worker : \/ decode'[v] = decode[v]
                            \/ /\ decode'[v].at \in {"take", "frame"}
                               /\ decode[v].at = "announce" => decode[v].conn \notin connections
      BY <1>0, <2>1, <2>3 DEF Take
    <3>2. \A v \in Worker : call'[v] = call[v] /\ (decode'[v] = decode[v] \/ Free(v))
      BY <1>0, <1>5, <2>1
    <3> QED
      BY <1>0, <1>4, <1>5, <2>2, <3>1, <3>2, Quiet DEF Unopened
  <2>4. CASE at = "open"
    <3>1. ready[d] = "connecting"
      BY <2>4
    <3>2. heard[d] = <<>> /\ d \notin connections
      BY <3>1 DEF Inv, Fresh, Unopened, AddedOnce, Added
    <3>3. \A c \in Conns : Added(c) => Added(c)'
      <4>1. ~Added(d)
        BY <3>1 DEF Added, Unopened
      <4>2. \A c \in Conns, v \in Worker : c # d => (At(v, c, {"open", "add", "insert"})' =>
                At(v, c, {"open", "add", "insert"}))
        BY <2>1 DEF At
      <4> QED
        BY <4>1, <4>2, <1>4 DEF Added, Unopened
    <3>4. Fresh'
      BY <1>4, <2>1, <2>4, <3>2 DEF Inv, Fresh, Unopened, At
    <3>5. TrackedIsLive'
      BY <1>4 DEF Inv, TrackedIsLive, Contract!Live
    <3>6. AddedOnce'
      <4>1. connections \subseteq Conns
        BY <1>0 DEF TypeOK
      <4> QED
        BY <1>4, <1>5, <3>3, <4>1 DEF Inv, AddedOnce
    <3>7. LateNotAdded' /\ ListedIsTracked'
      BY <1>0, <1>4, <1>5, <2>1, <2>4 DEF Inv, LateNotAdded, ListedIsTracked, Take
    <3>8. Undisturbed'
      BY <1>0, <1>5, <2>1 DEF Inv, Undisturbed, Free
    <3> QED
      BY <1>0, <2>2, <3>4, <3>5, <3>6, <3>7, <3>8 DEF Inv
  <2> QED
    BY <2>3, <2>4
<1>6. CASE Goes(w, "reject", d) /\ UNCHANGED decode
  <2>1. Owned'
    BY <1>3, <1>4, <1>6 DEF Inv, Owned
  <2>2. /\ call'[w].step = "reject"
        /\ \A t \in Thread : t # w => call'[t] = call[t]
    BY <1>0, <1>6, GoesEffect
  <2>3. decode'[w].at = "take"
    BY <1>0, <1>6 DEF Take
  <2> QED
    BY <1>0, <1>4, <1>6, <2>1, <2>2, <2>3, WorkersAreThreads, Quiet DEF Unopened
<1>7. CASE UNCHANGED <<decode, call>>
  <2>1. Owned'
    BY <1>3, <1>4, <1>7 DEF Inv, Owned
  <2> QED
    BY <1>0, <1>4, <1>7, <2>1, Quiet DEF Unopened
<1> QED
  BY <1>5, <1>6, <1>7, Zenon DEF TakeBuffer, Units

(* A connection is opened and added by its worker, once. *)
LEMMA OpenKeeps ==
    ASSUME Inv, NEW w \in Worker, Open(w) \/ TestClosed(w) \/ Insert(w)
    PROVE  Inv'
<1> PICK c \in Conns : c = decode[w].conn
  BY HoldsConn DEF Open, TestClosed, Insert
<1>0. TypeOK /\ TypeOK' /\ w \in Thread /\ Free(w)
  BY TypingOfWorkers, WorkersAreThreads DEF Inv, Open, TestClosed, Insert, Undisturbed
<1>1. UNCHANGED <<tracked, heard, queue, workerThread>>
  BY DEF Open, TestClosed, Insert, managerVars, queueVars
<1>2. /\ decode'[w].at \in {"add", "insert", "announce"} /\ decode'[w].conn = c
      /\ \A v \in Worker : v # w => decode'[v] = decode[v]
  BY <1>0, WorksEffect DEF Open, TestClosed, Insert
<1>3. \A v \in Worker : v # w => (decode[v].at # "take" => decode[v].conn # c)
  <2>1. decode[w].at # "take"
    BY DEF Open, TestClosed, Insert
  <2>2. workerThread[c] = w
    BY <2>1 DEF Inv, Owned
  <2> QED
    BY <2>2 DEF Inv, Owned
<1>4. heard[c] = <<>> /\ c \notin connections
  BY DEF Inv, Fresh, AddedOnce, Added, At, Open, TestClosed, Insert
<1>5. \A t \in Thread : call'[t] = call[t] \/ (t = w /\ call'[t].step = "send")
  <2>1. CASE UNCHANGED call
    BY <2>1
  <2>2. CASE Close(w, c)
    BY <2>2, <1>0, CloseEffect
  <2> QED
    BY <2>1, <2>2 DEF Open, TestClosed, Insert
<1>6. \A t \in Thread : call[t].step = "report" => call[t].conn # c
  BY DEF Inv, AddedOnce, Added, At, Open, TestClosed, Insert
<1>7. /\ ~Unopened(c)'
      /\ \A d \in Conns : d # c => ready'[d] = ready[d]
  <2>1. CASE Open(w)
    BY <2>1, <1>0 DEF Open, Unopened, TypeOK
  <2>2. CASE TestClosed(w) \/ Insert(w)
    <3>1. ready' = ready /\ At(w, c, {"add", "insert", "announce"})
      BY <2>2 DEF TestClosed, Insert, connVars, At
    <3>2. ~Unopened(c)
      BY <3>1 DEF Inv, Fresh
    <3> QED
      BY <3>1, <3>2 DEF Unopened
  <2> QED
    BY <2>1, <2>2
<1>8. connections' = connections \/ (connections' = connections \union {c} /\ Insert(w))
  BY DEF Open, TestClosed, Insert, serverVars
<1>9. Insert(w) => decode'[w].at = "announce" /\ call' = call
  BY <1>0, WorksEffect DEF Insert
<1>10. TestClosed(w) /\ call' # call => decode'[w].at = "announce"
  BY <1>0, WorksEffect DEF TestClosed
<1>11. Owned'
  <2>1. \A v \in Worker : \/ decode'[v].at = "take"
                          \/ decode[v].at # "take" /\ decode'[v].conn = decode[v].conn
    BY <1>2 DEF Open, TestClosed, Insert
  <2> QED
    BY <1>1, <2>1, OwnedStays
<1>12. Fresh'
  <2>1. \A d \in Conns : Unopened(d)' => Unopened(d) /\ d # c
    BY <1>7 DEF Unopened
  <2>2. \A v \in Worker, d \in Conns : d # c =>
            (At(v, d, {"add", "insert", "announce"})' => At(v, d, {"add", "insert", "announce"}))
    BY <1>2 DEF At
  <2>3. \A v \in Worker : decode'[v].at \in {"open", "add", "insert", "announce"} =>
            heard[decode'[v].conn] = <<>>
    BY <1>2, <1>4 DEF Inv, Fresh
  <2> QED
    BY <1>1, <2>1, <2>2, <2>3 DEF Inv, Fresh
<1>13. TrackedIsLive'
  BY <1>1 DEF Inv, TrackedIsLive, Contract!Live
<1>14. \A d \in Conns : d # c => (Added(d) => Added(d)')
  BY <1>2, <1>7 DEF Added, Unopened, At
<1>15. AddedOnce'
  <2>1. Insert(w) => Added(c)'
    BY <1>2, <1>3, <1>7, <1>9 DEF Added, At
  <2>2. connections \subseteq Conns
    BY <1>0 DEF TypeOK
  <2>3. \A d \in connections' : Added(d)'
    BY <1>4, <1>8, <1>14, <2>1, <2>2 DEF Inv, AddedOnce
  <2>4. \A t \in Thread : call'[t].step = "report" => call'[t] = call[t]
    BY <1>5
  <2>5. \A t \in Thread : call'[t].step = "report" =>
            /\ call'[t].conn \in Conns /\ call'[t].conn \notin connections'
            /\ call'[t].conn # c
    BY <1>6, <1>8, <2>4 DEF Inv, AddedOnce
  <2>6. \A t \in Thread : call'[t].step = "report" => Added(call[t].conn)'
    <3> SUFFICES ASSUME NEW t \in Thread, call'[t].step = "report",
                        NEW d \in Conns, d = call[t].conn
                 PROVE  Added(d)'
      BY <2>4, <2>5
    <3> QED
      BY <1>6, <1>14, <2>4 DEF Inv, AddedOnce
  <2> QED
    BY <2>3, <2>4, <2>5, <2>6 DEF AddedOnce
<1>16. LateNotAdded'
  <2>1. CASE Insert(w)
    <3>1. call'[w].step = "idle"
      BY <1>0, <1>9, <2>1 DEF Free, Idle
    <3> QED
      BY <1>2, <1>3, <1>8, <1>9, <2>1, <3>1 DEF Inv, LateNotAdded
  <2>2. CASE ~Insert(w)
    <3>1. \A v \in Worker : v # w => call'[v] = call[v]
      BY <1>5, WorkersAreThreads
    <3> QED
      BY <1>2, <1>4, <1>8, <2>2, <3>1 DEF Inv, LateNotAdded
  <2> QED
    BY <2>1, <2>2
<1>17. Undisturbed'
  <2>1. \A v \in Worker : v # w => call'[v] = call[v]
    BY <1>5, WorkersAreThreads
  <2>2. decode'[w].at = "announce" \/ call' = call
    BY <1>9, <1>10 DEF Open
  <2> QED
    BY <1>0, <1>2, <2>1, <2>2 DEF Inv, Undisturbed, Free
<1>18. ListedIsTracked'
  <2>1. \A v \in Worker : decode[v].at = "announce" => decode'[v] = decode[v]
    BY <1>2 DEF Open, TestClosed, Insert
  <2> QED
    BY <1>1, <1>2, <1>8, <1>9, <2>1 DEF Inv, ListedIsTracked
<1> QED
  BY <1>0, <1>11, <1>12, <1>13, <1>15, <1>16, <1>17, <1>18 DEF Inv

(* The announcement, by the one worker that opened the connection. *)
LEMMA OnOpenKeeps ==
    ASSUME Inv, NEW w \in Worker, OnOpen(w)
    PROVE  Inv'
<1> PICK c \in Conns : c = decode[w].conn
  BY HoldsConn DEF OnOpen
<1>0. TypeOK /\ TypeOK' /\ w \in Thread
  BY TypingOfWorkers, WorkersAreThreads DEF Inv
<1>1. UNCHANGED <<ready, queue, workerThread, call, connections>>
  BY DEF OnOpen, connVars, queueVars, serverVars
<1>2. \A v \in Worker : decode'[v] = IF v = w THEN Take ELSE decode[v]
  BY <1>0, TakeEffect DEF OnOpen
<1>3. \A v \in Worker : v # w => (decode[v].at # "take" => decode[v].conn # c)
  <2>1. workerThread[c] = w
    BY DEF Inv, Owned, OnOpen
  <2> QED
    BY <2>1 DEF Inv, Owned
<1>4. tracked' = tracked \union {c} /\ Told(c, "new")
  BY DEF OnOpen
<1>5. /\ Contract!Live(c)'
      /\ \A d \in Conns : d # c => heard'[d] = heard[d]
  BY <1>0, <1>4, ToldEffect
<1>6. ~Unopened(c)
  BY DEF Inv, Fresh, At, OnOpen
<1>7. Owned'
  BY <1>1, <1>2 DEF Inv, Owned, Take
<1>8. Fresh'
  <2>1. \A v \in Worker, d \in Conns :
            At(v, d, {"add", "insert", "announce"})' => At(v, d, {"add", "insert", "announce"})
    BY <1>2 DEF At, Take
  <2>2. \A v \in Worker : decode'[v].at \in {"open", "add", "insert", "announce"} =>
            decode'[v] = decode[v] /\ decode[v].conn \in Conns \ {c}
    BY <1>2, <1>3, HoldsConn DEF Take
  <2> QED
    BY <1>1, <1>5, <1>6, <2>1, <2>2 DEF Inv, Fresh, Unopened
<1>9. TrackedIsLive'
  <2>1. \A d \in Conns : d # c => (Contract!Live(d)' <=> Contract!Live(d))
    BY <1>5 DEF Contract!Live
  <2> QED
    BY <1>4, <1>5, <2>1 DEF Inv, TrackedIsLive
<1>10. AddedOnce'
  <2>1. \A d \in Conns : Added(d) => Added(d)'
    BY <1>1, <1>2 DEF Added, Unopened, At, Take
  <2>2. connections \subseteq Conns
    BY <1>0 DEF TypeOK
  <2> QED
    BY <1>1, <2>1, <2>2 DEF Inv, AddedOnce
<1>11. LateNotAdded' /\ Undisturbed'
  BY <1>1, <1>2 DEF Inv, LateNotAdded, Undisturbed, Take, Free
<1>12. ListedIsTracked'
  <2>1. \A v \in Worker : v # w => decode'[v] = decode[v]
    BY <1>2
  <2> QED
    BY <1>1, <1>4, <2>1 DEF Inv, ListedIsTracked
<1> QED
  BY <1>0, <1>7, <1>8, <1>9, <1>10, <1>11, <1>12 DEF Inv

(* A message is told of a live connection only. *)
LEMMA OnMessageKeeps ==
    ASSUME Inv, NEW w \in Worker, OnMessage(w)
    PROVE  Inv'
<1> PICK c \in Conns : c = decode[w].conn
  BY HoldsConn DEF OnMessage
<1>0. TypeOK /\ TypeOK' /\ w \in Thread
  BY TypingOfWorkers, WorkersAreThreads DEF Inv
<1>1. UNCHANGED <<ready, queue, workerThread, call, connections, tracked>>
  BY DEF OnMessage, connVars, queueVars, serverVars
<1>2. \A v \in Worker : decode'[v] = IF v = w THEN Take ELSE decode[v]
  BY <1>0, TakeEffect DEF OnMessage
<1>3. decode[w].at = "frame"
  BY DEF OnMessage
<1>4. \/ heard' = heard
      \/ /\ c \in tracked /\ Contract!Live(c) /\ Contract!Live(c)'
         /\ \A d \in Conns : d # c => heard'[d] = heard[d]
  <2>1. CASE c \in tracked
    BY <2>1, <1>0, ToldEffect DEF OnMessage, Inv, TrackedIsLive
  <2>2. CASE c \notin tracked
    BY <2>2 DEF OnMessage
  <2> QED
    BY <2>1, <2>2
<1>5. \A d \in Conns : /\ Contract!Live(d)' <=> Contract!Live(d)
                       /\ heard[d] = <<>> => heard'[d] = <<>>
  BY <1>4 DEF Contract!Live
<1>6. Owned'
  BY <1>1, <1>2 DEF Inv, Owned, Take
<1>7. Fresh'
  <2>1. \A v \in Worker, d \in Conns :
            At(v, d, {"add", "insert", "announce"})' => At(v, d, {"add", "insert", "announce"})
    BY <1>2 DEF At, Take
  <2>2. \A v \in Worker : decode'[v].at \in {"open", "add", "insert", "announce"} =>
            decode'[v] = decode[v] /\ decode[v].conn \in Conns
    BY <1>2, HoldsConn DEF Take
  <2> QED
    BY <1>1, <1>5, <2>1, <2>2 DEF Inv, Fresh, Unopened
<1>8. TrackedIsLive'
  BY <1>1, <1>5 DEF Inv, TrackedIsLive
<1>9. AddedOnce'
  <2>1. \A d \in Conns : Added(d) => Added(d)'
    BY <1>1, <1>2 DEF Added, Unopened, At, Take
  <2>2. connections \subseteq Conns
    BY <1>0 DEF TypeOK
  <2> QED
    BY <1>1, <2>1, <2>2 DEF Inv, AddedOnce
<1>10. LateNotAdded' /\ Undisturbed'
  BY <1>1, <1>2 DEF Inv, LateNotAdded, Undisturbed, Take, Free
<1>11. ListedIsTracked'
  <2>1. \A v \in Worker : decode[v].at = "announce" => decode'[v] = decode[v]
    BY <1>2, <1>3
  <2> QED
    BY <1>1, <2>1 DEF Inv, ListedIsTracked
<1> QED
  BY <1>0, <1>6, <1>7, <1>8, <1>9, <1>10, <1>11 DEF Inv

(* A closing or invalid frame begins a close() or closeConnection(). *)
LEMMA OnClosingKeeps ==
    ASSUME Inv, NEW w \in Worker, OnClosing(w)
    PROVE  Inv'
<1> PICK c \in Conns : c = decode[w].conn
  BY HoldsConn DEF OnClosing
<1>0. TypeOK /\ TypeOK' /\ w \in Thread
  BY TypingOfWorkers, WorkersAreThreads DEF Inv
<1>1. UNCHANGED <<ready, queue, workerThread, connections, tracked, heard>>
  BY DEF OnClosing, connVars, queueVars, serverVars, managerVars
<1>2. decode[w].at = "frame" /\ \A v \in Worker : decode'[v] = IF v = w THEN Take ELSE decode[v]
  BY <1>0, TakeEffect DEF OnClosing
<1>3. \A t \in Thread : call'[t] = call[t] \/ (t = w /\ call'[t].step # "report")
  <2>1. CASE Goes(w, "enter", c)
    BY <2>1, <1>0, GoesEffect
  <2>2. CASE Close(w, c)
    BY <2>2, <1>0, CloseEffect
  <2> QED
    BY <2>1, <2>2 DEF OnClosing
<1>4. Owned'
  BY <1>1, <1>2 DEF Inv, Owned, Take
<1>5. \A v \in Worker : \/ decode'[v] = decode[v]
                        \/ decode'[v].at = "take" /\ decode[v].at # "announce"
  BY <1>2 DEF Take
<1>6. \A v \in Worker : \/ decode'[v].at = "take"
                        \/ call'[v] = call[v] /\ decode'[v] = decode[v]
  BY <1>2, <1>3, WorkersAreThreads DEF Take
<1>7. \A t \in Thread : call'[t].step = "report" => call'[t] = call[t]
  BY <1>3
<1>8. \A d \in Conns : Unopened(d)' => Unopened(d)
  BY <1>1 DEF Unopened
<1> QED
  BY <1>0, <1>1, <1>4, <1>5, <1>6, <1>7, <1>8, Quiet
-----------------------------------------------------------------------------
LEMMA InitHolds == Init => Inv
<1> SUFFICES ASSUME Init PROVE Inv
  OBVIOUS
<1>1. TypeOK
  <2>1. Take \in Decodes /\ Idle \in Calls
    BY DEF Take, Decodes, Idle, Calls
  <2>2. Decoders \in 0 .. Decoders
    BY WebsocketAssumption
  <2>3. /\ queue \in [Worker -> Seq(Conns \X Units)]
        /\ heard \in [Conns -> Seq({"new", "message", "closed"})]
    <3>1. <<>> \in Seq(Conns \X Units) /\ <<>> \in Seq({"new", "message", "closed"})
      OBVIOUS
    <3> QED
      BY <3>1 DEF Init
  <2>4. decode \in [Worker -> Decodes] /\ call \in [Thread -> Calls]
    BY <2>1 DEF Init
  <2> QED
    BY <2>2, <2>3, <2>4 DEF Init, TypeOK
<1>2. Owned /\ Fresh /\ LateNotAdded /\ Undisturbed
  BY DEF Init, Owned, Fresh, At, Take, Idle, LateNotAdded, Undisturbed
<1>3. TrackedIsLive /\ AddedOnce /\ ListedIsTracked
  BY DEF Init, TrackedIsLive, AddedOnce, ListedIsTracked, Idle, Contract!Live
<1> QED
  BY <1>1, <1>2, <1>3 DEF Inv

LEMMA StepHolds == Inv /\ [Next]_vars => Inv'
<1> SUFFICES ASSUME Inv, [Next]_vars PROVE Inv'
  OBVIOUS
<1>1. ASSUME NEW t \in Thread, Closing(t) PROVE Inv'
  <2>1. CASE EnterClose(t) /\ ready[call[t].conn] # "closed"
    BY <2>1, EnterCloseKeeps
  <2>2. CASE OnClose(t)
    BY <2>2, OnCloseKeeps
  <2> QED
    BY <1>1, <2>1, <2>2, ClosingIsQuiet DEF Closing
<1>2. CASE OtherStep
  BY <1>2, SelectorKeeps
<1>3. ASSUME NEW w \in Worker,
             \/ TakeBuffer(w) \/ Open(w) \/ TestClosed(w) \/ Insert(w) \/ OnOpen(w)
             \/ OnMessage(w) \/ OnClosing(w)
      PROVE  Inv'
  BY <1>3, TakeBufferKeeps, OpenKeeps, OnOpenKeeps, OnMessageKeeps, OnClosingKeeps
<1>4. CASE UNCHANGED vars
  BY <1>4 DEF vars, connVars, peerVars, queueVars, serverVars, managerVars, haltVars, Inv,
     TypeOK, Owned, Fresh, TrackedIsLive, AddedOnce, Added, Unopened, At, LateNotAdded,
     Undisturbed, Free, ListedIsTracked, Contract!Live
<1> QED
  <2>1. {SelectorThread, TimerThread, ServiceThread} \subseteq Thread
    BY WebsocketAssumption DEF SelectorThread, TimerThread, ServiceThread, Thread
  <2>2. CASE Next
    BY <1>1, <1>2, <1>3, <2>1, <2>2, WorkersAreThreads, Zenon
       DEF Next, Selector, Timer, Work, Service, OtherStep
  <2> QED
    BY <1>4, <2>2

LEMMA Invariance == Spec => []Inv
  BY InitHolds, StepHolds, PTL DEF Spec

(* Type correctness. *)
THEOREM TypeCorrect == Spec => []TypeOK
<1>1. Inv => TypeOK
  BY DEF Inv
<1> QED
  BY <1>1, Invariance, PTL

(* Every connection in the server's list is tracked by the manager or about *)
(* to be announced to it.                                                  *)
THEOREM NoneForgotten == Spec => []ListedIsTracked
<1>1. Inv => ListedIsTracked
  BY DEF Inv
<1> QED
  BY <1>1, Invariance, PTL

(* The only steps that call a listener do it as the contract says. *)
LEMMA StepIsInContract == Inv /\ [Next]_vars => [Contract!Next]_heard
<1> SUFFICES ASSUME Inv, [Next]_vars, ~UNCHANGED heard PROVE Contract!Next
  OBVIOUS
<1>1. ASSUME NEW t \in Thread, Closing(t) PROVE Contract!Next
  <2>1. OnClose(t) /\ call[t].conn \in tracked /\ call[t].conn \in Conns
    BY <1>1 DEF Closing, SendClose, SendRaises, FlushAndClose, MarkClosing, EnterClose, OnClose,
       LeaveClose, managerVars, Inv, AddedOnce
  <2>2. Contract!Closed(call[t].conn)
    BY <2>1 DEF OnClose, Told, Contract!Closed, Contract!Told, Inv, TrackedIsLive
  <2> QED
    BY <2>1, <2>2 DEF Contract!Next
<1>2. ASSUME NEW w \in Worker, OnOpen(w) PROVE Contract!Next
  <2>1. decode[w].conn \in Conns /\ heard[decode[w].conn] = <<>>
    BY <1>2, HoldsConn DEF OnOpen, Inv, Fresh
  <2>2. Contract!New(decode[w].conn)
    BY <1>2, <2>1 DEF OnOpen, Told, Contract!New, Contract!Told
  <2> QED
    BY <2>1, <2>2 DEF Contract!Next
<1>3. ASSUME NEW w \in Worker, OnMessage(w) PROVE Contract!Next
  <2>1. decode[w].conn \in Conns /\ decode[w].conn \in tracked
    BY <1>3, HoldsConn DEF OnMessage
  <2>2. Contract!Message(decode[w].conn)
    BY <1>3, <2>1 DEF OnMessage, Told, Contract!Message, Contract!Told, Inv, TrackedIsLive
  <2> QED
    BY <2>1, <2>2 DEF Contract!Next
<1>4. ASSUME NEW w \in Worker, TakeBuffer(w) \/ Open(w) \/ TestClosed(w) \/ Insert(w) \/ OnClosing(w)
      PROVE  UNCHANGED heard
  BY <1>4 DEF TakeBuffer, Open, TestClosed, Insert, OnClosing, managerVars
<1>5. OtherStep => UNCHANGED heard
  BY DEF OtherStep, EndOfStream, Batch, ConnectionLost, PingRaises, CloseNext, Accept, Leaves, SelectorEnds,
         Interrupt, Join, RequestHalt, Read, managerVars
<1>6. ~UNCHANGED vars
  BY DEF vars, managerVars
<1>7. {SelectorThread, TimerThread, ServiceThread} \subseteq Thread
  BY WebsocketAssumption DEF SelectorThread, TimerThread, ServiceThread, Thread
<1> QED
  BY <1>1, <1>2, <1>3, <1>4, <1>5, <1>6, <1>7, WorkersAreThreads, Zenon
     DEF Next, Selector, Timer, Work, Service, OtherStep

(* The listeners are called as ConnectionEvents promises: the manager and  *)
(* the server it is built on implement it.                                 *)
THEOREM ContractKept == Spec => CallbacksInOrder
<1>1. Init => Contract!Init
  BY DEF Init, Contract!Init
<1>2. Inv /\ [Next]_vars => [Contract!Next]_heard
  BY StepIsInContract
<1> QED
  BY <1>1, <1>2, Invariance, PTL DEF Spec, Contract!Spec, CallbacksInOrder
=============================================================================
