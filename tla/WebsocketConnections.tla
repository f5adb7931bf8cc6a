------------------------ MODULE WebsocketConnections ------------------------
(***************************************************************************)
(* The WebSocket connections of the Android server: WebsocketConnectionMgr *)
(* on the threads of the WebSocketServer it extends.  One thread selects   *)
(* (accepts, reads, finds the end of a stream, writes what is flushed),    *)
(* workers decode what was read, a timer closes the connections that do    *)
(* not answer its pings, and the service's thread asks for the halt.       *)
(*                                                                         *)
(* Each of them may be inside close() or closeConnection() of a connection *)
(* (call).  Two locks are held across steps of other threads: the monitor  *)
(* of a connection, inside closeConnection(), and the manager's m_Lock,    *)
(* during all of requestHalt().  The callbacks take m_Lock for one step.   *)
(* What one read returns is taken to be one handshake or one frame.        *)
(***************************************************************************)
EXTENDS Naturals, Sequences, FiniteSets

CONSTANTS Conns,     (* connections                                        *)
          Decoders,  (* number of worker threads                           *)
          MaxReads   (* bound: buffers read from a connection              *)

NoConn == "no connection"
Worker == 0 .. Decoders - 1
SelectorThread == Decoders
TimerThread == Decoders + 1
ServiceThread == Decoders + 2
Thread == 0 .. Decoders + 2

ASSUME WebsocketAssumption == /\ Decoders \in Nat \ {0}
                              /\ MaxReads \in [Conns -> Nat]
                              /\ NoConn \notin Conns

VARIABLES ready,        (* readystate of a connection, "none" before it      *)
          flush,        (* its flushandclosestate                            *)
          draft,        (* whether a handshake chose its draft               *)
          key,          (* whether its selection key is registered and valid *)
          reads,        (* buffers read from it                              *)
          gone,         (* whether its peer left or its channel is closed    *)
          queue,        (* what a worker has to decode                       *)
          workerThread, (* the worker of a connection, none before a read    *)
          queueinvokes, (* connections given to a worker so far              *)
          decode,       (* what a worker is doing                            *)
          call,         (* the close() or closeConnection() a thread is in   *)
          selector,     (* whether the selector thread runs                  *)
          interrupted,  (* whether it was interrupted                        *)
          isclosed,     (* stop() was called                                 *)
          connections,  (* the server's connections                          *)
          tracked,      (* the manager's m_Connections                       *)
          heard,        (* calls of the listeners, for each connection       *)
          halter,       (* where requestHalt() is                            *)
          toClose       (* connections stop() has not come to                *)

connVars == <<ready, flush, draft, key>>
peerVars == <<reads, gone>>
queueVars == <<queue, workerThread, queueinvokes>>
serverVars == <<selector, interrupted, isclosed, connections>>
managerVars == <<tracked, heard>>
haltVars == <<halter, toClose>>
vars == <<connVars, peerVars, queueVars, decode, call, serverVars, managerVars,
          haltVars>>

Units == {"handshake", "message", "close"}
Calls == [step : {"idle", "send", "flush", "reject", "mark", "enter", "report", "leave",
                  "dead"},
          conn : Conns \union {NoConn}]
Decodes == [at : {"take", "open", "add", "insert", "announce", "frame"},
            conn : Conns \union {NoConn}, unit : Units \union {"none"}]

Idle == [step |-> "idle", conn |-> NoConn]
Take == [at |-> "take", conn |-> NoConn, unit |-> "none"]

Init == /\ ready = [c \in Conns |-> "none"]
        /\ flush = [c \in Conns |-> FALSE]
        /\ draft = [c \in Conns |-> FALSE]
        /\ key = [c \in Conns |-> FALSE]
        /\ reads = [c \in Conns |-> 0]
        /\ gone = [c \in Conns |-> FALSE]
        /\ queue = [w \in Worker |-> <<>>]
        /\ workerThread = [c \in Conns |-> Decoders]
        /\ queueinvokes = 0
        /\ decode = [w \in Worker |-> Take]
        /\ call = [t \in Thread |-> Idle]
        /\ selector = "running"
        /\ interrupted = FALSE
        /\ isclosed = FALSE
        /\ connections = {}
        /\ tracked = {}
        /\ heard = [c \in Conns |-> <<>>]
        /\ halter = "idle"
        /\ toClose = {}

Free(t) == call[t] = Idle
LockFree == halter \notin {"closing", "joining"}
Inside(t, c) == call[t].conn = c /\ call[t].step \in {"report", "leave"}
MonitorFree(c) == \A t \in Thread : ~Inside(t, c)

Goes(t, step, c) == call' = [call EXCEPT ![t] = [step |-> step, conn |-> c]]
Returns(t) == call' = [call EXCEPT ![t] = Idle]
Told(c, event) == heard' = [heard EXCEPT ![c] = Append(@, event)]
-----------------------------------------------------------------------------
(* close(): the closing frame, flushAndClose(), then the state CLOSING.    *)

(* close() of c by t: nothing for a connection that is closing or closed. *)
Close(t, c) == IF ready[c] = "open" THEN Goes(t, "send", c) ELSE UNCHANGED call

(* The closing frame is queued, or not when the connection stopped being   *)
(* open meanwhile.                                                         *)
SendClose(t) ==
    /\ call[t].step = "send"
    /\ Goes(t, "flush", call[t].conn)
    /\ UNCHANGED <<connVars, peerVars, queueVars, decode, serverVars, managerVars,
                   haltVars>>

(* It stops being open between the test and the sending: send() throws,    *)
(* decode() or open() leaves the connection at that, and stop() ends here. *)
SendRaises(t) ==
    /\ call[t].step = "send"
    /\ ready[call[t].conn] # "open"
    /\ Returns(t)
    /\ IF t = ServiceThread
       THEN halter' = "done" /\ UNCHANGED decode
       ELSE decode' = [decode EXCEPT ![t] = Take] /\ UNCHANGED halter
    /\ UNCHANGED <<connVars, peerVars, queueVars, serverVars, managerVars, toClose>>

(* flushAndClose(), which needs the connection's monitor.  After a wrong   *)
(* handshake it is called alone.                                           *)
FlushAndClose(t) == LET c == call[t].conn IN
    /\ call[t].step \in {"flush", "reject"}
    /\ MonitorFree(c)
    /\ flush' = [flush EXCEPT ![c] = TRUE]
    /\ IF call[t].step = "flush" THEN Goes(t, "mark", c) ELSE Returns(t)
    /\ UNCHANGED <<ready, draft, key, peerVars, queueVars, decode, serverVars,
                   managerVars, haltVars>>

MarkClosing(t) ==
    /\ call[t].step = "mark"
    /\ ready' = [ready EXCEPT ![call[t].conn] = "closing"]
    /\ Returns(t)
    /\ UNCHANGED <<flush, draft, key, peerVars, queueVars, decode, serverVars,
                   managerVars, haltVars>>
-----------------------------------------------------------------------------
(* closeConnection(), with the connection's monitor.                       *)

(* Slip: a connection that is already closing is taken for a closed one. *)
EnterCloseUnlessClosing(t) == LET c == call[t].conn IN
    /\ call[t].step = "enter"
    /\ MonitorFree(c)
    /\ IF ready[c] \in {"closing", "closed"}
       THEN Returns(t) /\ UNCHANGED <<key, gone, connections, interrupted>>
       ELSE /\ Goes(t, IF c \in connections THEN "report" ELSE "leave", c)
            /\ key' = [key EXCEPT ![c] = FALSE]
            /\ gone' = [gone EXCEPT ![c] = TRUE]
            /\ connections' = connections \ {c}
            /\ interrupted' = (interrupted \/ (isclosed /\ connections' = {}))
    /\ UNCHANGED <<ready, flush, draft, reads, queueVars, decode, selector, isclosed,
                   managerVars, haltVars>>

(* Slip: the connection stays in the server's list. *)
EnterCloseKeepsListed(t) == LET c == call[t].conn IN
    /\ call[t].step = "enter"
    /\ MonitorFree(c)
    /\ IF ready[c] = "closed"
       THEN Returns(t) /\ UNCHANGED <<key, gone>>
       ELSE /\ Goes(t, IF c \in connections THEN "report" ELSE "leave", c)
            /\ key' = [key EXCEPT ![c] = FALSE]
            /\ gone' = [gone EXCEPT ![c] = TRUE]
    /\ UNCHANGED <<ready, flush, draft, reads, queueVars, decode, serverVars,
                   managerVars, haltVars>>

(* It enters when the monitor is free: nothing if the connection is closed *)
(* by now, else its channel is closed and it leaves the server; with the    *)
(* last connection of a stopped server the selector is interrupted.        *)
EnterClose(t) == LET c == call[t].conn IN
    /\ call[t].step = "enter"
    /\ MonitorFree(c)
    /\ IF ready[c] = "closed"
       THEN Returns(t) /\ UNCHANGED <<key, gone, connections, interrupted>>
       ELSE /\ Goes(t, IF c \in connections THEN "report" ELSE "leave", c)
            /\ key' = [key EXCEPT ![c] = FALSE]
            /\ gone' = [gone EXCEPT ![c] = TRUE]
            /\ connections' = connections \ {c}
            /\ interrupted' = (interrupted \/ (isclosed /\ connections' = {}))
    /\ UNCHANGED <<ready, flush, draft, reads, queueVars, decode, selector, isclosed,
                   managerVars, haltVars>>

(* onClose() of the manager. *)
OnClose(t) == LET c == call[t].conn IN
    /\ call[t].step = "report"
    /\ LockFree
    /\ tracked' = tracked \ {c}
    /\ IF c \in tracked THEN Told(c, "closed") ELSE UNCHANGED heard
    /\ Goes(t, "leave", c)
    /\ UNCHANGED <<connVars, peerVars, queueVars, decode, serverVars, haltVars>>

LeaveClose(t) ==
    /\ call[t].step = "leave"
    /\ ready' = [ready EXCEPT ![call[t].conn] = "closed"]
    /\ Returns(t)
    /\ UNCHANGED <<flush, draft, key, peerVars, queueVars, decode, serverVars,
                   managerVars, haltVars>>
-----------------------------------------------------------------------------
(* The selector thread: one selected key at a time.                        *)

Selecting == selector = "running" /\ ~interrupted /\ Free(SelectorThread)

Accept(c) ==
    /\ Selecting
    /\ ready[c] = "none"
    /\ ready' = [ready EXCEPT ![c] = "connecting"]
    /\ key' = [key EXCEPT ![c] = TRUE]
    /\ UNCHANGED <<flush, draft, peerVars, queueVars, decode, call, serverVars,
                   managerVars, haltVars>>

(* The worker of a connection is chosen in turn at its first read. *)
Read(c, unit) ==
    /\ Selecting
    /\ key[c] /\ reads[c] < MaxReads[c]
    /\ reads' = [reads EXCEPT ![c] = @ + 1]
    /\ LET first == workerThread[c] = Decoders
           w == IF first THEN queueinvokes % Decoders ELSE workerThread[c]
       IN  /\ workerThread' = [workerThread EXCEPT ![c] = w]
           /\ queueinvokes' = queueinvokes + (IF first THEN 1 ELSE 0)
           /\ queue' = [queue EXCEPT ![w] = Append(@, <<c, unit>>)]
    /\ UNCHANGED <<connVars, gone, decode, call, serverVars, managerVars, haltVars>>

(* The stream has ended or fails: eot(), or handleIOException(). *)
EndOfStream(c) ==
    /\ Selecting
    /\ key[c] /\ gone[c]
    /\ Goes(SelectorThread, "enter", c)
    /\ UNCHANGED <<connVars, peerVars, queueVars, decode, serverVars, managerVars,
                   haltVars>>

(* batch(): everything is written, the connection is to close then. *)
Batch(c) ==
    /\ Selecting
    /\ key[c] /\ flush[c] /\ draft[c]
    /\ Goes(SelectorThread, "enter", c)
    /\ UNCHANGED <<connVars, peerVars, queueVars, decode, serverVars, managerVars,
                   haltVars>>

(* run() ends, and interrupts the workers. *)
SelectorEnds ==
    /\ selector = "running" /\ interrupted /\ Free(SelectorThread)
    /\ selector' = "ended"
    /\ UNCHANGED <<connVars, peerVars, queueVars, decode, call, interrupted, isclosed,
                   connections, managerVars, haltVars>>

(* The peer leaves. *)
Leaves(c) ==
    /\ key[c] /\ ~gone[c]
    /\ gone' = [gone EXCEPT ![c] = TRUE]
    /\ UNCHANGED <<connVars, reads, queueVars, decode, call, serverVars, managerVars,
                   haltVars>>

(* The timer finds c without an answer to its pings for too long. *)
ConnectionLost(c) ==
    /\ selector = "running" /\ Free(TimerThread)
    /\ c \in connections
    /\ Goes(TimerThread, "enter", c)
    /\ UNCHANGED <<connVars, peerVars, queueVars, decode, serverVars, managerVars,
                   haltVars>>
(* It pings the others.  One that is no longer open raises an exception    *)
(* that nothing catches: the timer's thread ends.                          *)
PingRaises(c) ==
    /\ selector = "running" /\ Free(TimerThread)
    /\ c \in connections /\ ready[c] # "open"
    /\ Goes(TimerThread, "dead", NoConn)
    /\ UNCHANGED <<connVars, peerVars, queueVars, decode, serverVars, managerVars,
                   haltVars>>
-----------------------------------------------------------------------------
(* The workers.                                                            *)

Works(w, at, c, unit) ==
    decode' = [decode EXCEPT ![w] = [at |-> at, conn |-> c, unit |-> unit]]

(* decode(): by the state of the connection, a handshake, a frame or, when *)
(* it is closing or closed, nothing.  Anything but a handshake in the      *)
(* place of one is rejected.  A worker takes nothing when the selector has *)
(* ended.                                                                  *)
TakeBuffer(w) ==
    /\ decode[w] = Take /\ Free(w)
    /\ queue[w] # <<>> /\ selector = "running"
    /\ queue' = [queue EXCEPT ![w] = Tail(@)]
    /\ LET c == Head(queue[w])[1]
           unit == Head(queue[w])[2]
       IN  CASE ready[c] = "connecting" /\ unit = "handshake" ->
                    Works(w, "open", c, unit) /\ UNCHANGED call
             [] ready[c] = "connecting" /\ unit # "handshake" ->
                    Goes(w, "reject", c) /\ UNCHANGED decode
             [] ready[c] = "open" -> Works(w, "frame", c, unit) /\ UNCHANGED call
             [] OTHER -> UNCHANGED <<decode, call>>
    /\ UNCHANGED <<connVars, peerVars, workerThread, queueinvokes, serverVars,
                   managerVars, haltVars>>

(* The draft is set and open() sets the state, whatever it is by now. *)
Open(w) == LET c == decode[w].conn IN
    /\ decode[w].at = "open"
    /\ draft' = [draft EXCEPT ![c] = TRUE]
    /\ ready' = [ready EXCEPT ![c] = "open"]
    /\ Works(w, "add", c, "none")
    /\ UNCHANGED <<flush, key, peerVars, queueVars, call, serverVars, managerVars,
                   haltVars>>

(* addConnection() tests isclosed; a connection that comes late is closed, *)
(* and announced all the same.                                             *)
TestClosed(w) == LET c == decode[w].conn IN
    /\ decode[w].at = "add"
    /\ IF isclosed
       THEN Works(w, "announce", c, "none") /\ Close(w, c)
       ELSE Works(w, "insert", c, "none") /\ UNCHANGED call
    /\ UNCHANGED <<connVars, peerVars, queueVars, serverVars, managerVars, haltVars>>

Insert(w) == LET c == decode[w].conn IN
    /\ decode[w].at = "insert"
    /\ connections' = connections \union {c}
    /\ Works(w, "announce", c, "none")
    /\ UNCHANGED <<connVars, peerVars, queueVars, call, selector, interrupted, isclosed,
                   managerVars, haltVars>>

(* onOpen() of the manager. *)
OnOpen(w) == LET c == decode[w].conn IN
    /\ decode[w].at = "announce" /\ Free(w)
    /\ LockFree
    /\ tracked' = tracked \union {c}
    /\ Told(c, "new")
    /\ decode' = [decode EXCEPT ![w] = Take]
    /\ UNCHANGED <<connVars, peerVars, queueVars, call, serverVars, haltVars>>

(* Slip: the manager does not look the connection up. *)
OnMessageOfAny(w) == LET c == decode[w].conn IN
    /\ decode[w].at = "frame" /\ decode[w].unit = "message"
    /\ LockFree
    /\ Told(c, "message")
    /\ decode' = [decode EXCEPT ![w] = Take]
    /\ UNCHANGED <<connVars, peerVars, queueVars, call, serverVars, tracked, haltVars>>

(* onMessage() of the manager: a connection it does not track is unknown. *)
OnMessage(w) == LET c == decode[w].conn IN
    /\ decode[w].at = "frame" /\ decode[w].unit = "message"
    /\ LockFree
    /\ IF c \in tracked THEN Told(c, "message") ELSE UNCHANGED heard
    /\ decode' = [decode EXCEPT ![w] = Take]
    /\ UNCHANGED <<connVars, peerVars, queueVars, call, serverVars, tracked, haltVars>>

(* A closing frame is echoed, or completes the closing that has begun      *)
(* since decode() looked; an invalid frame closes the connection.          *)
OnClosing(w) == LET c == decode[w].conn IN
    /\ decode[w].at = "frame" /\ decode[w].unit # "message"
    /\ IF decode[w].unit = "close" /\ ready[c] = "closing"
       THEN Goes(w, "enter", c)
       ELSE Close(w, c)
    /\ decode' = [decode EXCEPT ![w] = Take]
    /\ UNCHANGED <<connVars, peerVars, queueVars, serverVars, managerVars, haltVars>>
-----------------------------------------------------------------------------
(* The service's thread: requestHalt(), which holds m_Lock to its end.     *)

RequestHalt ==
    /\ halter = "idle"
    /\ halter' = "closing"
    /\ isclosed' = TRUE
    /\ toClose' = connections
    /\ UNCHANGED <<connVars, peerVars, queueVars, decode, call, selector, interrupted,
                   connections, managerVars>>

CloseNext(c) ==
    /\ halter = "closing" /\ Free(ServiceThread)
    /\ c \in toClose
    /\ toClose' = toClose \ {c}
    /\ Close(ServiceThread, c)
    /\ UNCHANGED <<connVars, peerVars, queueVars, decode, serverVars, managerVars, halter>>

(* Slip: the selector is only awaited. *)
InterruptNot ==
    /\ halter = "closing" /\ Free(ServiceThread)
    /\ toClose = {}
    /\ halter' = "joining"
    /\ UNCHANGED <<connVars, peerVars, queueVars, decode, call, serverVars, managerVars,
                   toClose>>

Interrupt ==
    /\ halter = "closing" /\ Free(ServiceThread)
    /\ toClose = {}
    /\ halter' = "joining"
    /\ interrupted' = TRUE
    /\ UNCHANGED <<connVars, peerVars, queueVars, decode, call, selector, isclosed,
                   connections, managerVars, toClose>>

(* join() returns when the selector thread has ended. *)
Join ==
    /\ halter = "joining"
    /\ selector = "ended"
    /\ halter' = "done"
    /\ UNCHANGED <<connVars, peerVars, queueVars, decode, call, serverVars, managerVars,
                   toClose>>
-----------------------------------------------------------------------------
Closing(t) == SendClose(t) \/ SendRaises(t) \/ FlushAndClose(t) \/ MarkClosing(t)
                  \/ EnterClose(t) \/ OnClose(t) \/ LeaveClose(t)

Selector == \/ Closing(SelectorThread)
            \/ \E c \in Conns : EndOfStream(c) \/ Batch(c)
            \/ SelectorEnds

Timer == Closing(TimerThread) \/ \E c \in Conns : ConnectionLost(c) \/ PingRaises(c)

Work(w) == \/ Closing(w)
           \/ TakeBuffer(w) \/ Open(w) \/ TestClosed(w) \/ Insert(w) \/ OnOpen(w)
           \/ OnMessage(w) \/ OnClosing(w)

Service == \/ RequestHalt
           \/ Closing(ServiceThread) \/ Interrupt \/ Join
           \/ \E c \in Conns : CloseNext(c)

Next == \/ \E c \in Conns : Accept(c) \/ Leaves(c)
        \/ \E c \in Conns, unit \in Units : Read(c, unit)
        \/ Selector
        \/ Timer
        \/ \E w \in Worker : Work(w)
        \/ Service

Spec == Init /\ [][Next]_vars

(* Threads are scheduled: the selector comes to the end of a stream and to *)
(* a demand to write, the service's thread goes on with a halt it began.   *)
(* The timer repeats and looks at every connection, so one whose peer has  *)
(* left is found lost.                                                     *)
Fairness == /\ WF_vars(Selector)
            /\ \A w \in Worker : WF_vars(Work(w))
            /\ WF_vars(Service /\ ~RequestHalt)
            /\ WF_vars(Closing(TimerThread))
            /\ \A c \in Conns : SF_vars(gone[c] /\ ConnectionLost(c))

FairSpec == Spec /\ Fairness
-----------------------------------------------------------------------------
TypeOK ==
    /\ ready \in [Conns -> {"none", "connecting", "open", "closing", "closed"}]
    /\ flush \in [Conns -> BOOLEAN] /\ draft \in [Conns -> BOOLEAN]
    /\ key \in [Conns -> BOOLEAN] /\ gone \in [Conns -> BOOLEAN]
    /\ reads \in [Conns -> Nat]
    /\ queue \in [Worker -> Seq(Conns \X Units)]
    /\ workerThread \in [Conns -> 0 .. Decoders]
    /\ queueinvokes \in Nat
    /\ decode \in [Worker -> Decodes]
    /\ call \in [Thread -> Calls]
    /\ selector \in {"running", "ended"}
    /\ interrupted \in BOOLEAN /\ isclosed \in BOOLEAN
    /\ connections \subseteq Conns /\ tracked \subseteq Conns /\ toClose \subseteq Conns
    /\ heard \in [Conns -> Seq({"new", "message", "closed"})]
    /\ halter \in {"idle", "closing", "joining", "done"}

Contract == INSTANCE ConnectionEvents

(* The listeners are called as they expect, although callbacks for one     *)
(* connection come from the selector, a worker and the timer               *)
(* (WebsocketConnectionMgr.java:272-345): the manager announces a          *)
(* connection once, gives messages only of announced ones, and nothing     *)
(* after its close.                                                        *)
CallbacksInOrder == Contract!Spec

(* A connection the server would close on a stop is one its manager tracks *)
(* or a worker is about to announce: none is in the server's list and left *)
(* out of the manager's.  The other direction does not hold                *)
(* (WebSocketServer.java:617-629, WebsocketConnectionMgr.java:272-283).    *)
ListedIsTracked ==
    \A c \in connections : c \in tracked \/ \E w \in Worker : decode[w].conn = c /\ decode[w].at = "announce"

(* A connection that was announced and is still in the server's list is    *)
(* reported closed once its peer has left: at the end of its stream, or by *)
(* the timer, if that runs, when its key was cancelled before.  Except if  *)
(* the server is halted, or closing began before it was in the list        *)
(* (WebSocketServer.java:379-417, AbstractWebSocket.java:119-147).         *)
Lost(c) == /\ c \in tracked /\ gone[c]
           /\ \/ c \in connections /\ ready[c] # "closed"
              \/ \E t \in Thread : call[t] = [step |-> "report", conn |-> c]
LossReported ==
    \A c \in Conns : []<>(\/ ~Lost(c) \/ isclosed
                          \/ call[TimerThread].step = "dead" /\ ~key[c])

(* A halt ends, unless it meets the close of a connection: requestHalt      *)
(* keeps m_Lock while it closes the connections and joins the selector, and *)
(* a thread that has come to onClose() waits for that lock with the         *)
(* connection's monitor in its hands, or is the selector                    *)
(* (WebsocketConnectionMgr.java:233-247, 286-297).                          *)
HaltEndsOrMeetsClose ==
    []<>(LockFree \/ \E t \in Thread : call[t].step = "report")
=============================================================================
