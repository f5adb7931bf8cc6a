------------------------ MODULE BluetoothConnections ------------------------
(***************************************************************************)
(* The Bluetooth connections of the Android server (BaseConnectionMgr,     *)
(* BluetoothConnectionMgr, BluetoothConnectionThread): a manager thread    *)
(* that accepts, a thread for each connection that connects, reads, cleans *)
(* up and starts the thread that tries again, and what the listeners are   *)
(* told of it.                                                             *)
(*                                                                         *)
(* Two kinds of lock are held across steps of others: the manager's m_Lock *)
(* while it closes its connections, and a connection's m_SocketLock while  *)
(* the connection cleans up.  Every other synchronized block blocks on     *)
(* nothing inside it and is one step, possible when its lock is free.      *)
(***************************************************************************)
EXTENDS Naturals, Sequences

CONSTANTS Device,      (* Bluetooth devices                                  *)
          Bonded,      (* those the adapter lists as bonded                  *)
          MaxThreads,  (* bound: connection threads ever started             *)
          MaxMessages  (* bound: messages read by one connection             *)

NoDevice == "no device"
Nobody == 0
Conn == 1 .. MaxThreads  (* connection threads, in the order they start      *)

ASSUME DeviceAssumption == /\ Bonded \subseteq Device
                           /\ NoDevice \notin Device
                           /\ MaxThreads \in Nat /\ MaxMessages \in Nat

VARIABLES mgr,         (* where the manager thread is                        *)
          haltPending, (* m_HaltPending                                      *)
          toStart,     (* bonded devices setup() has not come to             *)
          toClose,     (* connections the closing loop has not come to       *)
          closing,     (* the connection whose close() it is in              *)
          active,      (* m_ActiveConnections                                *)
          threads,     (* connection threads started so far                  *)
          device,      (* m_Device of a connection                           *)
          state,       (* where a connection thread is                       *)
          connected,   (* its m_Connected                                    *)
          socket,      (* its m_Socket                                       *)
          heard        (* callbacks the listeners were given for it          *)

managerVars == <<mgr, haltPending, toStart, toClose, closing>>
threadVars == <<threads, device, state>>
vars == <<managerVars, active, threadVars, connected, socket, heard>>

Init == /\ mgr = "setup"
        /\ haltPending = FALSE
        /\ toStart = Bonded
        /\ toClose = {}
        /\ closing = Nobody
        /\ active = {}
        /\ threads = 0
        /\ device = [c \in Conn |-> NoDevice]
        /\ state = [c \in Conn |-> "unborn"]
        /\ connected = [c \in Conn |-> FALSE]
        /\ socket = [c \in Conn |-> "none"]
        /\ heard = [c \in Conn |-> <<>>]

ManagerLockFree == mgr # "closing"
SocketLockFree(c) == state[c] \notin {"notify", "reconnect"}

(* A new connection thread for d, beside the given changes of state. *)
StartThread(d, states) ==
    /\ threads < MaxThreads
    /\ threads' = threads + 1
    /\ device' = [device EXCEPT ![threads + 1] = d]
    /\ state' = [states EXCEPT ![threads + 1] = "setup"]

Tell(c, event) == heard' = [heard EXCEPT ![c] = Append(@, event)]
-----------------------------------------------------------------------------
(* The manager thread. *)

(* The service asks from its own thread, at any time. *)
RequestHalt ==
    /\ ~haltPending
    /\ haltPending' = TRUE
    /\ UNCHANGED <<mgr, toStart, toClose, closing, active, threadVars, connected,
                   socket, heard>>

StartBonded(d) ==
    /\ mgr = "setup"
    /\ d \in toStart
    /\ toStart' = toStart \ {d}
    /\ StartThread(d, state)
    /\ UNCHANGED <<mgr, haltPending, toClose, closing, active, connected, socket, heard>>

SetupDone ==
    /\ mgr = "setup"
    /\ toStart = {}
    /\ mgr' = "test"
    /\ UNCHANGED <<haltPending, toStart, toClose, closing, active, threadVars,
                   connected, socket, heard>>

(* The loop of run(): wait in accept() again, or take m_Lock to close all. *)
TestHalt ==
    /\ mgr = "test"
    /\ mgr' = IF haltPending THEN "closing" ELSE "accept"
    /\ toClose' = IF haltPending THEN active ELSE toClose
    /\ UNCHANGED <<haltPending, toStart, closing, active, threadVars, connected,
                   socket, heard>>

AcceptTimeout ==
    /\ mgr = "accept"
    /\ mgr' = "test"
    /\ UNCHANGED <<haltPending, toStart, toClose, closing, active, threadVars,
                   connected, socket, heard>>

Accept(d) ==
    /\ mgr = "accept"
    /\ mgr' = "test"
    /\ StartThread(d, state)
    /\ UNCHANGED <<haltPending, toStart, toClose, closing, active, connected, socket,
                   heard>>

(* close() of some connection, up to the lock of its socket; m_Connected is *)
(* set for all it meets (ListenersAgree).                                   *)
CloseNext(c) ==
    /\ mgr = "closing"
    /\ closing = Nobody
    /\ c \in toClose
    /\ connected[c]
    /\ closing' = c
    /\ UNCHANGED <<mgr, haltPending, toStart, toClose, active, threadVars, connected,
                   socket, heard>>

CloseSocket ==
    /\ closing # Nobody
    /\ SocketLockFree(closing)
    /\ socket' = [socket EXCEPT ![closing] = "closed"]
    /\ toClose' = toClose \ {closing}
    /\ closing' = Nobody
    /\ UNCHANGED <<mgr, haltPending, toStart, active, threadVars, connected, heard>>

(* The end of run(): the list is cleared and m_Lock given back. *)
ClosedAll ==
    /\ mgr = "closing"
    /\ toClose = {}
    /\ active' = {}
    /\ mgr' = "done"
    /\ UNCHANGED <<haltPending, toStart, toClose, closing, threadVars, connected,
                   socket, heard>>

(* The connections refer to the manager weakly, and the service has let go  *)
(* of it; a thread that is notifying or reconnecting holds on to it.        *)
Collected ==
    /\ mgr = "done"
    /\ \A c \in Conn : SocketLockFree(c)
    /\ mgr' = "collected"
    /\ UNCHANGED <<haltPending, toStart, toClose, closing, active, threadVars,
                   connected, socket, heard>>
-----------------------------------------------------------------------------
(* A connection thread. *)

(* setSocket() up to the end of its synchronized block. *)
Connect(c) ==
    /\ state[c] = "setup"
    /\ socket' = [socket EXCEPT ![c] = "open"]
    /\ connected' = [connected EXCEPT ![c] = TRUE]
    /\ state' = [state EXCEPT ![c] = "announce"]
    /\ UNCHANGED <<managerVars, active, threads, device, heard>>

(* connect() raises: the loop of run() is never entered. *)
ConnectFails(c) ==
    /\ state[c] = "setup"
    /\ state' = [state EXCEPT ![c] = "cleanup"]
    /\ UNCHANGED <<managerVars, active, threads, device, connected, socket, heard>>

(* The rest of setSocket(): onNewConnection of the manager, if there is one. *)
Announce(c) ==
    /\ state[c] = "announce"
    /\ ManagerLockFree
    /\ IF mgr = "collected" THEN UNCHANGED <<active, heard>>
       ELSE Tell(c, "new") /\ active' = active \cup {c}
    /\ state' = [state EXCEPT ![c] = "read"]
    /\ UNCHANGED <<managerVars, threads, device, connected, socket>>

(* The device goes out of reach. *)
LinkBreaks(c) ==
    /\ socket[c] = "open"
    /\ socket' = [socket EXCEPT ![c] = "broken"]
    /\ UNCHANGED <<managerVars, active, threadVars, connected, heard>>

(* execute(): a whole message has been read. *)
ReadMessage(c) ==
    /\ state[c] = "read"
    /\ socket[c] = "open"
    /\ Len(heard[c]) <= MaxMessages
    /\ state' = [state EXCEPT ![c] = "message"]
    /\ UNCHANGED <<managerVars, active, threads, device, connected, socket, heard>>

(* onMessage of the manager, which tells the listeners under m_Lock. *)
HandOn(c) ==
    /\ state[c] = "message"
    /\ ManagerLockFree
    /\ IF mgr = "collected" THEN UNCHANGED heard ELSE Tell(c, "message")
    /\ state' = [state EXCEPT ![c] = "read"]
    /\ UNCHANGED <<managerVars, active, threads, device, connected, socket>>

(* read() raises, or the loop of run() finds the halt close() requested     *)
(* after it closed the socket.                                              *)
ReadFails(c) ==
    /\ state[c] = "read"
    /\ socket[c] # "open"
    /\ state' = [state EXCEPT ![c] = "cleanup"]
    /\ UNCHANGED <<managerVars, active, threads, device, connected, socket, heard>>

(* Slip: the listeners are told whether or not it was ever connected. *)
CleanupTellsAll(c) ==
    /\ state[c] = "cleanup"
    /\ socket' = [socket EXCEPT ![c] = IF @ = "none" THEN @ ELSE "closed"]
    /\ state' = [state EXCEPT ![c] = IF mgr = "collected" THEN "ended" ELSE "notify"]
    /\ UNCHANGED <<managerVars, active, threads, device, connected, heard>>

(* Slip: a connection whose socket is gone already is not reported. *)
CleanupReportsOpen(c) ==
    /\ state[c] = "cleanup"
    /\ socket' = [socket EXCEPT ![c] = IF @ = "none" THEN @ ELSE "closed"]
    /\ state' = [state EXCEPT ![c] = IF mgr = "collected" THEN "ended"
                                     ELSE IF socket[c] = "open" THEN "notify"
                                     ELSE "reconnect"]
    /\ UNCHANGED <<managerVars, active, threads, device, connected, heard>>

(* cleanup() takes m_SocketLock, keeps it to its end and closes the socket. *)
Cleanup(c) ==
    /\ state[c] = "cleanup"
    /\ socket' = [socket EXCEPT ![c] = IF @ = "none" THEN @ ELSE "closed"]
    /\ state' = [state EXCEPT ![c] = IF mgr = "collected" THEN "ended"
                                     ELSE IF connected[c] THEN "notify"
                                     ELSE "reconnect"]
    /\ UNCHANGED <<managerVars, active, threads, device, connected, heard>>

(* Slip: the connection stays in the manager's list. *)
NotifyKeepsActive(c) ==
    /\ state[c] = "notify"
    /\ ManagerLockFree
    /\ Tell(c, "closed")
    /\ state' = [state EXCEPT ![c] = "reconnect"]
    /\ UNCHANGED <<managerVars, active, threads, device, connected, socket>>

(* Slip: only a connection that failed is tried again. *)
NotifyEnds(c) ==
    /\ state[c] = "notify"
    /\ ManagerLockFree
    /\ Tell(c, "closed")
    /\ active' = active \ {c}
    /\ state' = [state EXCEPT ![c] = "ended"]
    /\ UNCHANGED <<managerVars, threads, device, connected, socket>>

(* onClosedConnection of the manager, up to its call of reconnect. *)
Notify(c) ==
    /\ state[c] = "notify"
    /\ ManagerLockFree
    /\ Tell(c, "closed")
    /\ active' = active \ {c}
    /\ state' = [state EXCEPT ![c] = "reconnect"]
    /\ UNCHANGED <<managerVars, threads, device, connected, socket>>

(* reconnect(), halting or not, and the end of the thread. *)
Reconnect(c) ==
    /\ state[c] = "reconnect"
    /\ StartThread(device[c], [state EXCEPT ![c] = "ended"])
    /\ connected' = [connected EXCEPT ![c] = FALSE]
    /\ UNCHANGED <<managerVars, active, socket, heard>>
-----------------------------------------------------------------------------
Manager == \/ SetupDone \/ TestHalt \/ AcceptTimeout \/ CloseSocket \/ ClosedAll
           \/ \E d \in Device : StartBonded(d)
           \/ \E c \in Conn : CloseNext(c)

Thread(c) == \/ Announce(c) \/ HandOn(c) \/ ReadFails(c) \/ Cleanup(c) \/ Notify(c)
             \/ Reconnect(c)

Next == \/ RequestHalt \/ Collected \/ Manager
        \/ \E d \in Device : Accept(d)
        \/ \E c \in Conn : \/ Connect(c) \/ ConnectFails(c) \/ LinkBreaks(c)
                           \/ ReadMessage(c) \/ Thread(c)

Fairness == WF_vars(Manager) /\ \A c \in Conn : WF_vars(Thread(c))

Spec == Init /\ [][Next]_vars

FairSpec == Spec /\ Fairness
-----------------------------------------------------------------------------
TypeOK == /\ mgr \in {"setup", "test", "accept", "closing", "done", "collected"}
          /\ haltPending \in BOOLEAN
          /\ toStart \subseteq Bonded
          /\ toClose \subseteq active
          /\ mgr # "closing" => toClose = {}
          /\ closing \in toClose \cup {Nobody}
          /\ active \subseteq Conn
          /\ threads \in 0 .. MaxThreads
          /\ device \in [Conn -> Device \cup {NoDevice}]
          /\ state \in [Conn -> {"unborn", "setup", "announce", "read", "message",
                                 "cleanup", "notify", "reconnect", "ended"}]
          /\ \A c \in Conn : state[c] = "unborn" <=> c > threads
          /\ \A c \in Conn : device[c] = NoDevice <=> c > threads
          /\ connected \in [Conn -> BOOLEAN]
          /\ socket \in [Conn -> {"none", "open", "broken", "closed"}]
          /\ heard \in [Conn -> Seq({"new", "message", "closed"})]

(* The connections the router and the service keep in their own maps. *)
Announced == {c \in Conn : heard[c] # <<>> /\ heard[c][Len(heard[c])] # "closed"}

Contract == INSTANCE ConnectionEvents WITH Conns <- Conn

(***************************************************************************)
(* The manager keeps the contract its listeners rely on, although three    *)
(* threads take part in it: a connection is announced once, its messages   *)
(* are given only after that, and nothing after its close, which is told   *)
(* once, and only of a connection that was announced                       *)
(* (BluetoothConnectionThread.java:151-154, 214-216, 253-266).             *)
(***************************************************************************)
CallbacksInOrder == Contract!Spec

(***************************************************************************)
(* Until it is halted, the manager's list is what its listeners have been  *)
(* told, and only connected connections are in it, so that closing them    *)
(* all reaches every one (BaseConnectionMgr.java:57-67, 148-172).          *)
(***************************************************************************)
ListenersAgree ==
    mgr \notin {"done", "collected"} =>
        active = Announced /\ \A c \in active : connected[c]

(***************************************************************************)
(* A device once served is not given up: as long as the manager exists,    *)
(* some thread connects to it, serves it or starts the next one            *)
(* (BluetoothConnectionThread.java:253-259, BluetoothConnectionMgr.java:   *)
(* 179-189).                                                               *)
(***************************************************************************)
DeviceNotGivenUp ==
    mgr # "collected" =>
        \A c \in Conn : state[c] # "unborn" =>
            \E e \in Conn : device[e] = device[c] /\ state[e] \notin {"unborn", "ended"}

(***************************************************************************)
(* A connection whose link breaks is reported closed, unless the manager   *)
(* halts meanwhile (BluetoothConnectionThread.java:225-229, 232-268).      *)
(***************************************************************************)
BreakReported ==
    \A c \in Conn :
        (c \in Announced /\ socket[c] = "broken") ~> (c \notin Announced \/ haltPending)
=============================================================================
