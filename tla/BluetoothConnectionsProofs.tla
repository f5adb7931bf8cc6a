--------------------- MODULE BluetoothConnectionsProofs ---------------------
(***************************************************************************)
(* What the listeners are told of Bluetooth connections, for any devices   *)
(* and any number of threads and messages.                                 *)
(***************************************************************************)
EXTENDS BluetoothConnections, SequenceTheorems, TLAPS

Event == {"new", "message", "closed"}

(* The callbacks of one connection are in order; it is not closed yet. *)
InOrder(h) == \A k \in DOMAIN h : /\ h[k] = "new" <=> k = 1
                                  /\ h[k] = "closed" => k = Len(h)

Unclosed(h) == h # <<>> /\ \A k \in DOMAIN h : h[k] # "closed"

Told(h) == h # <<>> /\ h[Len(h)] # "closed"

(* Only without a manager is a connection served that nobody was told of. *)
Served(h, m) == Unclosed(h) \/ (h = <<>> /\ m = "collected")

(* What the listeners heard goes with where the thread is. *)
Life(st, con, h, m) ==
    /\ InOrder(h)
    /\ st \in {"unborn", "setup"} => h = <<>> /\ con = FALSE
    /\ st = "announce" => h = <<>> /\ con = TRUE
    /\ st \in {"read", "message"} => Served(h, m) /\ con = TRUE
    /\ st = "cleanup" => (con = TRUE /\ Served(h, m)) \/ (con = FALSE /\ h = <<>>)
    /\ st = "notify" => Unclosed(h) /\ con = TRUE /\ m # "collected"
    /\ st = "reconnect" => ~Told(h) /\ m # "collected"

Lives == \A c \in Conn : Life(state[c], connected[c], heard[c], mgr)

Agreement == mgr \notin {"done", "collected"} =>
                 \A c \in Conn : /\ c \in active <=> Told(heard[c])
                                 /\ c \in active => connected[c] = TRUE

ConnectionInv == TypeOK /\ Lives /\ Agreement

-----------------------------------------------------------------------------
(* The elements of a history with one more event at its end. *)
LEMMA Longer ==
  ASSUME NEW h \in Seq(Event), NEW e \in Event
  PROVE  /\ Append(h, e) \in Seq(Event)
         /\ Append(h, e) # <<>>
         /\ Len(h) \in Nat
         /\ h = <<>> <=> Len(h) = 0
         /\ Len(Append(h, e)) = Len(h) + 1
         /\ DOMAIN h = 1 .. Len(h)
         /\ DOMAIN Append(h, e) = 1 .. Len(h) + 1
         /\ \A k \in 1 .. Len(h) : Append(h, e)[k] = h[k]
         /\ Append(h, e)[Len(h) + 1] = e
BY AppendProperties, EmptySeq, LenProperties

(* The first callback says that the connection is new. *)
LEMMA FirstCallback ==
  LET h == Append(<<>>, "new")
  IN  h \in Seq(Event) /\ InOrder(h) /\ Unclosed(h) /\ Told(h)
<1> DEFINE h == Append(<<>>, "new")
<1>1. <<>> \in Seq(Event) /\ "new" \in Event /\ Len(<<>>) = 0
  BY DEF Event
<1>2. h \in Seq(Event) /\ h # <<>> /\ Len(h) = 1 /\ DOMAIN h = 1 .. 1 /\ h[1] = "new"
  BY <1>1, Longer
<1> HIDE DEF h
<1>3. \A k \in DOMAIN h : k = 1
  BY <1>2
<1> QED BY <1>2, <1>3 DEF InOrder, Unclosed, Told, h

(* One more message, or the closing, after callbacks that are in order. *)
LEMMA NextCallback ==
  ASSUME NEW h \in Seq(Event), InOrder(h), Unclosed(h), NEW e \in Event, e # "new"
  PROVE  LET g == Append(h, e)
         IN  /\ g \in Seq(Event)
             /\ InOrder(g)
             /\ e = "message" => Unclosed(g) /\ Told(g)
             /\ e = "closed" => ~Told(g)
<1> DEFINE g == Append(h, e)
           n == Len(h)
<1>1. /\ g \in Seq(Event) /\ g # <<>>
      /\ n \in Nat /\ n # 0
      /\ Len(g) = n + 1
      /\ DOMAIN h = 1 .. n /\ DOMAIN g = 1 .. n + 1
      /\ \A k \in 1 .. n : g[k] = h[k]
      /\ g[n + 1] = e
  BY Longer DEF Unclosed
<1>2. \A k \in 1 .. n : (h[k] = "new" <=> k = 1) /\ h[k] # "closed"
  BY <1>1 DEF InOrder, Unclosed
<1> HIDE DEF g, n
<1>3. ASSUME NEW k \in DOMAIN g
      PROVE  /\ g[k] = "new" <=> k = 1
             /\ g[k] = "closed" => k = Len(g)
             /\ e # "closed" => g[k] # "closed"
  <2>1. CASE k = n + 1
    BY <1>1, <2>1
  <2>2. CASE k \in 1 .. n
    BY <1>1, <1>2, <2>2
  <2> QED BY <1>1, <1>3, <2>1, <2>2
<1>4. InOrder(g)
  BY <1>3 DEF InOrder
<1>5. e = "message" => Unclosed(g) /\ Told(g)
  BY <1>1, <1>3 DEF Unclosed, Told
<1>6. e = "closed" => ~Told(g)
  BY <1>1 DEF Told
<1> QED BY <1>1, <1>4, <1>5, <1>6 DEF g

(* A connection not closed has told its listeners something. *)
LEMMA UnclosedIsTold ==
  ASSUME NEW h \in Seq(Event), Unclosed(h)
  PROVE  Told(h)
<1>1. Len(h) \in DOMAIN h
  BY EmptySeq, LenProperties DEF Unclosed
<1> QED BY <1>1 DEF Unclosed, Told

-----------------------------------------------------------------------------
(* A new thread is the next one, which was not started before. *)
LEMMA NewThread ==
  ASSUME TypeOK, NEW d \in Device, NEW states, StartThread(d, states),
         states \in [Conn -> {"unborn", "setup", "announce", "read", "message",
                              "cleanup", "notify", "reconnect", "ended"}],
         \A c \in Conn : states[c] = "unborn" <=> c > threads
  PROVE  /\ threads' \in 0 .. MaxThreads
         /\ device' \in [Conn -> Device \cup {NoDevice}]
         /\ state' \in [Conn -> {"unborn", "setup", "announce", "read", "message",
                                 "cleanup", "notify", "reconnect", "ended"}]
         /\ \A c \in Conn : state'[c] = "unborn" <=> c > threads'
         /\ \A c \in Conn : device'[c] = NoDevice <=> c > threads'
         /\ \A c \in Conn : \/ state'[c] = states[c]
                            \/ state'[c] = "setup" /\ states[c] = "unborn"
<1>1. /\ threads \in Nat /\ MaxThreads \in Nat
      /\ threads < MaxThreads
      /\ threads' = threads + 1
      /\ device' = [device EXCEPT ![threads + 1] = d]
      /\ state' = [states EXCEPT ![threads + 1] = "setup"]
  BY DeviceAssumption DEF StartThread, TypeOK
<1>2. threads + 1 \in Conn
  BY <1>1 DEF Conn
<1>3. threads' \in 0 .. MaxThreads
  BY <1>1
<1>4. device' \in [Conn -> Device \cup {NoDevice}]
  BY <1>1, <1>2 DEF TypeOK
<1>5. state' \in [Conn -> {"unborn", "setup", "announce", "read", "message",
                          "cleanup", "notify", "reconnect", "ended"}]
  BY <1>1, <1>2
<1>6. states[threads + 1] = "unborn"
  BY <1>1, <1>2
<1>7. ASSUME NEW c \in Conn
      PROVE  /\ state'[c] = "unborn" <=> c > threads'
             /\ device'[c] = NoDevice <=> c > threads'
             /\ \/ state'[c] = states[c]
                \/ state'[c] = "setup" /\ states[c] = "unborn"
  <2>1. CASE c = threads + 1
    BY <1>1, <1>2, <1>6, <2>1, DeviceAssumption DEF TypeOK
  <2>2. CASE c # threads + 1
    <3>1. state'[c] = states[c] /\ device'[c] = device[c]
      BY <1>1, <2>2 DEF TypeOK
    <3>2. c > threads <=> c > threads'
      BY <1>1, <2>2 DEF Conn
    <3> QED BY <3>1, <3>2 DEF TypeOK
  <2> QED BY <2>1, <2>2
<1> QED BY <1>3, <1>4, <1>5, <1>7

-----------------------------------------------------------------------------
(* The initial state. *)
LEMMA InitInv == Init => ConnectionInv
<1> SUFFICES ASSUME Init PROVE ConnectionInv
  OBVIOUS
<1>1. TypeOK
  <2>1. \A c \in Conn : c > 0
    BY DeviceAssumption DEF Conn
  <2>4. 0 \in 0 .. MaxThreads
    BY DeviceAssumption
  <2>2. <<>> \in Seq({"new", "message", "closed"})
    OBVIOUS
  <2>3. heard \in [Conn -> Seq({"new", "message", "closed"})]
    BY <2>2 DEF Init
  <2> QED BY <2>1, <2>3, <2>4 DEF Init, TypeOK, Nobody
<1>2. Lives
  <2>1. InOrder(<<>>)
    BY DEF InOrder
  <2> QED BY <2>1 DEF Init, Lives, Life
<1>3. Agreement
  BY DEF Init, Agreement, Told
<1> QED BY <1>1, <1>2, <1>3 DEF ConnectionInv

(* A callback appended to a history keeps the type of the histories. *)
LEMMA TellType ==
  ASSUME TypeOK, NEW c \in Conn, NEW e \in Event, Tell(c, e)
  PROVE  heard' \in [Conn -> Seq(Event)]
<1>1. heard \in [Conn -> Seq(Event)]
  BY DEF TypeOK, Event
<1>2. Append(heard[c], e) \in Seq(Event)
  BY <1>1, Longer
<1> QED BY <1>1, <1>2 DEF Tell

LEMMA StepTypes == TypeOK /\ [Next]_vars => TypeOK'
<1> SUFFICES ASSUME TypeOK, [Next]_vars
             PROVE  TypeOK'
  OBVIOUS
<1>0. UNCHANGED vars => TypeOK'
  BY DEF TypeOK, vars, managerVars, threadVars
<1>1. RequestHalt => TypeOK'
  BY DEF RequestHalt, TypeOK, threadVars, Nobody, ManagerLockFree, SocketLockFree
<1>2. SetupDone => TypeOK'
  BY DEF SetupDone, TypeOK, threadVars, Nobody, ManagerLockFree, SocketLockFree
<1>3. TestHalt => TypeOK'
  BY DEF TestHalt, TypeOK, threadVars, Nobody, ManagerLockFree, SocketLockFree
<1>4. AcceptTimeout => TypeOK'
  BY DEF AcceptTimeout, TypeOK, threadVars, Nobody, ManagerLockFree, SocketLockFree
<1>5. CloseSocket => TypeOK'
  BY DEF CloseSocket, TypeOK, threadVars, Nobody, ManagerLockFree, SocketLockFree
<1>6. ClosedAll => TypeOK'
  BY DEF ClosedAll, TypeOK, threadVars, Nobody, ManagerLockFree, SocketLockFree
<1>7. Collected => TypeOK'
  BY DEF Collected, TypeOK, threadVars, Nobody, ManagerLockFree, SocketLockFree
<1>8. ASSUME NEW d \in Device, StartBonded(d) PROVE TypeOK'
  <2>1. /\ threads' \in 0 .. MaxThreads
        /\ device' \in [Conn -> Device \cup {NoDevice}]
        /\ state' \in [Conn -> {"unborn", "setup", "announce", "read", "message",
                                "cleanup", "notify", "reconnect", "ended"}]
        /\ \A c \in Conn : state'[c] = "unborn" <=> c > threads'
        /\ \A c \in Conn : device'[c] = NoDevice <=> c > threads'
    BY <1>8, NewThread DEF StartBonded, TypeOK
  <2> QED BY <1>8, <2>1 DEF StartBonded, TypeOK
<1>9. ASSUME NEW d \in Device, Accept(d) PROVE TypeOK'
  <2>1. /\ threads' \in 0 .. MaxThreads
        /\ device' \in [Conn -> Device \cup {NoDevice}]
        /\ state' \in [Conn -> {"unborn", "setup", "announce", "read", "message",
                                "cleanup", "notify", "reconnect", "ended"}]
        /\ \A c \in Conn : state'[c] = "unborn" <=> c > threads'
        /\ \A c \in Conn : device'[c] = NoDevice <=> c > threads'
    BY <1>9, NewThread DEF Accept, TypeOK
  <2> QED BY <1>9, <2>1 DEF Accept, TypeOK
<1>10. ASSUME NEW c \in Conn, CloseNext(c) PROVE TypeOK'
  BY <1>10 DEF CloseNext, TypeOK, managerVars, threadVars, Nobody
<1>11. ASSUME NEW c \in Conn, Connect(c) PROVE TypeOK'
  BY <1>11 DEF Connect, TypeOK, managerVars, threadVars, Nobody
<1>12. ASSUME NEW c \in Conn, ConnectFails(c) PROVE TypeOK'
  BY <1>12 DEF ConnectFails, TypeOK, managerVars, threadVars, Nobody
<1>13. ASSUME NEW c \in Conn, Announce(c) PROVE TypeOK'
  <2>1. heard' \in [Conn -> Seq({"new", "message", "closed"})]
    <3>1. CASE UNCHANGED heard
      BY <3>1 DEF TypeOK
    <3>2. CASE Tell(c, "new")
      BY <3>2, TellType DEF Event
    <3> QED BY <1>13, <3>1, <3>2 DEF Announce
  <2>2. /\ active' \subseteq Conn
        /\ toClose' \subseteq active' /\ closing' \in toClose' \cup {Nobody}
    BY <1>13 DEF Announce, TypeOK, managerVars, ManagerLockFree
  <2> QED BY <1>13, <2>1, <2>2 DEF Announce, TypeOK, managerVars
<1>14. ASSUME NEW c \in Conn, LinkBreaks(c) PROVE TypeOK'
  BY <1>14 DEF LinkBreaks, TypeOK, managerVars, threadVars, Nobody
<1>15. ASSUME NEW c \in Conn, ReadMessage(c) PROVE TypeOK'
  BY <1>15 DEF ReadMessage, TypeOK, managerVars, threadVars, Nobody
<1>16. ASSUME NEW c \in Conn, HandOn(c) PROVE TypeOK'
  <2>1. heard' \in [Conn -> Seq({"new", "message", "closed"})]
    <3>1. CASE UNCHANGED heard
      BY <3>1 DEF TypeOK
    <3>2. CASE Tell(c, "message")
      BY <3>2, TellType DEF Event
    <3> QED BY <1>16, <3>1, <3>2 DEF HandOn
  <2>2. /\ active' \subseteq Conn
        /\ toClose' \subseteq active' /\ closing' \in toClose' \cup {Nobody}
    BY <1>16 DEF HandOn, TypeOK, managerVars, ManagerLockFree
  <2> QED BY <1>16, <2>1, <2>2 DEF HandOn, TypeOK, managerVars
<1>17. ASSUME NEW c \in Conn, ReadFails(c) PROVE TypeOK'
  BY <1>17 DEF ReadFails, TypeOK, managerVars, threadVars, Nobody
<1>18. ASSUME NEW c \in Conn, Cleanup(c) PROVE TypeOK'
  BY <1>18 DEF Cleanup, TypeOK, managerVars, threadVars, Nobody
<1>19. ASSUME NEW c \in Conn, Notify(c) PROVE TypeOK'
  <2>1. heard' \in [Conn -> Seq({"new", "message", "closed"})]
    <3>1. CASE UNCHANGED heard
      BY <3>1 DEF TypeOK
    <3>2. CASE Tell(c, "closed")
      BY <3>2, TellType DEF Event
    <3> QED BY <1>19, <3>1, <3>2 DEF Notify
  <2>2. /\ active' \subseteq Conn
        /\ toClose' \subseteq active' /\ closing' \in toClose' \cup {Nobody}
    BY <1>19 DEF Notify, TypeOK, managerVars, ManagerLockFree
  <2> QED BY <1>19, <2>1, <2>2 DEF Notify, TypeOK, managerVars
<1>20. ASSUME NEW c \in Conn, Reconnect(c) PROVE TypeOK'
  <2> DEFINE states == [state EXCEPT ![c] = "ended"]
  <2>1. /\ StartThread(device[c], states)
        /\ device[c] \in Device
        /\ states \in [Conn -> {"unborn", "setup", "announce", "read", "message",
                                "cleanup", "notify", "reconnect", "ended"}]
        /\ \A e \in Conn : states[e] = "unborn" <=> e > threads
    BY <1>20 DEF Reconnect, TypeOK
  <2> HIDE DEF states
  <2>2. /\ threads' \in 0 .. MaxThreads
        /\ device' \in [Conn -> Device \cup {NoDevice}]
        /\ state' \in [Conn -> {"unborn", "setup", "announce", "read", "message",
                                "cleanup", "notify", "reconnect", "ended"}]
        /\ \A e \in Conn : state'[e] = "unborn" <=> e > threads'
        /\ \A e \in Conn : device'[e] = NoDevice <=> e > threads'
    BY <2>1, NewThread
  <2> QED BY <1>20, <2>2 DEF Reconnect, TypeOK, managerVars
<1> QED BY <1>0, <1>1, <1>2, <1>3, <1>4, <1>5, <1>6, <1>7, <1>8, <1>9, <1>10, <1>11,
           <1>12, <1>13, <1>14, <1>15, <1>16, <1>17, <1>18, <1>19, <1>20 DEF Next,
           Manager, Thread

-----------------------------------------------------------------------------
(* A thread that does not move, while the manager is neither made nor lost. *)
LEMMA LifeElsewhere ==
  ASSUME Lives, NEW e \in Conn, mgr' = "collected" <=> mgr = "collected",
         state'[e] = state[e], connected'[e] = connected[e], heard'[e] = heard[e]
  PROVE  Life(state'[e], connected'[e], heard'[e], mgr')
BY DEF Lives, Life, Served

(* A thread that is started, or none of whose steps was taken. *)
LEMMA LifeOfNew ==
  ASSUME Lives, NEW e \in Conn, mgr' = mgr,
         connected'[e] = connected[e], heard'[e] = heard[e],
         \/ state'[e] = state[e]
         \/ state'[e] = "setup" /\ state[e] = "unborn"
  PROVE  Life(state'[e], connected'[e], heard'[e], mgr')
BY DEF Lives, Life, Served

LEMMA StepLives == TypeOK /\ Lives /\ [Next]_vars => Lives'
<1> SUFFICES ASSUME TypeOK, Lives, [Next]_vars
             PROVE  Lives'
  OBVIOUS
<1>1. CASE UNCHANGED <<threadVars, connected, heard>> /\ (mgr' = "collected" <=> mgr = "collected")
  BY <1>1, LifeElsewhere DEF Lives, threadVars
<1>2. CASE Collected
  BY <1>2 DEF Collected, Lives, Life, Served, threadVars, SocketLockFree
<1>3. CASE RequestHalt \/ SetupDone \/ TestHalt \/ AcceptTimeout \/ CloseSocket \/ ClosedAll
           \/ UNCHANGED vars
  <2>1. UNCHANGED <<threadVars, connected, heard>>
    BY <1>3 DEF RequestHalt, SetupDone, TestHalt, AcceptTimeout, CloseSocket, ClosedAll, vars
  <2>2. mgr' = "collected" <=> mgr = "collected"
    BY <1>3 DEF RequestHalt, SetupDone, TestHalt, AcceptTimeout, CloseSocket, ClosedAll,
                vars, managerVars
  <2> QED BY <1>1, <2>1, <2>2
<1>4. ASSUME NEW d \in Device, StartBonded(d) \/ Accept(d)
      PROVE  Lives'
  <2>1. /\ StartThread(d, state)
        /\ UNCHANGED <<connected, heard>>
        /\ mgr' = "collected" <=> mgr = "collected"
    BY <1>4 DEF StartBonded, Accept
  <2>2. \A e \in Conn : state'[e] = state[e] \/ (state'[e] = "setup" /\ state[e] = "unborn")
    BY <2>1, NewThread DEF TypeOK
  <2>3. ASSUME NEW e \in Conn PROVE Life(state'[e], connected'[e], heard'[e], mgr')
    BY <2>1, <2>2 DEF Lives, Life, Served
  <2> QED BY <2>3 DEF Lives
<1>5. ASSUME NEW c \in Conn, CloseNext(c) \/ LinkBreaks(c)
      PROVE  Lives'
  BY <1>1, <1>5 DEF CloseNext, LinkBreaks, managerVars
<1>6. ASSUME NEW c \in Conn, Connect(c) PROVE Lives'
  <2>1. ASSUME NEW e \in Conn, e # c
        PROVE  Life(state'[e], connected'[e], heard'[e], mgr')
    <3>1. /\ state'[e] = state[e] /\ connected'[e] = connected[e]
          /\ heard'[e] = heard[e] /\ mgr' = mgr
      BY <1>6, <2>1 DEF Connect, Tell, TypeOK, managerVars
    <3> QED BY <3>1, LifeElsewhere
  <2>2. Life(state'[c], connected'[c], heard'[c], mgr')
    <3>1. Life(state[c], connected[c], heard[c], mgr)
      BY DEF Lives
    <3> QED BY <1>6, <3>1 DEF Connect, Life, Served, TypeOK, managerVars
  <2> QED BY <2>1, <2>2 DEF Lives
<1>7. ASSUME NEW c \in Conn, ConnectFails(c) PROVE Lives'
  <2>1. ASSUME NEW e \in Conn, e # c
        PROVE  Life(state'[e], connected'[e], heard'[e], mgr')
    <3>1. /\ state'[e] = state[e] /\ connected'[e] = connected[e]
          /\ heard'[e] = heard[e] /\ mgr' = mgr
      BY <1>7, <2>1 DEF ConnectFails, Tell, TypeOK, managerVars
    <3> QED BY <3>1, LifeElsewhere
  <2>2. Life(state'[c], connected'[c], heard'[c], mgr')
    <3>1. Life(state[c], connected[c], heard[c], mgr)
      BY DEF Lives
    <3> QED BY <1>7, <3>1 DEF ConnectFails, Life, Served, TypeOK, managerVars
  <2> QED BY <2>1, <2>2 DEF Lives
<1>8. ASSUME NEW c \in Conn, ReadMessage(c) PROVE Lives'
  <2>1. ASSUME NEW e \in Conn, e # c
        PROVE  Life(state'[e], connected'[e], heard'[e], mgr')
    <3>1. /\ state'[e] = state[e] /\ connected'[e] = connected[e]
          /\ heard'[e] = heard[e] /\ mgr' = mgr
      BY <1>8, <2>1 DEF ReadMessage, Tell, TypeOK, managerVars
    <3> QED BY <3>1, LifeElsewhere
  <2>2. Life(state'[c], connected'[c], heard'[c], mgr')
    <3>1. Life(state[c], connected[c], heard[c], mgr)
      BY DEF Lives
    <3> QED BY <1>8, <3>1 DEF ReadMessage, Life, Served, TypeOK, managerVars
  <2> QED BY <2>1, <2>2 DEF Lives
<1>9. ASSUME NEW c \in Conn, ReadFails(c) PROVE Lives'
  <2>1. ASSUME NEW e \in Conn, e # c
        PROVE  Life(state'[e], connected'[e], heard'[e], mgr')
    <3>1. /\ state'[e] = state[e] /\ connected'[e] = connected[e]
          /\ heard'[e] = heard[e] /\ mgr' = mgr
      BY <1>9, <2>1 DEF ReadFails, Tell, TypeOK, managerVars
    <3> QED BY <3>1, LifeElsewhere
  <2>2. Life(state'[c], connected'[c], heard'[c], mgr')
    <3>1. Life(state[c], connected[c], heard[c], mgr)
      BY DEF Lives
    <3> QED BY <1>9, <3>1 DEF ReadFails, Life, Served, TypeOK, managerVars
  <2> QED BY <2>1, <2>2 DEF Lives
<1>10. ASSUME NEW c \in Conn, Cleanup(c) PROVE Lives'
  <2>1. ASSUME NEW e \in Conn, e # c
        PROVE  Life(state'[e], connected'[e], heard'[e], mgr')
    <3>1. /\ state'[e] = state[e] /\ connected'[e] = connected[e]
          /\ heard'[e] = heard[e] /\ mgr' = mgr
      BY <1>10, <2>1 DEF Cleanup, Tell, TypeOK, managerVars
    <3> QED BY <3>1, LifeElsewhere
  <2>2. Life(state'[c], connected'[c], heard'[c], mgr')
    <3>1. /\ heard'[c] = heard[c] /\ mgr' = mgr /\ connected'[c] = connected[c]
          /\ state'[c] = IF mgr = "collected" THEN "ended"
                         ELSE IF connected[c] THEN "notify" ELSE "reconnect"
          /\ state[c] = "cleanup" /\ heard[c] \in Seq(Event)
      BY <1>10 DEF Cleanup, TypeOK, managerVars, Event
    <3>2. /\ InOrder(heard[c])
          /\ \/ connected[c] = TRUE /\ Served(heard[c], mgr)
             \/ connected[c] = FALSE /\ heard[c] = <<>>
      BY <3>1 DEF Lives, Life
    <3>3. CASE mgr = "collected"
      BY <3>1, <3>2, <3>3 DEF Life
    <3>4. CASE mgr # "collected" /\ connected[c] = TRUE
      <4>1. state'[c] = "notify" /\ Unclosed(heard[c])
        BY <3>1, <3>2, <3>4 DEF Served
      <4> QED BY <3>1, <3>2, <3>4, <4>1 DEF Life
    <3>5. CASE mgr # "collected" /\ connected[c] = FALSE
      <4>1. state'[c] = "reconnect" /\ ~Told(heard[c])
        BY <3>1, <3>2, <3>5 DEF Told
      <4> QED BY <3>1, <3>2, <3>5, <4>1 DEF Life
    <3> QED BY <3>2, <3>3, <3>4, <3>5
  <2> QED BY <2>1, <2>2 DEF Lives
<1>11. ASSUME NEW c \in Conn, Announce(c) PROVE Lives'
  <2>1. ASSUME NEW e \in Conn, e # c
        PROVE  Life(state'[e], connected'[e], heard'[e], mgr')
    <3>1. /\ state'[e] = state[e] /\ connected'[e] = connected[e]
          /\ heard'[e] = heard[e] /\ mgr' = mgr
      BY <1>11, <2>1 DEF Announce, Tell, TypeOK, managerVars
    <3> QED BY <3>1, LifeElsewhere
  <2>2. Life(state'[c], connected'[c], heard'[c], mgr')
    <3>1. /\ heard[c] = <<>> /\ connected'[c] = TRUE
          /\ state'[c] = "read" /\ mgr' = mgr
      BY <1>11 DEF Announce, Lives, Life, TypeOK, managerVars
    <3>2. CASE mgr = "collected"
      <4>1. heard' = heard
        BY <1>11, <3>2 DEF Announce
      <4> QED BY <3>1, <3>2, <4>1 DEF Lives, Life, Served
    <3>3. CASE mgr # "collected"
      <4>1. heard'[c] = Append(<<>>, "new")
        BY <1>11, <3>1, <3>3 DEF Announce, Tell, TypeOK
      <4> QED BY <3>1, <4>1, FirstCallback DEF Life, Served
    <3> QED BY <3>2, <3>3
  <2> QED BY <2>1, <2>2 DEF Lives
<1>12. ASSUME NEW c \in Conn, HandOn(c) PROVE Lives'
  <2>1. ASSUME NEW e \in Conn, e # c
        PROVE  Life(state'[e], connected'[e], heard'[e], mgr')
    <3>1. /\ state'[e] = state[e] /\ connected'[e] = connected[e]
          /\ heard'[e] = heard[e] /\ mgr' = mgr
      BY <1>12, <2>1 DEF HandOn, Tell, TypeOK, managerVars
    <3> QED BY <3>1, LifeElsewhere
  <2>2. Life(state'[c], connected'[c], heard'[c], mgr')
    <3>1. /\ Served(heard[c], mgr) /\ InOrder(heard[c]) /\ connected'[c] = TRUE
          /\ state'[c] = "read" /\ mgr' = mgr
      BY <1>12 DEF HandOn, Lives, Life, TypeOK, managerVars
    <3>2. CASE mgr = "collected"
      <4>1. heard' = heard
        BY <1>12, <3>2 DEF HandOn
      <4> QED BY <3>1, <4>1 DEF Life
    <3>3. CASE mgr # "collected"
      <4>1. heard'[c] = Append(heard[c], "message") /\ heard[c] \in Seq(Event)
        BY <1>12, <3>3 DEF HandOn, Tell, TypeOK, Event
      <4>2. Unclosed(heard[c])
        BY <3>1, <3>3 DEF Served
      <4>3. InOrder(heard'[c]) /\ Unclosed(heard'[c])
        BY <3>1, <4>1, <4>2, NextCallback DEF Event
      <4> QED BY <3>1, <4>3 DEF Life, Served
    <3> QED BY <3>2, <3>3
  <2> QED BY <2>1, <2>2 DEF Lives
<1>13. ASSUME NEW c \in Conn, Notify(c) PROVE Lives'
  <2>1. ASSUME NEW e \in Conn, e # c
        PROVE  Life(state'[e], connected'[e], heard'[e], mgr')
    <3>1. /\ state'[e] = state[e] /\ connected'[e] = connected[e]
          /\ heard'[e] = heard[e] /\ mgr' = mgr
      BY <1>13, <2>1 DEF Notify, Tell, TypeOK, managerVars
    <3> QED BY <3>1, LifeElsewhere
  <2>2. Life(state'[c], connected'[c], heard'[c], mgr')
    <3>1. /\ Unclosed(heard[c]) /\ InOrder(heard[c]) /\ mgr # "collected"
          /\ state'[c] = "reconnect" /\ mgr' = mgr
      BY <1>13 DEF Notify, Lives, Life, TypeOK, managerVars
    <3>2. heard'[c] = Append(heard[c], "closed") /\ heard[c] \in Seq(Event)
      BY <1>13 DEF Notify, Tell, TypeOK, Event
    <3>3. InOrder(heard'[c]) /\ ~Told(heard'[c])
      BY <3>1, <3>2, NextCallback DEF Event
    <3> QED BY <3>1, <3>3 DEF Life
  <2> QED BY <2>1, <2>2 DEF Lives
<1>14. ASSUME NEW c \in Conn, Reconnect(c) PROVE Lives'
  <2> DEFINE states == [state EXCEPT ![c] = "ended"]
  <2>1. /\ StartThread(device[c], states)
        /\ states[c] = "ended" /\ \A e \in Conn \ {c} : states[e] = state[e]
        /\ device[c] \in Device
        /\ states \in [Conn -> {"unborn", "setup", "announce", "read", "message",
                                "cleanup", "notify", "reconnect", "ended"}]
        /\ \A e \in Conn : states[e] = "unborn" <=> e > threads
        /\ heard' = heard /\ mgr' = mgr
        /\ \A e \in Conn \ {c} : connected'[e] = connected[e]
    BY <1>14 DEF Reconnect, TypeOK, managerVars
  <2> HIDE DEF states
  <2>2. \A e \in Conn : \/ state'[e] = states[e]
                        \/ state'[e] = "setup" /\ states[e] = "unborn"
    BY <2>1, NewThread
  <2>3. ASSUME NEW e \in Conn, e # c
        PROVE  Life(state'[e], connected'[e], heard'[e], mgr')
    BY <2>1, <2>2, <2>3, LifeOfNew
  <2>4. Life(state'[c], connected'[c], heard'[c], mgr')
    <3>1. state'[c] = "ended" /\ InOrder(heard'[c])
      BY <2>1, <2>2 DEF Lives, Life
    <3> QED BY <3>1 DEF Life
  <2> QED BY <2>3, <2>4 DEF Lives
<1> QED BY <1>2, <1>3, <1>4, <1>5, <1>6, <1>7, <1>8, <1>9, <1>10, <1>11, <1>12,
           <1>13, <1>14 DEF Next, Manager, Thread

-----------------------------------------------------------------------------
LEMMA StepAgrees == ConnectionInv /\ [Next]_vars => Agreement'
<1> SUFFICES ASSUME TypeOK, Lives, Agreement, [Next]_vars, mgr' \notin {"done", "collected"}
             PROVE  \A c \in Conn : /\ c \in active' <=> Told(heard'[c])
                                    /\ c \in active' => connected'[c] = TRUE
  BY DEF ConnectionInv, Agreement
<1>1. mgr \notin {"done", "collected"}
  BY DEF Next, Manager, Thread, vars, managerVars, RequestHalt, SetupDone, TestHalt,
         AcceptTimeout, CloseSocket, ClosedAll, Collected, StartBonded, Accept, CloseNext,
         Connect, ConnectFails, Announce, LinkBreaks, ReadMessage, HandOn, ReadFails, Cleanup,
         Notify, Reconnect
<1>2. \A c \in Conn : /\ c \in active <=> Told(heard[c])
                      /\ c \in active => connected[c] = TRUE
  BY <1>1 DEF Agreement
<1>3. CASE UNCHANGED <<active, heard, connected>>
  BY <1>2, <1>3
<1>4. ASSUME NEW c \in Conn, Connect(c)
      PROVE  \A e \in Conn : /\ e \in active' <=> Told(heard'[e])
                             /\ e \in active' => connected'[e] = TRUE
  BY <1>2, <1>4 DEF Connect, TypeOK
<1>5. ASSUME NEW c \in Conn, Announce(c)
      PROVE  \A e \in Conn : /\ e \in active' <=> Told(heard'[e])
                             /\ e \in active' => connected'[e] = TRUE
  <2>1. /\ heard[c] = <<>> /\ connected[c] = TRUE
        /\ connected' = connected /\ active' = active \cup {c}
        /\ heard' = [heard EXCEPT ![c] = Append(heard[c], "new")]
    BY <1>1, <1>5 DEF Announce, Tell, Lives, Life
  <2>2. Told(heard'[c])
    BY <2>1, FirstCallback DEF TypeOK
  <2>3. \A e \in Conn \ {c} : heard'[e] = heard[e]
    BY <2>1 DEF TypeOK
  <2> QED BY <1>2, <2>1, <2>2, <2>3
<1>6. ASSUME NEW c \in Conn, HandOn(c)
      PROVE  \A e \in Conn : /\ e \in active' <=> Told(heard'[e])
                             /\ e \in active' => connected'[e] = TRUE
  <2>1. /\ Served(heard[c], mgr) /\ InOrder(heard[c])
        /\ UNCHANGED <<connected, active>>
        /\ heard' = [heard EXCEPT ![c] = Append(heard[c], "message")]
        /\ heard[c] \in Seq(Event)
    BY <1>1, <1>6 DEF HandOn, Tell, Lives, Life, TypeOK, Event
  <2>2. Unclosed(heard[c])
    BY <1>1, <2>1 DEF Served
  <2>3. Told(heard[c])
    BY <2>1, <2>2, UnclosedIsTold
  <2>4. Told(Append(heard[c], "message"))
    BY <2>1, <2>2, NextCallback DEF Event
  <2>5. heard'[c] = Append(heard[c], "message") /\ \A e \in Conn \ {c} : heard'[e] = heard[e]
    BY <2>1 DEF TypeOK
  <2> QED BY <1>2, <2>1, <2>3, <2>4, <2>5
<1>7. ASSUME NEW c \in Conn, Notify(c)
      PROVE  \A e \in Conn : /\ e \in active' <=> Told(heard'[e])
                             /\ e \in active' => connected'[e] = TRUE
  <2>1. /\ Unclosed(heard[c]) /\ InOrder(heard[c])
        /\ connected' = connected /\ active' = active \ {c}
        /\ heard' = [heard EXCEPT ![c] = Append(heard[c], "closed")]
        /\ heard[c] \in Seq(Event)
    BY <1>7 DEF Notify, Tell, Lives, Life, TypeOK, Event
  <2>2. ~Told(Append(heard[c], "closed"))
    BY <2>1, NextCallback DEF Event
  <2>3. heard'[c] = Append(heard[c], "closed") /\ \A e \in Conn \ {c} : heard'[e] = heard[e]
    BY <2>1 DEF TypeOK
  <2> QED BY <1>2, <2>1, <2>2, <2>3
<1>8. ASSUME NEW c \in Conn, Reconnect(c)
      PROVE  \A e \in Conn : /\ e \in active' <=> Told(heard'[e])
                             /\ e \in active' => connected'[e] = TRUE
  <2>1. ~Told(heard[c]) /\ UNCHANGED <<active, heard>>
    BY <1>8 DEF Reconnect, Lives, Life
  <2>2. \A e \in Conn \ {c} : connected'[e] = connected[e]
    BY <1>8 DEF Reconnect, TypeOK
  <2> QED BY <1>2, <2>1, <2>2
<1>9. RequestHalt \/ SetupDone \/ TestHalt \/ AcceptTimeout \/ CloseSocket \/ Collected
        => UNCHANGED <<active, heard, connected>>
  BY DEF RequestHalt, SetupDone, TestHalt, AcceptTimeout, CloseSocket, Collected
<1>10. ASSUME NEW d \in Device, StartBonded(d) \/ Accept(d)
       PROVE  UNCHANGED <<active, heard, connected>>
  BY <1>10 DEF StartBonded, Accept
<1>11. ASSUME NEW c \in Conn,
              \/ CloseNext(c) \/ ConnectFails(c) \/ LinkBreaks(c) \/ ReadMessage(c)
              \/ ReadFails(c) \/ Cleanup(c)
       PROVE  UNCHANGED <<active, heard, connected>>
  BY <1>11 DEF CloseNext, ConnectFails, LinkBreaks, ReadMessage, ReadFails, Cleanup
<1>12. ~ClosedAll
  BY DEF ClosedAll
<1>13. UNCHANGED vars => UNCHANGED <<active, heard, connected>>
  BY DEF vars
<1> QED BY <1>3, <1>4, <1>5, <1>6, <1>7, <1>8, <1>9, <1>10, <1>11, <1>12, <1>13
        DEF Next, Manager, Thread

LEMMA InvCorrect == Spec => []ConnectionInv
<1>1. ConnectionInv /\ [Next]_vars => ConnectionInv'
  BY StepTypes, StepLives, StepAgrees DEF ConnectionInv
<1> QED BY InitInv, <1>1, PTL DEF Spec

(***************************************************************************)
(* Type correctness; TypeOK also says that the threads started so far are  *)
(* those with a device.                                                    *)
(***************************************************************************)
THEOREM TypeCorrect == Spec => []TypeOK
<1>1. ConnectionInv => TypeOK
  BY DEF ConnectionInv
<1> QED BY <1>1, InvCorrect, PTL

(* A connection that is served, or closing, is one the contract calls live. *)
LEMMA ServedIsLive ==
  ASSUME ConnectionInv, NEW c \in Conn, Unclosed(heard[c])
  PROVE  Contract!Live(c)
<1>1. heard[c] \in Seq(Event)
  BY DEF ConnectionInv, TypeOK, Event
<1>2. Told(heard[c])
  BY <1>1, UnclosedIsTold
<1> QED BY <1>2 DEF Told, Unclosed, Contract!Live

(* The three steps that tell the listeners something are those of the       *)
(* contract; every other step stutters.                                     *)
LEMMA StepIsInContract == ConnectionInv /\ [Next]_vars => [Contract!Next]_heard
<1> SUFFICES ASSUME ConnectionInv, [Next]_vars, ~UNCHANGED heard
             PROVE  Contract!Next
  OBVIOUS
<1>1. ASSUME NEW c \in Conn, Announce(c) PROVE Contract!Next
  <2>1. heard[c] = <<>> /\ Tell(c, "new")
    BY <1>1 DEF Announce, ConnectionInv, Lives, Life
  <2>2. Contract!New(c)
    BY <2>1 DEF Tell, Contract!New, Contract!Told
  <2> QED BY <2>2 DEF Contract!Next
<1>2. ASSUME NEW c \in Conn, HandOn(c) PROVE Contract!Next
  <2>1. Unclosed(heard[c]) /\ Tell(c, "message")
    BY <1>2 DEF HandOn, ConnectionInv, Lives, Life, Served
  <2>2. Contract!Message(c)
    BY <2>1, ServedIsLive DEF Tell, Contract!Message, Contract!Told
  <2> QED BY <2>2 DEF Contract!Next
<1>3. ASSUME NEW c \in Conn, Notify(c) PROVE Contract!Next
  <2>1. Unclosed(heard[c]) /\ Tell(c, "closed")
    BY <1>3 DEF Notify, ConnectionInv, Lives, Life
  <2>2. Contract!Closed(c)
    BY <2>1, ServedIsLive DEF Tell, Contract!Closed, Contract!Told
  <2> QED BY <2>2 DEF Contract!Next
<1>4. ~(RequestHalt \/ SetupDone \/ TestHalt \/ AcceptTimeout \/ CloseSocket \/ ClosedAll
        \/ Collected \/ UNCHANGED vars)
  BY DEF RequestHalt, SetupDone, TestHalt, AcceptTimeout, CloseSocket, ClosedAll, Collected,
         vars
<1>5. \A d \in Device : ~StartBonded(d) /\ ~Accept(d)
  BY DEF StartBonded, Accept
<1>6. \A c \in Conn : /\ ~CloseNext(c) /\ ~Connect(c) /\ ~ConnectFails(c) /\ ~LinkBreaks(c)
                      /\ ~ReadMessage(c) /\ ~ReadFails(c) /\ ~Cleanup(c) /\ ~Reconnect(c)
  BY DEF CloseNext, Connect, ConnectFails, LinkBreaks, ReadMessage, ReadFails, Cleanup,
         Reconnect
<1> QED BY <1>1, <1>2, <1>3, <1>4, <1>5, <1>6 DEF Next, Manager, Thread

(***************************************************************************)
(* Refinement: whatever the threads do, the listeners hear of a connection *)
(* what ConnectionEvents promises, and in that order                       *)
(* (BluetoothConnectionThread.java:151-154, 214-216, 253-266).             *)
(***************************************************************************)
THEOREM CallbacksCorrect == Spec => CallbacksInOrder
<1>1. Init => Contract!Init
  BY DEF Init, Contract!Init
<1>2. ConnectionInv /\ [Next]_vars => [Contract!Next]_heard
  BY StepIsInContract
<1> QED BY <1>1, <1>2, InvCorrect, PTL DEF Spec, Contract!Spec, CallbacksInOrder

(***************************************************************************)
(* Until it is halted the manager's list is what its listeners were told,  *)
(* and every connection in it is connected                                 *)
(* (BaseConnectionMgr.java:57-67, 148-172).                                *)
(***************************************************************************)
THEOREM ListenersCorrect == Spec => []ListenersAgree
<1>1. ConnectionInv => ListenersAgree
  <2> SUFFICES ASSUME TypeOK, Agreement, mgr \notin {"done", "collected"}
               PROVE  active = Announced /\ \A c \in active : connected[c]
    BY DEF ConnectionInv, ListenersAgree
  <2>1. active \subseteq Conn
    BY DEF TypeOK
  <2>2. \A c \in Conn : (c \in active <=> Told(heard[c])) /\ (c \in active => connected[c] = TRUE)
    BY DEF Agreement
  <2> QED BY <2>1, <2>2 DEF Announced, Told
<1> QED BY <1>1, InvCorrect, PTL
-----------------------------------------------------------------------------
Working == {e \in Conn : state[e] \notin {"unborn", "ended"}}

(* A thread that starts is a new one, for the device it is started for. *)
LEMMA StartedFor ==
  ASSUME TypeOK, NEW d, NEW states, DOMAIN states = Conn, StartThread(d, states)
  PROVE  \E n \in Conn : /\ state[n] = "unborn" /\ state'[n] = "setup" /\ device'[n] = d
                         /\ \A c \in Conn \ {n} : /\ device'[c] = device[c]
                                                  /\ state'[c] = states[c]
<1>1. threads + 1 \in Conn /\ threads + 1 > threads
  BY DeviceAssumption DEF StartThread, TypeOK, Conn
<1>2. state[threads + 1] = "unborn"
  BY <1>1 DEF TypeOK
<1> QED BY <1>1, <1>2 DEF StartThread, TypeOK

(* Only the thread that starts the next one for its device stops working. *)
LEMMA StillWorking ==
  ASSUME TypeOK, [Next]_vars, mgr' # "collected"
  PROVE  \/ /\ device' = device
            /\ \A e \in Conn : state'[e] # state[e] =>
                  state[e] # "unborn" /\ state'[e] \notin {"unborn", "ended"}
         \/ \E d \in Device : StartThread(d, state)
         \/ \E e \in Conn : state[e] = "reconnect" /\
                            StartThread(device[e], [state EXCEPT ![e] = "ended"])
<1>1. CASE UNCHANGED threadVars
  BY <1>1 DEF threadVars
<1>2. ASSUME NEW d \in Device, StartBonded(d) \/ Accept(d)
      PROVE  StartThread(d, state)
  BY <1>2 DEF StartBonded, Accept
<1>3. ASSUME NEW c \in Conn, Reconnect(c)
      PROVE  state[c] = "reconnect" /\ StartThread(device[c], [state EXCEPT ![c] = "ended"])
  BY <1>3 DEF Reconnect
<1>4. ASSUME NEW c \in Conn,
             \/ Connect(c) \/ ConnectFails(c) \/ Announce(c) \/ ReadMessage(c) \/ HandOn(c)
             \/ ReadFails(c) \/ Cleanup(c) \/ Notify(c)
      PROVE  /\ device' = device
             /\ \A e \in Conn : state'[e] # state[e] =>
                   state[e] # "unborn" /\ state'[e] \notin {"unborn", "ended"}
  <2>1. \E s \in {"announce", "cleanup", "read", "message", "notify", "reconnect"} :
           device' = device /\ state' = [state EXCEPT ![c] = s]
    BY <1>4 DEF Connect, ConnectFails, Announce, ReadMessage, HandOn, ReadFails, Cleanup,
                Notify, managerVars
  <2>2. state[c] # "unborn"
    BY <1>4 DEF Connect, ConnectFails, Announce, ReadMessage, HandOn, ReadFails, Cleanup, Notify
  <2> QED BY <2>1, <2>2 DEF TypeOK
<1>5. ASSUME NEW c \in Conn, CloseNext(c) \/ LinkBreaks(c) PROVE UNCHANGED threadVars
  BY <1>5 DEF CloseNext, LinkBreaks
<1>6. ASSUME \/ RequestHalt \/ Collected \/ SetupDone \/ TestHalt \/ AcceptTimeout
             \/ CloseSocket \/ ClosedAll \/ UNCHANGED vars
      PROVE  UNCHANGED threadVars
  BY <1>6 DEF RequestHalt, Collected, SetupDone, TestHalt, AcceptTimeout, CloseSocket, ClosedAll,
         vars
<1> QED BY <1>1, <1>2, <1>3, <1>4, <1>5, <1>6 DEF Next, Manager, Thread

(***************************************************************************)
(* As long as there is a manager, some thread works for every device that  *)
(* was ever served, whichever of them fails, closes or is told to halt     *)
(* (BluetoothConnectionThread.java:253-259).                               *)
(***************************************************************************)
THEOREM DevicesKept == Spec => []DeviceNotGivenUp
<1>1. Init => DeviceNotGivenUp
  BY DEF Init, DeviceNotGivenUp
<1>2. TypeOK /\ DeviceNotGivenUp /\ [Next]_vars => DeviceNotGivenUp'
  <2> SUFFICES ASSUME TypeOK, DeviceNotGivenUp, [Next]_vars, mgr' # "collected",
                      NEW c \in Conn, state'[c] # "unborn"
               PROVE  \E e \in Conn : device'[e] = device'[c]
                                      /\ state'[e] \notin {"unborn", "ended"}
    BY DEF DeviceNotGivenUp
  <2>1. mgr # "collected"
    BY DEF Next, Manager, Thread, vars, managerVars, RequestHalt, SetupDone, TestHalt,
           AcceptTimeout, CloseSocket, ClosedAll, Collected, StartBonded, Accept, CloseNext,
           Connect, ConnectFails, Announce, LinkBreaks, ReadMessage, HandOn, ReadFails,
           Cleanup, Notify, Reconnect
  <2>2. ASSUME state[c] # "unborn"
        PROVE  \E e \in Working : device[e] = device[c]
    BY <2>1, <2>2 DEF DeviceNotGivenUp, Working
  <2>3. CASE /\ device' = device
             /\ \A e \in Conn : state'[e] # state[e] =>
                   state[e] # "unborn" /\ state'[e] \notin {"unborn", "ended"}
    BY <2>2, <2>3 DEF Working
  <2>4. ASSUME NEW d \in Device, StartThread(d, state)
        PROVE  \E e \in Conn : device'[e] = device'[c]
                               /\ state'[e] \notin {"unborn", "ended"}
    <3>1. PICK n \in Conn :
             /\ state[n] = "unborn" /\ state'[n] = "setup" /\ device'[n] = d
             /\ \A e \in Conn \ {n} : device'[e] = device[e] /\ state'[e] = state[e]
      <4>1. DOMAIN state = Conn
        BY DEF TypeOK
      <4> QED BY <2>4, <4>1, StartedFor
    <3>2. CASE c = n
      BY <3>1, <3>2
    <3>3. CASE c # n
      <4>1. PICK e \in Working : device[e] = device[c]
        BY <2>2, <3>1, <3>3
      <4>2. e \in Conn \ {n}
        BY <3>1 DEF Working
      <4> QED BY <3>1, <3>3, <4>1, <4>2 DEF Working
    <3> QED BY <3>2, <3>3
  <2>5. ASSUME NEW r \in Conn, state[r] = "reconnect",
               StartThread(device[r], [state EXCEPT ![r] = "ended"])
        PROVE  \E e \in Conn : device'[e] = device'[c]
                               /\ state'[e] \notin {"unborn", "ended"}
    <3> DEFINE states == [state EXCEPT ![r] = "ended"]
    <3>1. DOMAIN states = Conn /\ \A e \in Conn \ {r} : states[e] = state[e]
      BY DEF TypeOK
    <3>2. StartThread(device[r], states)
      BY <2>5
    <3> HIDE DEF states
    <3>3. PICK n \in Conn :
             /\ state[n] = "unborn" /\ state'[n] = "setup" /\ device'[n] = device[r]
             /\ \A e \in Conn \ {n} : device'[e] = device[e] /\ state'[e] = states[e]
      BY <3>1, <3>2, StartedFor
    <3>4. CASE c = n
      BY <3>3, <3>4
    <3>5. CASE c # n
      <4>1. device'[c] = device[c] /\ (state'[c] = state[c] \/ c = r)
        BY <3>1, <3>3, <3>5
      <4>2. PICK e \in Working : device[e] = device[c]
        BY <2>2, <2>5, <4>1
      <4>3. e \in Conn /\ e # n
        BY <3>3 DEF Working
      <4>4. CASE e = r
        BY <3>3, <4>1, <4>2, <4>4
      <4>5. CASE e # r
        BY <3>1, <3>3, <4>1, <4>2, <4>3, <4>5 DEF Working
      <4> QED BY <4>4, <4>5
    <3> QED BY <3>4, <3>5
  <2> QED BY <2>3, <2>4, <2>5, StillWorking
<1> QED BY <1>1, <1>2, TypeCorrect, PTL DEF Spec
=============================================================================
