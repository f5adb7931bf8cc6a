# MsgTools in TLA+

MsgTools moves binary messages between programs and devices. A message has a
`NetworkHeader` (id, source, destination, length, time) and a body. A *server*
is the hub of a star: clients connect over TCP, WebSockets, Bluetooth, serial
lines, CAN or a bridge to another server, and the server reflects each message
to the others that subscribed to it. Around the hub are a library for messages
and headers, console and simulation clients, graphical tools and a code
generator. This directory models the parts in which order, failure and
concurrency decide whether messages arrive.

## 1. Inventory

| component | state | operations | what is hard | what makes it correct |
|---|---|---|---|---|
| **Python server** `msgtools/server/server.py`, `TcpServer.py`, `WebSocketServer.py` | dict of clients; per client a list and a mask; private ids; the open log, its type and the headers written | connections begin, close and die; five kinds of control message; log button and dialog; log and route | a send that raises in the middle of a loop; a dialog with an event loop of its own; claims of connections that are gone; sockets that close before they disconnect | nobody gets a message twice, out of order or without being entitled; open sockets are served whatever fails; clients are told the truth about the log; log rows have headers |
| **CAN fragmentation** `msgtools/server/CanPlugin.py` | bytes sent, frames made, stream id | `fragment` | lengths at the boundaries of frames and of CAN FD length codes | frames cover the body, number as announced, fit |
| **CAN connection** (same file) | port, bodies in progress by id and route | `sendMsg`, `onReadReady`, `reassemble`, open and close | frames of nodes interleave; frames lost while the port is closed or when a send fails half way | bodies do not mix; a message read whole is delivered intact; without loss everything arrives in order |
| **Stream framing** `TcpServer.py`, `lib/client_connection.py` | receive buffer, header being waited for | open, close, send, read | bytes arrive in any pieces; what a closed connection leaves behind | messages come out whole, as they went in, and none is left in the socket |
| **Serial plugin** `SerialPlugin.py` | port, reopen timer, the header whose body is awaited | search, read, open and close by user, timer, error and port list | bytes are lost anywhere; the timer races the user | nothing with a hole is emitted; the place in the stream is found again; a port the user closed stays closed |
| **Network bridge and application base** `NetworkBridgePlugin.py`, `lib/app.py` | a `ClientConnection` and a button | connect, forward | little of their own | as stream framing |
| **Bluetooth plugins** `BluetoothRFCOMM*.py` | outgoing and incoming buffers, a thread | connect, send, poll | the GUI thread and the reader replace one buffer without a lock | no byte of a sent message is lost |
| **Header translation** `lib/header_translator.py` | last time stamp, offset, time of last wrap | translate | a wrap is told from a late message by thresholds | each wrap is counted once, after any number of them |
| **Android router and logger** `MessageRouterThread`, `BaseConnectionMgr`, `MessageLogger` | connections, the router's queue, the log | receive, route, control messages, start, stop and clear logs | the router, the managers, the selector and the service's thread work on the same objects | order, no gap on an open connection, a log with no gap but where a write failed, progress |
| **Android TCP** `tcp/TCPConnectionMgr.java` | channels, keys, bounded queues | accept, read, write, close, halt | the router closes what the selector is writing to | as above |
| **Android Bluetooth** `bluetooth/` | connection threads, locks, queues | connect, read, break, reconnect, halt | locks taken in both orders; a thread is replaced by another | listeners hear of a connection in order; a device is not given up; a break is reported |
| **Android WebSocket** `websocket/WebsocketConnectionMgr.java` and the library it extends | ready states, keys, worker queues, locks | accept, open, decode, flush, close, ping, halt | selector, workers, timer and service close one connection at once | callbacks in order, lost connections reported, halting ends |
| **Android service** `MsgServerService.java` | bound clients, log state, timer | API calls, timer, destroy | it notices changes late and from its own thread | clients are told the state of the log |
| **Console client and simulated time** `console/client.py`, `sim/` | receive queues, the shared socket, the simulated clock and its event, the open scripts | send, receive with timeout, reconnect, tick, wait, script commands | one event for all that wait; answers on several paths; a step that waits for an answer | waits end on time; messages in causal order, each once in the log; commands in time; no step ahead of the flight software |
| **Console server** `console/server.py` | dict of clients | coroutines per client | a dict that changes while another iterates it | everybody is served |
| **Script debugger** `script/debugger.py` | state of the run and of its process | run, step, stop, poll | commands racing the end of the process | the buttons tell what the process does |
| Messaging library, code generator, file formats, databases, traffic tools, widgets, web page, other languages | | | sequential, or display | see section 8 |

The parts meet in few places. Every plugin and socket gives the server a
`messagereceived` signal and takes a `sendMsg` call, both on the server's one
Qt thread. `CanPlugin` turns `sendMsg` into frames and frames into
`messagereceived`; the TCP clients and the serial plugin do the same with
streams. The Android managers call the router through
`ConnectionListenerHelper`, and the router calls `sendMessage` of each
connection from its own thread. A simulation is a client of a server; inside
its process all `Client` objects and the flight software exchange messages
directly.

## 2. Plan

1. `MessageHub`, `MsgServer` and the proofs about them. **Done.**
2. `CanFragmentation`, `CanFragment`, `NodeLink`, `CanLink`, and proofs of what
   the loop makes and of what the receiver builds from it. **Done.**
3. Android: `BluetoothConnections`; `AndroidServer` with `MessageLogger` (the
   router, its queue, the log, TCP connections and the service);
   `WebsocketConnections`; Bluetooth and WebSocket managers shown to keep the
   contract `ConnectionEvents`; and proofs about all three. **Done.**
4. Bytes to messages: `StreamFraming`, `SerialLink`, with proofs, and
   `TimestampUnwrap`. **Done.**
5. `Simulation` with `ScriptReader`, and proofs. **Done.**
6. Left: `ConsoleServer` (coroutines over a dictionary), `RfcommBuffer` (two
   threads and one buffer), `ScriptDebugger`.

Every safety invariant and action property that a run passes is a theorem, and
so are the four refinements, but for their liveness. Further theorems come
with step 6.

## 3. Modules

| module | of | what it is |
|---|---|---|
| `MessageHub` | | abstract: members, claims, one published message at a time, given to some of those who may see it |
| `MsgServer` | `server.py` | one action per Qt slot; refines `MessageHub` |
| `CanFragmentation` | `CanPlugin.py:35-203` | tables, sizes, one frame and all frames of a message as operators |
| `CanFragment` | `CanPlugin.py:136-203` | the loop of `fragment`, frame by frame |
| `NodeLink` | | abstract: per-node first-in-first-out delivery, and that delivery happens |
| `CanLink` | `CanPlugin.py:205-449` | nodes, bus, port, reassembly; refines `NodeLink` when nothing is lost |
| `StreamFraming` | `TcpServer.py`, `client_connection.py` | both ends of a TCP connection that is opened again and again |
| `SerialLink` | `SerialPlugin.py` | a line that drops bytes, the search for headers, the port with its timer and user |
| `TimestampUnwrap` | `header_translator.py:161-194` | a device's rolling clock, late messages, the count of wraps |
| `BluetoothConnections` | `BaseConnectionMgr.java`, `BluetoothConnectionMgr.java`, `BluetoothConnectionThread.java` | the manager's thread, its connection threads, their locks and what listeners are told; refines `ConnectionEvents` |
| `MessageLogger` | `MessageLogger.java` | the log as a store of files, used by two threads |
| `AndroidServer` | `MessageRouterThread.java`, `TCPConnectionMgr.java`, `BluetoothConnectionThread.java`, `MsgServerService.java` | the router with the connections, queues, log and service it works on |
| `ConnectionEvents` | `IConnectionMgrListener.java` | abstract: what a listener hears of each connection, and in which order |
| `WebsocketConnections` | `WebsocketConnectionMgr.java` and the parts of `org.java_websocket` under it | selector, workers, timer and service; refines `ConnectionEvents` |
| `ScriptReader` | `sim.py:22-111` | the lines of scripts that load scripts, as operators |
| `Simulation` | `sim.py`, `sim_exec.py`, `client.py` | the greenlets of a simulation, its clients, their socket and the peers behind it |
| `MC...` | | instances for TLC |
| `...Proofs` | | theorems: `CanProofs` about `CanFragment` and `CanLink`, `StreamProofs` about `StreamFraming` and `TimestampUnwrap`, the others about the module they are named for |

Operators called *slips* in their comments (`DeliverTwice`, `InputUnrounded`,
...) are not part of any specification. Each is a plausible mistake in the
definition that follows it, and is there to show that a property notices it.

### MsgServer and the code

A connection is a Python object and joins once; a peer that reconnects is
another member of `Client`. `clients` holds the rank of insertion, since the
routing loop visits the dict in that order and a failing send changes what it
does next. `link` separates a socket that is `closing` (the Remove button
closed the device, the `disconnected` signal has not come) from one that is
`gone`; in between the client is in the dict and a TCP `write` raises.
`matches` stands for the mask and its value: the set of ids they select (a new
socket's mask `~0` with value 0 selects no id but 0, a plugin's 0 selects all).
`broken` is the set of plugins whose `sendMsg` raises this time.

`claimedAt` and `handled` are history: which messages reached the last branch
of `onMessageReceived`, and how many had when an id was first claimed.

`LogButton`, `SaveDialogAccepted` and `SaveDialogCancelled` are three actions
because the dialog runs an event loop: all other slots can run between them.
`up` becomes false when an exception leaves a slot, which ends a PyQt5
process that has no exception hook, and this one has none.

### CanLink and the code

A frame carries no bytes but says which bytes it holds: message number, first,
size. A body is the list of those. Frames are those of `fragment` in closed
form; `CanFragment` checks that its loop makes them (`LoopMakesFrames`).
`Send` takes a number of frames the controller accepted before `send()` raised.
`Arbitrate` moves any node's first frame: which one wins on a real bus depends
on identifiers and on when frames were queued, and every order is allowed
here. `Reassemble` is one turn of the loop of `onReadReady`. The turns of one
slot are separate steps, which adds no behaviour: a slot that stops early is a
slot during which fewer frames had arrived. `seen` and `sent` are history. The
stream id is not modelled here because the receiver never reads it.

### BluetoothConnections and the code

`mgr` is where the manager's thread is in `run()`: `setup` starts a thread for
each bonded device, `test` is the loop's condition, `accept` the wait for a
client, `closing` the loop after the halt. `state` is where a connection's
thread is: `setup` (connecting), `announce` (connected, the manager not told
yet), `read`, `message` (a message read, to be handed on), `cleanup`, `notify`
(telling the manager it closed), `reconnect`, `ended`. A connection is a number
in the order of its start, since the code makes a new object for every attempt.

Locks are not variables: they follow from where the threads are. The manager
holds `m_Lock` exactly while it is `closing`; a connection holds its
`m_SocketLock` exactly while it is in `notify` or `reconnect`. Every other
synchronized block blocks on nothing inside it and is a single step that needs
the lock free. The list of connections is a `HashSet`, so `CloseNext` takes any
of them. `m_HaltPending`, `m_Connected` and `m_HaltRequested` are neither
volatile nor locked where they are read; they are modelled as seen at once by
all. A connection knows the manager by a weak reference: `Collected` is the
garbage collector taking a manager whose thread has ended, which it may do when
no connection is inside a call of it. `heard` is history, one list of callbacks
for each connection, and `Announced` is what listeners with a map of their own
(`MessageRouterThread.java:223-233`) hold. `device` outlives the thread, as the
object does.

### StreamFraming and the code

A byte is its position in the stream, so a buffer is where it begins (`pos`)
and how much it holds (`have`). The hub makes a new object for each connection,
the application keeps one for all, with its `rx_buf`: `stale` is how much of
that was left when the connection was opened. `ReadyRead` lets any number of
bytes arrive and calls the slot; `Turn` is one turn of its loop.

### SerialLink and the code

A byte is its position in all the device has written; `lost` are those that the
line or a closed port dropped. What `header_valid` and `body_valid` can tell by
the start sequence and the checksums is taken as certain: bytes are a header
only if they are one (`HeaderValid`), and a body only if they are the one that
belongs to the header read (`Bytes`). `tmpRxHdr` survives a closing of the
port. `asked` is what the user last asked for; `reopening` is the timer.

### TimestampUnwrap and the code

Times are milliseconds. A message is late by up to `MaxDelay` on its way and
may be overtaken by up to `MaxLate`; the device is silent for no longer than
`MaxGap`. The thresholds of the code are fractions of the counter's last value
in the units of the other header, and the second of them is handed to
`timedelta` as seconds, whatever the units are. `second` is how many units of
the counter one of these is, and never changes: 1000 if the other header has
milliseconds or no units, as the headers of this repository, and 1 if it tells
the time in seconds (`timeScaling`, `header_translator.py:161-166`), as those of
an application may.

What the code counts (`timestampOffset`) is compared with how often the
device's counter came round (`Round`), not with what the code adds for each
wrap, which is one too little. `TranslatorInit` and its like, as `LoopInit` of `CanFragment`, have
names of their own because a module of proofs extends two specifications.

### AndroidServer and the code

A message is its number in the order in which the router's queue took it
(`received`); the queue is what is beyond `handled`. `router` is `poll` between
messages and `route` while it visits `todo`, the connections its iterator will
come to: one announced meanwhile may or may not be among them. `selected`,
`writing` and `inHand` are the selector's round of keys, the connection it
writes to and the message it took from the queue. `closing` is the router
inside `close()` of a TCP connection, between closing the channel and looking
up the key. Bluetooth connections have a queue and a sending thread; how they
come and go is `BluetoothConnections`.

`Log` has three outcomes on an open log: the message is taken; its header is
taken and the write of its payload raises; or the write of its header raises.
The code catches what is raised, prints it and leaves the log enabled
(`MessageLogger.java:151-163`). `failed` are the messages of which a write to
the open log raised. A file may be made and not opened (`OnlyMade`), and may
resist deletion. `Api...` are calls of the service's
thread, `Tick` is its timer, `Halt` its end.

### WebsocketConnections and the code

Threads are numbers: the workers, the selector, the timer and the service.
`call[t]` is where thread t is in `close()` or `closeConnection()`: `send` a
close frame, `flush`, `reject` a handshake, `mark` the state, `enter` the
monitor of the connection, `report` to the manager, `leave`; `dead` is the
timer after its ping raised. The monitor is held in `report` and `leave`.
`m_Lock` is held across steps only by `requestHalt` (`LockFree`). `decode[w]`
is what worker w does: `take` a buffer, `open` the connection, `add` it to the
server's list and `insert` it, `announce` it to the manager, or decode a
`frame`. One read returns one handshake or one frame.

### Simulation and the code

All is greenlets, so nothing interrupts the main loop until it sleeps: `main`
is where `run()` is, and every action of another greenlet or of the network
requires `asleep`. `time_tick` wakes with one `Event` everything that waits for
simulated time. gevent notifies all who waited when it was set, although each
clears it (`Woken`), and the main loop comes back after them; a wait that finds
the event still set clears it and waits again, which is the state `blocked`.
Times are in halves of a step, so that rounding by half a step can be seen. A
message is its number in the order of making; `made[m].knows` is what its maker
had read or sent. `heard["sim"]` is the simulation's log. `get_commands` is one
action in closed form: all the flight software has for it, then all that is
queued. In the process the flight software answers each tick before its `run`
returns; behind the server it answers in the end. `Poll` reads everything: a
client that reads less knows less and constrains the order less.

## 4. Runs

| run | instance | properties |
|---|---|---|
| `MsgServer` | a TCP client, a WebSocket, a hardware plugin; one id; 2 messages; either 2 control operations and no log, or no WebSocket and 4 control operations on logs with names of type csv, json, binary and none | `DeliveredInOrder`, `PrivateStaysPrivate`, `OthersServed`, `HubSpec`, `LogStatusAgrees`, `HeaderBeforeRow` |
| `CanFragment` | all lengths 0 .. MAX_MSG_SIZE + 1, all stream ids, the sizes of the test headers (64, 1, 4, 15, 7) | `FramesCoverBody`, `CountForeseen`, `LoopMakesFrames`, `FramesFitWire` |
| `CanLink_lossy` | 2 nodes, 2 ids, bodies of 40 (one frame) and 150 bytes (three), 3 messages, 1 failing send, 2 presses of the button | `SourcesNeverMix`, `BodyOfOneBeginning`, `ReadWholeIsDelivered` |
| `CanLink_lossless` | the same without failures and presses | `LinkSpec` |
| `BluetoothConnections` | a bonded device and one that only calls; 3 threads, 1 message each | `CallbacksInOrder`, `ListenersAgree`, `DeviceNotGivenUp`, `BreakReported` |
| `AndroidServer` | one TCP and one Bluetooth connection, queues of depth 1, 3 messages, one log file and requests to start it | `RoutedInOrder`, `NoGapWhileOpen`, `LogHoldsRun`, `EveryMessageHandled`, `StatusTold` |
| `WebsocketConnections` | 2 connections, of 2 and 1 reads, one worker, the timer and the halt | `ListedIsTracked`, `CallbacksInOrder`, `LossReported`, `HaltEndsOrMeetsClose` |
| `StreamFraming` | headers of 2 bytes, bodies of 0 and 3, 2 messages each way, 2 connections | `WholeMessages`, `AllEmitted` |
| `SerialLink` | headers of 2 bytes, bodies of 0 and 2, 3 messages, 2 bytes lost, 3 events at the port | `SentInOrder`, `FindsItsPlace`, `UserCloseStands`, `PortReopens` |
| `TimestampUnwrap` | a counter of 11 values over 5100 units of time, a second of 1000 and of 1, messages late by 1, delayed by 2, silences of 2 | `WrapsCounted` (`NoWrapInvented`, `MissedOnlyInWait`, `EveryWrapCounted`) |
| `TimestampUnwrap_rule` | the same over 60 units of time, a second of 1000 | `CountedAfterHalfPeriod`: **violated** |
| `Simulation` | five command lines: lockstep with the flight software inside (with and without `--asap`) and behind the server, free running behind a link that breaks, and as fast as possible until the script exits; 2 greenlets, 2 to 3 steps, up to 2 messages beside ticks, tocks and the script's | `CommandsInTime`, `CausalOrder`, `LogComplete`, `NeverAhead`, `WaitsOnTime`, `TimeGoesOn` |

All hold but that of `TimestampUnwrap_rule`, which states what a comment of
`header_translator.py` says, and which TLC refutes (section "What the code does
otherwise"). The other runs have between 83 thousand states (`CanFragment`, all there are) and
2.4 million (`CanLink_lossy`).

Why the bounds are enough. *Routing*: three connections are a sender, one that
fails and one that must be served all the same, and they join in every order;
two messages show order, and a claim with a subscription is what privacy needs;
the theorems below have no bound. *Logging*: four controls are start, stop,
start again and a dialog beside them; two messages are one before and one after
a change of file. `MCSpec` keeps the two apart: a log is open only while the
WebSocket has not come and nobody has subscribed. *CanLink*: three messages are one that is cut short, one that
continues it and one of the other node or id; two presses are one closed
period, which can lose any run of frames. A body of three frames has a first, a
middle and a last. *BluetoothConnections*: three threads are a connection, the
one that replaces it and one that another device opened; one message is what
separates the beginning from the end. At the bound a thread waits in
`reconnect` for ever with its socket lock, which nobody else wants by then: it
has left the manager's list. *AndroidServer*: with depth 1 the second message
finds the queue full, the third comes after what was done about it; a write
that fails for the second leaves a gap in a log that goes on with the third.
*WebsocketConnections*: two reads are a handshake and what follows, and the
other connection only shakes hands; one worker serves both, so that one's close
waits behind the other's open. *StreamFraming*: a body of no byte and one
longer than a header; two messages in one read; a second connection after a
cut. *SerialLink*: two losses can hit a header and the body before it, and the
third message is there to be found again; less than the longest body between a
loss and a message is not enough, which TLC shows when the bound of
`FindsItsPlace` is lowered by one. *TimestampUnwrap*: the
counter comes round some 460 times. In milliseconds the wait of 5000 ends before
the bound, so that a second wrap is counted after many that were missed. The
sizes are at the limits of the assumption. *Simulation*: script
`main` loads `child` between two lines that are due between and at steps; each
greenlet waits, one for less than a step and one for exactly one.

Deadlock is not checked: every model stops when its bounds are reached, the
process has ended, or the loop has returned.

### What the code does otherwise

`TimestampUnwrap_rule` ends in a violation, of a property that states what the
repository says: `CountedAfterHalfPeriod`, after the comment at
`header_translator.py:184-187`, that a much lower timestamp counts as a wrap if
the last one is more than half the time ago that the counter takes to come
round. With the repository's own headers (`SerialHeader.yaml`, a 16-bit time in
milliseconds, and `NetworkHeader.yaml`, both without units) `time_scale` is 1,
and `timedelta(seconds=65535*0.5)` is nine hours instead of half a minute: of
all wraps in nine hours only the first is counted. In TLC's trace the second
wrap, a whole period after the first, is not, and the time given goes back.
`MissedOnlyInWait` says what remains true, whatever the units.

### Also seen

These are disagreements and dead ends met while modelling. The models contain
what the code does in each of those that are within their scope; no property
forbids them.

*Python server.*
- The `except` clause of the routing loop assigns `a,b,c`, and `c` is the
  sender (`server.py:484, 551`). After a failing send the sender is no longer
  recognised and is sent its own message.
- With a binary log, the last line of `logMsg` reads `msg`, which only the text
  branches assign (`server.py:481`). The slot raises before the message is
  routed.
- The private list is not checked against the *sender* (`server.py:543-549`),
  although `PrivateSubscriptionList.yaml` says such messages go "between"
  clients that asked for them. `privateSubscriptions` keeps dead connections.
- `queryLog` sends without a `try`.

*CAN.*
- The stream id grows with each frame (`CanPlugin.py:171`), where
  `CANHeader.yaml:43` has it grow with each message. Nothing but the length ends
  a body (`CanPlugin.py:263`): the CRC of the start header
  (`CANHeader.yaml:56`) is never compared. The sequence numbers of the frames
  after the first are 1 to N - 1, where `CANHeader.yaml` says 1 to N. A message
  without a body becomes no frame. The check for room in `reassemble` compares
  with `>`, and the first byte too many raises.

*Streams, serial ports, Bluetooth plugins, times.*
- `rx_buf` of a `ClientConnection` is kept when the connection is opened again
  (`client_connection.py:21-22, 105`): what a cut message left is taken for the
  beginning of the next connection's first. `WholeMessages` claims nothing
  about such a reader.
- An unplugged serial port (`ResourceError`) is not opened again; a message
  that cannot be translated is emitted as `None`; while the timer retries the
  button does not stop it. The bridge's reopen timer is never started.
- The RFCOMM plugin's thread cuts what it sent off a buffer to which the GUI
  thread appends meanwhile (`BluetoothRFCOMM.py:85, 113`).
- Each wrap adds `Max` (`header_translator.py:194`), and the counter has lost
  `Max` + 1: the first message after a wrap may be given the time of the last
  before it. `NoWrapInvented` says that the error is never the other way.
- A message that is late across a wrap is dated a period ahead, and a silence
  of half a period can hide a wrap: the one after it, as the wait begins late.

*Android: Bluetooth, router, TCP, service.*
- `cleanup()` of a connection calls the manager, which takes `m_Lock`, under
  `m_SocketLock` (`BluetoothConnectionThread.java:242, 254`); the manager calls
  `close()`, which takes `m_SocketLock`, under `m_Lock`
  (`BaseConnectionMgr.java:57-60`). A link that breaks while the service is
  stopped leaves both waiting for ever.
- After a halt `reconnect()` still starts threads, and a connection that is
  between `setSocket` and `onNewConnection` when the list is closed stays open,
  where `IConnectionMgr.java:34` has a halt "close all active connections"; the
  sending thread of a Bluetooth connection flushes its queue when it is full
  and still returns true, where `IConnection.java:20` has "true if the message
  was sent, else false".
- A TCP manager that halts closes its selector before its connections, whose
  listeners are then not told; `close()` in the router's thread may find the
  key gone (`TCPConnectionMgr.java:190-193`) and raise instead of telling them.
  An end of stream never closes a TCP connection and keeps it from being
  written to; a stalled peer makes the manager's thread spin; an exception in a
  round leaves the keys that were not cleared.
- The header and payload buffers of a message are shared by the connections it
  is sent to, and each sets their position (`TCPConnectionMgr.java:118-124`): of
  two threads that do so at once one may send too little, or its copy raises
  and the message is lost on a connection that stays open. The log writes the
  array behind a slice (`MessageLogger.java:152`). The contents of buffers are
  not modelled, and `NoGapWhileOpen` claims nothing of such a loss.
- When a write to the log fails the message is dropped and nobody is told: the
  log stays enabled, and what comes later follows behind the gap
  (`MessageLogger.java:161-163`). `LogHoldsRun` says that there is no gap but
  these. What a stream took is not yet in the file: a flush of its buffer that
  fails half way is repeated by the next, so that bytes may be there twice, and
  what the flush of `stopLogging` cannot write is lost.
- `CLEAR_LOGS` falls through to the case after it; the timer misses a log that
  was stopped and started between two ticks; a StartLog in the queue opens a
  log after `onDestroy` stopped it.

*Android: WebSocket.*
- `requestHalt()` calls `stop()`, which joins the selector thread, while it
  holds `m_Lock` (`WebsocketConnectionMgr.java:233-247`), and a close that the
  selector has come to waits for that lock in `onClose()`: both wait for ever,
  and `onDestroy()` never gets to Bluetooth and the router.
  `HaltEndsOrMeetsClose` shows that this is the only way for a halt to hang.
- A connection is announced and never reported closed if its closing begins
  between its state being OPEN and its insertion, or between that and
  `onOpen`, or if the server stops between the test of `isclosed` and the
  insertion. A handshake without a draft is flushed and not closed. A ping to a
  connection that is closing raises and ends the timer. A close frame that
  cannot be sent makes `stop()` end without interrupting the selector.

*Console and simulation.*
- In a simulation `Client.recv` with a timeout takes messages off its queue and
  returns none of them (`client.py:215-224`). Its timeout begins again after
  each message that was not asked for; `wait_for` shortens the client's own
  timeout. `read_msg_from_socket` peeks from the beginning of what is there, so
  that a message that comes in pieces is misread. A send that takes less than
  the whole message is not continued.
- In lockstep a flight software in the process that does not answer within its
  `run` is never run again, and a tick or a tock lost with the link stops the
  simulation: nothing sends it again. `TimeGoesOn` leaves that case out.
- The branch for `--option` lines of a script cannot be reached, as
  `ScriptReader.Line` exits on unknown commands. `recv` of the simulation sets
  the time of a message object other clients hold.
- `sim.py:21-22` has the dt of a line elapse since the execution of the line
  before it. The code, and `CommandsInTime` with it, counts from when that line
  was due, and rounds by half a step as `sim.py:275-277` means it to: a line may
  be carried out in the same step as the one before it, less than its dt later.
- `console/server.py` iterates its dict of clients across awaits.

## 5. Fairness

`CanLink_lossless`. `WF(Arbitrate(n))`: a controller offers a
frame until the bus has taken it, and with finitely many messages every frame
gets its turn whatever its priority. `WF(Reassemble)`: Qt calls `onReadReady`
as long as the socket has data. `Send` has no fairness.

`BluetoothConnections`. `WF(Manager)` and `WF(Thread(c))`: a thread that can
run is scheduled, the manager's `accept` has a timeout, and a `read` on a
broken socket raises. None is assumed for the service's halt, for a device that
connects, fails or breaks, for messages, or for the garbage collector.

`AndroidServer`. `WF(Router)`: its thread polls with a timeout and is
scheduled. `WF(Tick)`: the service's timer repeats. None for connections, the
selector, requests or the halt.

`WebsocketConnections`. `WF` of the selector, each worker, the service once it
halts, and the timer inside a close it has begun: threads that can run are
scheduled. `SF(gone[c] /\ ConnectionLost(c))`: the timer comes round again and
again, though the connection may be busy at times when it does. None for peers,
the beginning of a halt, or a ping that raises.

`StreamFraming`. `WF(ReadyRead)` and `WF(Turn)`: TCP brings what was written
while the connection stands, Qt calls the slot, and a slot goes on until it
returns. `SerialLink`. `WF(OnReadyRead)`, and `SF(Reopen(TRUE))`: the timer
repeats, and a port that can be opened again and again is opened in the end.

`Simulation`. `WF(MainLoop)`, `WF(Woken(t))`, `WF(ReadForAllClients)`: gevent
runs every greenlet that can run and looks at the socket whenever the main loop
sleeps, though it may sleep for no time. `WF(PeerSends("tock"))`: flight
software behind the server answers its ticks. None for tasks, breaks and
reconnections of the link.

## 6. Proofs

The theorems hold for every value of the constants that the named assumptions
admit; a passing run shows each property on one instance. Every inductive invariant was
an invariant of a TLC run, with the constants of section 4, before its proof,
except `ScriptInv` (its operators choose functions from no set). The type
invariants are proved and not run.

What recursive functions compute is proved by induction over numbers. The
induction theorems of the library take an operator, which no prover here can
instantiate; `WFMin`, about a well-founded set of pairs, takes none. `Below` is
that set for the order of the naturals, `CountingUp` the induction that follows:
a set that has 0 and every successor has all of `Nat`. Recursive functions are
shown to exist (`ChosenExists`, `Iterates`) before their equations are used.

### MsgServerProofs

For every set of connections, transports, ids, lists, masks and log names, from
`ServerAssumption` alone (`Tcp`, `Plugin` and `Hardware` nest as the classes do;
lists and masks select ids; the name that stands for no log is none):

- `TypeCorrect`: `Spec => []TypeOK`. `TypeOK` also ties the dict to the life
  of a connection, which later steps need.
- `OrderCorrect`: `Spec => []DeliveredInOrder`. What a connection has been
  given are positions up to `Len(handled)`, and a routed message adds the next
  one at most once (`RoutedTo`).
- `PrivacyCorrect`: `Spec => []PrivateStaysPrivate`. Not inductive alone: a
  message handled after the claim goes to claimants only if the id *has* an
  entry. `PrivacyInv` adds that an id without one was never claimed, which
  holds since entries are never removed.
- `StatusCorrect`: `Spec => []LogStatusAgrees`. Every slot that changes the log
  ends in `queryLog`, which tells all open sockets or ends the process
  (`ToldByQueryLog`); `StatusInv` adds that nobody was told anything before it
  joined.
- `HeaderCorrect`: `Spec => []HeaderBeforeRow`. `HeaderInv` adds what
  `loggedMsgHeader` stands for: its ids have a header in the open file, whose
  type is the one its name selects.
- `ServedCorrect`: `Spec => OthersServed`, an action property: the routing
  loop comes to every addressee, whichever sends before raise.
- `HubCorrect`: `Spec => HubSpec`. Joining, leaving, claiming and publishing
  are found in the slots one by one; all other slots leave `Members`, the
  claims, the messages and the inboxes alone.

### CanProofs

For all sizes of frames and headers that `SizeAssumption` admits (a frame has
room for both headers and a byte), every length, set of nodes and ids
(`LinkAssumption`), and, only in `WireCorrect`, frames of at most 64 bytes
(`CodingAssumption`; the table of lengths in the code ends there):

- `CoverCorrect`: `LoopSpec => []FramesCoverBody`. The invariant adds that
  `bytes_sent` never passes the length, which makes the next frame's share a
  number above 0, and that it is 0 only before the first frame.
- `CountCorrect`: `LoopSpec => []CountForeseen`, and `FramesCorrect`:
  `LoopSpec => []LoopMakesFrames`. `LoopInv` says of every turn of the loop
  that frame k is the one of the closed form and begins at `StartOf(k)`. The
  lemmas are about rounded division: `packet_count` is the first number whose
  multiple of the frame size reaches the length (`CountReaches`, `CountFits`).
- `WireCorrect`: `LoopSpec => []FramesFitWire`. `Padding` goes through the
  table: of the lengths CAN FD can code none lies between a body's and the one
  it is padded to, so that the decrement has four bits and undoes it.
- `SourcesCorrect`: `Spec => []SourcesNeverMix`. `SourceInv` follows the bytes
  from a sender's queue over the bus into the bodies in progress and into what
  is delivered: a frame on its way names a message that was sent and carries
  that message's id and source, so a body holds only bytes whose messages have
  the key it is kept under. Which frames were lost does not matter.
- `BeginningCorrect`: `Spec => []BodyOfOneBeginning`. `BeginInv` adds that a
  body in progress begins with the first part of the message its length was
  taken from, and that its count is the sum of its parts. Partial sums
  describe what the recursive function `TotalSize` gives (`SumsOne`,
  `SumsMore`), so that no induction is needed.
- `ReadCorrect`: `Spec => []ReadWholeIsDelivered`, by `ReadInv`. The frames of
  a message are on their way in their order and before those of its node's
  later messages (`WayInv`); of each message no more frames were read than come
  before the first still on its way (`Ahead`), and none if a frame of an earlier
  message of its node is (`NoneOvertakes`); and if all that come before were
  read, the body in progress is made of just these (`Growing`).
- `LinkCorrect`: if `MaxFailures` and `MaxToggles` are 0, `Spec => LinkSafety`,
  the refinement of `NodeLink` but for its fairness. The hypothesis is that of
  the lossless run: no send raises and nobody presses the button. Sending is
  `Link!Send`; reading the last frame of a message is `Link!Deliver`
  (`TurnInOrder`, `ReassembleLinks`); all other steps are none. `Lossless` adds
  to `ReadInv` that a frame not read is on its way (`AllOnWay`), that
  `SentBy(n)` lists just the messages of n in order (`SentInTurn`), and that
  `DeliveredFrom(n)` is the beginning of that list that was read whole
  (`ArrivedInTurn`), so that the message ended next is the next of its node.
  `Chosen` takes values out of a history; what it gives when the history grows
  is by induction (`ChosenAgree`, `ChosenMore`).

### BluetoothConnectionsProofs

For all devices, any number of threads and of messages, from `DeviceAssumption`
(bonded devices are devices, no device is `NoDevice`):

- `TypeCorrect`: `Spec => []TypeOK`. `TypeOK` ties `threads` to the threads
  that have a device, so that a new thread is always one not started before.
- `CallbacksCorrect`: `Spec => CallbacksInOrder`, the refinement of
  `ConnectionEvents`, with `heard` itself as the mapping: `Announce` is its
  `New`, `HandOn` its `Message`, `Notify` its `Closed`, every other step
  stutters (`StepIsInContract`). That the guards of the contract hold when these
  steps are taken needs to know what a thread in each place has told. `Life`
  says so, place by place: nothing before `announce`, unclosed from there to
  `notify`, nothing or closed in `reconnect`; only without a manager can a
  connection be served that nobody heard of.
- `ListenersCorrect`: `Spec => []ListenersAgree`, from `Life` and `Agreement`,
  the same statement per connection.
- `DevicesKept`: `Spec => []DeviceNotGivenUp`, inductive beside `TypeOK`: a
  thread ends only after the one that replaces it has started.

### StreamProofs

`StreamFraming`, for all sizes and any number of messages and connections, from
`FramingAssumption`:

- `WholeCorrect`: `Spec => []WholeMessages`. The invariant says of each reader
  where its buffer stands in the stream: at the beginning of the message that
  is next, or behind its header when that has been taken (`StreamOK`,
  `BufferOK`, `Aligned`).

`TimestampUnwrap`, for every size of the counter, delay, lateness and silence
that `TimestampAssumption` admits:

- `WrapsCorrect`: `TranslatorSpec => []WrapsCounted`. Of its three parts
  `NoWrapInvented` and `MissedOnlyInWait` hold whatever the units,
  `EveryWrapCounted` is about a header in seconds. `TimeInv` says which
  messages can be on their way (`OnTime`, `NextComes`) and how the last one
  stands to the newest (`LastOne`), so that the first message of a round is
  much lower than the last, and another is counted only if a wrap was left out
  before (`WrapTold`); that no more wraps are counted than there were, and that
  the newest message's round began before the wait ended (`Counted`).
  `WaitEnds` says that the wait, with twice the silence and delay, is no longer
  than twice a period, which is so with seconds (`HalfEnds`); `CountedAll` adds
  that the last wrap was then seen soon after it happened. For the repository's
  headers `WaitEnds` is false; `TimestampUnwrap_rule` shows what comes of it.

### SerialLinkProofs

For every header size and set of body lengths, any number of losses and events,
from `SerialAssumption`:

- `OrderCorrect`: `Spec => []SentInOrder`, and `PlaceCorrect`:
  `Spec => []FindsItsPlace`, from one invariant, `Stream`: how the device laid
  out its bytes (`Laid`), what of them is buffered, in order (`Queued`), which
  message the header that was read belongs to (`HeaderRead`), what was emitted
  (`Emitted`), and that a message of which nothing is lost, nor of what is
  before it, is emitted or still to be read (`Waiting`). The lemmas
  `HeaderFound`, `BodyFound` and `NotReached` say what the search finds and
  what it cannot have thrown away.
- `CloseCorrect`: `Spec => []UserCloseStands`. Inductive with `PortInv`: the
  timer runs only beside a closed port and never for one the user closed.

### AndroidServerProofs

For every set of connections and files, depth of the queues and number of
messages, from `LogAssumption` and `ServerAssumption`:

- `TypeCorrect`: `Spec => []TypeOK`.
- `RoutingIsOrderly`: `Spec => []RoutedInOrder`. A connection's sent, held and
  queued messages are increasing and below the one the router is at, or at it
  if the router has come to the connection.
- `NothingDropped`: `Spec => []NoGapWhileOpen`. `Unbroken` says more than the
  property: from the first message on, an open connection was given *all* that
  were due up to `handled`, and the current one it has or is still to get.
  `Shut` says which channels can be open: those the router knows, whose key
  stands and in whose `close()` it is not.
- `LogIsRun`: `Spec => []LogHoldsRun`. What was written to the open log, or
  failed to be, is an interval of data messages (`Tried`) that ends at the last
  one handled, or at the one being routed; what was written is in order (`Run`).

### WebsocketConnectionsProofs

For every set of connections, any number of workers and of reads, from
`WebsocketAssumption`:

- `TypeCorrect`: `Spec => []TypeOK`.
- `NoneForgotten`: `Spec => []ListedIsTracked`.
- `ContractKept`: `Spec => CallbacksInOrder`, the refinement of
  `ConnectionEvents`. One invariant serves both: a connection's buffers are with
  one worker and in order (`Owned`, `Fresh`, `Undisturbed`), it is added once
  (`AddedOnce`, `LateNotAdded`), and what the manager tracks was announced and
  not reported closed (`TrackedIsLive`).

### SimulationProofs

For every set of greenlets, command lines, waits and files, from
`SimulationAssumption` (the names differ, `--asap` comes with flight software
inside, spans are numbers, the script exists), whatever the scripts hold:

- `MessageKept`: `Spec => []MessageInv`. A message waits in a Client's queue, in
  what the flight software has sent, or in the socket. Every place is in a
  possible order (`Orders`), and of any two places on the way to a participant
  what is in the first knows nothing of what is in the second (`Behind`):
  nobody can have heard what all others are still to be told
  (`KnowsNothingPending`). Every action either makes a message and puts it
  last (`Puts`), or moves messages on (`Moves`), or is `GetCommands`, which
  empties two places in the one order in which that is safe.
- `OrderCorrect`: `Spec => []CausalOrder`, which follows.
- `LogCorrect`: `Spec => []LogComplete`. `Logged` adds that every message is on
  one of the ways to the log; that it is there once comes from `MessageInv`.
- `LockstepCorrect`: `Spec => []NeverAhead`. `Lock` says that no tick is
  unanswered but the last, none if an answer is pending or a step may begin,
  that a step that may begin has taken the only answer there was, and that
  `ready_to_run` is reset by then.
- `WaitsCorrect`: `Spec => WaitsOnTime`, an action property, from `ClockInv`:
  who has been woken is at most one step over its time, all others are not over
  it, and nobody is left woken when the main loop runs.
- `CommandsCorrect`: `Spec => []CommandsInTime`, from `ScriptAssumption` too:
  times are not negative (`sim.py:21-22` says that dt has to elapse), loaded
  files exist, and no file loads itself, not even through others. With such a
  circle there is no list of lines to keep to: the code opens files until it
  can open no more. `Flat` exists by induction over how deep files load others
  (`FlatExists`), the lines left of a file by induction over their number
  (`RestExists`), what is left of all open files by induction over the stack
  (`AheadIs`). `ReadLineIs`: reading takes the first of these and leaves the
  others, however many files end before it. `ScriptInv`: what was taken, the
  line the reader is at and what is left are the lines of the script; the
  commands among what was taken are done, each in its time; the next is due
  later than the step that was begun, and not before the last one's time. A
  command that is not done is due no earlier than the next line (`PlanLater`),
  because times are not negative.

### Only model-checked

Liveness is beyond the prover: `BreakReported`,
`EveryMessageHandled`, `StatusTold`, `LossReported`, `HaltEndsOrMeetsClose`,
`AllEmitted`, `PortReopens`, `TimeGoesOn` and that of `LinkSpec`.

## 7. Abstractions

- Message bodies, names and time stamps are left out of `MsgServer`; a log
  holds headers and rows of ids.
- A `LogStatus` message is the name and type it reports. It is sent outside the
  routing branch and is no entry of `handled`.
- `SubscriptionList` and the others hold at most 16 ids; the sets are small
  anyway.
- A log file whose `open` fails is not modelled: `startLog` ignores the result
  and goes on as if it had one.
- `CanLink` has a receiver and senders. A server is both, with separate state
  for each: `frag_stream_id` and `in_progress_reassembly`.
- Headers that cannot be translated to CAN become no frame and are left out.
- `StreamFraming` has TCP only; a WebSocket brings whole messages. `SerialLink`
  leaves out `sendMsg`, a single write to the port.
- `TimestampUnwrap`: clocks run at the same rate and do not jump, and the first
  message the server receives was not overtaken.
- `AndroidServer`: numbers and order of messages, not their bytes; the log is
  what its stream took, not what of it is on the disk.
- `Simulation`: scripts have valid lines only, with times that are not negative,
  and do not load each other in a circle; whole messages come out of the
  socket and its send buffer has room; the messages sent on connecting, the
  FDM, hardware in the loop, `wait_for`, recording and formats are left out.

## 8. Not modelled

Planned and not yet done (section 2): the console server, the script debugger
and the buffer of the Bluetooth plugins. Of the Android service, binding and
the messages to its clients other than the state of the log are left out; of
the messaging library, access to fields and the registry of classes, which are
pure functions of loaded code. The network bridge and the application base add
a button and a log to `ClientConnection`.

Not planned: the code generator and the file formats (sequential programs; a
specification of them would repeat them), database plugins and traffic tools
(one call per message), widgets and the web page (display), the run-time
libraries of other languages, and everything under `ThirdParty`.
