----------------------------- MODULE Simulation ------------------------------
(***************************************************************************)
(* A simulation and the clients in its process: SimBaseClass               *)
(* (msgtools/sim/sim.py), the simulated clock SimExec (sim/sim_exec.py)    *)
(* and Client (console/client.py).  Everything in the process is a         *)
(* greenlet: the main loop runs until it sleeps, and the others in         *)
(* between.  The flight software (FSW) is a module in the process, or a    *)
(* program behind the message server, as are all other peers.              *)
(*                                                                         *)
(* A message is its number in the order in which all were made.  Times are *)
(* in halves of a step.                                                    *)
(***************************************************************************)
EXTENDS ScriptReader, SequencesExt

CONSTANTS Task,      (* the greenlets of a Python script, one Client each    *)
          Configs,   (* command lines: records of lockstep, fsw, asap and    *)
                     (* script; and, as bounds, until when each is followed, *)
                     (* how often its link breaks and how many messages are  *)
                     (* made beside ticks, tocks and those in the script     *)
          Waits      (* what each waits for: records of reads (recv, or a    *)
                     (* mere wait) and span                                  *)

Sim == "sim"
FSW == "fsw"
Net == "net"

ASSUME SimulationAssumption ==
    /\ Task \cap {Sim, FSW, Net} = {}
    /\ \A a \in Configs : /\ a.lockstep \in BOOLEAN /\ a.fsw \in BOOLEAN
                          /\ a.asap \in BOOLEAN
                          /\ a.script \in DOMAIN Files
                          /\ a.asap => a.fsw       (* sim.py:172-182 *)
    /\ \A t \in Task : \A w \in Waits[t] : w.reads \in BOOLEAN /\ w.span \in Nat

VARIABLES args,     (* _args                                                 *)
          main,     (* where run() is                                        *)
          reader,   (* script_reader                                         *)
          now,      (* get_time(), the time of the FDM                       *)
          clock,    (* SimExec._current_time                                 *)
          ready,    (* ready_to_run                                          *)
          task,     (* where each greenlet of the script is                  *)
          woken,    (* those that tick_event has woken and that did not run  *)
          queue,    (* _rx_queue of each Client, the simulation's included   *)
          fswOut,   (* what the FSW in the process has for recv()            *)
          link,     (* the socket all Clients share                          *)
          netIn,    (* what is in it to be read                              *)
          breaks,   (* how often the link broke                              *)
          made,     (* history: who made each message, of which kind, and    *)
                    (* knowing which                                         *)
          heard,    (* history: what each has been given; for Sim, its log   *)
          lost,     (* history: what went down with the link                 *)
          done      (* history: the script's commands and their times        *)

simVars == <<main, reader, now, clock, ready>>
netVars == <<link, netIn, breaks, lost>>
vars == <<args, simVars, task, woken, queue, fswOut, netVars, made, heard, done>>

Idle == [at |-> "idle"]

(* SimBaseClass.__init__: without a connection there must be FSW inside     *)
(* (hardware in the loop is left out), and with --asap there is none.       *)
Init ==
    /\ args \in Configs
    /\ main = "inputs"
    /\ reader = StartReading(args.script, 0)
    /\ now = 0 /\ clock = 0
    /\ ready = TRUE
    /\ task = [t \in Task |-> [at |-> "new"]]
    /\ woken = {}
    /\ queue = [c \in Task \cup {Sim} |-> <<>>]
    /\ fswOut = <<>>
    /\ link \in IF args.asap THEN {"none"}
                ELSE IF args.fsw THEN {"up", "down"} ELSE {"up"}
    /\ netIn = <<>> /\ breaks = 0 /\ lost = {}
    /\ made = <<>> /\ done = <<>>
    /\ heard = [p \in Task \cup {Sim, FSW, Net} |-> <<>>]
-----------------------------------------------------------------------------
(* Messages *)

Made(p, kind) == {i \in DOMAIN made : made[i].from = p /\ made[i].kind = kind}

Knows(p) == ToSet(heard[p]) \cup {i \in DOMAIN made : made[i].from = p}

New == Len(made) + 1
Make(p, kind) == made' = Append(made, [from |-> p, kind |-> kind, knows |-> Knows(p)])

Extra == Cardinality({i \in DOMAIN made : made[i].kind = "other"}) < args.maxMade

(* A slip for Clients: the simulation's own Client is not entered.          *)
ClientsButSim == {t \in Task : task[t].at # "new"}

(* Client._clients: those that joined, and the simulation's own.            *)
Clients == {Sim} \cup {t \in Task : task[t].at # "new"}

(* A slip for QueueForClients: whoever sends is sent it too.                *)
QueueForAll(m, excluded) ==
    [c \in DOMAIN queue |-> IF c \in Clients THEN Append(queue[c], m) ELSE queue[c]]

(* Client.queue_for_clients *)
QueueForClients(m, excluded) ==
    [c \in DOMAIN queue |-> IF c \in Clients \ {excluded}
                            THEN Append(queue[c], m) ELSE queue[c]]

(* Client.static_send: in a simulation, an error of the socket is ignored.  *)
Socket == IF link = "up" THEN {Net} ELSE {}

Inside == IF args.fsw THEN {FSW} ELSE {}

Give(m, ps) == [p \in DOMAIN heard |-> IF p \in ps THEN Append(heard[p], m)
                                       ELSE heard[p]]

(* SimBaseClass.send, and Client.send of its cxn.  The FDM takes a message  *)
(* that sets one of its values and is not modelled.                         *)
Send(kind) == /\ Make(Sim, kind)
              /\ heard' = Give(New, {Sim} \cup Inside \cup Socket)
              /\ queue' = QueueForClients(New, Sim)
-----------------------------------------------------------------------------
(* The main loop: run() and what it calls *)

(* At the top of the loop; time_tick's sleep, or gevent.sleep(0), is over   *)
(* when all that the event has woken have run.                              *)
AtTop == main = "inputs" \/ (main = "asleep" /\ woken = {})

(* A slip for IsInput: the time is not rounded.                             *)
InputUnrounded == IsDue(reader, now)

(* process_script_inputs rounds the time up by half a step.                 *)
IsInput == IsDue(reader, now + 1)

LoadScript ==
    /\ AtTop /\ IsInput /\ reader.line.command = "load"
    /\ reader' = Load(reader)
    /\ main' = "inputs"
    /\ UNCHANGED <<args, now, clock, ready, task, woken, queue, fswOut, netVars, made, heard, done>>

(* set does nothing yet, and sleep has done its work when it is due.        *)
ProcessScriptInput ==
    /\ AtTop /\ IsInput /\ reader.line.command # "load"
    /\ reader' = NextLine(reader)
    /\ done' = Append(done, [line |-> reader.line, at |-> now])
    /\ main' = IF reader.line.command = "exit" THEN "exit" ELSE "inputs"
    /\ IF reader.line.command = "send" THEN Send("script")
       ELSE UNCHANGED <<made, heard, queue>>
    /\ UNCHANGED <<args, now, clock, ready, task, woken, fswOut, netVars>>

(* A slip for Answered: only the last message counts.                       *)
AnsweredLast(ms) == ms # <<>> /\ made[ms[Len(ms)]].kind = "tock"

(* process_sim_command, for all messages of one get_commands                *)
Answered(ms) == \E m \in ToSet(ms) : made[m].kind = "tock"

(* A slip for ReadyNext: ready_to_run is not reset.                         *)
ReadyStays(ms) == ready \/ Answered(ms)

(* ready_to_run when a step begins                                          *)
ReadyNext(ms) == ~args.lockstep /\ (ready \/ Answered(ms))

(* get_commands takes, with recv, first all that the FSW in the process has *)
(* sent, which goes to everybody, then all that other Clients and the       *)
(* socket have queued, which the FSW has not got.  A tock among them lets a *)
(* simulation in lockstep run; without one it sleeps and looks again.       *)
GetCommands ==
    /\ AtTop /\ ~IsInput
    /\ LET queued == queue[Sim]
           commands == fswOut \o queued
       IN  /\ heard' = [p \in DOMAIN heard |-> heard[p] \o
                           (IF p = Sim THEN commands
                            ELSE IF p \in Inside THEN queued
                            ELSE IF p \in Socket THEN fswOut ELSE <<>>)]
           /\ queue' = [c \in DOMAIN queue |->
                           IF c = Sim THEN <<>>
                           ELSE IF c \in Clients THEN queue[c] \o fswOut
                           ELSE queue[c]]
           /\ fswOut' = <<>>
           /\ IF args.lockstep /\ ~ready /\ ~Answered(commands)
              THEN main' = "asleep" /\ UNCHANGED ready
              ELSE main' = "step" /\ ready' = ReadyNext(commands)
    /\ UNCHANGED <<args, reader, now, clock, task, woken, netVars, made, done>>

(* fdm.run and output_time_tick *)
Step ==
    /\ main = "step" /\ now < args.until
    /\ now' = now + 2
    /\ main' = "fsw"
    /\ IF args.lockstep \/ args.fsw THEN Send("tick")
       ELSE UNCHANGED <<made, heard, queue>>
    /\ UNCHANGED <<args, reader, clock, ready, task, woken, fswOut, netVars, done>>

Unanswered(p) == \E i \in ToSet(heard[p]) :
                    /\ made[i].kind = "tick"
                    /\ \A j \in Made(p, "tock") : i \notin made[j].knows

(* fsw.run: it answers every tick it is given, and may send more.  This is  *)
(* software of the project that uses the simulation.                        *)
FswSends(kind) ==
    /\ main = "fsw" /\ args.fsw
    /\ IF kind = "tock" THEN Unanswered(FSW) ELSE Extra
    /\ Make(FSW, kind)
    /\ fswOut' = Append(fswOut, New)
    /\ UNCHANGED <<args, simVars, task, woken, queue, netVars, heard, done>>

FswRan == main = "fsw" /\ (args.fsw => ~Unanswered(FSW))

(* output_aircraft_state, which the project's simulation defines.           *)
OutputState ==
    /\ FswRan /\ Extra
    /\ Send("other")
    /\ main' = "tick"
    /\ UNCHANGED <<args, reader, now, clock, ready, task, woken, fswOut, netVars, done>>

Blocked == {t \in Task : task[t].at = "blocked"}

(* A slip for Notified: the event wakes one.                                *)
NotifiedOne == IF Blocked = {} THEN {} ELSE {CHOOSE t \in Blocked : TRUE}

(* tick_event.set, which wakes all that wait although each will clear the   *)
(* event, before the main loop is back from its sleep.                      *)
Notified == Blocked

(* SimExec.time_tick *)
TimeTick ==
    /\ FswRan \/ main = "tick"
    /\ clock' = now
    /\ woken' = Notified
    /\ main' = "asleep"
    /\ UNCHANGED <<args, reader, now, ready, task, queue, fswOut, netVars, made, heard, done>>

MainLoop == \/ LoadScript \/ ProcessScriptInput \/ GetCommands
            \/ Step \/ FswSends("tock") \/ TimeTick
-----------------------------------------------------------------------------
(* The greenlets of a Python script *)

(* Client.__init__ *)
Join(t) ==
    /\ main = "asleep" /\ task[t].at = "new"
    /\ task' = [task EXCEPT ![t] = Idle]
    /\ UNCHANGED <<args, simVars, woken, queue, fswOut, netVars, made, heard, done>>

(* Client.send *)
TaskSend(t) ==
    /\ main = "asleep" /\ task[t].at = "idle" /\ Extra
    /\ Make(t, "other")
    /\ heard' = Give(New, Socket)
    /\ queue' = QueueForClients(New, t)
    /\ UNCHANGED <<args, simVars, task, woken, fswOut, netVars, done>>

(* Client.recv with a timeout of 0, until it returns nothing; to read less  *)
(* is to know less.                                                         *)
Poll(t) ==
    /\ main = "asleep" /\ task[t].at = "idle" /\ queue[t] # <<>>
    /\ heard' = [heard EXCEPT ![t] = @ \o queue[t]]
    /\ queue' = [queue EXCEPT ![t] = <<>>]
    /\ UNCHANGED <<args, simVars, task, woken, fswOut, netVars, made, done>>

(* SimExec.wait, and Client.recv with a timeout above 0, whose loop takes   *)
(* all messages out of the queue and returns none of them                   *)
(* (client.py:215-224).  An event that is still set is cleared and waited   *)
(* for again, since no time has passed.                                     *)
Block(t, w) ==
    /\ main = "asleep" /\ task[t].at = "idle"
    /\ task' = [task EXCEPT ![t] = [at |-> "blocked", reads |-> w.reads,
                                    since |-> clock, span |-> w.span]]
    /\ queue' = [queue EXCEPT ![t] = IF w.reads THEN <<>> ELSE @]
    /\ UNCHANGED <<args, simVars, woken, fswOut, netVars, made, heard, done>>

Woken(t) ==
    /\ main = "asleep" /\ t \in woken
    /\ woken' = woken \ {t}
    /\ LET w == task[t]
           over == clock - w.since > w.span IN
       /\ task' = [task EXCEPT ![t] = IF over THEN Idle ELSE w]
       /\ queue' = [queue EXCEPT ![t] = IF w.reads /\ ~over THEN <<>> ELSE @]
    /\ UNCHANGED <<args, simVars, fswOut, netVars, made, heard, done>>
-----------------------------------------------------------------------------
(* The socket and what is behind it *)

(* read_for_all_clients; read_msg_from_socket is taken to find the message  *)
(* whole.                                                                   *)
ReadForAllClients ==
    /\ main = "asleep" /\ netIn # <<>>
    /\ netIn' = Tail(netIn)
    /\ queue' = QueueForClients(Head(netIn), "nobody")
    /\ UNCHANGED <<args, simVars, task, woken, fswOut, link, breaks, lost, made, heard, done>>

(* A peer sends, the FSW among them if it is not in the process.  What it   *)
(* sends while the main loop runs is not read before that sleeps.           *)
PeerSends(kind) ==
    /\ main = "asleep" /\ link = "up"
    /\ IF kind = "tock" THEN ~args.fsw /\ Unanswered(Net) ELSE Extra
    /\ Make(Net, kind)
    /\ netIn' = Append(netIn, New)
    /\ UNCHANGED <<args, simVars, task, woken, queue, fswOut, link, breaks, lost, heard, done>>

LinkBreaks ==
    /\ main = "asleep" /\ link = "up" /\ breaks < args.maxBreaks
    /\ link' = "down"
    /\ breaks' = breaks + 1
    /\ UNCHANGED <<args, simVars, task, woken, queue, fswOut, netIn, lost, made, heard, done>>

(* reconnect_socket: a new socket, without what was left in the old one.    *)
ReconnectSocket ==
    /\ main = "asleep" /\ link = "down"
    /\ link' = "up"
    /\ netIn' = <<>>
    /\ lost' = lost \cup ToSet(netIn)
    /\ UNCHANGED <<args, simVars, task, woken, queue, fswOut, breaks, made, heard, done>>
-----------------------------------------------------------------------------
Next == \/ MainLoop \/ FswSends("other") \/ OutputState
        \/ \E t \in Task : \/ Join(t) \/ TaskSend(t) \/ Poll(t) \/ Woken(t)
                           \/ \E w \in Waits[t] : Block(t, w)
        \/ ReadForAllClients \/ LinkBreaks \/ ReconnectSocket
        \/ \E kind \in {"tock", "other"} : PeerSends(kind)

(* The hub of gevent runs every greenlet that can run, and looks at the     *)
(* socket whenever the main loop sleeps, though it may sleep for no time;   *)
(* the FSW outside answers its ticks.                                       *)
Fairness == /\ WF_vars(MainLoop)
            /\ WF_vars(ReadForAllClients)
            /\ \A t \in Task : WF_vars(Woken(t))
            /\ WF_vars(PeerSends("tock"))

Spec == Init /\ [][Next]_vars /\ Fairness
-----------------------------------------------------------------------------
(* Properties *)

(* The lines of a file in the order in which they are to be carried out,    *)
(* with a load in front of what it loads; flat has that of each file.       *)
FlatOf(name, flat) ==
    LET lines == Files[name]
        rest[left \in 0 .. Len(lines)] ==
          IF left = 0 THEN <<>>
          ELSE LET line == lines[Len(lines) - left + 1]
               IN  <<line>> \o (IF line.command = "load" THEN flat[line.option] ELSE <<>>)
                            \o rest[left - 1]
    IN  rest[Len(lines)]

Flat[name \in DOMAIN Files] == FlatOf(name, Flat)

(* The commands among such lines, each with the time when it is due         *)
Planned(lines) ==
    LET upTo[i \in 0 .. Len(lines)] ==
          IF i = 0 THEN [due |-> 0, commands |-> <<>>]
          ELSE LET line == lines[i]
                   due == upTo[i - 1].due + Delay(line)
               IN  [due |-> due,
                    commands |-> IF line.command = "load" THEN upTo[i - 1].commands
                                 ELSE Append(upTo[i - 1].commands, [line |-> line, due |-> due])]
    IN  upTo[Len(lines)].commands

(* Every command is carried out in its order, in the first step whose time  *)
(* is not more than half a step before the command's, and none that is due  *)
(* is put off, however files are nested and whatever else happens           *)
(* (sim.py:77-111, 275-282).                                                *)
CommandsInTime ==
    LET commands == Planned(Flat[args.script])
    IN  /\ \A k \in DOMAIN done :
              /\ done[k].line = commands[k].line
              /\ done[k].at + 1 >= commands[k].due
              /\ done[k].at > 0 => done[k].at - 1 < commands[k].due
        /\ main \in {"step", "fsw"} =>
              \A k \in DOMAIN commands : commands[k].due <= clock + 1 => k <= Len(done)

(* What each participant has been or will be given, in its order *)
Given(p) == heard[p] \o IF p \in Task THEN queue[p] ELSE <<>>

(* Nobody is given a message twice, nor its own, nor an answer before what  *)
(* it answers: a message comes after those its sender had sent or read,     *)
(* whichever of the paths through the simulation, the Clients and the       *)
(* socket each of them took (sim.py:391-458, client.py:122-131).            *)
CausalOrder ==
    \A p \in DOMAIN heard :
        LET given == Given(p) IN
        /\ p # Sim => \A i \in DOMAIN given : made[given[i]].from # p
        /\ \A i, j \in DOMAIN given :
              i < j => /\ given[i] # given[j]
                       /\ given[j] \notin made[given[i]].knows

(* Every message that was made is in exactly one place: logged, or on its   *)
(* way to be, or lost in a link that broke (sim.py:391-458,                 *)
(* client.py:170-182).                                                      *)
LogComplete ==
    \A m \in DOMAIN made :
        LET places == heard[Sim] \o queue[Sim] \o fswOut \o netIn
        IN  Cardinality({i \in DOMAIN places : places[i] = m})
            = (IF m \in lost THEN 0 ELSE 1)

(* A wait or a recv with a timeout takes longer than it was asked to and    *)
(* not a step more than it must: no wake-up of the event that all waiters   *)
(* clear is lost (sim_exec.py:70-77, 99; client.py:221-224).                *)
WaitsOnTime ==
    [][\A t \in Blocked :
          /\ task'[t].at # "blocked" =>
                clock - task[t].since \in task[t].span + 1 .. task[t].span + 2
          /\ t \notin woken => clock - task[t].since <= task[t].span]_vars

(* In lockstep a step begins only when the FSW has answered the ticks of    *)
(* all steps before (sim.py:363-369, 460-462).                              *)
NeverAhead ==
    args.lockstep /\ main = "fsw" =>
        LET F == IF args.fsw THEN FSW ELSE Net
            ticks == Made(Sim, "tick")
        IN  \A i \in ticks : \/ \A k \in ticks : k <= i
                             \/ \E j \in Made(F, "tock") : i \in made[j].knows

(* The simulation keeps making steps until the script exits (or its bound   *)
(* is reached), unless the answer to a tick has to come through a link that *)
(* broke (sim.py:358-385).                                                  *)
TimeGoesOn == []<>( \/ main = "fsw"
                    \/ main = "exit" \/ now >= args.until
                    \/ args.lockstep /\ ~args.fsw /\ breaks > 0 )
=============================================================================
