---------------------------- MODULE ScriptReader -----------------------------
(***************************************************************************)
(* The script of a simulation, as ScriptReader reads it                    *)
(* (msgtools/sim/sim.py:22-111): lines [dt] command [option] in files that *)
(* load one another.  A line is due dt after the line read before it.      *)
(*                                                                         *)
(* Times are in halves of the simulation's step.  A file is the sequence   *)
(* of its lines that are neither blank nor comments, all of them valid: a  *)
(* line that is not ends the program.                                      *)
(***************************************************************************)
EXTENDS Integers, Sequences, FiniteSetsExt

CONSTANT Files    (* the lines of each file: records of dt, command, option  *)

(* sleep and delay may have their time as an option instead of in front.    *)
Delay(line) == IF line.command \in {"sleep", "delay"} /\ line.dt = 0
               THEN line.option ELSE line.dt

Lines(name) == {Files[name][i] : i \in DOMAIN Files[name]}

(* The times are not negative, the files that are loaded exist, and no file *)
(* loads itself, not even through others, which the program would do until  *)
(* it can open no more of them.                                             *)
ASSUME ScriptAssumption ==
    /\ IsFiniteSet(DOMAIN Files)
    /\ \A name \in DOMAIN Files :
         /\ Files[name] \in Seq(Lines(name))
         /\ \A line \in Lines(name) : /\ Delay(line) \in Nat
                                      /\ line.command = "load" => line.option \in DOMAIN Files
    /\ \E depth \in [DOMAIN Files -> 0 .. Cardinality(DOMAIN Files)] :
         \A name \in DOMAIN Files : \A line \in Lines(name) :
             line.command = "load" => depth[line.option] < depth[name]

(* _script_files, _line and its exec_time, which is _last_time as well; no  *)
(* files are open once the last line was taken.                             *)
Ended(reader) == reader.files = <<>>

(* _read_line: files that are read to their end are closed, and the parent  *)
(* goes on behind the line that loaded them.                                *)
ReadLine(files, time) ==
    LET unread == {d \in DOMAIN files : files[d].pos < Len(Files[files[d].name])}
    IN  IF unread = {} THEN [files |-> <<>>, line |-> <<>>, due |-> time]
        ELSE LET d == Max(unread)
                 line == Files[files[d].name][files[d].pos + 1]
             IN  [files |-> [SubSeq(files, 1, d) EXCEPT ![d].pos = @ + 1],
                  line |-> line, due |-> time + Delay(line)]

NextLine(reader) == ReadLine(reader.files, reader.due)

OpenFile(files, name) == Append(files, [name |-> name, pos |-> 0])

StartReading(name, time) == ReadLine(OpenFile(<<>>, name), time)

IsDue(reader, t) == ~Ended(reader) /\ t >= reader.due

(* get_next_command, its loop over one line that loads another file.        *)
Load(reader) == ReadLine(OpenFile(reader.files, reader.line.option), reader.due)
=============================================================================
