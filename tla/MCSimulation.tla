---------------------------- MODULE MCSimulation -----------------------------
(* An instance of Simulation for TLC: a script that loads another, run with *)
(* FSW in the process and behind the server, in lockstep, freely and as     *)
(* fast as possible.                                                        *)
EXTENDS Simulation

MCFiles ==
    [main  |-> << [dt |-> 2, command |-> "send",  option |-> 0],
                  [dt |-> 0, command |-> "load",  option |-> "child"],
                  [dt |-> 1, command |-> "set",   option |-> 0] >>,
     child |-> << [dt |-> 0, command |-> "delay", option |-> 1],
                  [dt |-> 0, command |-> "sleep", option |-> 0] >>,
     stop  |-> << [dt |-> 3, command |-> "exit",  option |-> 0] >>]

MCWaits == [t \in Task |-> {[reads |-> t = "b", span |-> IF t = "a" THEN 1 ELSE 2]}]

Run(lockstep, fsw, asap, script, until, maxBreaks, maxMade) ==
    [lockstep |-> lockstep, fsw |-> fsw, asap |-> asap, script |-> script,
     until |-> until, maxBreaks |-> maxBreaks, maxMade |-> maxMade]

MCConfigs == { Run(TRUE, TRUE, FALSE, "main", 6, 0, 1),
               Run(TRUE, FALSE, FALSE, "main", 4, 0, 0),
               Run(FALSE, FALSE, FALSE, "main", 4, 1, 2),
               Run(TRUE, TRUE, TRUE, "main", 6, 0, 2),
               Run(FALSE, TRUE, TRUE, "stop", 6, 0, 1) }
=============================================================================
