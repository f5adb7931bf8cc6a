--------------------------- MODULE MessageLogger ---------------------------
(***************************************************************************)
(* The log of the Android server (MessageLogger).  Every method runs under *)
(* m_Lock and is one step of the thread that calls it.  What is written is *)
(* the number of a message.  Making a file, opening it, writing to it and  *)
(* deleting it may fail at any time, as on a full disk.                    *)
(***************************************************************************)
EXTENDS Naturals, Sequences

CONSTANTS LogFile, (* names of files                                         *)
          DotLog   (* those that end in .log                                 *)

NoFile == "no file"

ASSUME LogAssumption == DotLog \subseteq LogFile /\ NoFile \notin LogFile

VARIABLES logName, (* m_Filename, NoFile while it is null                    *)
          stored,  (* the files there are in m_LogPath                       *)
          content, (* the messages a file's stream took since it was opened, *)
                   (* whole or no more than the header                       *)
          failed   (* those of which a write to the open log raised          *)

loggerVars == <<logName, stored, content, failed>>

LoggerInit == /\ logName = NoFile
              /\ stored = {}
              /\ content = [f \in LogFile |-> <<>>]
              /\ failed = {}

(* m_IsEnabled changes with m_Filename, under the same lock. *)
IsEnabled == logName # NoFile

Opened(f) == /\ logName' = f
             /\ stored' = stored \cup {f}
             /\ content' = [content EXCEPT ![f] = <<>>]
             /\ failed' = {}

(* The file is made and cannot be opened. *)
OnlyMade(f) == /\ f \notin stored
               /\ stored' = stored \cup {f}
               /\ content' = [content EXCEPT ![f] = <<>>]
               /\ UNCHANGED <<logName, failed>>

StartLogging(f) == \/ ~IsEnabled /\ (Opened(f) \/ OnlyMade(f))
                   \/ UNCHANGED loggerVars

StopLogging == logName' = NoFile /\ failed' = {} /\ UNCHANGED <<stored, content>>

Take(m) == content' = [content EXCEPT ![logName] = Append(@, m)]

(* A write that raises, of the header or of the payload after it, is caught *)
(* and the log stays open.                                                  *)
Log(m) ==
    /\ IF ~IsEnabled THEN UNCHANGED <<content, failed>>
       ELSE \/ Take(m) /\ UNCHANGED failed
            \/ Take(m) /\ failed' = failed \cup {m}
            \/ UNCHANGED content /\ failed' = failed \cup {m}
    /\ UNCHANGED <<logName, stored>>

(* Slip: the file being written is not spared. *)
ClearAllLogs == stored' = stored \ DotLog /\ UNCHANGED <<logName, content, failed>>

ClearLogs ==
    /\ \E deleted \in SUBSET (DotLog \ {logName}) : stored' = stored \ deleted
    /\ UNCHANGED <<logName, content, failed>>
=============================================================================
