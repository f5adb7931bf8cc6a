----------------------------- MODULE SerialLink ------------------------------
(***************************************************************************)
(* The serial port plugin (msgtools/server/SerialPlugin.py): a device      *)
(* writes messages on a line that drops bytes, the port is closed by       *)
(* errors and by the user, opened again by the user and by a timer, and    *)
(* onReadyRead finds the messages among the bytes that came.               *)
(*                                                                         *)
(* A byte is its position, from 1, in all that the device writes.  The     *)
(* start sequence and the checksums of HeaderHelper tell a header and a    *)
(* body from any other bytes (msgtools/lib/header_translator.py:48-71).    *)
(***************************************************************************)
EXTENDS Integers, Sequences

CONSTANTS HdrSize,     (* SerialHeader.SIZE                                  *)
          Lengths,     (* lengths of message bodies                          *)
          MaxLength,   (* the longest                                        *)
          MaxMessages, (* bound: messages the device writes                  *)
          MaxLosses,   (* bound: bytes the line drops                        *)
          MaxEvents    (* bound: errors, buttons pressed and ports chosen    *)

ASSUME SerialAssumption == /\ HdrSize \in Nat \ {0}
                           /\ Lengths \subseteq Nat
                           /\ MaxLength \in Lengths
                           /\ \A length \in Lengths : length <= MaxLength
                           /\ MaxMessages \in Nat
                           /\ MaxLosses \in Nat
                           /\ MaxEvents \in Nat

NoHeader == 0

VARIABLES written,   (* where each message ends                              *)
          came,      (* bytes that have left the line                        *)
          lost,      (* those of them the receiver never reads               *)
          portOpen,  (* serialPort.isOpen()                                  *)
          buffer,    (* the bytes in serialPort                              *)
          slot,      (* onReadyRead: idle, pending or running                  *)
          tmpRxHdr,  (* the message whose header is read, or NoHeader        *)
          delivered, (* the messages emitted                                 *)
          reopening, (* reopenTimer.isActive()                               *)
          asked,     (* what the user asked for last: an open port or not    *)
          losses, events

port == <<portOpen, reopening, asked>>
vars == <<written, came, lost, buffer, slot, tmpRxHdr, delivered, port, losses, events>>

Init == /\ written = <<>>
        /\ came = 0
        /\ lost = {}
        /\ portOpen = FALSE
        /\ buffer = <<>>
        /\ slot = "idle"
        /\ tmpRxHdr = NoHeader
        /\ delivered = <<>>
        /\ reopening = FALSE
        /\ asked = FALSE
        /\ losses = 0
        /\ events = 0
-----------------------------------------------------------------------------
(* Message k is the bytes Begin(k) + 1 .. written[k].                       *)
Begin(k) == IF k = 1 THEN 0 ELSE written[k - 1]
End == Begin(Len(written) + 1)
DataLength(k) == written[k] - Begin(k) - HdrSize

Write(length) ==
    /\ Len(written) < MaxMessages
    /\ written' = Append(written, End + HdrSize + length)
    /\ UNCHANGED <<came, lost, buffer, slot, tmpRxHdr, delivered, port, losses, events>>

(* The next byte comes to an open port, which will emit readyRead; a closed *)
(* one takes nothing.                                                       *)
Come ==
    /\ slot # "running"
    /\ came < End
    /\ came' = came + 1
    /\ IF portOpen
       THEN buffer' = Append(buffer, came + 1) /\ slot' = "pending" /\ UNCHANGED lost
       ELSE lost' = lost \cup {came + 1} /\ UNCHANGED <<buffer, slot>>
    /\ UNCHANGED <<written, tmpRxHdr, delivered, port, losses, events>>

(* The line drops the next byte. *)
Drop ==
    /\ came < End
    /\ losses < MaxLosses
    /\ losses' = losses + 1
    /\ came' = came + 1
    /\ lost' = lost \cup {came + 1}
    /\ UNCHANGED <<written, buffer, slot, tmpRxHdr, delivered, port, events>>

(* The slot begins, with all that has come.                                 *)
ReadyRead ==
    /\ slot = "pending"
    /\ slot' = "running"
    /\ UNCHANGED <<written, came, lost, buffer, tmpRxHdr, delivered, port, losses, events>>
-----------------------------------------------------------------------------
(* header_valid and body_valid: the bytes s are those of message k after    *)
(* its first `from'.                                                        *)
Bytes(s, k, from) == \A i \in DOMAIN s : s[i] = Begin(k) + from + i

HeaderValid(s) == \E k \in DOMAIN written : Bytes(s, k, 0)

Peek == SubSeq(buffer, 1, HdrSize)
Rest(n) == SubSeq(buffer, n + 1, Len(buffer))

Searching == slot = "running" /\ tmpRxHdr = NoHeader /\ Len(buffer) >= HdrSize

(* Slip: the whole of what is no header is thrown away. *)
ThrowAwayAll ==
    /\ Searching
    /\ ~HeaderValid(Peek)
    /\ buffer' = Rest(HdrSize)
    /\ UNCHANGED <<written, came, lost, slot, tmpRxHdr, delivered, port, losses, events>>

(* One byte is thrown away when the header that is peeked is not valid.     *)
ThrowAway ==
    /\ Searching
    /\ ~HeaderValid(Peek)
    /\ buffer' = Rest(1)
    /\ UNCHANGED <<written, came, lost, slot, tmpRxHdr, delivered, port, losses, events>>

ReadHeader ==
    /\ Searching
    /\ \E k \in DOMAIN written : Bytes(Peek, k, 0) /\ tmpRxHdr' = k
    /\ buffer' = Rest(HdrSize)
    /\ UNCHANGED <<written, came, lost, slot, delivered, port, losses, events>>

(* Slip: the body is not validated. *)
ReadBodyUnchecked ==
    LET length == DataLength(tmpRxHdr)
    IN  /\ slot = "running"
        /\ tmpRxHdr # NoHeader
        /\ Len(buffer) >= length
        /\ delivered' = Append(delivered, tmpRxHdr)
        /\ buffer' = Rest(length)
        /\ tmpRxHdr' = NoHeader
        /\ UNCHANGED <<written, came, lost, slot, port, losses, events>>

ReadBody ==
    LET length == DataLength(tmpRxHdr)
    IN  /\ slot = "running"
        /\ tmpRxHdr # NoHeader
        /\ Len(buffer) >= length
        /\ delivered' = IF Bytes(SubSeq(buffer, 1, length), tmpRxHdr, HdrSize)
                        THEN Append(delivered, tmpRxHdr)
                        ELSE delivered
        /\ buffer' = Rest(length)
        /\ tmpRxHdr' = NoHeader
        /\ UNCHANGED <<written, came, lost, slot, port, losses, events>>

Return ==
    /\ slot = "running"
    /\ Len(buffer) < IF tmpRxHdr = NoHeader THEN HdrSize ELSE DataLength(tmpRxHdr)
    /\ slot' = "idle"
    /\ UNCHANGED <<written, came, lost, buffer, tmpRxHdr, delivered, port, losses, events>>

OnReadyRead == ThrowAway \/ ReadHeader \/ ReadBody \/ Return
-----------------------------------------------------------------------------
(* Slip: the timer is left to stop itself when it next runs out. *)
OpenSerialPortTimed(opens) ==
    /\ portOpen' = opens
    /\ reopening' = reopening

(* Slip: the timer stops whether the port opened or not. *)
OpenSerialPortOnce(opens) ==
    /\ portOpen' = opens
    /\ reopening' = FALSE

(* _openSerialPort, if the port is closed: it opens or it cannot be opened. *)
OpenSerialPort(opens) ==
    /\ portOpen' = opens
    /\ reopening' = (reopening /\ ~opens)

(* The port closes and what it holds is gone; tmpRxHdr stays.               *)
CloseSerialPort ==
    /\ buffer' = <<>>
    /\ lost' = lost \cup {buffer[i] : i \in DOMAIN buffer}

Event == /\ slot # "running"
         /\ events < MaxEvents
         /\ events' = events + 1
         /\ UNCHANGED <<written, came, slot, tmpRxHdr, delivered, losses>>

(* openCloseSwitch, by the button or by start().                            *)
OpenCloseSwitch(opens) ==
    /\ Event
    /\ asked' = ~portOpen
    /\ IF portOpen
       THEN portOpen' = FALSE /\ CloseSerialPort /\ UNCHANGED reopening
       ELSE OpenSerialPort(opens) /\ UNCHANGED <<buffer, lost>>

(* portChanged: the port is closed, and the switch finds it closed.         *)
PortChanged(opens) ==
    /\ Event
    /\ asked' = TRUE
    /\ CloseSerialPort
    /\ OpenSerialPort(opens)

(* onSerialError, for a ReadError; other errors are ignored.                *)
OnSerialError ==
    /\ Event
    /\ portOpen
    /\ portOpen' = FALSE
    /\ CloseSerialPort
    /\ reopening' = TRUE
    /\ UNCHANGED asked

(* reopenTimer runs out.                                                    *)
Reopen(opens) ==
    /\ slot # "running"
    /\ reopening
    /\ IF portOpen
       THEN reopening' = FALSE /\ UNCHANGED portOpen
       ELSE OpenSerialPort(opens)
    /\ UNCHANGED <<written, came, lost, buffer, slot, tmpRxHdr, delivered, asked,
                   losses, events>>

Next == \/ \E length \in Lengths : Write(length)
        \/ Come \/ Drop \/ ReadyRead
        \/ OnReadyRead
        \/ \E opens \in BOOLEAN : \/ OpenCloseSwitch(opens)
                                  \/ PortChanged(opens)
                                  \/ Reopen(opens)
        \/ OnSerialError

(* The event loop runs slots, the timer goes on until it is stopped, and    *)
(* the port can be opened again and again.                                  *)
Fairness == WF_vars(OnReadyRead) /\ SF_vars(Reopen(TRUE))

Spec == Init /\ [][Next]_vars /\ Fairness
-----------------------------------------------------------------------------
TypeOK == /\ written \in Seq(Nat)
          /\ came \in Nat
          /\ lost \subseteq 1 .. came
          /\ portOpen \in BOOLEAN
          /\ buffer \in Seq(Nat)
          /\ slot \in {"idle", "pending", "running"}
          /\ tmpRxHdr \in Nat
          /\ delivered \in Seq(Nat)
          /\ reopening \in BOOLEAN
          /\ asked \in BOOLEAN
          /\ losses \in 0 .. MaxLosses
          /\ events \in 0 .. MaxEvents

(***************************************************************************)
(* Whatever the line drops and whenever the port closes, what is emitted   *)
(* are messages of the device, none twice, in its order, and none that     *)
(* lacks a byte.                                                           *)
(***************************************************************************)
SentInOrder ==
    /\ \A i, j \in DOMAIN delivered : i < j => delivered[i] < delivered[j]
    /\ \A i \in DOMAIN delivered :
          /\ delivered[i] \in DOMAIN written
          /\ \A p \in Begin(delivered[i]) + 1 .. written[delivered[i]] : p \notin lost

(***************************************************************************)
(* The receiver finds its place again (header_translator.py:29: the start  *)
(* sequence is "useful for sending data across noisy datalinks that can    *)
(* drop bytes"): a message is emitted if nothing of it is lost, nor of as  *)
(* many bytes before it as the longest body has.                           *)
(***************************************************************************)
Read(p) == p <= came /\ \A i \in DOMAIN buffer : p < buffer[i]

FindsItsPlace ==
    \A k \in DOMAIN written :
       (/\ slot # "running"
        /\ Read(written[k])
        /\ \A p \in lost : p + MaxLength <= Begin(k) \/ written[k] < p)
         => \E i \in DOMAIN delivered : delivered[i] = k

(***************************************************************************)
(* A port the user has closed stays closed until the user asks for an open *)
(* one, whatever errors and timers came before.                            *)
(***************************************************************************)
UserCloseStands == ~asked => ~portOpen

(***************************************************************************)
(* After an error the port is open again in the end, if it can be opened   *)
(* and the user does not close it.                                         *)
(***************************************************************************)
PortReopens == (reopening ~> portOpen)
=============================================================================
