---------------------------- MODULE StreamFraming ----------------------------
(***************************************************************************)
(* Messages over the TCP connection of an application and the hub: each    *)
(* side writes whole messages, the network brings their bytes in pieces,   *)
(* and the reader cuts the messages out again.  The hub reads in           *)
(* TcpClientConnection.onReadyRead (msgtools/server/TcpServer.py), a new   *)
(* object for each connection; the application reads in                    *)
(* ClientConnection._readRxBuffer (msgtools/lib/client_connection.py), one *)
(* object for all its connections.                                         *)
(*                                                                         *)
(* A byte is a position in the stream of the connection.  rxBuffer holds   *)
(* the `have' bytes after position `pos'; bytes of an earlier connection   *)
(* lie before position 0.                                                  *)
(***************************************************************************)
EXTENDS Integers, Sequences

CONSTANTS HdrSize,     (* Messaging.hdrSize                                  *)
          Lengths,     (* lengths of message bodies                          *)
          MaxMessages, (* bound: messages in one direction of a connection   *)
          MaxOpens     (* bound: connections                                 *)

ASSUME FramingAssumption == /\ HdrSize \in Nat \ {0}
                            /\ Lengths \subseteq Nat
                            /\ MaxMessages \in Nat
                            /\ MaxOpens \in Nat

Reader == {"hub", "app"}

NoHeader == -1

VARIABLES open,      (* the connection is up                                 *)
          opens,     (* connections so far                                   *)
          written,   (* written[r]: where each message for r ends            *)
          arrived,   (* arrived[r]: bytes in r's socket since the opening    *)
          running,   (* running[r]: r's readyRead slot is running            *)
          pos, have, (* r's rxBuffer                                         *)
          bodyLen,   (* what the header in r's rxBuffer says, or NoHeader    *)
          stale,     (* stale[r]: length of rxBuffer at the opening          *)
          delivered  (* delivered[r]: the bytes r has made messages of       *)

vars == <<open, opens, written, arrived, running, pos, have, bodyLen, stale, delivered>>

Init == /\ open = FALSE
        /\ opens = 0
        /\ written = [r \in Reader |-> <<>>]
        /\ arrived = [r \in Reader |-> 0]
        /\ running = [r \in Reader |-> FALSE]
        /\ pos = [r \in Reader |-> 0]
        /\ have = [r \in Reader |-> 0]
        /\ bodyLen = [r \in Reader |-> NoHeader]
        /\ stale = [r \in Reader |-> 0]
        /\ delivered = [r \in Reader |-> <<>>]
-----------------------------------------------------------------------------
(* Where message k for r begins, and where the stream ends.                 *)
Begin(r, k) == IF k = 1 THEN 0 ELSE written[r][k - 1]
End(r) == Begin(r, Len(written[r]) + 1)

(* The length a header at position p tells: that of the message that begins *)
(* there; bytes of other places make any header.                            *)
HeaderAt(r, p) ==
    LET here == {k \in DOMAIN written[r] : Begin(r, k) = p}
    IN  IF here = {} THEN Lengths
        ELSE {written[r][k] - p - HdrSize : k \in here}

(* bytesAvailable(): what arrived and is not in rxBuffer.                   *)
Available(r) == arrived[r] - (pos[r] + have[r])
-----------------------------------------------------------------------------
(* SendMsg and sendMsg hand the whole message to the socket.                *)
Send(r, length) ==
    /\ open
    /\ Len(written[r]) < MaxMessages
    /\ written' = [written EXCEPT ![r] = Append(@, End(r) + HdrSize + length)]
    /\ UNCHANGED <<open, opens, arrived, running, pos, have, bodyLen, stale, delivered>>

(* Up to n bytes have come, and readyRead is emitted.  The slot runs in the *)
(* event loop that fills the socket's buffer: nothing comes while it runs.  *)
ReadyRead(r, n) ==
    /\ open
    /\ ~running[r]
    /\ arrived[r] < n /\ n <= End(r)
    /\ arrived' = [arrived EXCEPT ![r] = n]
    /\ running' = [running EXCEPT ![r] = TRUE]
    /\ UNCHANGED <<open, opens, written, pos, have, bodyLen, stale, delivered>>

(* The slot returns with `size' bytes in rxBuffer. *)
Return(r, size, length) ==
    /\ running' = [running EXCEPT ![r] = FALSE]
    /\ have' = [have EXCEPT ![r] = size]
    /\ bodyLen' = [bodyLen EXCEPT ![r] = length]
    /\ UNCHANGED <<pos, delivered>>

(* Slip: one message for each readyRead. *)
EmitAndReturn(r, size) ==
    /\ delivered' = [delivered EXCEPT ![r] = Append(@, <<pos[r], pos[r] + size>>)]
    /\ pos' = [pos EXCEPT ![r] = @ + size]
    /\ have' = [have EXCEPT ![r] = 0]
    /\ bodyLen' = [bodyLen EXCEPT ![r] = NoHeader]
    /\ running' = [running EXCEPT ![r] = FALSE]

(* The signal is emitted, rxBuffer is cleared and the loop begins again.    *)
Emit(r, size) ==
    /\ delivered' = [delivered EXCEPT ![r] = Append(@, <<pos[r], pos[r] + size>>)]
    /\ pos' = [pos EXCEPT ![r] = @ + size]
    /\ have' = [have EXCEPT ![r] = 0]
    /\ bodyLen' = [bodyLen EXCEPT ![r] = NoHeader]
    /\ UNCHANGED running

(* GetDataLength() of the header in rxBuffer, which is the same until the   *)
(* message is whole.                                                        *)
DataLength(r) == IF bodyLen[r] = NoHeader THEN HeaderAt(r, pos[r]) ELSE {bodyLen[r]}

(* One turn of the hub's loop: a header or a body is read when all of it is *)
(* there.                                                                   *)
HubTurn(r) ==
    IF have[r] < HdrSize /\ Available(r) < HdrSize
    THEN Return(r, have[r], bodyLen[r])
    ELSE \E length \in DataLength(r) :
            IF have[r] + Available(r) < HdrSize + length
            THEN Return(r, IF have[r] < HdrSize THEN HdrSize ELSE have[r], length)
            ELSE Emit(r, HdrSize + length)

(* Slip: there is enough once the body's length has come, the header's not  *)
(* added; the read takes what is there.                                     *)
AppTurnTakesLess(r) ==
    LET all == have[r] + Available(r)
    IN  IF Available(r) = 0 \/ all < HdrSize
        THEN Return(r, all, bodyLen[r])
        ELSE \E length \in DataLength(r) :
                IF all < length THEN Return(r, all, length)
                ELSE Emit(r, IF all < HdrSize + length THEN all ELSE HdrSize + length)

(* One turn of the application's loop: what is there is read, up to the end *)
(* of the header, then up to the end of the body.                           *)
AppTurn(r) ==
    LET all == have[r] + Available(r)
    IN  IF Available(r) = 0 \/ all < HdrSize
        THEN Return(r, all, bodyLen[r])
        ELSE \E length \in DataLength(r) :
                IF all < HdrSize + length
                THEN Return(r, all, length)
                ELSE Emit(r, HdrSize + length)

Turn(r) ==
    /\ running[r]
    /\ IF r = "hub" THEN HubTurn(r) ELSE AppTurn(r)
    /\ UNCHANGED <<open, opens, written, arrived, stale>>
-----------------------------------------------------------------------------
(* OpenConnection: the hub makes a new object for the connection, the       *)
(* application keeps rx_buf.                                                *)
OpenConnection ==
    /\ ~open
    /\ opens < MaxOpens
    /\ \A r \in Reader : ~running[r]
    /\ open' = TRUE
    /\ opens' = opens + 1
    /\ written' = [r \in Reader |-> <<>>]
    /\ arrived' = [r \in Reader |-> 0]
    /\ have' = [have EXCEPT !["hub"] = 0]
    /\ bodyLen' = [bodyLen EXCEPT !["hub"] = NoHeader]
    /\ stale' = have'
    /\ pos' = [r \in Reader |-> 0 - have'[r]]
    /\ delivered' = [r \in Reader |-> <<>>]
    /\ UNCHANGED running

(* CloseConnection in the application, or removeClient in the hub: r's user *)
(* closes between two slots of r.  What has not come to the other side is   *)
(* lost, and r reads no more.                                               *)
CloseConnection(r) ==
    /\ open
    /\ ~running[r]
    /\ open' = FALSE
    /\ UNCHANGED <<opens, written, arrived, running, pos, have, bodyLen, stale, delivered>>

Next == \/ \E r \in Reader : \/ \E length \in Lengths : Send(r, length)
                             \/ \E n \in 1 .. End(r) : ReadyRead(r, n)
                             \/ Turn(r)
                             \/ CloseConnection(r)
        \/ OpenConnection

(* The network brings what was written, and event loops run.                *)
Fairness == \A r \in Reader : /\ WF_vars(\E n \in 1 .. End(r) : ReadyRead(r, n))
                              /\ WF_vars(Turn(r))

Spec == Init /\ [][Next]_vars /\ Fairness
-----------------------------------------------------------------------------
TypeOK == /\ open \in BOOLEAN
          /\ opens \in 0 .. MaxOpens
          /\ written \in [Reader -> Seq(Nat)]
          /\ arrived \in [Reader -> Nat]
          /\ running \in [Reader -> BOOLEAN]
          /\ pos \in [Reader -> Int]
          /\ have \in [Reader -> Nat]
          /\ bodyLen \in [Reader -> Lengths \cup {NoHeader}]
          /\ stale \in [Reader -> Nat]
          /\ delivered \in [Reader -> Seq(Int \X Int)]

(***************************************************************************)
(* However the network cuts the bytes, a reader whose buffer was empty     *)
(* when the connection opened is given the messages that were written,     *)
(* whole and in order; the hub is given no others in any case              *)
(* (TcpServer.py:61, client_connection.py:105: "if we got this far, we     *)
(* have a whole message!").                                                *)
(***************************************************************************)
WholeMessages ==
    \A r \in Reader :
       r = "hub" \/ stale[r] = 0 =>
         /\ Len(delivered[r]) <= Len(written[r])
         /\ \A k \in DOMAIN delivered[r] : delivered[r][k] = <<Begin(r, k), written[r][k]>>

(***************************************************************************)
(* Every message is emitted in the end if the connection stays up: no slot *)
(* returns with a whole message in the socket.                             *)
(***************************************************************************)
AllEmitted ==
    \A r \in Reader :
       (stale[r] = 0 /\ Len(delivered[r]) < Len(written[r]))
          ~> (Len(delivered[r]) = Len(written[r]) \/ ~open)
=============================================================================
