-------------------------- MODULE CanFragmentation --------------------------
(***************************************************************************)
(* How the CAN plugin cuts a message into CAN FD frames                    *)
(* (msgtools/server/CanPlugin.py, class CanFragmentation): the sizes, the  *)
(* coding of frame lengths, and the frames as a function of the length.    *)
(* Bytes of a body are positions 0 .. length - 1.                          *)
(***************************************************************************)
EXTENDS Naturals, Sequences

CONSTANTS MAX_PACKET_SIZE, (* bytes in a frame                               *)
          FragHdrSize,     (* bytes of the header of every fragment          *)
          StartHdrSize,    (* more bytes of header in the first fragment     *)
          MaxSequence,     (* largest SequenceNumber the header can hold     *)
          MaxStreamID      (* largest StreamID the header can hold           *)

ASSUME SizeAssumption ==
    /\ MAX_PACKET_SIZE \in Nat /\ FragHdrSize \in Nat /\ StartHdrSize \in Nat
    /\ MAX_PACKET_SIZE > FragHdrSize + StartHdrSize
    /\ MaxSequence \in Nat \ {0, 1}
    /\ MaxStreamID \in Nat

(* The largest length the table below can code; the code takes it whole.   *)
ASSUME CodingAssumption == MAX_PACKET_SIZE <= 64

MAX_FRAG_PACKET_SIZE == MAX_PACKET_SIZE - FragHdrSize
MAX_FRAG_FIRST_PACKET_SIZE == MAX_FRAG_PACKET_SIZE - StartHdrSize
MAX_MSG_SIZE == MAX_FRAG_FIRST_PACKET_SIZE + (MaxSequence - 1) * MAX_FRAG_PACKET_SIZE

(* DLC_LENGTH_CODING[c + 1] is the number of bytes in a frame of length     *)
(* code c; DLC_FROM_LENGTH the code the table holds for a number of bytes.  *)
DLC_LENGTH_CODING == <<0, 1, 2, 3, 4, 5, 6, 7, 8, 12, 16, 20, 24, 32, 48, 64>>

DLC_FROM_LENGTH(length) ==
    CASE length <= 8  -> length
      [] length \in 9 .. 12  -> 9
      [] length \in 13 .. 16 -> 10
      [] length \in 17 .. 20 -> 11
      [] length \in 21 .. 24 -> 12
      [] length \in 25 .. 32 -> 13
      [] length \in 33 .. 48 -> 14
      [] OTHER -> 15

length_decrement(length) == DLC_LENGTH_CODING[DLC_FROM_LENGTH(length) + 1] - length

(* Slip: only the total length, not the shorter first frame, is counted. *)
packet_count_flat(msg_len) ==
    IF msg_len <= MAX_PACKET_SIZE THEN 1
    ELSE (msg_len \div MAX_FRAG_PACKET_SIZE)
         + (IF msg_len % MAX_FRAG_PACKET_SIZE > 0 THEN 1 ELSE 0)

packet_count(msg_len) ==
    IF msg_len <= MAX_PACKET_SIZE THEN 1
    ELSE LET total == msg_len + (MAX_FRAG_PACKET_SIZE - MAX_FRAG_FIRST_PACKET_SIZE)
         IN  (total \div MAX_FRAG_PACKET_SIZE)
             + (IF total % MAX_FRAG_PACKET_SIZE > 0 THEN 1 ELSE 0)

Least(a, b) == IF a <= b THEN a ELSE b

(* The bytes a frame has for the body, when bytes_sent are in frames before. *)
max_packet_size(msg_len, bytes_sent) ==
    IF packet_count(msg_len) = 1 THEN MAX_PACKET_SIZE
    ELSE IF bytes_sent = 0 THEN MAX_FRAG_FIRST_PACKET_SIZE ELSE MAX_FRAG_PACKET_SIZE

(* Slip: the start header is not counted against the first frame. *)
header_size_without_start(msg_len, bytes_sent) ==
    IF packet_count(msg_len) = 1 THEN 0 ELSE FragHdrSize

header_size(msg_len, bytes_sent) ==
    IF packet_count(msg_len) = 1 THEN 0
    ELSE IF bytes_sent = 0 THEN FragHdrSize + StartHdrSize ELSE FragHdrSize

next_stream_id(id) == IF id + 1 > MaxStreamID THEN 0 ELSE id + 1

(* One turn of the loop of fragment(): the frame that carries the body from *)
(* bytes_sent on, as packet number packets_sent.                            *)
Packet(msg_len, bytes_sent, packets_sent, stream) ==
    LET size == Least(msg_len - bytes_sent, max_packet_size(msg_len, bytes_sent))
        data == header_size(msg_len, bytes_sent) + size
    IN  [fragmented |-> packet_count(msg_len) > 1,
         newStream  |-> bytes_sent = 0,
         stream     |-> stream,
         sequence   |-> IF bytes_sent = 0 THEN packet_count(msg_len) ELSE packets_sent,
         first      |-> bytes_sent,
         size       |-> size,
         decrement  |-> length_decrement(data),
         wire       |-> data + length_decrement(data)]

(* The frames fragment() makes, in closed form; none for an empty message   *)
(* or one over MAX_MSG_SIZE.  The receiver never looks at the stream id,    *)
(* which is left out here as 0.                                             *)
StartOf(k) == IF k = 1 THEN 0 ELSE MAX_FRAG_FIRST_PACKET_SIZE + (k - 2) * MAX_FRAG_PACKET_SIZE

Frames(msg_len) ==
    IF msg_len \notin 1 .. MAX_MSG_SIZE THEN <<>>
    ELSE [k \in 1 .. packet_count(msg_len) |-> Packet(msg_len, StartOf(k), k - 1, 0)]
=============================================================================
