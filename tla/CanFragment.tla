---------------------------- MODULE CanFragment -----------------------------
(***************************************************************************)
(* The loop of CanFragmentation.fragment() run on a message of any length, *)
(* one frame a step, from any stream id the object may have reached.       *)
(***************************************************************************)
EXTENDS CanFragmentation

VARIABLES msg_len, bytes_sent, packets_sent, frag_stream_id, packets, pc

loop_vars == <<msg_len, bytes_sent, packets_sent, frag_stream_id, packets, pc>>

LoopInit == /\ msg_len \in 0 .. MAX_MSG_SIZE + 1
            /\ frag_stream_id \in 0 .. MaxStreamID
            /\ bytes_sent = 0
            /\ packets_sent = 0
            /\ packets = <<>>
            /\ pc = "check"

CheckSize ==
    /\ pc = "check"
    /\ pc' = IF msg_len > MAX_MSG_SIZE THEN "too big" ELSE "loop"
    /\ UNCHANGED <<msg_len, bytes_sent, packets_sent, frag_stream_id, packets>>

(* Slip: each frame after the first starts one byte late. *)
MakePacketSkips ==
    /\ pc = "loop"
    /\ bytes_sent < msg_len
    /\ LET p == Packet(msg_len, bytes_sent, packets_sent, frag_stream_id)
       IN  /\ packets' = Append(packets, p)
           /\ bytes_sent' = bytes_sent + p.size + 1
           /\ frag_stream_id' = IF p.fragmented THEN next_stream_id(frag_stream_id)
                                ELSE frag_stream_id
    /\ packets_sent' = packets_sent + 1
    /\ UNCHANGED <<msg_len, pc>>

(* Slip: frames are not counted. *)
MakePacketUncounted ==
    /\ pc = "loop"
    /\ bytes_sent < msg_len
    /\ LET p == Packet(msg_len, bytes_sent, packets_sent, frag_stream_id)
       IN  /\ packets' = Append(packets, p)
           /\ bytes_sent' = bytes_sent + p.size
           /\ frag_stream_id' = IF p.fragmented THEN next_stream_id(frag_stream_id)
                                ELSE frag_stream_id
    /\ UNCHANGED <<msg_len, packets_sent, pc>>

MakePacket ==
    /\ pc = "loop"
    /\ bytes_sent < msg_len
    /\ LET p == Packet(msg_len, bytes_sent, packets_sent, frag_stream_id)
       IN  /\ packets' = Append(packets, p)
           /\ bytes_sent' = bytes_sent + p.size
           /\ frag_stream_id' = IF p.fragmented THEN next_stream_id(frag_stream_id)
                                ELSE frag_stream_id
    /\ packets_sent' = packets_sent + 1
    /\ UNCHANGED <<msg_len, pc>>

Return ==
    /\ pc = "loop"
    /\ bytes_sent >= msg_len
    /\ pc' = "done"
    /\ UNCHANGED <<msg_len, bytes_sent, packets_sent, frag_stream_id, packets>>

LoopNext == CheckSize \/ MakePacket \/ Return

LoopSpec == LoopInit /\ [][LoopNext]_loop_vars
-----------------------------------------------------------------------------
(***************************************************************************)
(* The frames hold the body, every byte once and in order: each begins     *)
(* where the one before ended, and together they reach bytes_sent          *)
(* (CanPlugin.py:159-202).                                                 *)
(***************************************************************************)
FramesCoverBody ==
    /\ \A k \in DOMAIN packets :
         /\ packets[k].size > 0
         /\ packets[k].first = IF k = 1 THEN 0 ELSE packets[k-1].first + packets[k-1].size
    /\ packets # <<>> =>
         LET last == packets[Len(packets)] IN last.first + last.size = bytes_sent

(***************************************************************************)
(* The number of frames packet_count() foresaw, which the first of them    *)
(* announces, is the number the loop makes, and every sequence number fits *)
(* its four bits (CanPlugin.py:71-76, 117-118, 174).                       *)
(***************************************************************************)
CountForeseen ==
    /\ pc = "done" /\ msg_len > 0 => Len(packets) = packet_count(msg_len)
    /\ \A k \in DOMAIN packets : packets[k].fragmented => packets[k].sequence <= MaxSequence

(***************************************************************************)
(* The loop makes the frames of the closed form CanLink sends, but for the *)
(* stream ids (CanPlugin.py:159-202).                                      *)
(***************************************************************************)
LoopMakesFrames ==
    pc \in {"done", "too big"} =>
        [k \in DOMAIN packets |-> [packets[k] EXCEPT !.stream = 0]] = Frames(msg_len)

(***************************************************************************)
(* Headers and body fit a frame, the padded frame has a length CAN FD can  *)
(* code, no shorter one would do, and what the headers hold fits their     *)
(* bits: the decrement the receiver subtracts, and the stream id, however  *)
(* long the object has counted (CanPlugin.py:44-69, 171-197).              *)
(***************************************************************************)
FramesFitWire ==
    \A k \in DOMAIN packets :
        LET f == packets[k]
            data == f.size + (IF ~f.fragmented THEN 0
                              ELSE IF f.newStream THEN FragHdrSize + StartHdrSize
                              ELSE FragHdrSize)
            codes == {DLC_LENGTH_CODING[c] : c \in DOMAIN DLC_LENGTH_CODING}
        IN  /\ f.wire \in codes
            /\ f.wire - f.decrement = data
            /\ \A n \in codes : n >= data => n >= f.wire
            /\ f.decrement <= 15 /\ f.stream \in 0 .. MaxStreamID
=============================================================================
