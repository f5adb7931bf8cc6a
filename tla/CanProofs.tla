------------------------------ MODULE CanProofs -------------------------------
(***************************************************************************)
(* Proofs about the CAN plugin.  Of CanFragment: the frames of fragment()  *)
(* hold the body, are as many as foreseen, are those of the closed form    *)
(* CanLink sends, and fit the wire.  Of CanLink: bodies never mix sources  *)
(* or ids, are as long as the message they begin with, and a message read  *)
(* whole is delivered, whatever is lost; and if nothing is, CanLink takes  *)
(* the steps of NodeLink.  All for any sizes of frames, headers and        *)
(* bodies, any nodes and any ids.                                          *)
(***************************************************************************)
EXTENDS CanFragment, CanLink, Integers, SequenceTheorems, TLAPS, WellFoundedInduction

(* A frame, with its numbers as wide as the loop alone guarantees. *)
APacket == [fragmented : BOOLEAN, newStream : BOOLEAN, stream : Int, sequence : Int,
           first : Nat, size : Nat, decrement : Int, wire : Int]

(* What the loop keeps: it never passes the end of the body. *)
LoopTypes == /\ msg_len \in Nat
             /\ bytes_sent \in 0 .. msg_len
             /\ packets \in Seq(APacket)
             /\ packets_sent \in Nat
             /\ frag_stream_id \in Int
             /\ packets = <<>> <=> bytes_sent = 0

CoverInv == LoopTypes /\ FramesCoverBody

(* A frame has room for at least one byte of the body. *)
LEMMA RoomForBody ==
  ASSUME NEW n \in Nat, NEW b \in Nat
  PROVE  max_packet_size(n, b) \in Nat /\ max_packet_size(n, b) > 0
BY SizeAssumption
   DEF max_packet_size, MAX_FRAG_PACKET_SIZE, MAX_FRAG_FIRST_PACKET_SIZE

(* The longest body and the number of frames are numbers. *)
LEMMA Bounds ==
  /\ MAX_MSG_SIZE \in Nat
  /\ \A n \in Nat : packet_count(n) \in Nat
<1>1. MAX_FRAG_PACKET_SIZE \in Nat /\ MAX_FRAG_FIRST_PACKET_SIZE \in Nat
  BY SizeAssumption DEF MAX_FRAG_PACKET_SIZE, MAX_FRAG_FIRST_PACKET_SIZE
<1>2. MAX_FRAG_PACKET_SIZE > 0 /\ MAX_FRAG_PACKET_SIZE >= MAX_FRAG_FIRST_PACKET_SIZE
  BY SizeAssumption DEF MAX_FRAG_PACKET_SIZE, MAX_FRAG_FIRST_PACKET_SIZE
<1>3. MAX_MSG_SIZE \in Nat
  <2>1. MaxSequence - 1 \in Nat
    BY SizeAssumption
  <2>2. (MaxSequence - 1) * MAX_FRAG_PACKET_SIZE \in Nat
    BY <1>1, <2>1
  <2> QED BY <1>1, <2>2 DEF MAX_MSG_SIZE
<1>4. ASSUME NEW n \in Nat PROVE packet_count(n) \in Nat
  <2> DEFINE total == n + (MAX_FRAG_PACKET_SIZE - MAX_FRAG_FIRST_PACKET_SIZE)
  <2>1. total \in Nat
    BY <1>1, <1>2
  <2>2. total \div MAX_FRAG_PACKET_SIZE \in Nat
    BY <1>1, <1>2, <2>1
  <2> QED BY <2>2 DEF packet_count
<1> QED BY <1>3, <1>4

(* The padding of a frame is a number. *)
LEMMA DecrementNumber ==
  ASSUME NEW data \in Nat
  PROVE  length_decrement(data) \in Int
<1>1. DLC_FROM_LENGTH(data) \in 0 .. 15
  BY DEF DLC_FROM_LENGTH
<1>2. \A c \in 0 .. 15 : DLC_LENGTH_CODING[c + 1] \in Nat
  BY DEF DLC_LENGTH_CODING
<1> QED BY <1>1, <1>2 DEF length_decrement

(* The loop makes frames, of at least a byte and no more than is left. *)
LEMMA PacketIsFrame ==
  ASSUME NEW n \in Nat, NEW b \in Nat, b < n, NEW i \in Nat, NEW id \in Int
  PROVE  LET p == Packet(n, b, i, id)
         IN  /\ p \in APacket
             /\ p.first = b
             /\ p.size > 0
             /\ p.size <= n - b
<1> DEFINE size == Least(n - b, max_packet_size(n, b))
           data == header_size(n, b) + size
           fragmented == packet_count(n) > 1
           start == b = 0
           sequence == IF b = 0 THEN packet_count(n) ELSE i
           decrement == length_decrement(data)
<1>1. size \in Nat /\ size > 0 /\ size <= n - b
  <2>1. max_packet_size(n, b) \in Nat /\ max_packet_size(n, b) > 0
    BY RoomForBody
  <2> QED BY <2>1 DEF Least
<1>2. header_size(n, b) \in Nat
  BY SizeAssumption DEF header_size
<1>3. data \in Nat
  BY <1>1, <1>2
<1>4. decrement \in Int
  BY <1>3, DecrementNumber
<1>5. sequence \in Int
  BY Bounds
<1>6. fragmented \in BOOLEAN /\ start \in BOOLEAN
  BY Bounds
<1>7. Packet(n, b, i, id) =
        [fragmented |-> fragmented, newStream |-> start, stream |-> id,
         sequence |-> sequence, first |-> b, size |-> size,
         decrement |-> decrement, wire |-> data + decrement]
  BY DEF Packet
<1> HIDE DEF size, data, fragmented, start, sequence, decrement
<1>8. data + decrement \in Int
  BY <1>3, <1>4
<1> QED BY <1>1, <1>4, <1>5, <1>6, <1>7, <1>8 DEF APacket

(* The elements of a sequence with one more at its end. *)
LEMMA Appended ==
  ASSUME NEW S, NEW s \in Seq(S), NEW e \in S
  PROVE  /\ Append(s, e) \in Seq(S)
         /\ Append(s, e) # <<>>
         /\ Len(s) \in Nat
         /\ Len(Append(s, e)) = Len(s) + 1
         /\ DOMAIN s = 1 .. Len(s)
         /\ DOMAIN Append(s, e) = 1 .. Len(s) + 1
         /\ \A k \in 1 .. Len(s) : Append(s, e)[k] = s[k] /\ s[k] \in S
         /\ Append(s, e)[Len(s) + 1] = e
         /\ s = <<>> <=> Len(s) = 0
BY AppendProperties, EmptySeq, LenProperties

LEMMA CoverInit == LoopInit => CoverInv
<1> SUFFICES ASSUME LoopInit PROVE CoverInv
  OBVIOUS
<1>1. msg_len \in Nat /\ frag_stream_id \in Int
  BY Bounds, SizeAssumption DEF LoopInit
<1>2. packets \in Seq(APacket) /\ bytes_sent \in 0 .. msg_len /\ packets_sent \in Nat
  BY <1>1 DEF LoopInit
<1>3. packets = <<>> /\ bytes_sent = 0
  BY DEF LoopInit
<1>4. FramesCoverBody
  BY <1>3 DEF FramesCoverBody
<1> QED BY <1>1, <1>2, <1>3, <1>4 DEF CoverInv, LoopTypes

LEMMA CoverStep == CoverInv /\ [LoopNext]_loop_vars => CoverInv'
<1> SUFFICES ASSUME CoverInv, [LoopNext]_loop_vars
             PROVE  CoverInv'
  OBVIOUS
<1>1. CASE UNCHANGED loop_vars \/ CheckSize \/ Return
  <2>1. UNCHANGED <<msg_len, bytes_sent, packets_sent, frag_stream_id, packets>>
    BY <1>1 DEF loop_vars, CheckSize, Return
  <2> QED BY <2>1 DEF CoverInv, LoopTypes, FramesCoverBody
<1>2. CASE MakePacket
  <2> DEFINE p == Packet(msg_len, bytes_sent, packets_sent, frag_stream_id)
  <2>1. /\ bytes_sent < msg_len
        /\ packets' = Append(packets, p)
        /\ bytes_sent' = bytes_sent + p.size
        /\ frag_stream_id' \in {frag_stream_id, next_stream_id(frag_stream_id)}
        /\ packets_sent' = packets_sent + 1
        /\ msg_len' = msg_len
    BY <1>2 DEF MakePacket
  <2>2. /\ msg_len \in Nat /\ bytes_sent \in Nat
        /\ packets \in Seq(APacket)
        /\ packets_sent \in Nat /\ frag_stream_id \in Int
    BY DEF CoverInv, LoopTypes
  <2>3. p \in APacket /\ p.first = bytes_sent /\ p.size > 0 /\ p.size <= msg_len - bytes_sent
    BY <2>1, <2>2, PacketIsFrame
  <2> HIDE DEF p
  <2>4. p.size \in Nat
    BY <2>3 DEF APacket
  <2> DEFINE n == Len(packets)
  <2>5. /\ packets' \in Seq(APacket) /\ packets' # <<>>
        /\ n \in Nat /\ Len(packets') = n + 1
        /\ DOMAIN packets = 1 .. n /\ DOMAIN packets' = 1 .. n + 1
        /\ \A k \in 1 .. n : packets'[k] = packets[k] /\ packets[k] \in APacket
        /\ packets'[n + 1] = p
        /\ packets = <<>> <=> n = 0
    BY <2>1, <2>2, <2>3, Appended
  <2>6. next_stream_id(frag_stream_id) \in Int
    BY <2>2 DEF next_stream_id
  <2>7. bytes_sent' \in 0 .. msg_len /\ bytes_sent' > 0
    BY <2>1, <2>2, <2>3, <2>4
  <2>8. LoopTypes'
    <3>1. frag_stream_id' \in Int /\ packets_sent' \in Nat /\ msg_len' \in Nat
      BY <2>1, <2>2, <2>6
    <3>2. bytes_sent' \in 0 .. msg_len'
      BY <2>1, <2>7
    <3>3. packets' # <<>> /\ bytes_sent' # 0 /\ packets' \in Seq(APacket)
      BY <2>5, <2>7
    <3> QED BY <3>1, <3>2, <3>3 DEF LoopTypes
  <2>9. FramesCoverBody'
    <3>0. /\ \A k \in 1 .. n :
               /\ packets[k].size > 0
               /\ packets[k].first =
                    IF k = 1 THEN 0 ELSE packets[k-1].first + packets[k-1].size
          /\ n # 0 => packets[n].first + packets[n].size = bytes_sent
          /\ n = 0 => bytes_sent = 0
      BY <2>5 DEF CoverInv, LoopTypes, FramesCoverBody
    <3> HIDE DEF n
    <3>1. ASSUME NEW k \in 1 .. n + 1
          PROVE  /\ packets'[k].size > 0
                 /\ packets'[k].first =
                      IF k = 1 THEN 0 ELSE packets'[k-1].first + packets'[k-1].size
      <4>1. CASE k \in 1 .. n
        <5>1. packets'[k] = packets[k]
          BY <2>5, <4>1
        <5>2. k # 1 => packets'[k-1] = packets[k-1]
          <6> SUFFICES ASSUME k # 1 PROVE packets'[k-1] = packets[k-1]
            OBVIOUS
          <6>1. k - 1 \in 1 .. n
            BY <2>5, <4>1
          <6> QED BY <2>5, <6>1
        <5> QED BY <3>0, <4>1, <5>1, <5>2
      <4>2. CASE k = n + 1
        <5>1. packets'[k] = p
          BY <2>5, <4>2
        <5>2. CASE n = 0
          BY <2>3, <3>0, <4>2, <5>1, <5>2
        <5>3. CASE n # 0
          <6>1. k # 1 /\ k - 1 = n /\ n \in 1 .. n
            BY <2>5, <4>2, <5>3
          <6>2. packets'[k-1] = packets[n]
            BY <2>5, <6>1
          <6> QED BY <2>3, <3>0, <5>1, <5>3, <6>1, <6>2
        <5> QED BY <5>2, <5>3
      <4> QED BY <2>5, <3>1, <4>1, <4>2
    <3>2. packets'[Len(packets')].first + packets'[Len(packets')].size = bytes_sent'
      BY <2>1, <2>3, <2>5
    <3>3. DOMAIN packets' = 1 .. n + 1
      BY <2>5
    <3> QED BY <3>1, <3>2, <3>3 DEF FramesCoverBody
  <2> QED BY <2>8, <2>9 DEF CoverInv
<1> QED BY <1>1, <1>2 DEF LoopNext

(***************************************************************************)
(* Each frame begins where the one before ended and holds at least a byte, *)
(* and together they reach bytes_sent, which is the whole body when the    *)
(* loop ends (CanPlugin.py:159-202).                                       *)
(***************************************************************************)
THEOREM CoverCorrect == LoopSpec => []FramesCoverBody
<1>1. CoverInv => FramesCoverBody
  BY DEF CoverInv
<1> QED BY <1>1, CoverInit, CoverStep, PTL DEF LoopSpec
-----------------------------------------------------------------------------
(* Division, and the order of multiples. *)
LEMMA Division ==
  ASSUME NEW a \in Nat, NEW m \in Nat, m > 0
  PROVE  a = m * (a \div m) + (a % m) /\ a % m \in 0 .. m - 1 /\ a \div m \in Nat
OBVIOUS

LEMMA MultiplesOrdered ==
  ASSUME NEW a \in Int, NEW b \in Int, NEW m \in Nat
  PROVE  a <= b => a * m <= b * m
OBVIOUS

LEMMA OrderOfMultiples ==
  ASSUME NEW a \in Int, NEW b \in Int, NEW m \in Nat, a * m < b * m
  PROVE  a < b
BY MultiplesOrdered

LEMMA FragSizes ==
  /\ MAX_FRAG_PACKET_SIZE \in Nat /\ MAX_FRAG_FIRST_PACKET_SIZE \in Nat
  /\ MAX_FRAG_FIRST_PACKET_SIZE > 0
  /\ MAX_FRAG_FIRST_PACKET_SIZE <= MAX_FRAG_PACKET_SIZE
  /\ MAX_FRAG_PACKET_SIZE <= MAX_PACKET_SIZE
  /\ MAX_PACKET_SIZE = FragHdrSize + MAX_FRAG_PACKET_SIZE
  /\ MAX_PACKET_SIZE = FragHdrSize + StartHdrSize + MAX_FRAG_FIRST_PACKET_SIZE
BY SizeAssumption DEF MAX_FRAG_PACKET_SIZE, MAX_FRAG_FIRST_PACKET_SIZE

(* Where the frames of the closed form start. *)
LEMMA Starts ==
  ASSUME NEW k \in Nat, k > 0
  PROVE  /\ StartOf(k) \in Nat /\ (StartOf(k) = 0 <=> k = 1)
         /\ StartOf(k + 1) = StartOf(k) + (IF k = 1 THEN MAX_FRAG_FIRST_PACKET_SIZE
                                           ELSE MAX_FRAG_PACKET_SIZE)
<1> DEFINE M == MAX_FRAG_PACKET_SIZE
<1>1. M \in Nat /\ MAX_FRAG_FIRST_PACKET_SIZE \in Nat /\ MAX_FRAG_FIRST_PACKET_SIZE > 0
  BY FragSizes
<1>2. CASE k = 1
  BY <1>1, <1>2 DEF StartOf
<1>3. CASE k # 1
  <2>1. k - 2 \in Nat /\ (k - 2) * M \in Nat /\ (k - 1) * M = (k - 2) * M + M
    BY <1>1, <1>3
  <2>2. StartOf(k) = MAX_FRAG_FIRST_PACKET_SIZE + (k - 2) * M
    BY <1>3 DEF StartOf
  <2>3. StartOf(k + 1) = MAX_FRAG_FIRST_PACKET_SIZE + (k - 1) * M
    BY <1>3 DEF StartOf
  <2> HIDE DEF M
  <2> QED BY <1>1, <1>3, <2>1, <2>2, <2>3 DEF M
<1> QED BY <1>2, <1>3

LEMMA StartsOrdered ==
  ASSUME NEW j \in Nat, NEW k \in Nat, 0 < j, j <= k
  PROVE  StartOf(j) <= StartOf(k)
<1>1. CASE j = 1
  BY <1>1, Starts
<1>2. CASE j # 1
  <2>1. MAX_FRAG_PACKET_SIZE \in Nat /\ MAX_FRAG_FIRST_PACKET_SIZE \in Nat
    BY FragSizes
  <2>2. (j - 2) * MAX_FRAG_PACKET_SIZE <= (k - 2) * MAX_FRAG_PACKET_SIZE
    BY <1>2, <2>1, MultiplesOrdered
  <2>3. (j - 2) * MAX_FRAG_PACKET_SIZE \in Int /\ (k - 2) * MAX_FRAG_PACKET_SIZE \in Int
    BY <2>1
  <2> QED BY <1>2, <2>1, <2>2, <2>3 DEF StartOf
<1> QED BY <1>1, <1>2

(* The number of frames is the one that reaches the end of the body. *)
LEMMA CountReaches ==
  ASSUME NEW n \in Nat
  PROVE  /\ packet_count(n) \in Nat \ {0}
         /\ packet_count(n) = 1 <=> n <= MAX_PACKET_SIZE
         /\ packet_count(n) > 1 =>
              StartOf(packet_count(n)) < n /\ n <= StartOf(packet_count(n) + 1)
<1>1. CASE n <= MAX_PACKET_SIZE
  BY <1>1 DEF packet_count
<1>2. CASE ~(n <= MAX_PACKET_SIZE)
  <2> DEFINE M == MAX_FRAG_PACKET_SIZE
             F == MAX_FRAG_FIRST_PACKET_SIZE
             total == n + (M - F)
             q == total \div M
             r == total % M
             N == packet_count(n)
  <2>1. M \in Nat /\ M > 0 /\ F \in Nat /\ F > 0 /\ F <= M /\ M < n /\ total \in Nat
    BY <1>2, FragSizes, SizeAssumption
  <2>2. total = M * q + r /\ r \in 0 .. M - 1 /\ q \in Nat
    BY <2>1, Division
  <2>3. N = q + (IF r > 0 THEN 1 ELSE 0)
    BY <1>2 DEF packet_count
  <2> HIDE DEF M, F, q, r, N
  <2>4. N \in Nat /\ ((N = q + 1 /\ r > 0) \/ (N = q /\ r = 0))
    BY <2>2, <2>3
  <2>5. (N - 1) * M < total /\ total <= N * M
    <3>1. CASE N = q + 1 /\ r > 0
      <4>1. (N - 1) * M = M * q /\ N * M = M * q + M
        BY <2>1, <2>2, <3>1
      <4>2. M * q \in Nat
        BY <2>1, <2>2
      <4> QED BY <2>1, <2>2, <3>1, <4>1, <4>2
    <3>2. CASE N = q /\ r = 0
      <4>1. (N - 1) * M = M * q - M /\ N * M = M * q
        BY <2>1, <2>2, <3>2
      <4>2. M * q \in Nat
        BY <2>1, <2>2
      <4> QED BY <2>1, <2>2, <3>2, <4>1, <4>2
    <3> QED BY <2>4, <3>1, <3>2
  <2>6. M < total
    BY <2>1
  <2>7. N > 1
    <3>1. 1 * M < N * M
      <4>1. N * M \in Int
        BY <2>1, <2>4
      <4> QED BY <2>1, <2>5, <2>6, <4>1
    <3> QED BY <2>1, <2>4, <3>1, OrderOfMultiples
  <2>8. StartOf(N) = F + (N - 2) * M /\ StartOf(N + 1) = F + (N - 1) * M
    <3>1. N # 1 /\ N + 1 # 1 /\ N + 1 - 2 = N - 1
      BY <2>4, <2>7
    <3>2. \A j : j # 1 => StartOf(j) = F + (j - 2) * M
      BY DEF StartOf, F, M
    <3>3. StartOf(N) = F + (N - 2) * M
      BY <3>1, <3>2
    <3>4. StartOf(N + 1) = F + ((N + 1) - 2) * M
      BY <3>1, <3>2
    <3>5. (N + 1) - 2 = N - 1
      BY <2>4
    <3> QED BY <3>3, <3>4, <3>5
  <2>9. (N - 2) * M = (N - 1) * M - M /\ (N - 1) * M = N * M - M /\ N * M \in Nat
    BY <2>1, <2>4, <2>7
  <2>10. StartOf(N) < n /\ n <= StartOf(N + 1)
    BY <2>1, <2>5, <2>8, <2>9
  <2>11. N \in Nat \ {0} /\ N > 1
    BY <2>4, <2>7
  <2> QED BY <1>2, <2>7, <2>10, <2>11 DEF N
<1> QED BY <1>1, <1>2

(* No more frames than the header can number, for a body that is not too big. *)
LEMMA CountFits ==
  ASSUME NEW n \in Nat, n <= MAX_MSG_SIZE
  PROVE  packet_count(n) <= MaxSequence
<1> DEFINE M == MAX_FRAG_PACKET_SIZE  F == MAX_FRAG_FIRST_PACKET_SIZE  N == packet_count(n)
<1>1. M \in Nat /\ F \in Nat /\ MaxSequence \in Nat /\ MaxSequence >= 2
  BY FragSizes, SizeAssumption
<1>2. N \in Nat \ {0}
  BY CountReaches
<1>3. CASE N > 1
  <2>1. F + (N - 2) * M < n
    BY <1>3, <1>2, CountReaches DEF StartOf
  <2>2. n <= F + (MaxSequence - 1) * M
    BY DEF MAX_MSG_SIZE
  <2> HIDE DEF M, F, N
  <2>3. (N - 2) * M \in Int /\ (MaxSequence - 1) * M \in Int
    BY <1>1, <1>2
  <2>4. (N - 2) * M < (MaxSequence - 1) * M
    BY <1>1, <2>1, <2>2, <2>3
  <2>5. N - 2 < MaxSequence - 1
    BY <1>1, <1>2, <2>4, OrderOfMultiples
  <2>6. N <= MaxSequence
    BY <1>1, <1>2, <2>5
  <2> QED BY <2>6 DEF N
<1> QED BY <1>1, <1>2, <1>3
-----------------------------------------------------------------------------
(* The strengthening of LoopMakesFrames: so many frames made, the loop is   *)
(* where the next one of the closed form starts, and each of them is its    *)
(* frame of the closed form, with the id the stream had.                    *)
Position == IF packets_sent < packet_count(msg_len) THEN StartOf(packets_sent + 1) ELSE msg_len

LoopInv ==
    /\ pc \in {"check", "loop", "done", "too big"}
    /\ pc \in {"check", "too big"} => packets = <<>>
    /\ pc = "too big" => msg_len > MAX_MSG_SIZE
    /\ pc \in {"loop", "done"} => msg_len <= MAX_MSG_SIZE
    /\ pc = "done" => bytes_sent = msg_len
    /\ packets_sent = Len(packets)
    /\ packets_sent <= packet_count(msg_len)
    /\ bytes_sent = Position
    /\ frag_stream_id \in 0 .. MaxStreamID
    /\ \A k \in DOMAIN packets :
         /\ packets[k].stream \in 0 .. MaxStreamID
         /\ packets[k] = Packet(msg_len, StartOf(k), k - 1, packets[k].stream)

(* The fields of a frame the loop makes. *)
LEMMA PacketFields ==
  ASSUME NEW n, NEW b, NEW i, NEW id
  PROVE  LET p == Packet(n, b, i, id)
             data == header_size(n, b) + p.size
         IN  /\ p.fragmented = (packet_count(n) > 1) /\ p.newStream = (b = 0)
             /\ p.stream = id /\ p.first = b
             /\ p.sequence = IF b = 0 THEN packet_count(n) ELSE i
             /\ p.size = Least(n - b, max_packet_size(n, b))
             /\ p.decrement = length_decrement(data)
             /\ p.wire = data + length_decrement(data)
BY DEF Packet

LEMMA OnlyStream ==
  ASSUME NEW n, NEW b, NEW i, NEW id, NEW j
  PROVE  [Packet(n, b, i, id) EXCEPT !.stream = j] = Packet(n, b, i, j)
BY DEF Packet

LEMMA NoFrames == \A s : s = <<>> => [k \in DOMAIN s |-> [s[k] EXCEPT !.stream = 0]] = <<>>
OBVIOUS

(* The frame that starts where the closed form says ends where it says. *)
LEMMA NextStart ==
  ASSUME NEW n \in Nat, NEW k \in 1 .. packet_count(n), StartOf(k) < n, NEW i, NEW id
  PROVE  StartOf(k) + Packet(n, StartOf(k), i, id).size
           = IF k < packet_count(n) THEN StartOf(k + 1) ELSE n
<1> DEFINE N == packet_count(n)  b == StartOf(k)  m == max_packet_size(n, b)
<1>1. N \in Nat \ {0} /\ k \in Nat /\ k > 0 /\ k <= N
  BY CountReaches
<1>2. b \in Nat /\ (b = 0 <=> k = 1)
  BY <1>1, Starts
<1>3. Packet(n, b, i, id).size = Least(n - b, m)
  BY PacketFields
<1>4. CASE N = 1
  <2>1. n <= MAX_PACKET_SIZE /\ k = 1 /\ m = MAX_PACKET_SIZE
    BY <1>1, <1>4, CountReaches DEF max_packet_size
  <2> QED BY <1>1, <1>2, <1>3, <1>4, <2>1, SizeAssumption DEF Least
<1>5. CASE N > 1
  <2>1. m = IF k = 1 THEN MAX_FRAG_FIRST_PACKET_SIZE ELSE MAX_FRAG_PACKET_SIZE
    BY <1>2, <1>5 DEF max_packet_size
  <2>2. StartOf(k + 1) = b + m /\ m \in Nat
    BY <1>1, <2>1, Starts, FragSizes
  <2>3. CASE k < N
    <3>1. StartOf(k + 1) <= StartOf(N) /\ StartOf(N) < n /\ StartOf(N) \in Nat
      BY <1>1, <1>5, <2>3, StartsOrdered, CountReaches, Starts
    <3>2. b + m <= n
      BY <1>2, <2>2, <3>1
    <3> QED BY <1>2, <1>3, <2>2, <2>3, <3>2 DEF Least
  <2>4. CASE k = N
    <3>1. n <= b + m
      BY <1>5, <2>2, <2>4, CountReaches
    <3> QED BY <1>1, <1>2, <1>3, <2>2, <2>4, <3>1 DEF Least
  <2> QED BY <1>1, <2>3, <2>4
<1> QED BY <1>1, <1>4, <1>5

(* One turn of the loop makes the next frame of the closed form. *)
LEMMA MakePacketKeeps ==
  ASSUME LoopTypes, LoopInv, MakePacket
  PROVE  LoopInv'
<1> DEFINE N == packet_count(msg_len)
           k == packets_sent + 1
           p == Packet(msg_len, bytes_sent, packets_sent, frag_stream_id)
<1>1. /\ msg_len \in Nat /\ packets \in Seq(APacket) /\ packets_sent \in Nat
      /\ packets_sent = Len(packets) /\ bytes_sent \in Nat /\ bytes_sent < msg_len
      /\ bytes_sent = Position /\ frag_stream_id \in 0 .. MaxStreamID /\ MaxStreamID \in Nat
      /\ pc = "loop" /\ msg_len <= MAX_MSG_SIZE
  BY SizeAssumption DEF LoopTypes, LoopInv, MakePacket
<1>2. /\ packets' = Append(packets, p) /\ bytes_sent' = bytes_sent + p.size
      /\ frag_stream_id' \in {frag_stream_id, next_stream_id(frag_stream_id)}
      /\ packets_sent' = k /\ msg_len' = msg_len /\ pc' = "loop"
  BY <1>1 DEF MakePacket
<1>3. N \in Nat \ {0}
  BY <1>1, CountReaches
<1>4. packets_sent < N /\ bytes_sent = StartOf(k) /\ k \in 1 .. N /\ k \in Nat
  BY <1>1, <1>3 DEF Position
<1>5. p \in APacket
  BY <1>1, PacketIsFrame
<1>6. p.stream = frag_stream_id /\ p = Packet(msg_len, StartOf(k), k - 1, p.stream)
  <2>1. p.stream = frag_stream_id
    BY PacketFields
  <2>2. k - 1 = packets_sent
    BY <1>1
  <2> QED BY <1>4, <2>1, <2>2
<1>7. bytes_sent' = IF k < N THEN StartOf(k + 1) ELSE msg_len
  BY <1>1, <1>2, <1>4, NextStart
<1> HIDE DEF p
<1>8. /\ Len(packets') = k /\ DOMAIN packets' = 1 .. k
      /\ \A j \in 1 .. packets_sent : j \in DOMAIN packets /\ packets'[j] = packets[j]
      /\ packets'[k] = p
  BY <1>1, <1>2, <1>5, Appended
<1>9. frag_stream_id' \in 0 .. MaxStreamID
  BY <1>1, <1>2 DEF next_stream_id
<1>10. ASSUME NEW j \in DOMAIN packets'
       PROVE  /\ packets'[j].stream \in 0 .. MaxStreamID
              /\ packets'[j] = Packet(msg_len, StartOf(j), j - 1, packets'[j].stream)
  <2>1. CASE j = k
    BY <1>1, <1>6, <1>8, <2>1
  <2>2. CASE j # k
    <3>1. j \in DOMAIN packets /\ packets'[j] = packets[j]
      BY <1>1, <1>8, <2>2
    <3> QED BY <3>1 DEF LoopInv
  <2> QED BY <2>1, <2>2
<1>11. bytes_sent' = Position'
  BY <1>2, <1>7 DEF Position
<1>12. packets_sent' = Len(packets') /\ packets_sent' <= packet_count(msg_len')
  BY <1>2, <1>4, <1>8
<1> QED BY <1>1, <1>2, <1>9, <1>10, <1>11, <1>12 DEF LoopInv

LEMMA LoopCorrect == LoopSpec => [](LoopTypes /\ LoopInv)
<1>1. LoopInit => LoopTypes /\ LoopInv
  <2> SUFFICES ASSUME LoopInit PROVE LoopTypes /\ LoopInv
    OBVIOUS
  <2>1. msg_len \in Nat /\ frag_stream_id \in 0 .. MaxStreamID /\ MaxStreamID \in Nat
    BY Bounds, SizeAssumption DEF LoopInit
  <2>2. /\ packets = <<>> /\ bytes_sent = 0 /\ packets_sent = 0 /\ pc = "check"
        /\ Len(packets) = 0 /\ packets \in Seq(APacket) /\ DOMAIN packets = {}
    BY DEF LoopInit
  <2>3. packet_count(msg_len) \in Nat \ {0}
    BY <2>1, CountReaches
  <2>4. Position = 0
    BY <2>2, <2>3 DEF Position, StartOf
  <2>5. LoopTypes
    BY <2>1, <2>2 DEF LoopTypes
  <2> QED BY <2>1, <2>2, <2>3, <2>4, <2>5 DEF LoopInv
<1>3. LoopTypes /\ LoopInv /\ [LoopNext]_loop_vars => LoopInv'
  <2> SUFFICES ASSUME LoopTypes, LoopInv, [LoopNext]_loop_vars PROVE LoopInv'
    OBVIOUS
  <2>1. CASE UNCHANGED loop_vars
    BY <2>1 DEF loop_vars, LoopInv, Position
  <2>2. CASE CheckSize
    <3>1. /\ pc = "check" /\ packets' = <<>> /\ Position' = Position
          /\ UNCHANGED <<msg_len, bytes_sent, packets_sent, frag_stream_id, packets>>
      BY <2>2 DEF CheckSize, LoopInv, Position
    <3>2. pc' = IF msg_len > MAX_MSG_SIZE THEN "too big" ELSE "loop"
      BY <2>2 DEF CheckSize
    <3>3. pc' = "too big" => msg_len > MAX_MSG_SIZE
      BY <3>2
    <3>4. pc' = "loop" => msg_len <= MAX_MSG_SIZE
      BY <3>2, Bounds DEF LoopTypes
    <3>5. pc' \in {"too big", "loop"}
      BY <3>2
    <3> QED BY <3>1, <3>3, <3>4, <3>5 DEF LoopInv
  <2>3. CASE Return
    <3>1. bytes_sent = msg_len
      BY <2>3 DEF Return, LoopTypes
    <3> QED BY <2>3, <3>1 DEF Return, LoopInv, Position
  <2> QED BY <2>1, <2>2, <2>3, MakePacketKeeps DEF LoopNext
<1>4. LoopSpec => []CoverInv
  BY CoverInit, CoverStep, PTL DEF LoopSpec
<1>5. CoverInv => LoopTypes /\ FramesCoverBody
  BY DEF CoverInv
<1> QED BY <1>1, <1>3, <1>4, <1>5, PTL DEF LoopSpec

(* Frames made up to the end of the body are as many as foreseen. *)
LEMMA AllMade ==
  ASSUME LoopTypes, LoopInv, pc = "done", msg_len > 0
  PROVE  Len(packets) = packet_count(msg_len)
<1> DEFINE N == packet_count(msg_len)
<1>1. msg_len \in Nat /\ N \in Nat \ {0} /\ packets_sent \in Nat /\ packets_sent <= N
  BY CountReaches DEF LoopTypes, LoopInv
<1>2. CASE packets_sent < N
  <2>1. StartOf(packets_sent + 1) = msg_len
    BY <1>2 DEF LoopInv, Position
  <2>2. StartOf(packets_sent + 1) <= StartOf(N) /\ StartOf(N) \in Nat
    BY <1>1, <1>2, StartsOrdered, Starts
  <2>3. CASE N > 1
    BY <1>1, <2>1, <2>2, <2>3, CountReaches
  <2>4. CASE N = 1
    BY <1>1, <2>1, <2>2, <2>4 DEF StartOf
  <2> QED BY <1>1, <2>3, <2>4
<1> QED BY <1>1, <1>2 DEF LoopInv

(***************************************************************************)
(* The loop makes as many frames as packet_count() foresaw, and numbers    *)
(* none beyond what the header can hold, for every size of frame, header   *)
(* and body (CanPlugin.py:71-76, 174).                                     *)
(* The frames of a finished loop are those of the closed form, one by one. *)
Ended == pc \in {"done", "too big"}

LEMMA LoopEnds ==
  ASSUME LoopTypes, LoopInv, Ended
  PROVE  /\ msg_len \notin 1 .. MAX_MSG_SIZE => packets = <<>>
         /\ msg_len \in 1 .. MAX_MSG_SIZE =>
              /\ DOMAIN packets = 1 .. packet_count(msg_len)
              /\ \A k \in DOMAIN packets :
                   packets[k] = Packet(msg_len, StartOf(k), k - 1, packets[k].stream)
<1>1. msg_len \in Nat /\ MAX_MSG_SIZE \in Nat
  BY Bounds DEF LoopTypes
<1>2. /\ pc = "too big" => packets = <<>> /\ msg_len > MAX_MSG_SIZE
      /\ pc = "done" => bytes_sent = msg_len /\ msg_len <= MAX_MSG_SIZE
  BY DEF LoopInv
<1>3. CASE msg_len \notin 1 .. MAX_MSG_SIZE
  <2>1. pc = "done" => msg_len = 0 /\ bytes_sent = 0
    BY <1>1, <1>2, <1>3
  <2>2. packets = <<>>
    BY <1>2, <2>1 DEF LoopTypes, Ended
  <2> QED BY <1>3, <2>2
<1>4. CASE msg_len \in 1 .. MAX_MSG_SIZE
  <2>1. msg_len > 0 /\ ~(msg_len > MAX_MSG_SIZE)
    BY <1>1, <1>4
  <2>2. pc = "done"
    BY <1>2, <2>1 DEF Ended
  <2>3. packets \in Seq(APacket)
    BY DEF LoopTypes
  <2>4. Len(packets) = packet_count(msg_len)
    BY <2>1, <2>2, AllMade
  <2>5. DOMAIN packets = 1 .. packet_count(msg_len)
    BY <2>3, <2>4
  <2>6. \A k \in DOMAIN packets :
          packets[k] = Packet(msg_len, StartOf(k), k - 1, packets[k].stream)
    BY DEF LoopInv
  <2> QED BY <1>4, <2>5, <2>6
<1> QED BY <1>3, <1>4

(***************************************************************************)
THEOREM CountCorrect == LoopSpec => []CountForeseen
<1>1. LoopTypes /\ LoopInv => CountForeseen
  <2> SUFFICES ASSUME LoopTypes, LoopInv, NEW k \in DOMAIN packets
               PROVE  packets[k].sequence <= MaxSequence
    BY AllMade DEF CountForeseen
  <2>1. /\ msg_len \in Nat /\ k \in 1 .. Len(packets) /\ Len(packets) \in Nat
    BY DEF LoopTypes
  <2>2. Len(packets) <= packet_count(msg_len) /\ msg_len <= MAX_MSG_SIZE
    <3>1. packets # <<>>
      BY <2>1
    <3>2. pc \in {"loop", "done"}
      BY <3>1 DEF LoopInv
    <3> QED BY <3>2 DEF LoopInv
  <2>3. packet_count(msg_len) \in Nat /\ packet_count(msg_len) <= MaxSequence
    BY <2>1, <2>2, CountFits, CountReaches
  <2>4. PICK id : packets[k] = Packet(msg_len, StartOf(k), k - 1, id)
    BY DEF LoopInv
  <2>5. packets[k].sequence = IF StartOf(k) = 0 THEN packet_count(msg_len) ELSE k - 1
    BY <2>4, PacketFields
  <2> QED BY <2>1, <2>2, <2>3, <2>5, SizeAssumption
<1> QED BY <1>1, LoopCorrect, PTL

(***************************************************************************)
(* The loop makes the frames of the closed form, on which the model of the *)
(* bus is built, whatever the sizes are (CanPlugin.py:159-202).            *)
(***************************************************************************)
THEOREM FramesCorrect == LoopSpec => []LoopMakesFrames
<1>1. LoopTypes /\ LoopInv => LoopMakesFrames
  <2> SUFFICES ASSUME LoopTypes, LoopInv, Ended PROVE LoopMakesFrames
    BY DEF LoopMakesFrames, Ended
  <2>1. CASE msg_len \notin 1 .. MAX_MSG_SIZE
    <3>1. packets = <<>>
      BY <2>1, LoopEnds
    <3>2. Frames(msg_len) = <<>>
      BY <2>1 DEF Frames
    <3> QED BY <3>1, <3>2, NoFrames DEF LoopMakesFrames
  <2>2. CASE msg_len \in 1 .. MAX_MSG_SIZE
    <3>1. /\ DOMAIN packets = 1 .. packet_count(msg_len)
          /\ \A k \in DOMAIN packets :
               packets[k] = Packet(msg_len, StartOf(k), k - 1, packets[k].stream)
      BY <2>2, LoopEnds
    <3>2. ASSUME NEW k \in DOMAIN packets
          PROVE  [packets[k] EXCEPT !.stream = 0] = Packet(msg_len, StartOf(k), k - 1, 0)
      <4>1. packets[k] = Packet(msg_len, StartOf(k), k - 1, packets[k].stream)
        BY <3>1
      <4>2. [Packet(msg_len, StartOf(k), k - 1, packets[k].stream) EXCEPT !.stream = 0]
              = Packet(msg_len, StartOf(k), k - 1, 0)
        BY OnlyStream
      <4> QED BY <4>1, <4>2, Zenon
    <3>3. Frames(msg_len)
            = [k \in 1 .. packet_count(msg_len) |-> Packet(msg_len, StartOf(k), k - 1, 0)]
      BY <2>2 DEF Frames
    <3> QED BY <3>1, <3>2, <3>3 DEF LoopMakesFrames
  <2> QED BY <2>1, <2>2
<1> QED BY <1>1, LoopCorrect, PTL
-----------------------------------------------------------------------------
(* The lengths the table holds. *)
LEMMA Coded ==
  /\ DOMAIN DLC_LENGTH_CODING = 1 .. 16
  /\ \A c \in 1 .. 9 : DLC_LENGTH_CODING[c] = c - 1
  /\ DLC_LENGTH_CODING[10] = 12 /\ DLC_LENGTH_CODING[11] = 16 /\ DLC_LENGTH_CODING[12] = 20
  /\ DLC_LENGTH_CODING[13] = 24 /\ DLC_LENGTH_CODING[14] = 32 /\ DLC_LENGTH_CODING[15] = 48
  /\ DLC_LENGTH_CODING[16] = 64
BY DEF DLC_LENGTH_CODING

(* No length of the table lies between two neighbours. *)
LEMMA NoneBetween ==
  ASSUME NEW c \in DOMAIN DLC_LENGTH_CODING
  PROVE  LET n == DLC_LENGTH_CODING[c]
         IN  \/ n \in 0 .. 8
             \/ n \in {12, 16, 20, 24, 32, 48, 64}
<1>1. c \in 1 .. 9 \/ c \in {10, 11, 12, 13, 14, 15, 16}
  BY Coded
<1>2. CASE c \in 1 .. 9
  BY <1>2, Coded
<1>3. CASE c \in {10, 11, 12, 13, 14, 15, 16}
  BY <1>3, Coded
<1> QED BY <1>1, <1>2, <1>3

(* Padding a frame leads to the least length of the table that holds it. *)
LEMMA Padding ==
  ASSUME NEW data \in 0 .. 64
  PROVE  LET d == length_decrement(data)
             codes == {DLC_LENGTH_CODING[c] : c \in DOMAIN DLC_LENGTH_CODING}
         IN  /\ d \in 0 .. 15
             /\ data + d \in codes
             /\ \A n \in codes : n >= data => n >= data + d
<1> DEFINE c == DLC_FROM_LENGTH(data) + 1
           d == length_decrement(data)
           codes == {DLC_LENGTH_CODING[i] : i \in DOMAIN DLC_LENGTH_CODING}
<1>1. d = DLC_LENGTH_CODING[c] - data
  BY DEF length_decrement
<1>2. CASE data <= 8
  <2>1. c = data + 1
    BY <1>2 DEF DLC_FROM_LENGTH
  <2>2. c \in 1 .. 9 /\ c - 1 = data
    BY <1>2, <2>1
  <2>3. DLC_LENGTH_CODING[c] = data
    BY <2>2, Coded
  <2> HIDE DEF c, d
  <2>4. d = 0 /\ c \in DOMAIN DLC_LENGTH_CODING
    BY <1>1, <2>2, <2>3, Coded
  <2>5. data + d = DLC_LENGTH_CODING[c] /\ data + d = data
    BY <2>3, <2>4
  <2>6. data + d \in codes
    BY <2>4, <2>5
  <2> QED BY <2>4, <2>5, <2>6 DEF c, d
<1>3. ASSUME NEW lo \in Nat, NEW hi \in Nat, data > lo, data <= hi, hi <= 64, hi - lo <= 16,
             c \in 1 .. 16, DLC_LENGTH_CODING[c] = hi,
             \A i \in DOMAIN DLC_LENGTH_CODING :
               DLC_LENGTH_CODING[i] <= lo \/ DLC_LENGTH_CODING[i] >= hi
      PROVE  /\ d \in 0 .. 15 /\ data + d \in codes
             /\ \A n \in codes : n >= data => n >= data + d
  <2> HIDE DEF c, d
  <2>1. d = hi - data /\ d \in 0 .. 15 /\ data + d = hi
    BY <1>1, <1>3
  <2>2. data + d \in codes
    BY <1>3, <2>1, Coded
  <2>3. ASSUME NEW n \in codes, n >= data PROVE n >= data + d
    <3>1. PICK i \in DOMAIN DLC_LENGTH_CODING : n = DLC_LENGTH_CODING[i]
      OBVIOUS
    <3>2. DLC_LENGTH_CODING[i] \in Nat
      BY NoneBetween
    <3> QED BY <1>3, <2>1, <2>3, <3>1, <3>2
  <2> QED BY <2>1, <2>2, <2>3
<1> DEFINE Gap(lo, hi) == \A i \in DOMAIN DLC_LENGTH_CODING :
                            DLC_LENGTH_CODING[i] <= lo \/ DLC_LENGTH_CODING[i] >= hi
<1>4. /\ Gap(8, 12) /\ Gap(12, 16) /\ Gap(16, 20) /\ Gap(20, 24)
      /\ Gap(24, 32) /\ Gap(32, 48) /\ Gap(48, 64)
  BY NoneBetween
<1>5. CASE data \in 9 .. 12
  <2>1. c = 10 BY <1>5 DEF DLC_FROM_LENGTH
  <2> QED BY <1>3, <1>4, <1>5, <2>1, Coded
<1>6. CASE data \in 13 .. 16
  <2>1. c = 11 BY <1>6 DEF DLC_FROM_LENGTH
  <2> QED BY <1>3, <1>4, <1>6, <2>1, Coded
<1>7. CASE data \in 17 .. 20
  <2>1. c = 12 BY <1>7 DEF DLC_FROM_LENGTH
  <2> QED BY <1>3, <1>4, <1>7, <2>1, Coded
<1>8. CASE data \in 21 .. 24
  <2>1. c = 13 BY <1>8 DEF DLC_FROM_LENGTH
  <2> QED BY <1>3, <1>4, <1>8, <2>1, Coded
<1>9. CASE data \in 25 .. 32
  <2>1. c = 14 BY <1>9 DEF DLC_FROM_LENGTH
  <2> QED BY <1>3, <1>4, <1>9, <2>1, Coded
<1>10. CASE data \in 33 .. 48
  <2>1. c = 15 BY <1>10 DEF DLC_FROM_LENGTH
  <2> QED BY <1>3, <1>4, <1>10, <2>1, Coded
<1>11. CASE data \in 49 .. 64
  <2>1. c = 16 BY <1>11 DEF DLC_FROM_LENGTH
  <2> QED BY <1>3, <1>4, <1>11, <2>1, Coded
<1> QED BY <1>2, <1>5, <1>6, <1>7, <1>8, <1>9, <1>10, <1>11

(* Headers and bytes of a frame are no more than a frame can carry. *)
LEMMA FrameFits ==
  ASSUME NEW n \in Nat, NEW b \in Nat, b <= n, NEW i, NEW id
  PROVE  header_size(n, b) + Packet(n, b, i, id).size \in 0 .. 64
<1> DEFINE m == max_packet_size(n, b)
<1>1. Packet(n, b, i, id).size = Least(n - b, m)
  BY PacketFields
<1>2. header_size(n, b) \in Nat /\ m \in Nat /\ header_size(n, b) + m <= 64
  BY SizeAssumption, CodingAssumption
  DEF header_size, max_packet_size, MAX_FRAG_PACKET_SIZE, MAX_FRAG_FIRST_PACKET_SIZE
<1> HIDE DEF m
<1>3. Least(n - b, m) \in 0 .. m
  BY <1>2 DEF Least
<1> QED BY <1>1, <1>2, <1>3

(***************************************************************************)
(* Every frame fits the wire: headers and body within a length that CAN FD *)
(* can code, the least such, and the padding and the stream id within      *)
(* their bits of the header, for every size of header and body             *)
(* (CanPlugin.py:44-69, 171-197).                                          *)
(***************************************************************************)
THEOREM WireCorrect == LoopSpec => []FramesFitWire
<1>1. LoopTypes /\ LoopInv => FramesFitWire
  <2> DEFINE codes == {DLC_LENGTH_CODING[c] : c \in DOMAIN DLC_LENGTH_CODING}
             Data(f) == f.size + (IF ~f.fragmented THEN 0
                                  ELSE IF f.newStream THEN FragHdrSize + StartHdrSize
                                  ELSE FragHdrSize)
             Fits(f) == /\ f.wire \in codes
                        /\ f.wire - f.decrement = Data(f)
                        /\ \A n \in codes : n >= Data(f) => n >= f.wire
                        /\ f.decrement <= 15 /\ f.stream \in 0 .. MaxStreamID
  <2> SUFFICES ASSUME LoopTypes, LoopInv, NEW k \in DOMAIN packets
               PROVE  Fits(packets[k])
    BY DEF FramesFitWire
  <2> DEFINE f == packets[k]
             n == msg_len
             b == StartOf(k)
             h == header_size(n, b)
  <2>1. f = Packet(n, b, k - 1, f.stream) /\ f.stream \in 0 .. MaxStreamID
    BY DEF LoopInv
  <2>2. n \in Nat /\ f \in APacket /\ k \in 1 .. Len(packets) /\ Len(packets) \in Nat
    BY DEF LoopTypes
  <2>3. b \in Nat /\ b <= n
    <3> DEFINE N == packet_count(n)
    <3>0. Len(packets) <= N
      BY DEF LoopInv
    <3>1. N \in Nat \ {0} /\ k \in Nat /\ 0 < k /\ k <= N
      <4>1. N \in Nat \ {0}
        BY <2>2, CountReaches
      <4>2. k \in 1 .. Len(packets) /\ Len(packets) \in Nat
        BY <2>2
      <4> QED BY <3>0, <4>1, <4>2
    <3>2. b \in Nat /\ b <= StartOf(N) /\ StartOf(N) \in Nat
      BY <3>1, Starts, StartsOrdered
    <3>3. CASE N > 1
      <4>1. StartOf(N) < n
        BY <2>2, <3>3, CountReaches
      <4> QED BY <2>2, <3>2, <4>1
    <3>4. CASE N = 1
      <4>1. b = 0
        BY <3>1, <3>4 DEF StartOf
      <4> QED BY <2>2, <4>1
    <3> QED BY <3>1, <3>3, <3>4
  <2>4. /\ f.fragmented = (packet_count(n) > 1) /\ f.newStream = (b = 0)
        /\ f.decrement = length_decrement(h + f.size)
        /\ f.wire = (h + f.size) + length_decrement(h + f.size)
    BY <2>1, PacketFields
  <2>5. h + f.size \in 0 .. 64
    BY <2>1, <2>2, <2>3, FrameFits
  <2>6. h = IF ~f.fragmented THEN 0
            ELSE IF f.newStream THEN FragHdrSize + StartHdrSize ELSE FragHdrSize
    <3>1. packet_count(n) \in Nat \ {0}
      BY <2>2, CountReaches
    <3>2. packet_count(n) = 1 <=> ~(packet_count(n) > 1)
      BY <3>1
    <3>3. packet_count(n) = 1 <=> ~f.fragmented
      BY <2>4, <3>2, Zenon
    <3>4. b = 0 <=> f.newStream
      BY <2>4, Zenon
    <3>5. CASE f.fragmented
      <4>1. packet_count(n) # 1
        BY <3>3, <3>5
      <4>2. CASE b = 0
        BY <3>4, <3>5, <4>1, <4>2 DEF header_size
      <4>3. CASE b # 0
        BY <3>4, <3>5, <4>1, <4>3 DEF header_size
      <4> QED BY <4>2, <4>3
    <3>6. CASE ~f.fragmented
      BY <3>3, <3>6 DEF header_size
    <3> QED BY <3>5, <3>6
  <2>7. f.size \in Nat /\ h \in Nat
    BY <2>2, <2>6, SizeAssumption DEF APacket
  <2> HIDE DEF f, h
  <2> DEFINE data == h + f.size
             d == length_decrement(data)
  <2>8. data \in 0 .. 64 /\ f.decrement = d /\ f.wire = data + d /\ Data(f) = data
    BY <2>4, <2>5, <2>6, <2>7
  <2>9. d \in 0 .. 15 /\ data + d \in codes /\ \A i \in codes : i >= data => i >= data + d
    BY <2>8, Padding
  <2>10. f.stream \in 0 .. MaxStreamID
    BY <2>1 DEF f
  <2> HIDE DEF data, d, codes, Data
  <2>11. Fits(f)
    BY <2>8, <2>9, <2>10
  <2> QED BY <2>11 DEF f
<1> QED BY <1>1, LoopCorrect, PTL
-----------------------------------------------------------------------------
(* Types as far as the argument needs them: numbers may be any integers. *)
APart == [of : Nat, first : Int, size : Int]
AFrame == [id : Id, source : Node, total : Length, fragmented : BOOLEAN,
           newStream : BOOLEAN, part : APart]
ABody == [total : Length, count : Int, parts : Seq(APart)]
ADelivery == [id : Id, from : Node, length : Int, parts : Seq(APart)]
AMessage == [from : Node, id : Id, length : Length]

Types == /\ sent \in Seq(AMessage)
         /\ txq \in [Node -> Seq(AFrame)]
         /\ rxq \in Seq(AFrame)
         /\ \A key \in DOMAIN in_progress : in_progress[key] \in ABody
         /\ delivered \in Seq(ADelivery)

(* A frame on its way says of its bytes whose they are; a body is of one    *)
(* source and id.  Both are about a history s, which is sent or sent'.      *)
KnownIn(f, s) == /\ f.part.of \in DOMAIN s
                 /\ s[f.part.of].id = f.id
                 /\ s[f.part.of].from = f.source

BodyIn(parts, id, from, s) ==
    \A k \in DOMAIN parts : /\ parts[k].of \in DOMAIN s
                            /\ s[parts[k].of].id = id
                            /\ s[parts[k].of].from = from

FramesKnown == /\ \A n \in Node : \A k \in DOMAIN txq[n] : KnownIn(txq[n][k], sent)
               /\ \A k \in DOMAIN rxq : KnownIn(rxq[k], sent)

BodiesKnown ==
    /\ \A key \in DOMAIN in_progress :
         BodyIn(in_progress[key].parts, key[1], key[2], sent)
    /\ \A j \in DOMAIN delivered :
         BodyIn(delivered[j].parts, delivered[j].id, delivered[j].from, sent)

SourceInv == Types /\ FramesKnown /\ BodiesKnown
-----------------------------------------------------------------------------
(* Sizes and lengths are integers. *)
LEMMA Sizes ==
  /\ MAX_PACKET_SIZE \in Nat
  /\ MAX_FRAG_PACKET_SIZE \in Int
  /\ MAX_FRAG_PACKET_SIZE > 0
  /\ MAX_FRAG_FIRST_PACKET_SIZE \in Int
  /\ Length \subseteq Int
BY SizeAssumption, LinkAssumption
   DEF MAX_FRAG_PACKET_SIZE, MAX_FRAG_FIRST_PACKET_SIZE

(* The frames of a new message carry its number, id and source. *)
LEMMA FramesOfType ==
  ASSUME NEW u \in Nat, NEW n \in Node, NEW id \in Id, NEW length \in Length
  PROVE  /\ FramesOf(u, n, id, length) \in Seq(AFrame)
         /\ \A k \in DOMAIN FramesOf(u, n, id, length) :
              LET f == FramesOf(u, n, id, length)[k]
              IN  f.part.of = u /\ f.id = id /\ f.source = n
<1> DEFINE count == packet_count(length)
           frames == Frames(length)
<1>1. length \in Int /\ length \in 1 .. MAX_MSG_SIZE
  BY Sizes, LinkAssumption
<1>2. count \in Nat
  <2>1. CASE length <= MAX_PACKET_SIZE
    BY <2>1 DEF packet_count
  <2>2. CASE ~(length <= MAX_PACKET_SIZE)
    <3> DEFINE total == length + (MAX_FRAG_PACKET_SIZE - MAX_FRAG_FIRST_PACKET_SIZE)
    <3>1. total \in Nat
      BY <1>1, <2>2, SizeAssumption
         DEF MAX_FRAG_PACKET_SIZE, MAX_FRAG_FIRST_PACKET_SIZE
    <3>2. total \div MAX_FRAG_PACKET_SIZE \in Nat
      BY <3>1, Sizes
    <3>3. count = (total \div MAX_FRAG_PACKET_SIZE)
                  + (IF total % MAX_FRAG_PACKET_SIZE > 0 THEN 1 ELSE 0)
      BY <2>2 DEF packet_count
    <3> QED BY <3>2, <3>3
  <2> QED BY <2>1, <2>2
<1>3. frames = [k \in 1 .. count |-> Packet(length, StartOf(k), k - 1, 0)]
  BY <1>1 DEF Frames
<1>4. ASSUME NEW k \in 1 .. count
      PROVE  /\ frames[k].fragmented \in BOOLEAN
             /\ frames[k].newStream \in BOOLEAN
             /\ frames[k].first \in Int
             /\ frames[k].size \in Int
  <2>1. StartOf(k) \in Int
    BY <1>2, Sizes DEF StartOf
  <2>2. max_packet_size(length, StartOf(k)) \in Int
    BY Sizes DEF max_packet_size
  <2>3. Least(length - StartOf(k), max_packet_size(length, StartOf(k))) \in Int
    BY <1>1, <2>1, <2>2 DEF Least
  <2>4. frames[k] = Packet(length, StartOf(k), k - 1, 0)
    BY <1>3
  <2>5. /\ frames[k].first = StartOf(k)
        /\ frames[k].size = Least(length - StartOf(k), max_packet_size(length, StartOf(k)))
        /\ frames[k].fragmented = (packet_count(length) > 1)
        /\ frames[k].newStream = (StartOf(k) = 0)
    BY <2>4 DEF Packet
  <2>6. (packet_count(length) > 1) \in BOOLEAN /\ (StartOf(k) = 0) \in BOOLEAN
    OBVIOUS
  <2> HIDE DEF frames
  <2> QED BY <2>1, <2>3, <2>5, <2>6
<1>5. DOMAIN frames = 1 .. count
  BY <1>3
<1> HIDE DEF frames, count
<1> DEFINE Made(k) == [id |-> id, source |-> n, total |-> length,
              fragmented |-> frames[k].fragmented, newStream |-> frames[k].newStream,
              part |-> [of |-> u, first |-> frames[k].first, size |-> frames[k].size]]
<1>6. FramesOf(u, n, id, length) = [k \in 1 .. count |-> Made(k)]
  BY <1>5 DEF FramesOf, frames
<1>7. ASSUME NEW k \in 1 .. count PROVE Made(k) \in AFrame
  BY <1>4 DEF AFrame, APart
<1>8. ASSUME NEW k \in 1 .. count
      PROVE  Made(k).part.of = u /\ Made(k).id = id /\ Made(k).source = n
  OBVIOUS
<1> HIDE DEF Made
<1>9. FramesOf(u, n, id, length) \in Seq(AFrame)
  BY <1>2, <1>6, <1>7
<1> QED BY <1>6, <1>8, <1>9
-----------------------------------------------------------------------------
(* What is known stays known when a message is added to the history. *)
LEMMA SentGrows ==
  ASSUME Types, NEW m \in AMessage, sent' = Append(sent, m)
  PROVE  /\ sent' \in Seq(AMessage)
         /\ Len(sent) + 1 \in DOMAIN sent'
         /\ sent'[Len(sent) + 1] = m
         /\ \A u \in DOMAIN sent : u \in DOMAIN sent' /\ sent'[u] = sent[u]
BY DEF Types

(* A body of one source and id stays one when a part of theirs is added. *)
LEMMA PartAdded ==
  ASSUME NEW s, NEW parts \in Seq(APart), NEW f \in AFrame, KnownIn(f, s),
         BodyIn(parts, f.id, f.source, s)
  PROVE  /\ Append(parts, f.part) \in Seq(APart)
         /\ BodyIn(Append(parts, f.part), f.id, f.source, s)
<1>1. f.part \in APart
  BY DEF AFrame
<1> QED BY <1>1 DEF BodyIn, KnownIn

-----------------------------------------------------------------------------
(* Sending: the history grows by the message, and the queue by its frames. *)
LEMMA SendKeeps ==
  ASSUME SourceInv, NEW n \in Node, NEW id \in Id, NEW length \in Length,
         NEW k \in Nat, Send(n, id, length, k)
  PROVE  SourceInv'
<1> DEFINE u == Len(sent) + 1
           frames == FramesOf(u, n, id, length)
           m == [from |-> n, id |-> id, length |-> length]
<1>1. /\ u \in Nat
      /\ m \in AMessage
      /\ k <= Len(frames)
      /\ sent' = Append(sent, m)
      /\ txq' = [txq EXCEPT ![n] = @ \o SubSeq(frames, 1, k)]
      /\ UNCHANGED <<rxq, in_progress, delivered>>
  BY DEF Send, SourceInv, Types, AMessage
<1>2. /\ frames \in Seq(AFrame)
      /\ \A j \in DOMAIN frames : LET f == frames[j]
                                  IN  f.part.of = u /\ f.id = id /\ f.source = n
  BY <1>1, FramesOfType
<1>3. /\ sent' \in Seq(AMessage)
      /\ u \in DOMAIN sent'
      /\ sent'[u] = m
      /\ \A v \in DOMAIN sent : v \in DOMAIN sent' /\ sent'[v] = sent[v]
  BY <1>1, SentGrows DEF SourceInv
<1> DEFINE new == SubSeq(frames, 1, k)
<1> HIDE DEF frames, u
<1>4. /\ new \in Seq(AFrame)
      /\ Len(new) = k
      /\ \A j \in 1 .. k : j \in DOMAIN frames /\ new[j] = frames[j]
  BY <1>1, <1>2
<1> HIDE DEF new
<1>5. ASSUME NEW j \in DOMAIN new PROVE KnownIn(new[j], sent')
  <2>1. j \in 1 .. k
    BY <1>4
  <2>2. new[j].part.of = u /\ new[j].id = id /\ new[j].source = n
    BY <1>2, <1>4, <2>1
  <2> QED BY <1>3, <2>2 DEF KnownIn
<1>6. \A f : KnownIn(f, sent) => KnownIn(f, sent')
  BY <1>3 DEF KnownIn
<1>7. Types'
  <2>1. txq' \in [Node -> Seq(AFrame)]
    <3>1. txq[n] \o new \in Seq(AFrame)
      BY <1>4 DEF SourceInv, Types
    <3> QED BY <1>1, <3>1 DEF SourceInv, Types, new
  <2> QED BY <1>1, <1>3, <2>1 DEF SourceInv, Types
<1>8. FramesKnown'
  <2>1. ASSUME NEW o \in Node, NEW j \in DOMAIN txq'[o]
        PROVE  KnownIn(txq'[o][j], sent')
    <3>1. CASE o # n
      <4>1. txq'[o] = txq[o]
        BY <1>1, <3>1 DEF SourceInv, Types
      <4> QED BY <1>6, <2>1, <4>1 DEF SourceInv, FramesKnown
    <3>2. CASE o = n
      <4>1. txq'[o] = txq[n] \o new
        BY <1>1, <3>2 DEF SourceInv, Types, new
      <4>2. txq[n] \in Seq(AFrame)
        BY DEF SourceInv, Types
      <4>3. CASE j \in DOMAIN txq[n]
        <5>1. txq'[o][j] = txq[n][j]
          BY <1>4, <4>1, <4>2, <4>3
        <5> QED BY <1>6, <4>3, <5>1 DEF SourceInv, FramesKnown
      <4>4. CASE j \notin DOMAIN txq[n]
        <5>1. j - Len(txq[n]) \in DOMAIN new /\ txq'[o][j] = new[j - Len(txq[n])]
          BY <1>4, <2>1, <4>1, <4>2, <4>4
        <5> QED BY <1>5, <5>1
      <4> QED BY <4>3, <4>4
    <3> QED BY <3>1, <3>2
  <2>2. ASSUME NEW j \in DOMAIN rxq' PROVE KnownIn(rxq'[j], sent')
    BY <1>1, <1>6, <2>2 DEF SourceInv, FramesKnown
  <2> QED BY <2>1, <2>2 DEF FramesKnown
<1>9. BodiesKnown'
  <2>1. \A parts, i, o : BodyIn(parts, i, o, sent) => BodyIn(parts, i, o, sent')
    BY <1>3 DEF BodyIn
  <2> QED BY <1>1, <2>1 DEF SourceInv, BodiesKnown
<1> QED BY <1>7, <1>8, <1>9 DEF SourceInv

(* The bus hands on a frame that is known already. *)
LEMMA ArbitrateKeeps ==
  ASSUME SourceInv, NEW n \in Node, Arbitrate(n)
  PROVE  SourceInv'
<1>1. /\ txq[n] # <<>>
      /\ txq' = [txq EXCEPT ![n] = Tail(@)]
      /\ rxq' = IF canPort THEN Append(rxq, Head(txq[n])) ELSE rxq
      /\ UNCHANGED <<sent, in_progress, delivered>>
  BY DEF Arbitrate
<1>2. txq[n] \in Seq(AFrame) /\ rxq \in Seq(AFrame)
  BY DEF SourceInv, Types
<1>3. /\ Head(txq[n]) \in AFrame
      /\ Tail(txq[n]) \in Seq(AFrame)
      /\ Head(txq[n]) = txq[n][1] /\ 1 \in DOMAIN txq[n]
      /\ \A j \in DOMAIN Tail(txq[n]) : /\ j + 1 \in DOMAIN txq[n]
                                        /\ Tail(txq[n])[j] = txq[n][j + 1]
  BY <1>1, <1>2
<1>4. sent' = sent
  BY <1>1
<1>5. Types'
  BY <1>1, <1>2, <1>3 DEF SourceInv, Types
<1>6. ASSUME NEW o \in Node, NEW j \in DOMAIN txq'[o]
      PROVE  KnownIn(txq'[o][j], sent')
  <2>1. CASE o # n
    BY <1>1, <1>4, <1>6, <2>1 DEF SourceInv, Types, FramesKnown
  <2>2. CASE o = n
    <3>1. txq'[o] = Tail(txq[n])
      BY <1>1, <2>2 DEF SourceInv, Types
    <3> QED BY <1>3, <1>4, <1>6, <3>1 DEF SourceInv, FramesKnown
  <2> QED BY <2>1, <2>2
<1>7. ASSUME NEW j \in DOMAIN rxq'
      PROVE  KnownIn(rxq'[j], sent')
  <2>1. CASE j \in DOMAIN rxq
    <3>1. rxq'[j] = rxq[j]
      BY <1>1, <1>2, <2>1
    <3> QED BY <1>4, <2>1, <3>1 DEF SourceInv, FramesKnown
  <2>2. CASE j \notin DOMAIN rxq
    <3>1. rxq'[j] = Head(txq[n])
      BY <1>1, <1>2, <1>7, <2>2
    <3> QED BY <1>3, <1>4, <3>1 DEF SourceInv, FramesKnown
  <2> QED BY <2>1, <2>2
<1>8. FramesKnown'
  BY <1>6, <1>7 DEF FramesKnown
<1>9. BodiesKnown'
  BY <1>1 DEF SourceInv, BodiesKnown
<1> QED BY <1>5, <1>8, <1>9 DEF SourceInv

(* The button empties the socket and leaves the bodies alone. *)
LEMMA SwitchKeeps ==
  ASSUME SourceInv, OpenCloseSwitch
  PROVE  SourceInv'
<1>1. rxq' = <<>> /\ UNCHANGED <<txq, sent, in_progress, delivered>>
  BY DEF OpenCloseSwitch
<1>2. Types'
  BY <1>1 DEF SourceInv, Types
<1>3. FramesKnown'
  BY <1>1 DEF SourceInv, FramesKnown
<1>4. BodiesKnown'
  BY <1>1 DEF SourceInv, BodiesKnown
<1> QED BY <1>2, <1>3, <1>4 DEF SourceInv

(* Reading takes a known frame off the socket. *)
LEMMA ReadsKnown ==
  ASSUME SourceInv, NEW f, Reads(f)
  PROVE  /\ f \in AFrame
         /\ KnownIn(f, sent)
         /\ rxq' \in Seq(AFrame)
         /\ UNCHANGED <<txq, sent>>
         /\ FramesKnown'
<1>1. /\ rxq # <<>>
      /\ f = Head(rxq)
      /\ rxq' = Tail(rxq)
      /\ UNCHANGED <<txq, sent>>
  BY DEF Reads
<1>2. /\ rxq \in Seq(AFrame)
      /\ f \in AFrame
      /\ f = rxq[1] /\ 1 \in DOMAIN rxq
      /\ rxq' \in Seq(AFrame)
      /\ \A j \in DOMAIN rxq' : j + 1 \in DOMAIN rxq /\ rxq'[j] = rxq[j + 1]
  BY <1>1 DEF SourceInv, Types
<1>3. KnownIn(f, sent)
  BY <1>2 DEF SourceInv, FramesKnown
<1>5. FramesKnown'
  BY <1>1, <1>2 DEF SourceInv, FramesKnown
<1> QED BY <1>1, <1>2, <1>3, <1>5

(* A frame's part is filed under the key of its source and id. *)
LEMMA KeyParts ==
  ASSUME NEW f
  PROVE  KeyOf(f)[1] = f.id /\ KeyOf(f)[2] = f.source
BY DEF KeyOf

(* A body put into the table under its own key keeps the table right. *)
LEMMA PutKeeps ==
  ASSUME SourceInv, NEW f \in AFrame, NEW progress \in ABody,
         BodyIn(progress.parts, f.id, f.source, sent),
         in_progress' = Put(KeyOf(f), progress),
         UNCHANGED <<sent, delivered>>
  PROVE  /\ \A key \in DOMAIN in_progress' : in_progress'[key] \in ABody
         /\ BodiesKnown'
<1> DEFINE mine == KeyOf(f)
<1>1. /\ DOMAIN in_progress' = DOMAIN in_progress \cup {mine}
      /\ in_progress'[mine] = progress
      /\ \A k \in DOMAIN in_progress : k # mine => in_progress'[k] = in_progress[k]
  BY DEF Put
<1>2. mine[1] = f.id /\ mine[2] = f.source
  BY KeyParts
<1> HIDE DEF mine
<1>3. ASSUME NEW key \in DOMAIN in_progress'
      PROVE  /\ in_progress'[key] \in ABody
             /\ BodyIn(in_progress'[key].parts, key[1], key[2], sent)
  <2>1. CASE key = mine
    BY <1>1, <1>2, <2>1
  <2>2. CASE key # mine
    BY <1>1, <1>3, <2>2 DEF SourceInv, Types, BodiesKnown
  <2> QED BY <2>1, <2>2
<1>4. BodiesKnown'
  BY <1>3 DEF SourceInv, BodiesKnown
<1> QED BY <1>3, <1>4

(* Giving out a body of one source and id keeps the deliveries right. *)
LEMMA GiveKeeps ==
  ASSUME SourceInv, NEW f \in AFrame, NEW length \in Int, NEW parts \in Seq(APart),
         BodyIn(parts, f.id, f.source, sent),
         Give(f, length, parts), UNCHANGED sent,
         \A key \in DOMAIN in_progress' :
           key \in DOMAIN in_progress /\ in_progress'[key] = in_progress[key]
  PROVE  /\ delivered' \in Seq(ADelivery)
         /\ \A key \in DOMAIN in_progress' : in_progress'[key] \in ABody
         /\ BodiesKnown'
<1> DEFINE d == [id |-> f.id, from |-> f.source, length |-> length, parts |-> parts]
<1>1. d \in ADelivery
  BY DEF ADelivery, AFrame
<1>2. delivered' = Append(delivered, d) /\ delivered \in Seq(ADelivery)
  BY DEF Give, SourceInv, Types
<1>3. d.parts = parts /\ d.id = f.id /\ d.from = f.source
  OBVIOUS
<1> HIDE DEF d
<1>4. delivered' \in Seq(ADelivery)
  BY <1>1, <1>2
<1>5. ASSUME NEW j \in DOMAIN delivered'
      PROVE  BodyIn(delivered'[j].parts, delivered'[j].id, delivered'[j].from, sent)
  <2>1. CASE j \in DOMAIN delivered
    <3>1. delivered'[j] = delivered[j]
      BY <1>1, <1>2, <2>1
    <3> QED BY <2>1, <3>1 DEF SourceInv, BodiesKnown
  <2>2. CASE j \notin DOMAIN delivered
    <3>1. delivered'[j] = d
      BY <1>1, <1>2, <1>5, <2>2
    <3> QED BY <1>3, <3>1
  <2> QED BY <2>1, <2>2
<1>6. BodiesKnown'
  BY <1>5 DEF SourceInv, BodiesKnown
<1> QED BY <1>4, <1>6 DEF SourceInv, Types

(* One frame is a body of its own source and id. *)
LEMMA SinglePart ==
  ASSUME NEW s, NEW f \in AFrame, KnownIn(f, s)
  PROVE  <<f.part>> \in Seq(APart) /\ BodyIn(<<f.part>>, f.id, f.source, s)
<1>1. f.part \in APart
  BY DEF AFrame
<1> QED BY <1>1 DEF BodyIn, KnownIn

(* Every frame read keeps every body of one source and one id. *)
LEMMA ReassembleKeeps ==
  ASSUME SourceInv, Reassemble
  PROVE  SourceInv'
<1> DEFINE f == Head(rxq)
<1>1. Reads(f)
  BY DEF Reassemble, WholeMessage, NewStream, StrayFragment, Fragment
<1>2. PICK g : g = f
  OBVIOUS
<1>3. /\ Reads(g)
      /\ WholeMessage(g) \/ NewStream(g) \/ StrayFragment(g) \/ Fragment(g)
  BY <1>1, <1>2 DEF Reassemble
<1>4. /\ g \in AFrame
      /\ KnownIn(g, sent)
      /\ rxq' \in Seq(AFrame)
      /\ UNCHANGED <<txq, sent>>
      /\ FramesKnown'
  BY <1>3, ReadsKnown
<1> HIDE DEF f
<1>5. <<g.part>> \in Seq(APart) /\ BodyIn(<<g.part>>, g.id, g.source, sent)
  BY <1>4, SinglePart
<1>6. g.part.size \in Int /\ g.total \in Int /\ g.total \in Length
  BY <1>4, Sizes DEF AFrame, APart
<1> SUFFICES /\ delivered' \in Seq(ADelivery)
             /\ \A key \in DOMAIN in_progress' : in_progress'[key] \in ABody
             /\ BodiesKnown'
  BY <1>4 DEF SourceInv, Types
<1>7. CASE WholeMessage(g)
  <2>1. Give(g, g.part.size, <<g.part>>) /\ in_progress' = in_progress
    BY <1>7 DEF WholeMessage
  <2> QED BY <1>4, <1>5, <1>6, <2>1, GiveKeeps
<1>8. CASE NewStream(g)
  <2> DEFINE body == [total |-> g.total, count |-> g.part.size, parts |-> <<g.part>>]
  <2>1. in_progress' = Put(KeyOf(g), body) /\ delivered' = delivered
    BY <1>8 DEF NewStream
  <2>2. body \in ABody /\ body.parts = <<g.part>>
    BY <1>5, <1>6 DEF ABody
  <2> HIDE DEF body
  <2>3. /\ \A key \in DOMAIN in_progress' : in_progress'[key] \in ABody
        /\ BodiesKnown'
    BY <1>4, <1>5, <2>1, <2>2, PutKeeps
  <2> QED BY <2>1, <2>3 DEF SourceInv, Types
<1>9. CASE StrayFragment(g)
  BY <1>4, <1>9 DEF StrayFragment, SourceInv, Types, BodiesKnown
<1>10. CASE Fragment(g)
  <2> DEFINE p == in_progress[KeyOf(g)]
             count == p.count + g.part.size
             parts == Append(p.parts, g.part)
             body == [total |-> p.total, count |-> count, parts |-> parts]
  <2>1. KeyOf(g) \in DOMAIN in_progress
    BY <1>10 DEF Fragment
  <2>2. /\ p \in ABody
        /\ p.parts \in Seq(APart)
        /\ BodyIn(p.parts, g.id, g.source, sent)
    BY <2>1, KeyParts DEF SourceInv, Types, BodiesKnown, ABody
  <2>3. parts \in Seq(APart) /\ BodyIn(parts, g.id, g.source, sent)
    BY <1>4, <2>2, PartAdded
  <2>4. p.total \in Int
    BY <2>2, Sizes DEF ABody
  <2>5. body \in ABody /\ body.parts = parts
    <3> HIDE DEF p, parts
    <3>1. count \in Int
      BY <1>6, <2>2 DEF ABody
    <3> HIDE DEF count
    <3>2. p.total \in Length
      BY <2>2 DEF ABody
    <3> QED BY <2>3, <3>1, <3>2 DEF ABody
  <2>6. CASE in_progress' = Put(KeyOf(g), body) /\ UNCHANGED delivered
    <3> HIDE DEF body, parts
    <3>1. /\ \A key \in DOMAIN in_progress' : in_progress'[key] \in ABody
          /\ BodiesKnown'
      BY <1>4, <2>3, <2>5, <2>6, PutKeeps
    <3> QED BY <2>6, <3>1 DEF SourceInv, Types
  <2>7. CASE in_progress' = Pop(KeyOf(g)) /\ Give(g, p.total, parts)
    <3> HIDE DEF parts, p
    <3>1. \A key \in DOMAIN in_progress' :
            key \in DOMAIN in_progress /\ in_progress'[key] = in_progress[key]
      BY <2>7 DEF Pop
    <3> QED BY <1>4, <2>3, <2>4, <2>7, <3>1, GiveKeeps
  <2>8. CASE UNCHANGED <<in_progress, delivered>>
    BY <1>4, <2>8 DEF SourceInv, Types, BodiesKnown
  <2> QED BY <1>10, <2>6, <2>7, <2>8 DEF Fragment
<1> QED BY <1>3, <1>7, <1>8, <1>9, <1>10

(* Everything on its way and in a body is known to the history. *)
LEMMA SourceKept == Spec => []SourceInv
<1>1. Init => SourceInv
  <2> SUFFICES ASSUME Init PROVE SourceInv
    OBVIOUS
  <2>1. Types
    BY DEF Init, Types
  <2>2. FramesKnown
    BY DEF Init, FramesKnown
  <2>3. BodiesKnown
    BY DEF Init, BodiesKnown
  <2> QED BY <2>1, <2>2, <2>3 DEF SourceInv
<1>2. SourceInv /\ [Next]_vars => SourceInv'
  <2> SUFFICES ASSUME SourceInv, [Next]_vars
               PROVE  SourceInv'
    OBVIOUS
  <2>1. CASE UNCHANGED vars
    BY <2>1 DEF vars, SourceInv, Types, FramesKnown, BodiesKnown
  <2>2. CASE \E n \in Node, id \in Id, length \in Length :
               \E k \in 0 .. packet_count(length) : Send(n, id, length, k)
    <3>1. PICK n \in Node, id \in Id, length \in Length :
            \E k \in 0 .. packet_count(length) : Send(n, id, length, k)
      BY <2>2
    <3>2. PICK k \in 0 .. packet_count(length) : Send(n, id, length, k)
      BY <3>1
    <3> QED BY <3>2, SendKeeps
  <2>3. CASE \E n \in Node : Arbitrate(n)
    BY <2>3, ArbitrateKeeps
  <2>4. CASE OpenCloseSwitch
    BY <2>4, SwitchKeeps
  <2>5. CASE Reassemble
    BY <2>5, ReassembleKeeps
  <2> QED BY <2>1, <2>2, <2>3, <2>4, <2>5 DEF Next
<1> QED BY <1>1, <1>2, PTL DEF Spec

(***************************************************************************)
(* Every byte of a body comes from messages of the id and source the body  *)
(* has, for any nodes, ids, lengths and losses (CanPlugin.py:227).  The    *)
(* invariant follows the bytes from the queue of the sender over the bus:  *)
(* each frame on its way names a message that was sent, and is of that     *)
(* message's id and source.                                                *)
(***************************************************************************)
THEOREM SourcesCorrect == Spec => []SourcesNeverMix
<1>1. SourceInv => SourcesNeverMix
  BY DEF SourceInv, Types, BodiesKnown, BodyIn, SourcesNeverMix, Origin, Range
<1> QED BY <1>1, SourceKept, PTL
-----------------------------------------------------------------------------
(* f gives the bytes of the first k parts, and n is all of them.  The       *)
(* second conjunct of Sums stands for an induction over the parts: the      *)
(* machine makes it, a part a step.                                         *)
IsTotals(f, parts) ==
    f = [k \in 0 .. Len(parts) |-> IF k = 0 THEN 0 ELSE f[k - 1] + parts[k].size]

Sums(parts, n) == /\ \E f : IsTotals(f, parts)
                  /\ \A f : IsTotals(f, parts) => f[Len(parts)] = n

LEMMA SumsOne ==
  ASSUME NEW p \in APart
  PROVE  Sums(<<p>>, p.size)
<1> DEFINE parts == <<p>>
           g == [k \in 0 .. 1 |-> IF k = 0 THEN 0 ELSE p.size]
<1>1. p.size \in Int
  BY DEF APart
<1>2. Len(parts) = 1 /\ parts[1] = p
  OBVIOUS
<1> HIDE DEF parts
<1>3. g = [k \in 0 .. 1 |-> IF k = 0 THEN 0 ELSE g[k - 1] + parts[k].size]
  <2>1. g[0] = 0 /\ g[1] = p.size
    OBVIOUS
  <2>2. \A k \in 0 .. 1 : k = 0 \/ k = 1
    OBVIOUS
  <2>3. \A k \in 0 .. 1 :
          (IF k = 0 THEN 0 ELSE p.size) = IF k = 0 THEN 0 ELSE g[k - 1] + parts[k].size
    <3> HIDE DEF g
    <3>1. 1 - 1 = 0 /\ 0 + p.size = p.size
      BY <1>1
    <3> QED BY <1>2, <2>1, <2>2, <3>1
  <2> QED BY <2>3
<1>4. IsTotals(g, parts)
  BY <1>2, <1>3 DEF IsTotals
<1>5. ASSUME NEW f, IsTotals(f, parts) PROVE f[1] = p.size
  <2>1. f = [k \in 0 .. 1 |-> IF k = 0 THEN 0 ELSE f[k - 1] + parts[k].size]
    BY <1>2, <1>5 DEF IsTotals
  <2>2. f[0] = 0
    BY <2>1
  <2>3. f[1] = f[1 - 1] + parts[1].size
    BY <2>1
  <2> QED BY <1>1, <1>2, <2>2, <2>3
<1> QED BY <1>2, <1>4, <1>5 DEF Sums, parts

LEMMA SumsMore ==
  ASSUME NEW parts \in Seq(APart), NEW p \in APart, NEW n \in Int, Sums(parts, n)
  PROVE  Sums(Append(parts, p), n + p.size)
<1> DEFINE more == Append(parts, p)
           L == Len(parts)
<1>1. /\ L \in Nat /\ Len(more) = L + 1 /\ more[L + 1] = p
      /\ \A k \in 1 .. L : more[k] = parts[k]
  OBVIOUS
<1>2. PICK f : IsTotals(f, parts)
  BY DEF Sums
<1>3. f[L] = n
  BY <1>2 DEF Sums
<1> DEFINE g == [k \in 0 .. L + 1 |-> IF k = L + 1 THEN n + p.size ELSE f[k]]
<1> HIDE DEF L, more
<1>4. /\ f = [k \in 0 .. L |-> IF k = 0 THEN 0 ELSE f[k - 1] + parts[k].size]
  BY <1>2 DEF IsTotals, L
<1>5. \A k \in 0 .. L : g[k] = f[k]
  BY <1>1
<1>6. g[L + 1] = n + p.size /\ DOMAIN g = 0 .. L + 1
  BY <1>1
<1>7. ASSUME NEW k \in 0 .. L + 1
      PROVE  g[k] = IF k = 0 THEN 0 ELSE g[k - 1] + more[k].size
  <2>1. CASE k = L + 1
    <3>1. k - 1 = L /\ k # 0 /\ L \in 0 .. L
      BY <1>1, <2>1
    <3>2. g[k - 1] = n
      BY <1>3, <1>5, <3>1
    <3> HIDE DEF g
    <3> QED BY <1>1, <1>6, <2>1, <3>1, <3>2
  <2>2. CASE k = 0
    <3>1. 0 \in 0 .. L
      BY <1>1
    <3>2. f[0] = 0
      BY <1>4, <3>1
    <3> HIDE DEF g
    <3> QED BY <1>5, <2>2, <3>1, <3>2
  <2>3. CASE k \in 1 .. L
    <3>1. k \in 0 .. L /\ k - 1 \in 0 .. L /\ k # 0
      BY <1>1, <2>3
    <3>2. f[k] = f[k - 1] + parts[k].size
      BY <1>4, <3>1
    <3> HIDE DEF g
    <3> QED BY <1>1, <1>5, <2>3, <3>1, <3>2
  <2>4. k = L + 1 \/ k = 0 \/ k \in 1 .. L
    BY <1>1
  <2> QED BY <2>1, <2>2, <2>3, <2>4
<1>8. IsTotals(g, more)
  <2>1. g = [k \in 0 .. L + 1 |-> g[k]]
    BY <1>6
  <2> HIDE DEF g
  <2>2. g = [k \in 0 .. L + 1 |-> IF k = 0 THEN 0 ELSE g[k - 1] + more[k].size]
    BY <1>7, <2>1
  <2> QED BY <1>1, <2>2 DEF IsTotals
<1>9. ASSUME NEW h, IsTotals(h, more) PROVE h[L + 1] = n + p.size
  <2> DEFINE e == [k \in 0 .. L |-> h[k]]
  <2>1. h = [k \in 0 .. L + 1 |-> IF k = 0 THEN 0 ELSE h[k - 1] + more[k].size]
    BY <1>1, <1>9 DEF IsTotals
  <2>2. \A k \in 0 .. L : e[k] = h[k]
    OBVIOUS
  <2>3. ASSUME NEW k \in 0 .. L
        PROVE  e[k] = IF k = 0 THEN 0 ELSE e[k - 1] + parts[k].size
    <3>1. k \in 0 .. L + 1
      BY <1>1
    <3>2. CASE k = 0
      BY <2>1, <2>2, <3>1, <3>2
    <3>3. CASE k # 0
      <4>1. k \in 1 .. L /\ k - 1 \in 0 .. L
        BY <1>1, <3>3
      <4>2. h[k] = h[k - 1] + more[k].size
        BY <2>1, <3>1, <3>3
      <4> HIDE DEF e
      <4> QED BY <1>1, <2>2, <3>3, <4>1, <4>2
    <3> QED BY <3>2, <3>3
  <2>4. e = [k \in 0 .. L |-> e[k]]
    OBVIOUS
  <2> HIDE DEF e
  <2>5. IsTotals(e, parts)
    BY <2>3, <2>4 DEF IsTotals, L
  <2>6. e[L] = n
    BY <2>5 DEF Sums, L
  <2>7. h[L + 1] = h[(L + 1) - 1] + more[L + 1].size
    <3>1. L + 1 \in 0 .. L + 1 /\ L + 1 # 0
      BY <1>1
    <3> QED BY <2>1, <3>1
  <2>8. (L + 1) - 1 = L /\ L \in 0 .. L
    BY <1>1
  <2> QED BY <1>1, <2>2, <2>6, <2>7, <2>8
<1> QED BY <1>1, <1>8, <1>9 DEF Sums, more

LEMMA SumsTotal ==
  ASSUME NEW parts \in Seq(APart), NEW n, Sums(parts, n)
  PROVE  TotalSize(parts) = n
<1> DEFINE f == CHOOSE f : f = [k \in 0 .. Len(parts) |->
                                  IF k = 0 THEN 0 ELSE f[k - 1] + parts[k].size]
<1>1. IsTotals(f, parts)
  BY DEF Sums, IsTotals
<1>2. TotalSize(parts) = f[Len(parts)]
  BY DEF TotalSize
<1> QED BY <1>1, <1>2 DEF Sums
-----------------------------------------------------------------------------
(* Frame k of message u of a history s, and its part of the body. *)
Part(u, k, s) ==
    [of |-> u, first |-> StartOf(k),
     size |-> Least(s[u].length - StartOf(k), max_packet_size(s[u].length, StartOf(k)))]

Frame(u, k, s) ==
    [id |-> s[u].id, source |-> s[u].from, total |-> s[u].length,
     fragmented |-> packet_count(s[u].length) > 1, newStream |-> (k = 1),
     part |-> Part(u, k, s)]

Count(u, s) == packet_count(s[u].length)

IsFrame(f, k, s) == /\ f.part.of \in DOMAIN s
                    /\ k \in 1 .. Count(f.part.of, s)
                    /\ f = Frame(f.part.of, k, s)

(* The frames in a node's queue or in the socket. *)
OnWay(f) == \/ \E i \in DOMAIN rxq : f = rxq[i]
            \/ \E n \in Node : \E j \in DOMAIN txq[n] : f = txq[n][j]

Numbered == \A f : OnWay(f) => \E k : IsFrame(f, k, sent)

(* A body begins where a message begins, and is as long as that. *)
Begun(parts, total, s) == /\ parts # <<>>
                          /\ parts[1].of \in DOMAIN s
                          /\ parts[1].first = 0
                          /\ total = s[parts[1].of].length

BodiesBegun == \A key \in DOMAIN in_progress :
                 LET b == in_progress[key]
                 IN  Begun(b.parts, b.total, sent) /\ Sums(b.parts, b.count)

DeliveredBegun == \A j \in DOMAIN delivered :
                    LET d == delivered[j]
                    IN  Begun(d.parts, d.length, sent) /\ Sums(d.parts, d.length)

BeginInv == SourceInv /\ Numbered /\ BodiesBegun /\ DeliveredBegun

(* The length of a message, and the number of its frames. *)
LEMMA Lengths ==
  ASSUME NEW s \in Seq(AMessage), NEW u \in DOMAIN s
  PROVE  /\ s[u].length \in Nat /\ s[u].length > 0 /\ s[u].length <= MAX_MSG_SIZE
         /\ s[u].length \in 1 .. MAX_MSG_SIZE /\ s[u] \in AMessage
         /\ Count(u, s) \in Nat \ {0}
<1>1. s[u] \in AMessage
  OBVIOUS
<1>2. s[u].length \in 1 .. MAX_MSG_SIZE
  BY <1>1, LinkAssumption DEF AMessage
<1>3. MAX_MSG_SIZE \in Nat
  BY Bounds
<1>4. s[u].length \in Nat /\ s[u].length > 0 /\ s[u].length <= MAX_MSG_SIZE
  BY <1>2, <1>3
<1> QED BY <1>1, <1>2, <1>4, CountReaches DEF Count

(* What FramesOf makes. *)
LEMMA FramesOfFields ==
  ASSUME NEW s \in Seq(AMessage), NEW u \in DOMAIN s
  PROVE  LET frames == FramesOf(u, s[u].from, s[u].id, s[u].length)
         IN  /\ DOMAIN frames = 1 .. Count(u, s)
             /\ \A k \in DOMAIN frames : frames[k] = Frame(u, k, s)
<1> DEFINE n == s[u].length
           made == Frames(n)
           frames == FramesOf(u, s[u].from, s[u].id, n)
<1>1. n \in 1 .. MAX_MSG_SIZE /\ packet_count(n) \in Nat \ {0}
  BY Lengths DEF Count
<1>2. made = [k \in 1 .. packet_count(n) |-> Packet(n, StartOf(k), k - 1, 0)]
  BY <1>1 DEF Frames
<1>3. DOMAIN made = 1 .. packet_count(n)
  BY <1>2
<1>4. ASSUME NEW k \in 1 .. packet_count(n)
      PROVE  /\ made[k].fragmented = (packet_count(n) > 1)
             /\ made[k].newStream = (k = 1)
             /\ made[k].first = StartOf(k)
             /\ made[k].size = Least(n - StartOf(k), max_packet_size(n, StartOf(k)))
  <2>1. made[k] = Packet(n, StartOf(k), k - 1, 0)
    BY <1>2
  <2>2. StartOf(k) = 0 <=> k = 1
    BY <1>1, Starts
  <2>3. (StartOf(k) = 0) = (k = 1)
    BY <2>2
  <2>4. made[k].newStream = (StartOf(k) = 0)
    BY <2>1, PacketFields
  <2> QED BY <2>1, <2>3, <2>4, PacketFields
<1> HIDE DEF made
<1>5. frames = [k \in 1 .. packet_count(n) |->
                  [id |-> s[u].id, source |-> s[u].from, total |-> n,
                   fragmented |-> made[k].fragmented, newStream |-> made[k].newStream,
                   part |-> [of |-> u, first |-> made[k].first, size |-> made[k].size]]]
  BY <1>3 DEF FramesOf, made
<1>6. ASSUME NEW k \in 1 .. packet_count(n) PROVE frames[k] = Frame(u, k, s)
  <2> HIDE DEF frames
  <2>1. frames[k] = [id |-> s[u].id, source |-> s[u].from, total |-> n,
                     fragmented |-> made[k].fragmented, newStream |-> made[k].newStream,
                     part |-> [of |-> u, first |-> made[k].first, size |-> made[k].size]]
    BY <1>5
  <2> QED BY <1>4, <2>1, Zenon DEF Frame, Part
<1> QED BY <1>5, <1>6 DEF Count

(* The fields of a frame that is known. *)
LEMMA FrameFields ==
  ASSUME NEW f, NEW k, NEW s, IsFrame(f, k, s)
  PROVE  LET u == f.part.of
         IN  /\ u \in DOMAIN s /\ k \in 1 .. Count(u, s)
             /\ f.id = s[u].id /\ f.source = s[u].from /\ f.total = s[u].length
             /\ f.fragmented <=> Count(u, s) > 1
             /\ f.newStream <=> k = 1
             /\ f.part = Part(u, k, s) /\ f.part.first = StartOf(k)
             /\ f.part.size = Least(s[u].length - StartOf(k),
                                    max_packet_size(s[u].length, StartOf(k)))
<1> DEFINE u == f.part.of
<1>1. u \in DOMAIN s /\ k \in 1 .. Count(u, s) /\ f = Frame(u, k, s)
  BY DEF IsFrame
<1>2. f.part = Part(u, k, s)
  BY <1>1 DEF Frame
<1> HIDE DEF u
<1>3. f.part.first = StartOf(k)
  BY <1>2 DEF Part
<1>4. f.part.size = Least(s[u].length - StartOf(k), max_packet_size(s[u].length, StartOf(k)))
  BY <1>2 DEF Part
<1>5. /\ f.id = s[u].id /\ f.source = s[u].from /\ f.total = s[u].length
      /\ f.fragmented = (Count(u, s) > 1) /\ f.newStream = (k = 1)
  BY <1>1 DEF Frame, Count
<1> QED BY <1>1, <1>2, <1>3, <1>4, <1>5, Zenon DEF u

(* The first frame begins the message; a frame that is no fragment is all.  *)
LEMMA FirstFrame ==
  ASSUME NEW s \in Seq(AMessage), NEW f, NEW k, IsFrame(f, k, s)
  PROVE  /\ (f.newStream \/ ~f.fragmented) => k = 1 /\ f.part.first = 0
         /\ ~f.fragmented => Count(f.part.of, s) = 1 /\ f.part.size = s[f.part.of].length
<1> DEFINE u == f.part.of
           n == s[u].length
<1>1. /\ u \in DOMAIN s /\ k \in 1 .. Count(u, s) /\ f.part.first = StartOf(k)
      /\ f.fragmented <=> Count(u, s) > 1
      /\ f.newStream <=> k = 1
      /\ f.part.size = Least(n - StartOf(k), max_packet_size(n, StartOf(k)))
  BY FrameFields
<1>2. n \in Nat /\ n > 0 /\ Count(u, s) \in Nat \ {0}
  BY <1>1, Lengths
<1>3. ASSUME f.newStream \/ ~f.fragmented PROVE k = 1 /\ f.part.first = 0
  <2>1. k = 1
    BY <1>1, <1>2, <1>3
  <2> QED BY <1>1, <2>1 DEF StartOf
<1>4. ASSUME ~f.fragmented PROVE Count(u, s) = 1 /\ f.part.size = n
  <2>1. Count(u, s) = 1 /\ StartOf(k) = 0
    BY <1>1, <1>2, <1>3, <1>4
  <2>2. n <= MAX_PACKET_SIZE
    BY <1>2, <2>1, CountReaches DEF Count
  <2>3. max_packet_size(n, StartOf(k)) = MAX_PACKET_SIZE
    BY <2>1 DEF max_packet_size, Count
  <2>4. n - 0 = n
    BY <1>2
  <2> QED BY <1>1, <2>1, <2>2, <2>3, <2>4 DEF Least
<1> QED BY <1>3, <1>4
-----------------------------------------------------------------------------
(* What Send does to the history and to the queues. *)
LEMMA SendMakes ==
  ASSUME SourceInv, NEW n \in Node, NEW id \in Id, NEW length \in Length,
         NEW k \in Nat, Send(n, id, length, k)
  PROVE  LET u == Len(sent) + 1
         IN  /\ sent' \in Seq(AMessage) /\ DOMAIN sent' = DOMAIN sent \cup {u}
             /\ u \in Nat /\ u \notin DOMAIN sent
             /\ sent'[u] = [from |-> n, id |-> id, length |-> length]
             /\ \A v \in DOMAIN sent : sent'[v] = sent[v] /\ v < u
             /\ \A o \in Node : o # n => txq'[o] = txq[o]
             /\ txq[n] \in Seq(AFrame)
             /\ \E new \in Seq(AFrame) :
                  /\ txq'[n] = txq[n] \o new
                  /\ \A j \in DOMAIN new : j \in 1 .. Count(u, sent') /\ new[j] = Frame(u, j, sent')
<1> DEFINE u == Len(sent) + 1
           m == [from |-> n, id |-> id, length |-> length]
           frames == FramesOf(u, n, id, length)
           new == SubSeq(frames, 1, k)
<1>1. /\ k <= Len(frames) /\ sent' = Append(sent, m)
      /\ txq' = [txq EXCEPT ![n] = @ \o new]
  BY DEF Send
<1>2. /\ sent \in Seq(AMessage) /\ txq \in [Node -> Seq(AFrame)] /\ txq[n] \in Seq(AFrame)
  BY DEF SourceInv, Types
<1>3. m \in AMessage
  BY DEF AMessage
<1> HIDE DEF m
<1>4. /\ sent' \in Seq(AMessage) /\ DOMAIN sent' = DOMAIN sent \cup {u}
      /\ u \in Nat /\ u \notin DOMAIN sent /\ sent'[u] = m
      /\ \A v \in DOMAIN sent : sent'[v] = sent[v] /\ v < u
  BY <1>1, <1>2, <1>3
<1>5. sent'[u].from = n /\ sent'[u].id = id /\ sent'[u].length = length
  BY <1>4 DEF m
<1> HIDE DEF u
<1>6. /\ DOMAIN frames = 1 .. Count(u, sent')
      /\ \A j \in DOMAIN frames : frames[j] = Frame(u, j, sent')
  BY <1>4, <1>5, FramesOfFields
<1>7. frames \in Seq(AFrame)
  BY <1>4, FramesOfType
<1> HIDE DEF frames
<1>8. /\ new \in Seq(AFrame) /\ DOMAIN new = 1 .. k /\ Len(new) = k
      /\ \A j \in 1 .. k : j \in DOMAIN frames /\ new[j] = frames[j]
  BY <1>1, <1>7
<1> HIDE DEF new
<1>9. txq'[n] = txq[n] \o new /\ \A o \in Node : o # n => txq'[o] = txq[o]
  BY <1>1, <1>2
<1>10. \A j \in DOMAIN new : j \in 1 .. Count(u, sent') /\ new[j] = Frame(u, j, sent')
  BY <1>6, <1>8
<1> QED BY <1>2, <1>4, <1>8, <1>9, <1>10 DEF u, m

(* A frame keeps its number, and a body its beginning, as the history grows. *)
LEMMA NumberStays ==
  ASSUME NEW s, NEW t, DOMAIN s \subseteq DOMAIN t, \A u \in DOMAIN s : t[u] = s[u]
  PROVE  /\ \A f, k : IsFrame(f, k, s) => IsFrame(f, k, t)
         /\ \A f, k : f.part.of \in DOMAIN s /\ IsFrame(f, k, t) => IsFrame(f, k, s)
         /\ \A parts, total : Begun(parts, total, s) => Begun(parts, total, t)
<1>1. \A u \in DOMAIN s : \A k : /\ Frame(u, k, s) = Frame(u, k, t)
                                 /\ Count(u, s) = Count(u, t)
  BY DEF Frame, Part, Count
<1> QED BY <1>1 DEF IsFrame, Begun

(* A frame that is on its way after Send was on it before, or is of the new *)
(* message.                                                                 *)
LEMMA SendWay ==
  ASSUME SourceInv, NEW n \in Node, NEW id \in Id, NEW length \in Length,
         NEW k \in Nat, Send(n, id, length, k), NEW f, OnWay(f)'
  PROVE  \/ OnWay(f)
         \/ \E j \in 1 .. Count(Len(sent) + 1, sent') : f = Frame(Len(sent) + 1, j, sent')
<1> DEFINE u == Len(sent) + 1
           New == \E j \in 1 .. Count(u, sent') : f = Frame(u, j, sent')
<1>1. rxq' = rxq
  BY DEF Send
<1>2. CASE \E i \in DOMAIN rxq' : f = rxq'[i]
  BY <1>1, <1>2 DEF OnWay
<1>3. ASSUME NEW o \in Node, NEW j \in DOMAIN txq'[o], f = txq'[o][j]
      PROVE  OnWay(f) \/ New
  <2>1. CASE o # n
    <3>1. txq'[o] = txq[o]
      BY <2>1, SendMakes
    <3> QED BY <1>3, <3>1 DEF OnWay
  <2>2. CASE o = n
    <3>1. PICK new \in Seq(AFrame) :
            /\ txq'[n] = txq[n] \o new
            /\ \A i \in DOMAIN new : i \in 1 .. Count(u, sent') /\ new[i] = Frame(u, i, sent')
      BY SendMakes
    <3> HIDE DEF u
    <3>2. txq[n] \in Seq(AFrame)
      BY SendMakes
    <3>3. \/ j \in DOMAIN txq[n] /\ f = txq[n][j]
          \/ j - Len(txq[n]) \in DOMAIN new /\ f = new[j - Len(txq[n])]
      BY <1>3, <2>2, <3>1, <3>2
    <3>4. CASE j \in DOMAIN txq[n] /\ f = txq[n][j]
      BY <3>4 DEF OnWay
    <3>5. CASE j - Len(txq[n]) \in DOMAIN new /\ f = new[j - Len(txq[n])]
      BY <3>1, <3>5
    <3> QED BY <3>3, <3>4, <3>5
  <2> QED BY <2>1, <2>2
<1> QED BY <1>2, <1>3 DEF OnWay

(* The bus, the button and the reader take frames off the way only. *)
LEMMA ArbitrateWay ==
  ASSUME SourceInv, NEW n \in Node, Arbitrate(n)
  PROVE  /\ txq[n] \in Seq(AFrame) /\ txq[n] # <<>> /\ 1 \in DOMAIN txq[n]
         /\ \A o \in Node : o # n => txq'[o] = txq[o]
         /\ \A j \in DOMAIN txq'[n] : /\ j \in Nat /\ 0 < j /\ j + 1 \in DOMAIN txq[n]
                                      /\ txq'[n][j] = txq[n][j + 1]
         /\ \A i \in DOMAIN rxq' : \/ i \in DOMAIN rxq /\ rxq'[i] = rxq[i]
                                   \/ i = Len(rxq) + 1 /\ rxq'[i] = txq[n][1]
         /\ rxq \in Seq(AFrame)
         /\ \A f : OnWay(f)' => OnWay(f)
<1>1. /\ txq[n] # <<>> /\ txq' = [txq EXCEPT ![n] = Tail(@)]
      /\ rxq' = IF canPort THEN Append(rxq, Head(txq[n])) ELSE rxq
  BY DEF Arbitrate
<1>2. txq \in [Node -> Seq(AFrame)] /\ txq[n] \in Seq(AFrame) /\ rxq \in Seq(AFrame)
  BY DEF SourceInv, Types
<1>3. txq'[n] = Tail(txq[n]) /\ \A o \in Node : o # n => txq'[o] = txq[o]
  BY <1>1, <1>2
<1>4. /\ 1 \in DOMAIN txq[n] /\ Head(txq[n]) = txq[n][1] /\ txq[n][1] \in AFrame
      /\ \A j \in DOMAIN txq'[n] : /\ j \in Nat /\ 0 < j /\ j + 1 \in DOMAIN txq[n]
                                   /\ txq'[n][j] = txq[n][j + 1]
  BY <1>1, <1>2, <1>3
<1>5. \A i \in DOMAIN rxq' : \/ i \in DOMAIN rxq /\ rxq'[i] = rxq[i]
                             \/ i = Len(rxq) + 1 /\ rxq'[i] = txq[n][1]
  <2>1. CASE canPort
    <3>1. rxq' = Append(rxq, txq[n][1])
      BY <1>1, <1>4, <2>1
    <3> QED BY <1>2, <1>4, <3>1
  <2>2. CASE ~canPort
    BY <1>1, <2>2
  <2> QED BY <2>1, <2>2
<1>6. ASSUME NEW f, OnWay(f)' PROVE OnWay(f)
  <2>1. CASE \E i \in DOMAIN rxq' : f = rxq'[i]
    BY <1>4, <1>5, <2>1 DEF OnWay
  <2>2. CASE \E o \in Node : \E j \in DOMAIN txq'[o] : f = txq'[o][j]
    <3>0. PICK o \in Node : \E j \in DOMAIN txq'[o] : f = txq'[o][j]
      BY <2>2
    <3>1. PICK j \in DOMAIN txq'[o] : f = txq'[o][j]
      BY <3>0
    <3>2. CASE o # n
      <4>1. txq'[o] = txq[o]
        BY <1>3, <3>2
      <4> QED BY <3>1, <4>1 DEF OnWay
    <3>3. CASE o = n
      <4>1. j + 1 \in DOMAIN txq[n] /\ f = txq[n][j + 1]
        BY <1>4, <3>1, <3>3
      <4> QED BY <4>1 DEF OnWay
    <3> QED BY <3>2, <3>3
  <2> QED BY <1>6, <2>1, <2>2 DEF OnWay
<1> QED BY <1>1, <1>2, <1>3, <1>4, <1>5, <1>6

LEMMA ReadsWay ==
  ASSUME SourceInv, NEW f, Reads(f)
  PROVE  /\ rxq \in Seq(AFrame) /\ 1 \in DOMAIN rxq /\ f = rxq[1] /\ OnWay(f) /\ f \in AFrame
         /\ \A i \in DOMAIN rxq' : /\ i \in Nat /\ 0 < i /\ i + 1 \in DOMAIN rxq
                                   /\ rxq'[i] = rxq[i + 1]
         /\ txq' = txq /\ sent' = sent
         /\ \A g : OnWay(g)' => OnWay(g)
<1>1. rxq # <<>> /\ f = Head(rxq) /\ rxq' = Tail(rxq) /\ txq' = txq /\ sent' = sent
  BY DEF Reads
<1>2. rxq \in Seq(AFrame)
  BY DEF SourceInv, Types
<1>3. /\ 1 \in DOMAIN rxq /\ f = rxq[1] /\ f \in AFrame
      /\ \A i \in DOMAIN rxq' : /\ i \in Nat /\ 0 < i /\ i + 1 \in DOMAIN rxq
                                /\ rxq'[i] = rxq[i + 1]
  BY <1>1, <1>2
<1>4. \A g : OnWay(g)' => OnWay(g)
  BY <1>1, <1>3 DEF OnWay
<1>5. OnWay(f)
  BY <1>3 DEF OnWay
<1> QED BY <1>1, <1>2, <1>3, <1>4, <1>5
-----------------------------------------------------------------------------
(* A frame of the new message is a frame. *)
LEMMA NewFrame ==
  ASSUME NEW u, NEW s, u \in DOMAIN s, NEW j \in 1 .. Count(u, s), NEW f, f = Frame(u, j, s)
  PROVE  f.part.of = u /\ IsFrame(f, j, s)
<1>1. f.part = Part(u, j, s)
  BY DEF Frame
<1>2. f.part.of = u
  BY <1>1 DEF Part
<1> QED BY <1>2 DEF IsFrame

LEMMA SendBegins ==
  ASSUME BeginInv, NEW n \in Node, NEW id \in Id, NEW length \in Length,
         NEW k \in Nat, Send(n, id, length, k)
  PROVE  Numbered' /\ BodiesBegun' /\ DeliveredBegun'
<1>1. SourceInv /\ Numbered /\ BodiesBegun /\ DeliveredBegun
  BY DEF BeginInv
<1>2. in_progress' = in_progress /\ delivered' = delivered
  BY DEF Send
<1>3. DOMAIN sent \subseteq DOMAIN sent' /\ \A u \in DOMAIN sent : sent'[u] = sent[u]
  BY <1>1, SendMakes
<1>4. /\ \A f, i : IsFrame(f, i, sent) => IsFrame(f, i, sent')
      /\ \A parts, total : Begun(parts, total, sent) => Begun(parts, total, sent')
  BY <1>3, NumberStays
<1>5. ASSUME NEW f, OnWay(f)' PROVE \E i : IsFrame(f, i, sent')
  <2>1. CASE OnWay(f)
    BY <1>1, <1>4, <2>1 DEF Numbered
  <2>2. CASE \E j \in 1 .. Count(Len(sent) + 1, sent') : f = Frame(Len(sent) + 1, j, sent')
    <3>1. Len(sent) + 1 \in DOMAIN sent'
      BY <1>1, SendMakes
    <3> QED BY <2>2, <3>1, NewFrame
  <2> QED BY <1>1, <1>5, <2>1, <2>2, SendWay
<1>6. Numbered'
  BY <1>5 DEF Numbered
<1>7. BodiesBegun' /\ DeliveredBegun'
  BY <1>1, <1>2, <1>4 DEF BodiesBegun, DeliveredBegun
<1> QED BY <1>6, <1>7

(* A body that begins a message, in the table or given out. *)
LEMMA PutBegins ==
  ASSUME BodiesBegun, DeliveredBegun, NEW key, NEW b, Begun(b.parts, b.total, sent),
         Sums(b.parts, b.count), in_progress' = Put(key, b), UNCHANGED <<sent, delivered>>
  PROVE  BodiesBegun' /\ DeliveredBegun'
<1>1. /\ DOMAIN in_progress' = DOMAIN in_progress \cup {key} /\ in_progress'[key] = b
      /\ \A k \in DOMAIN in_progress : k # key => in_progress'[k] = in_progress[k]
  BY DEF Put
<1>2. BodiesBegun'
  BY <1>1 DEF BodiesBegun
<1> QED BY <1>2 DEF DeliveredBegun

LEMMA GiveBegins ==
  ASSUME SourceInv, BodiesBegun, DeliveredBegun, NEW f \in AFrame, NEW total \in Int,
         NEW parts \in Seq(APart), Begun(parts, total, sent), Sums(parts, total),
         Give(f, total, parts), UNCHANGED sent,
         \A key \in DOMAIN in_progress' :
           key \in DOMAIN in_progress /\ in_progress'[key] = in_progress[key]
  PROVE  BodiesBegun' /\ DeliveredBegun'
<1> DEFINE d == [id |-> f.id, from |-> f.source, length |-> total, parts |-> parts]
<1>1. delivered' = Append(delivered, d) /\ delivered \in Seq(ADelivery)
  BY DEF Give, SourceInv, Types
<1>2. d \in ADelivery /\ d.parts = parts /\ d.length = total
  BY DEF ADelivery, AFrame
<1> HIDE DEF d
<1>3. ASSUME NEW j \in DOMAIN delivered'
      PROVE  Begun(delivered'[j].parts, delivered'[j].length, sent)
             /\ Sums(delivered'[j].parts, delivered'[j].length)
  <2>1. \/ j \in DOMAIN delivered /\ delivered'[j] = delivered[j]
        \/ delivered'[j] = d
    BY <1>1, <1>2, <1>3
  <2>2. CASE j \in DOMAIN delivered /\ delivered'[j] = delivered[j]
    BY <2>2 DEF DeliveredBegun
  <2>3. CASE delivered'[j] = d
    BY <1>2, <2>3
  <2> QED BY <2>1, <2>2, <2>3
<1>4. BodiesBegun'
  BY DEF BodiesBegun
<1> QED BY <1>3, <1>4 DEF DeliveredBegun

(* A body keeps its beginning, and counts the bytes of its parts. *)
LEMMA ReassembleBegins ==
  ASSUME BeginInv, Reassemble
  PROVE  Numbered' /\ BodiesBegun' /\ DeliveredBegun'
<1>1. SourceInv /\ Numbered /\ BodiesBegun /\ DeliveredBegun
  BY DEF BeginInv
<1>2. PICK f : /\ Reads(f)
               /\ WholeMessage(f) \/ NewStream(f) \/ StrayFragment(f) \/ Fragment(f)
  BY DEF Reassemble, WholeMessage, NewStream, StrayFragment, Fragment
<1>3. /\ OnWay(f) /\ f \in AFrame /\ sent' = sent
      /\ \A g : OnWay(g)' => OnWay(g)
  BY <1>1, <1>2, ReadsWay
<1>4. Numbered'
  BY <1>1, <1>3 DEF Numbered
<1>5. PICK k : IsFrame(f, k, sent)
  BY <1>1, <1>3 DEF Numbered
<1>6. /\ f.part \in APart /\ f.part.size \in Int /\ f.part.of \in DOMAIN sent
      /\ f.total = sent[f.part.of].length /\ sent \in Seq(AMessage)
  BY <1>1, <1>3, <1>5, FrameFields DEF AFrame, APart, SourceInv, Types
<1> DEFINE one == <<f.part>>
<1>7. one \in Seq(APart) /\ one # <<>> /\ one[1] = f.part
  BY <1>6
<1> HIDE DEF one
<1>8. Sums(one, f.part.size)
  BY <1>6, SumsOne DEF one
<1>9. (f.newStream \/ ~f.fragmented) => Begun(one, f.total, sent)
  BY <1>5, <1>6, <1>7, FirstFrame DEF Begun
<1> SUFFICES BodiesBegun' /\ DeliveredBegun'
  BY <1>4
<1>10. CASE WholeMessage(f)
  <2>1. ~f.fragmented /\ Give(f, f.part.size, one) /\ in_progress' = in_progress
    BY <1>10 DEF WholeMessage, one
  <2>2. f.part.size = f.total
    BY <1>5, <1>6, <2>1, FirstFrame
  <2> QED BY <1>1, <1>3, <1>6, <1>7, <1>8, <1>9, <2>1, <2>2, GiveBegins
<1>11. CASE NewStream(f)
  <2> DEFINE b == [total |-> f.total, count |-> f.part.size, parts |-> one]
  <2>1. f.newStream /\ in_progress' = Put(KeyOf(f), b) /\ delivered' = delivered
    BY <1>11 DEF NewStream, one
  <2>2. b.total = f.total /\ b.count = f.part.size /\ b.parts = one
    OBVIOUS
  <2> HIDE DEF b
  <2> QED BY <1>1, <1>3, <1>8, <1>9, <2>1, <2>2, PutBegins
<1>12. CASE StrayFragment(f)
  BY <1>1, <1>3, <1>12 DEF StrayFragment, BodiesBegun, DeliveredBegun
<1>13. CASE Fragment(f)
  <2> DEFINE p == in_progress[KeyOf(f)]
             count == p.count + f.part.size
             parts == Append(p.parts, f.part)
             b == [total |-> p.total, count |-> count, parts |-> parts]
  <2>1. KeyOf(f) \in DOMAIN in_progress
    BY <1>13 DEF Fragment
  <2>2. /\ p \in ABody /\ p.parts \in Seq(APart) /\ p.count \in Int /\ p.total \in Int
        /\ Begun(p.parts, p.total, sent) /\ Sums(p.parts, p.count)
    BY <1>1, <2>1, Sizes DEF SourceInv, Types, ABody, BodiesBegun
  <2>3. \/ UNCHANGED <<in_progress, delivered>>
        \/ /\ ~(count > p.total) /\ count >= p.total
           /\ in_progress' = Pop(KeyOf(f)) /\ Give(f, p.total, parts)
        \/ in_progress' = Put(KeyOf(f), b) /\ delivered' = delivered
    BY <1>13 DEF Fragment, Overruns, Finished
  <2> HIDE DEF p
  <2>4. Sums(parts, count)
    BY <1>6, <2>2, SumsMore
  <2>5. parts \in Seq(APart) /\ parts # <<>> /\ parts[1] = p.parts[1]
    BY <1>6, <2>2 DEF Begun
  <2>6. Begun(parts, p.total, sent)
    BY <2>2, <2>5 DEF Begun
  <2>7. count \in Int
    BY <1>6, <2>2
  <2> HIDE DEF count, parts
  <2>8. b.parts = parts /\ b.total = p.total /\ b.count = count
    OBVIOUS
  <2> HIDE DEF b
  <2>9. CASE UNCHANGED <<in_progress, delivered>>
    BY <1>1, <1>3, <2>9 DEF BodiesBegun, DeliveredBegun
  <2>10. CASE in_progress' = Put(KeyOf(f), b) /\ delivered' = delivered
    BY <1>1, <1>3, <2>4, <2>6, <2>8, <2>10, PutBegins
  <2>11. CASE /\ ~(count > p.total) /\ count >= p.total
              /\ in_progress' = Pop(KeyOf(f)) /\ Give(f, p.total, parts)
    <3>1. count = p.total
      BY <2>2, <2>7, <2>11
    <3>2. \A key \in DOMAIN in_progress' :
            key \in DOMAIN in_progress /\ in_progress'[key] = in_progress[key]
      BY <2>11 DEF Pop
    <3> QED BY <1>1, <1>3, <2>2, <2>4, <2>5, <2>6, <2>11, <3>1, <3>2, GiveBegins
  <2> QED BY <2>3, <2>9, <2>10, <2>11
<1> QED BY <1>2, <1>10, <1>11, <1>12, <1>13

LEMMA BeginKept == Spec => []BeginInv
<1>1. Init => Numbered /\ BodiesBegun /\ DeliveredBegun
  BY DEF Init, Numbered, OnWay, BodiesBegun, DeliveredBegun
<1>2. BeginInv /\ [Next]_vars => Numbered' /\ BodiesBegun' /\ DeliveredBegun'
  <2> SUFFICES ASSUME BeginInv, [Next]_vars
               PROVE  Numbered' /\ BodiesBegun' /\ DeliveredBegun'
    OBVIOUS
  <2>0. SourceInv /\ Numbered /\ BodiesBegun /\ DeliveredBegun
    BY DEF BeginInv
  <2>1. CASE UNCHANGED vars
    BY <2>0, <2>1 DEF vars, Numbered, OnWay, BodiesBegun, DeliveredBegun
  <2>2. CASE \E n \in Node, id \in Id, length \in Length :
               \E k \in 0 .. packet_count(length) : Send(n, id, length, k)
    <3>1. PICK n \in Node, id \in Id, length \in Length :
            \E k \in 0 .. packet_count(length) : Send(n, id, length, k)
      BY <2>2
    <3>2. PICK k \in 0 .. packet_count(length) : Send(n, id, length, k)
      BY <3>1
    <3> QED BY <3>2, SendBegins
  <2>3. CASE \E n \in Node : Arbitrate(n)
    <3>1. PICK n \in Node : Arbitrate(n)
      BY <2>3
    <3>2. \A f : OnWay(f)' => OnWay(f)
      BY <2>0, <3>1, ArbitrateWay
    <3>3. UNCHANGED <<in_progress, sent, delivered>>
      BY <3>1 DEF Arbitrate
    <3> QED BY <2>0, <3>2, <3>3 DEF Numbered, BodiesBegun, DeliveredBegun
  <2>4. CASE OpenCloseSwitch
    <3>1. rxq' = <<>> /\ UNCHANGED <<txq, in_progress, sent, delivered>>
      BY <2>4 DEF OpenCloseSwitch
    <3> QED BY <2>0, <3>1 DEF Numbered, OnWay, BodiesBegun, DeliveredBegun
  <2>5. CASE Reassemble
    BY <2>5, ReassembleBegins
  <2> QED BY <2>1, <2>2, <2>3, <2>4, <2>5 DEF Next
<1> QED BY <1>1, <1>2, SourceKept, PTL DEF Spec, BeginInv

(***************************************************************************)
(* A delivered body begins with the first part of a message and is as long *)
(* as that message, for every mixture of messages and losses               *)
(* (CanPlugin.py:229-249, 263-267).  The invariant says the same of the    *)
(* bodies in progress, whose count is the bytes of their parts.            *)
(***************************************************************************)
THEOREM BeginningCorrect == Spec => []BodyOfOneBeginning
<1>1. BeginInv => BodyOfOneBeginning
  <2> SUFFICES ASSUME BeginInv, NEW d \in Range(delivered)
               PROVE  /\ d.parts[1].first = 0
                      /\ d.length = sent[d.parts[1].of].length
                      /\ d.length = TotalSize(d.parts)
    BY DEF BodyOfOneBeginning
  <2>1. d \in ADelivery /\ Begun(d.parts, d.length, sent) /\ Sums(d.parts, d.length)
    BY DEF BeginInv, DeliveredBegun, SourceInv, Types, Range
  <2>2. d.parts \in Seq(APart)
    BY <2>1 DEF ADelivery
  <2> QED BY <2>1, <2>2, SumsTotal DEF Begun
<1> QED BY <1>1, BeginKept, PTL
-----------------------------------------------------------------------------
(* The frames of a node are on their way in the order they were made.  *)
Before(f, g) == \/ f.part.of < g.part.of
                \/ f.part.of = g.part.of /\ f.part.first < g.part.first

InSocket == \A i, j \in DOMAIN rxq :
              i < j /\ rxq[i].source = rxq[j].source => Before(rxq[i], rxq[j])

InQueue == \A n \in Node : \A i, j \in DOMAIN txq[n] : i < j => Before(txq[n][i], txq[n][j])

SocketFirst == \A i \in DOMAIN rxq : \A n \in Node : \A j \in DOMAIN txq[n] :
                 rxq[i].source = n => Before(rxq[i], txq[n][j])

OwnQueue == \A n \in Node : \A j \in DOMAIN txq[n] : txq[n][j].source = n

WayInv == InSocket /\ InQueue /\ SocketFirst /\ OwnQueue

(* As many frames of a message are read as have a lower number than those   *)
(* on their way, at most, and none of a message whose node has earlier ones *)
(* on their way.                                                            *)
Ahead == \A f, k : OnWay(f) /\ IsFrame(f, k, sent) => seen[f.part.of] < k

NoneOvertakes == \A f : OnWay(f) => \A v \in DOMAIN sent :
                   f.part.of < v /\ sent[v].from = f.source => seen[v] = 0

(* When they are just as many, the body in progress is made of them.        *)
Progress(u, k, s) == [total |-> s[u].length, count |-> StartOf(k),
                      parts |-> [i \in 1 .. (k - 1) |-> Part(u, i, s)]]

Growing ==
    \A f, k : (OnWay(f) /\ IsFrame(f, k, sent) /\ k > 1 /\ seen[f.part.of] = k - 1) =>
      /\ KeyOf(f) \in DOMAIN in_progress
      /\ in_progress[KeyOf(f)] = Progress(f.part.of, k, sent)

SeenTypes == /\ seen \in Seq(Nat) /\ Len(seen) = Len(sent)

ReadInv == /\ BeginInv /\ WayInv /\ SeenTypes /\ Ahead /\ NoneOvertakes
           /\ up => Growing /\ ReadWholeIsDelivered

(* Frames are numbered in the order of their first bytes. *)
LEMMA FirstOrder ==
  ASSUME NEW j \in Nat, NEW k \in Nat, 0 < j, 0 < k
  PROVE  StartOf(j) < StartOf(k) <=> j < k
<1> DEFINE M == MAX_FRAG_PACKET_SIZE
<1>1. M \in Nat /\ M > 0
  BY FragSizes
<1>2. ASSUME NEW i \in Nat, NEW l \in Nat, 0 < i, i < l PROVE StartOf(i) < StartOf(l)
  <2>1. StartOf(i + 1) <= StartOf(l)
    BY <1>2, StartsOrdered
  <2>2. StartOf(i) < StartOf(i + 1) /\ StartOf(i) \in Nat
    BY <1>2, Starts, FragSizes
  <2>3. StartOf(i + 1) \in Nat /\ StartOf(l) \in Nat
    BY <1>2, Starts
  <2> QED BY <2>1, <2>2, <2>3
<1>3. StartOf(j) \in Nat /\ StartOf(k) \in Nat
  BY Starts
<1>4. CASE j < k
  BY <1>2, <1>4
<1>5. CASE k < j
  <2>1. StartOf(k) < StartOf(j)
    BY <1>2, <1>5
  <2> QED BY <1>3, <1>5, <2>1
<1>6. CASE j = k
  BY <1>3, <1>6
<1> QED BY <1>4, <1>5, <1>6

(* Of two frames of a message the one before has the lower number. *)
LEMMA NumberOrder ==
  ASSUME NEW s \in Seq(AMessage), NEW f, NEW k, NEW g, NEW l, IsFrame(f, k, s), IsFrame(g, l, s)
  PROVE  /\ k \in Nat /\ l \in Nat /\ 0 < k /\ 0 < l
         /\ f.part.of \in Nat /\ g.part.of \in Nat
         /\ k <= Count(f.part.of, s) /\ l <= Count(g.part.of, s)
         /\ Before(f, g) => \/ f.part.of < g.part.of
                            \/ f.part.of = g.part.of /\ k < l
         /\ f.part.of = g.part.of /\ k < l => Before(f, g)
<1>1. /\ f.part.of \in DOMAIN s /\ k \in 1 .. Count(f.part.of, s) /\ f.part.first = StartOf(k)
      /\ g.part.of \in DOMAIN s /\ l \in 1 .. Count(g.part.of, s) /\ g.part.first = StartOf(l)
  BY FrameFields
<1>2. Count(f.part.of, s) \in Nat /\ Count(g.part.of, s) \in Nat
  BY <1>1, Lengths
<1>3. /\ k \in Nat /\ l \in Nat /\ 0 < k /\ 0 < l
      /\ k <= Count(f.part.of, s) /\ l <= Count(g.part.of, s)
  BY <1>1, <1>2
<1>4. StartOf(k) < StartOf(l) <=> k < l
  BY <1>3, FirstOrder
<1>5. f.part.of \in Nat /\ g.part.of \in Nat
  BY <1>1
<1> QED BY <1>1, <1>3, <1>4, <1>5 DEF Before

(* A frame has one number. *)
LEMMA OneNumber ==
  ASSUME NEW s \in Seq(AMessage), NEW f, NEW k, NEW l, IsFrame(f, k, s), IsFrame(f, l, s)
  PROVE  k = l
<1>1. k \in Nat /\ l \in Nat /\ 0 < k /\ 0 < l /\ f.part.of \in Nat
  BY NumberOrder
<1>2. StartOf(k) = StartOf(l)
  BY FrameFields
<1>3. StartOf(k) \in Nat
  BY <1>1, Starts
<1>4. ~(k < l) /\ ~(l < k)
  BY <1>1, <1>2, <1>3, FirstOrder
<1> QED BY <1>1, <1>4

(* A new message's frames go behind all that are on their way. *)
LEMMA SendOrdered ==
  ASSUME BeginInv, WayInv, NEW n \in Node, NEW id \in Id, NEW length \in Length,
         NEW k \in Nat, Send(n, id, length, k)
  PROVE  WayInv'
<1> DEFINE u == Len(sent) + 1
           q == txq[n]
<1>1. SourceInv /\ Numbered /\ InSocket /\ InQueue /\ SocketFirst /\ OwnQueue /\ rxq' = rxq
  BY DEF BeginInv, WayInv, Send
<1>2. /\ u \in DOMAIN sent' /\ sent' \in Seq(AMessage) /\ u \in Nat
      /\ sent'[u].from = n /\ \A v \in DOMAIN sent : v < u
      /\ \A o \in Node : o # n => txq'[o] = txq[o]
      /\ q \in Seq(AFrame)
  <2>1. u \in DOMAIN sent' /\ sent' \in Seq(AMessage) /\ u \in Nat
    BY <1>1, SendMakes
  <2>2. sent'[u].from = n
    <3>1. sent' = Append(sent, [from |-> n, id |-> id, length |-> length])
      BY DEF Send
    <3>2. sent'[u] = [from |-> n, id |-> id, length |-> length]
      BY <1>1, <3>1 DEF SourceInv, Types
    <3> QED BY <3>2
  <2>3. \A v \in DOMAIN sent : v < u
    BY <1>1, SendMakes
  <2>4. \A o \in Node : o # n => txq'[o] = txq[o]
    BY <1>1, SendMakes
  <2>5. q \in Seq(AFrame)
    BY <1>1, SendMakes
  <2> QED BY <2>1, <2>2, <2>3, <2>4, <2>5
<1>3. PICK new \in Seq(AFrame) :
        /\ txq'[n] = q \o new
        /\ \A j \in DOMAIN new : j \in 1 .. Count(u, sent') /\ new[j] = Frame(u, j, sent')
  BY <1>1, SendMakes
<1> HIDE DEF u
<1>4. ASSUME NEW j \in DOMAIN new
      PROVE  new[j].part.of = u /\ IsFrame(new[j], j, sent') /\ new[j].source = n
  <2>1. new[j].part.of = u /\ IsFrame(new[j], j, sent')
    BY <1>2, <1>3, NewFrame
  <2> QED BY <1>2, <2>1, FrameFields
<1>5. ASSUME NEW f, OnWay(f), NEW j \in DOMAIN new PROVE Before(f, new[j])
  <2>1. f.part.of \in DOMAIN sent
    BY <1>1, <1>5 DEF Numbered, IsFrame
  <2> QED BY <1>2, <1>4, <2>1 DEF Before
<1>6. ASSUME NEW i \in DOMAIN new, NEW j \in DOMAIN new, i < j PROVE Before(new[i], new[j])
  BY <1>2, <1>4, <1>6, NumberOrder
<1> HIDE DEF q
<1>7. ASSUME NEW j \in DOMAIN txq'[n]
      PROVE  \/ /\ j \in DOMAIN q /\ txq'[n][j] = q[j] /\ OnWay(q[j])
             \/ /\ j \notin DOMAIN q /\ j - Len(q) \in DOMAIN new
                /\ txq'[n][j] = new[j - Len(q)]
  <2>1. \/ j \in DOMAIN q /\ txq'[n][j] = q[j]
        \/ /\ j \notin DOMAIN q /\ j - Len(q) \in DOMAIN new
           /\ txq'[n][j] = new[j - Len(q)]
    BY <1>2, <1>3, <1>7
  <2>2. j \in DOMAIN q => OnWay(q[j])
    BY DEF OnWay, q
  <2> QED BY <2>1, <2>2
<1>8. ASSUME NEW i \in DOMAIN txq'[n], NEW j \in DOMAIN txq'[n], i < j
      PROVE  Before(txq'[n][i], txq'[n][j])
  <2>1. i \in Nat /\ j \in Nat /\ DOMAIN q = 1 .. Len(q) /\ Len(q) \in Nat /\ 0 < i /\ 0 < j
    BY <1>2, <1>3
  <2>2. CASE i \in DOMAIN q /\ j \in DOMAIN q
    BY <1>1, <1>7, <1>8, <2>2 DEF InQueue, q
  <2>3. CASE i \in DOMAIN q /\ j \notin DOMAIN q
    BY <1>5, <1>7, <2>3
  <2>4. CASE i \notin DOMAIN q
    <3>1. j \notin DOMAIN q
      BY <1>8, <2>1, <2>4
    <3>2. i - Len(q) < j - Len(q)
      BY <1>8, <2>1
    <3> QED BY <1>6, <1>7, <2>4, <3>1, <3>2
  <2> QED BY <2>2, <2>3, <2>4
<1>9. InQueue'
  BY <1>1, <1>2, <1>8 DEF InQueue
<1>10. OwnQueue'
  <2>1. ASSUME NEW j \in DOMAIN txq'[n] PROVE txq'[n][j].source = n
    BY <1>1, <1>4, <1>7 DEF OwnQueue, q
  <2> QED BY <1>1, <1>2, <2>1 DEF OwnQueue
<1>11. ASSUME NEW i \in DOMAIN rxq, NEW j \in DOMAIN txq'[n], rxq[i].source = n
       PROVE  Before(rxq[i], txq'[n][j])
  <2>1. OnWay(rxq[i])
    BY DEF OnWay
  <2>2. CASE j \in DOMAIN q
    BY <1>1, <1>7, <1>11, <2>2 DEF SocketFirst, q
  <2>3. CASE j \notin DOMAIN q
    BY <1>5, <1>7, <2>1, <2>3
  <2> QED BY <2>2, <2>3
<1>12. SocketFirst'
  BY <1>1, <1>2, <1>11 DEF SocketFirst
<1>13. InSocket'
  BY <1>1 DEF InSocket
<1> QED BY <1>9, <1>10, <1>12, <1>13 DEF WayInv

(* The bus moves the first frame of a queue behind those of its node. *)
LEMMA ArbitrateOrdered ==
  ASSUME SourceInv, WayInv, NEW n \in Node, Arbitrate(n)
  PROVE  WayInv'
<1>1. InSocket /\ InQueue /\ SocketFirst /\ OwnQueue
  BY DEF WayInv
<1>2. /\ 1 \in DOMAIN txq[n]
      /\ \A o \in Node : o # n => txq'[o] = txq[o]
      /\ \A j \in DOMAIN txq'[n] : /\ j \in Nat /\ 0 < j /\ j + 1 \in DOMAIN txq[n]
                                   /\ txq'[n][j] = txq[n][j + 1]
      /\ \A i \in DOMAIN rxq' : \/ i \in DOMAIN rxq /\ rxq'[i] = rxq[i]
                                \/ i = Len(rxq) + 1 /\ rxq'[i] = txq[n][1]
      /\ rxq \in Seq(AFrame) /\ txq[n] \in Seq(AFrame)
  BY ArbitrateWay
<1>3. txq[n][1].source = n
  BY <1>1, <1>2 DEF OwnQueue
<1>4. InQueue'
  <2>1. ASSUME NEW i \in DOMAIN txq'[n], NEW j \in DOMAIN txq'[n], i < j
        PROVE  Before(txq'[n][i], txq'[n][j])
    <3>1. i + 1 < j + 1 /\ i + 1 \in DOMAIN txq[n] /\ j + 1 \in DOMAIN txq[n]
      BY <1>2, <2>1
    <3> QED BY <1>1, <1>2, <3>1 DEF InQueue
  <2> QED BY <1>1, <1>2, <2>1 DEF InQueue
<1>5. OwnQueue'
  BY <1>1, <1>2 DEF OwnQueue
<1>6. InSocket'
  <2> SUFFICES ASSUME NEW i \in DOMAIN rxq', NEW j \in DOMAIN rxq', i < j,
                      rxq'[i].source = rxq'[j].source
               PROVE  Before(rxq'[i], rxq'[j])
    BY DEF InSocket
  <2>1. DOMAIN rxq = 1 .. Len(rxq) /\ Len(rxq) \in Nat
    BY <1>2
  <2>2. CASE j \in DOMAIN rxq /\ rxq'[j] = rxq[j]
    <3>1. i \in DOMAIN rxq /\ rxq'[i] = rxq[i]
      BY <1>2, <2>1, <2>2
    <3> QED BY <1>1, <2>2, <3>1 DEF InSocket
  <2>3. CASE j = Len(rxq) + 1 /\ rxq'[j] = txq[n][1]
    <3>1. i \in DOMAIN rxq /\ rxq'[i] = rxq[i]
      BY <1>2, <2>1, <2>3
    <3> QED BY <1>1, <1>2, <1>3, <2>3, <3>1 DEF SocketFirst
  <2> QED BY <1>2, <2>2, <2>3
<1>7. SocketFirst'
  <2> SUFFICES ASSUME NEW i \in DOMAIN rxq', NEW o \in Node, NEW j \in DOMAIN txq'[o],
                      rxq'[i].source = o
               PROVE  Before(rxq'[i], txq'[o][j])
    BY DEF SocketFirst
  <2>1. CASE i \in DOMAIN rxq /\ rxq'[i] = rxq[i]
    <3>1. CASE o = n
      BY <1>1, <1>2, <2>1, <3>1 DEF SocketFirst
    <3>2. CASE o # n
      BY <1>1, <1>2, <2>1, <3>2 DEF SocketFirst
    <3> QED BY <3>1, <3>2
  <2>2. CASE rxq'[i] = txq[n][1]
    <3>1. o = n
      BY <1>3, <2>2
    <3>2. 1 < j + 1 /\ j + 1 \in DOMAIN txq[n] /\ txq'[n][j] = txq[n][j + 1]
      <4>1. j \in DOMAIN txq'[n]
        BY <3>1
      <4>2. j \in Nat /\ 0 < j /\ j + 1 \in DOMAIN txq[n] /\ txq'[n][j] = txq[n][j + 1]
        BY <1>2, <4>1
      <4> QED BY <4>2
    <3> QED BY <1>1, <1>2, <2>2, <3>1, <3>2 DEF InQueue
  <2> QED BY <1>2, <2>1, <2>2
<1> QED BY <1>4, <1>5, <1>6, <1>7 DEF WayInv

LEMMA ReadsOrdered ==
  ASSUME SourceInv, WayInv, NEW f, Reads(f)
  PROVE  /\ WayInv'
         /\ \A g : OnWay(g)' /\ g.source = f.source => Before(f, g)
<1>1. InSocket /\ InQueue /\ SocketFirst /\ OwnQueue
  BY DEF WayInv
<1>2. /\ rxq \in Seq(AFrame) /\ 1 \in DOMAIN rxq /\ f = rxq[1]
      /\ \A i \in DOMAIN rxq' : /\ i \in Nat /\ 0 < i /\ i + 1 \in DOMAIN rxq
                                /\ rxq'[i] = rxq[i + 1]
      /\ txq' = txq
  BY ReadsWay
<1>3. InSocket'
  <2> SUFFICES ASSUME NEW i \in DOMAIN rxq', NEW j \in DOMAIN rxq', i < j,
                      rxq'[i].source = rxq'[j].source
               PROVE  Before(rxq'[i], rxq'[j])
    BY DEF InSocket
  <2>1. i + 1 < j + 1 /\ i + 1 \in DOMAIN rxq /\ j + 1 \in DOMAIN rxq
    BY <1>2
  <2> QED BY <1>1, <1>2, <2>1 DEF InSocket
<1>4. SocketFirst' /\ InQueue' /\ OwnQueue'
  BY <1>1, <1>2 DEF SocketFirst, InQueue, OwnQueue
<1>5. ASSUME NEW g, OnWay(g)', g.source = f.source PROVE Before(f, g)
  <2>1. CASE \E i \in DOMAIN rxq' : g = rxq'[i]
    <3>1. PICK i \in DOMAIN rxq' : g = rxq'[i]
      BY <2>1
    <3>2. 1 < i + 1 /\ i + 1 \in DOMAIN rxq /\ g = rxq[i + 1]
      BY <1>2, <3>1
    <3> QED BY <1>1, <1>2, <1>5, <3>2 DEF InSocket
  <2>2. CASE \E n \in Node : \E j \in DOMAIN txq'[n] : g = txq'[n][j]
    <3>1. PICK n \in Node : \E j \in DOMAIN txq[n] : g = txq[n][j]
      BY <1>2, <2>2
    <3>2. PICK j \in DOMAIN txq[n] : g = txq[n][j]
      BY <3>1
    <3>3. f.source = n
      BY <1>1, <1>5, <3>2 DEF OwnQueue
    <3> QED BY <1>1, <1>2, <3>2, <3>3 DEF SocketFirst
  <2> QED BY <1>5, <2>1, <2>2 DEF OnWay
<1> QED BY <1>3, <1>4, <1>5 DEF WayInv
-----------------------------------------------------------------------------
(* What is said of frames on their way holds when some of them are lost. *)
LEMMA LossKeeps ==
  ASSUME ReadInv, \A f : OnWay(f)' => OnWay(f),
         UNCHANGED <<sent, seen, in_progress, delivered, up>>
  PROVE  SeenTypes' /\ Ahead' /\ NoneOvertakes' /\ (up' => Growing' /\ ReadWholeIsDelivered')
<1>1. SeenTypes' /\ Ahead' /\ NoneOvertakes'
  BY DEF ReadInv, SeenTypes, Ahead, NoneOvertakes
<1>2. up' => Growing'
  BY DEF ReadInv, Growing, KeyOf
<1>3. ReadWholeIsDelivered => ReadWholeIsDelivered'
  BY DEF ReadWholeIsDelivered, PartsOf
<1> QED BY <1>1, <1>2, <1>3 DEF ReadInv

(* The parts of a message are the parts of its frames. *)
LEMMA PartsOfMessage == \A u : PartsOf(u) = [k \in 1 .. Count(u, sent) |-> Part(u, k, sent)]
BY DEF PartsOf, Count, Part

LEMMA ReadsSeen ==
  ASSUME ReadInv, NEW f, Reads(f), NEW k, IsFrame(f, k, sent)
  PROVE  LET u == f.part.of
         IN  /\ u \in DOMAIN seen /\ seen[u] \in Nat /\ seen'[u] = seen[u] + 1
             /\ \A v \in DOMAIN sent : v # u => seen'[v] = seen[v]
             /\ seen[u] < k /\ SeenTypes' /\ DOMAIN seen = DOMAIN sent
<1> DEFINE u == f.part.of
<1>1. /\ seen \in Seq(Nat) /\ Len(seen) = Len(sent) /\ sent \in Seq(AMessage)
  BY DEF ReadInv, SeenTypes, BeginInv, SourceInv, Types
<1>2. u \in DOMAIN sent
  BY FrameFields
<1>3. seen' = [seen EXCEPT ![u] = @ + 1] /\ sent' = sent
  BY DEF Reads
<1>4. OnWay(f)
  BY ReadsWay DEF ReadInv, BeginInv
<1>5. seen[u] < k
  BY <1>4 DEF ReadInv, Ahead
<1> HIDE DEF u
<1>6. u \in DOMAIN seen /\ seen[u] \in Nat /\ DOMAIN seen = DOMAIN sent
  BY <1>1, <1>2
<1>7. seen'[u] = seen[u] + 1 /\ \A v \in DOMAIN sent : v # u => seen'[v] = seen[v]
  BY <1>3, <1>6
<1>8. seen' \in Seq(Nat) /\ Len(seen') = Len(sent)
  BY <1>1, <1>3, <1>6
<1> QED BY <1>3, <1>5, <1>6, <1>7, <1>8 DEF SeenTypes, u

(* Reading a frame leaves the later ones ahead of what is read. *)
LEMMA ReadsAhead ==
  ASSUME ReadInv, NEW f, Reads(f), NEW k, IsFrame(f, k, sent)
  PROVE  Ahead' /\ NoneOvertakes'
<1> DEFINE u == f.part.of
<1>1. BeginInv /\ SourceInv /\ WayInv /\ Ahead /\ NoneOvertakes /\ sent \in Seq(AMessage)
  BY DEF ReadInv, BeginInv, SourceInv, Types
<1>2. /\ sent' = sent /\ \A g : OnWay(g)' => OnWay(g)
  BY <1>1, ReadsWay
<1>3. \A g : OnWay(g)' /\ g.source = f.source => Before(f, g)
  BY <1>1, ReadsOrdered
<1>4. /\ u \in DOMAIN seen /\ seen[u] \in Nat /\ seen'[u] = seen[u] + 1
      /\ \A v \in DOMAIN sent : v # u => seen'[v] = seen[v]
      /\ seen[u] < k
  BY ReadsSeen
<1>5. u \in DOMAIN sent /\ f.source = sent[u].from
  BY FrameFields
<1>6. ASSUME NEW g, NEW l, OnWay(g)', IsFrame(g, l, sent) PROVE seen'[g.part.of] < l
  <2>1. OnWay(g) /\ g.part.of \in DOMAIN sent /\ g.source = sent[g.part.of].from
    BY <1>2, <1>6, FrameFields
  <2>2. seen[g.part.of] < l
    BY <1>1, <1>6, <2>1 DEF Ahead
  <2>3. CASE g.part.of # u
    BY <1>4, <2>1, <2>2, <2>3
  <2>4. CASE g.part.of = u
    <3>1. Before(f, g)
      BY <1>3, <1>5, <1>6, <2>1, <2>4
    <3>2. k \in Nat /\ l \in Nat /\ u \in Nat /\ (u < u \/ k < l)
      BY <1>1, <1>6, <2>4, <3>1, NumberOrder
    <3> HIDE DEF u
    <3> QED BY <1>4, <2>4, <3>2
  <2> QED BY <2>3, <2>4
<1>7. Ahead'
  BY <1>2, <1>6 DEF Ahead
<1>8. ASSUME NEW g, OnWay(g)', NEW v \in DOMAIN sent, g.part.of < v, sent[v].from = g.source
      PROVE  seen'[v] = 0
  <2>1. OnWay(g) /\ seen[v] = 0
    BY <1>1, <1>2, <1>8 DEF NoneOvertakes
  <2>2. v # u
    <3> SUFFICES ASSUME v = u PROVE FALSE
      OBVIOUS
    <3>1. Before(f, g)
      BY <1>3, <1>5, <1>8
    <3>2. PICK l : IsFrame(g, l, sent)
      BY <1>1, <2>1 DEF BeginInv, Numbered
    <3>3. g.part.of \in Nat /\ u \in Nat
      BY <1>1, <3>2, NumberOrder
    <3>4. u < g.part.of \/ u = g.part.of
      BY <3>1 DEF Before
    <3> QED BY <1>8, <3>3, <3>4
  <2> QED BY <1>4, <2>1, <2>2
<1>9. NoneOvertakes'
  BY <1>2, <1>8 DEF NoneOvertakes
<1> QED BY <1>7, <1>9

(* A body that grows without a loss is the one the frame read belongs to,   *)
(* or has another key.                                                      *)
LEMMA WhichGrows ==
  ASSUME ReadInv, Growing, NEW f, Reads(f), NEW k, IsFrame(f, k, sent),
         NEW g, NEW l, OnWay(g)', IsFrame(g, l, sent), l > 1, seen'[g.part.of] = l - 1
  PROVE  \/ /\ g.part.of = f.part.of /\ l = k + 1 /\ seen[f.part.of] = k - 1
            /\ KeyOf(g) = KeyOf(f) /\ k < Count(f.part.of, sent)
         \/ /\ KeyOf(g) # KeyOf(f) /\ KeyOf(g) \in DOMAIN in_progress
            /\ in_progress[KeyOf(g)] = Progress(g.part.of, l, sent)
<1> DEFINE u == f.part.of
           v == g.part.of
<1>1. BeginInv /\ SourceInv /\ WayInv /\ Ahead /\ NoneOvertakes /\ sent \in Seq(AMessage)
  BY DEF ReadInv, BeginInv, SourceInv, Types
<1>2. OnWay(g) /\ OnWay(f)
  BY <1>1, ReadsWay
<1>3. g.source = f.source => Before(f, g)
  BY <1>1, ReadsOrdered
<1>4. /\ u \in DOMAIN seen /\ seen[u] \in Nat /\ seen'[u] = seen[u] + 1
      /\ \A w \in DOMAIN sent : w # u => seen'[w] = seen[w]
      /\ seen[u] < k
  BY ReadsSeen
<1>5. /\ u \in DOMAIN sent /\ f.source = sent[u].from /\ f.id = sent[u].id
      /\ v \in DOMAIN sent /\ g.source = sent[v].from /\ g.id = sent[v].id
  BY FrameFields
<1>6. /\ k \in Nat /\ l \in Nat /\ 0 < k /\ u \in Nat /\ v \in Nat /\ l <= Count(v, sent)
      /\ Before(f, g) => u < v \/ (u = v /\ k < l)
  BY <1>1, NumberOrder
<1>7. Count(v, sent) \in Nat
  BY <1>1, <1>5, Lengths
<1>8. CASE v = u
  <2>1. Before(f, g)
    BY <1>3, <1>5, <1>8
  <2>2. k < l
    BY <1>6, <1>8, <2>1
  <2>3. seen[u] + 1 = l - 1
    BY <1>4, <1>8
  <2>4. l = k + 1 /\ seen[u] = k - 1
    <3> HIDE DEF u, v
    <3> QED BY <1>4, <1>6, <2>2, <2>3
  <2>5. k < Count(u, sent)
    <3> HIDE DEF u, v
    <3> QED BY <1>6, <1>7, <1>8, <2>4
  <2>6. KeyOf(g) = KeyOf(f)
    BY <1>5, <1>8 DEF KeyOf
  <2> QED BY <1>8, <2>4, <2>5, <2>6
<1>9. CASE v # u
  <2>1. seen[v] = l - 1
    BY <1>4, <1>5, <1>9
  <2>2. KeyOf(g) \in DOMAIN in_progress /\ in_progress[KeyOf(g)] = Progress(v, l, sent)
    BY <1>2, <2>1 DEF Growing
  <2>3. ASSUME KeyOf(g) = KeyOf(f) PROVE FALSE
    <3>1. g.source = f.source
      BY <2>3 DEF KeyOf
    <3>2. u < v
      BY <1>3, <1>6, <1>9, <3>1
    <3>3. seen[v] = 0
      BY <1>1, <1>2, <1>5, <3>1, <3>2 DEF NoneOvertakes
    <3> QED BY <1>6, <2>1, <3>3
  <2> QED BY <2>2, <2>3
<1> QED BY <1>8, <1>9
-----------------------------------------------------------------------------
LEMMA SendKeepsRead ==
  ASSUME ReadInv, NEW n \in Node, NEW id \in Id, NEW length \in Length,
         NEW k \in Nat, Send(n, id, length, k)
  PROVE  SeenTypes' /\ Ahead' /\ NoneOvertakes' /\ (up' => Growing' /\ ReadWholeIsDelivered')
<1> DEFINE u == Len(sent) + 1
<1>1. /\ SourceInv /\ Numbered /\ SeenTypes /\ Ahead /\ NoneOvertakes
      /\ up => Growing /\ ReadWholeIsDelivered
  BY DEF ReadInv, BeginInv
<1>2. /\ seen' = Append(seen, 0) /\ UNCHANGED <<in_progress, delivered, up>>
  BY DEF Send
<1>3. /\ seen \in Seq(Nat) /\ Len(seen) = Len(sent) /\ sent \in Seq(AMessage)
  BY <1>1 DEF SeenTypes, SourceInv, Types
<1>4. /\ sent' \in Seq(AMessage) /\ u \in Nat /\ DOMAIN sent' = DOMAIN sent \cup {u}
      /\ Len(sent') = u
      /\ \A v \in DOMAIN sent : sent'[v] = sent[v] /\ v < u /\ v # u /\ v \in Nat
  <2>1. sent' = Append(sent, [from |-> n, id |-> id, length |-> length])
    BY DEF Send
  <2>2. [from |-> n, id |-> id, length |-> length] \in AMessage
    BY DEF AMessage
  <2> QED BY <1>3, <2>1, <2>2
<1>5. /\ seen' \in Seq(Nat) /\ Len(seen') = u /\ seen'[u] = 0
      /\ \A v \in DOMAIN sent : seen'[v] = seen[v]
  BY <1>2, <1>3
<1>6. ASSUME NEW f, OnWay(f)'
      PROVE  \/ OnWay(f) /\ f.part.of \in DOMAIN sent
             \/ f.part.of = u
  <2>1. CASE OnWay(f)
    BY <1>1, <2>1 DEF Numbered, IsFrame
  <2>2. CASE \E j \in 1 .. Count(u, sent') : f = Frame(u, j, sent')
    BY <1>4, <2>2, NewFrame
  <2> QED BY <1>1, <1>6, <2>1, <2>2, SendWay
<1> HIDE DEF u
<1>7. /\ \A f, i : f.part.of \in DOMAIN sent /\ IsFrame(f, i, sent') => IsFrame(f, i, sent)
  BY <1>4, NumberStays
<1>8. SeenTypes'
  BY <1>4, <1>5 DEF SeenTypes
<1>9. ASSUME NEW f, NEW i, OnWay(f)', IsFrame(f, i, sent')
      PROVE  seen'[f.part.of] < i
  <2>1. CASE OnWay(f) /\ f.part.of \in DOMAIN sent
    BY <1>1, <1>5, <1>7, <1>9, <2>1 DEF Ahead
  <2>2. CASE f.part.of = u
    <3>1. i \in Nat /\ 0 < i
      BY <1>4, <1>9, NumberOrder
    <3> QED BY <1>5, <2>2, <3>1
  <2> QED BY <1>6, <1>9, <2>1, <2>2
<1>10. Ahead'
  BY <1>9 DEF Ahead
<1>11. ASSUME NEW f, OnWay(f)', NEW v \in DOMAIN sent', f.part.of < v, sent'[v].from = f.source
       PROVE  seen'[v] = 0
  <2>1. CASE v = u
    BY <1>5, <2>1
  <2>2. CASE v # u
    <3>1. v \in DOMAIN sent /\ v < u /\ v \in Nat
      BY <1>4, <1>11, <2>2
    <3>2. f.part.of # u
      BY <1>4, <1>11, <3>1
    <3>3. OnWay(f)
      BY <1>6, <1>11, <3>2
    <3> QED BY <1>1, <1>4, <1>5, <1>11, <3>1, <3>3 DEF NoneOvertakes
  <2> QED BY <2>1, <2>2
<1>12. NoneOvertakes'
  BY <1>11 DEF NoneOvertakes
<1>13. ASSUME up' PROVE Growing'
  <2> SUFFICES ASSUME NEW f, NEW i, OnWay(f)', IsFrame(f, i, sent'), i > 1,
                      seen'[f.part.of] = i - 1
               PROVE  /\ KeyOf(f) \in DOMAIN in_progress
                      /\ in_progress[KeyOf(f)] = Progress(f.part.of, i, sent')
    BY <1>2 DEF Growing, KeyOf
  <2>1. f.part.of # u
    <3>1. i \in Nat
      BY <1>4, NumberOrder
    <3> QED BY <1>5, <3>1
  <2>2. OnWay(f) /\ f.part.of \in DOMAIN sent /\ IsFrame(f, i, sent) /\ seen[f.part.of] = i - 1
    BY <1>5, <1>6, <1>7, <2>1
  <2>3. /\ KeyOf(f) \in DOMAIN in_progress
        /\ in_progress[KeyOf(f)] = Progress(f.part.of, i, sent)
    BY <1>1, <1>2, <1>13, <2>2 DEF Growing
  <2>4. Progress(f.part.of, i, sent) = Progress(f.part.of, i, sent')
    BY <1>4, <2>2 DEF Progress, Part
  <2> QED BY <2>3, <2>4
<1>14. ASSUME up' PROVE ReadWholeIsDelivered'
  <2> SUFFICES ASSUME NEW v \in DOMAIN sent', seen'[v] = packet_count(sent'[v].length)
               PROVE  \E d \in Range(delivered) :
                        /\ d.from = sent'[v].from /\ d.id = sent'[v].id
                        /\ d.length = sent'[v].length
                        /\ d.parts = PartsOf(v)'
    BY <1>2 DEF ReadWholeIsDelivered
  <2>1. v # u
    <3>1. packet_count(sent'[v].length) \in Nat \ {0}
      BY <1>4, Lengths DEF Count
    <3> QED BY <1>5, <3>1
  <2>2. v \in DOMAIN sent /\ sent'[v] = sent[v] /\ seen'[v] = seen[v]
    BY <1>4, <1>5, <2>1
  <2>3. PartsOf(v)' = PartsOf(v)
    BY <2>2 DEF PartsOf
  <2>4. ReadWholeIsDelivered /\ up
    BY <1>1, <1>2, <1>14
  <2> QED BY <2>2, <2>3, <2>4 DEF ReadWholeIsDelivered
<1> QED BY <1>8, <1>10, <1>12, <1>13, <1>14

(* The parts of a body, one more at a time. *)
LEMMA PartsGrow ==
  ASSUME NEW s \in Seq(AMessage), NEW u \in DOMAIN s, NEW k \in Nat, 0 < k
  PROVE  /\ [i \in 1 .. (k - 1) |-> Part(u, i, s)] \in Seq(APart)
         /\ Append([i \in 1 .. (k - 1) |-> Part(u, i, s)], Part(u, k, s))
              = [i \in 1 .. k |-> Part(u, i, s)]
<1>1. ASSUME NEW i \in 1 .. k PROVE Part(u, i, s) \in APart
  <2>1. i \in Nat /\ i > 0 /\ u \in Nat
    OBVIOUS
  <2>2. StartOf(i) \in Nat
    BY <2>1, Starts
  <2>3. s[u].length \in Nat
    BY Lengths
  <2>4. max_packet_size(s[u].length, StartOf(i)) \in Int
    <3>1. max_packet_size(s[u].length, StartOf(i)) \in Nat
      BY <2>2, <2>3, RoomForBody, Zenon
    <3> QED BY <3>1
  <2>5. Least(s[u].length - StartOf(i), max_packet_size(s[u].length, StartOf(i))) \in Int
    BY <2>2, <2>3, <2>4 DEF Least
  <2> QED BY <2>1, <2>2, <2>5 DEF Part, APart
<1> DEFINE P(i) == Part(u, i, s)
           parts == [i \in 1 .. (k - 1) |-> P(i)]
<1>2. \A i \in 1 .. k : P(i) \in APart
  BY <1>1
<1> HIDE DEF P
<1>3. k - 1 \in Nat /\ \A i \in 1 .. (k - 1) : i \in 1 .. k
  OBVIOUS
<1>4. parts \in Seq(APart) /\ Len(parts) = k - 1
  BY <1>2, <1>3
<1>5. P(k) \in APart
  BY <1>2
<1>6. \A i \in 1 .. (k - 1) : parts[i] = P(i)
  OBVIOUS
<1> HIDE DEF parts
<1> DEFINE more == Append(parts, P(k))
<1>7. /\ more \in Seq(APart) /\ DOMAIN more = 1 .. k /\ more[k] = P(k)
      /\ \A i \in 1 .. (k - 1) : more[i] = parts[i]
  BY <1>4, <1>5
<1>8. \A i \in 1 .. k : more[i] = P(i)
  <2>1. \A i \in 1 .. k : i = k \/ i \in 1 .. (k - 1)
    OBVIOUS
  <2> HIDE DEF more
  <2> QED BY <1>6, <1>7, <2>1
<1>9. more = [i \in 1 .. k |-> P(i)]
  <2>1. more \in Seq(APart) /\ Len(more) = k
    BY <1>4, <1>5
  <2> HIDE DEF more
  <2>2. more \in [1 .. Len(more) -> APart]
    BY <2>1
  <2>3. more = [i \in 1 .. k |-> more[i]]
    BY <2>1, <2>2
  <2> QED BY <1>8, <2>3
<1> QED BY <1>4, <1>9 DEF P, parts, more

(* Where the next frame starts, and where the last one ends. *)
LEMMA FrameEnds ==
  ASSUME NEW s \in Seq(AMessage), NEW f, NEW k, IsFrame(f, k, s)
  PROVE  LET u == f.part.of
         IN  /\ StartOf(k) + f.part.size
                  = IF k < Count(u, s) THEN StartOf(k + 1) ELSE s[u].length
             /\ k < Count(u, s) => StartOf(k + 1) < s[u].length
             /\ StartOf(k) \in Nat /\ StartOf(k + 1) \in Nat
<1> DEFINE u == f.part.of
           n == s[u].length
           N == Count(u, s)
<1>1. /\ u \in DOMAIN s /\ k \in 1 .. N
      /\ f.part.size = Least(n - StartOf(k), max_packet_size(n, StartOf(k)))
  BY FrameFields
<1>2. n \in Nat /\ n > 0 /\ N \in Nat \ {0} /\ N = packet_count(n)
  BY <1>1, Lengths DEF Count
<1> HIDE DEF u, n, N
<1>3. k \in Nat /\ 0 < k /\ k <= N
  BY <1>1, <1>2
<1>4. ASSUME NEW j \in 1 .. N PROVE StartOf(j) < n
  <2>1. CASE N = 1
    <3>1. StartOf(j) = 0
      BY <1>4, <2>1 DEF StartOf
    <3> QED BY <1>2, <3>1
  <2>2. CASE N > 1
    <3>1. StartOf(N) < n
      BY <1>2, <2>2, CountReaches
    <3>2. j \in Nat /\ 0 < j /\ j <= N
      BY <1>2
    <3>3. StartOf(j) <= StartOf(N) /\ StartOf(j) \in Nat /\ StartOf(N) \in Nat
      BY <1>2, <3>2, StartsOrdered, Starts
    <3> QED BY <1>2, <3>1, <3>3
  <2> QED BY <1>2, <2>1, <2>2
<1>5. StartOf(k) < n
  BY <1>1, <1>4
<1>6. StartOf(k) + Packet(n, StartOf(k), 0, 0).size = IF k < N THEN StartOf(k + 1) ELSE n
  BY <1>1, <1>2, <1>5, NextStart
<1>7. Packet(n, StartOf(k), 0, 0).size = f.part.size
  BY <1>1, PacketFields
<1>8. k < N => StartOf(k + 1) < n
  <2>1. k < N => k + 1 \in 1 .. N
    BY <1>2, <1>3
  <2> QED BY <1>4, <2>1
<1>9. StartOf(k) \in Nat /\ StartOf(k + 1) \in Nat
  BY <1>3, Starts
<1> QED BY <1>6, <1>7, <1>8, <1>9 DEF u, n, N
-----------------------------------------------------------------------------
(* Reading a frame keeps the bodies in progress as they should be, if it    *)
(* touches no other body and adds the frame to its own.                     *)
LEMMA ReadsGrowing ==
  ASSUME ReadInv, Growing, NEW f, Reads(f), NEW k, IsFrame(f, k, sent),
         \A key \in DOMAIN in_progress : key # KeyOf(f) =>
           key \in DOMAIN in_progress' /\ in_progress'[key] = in_progress[key],
         k < Count(f.part.of, sent) /\ seen[f.part.of] = k - 1 =>
           /\ KeyOf(f) \in DOMAIN in_progress'
           /\ in_progress'[KeyOf(f)] = Progress(f.part.of, k + 1, sent)
  PROVE  Growing'
<1>1. sent' = sent
  BY DEF Reads
<1> SUFFICES ASSUME NEW g, NEW l, OnWay(g)', IsFrame(g, l, sent), l > 1,
                    seen'[g.part.of] = l - 1
             PROVE  /\ KeyOf(g) \in DOMAIN in_progress'
                    /\ in_progress'[KeyOf(g)] = Progress(g.part.of, l, sent)
  BY <1>1 DEF Growing, KeyOf
<1>2. CASE /\ g.part.of = f.part.of /\ l = k + 1 /\ seen[f.part.of] = k - 1
           /\ KeyOf(g) = KeyOf(f) /\ k < Count(f.part.of, sent)
  BY <1>2
<1>3. CASE /\ KeyOf(g) # KeyOf(f) /\ KeyOf(g) \in DOMAIN in_progress
           /\ in_progress[KeyOf(g)] = Progress(g.part.of, l, sent)
  BY <1>3
<1> QED BY <1>2, <1>3, WhichGrows

Delivers(d, u) == /\ d.from = sent[u].from /\ d.id = sent[u].id
                  /\ d.length = sent[u].length /\ d.parts = PartsOf(u)

(* Reading a frame leaves no message read whole and not delivered, if it    *)
(* takes back no delivery and delivers the message it is the last of.       *)
LEMMA ReadsDeliver ==
  ASSUME ReadInv, ReadWholeIsDelivered, up, NEW f, Reads(f), NEW k, IsFrame(f, k, sent),
         \A d \in Range(delivered) : d \in Range(delivered'),
         k = Count(f.part.of, sent) /\ seen[f.part.of] = k - 1 =>
           \E d \in Range(delivered') : Delivers(d, f.part.of)
  PROVE  ReadWholeIsDelivered'
<1> DEFINE u == f.part.of
<1>1. sent' = sent /\ \A v : PartsOf(v)' = PartsOf(v)
  BY DEF Reads, PartsOf
<1> SUFFICES ASSUME NEW v \in DOMAIN sent, seen'[v] = Count(v, sent)
             PROVE  \E d \in Range(delivered') : Delivers(d, v)
  BY <1>1 DEF ReadWholeIsDelivered, Delivers, Count
<1>2. /\ u \in DOMAIN seen /\ seen[u] \in Nat /\ seen'[u] = seen[u] + 1
      /\ \A w \in DOMAIN sent : w # u => seen'[w] = seen[w]
      /\ seen[u] < k
  BY ReadsSeen
<1>3. CASE v # u
  <2>1. seen[v] = packet_count(sent[v].length)
    BY <1>2, <1>3 DEF Count
  <2>2. PICK d \in Range(delivered) : Delivers(d, v)
    BY <2>1 DEF ReadWholeIsDelivered, Delivers
  <2> QED BY <2>2
<1>4. CASE v = u
  <2>1. k \in Nat /\ k <= Count(u, sent) /\ Count(u, sent) \in Nat
    <3>1. sent \in Seq(AMessage)
      BY DEF ReadInv, BeginInv, SourceInv, Types
    <3>2. u \in DOMAIN sent
      BY FrameFields
    <3> QED BY <3>1, <3>2, NumberOrder, Lengths
  <2>2. seen[u] + 1 = Count(u, sent)
    BY <1>2, <1>4
  <2>3. k = Count(u, sent) /\ seen[u] = k - 1
    <3> HIDE DEF u
    <3> QED BY <1>2, <2>1, <2>2
  <2> QED BY <1>4, <2>3
<1> QED BY <1>3, <1>4

(* A delivery is added to those before it. *)
LEMMA GiveAdds ==
  ASSUME SourceInv, NEW f, NEW length, NEW parts, Give(f, length, parts)
  PROVE  /\ \A d \in Range(delivered) : d \in Range(delivered')
         /\ \E d \in Range(delivered') : /\ d.id = f.id /\ d.from = f.source
                                         /\ d.length = length /\ d.parts = parts
<1> DEFINE d == [id |-> f.id, from |-> f.source, length |-> length, parts |-> parts]
<1>1. delivered' = Append(delivered, d) /\ delivered \in Seq(ADelivery)
  BY DEF Give, SourceInv, Types
<1>2. d.id = f.id /\ d.from = f.source /\ d.length = length /\ d.parts = parts
  OBVIOUS
<1> HIDE DEF d
<1>3. /\ DOMAIN delivered' = 1 .. (Len(delivered) + 1) /\ Len(delivered) \in Nat
      /\ DOMAIN delivered = 1 .. Len(delivered)
      /\ delivered'[Len(delivered) + 1] = d
      /\ \A j \in DOMAIN delivered : delivered'[j] = delivered[j]
  BY <1>1
<1>4. d \in Range(delivered')
  BY <1>3 DEF Range
<1>5. \A e \in Range(delivered) : e \in Range(delivered')
  BY <1>3 DEF Range
<1> QED BY <1>2, <1>4, <1>5

(* The first part alone. *)
LEMMA OnePart == \A u, s : <<Part(u, 1, s)>> = [i \in 1 .. 1 |-> Part(u, i, s)]
<1> SUFFICES ASSUME NEW u, NEW s
             PROVE  <<Part(u, 1, s)>> = [i \in 1 .. 1 |-> Part(u, i, s)]
  OBVIOUS
<1> DEFINE P(i) == Part(u, i, s)
<1> HIDE DEF P
<1>1. <<P(1)>> = [i \in 1 .. 1 |-> P(i)]
  OBVIOUS
<1> QED BY <1>1 DEF P

(* Every frame read, of whichever kind, does so. *)
LEMMA ReassembleReads ==
  ASSUME ReadInv, Reassemble
  PROVE  /\ WayInv' /\ SeenTypes' /\ Ahead' /\ NoneOvertakes'
         /\ up' => Growing' /\ ReadWholeIsDelivered'
<1>1. BeginInv /\ SourceInv /\ WayInv /\ sent \in Seq(AMessage)
  BY DEF ReadInv, BeginInv, SourceInv, Types
<1>2. PICK f : /\ Reads(f)
               /\ WholeMessage(f) \/ NewStream(f) \/ StrayFragment(f) \/ Fragment(f)
  BY DEF Reassemble, WholeMessage, NewStream, StrayFragment, Fragment
<1>3. OnWay(f) /\ sent' = sent
  BY <1>1, <1>2, ReadsWay
<1>4. PICK k : IsFrame(f, k, sent)
  BY <1>1, <1>3 DEF BeginInv, Numbered
<1>5. WayInv'
  BY <1>1, <1>2, ReadsOrdered
<1>6. SeenTypes'
  BY <1>2, <1>4, ReadsSeen
<1>7. Ahead' /\ NoneOvertakes'
  BY <1>2, <1>4, ReadsAhead
<1> SUFFICES ASSUME up' PROVE Growing' /\ ReadWholeIsDelivered'
  BY <1>5, <1>6, <1>7
<1> DEFINE u == f.part.of
           n == sent[u].length
           N == Count(u, sent)
           mine == KeyOf(f)
<1>8. up /\ Growing /\ ReadWholeIsDelivered
  BY <1>2 DEF Reads, ReadInv
<1>9. /\ u \in DOMAIN sent /\ f.id = sent[u].id /\ f.source = sent[u].from /\ f.total = n
      /\ f.fragmented <=> N > 1
      /\ f.newStream <=> k = 1
      /\ f.part = Part(u, k, sent)
  BY <1>4, FrameFields
<1>10. /\ k \in Nat /\ 0 < k /\ k <= N /\ N \in Nat \ {0} /\ n \in Nat
  BY <1>1, <1>4, <1>9, NumberOrder, Lengths
<1>11. /\ StartOf(k) + f.part.size = IF k < N THEN StartOf(k + 1) ELSE n
       /\ k < N => StartOf(k + 1) < n
       /\ StartOf(k) \in Nat /\ StartOf(k + 1) \in Nat
  BY <1>1, <1>4, FrameEnds
<1>12. PartsOf(u) = [i \in 1 .. N |-> Part(u, i, sent)]
  BY PartsOfMessage
<1>13. OnWay(f) /\ k > 1 /\ seen[u] = k - 1 =>
         mine \in DOMAIN in_progress /\ in_progress[mine] = Progress(u, k, sent)
  BY <1>4, <1>8 DEF Growing
<1> SUFFICES
      /\ \A key \in DOMAIN in_progress : key # mine =>
           key \in DOMAIN in_progress' /\ in_progress'[key] = in_progress[key]
      /\ \A d \in Range(delivered) : d \in Range(delivered')
      /\ seen[u] = k - 1 =>
           IF k < N
           THEN mine \in DOMAIN in_progress' /\ in_progress'[mine] = Progress(u, k + 1, sent)
           ELSE \E d \in Range(delivered') : Delivers(d, u)
  <2> HIDE DEF N, mine
  <2>1. k = N => ~(k < N)
    BY <1>10
  <2>2. Growing'
    BY <1>2, <1>4, <1>8, ReadsGrowing DEF N, mine
  <2>3. ReadWholeIsDelivered'
    BY <1>2, <1>4, <1>8, <2>1, ReadsDeliver DEF N
  <2> QED BY <2>2, <2>3
<1> HIDE DEF u, n, N, mine
<1>14. CASE WholeMessage(f)
  <2>1. ~f.fragmented /\ in_progress' = in_progress /\ Give(f, f.part.size, <<f.part>>)
    BY <1>14 DEF WholeMessage
  <2>2. N = 1 /\ k = 1
    BY <1>9, <1>10, <2>1
  <2>3. f.part.size = n
    BY <1>1, <1>4, <2>1, FirstFrame DEF u, n
  <2>4. <<f.part>> = PartsOf(u)
    BY <1>9, <1>12, <2>2, OnePart
  <2>5. /\ \A d \in Range(delivered) : d \in Range(delivered')
        /\ \E d \in Range(delivered') : Delivers(d, u)
    BY <1>1, <1>9, <2>1, <2>3, <2>4, GiveAdds DEF Delivers, n
  <2> QED BY <2>1, <2>2, <2>5
<1>15. CASE NewStream(f)
  <2> DEFINE b == [total |-> f.total, count |-> f.part.size, parts |-> <<f.part>>]
  <2>1. /\ f.fragmented /\ f.newStream /\ in_progress' = Put(mine, b)
        /\ delivered' = delivered
    BY <1>15 DEF NewStream, mine
  <2>2. k = 1 /\ k < N
    BY <1>9, <1>10, <2>1
  <2>3. StartOf(k) = 0 /\ f.part.size \in Int
    <3>1. StartOf(k) = 0
      BY <2>2 DEF StartOf
    <3>2. f.part \in APart
      BY <1>1, <1>3, ReadsWay, <1>2 DEF AFrame
    <3> QED BY <3>1, <3>2 DEF APart
  <2>4. f.part.size = StartOf(k + 1)
    BY <1>11, <2>2, <2>3
  <2>5. <<f.part>> = [i \in 1 .. (k + 1) - 1 |-> Part(u, i, sent)]
    BY <1>9, <2>2, OnePart
  <2>6. b = Progress(u, k + 1, sent)
    BY <1>9, <2>4, <2>5, Zenon DEF Progress, n
  <2> HIDE DEF b
  <2>7. /\ mine \in DOMAIN in_progress' /\ in_progress'[mine] = b
        /\ \A key \in DOMAIN in_progress : key # mine =>
             key \in DOMAIN in_progress' /\ in_progress'[key] = in_progress[key]
    BY <2>1 DEF Put
  <2> QED BY <2>1, <2>2, <2>6, <2>7
<1>16. CASE StrayFragment(f)
  <2>1. /\ ~f.newStream /\ mine \notin DOMAIN in_progress
        /\ UNCHANGED <<in_progress, delivered>>
    BY <1>16 DEF StrayFragment, mine
  <2>2. k > 1
    BY <1>9, <1>10, <2>1
  <2> QED BY <1>3, <1>13, <2>1, <2>2
<1>17. CASE Fragment(f)
  <2> DEFINE p == in_progress[mine]
             count == p.count + f.part.size
             parts == Append(p.parts, f.part)
             b == [total |-> p.total, count |-> count, parts |-> parts]
  <2>1. ~f.newStream /\ mine \in DOMAIN in_progress
    BY <1>17 DEF Fragment, mine
  <2>2. \/ /\ ~(count > p.total) /\ count >= p.total
           /\ in_progress' = Pop(mine) /\ Give(f, p.total, parts)
        \/ /\ ~(count > p.total) /\ ~(count >= p.total)
           /\ in_progress' = Put(mine, b) /\ delivered' = delivered
    <3>1. up' # FALSE
      OBVIOUS
    <3> QED BY <1>17, <3>1 DEF Fragment, Overruns, Finished, mine
  <2>3. k > 1
    BY <1>9, <1>10, <2>1
  <2>4. ASSUME seen[u] = k - 1
        PROVE  /\ p.total = n
               /\ count = IF k < N THEN StartOf(k + 1) ELSE n
               /\ parts = [i \in 1 .. k |-> Part(u, i, sent)]
    <3>1. p = Progress(u, k, sent)
      BY <1>3, <1>13, <2>3, <2>4
    <3>2. p.total = n /\ p.count = StartOf(k)
          /\ p.parts = [i \in 1 .. (k - 1) |-> Part(u, i, sent)]
      BY <3>1 DEF Progress, n
    <3>3. parts = [i \in 1 .. k |-> Part(u, i, sent)]
      BY <1>1, <1>9, <1>10, <3>2, PartsGrow
    <3> QED BY <1>11, <3>2, <3>3
  <2> HIDE DEF p, count, parts
  <2>5. CASE /\ ~(count > p.total) /\ count >= p.total
             /\ in_progress' = Pop(mine) /\ Give(f, p.total, parts)
    <3>1. \A key \in DOMAIN in_progress : key # mine =>
            key \in DOMAIN in_progress' /\ in_progress'[key] = in_progress[key]
      BY <2>5 DEF Pop
    <3>2. /\ \A d \in Range(delivered) : d \in Range(delivered')
          /\ \E d \in Range(delivered') : /\ d.id = f.id /\ d.from = f.source
                                          /\ d.length = p.total /\ d.parts = parts
      BY <1>1, <2>5, GiveAdds
    <3>3. ASSUME seen[u] = k - 1 PROVE k = N /\ p.total = n /\ parts = PartsOf(u)
      <4>1. ~(k < N)
        BY <1>10, <1>11, <2>4, <2>5, <3>3
      <4>2. k = N
        BY <1>10, <4>1
      <4> QED BY <1>12, <2>4, <3>3, <4>2
    <3>4. seen[u] = k - 1 => ~(k < N) /\ \E d \in Range(delivered') : Delivers(d, u)
      BY <1>9, <1>10, <3>2, <3>3 DEF Delivers, n
    <3> QED BY <3>1, <3>2, <3>4
  <2>6. CASE /\ ~(count > p.total) /\ ~(count >= p.total)
             /\ in_progress' = Put(mine, b) /\ delivered' = delivered
    <3>1. /\ mine \in DOMAIN in_progress' /\ in_progress'[mine] = b
          /\ \A key \in DOMAIN in_progress : key # mine =>
               key \in DOMAIN in_progress' /\ in_progress'[key] = in_progress[key]
      BY <2>6 DEF Put
    <3>2. ASSUME seen[u] = k - 1 PROVE k < N /\ b = Progress(u, k + 1, sent)
      <4>1. k < N
        BY <1>10, <1>11, <2>4, <2>6, <3>2
      <4>2. (k + 1) - 1 = k
        BY <1>10
      <4>3. p.total = n /\ count = StartOf(k + 1)
            /\ parts = [i \in 1 .. (k + 1) - 1 |-> Part(u, i, sent)]
        BY <2>4, <3>2, <4>1, <4>2
      <4> QED BY <4>1, <4>3, Zenon DEF Progress, n
    <3> HIDE DEF b
    <3> QED BY <2>6, <3>1, <3>2
  <2> QED BY <2>2, <2>5, <2>6
<1> QED BY <1>2, <1>14, <1>15, <1>16, <1>17

LEMMA ReadKept == Spec => []ReadInv
<1>1. Init => WayInv /\ SeenTypes /\ Ahead /\ NoneOvertakes /\ Growing /\ ReadWholeIsDelivered
  <2> SUFFICES ASSUME Init
               PROVE  /\ WayInv /\ SeenTypes /\ Ahead /\ NoneOvertakes
                      /\ Growing /\ ReadWholeIsDelivered
    OBVIOUS
  <2>1. rxq = <<>> /\ txq = [n \in Node |-> <<>>] /\ sent = <<>> /\ seen = <<>>
    BY DEF Init
  <2>2. \A f : ~OnWay(f)
    BY <2>1 DEF OnWay
  <2>3. WayInv
    BY <2>1 DEF WayInv, InSocket, InQueue, SocketFirst, OwnQueue
  <2> QED BY <2>1, <2>2, <2>3
          DEF SeenTypes, Ahead, NoneOvertakes, Growing, ReadWholeIsDelivered
<1> DEFINE Kept == /\ WayInv /\ SeenTypes /\ Ahead /\ NoneOvertakes
                   /\ up => Growing /\ ReadWholeIsDelivered
<1>2. ReadInv /\ [Next]_vars => Kept'
  <2> SUFFICES ASSUME ReadInv, [Next]_vars PROVE Kept'
    OBVIOUS
  <2>0. BeginInv /\ SourceInv /\ WayInv
    BY DEF ReadInv, BeginInv
  <2>1. CASE UNCHANGED vars
    <3>1. WayInv'
      BY <2>0, <2>1 DEF vars, WayInv, InSocket, InQueue, SocketFirst, OwnQueue
    <3>2. \A f : OnWay(f)' => OnWay(f)
      BY <2>1 DEF vars, OnWay
    <3> QED BY <2>1, <3>1, <3>2, LossKeeps DEF vars
  <2>2. CASE \E n \in Node, id \in Id, length \in Length :
               \E k \in 0 .. packet_count(length) : Send(n, id, length, k)
    <3>1. PICK n \in Node, id \in Id, length \in Length :
            \E k \in 0 .. packet_count(length) : Send(n, id, length, k)
      BY <2>2
    <3>2. PICK k \in 0 .. packet_count(length) : Send(n, id, length, k)
      BY <3>1
    <3> QED BY <2>0, <3>2, SendOrdered, SendKeepsRead
  <2>3. CASE \E n \in Node : Arbitrate(n)
    <3>1. PICK n \in Node : Arbitrate(n)
      BY <2>3
    <3>2. \A f : OnWay(f)' => OnWay(f)
      BY <2>0, <3>1, ArbitrateWay
    <3>3. UNCHANGED <<sent, seen, in_progress, delivered, up>>
      BY <3>1 DEF Arbitrate
    <3>4. WayInv'
      BY <2>0, <3>1, ArbitrateOrdered
    <3> QED BY <3>2, <3>3, <3>4, LossKeeps
  <2>4. CASE OpenCloseSwitch
    <3>1. rxq' = <<>> /\ UNCHANGED <<txq, sent, seen, in_progress, delivered, up>>
      BY <2>4 DEF OpenCloseSwitch
    <3>2. \A f : OnWay(f)' => OnWay(f)
      BY <3>1 DEF OnWay
    <3>3. WayInv'
      BY <2>0, <3>1 DEF WayInv, InSocket, InQueue, SocketFirst, OwnQueue
    <3> QED BY <3>1, <3>2, <3>3, LossKeeps
  <2>5. CASE Reassemble
    BY <2>5, ReassembleReads
  <2> QED BY <2>1, <2>2, <2>3, <2>4, <2>5 DEF Next
<1>3. ReadInv <=> BeginInv /\ Kept
  BY DEF ReadInv
<1> QED BY <1>1, <1>2, <1>3, BeginKept, PTL DEF Spec, Kept

(***************************************************************************)
(* A message all of whose frames the receiver reads is delivered intact,   *)
(* whatever was lost or cut short before it and whatever grows beside it,  *)
(* for every number of nodes and every set of ids and lengths              *)
(* (CanPlugin.py:229-267).  The invariant orders the frames on their way:  *)
(* as long as every frame of a message read so far has come, the body in   *)
(* progress for its key is made of just these.                             *)
(***************************************************************************)
THEOREM ReadCorrect == Spec => []ReadWholeIsDelivered
<1>1. ReadInv => ReadWholeIsDelivered
  BY DEF ReadInv, ReadWholeIsDelivered
<1> QED BY <1>1, ReadKept, PTL
(* The natural numbers are well founded, said of a set of pairs, and what    *)
(* follows: a set that has 0 and each successor has them all.               *)
Below == {ss \in Nat \X Nat : ss[1] < ss[2]}

LEMMA BelowFounded == IsWellFoundedOn(Below, Nat)
BY NatLessThanWellFounded DEF OpToRel, Below

LEMMA CountingUp ==
  ASSUME NEW P, 0 \in P, \A n \in Nat : n \in P => n + 1 \in P
  PROVE  Nat \subseteq P
<1> SUFFICES ASSUME Nat \ P # {} PROVE FALSE
  OBVIOUS
<1>1. PICK m \in Nat \ P : \A k \in Nat \ P : ~(<<k, m>> \in Below)
  BY BelowFounded, WFMin
<1>2. m \in Nat /\ m # 0 /\ m - 1 \in Nat /\ (m - 1) + 1 = m
  OBVIOUS
<1>3. <<m - 1, m>> \in Below
  BY <1>2 DEF Below
<1>4. m - 1 \in P
  BY <1>1, <1>2, <1>3
<1> QED BY <1>2, <1>4
-----------------------------------------------------------------------------
(* f gives what is chosen of the first values, up to n of them. *)
IsChosen(f, n, values, indices) ==
    f = [j \in 0 .. n |-> IF j = 0 THEN <<>>
                          ELSE IF j \in indices THEN Append(f[j - 1], values[j]) ELSE f[j - 1]]

LEMMA ChosenTurn ==
  ASSUME NEW f, NEW n \in Nat, NEW values, NEW indices, IsChosen(f, n, values, indices)
  PROVE  /\ f[0] = <<>> /\ DOMAIN f = 0 .. n
         /\ \A j \in 0 .. (n - 1) :
              f[j + 1] = IF j + 1 \in indices THEN Append(f[j], values[j + 1]) ELSE f[j]
<1>1. f = [j \in 0 .. n |-> IF j = 0 THEN <<>>
                            ELSE IF j \in indices THEN Append(f[j - 1], values[j]) ELSE f[j - 1]]
  BY DEF IsChosen
<1>2. f[0] = <<>> /\ DOMAIN f = 0 .. n
  BY <1>1
<1>3. ASSUME NEW j \in 0 .. (n - 1)
      PROVE  f[j + 1] = IF j + 1 \in indices THEN Append(f[j], values[j + 1]) ELSE f[j]
  <2>1. j + 1 \in 0 .. n /\ j + 1 # 0 /\ (j + 1) - 1 = j
    OBVIOUS
  <2>2. f[j + 1] = IF j + 1 \in indices THEN Append(f[(j + 1) - 1], values[j + 1])
                   ELSE f[(j + 1) - 1]
    BY <1>1, <2>1
  <2> QED BY <2>1, <2>2
<1> QED BY <1>2, <1>3

LEMMA ChosenExists ==
  ASSUME NEW values, NEW indices
  PROVE  \A n \in Nat : \E f : IsChosen(f, n, values, indices)
<1> DEFINE P == {n \in Nat : \E f : IsChosen(f, n, values, indices)}
<1>1. 0 \in P
  <2> DEFINE f == [j \in 0 .. 0 |-> <<>>]
  <2>1. f = [j \in 0 .. 0 |-> IF j = 0 THEN <<>>
                              ELSE IF j \in indices THEN Append(f[j - 1], values[j]) ELSE f[j - 1]]
    OBVIOUS
  <2>2. IsChosen(f, 0, values, indices)
    BY <2>1 DEF IsChosen
  <2> QED BY <2>2
<1>2. ASSUME NEW n \in Nat, n \in P PROVE n + 1 \in P
  <2>1. PICK f : IsChosen(f, n, values, indices)
    BY <1>2
  <2> DEFINE last == IF n + 1 \in indices THEN Append(f[n], values[n + 1]) ELSE f[n]
             g == [j \in 0 .. n + 1 |-> IF j = n + 1 THEN last ELSE f[j]]
  <2>2. /\ g[n + 1] = last /\ DOMAIN g = 0 .. n + 1
        /\ \A j \in 0 .. n : g[j] = f[j]
    OBVIOUS
  <2>3. ASSUME NEW j \in 0 .. n + 1
        PROVE  g[j] = IF j = 0 THEN <<>>
                      ELSE IF j \in indices THEN Append(g[j - 1], values[j]) ELSE g[j - 1]
    <3> HIDE DEF g
    <3>1. CASE j = 0
      <4>1. g[0] = f[0] /\ f[0] = <<>>
        BY <2>1, <2>2, ChosenTurn
      <4> QED BY <3>1, <4>1
    <3>2. CASE j = n + 1
      <4>1. j - 1 = n /\ n \in 0 .. n /\ j # 0
        BY <3>2
      <4>2. g[j - 1] = f[n] /\ g[j] = last
        BY <2>2, <3>2, <4>1
      <4> QED BY <3>2, <4>1, <4>2
    <3>3. CASE j \in 1 .. n
      <4>1. j - 1 \in 0 .. (n - 1) /\ (j - 1) + 1 = j /\ j # 0 /\ j - 1 \in 0 .. n /\ j \in 0 .. n
        BY <3>3
      <4>2. g[j] = f[j] /\ g[j - 1] = f[j - 1]
        BY <2>2, <4>1
      <4>3. f[j] = IF j \in indices THEN Append(f[j - 1], values[j]) ELSE f[j - 1]
        BY <2>1, <4>1, ChosenTurn
      <4> QED BY <4>1, <4>2, <4>3
    <3> QED BY <3>1, <3>2, <3>3
  <2>4. g = [j \in 0 .. n + 1 |-> g[j]]
    OBVIOUS
  <2> HIDE DEF g
  <2>5. g = [j \in 0 .. n + 1 |-> IF j = 0 THEN <<>>
               ELSE IF j \in indices THEN Append(g[j - 1], values[j]) ELSE g[j - 1]]
    BY <2>3, <2>4
  <2>6. IsChosen(g, n + 1, values, indices)
    BY <2>5 DEF IsChosen
  <2> QED BY <2>6
<1> HIDE DEF P
<1>3. Nat \subseteq P
  BY <1>1, <1>2, CountingUp
<1> QED BY <1>3 DEF P

(* What is chosen of some values depends on no later ones. *)
LEMMA ChosenAgree ==
  ASSUME NEW v, NEW w, NEW I, NEW J, NEW n \in Nat, NEW m \in Nat, n <= m,
         \A j \in 1 .. n : v[j] = w[j] /\ (j \in I <=> j \in J),
         NEW f, IsChosen(f, n, v, I), NEW g, IsChosen(g, m, w, J)
  PROVE  f[n] = g[n]
<1> DEFINE P == {j \in Nat : j <= n => f[j] = g[j]}
<1>1. 0 \in P
  BY ChosenTurn
<1>2. ASSUME NEW j \in Nat, j \in P PROVE j + 1 \in P
  <2> SUFFICES ASSUME j + 1 <= n PROVE f[j + 1] = g[j + 1]
    OBVIOUS
  <2>1. j \in 0 .. (n - 1) /\ j \in 0 .. (m - 1) /\ j + 1 \in 1 .. n /\ j <= n
    OBVIOUS
  <2>2. f[j] = g[j] /\ v[j + 1] = w[j + 1] /\ (j + 1 \in I <=> j + 1 \in J)
    BY <1>2, <2>1
  <2>3. f[j + 1] = IF j + 1 \in I THEN Append(f[j], v[j + 1]) ELSE f[j]
    BY <2>1, ChosenTurn
  <2>4. g[j + 1] = IF j + 1 \in J THEN Append(g[j], w[j + 1]) ELSE g[j]
    BY <2>1, ChosenTurn
  <2> QED BY <2>2, <2>3, <2>4
<1> HIDE DEF P
<1>3. Nat \subseteq P
  BY <1>1, <1>2, CountingUp
<1> QED BY <1>3 DEF P

LEMMA ChosenIs ==
  ASSUME NEW values, Len(values) \in Nat, NEW indices
  PROVE  \E f : IsChosen(f, Len(values), values, indices) /\ Chosen(values, indices) = f[Len(values)]
<1> DEFINE n == Len(values)
           f == CHOOSE f : f = [j \in 0 .. n |-> IF j = 0 THEN <<>>
                   ELSE IF j \in indices THEN Append(f[j - 1], values[j]) ELSE f[j - 1]]
<1>0. \E g : IsChosen(g, n, values, indices)
  BY ChosenExists
<1>1. IsChosen(f, n, values, indices)
  BY <1>0 DEF IsChosen
<1>2. Chosen(values, indices) = f[n]
  BY DEF Chosen
<1> QED BY <1>1, <1>2

LEMMA ChosenNone == \A indices : Chosen(<<>>, indices) = <<>>
<1> TAKE indices
<1>1. Len(<<>>) = 0
  OBVIOUS
<1>2. PICK f : IsChosen(f, 0, <<>>, indices) /\ Chosen(<<>>, indices) = f[0]
  BY <1>1, ChosenIs
<1> QED BY <1>2, ChosenTurn

LEMMA ChosenSame ==
  ASSUME NEW S, NEW v \in Seq(S), NEW I, NEW J, \A j \in DOMAIN v : j \in I <=> j \in J
  PROVE  Chosen(v, I) = Chosen(v, J)
<1>1. Len(v) \in Nat /\ DOMAIN v = 1 .. Len(v)
  OBVIOUS
<1>2. PICK f : IsChosen(f, Len(v), v, I) /\ Chosen(v, I) = f[Len(v)]
  BY <1>1, ChosenIs
<1>3. PICK g : IsChosen(g, Len(v), v, J) /\ Chosen(v, J) = g[Len(v)]
  BY <1>1, ChosenIs
<1>4. f[Len(v)] = g[Len(v)]
  BY <1>1, <1>2, <1>3, ChosenAgree
<1> QED BY <1>2, <1>3, <1>4

(* One more value is chosen or not. *)
LEMMA ChosenMore ==
  ASSUME NEW S, NEW v \in Seq(S), NEW x \in S, NEW I, NEW J,
         \A j \in DOMAIN v : j \in I <=> j \in J
  PROVE  Chosen(Append(v, x), J)
           = IF Len(v) + 1 \in J THEN Append(Chosen(v, I), x) ELSE Chosen(v, I)
<1> DEFINE w == Append(v, x)
           n == Len(v)
<1>1. /\ n \in Nat /\ DOMAIN v = 1 .. n /\ Len(w) = n + 1 /\ w[n + 1] = x
      /\ \A j \in 1 .. n : w[j] = v[j]
  OBVIOUS
<1> HIDE DEF w, n
<1>2. PICK f : IsChosen(f, n, v, I) /\ Chosen(v, I) = f[n]
  BY <1>1, ChosenIs DEF n
<1>3. PICK g : IsChosen(g, n + 1, w, J) /\ Chosen(w, J) = g[n + 1]
  <2>1. Len(w) \in Nat
    BY <1>1
  <2> QED BY <1>1, <2>1, ChosenIs
<1>4. f[n] = g[n]
  <2>1. n + 1 \in Nat /\ n <= n + 1
    BY <1>1
  <2> QED BY <1>1, <1>2, <1>3, <2>1, ChosenAgree
<1>5. g[n + 1] = IF n + 1 \in J THEN Append(g[n], w[n + 1]) ELSE g[n]
  <2>1. n \in 0 .. ((n + 1) - 1) /\ n + 1 \in Nat
    BY <1>1
  <2> QED BY <1>3, <2>1, ChosenTurn
<1> QED BY <1>1, <1>2, <1>3, <1>4, <1>5 DEF w, n
-----------------------------------------------------------------------------
(* With neither failures nor presses no frame is lost, and nothing raises.   *)
NoLoss == failures = 0 /\ toggles = 0 /\ canPort /\ up

(* Every frame not read yet is on its way. *)
AllOnWay == \A u \in DOMAIN sent :
              /\ seen[u] <= Count(u, sent)
              /\ \A k \in 1 .. Count(u, sent) : seen[u] < k => OnWay(Frame(u, k, sent))

(* The history of node n has its messages, in order. *)
SentInTurn(n) ==
    LET out == SentBy(n)
    IN  /\ out \in Seq(Nat)
        /\ \A i, j \in DOMAIN out : i < j => out[i] < out[j]
        /\ \A i \in DOMAIN out : out[i] \in DOMAIN sent /\ sent[out[i]].from = n
        /\ \A u \in DOMAIN sent : sent[u].from = n => \E i \in DOMAIN out : out[i] = u

(* The deliveries are the messages read whole, which come first. *)
ArrivedInTurn(n) ==
    LET out == SentBy(n)
        got == DeliveredFrom(n)
    IN  /\ got \in Seq(Nat) /\ Len(got) <= Len(out)
        /\ \A i \in DOMAIN got : got[i] = out[i]
        /\ \A i \in DOMAIN out : seen[out[i]] = Count(out[i], sent) <=> i <= Len(got)

Lossless == NoLoss /\ AllOnWay /\ \A n \in Node : SentInTurn(n) /\ ArrivedInTurn(n)
-----------------------------------------------------------------------------
(* A new message is the last of its node's. *)
LEMMA SentByMore ==
  ASSUME SourceInv, NEW n \in Node, NEW id \in Id, NEW length \in Length,
         NEW k \in Nat, Send(n, id, length, k)
  PROVE  /\ SentBy(n)' = Append(SentBy(n), Len(sent) + 1)
         /\ \A o \in Node : o # n => SentBy(o)' = SentBy(o)
<1> DEFINE u == Len(sent) + 1
           v == [w \in DOMAIN sent |-> w]
           I(o) == {w \in DOMAIN sent : sent[w].from = o}
           J(o) == {w \in DOMAIN sent' : sent'[w].from = o}
<1>1. /\ DOMAIN sent' = DOMAIN sent \cup {u}
      /\ u \in Nat /\ u \notin DOMAIN sent
      /\ sent'[u] = [from |-> n, id |-> id, length |-> length]
      /\ \A w \in DOMAIN sent : sent'[w] = sent[w]
  BY SendMakes
<1>2. sent'[u].from = n
  BY <1>1
<1>3. Len(sent) \in Nat /\ DOMAIN sent = 1 .. Len(sent)
  BY DEF SourceInv, Types
<1>4. v \in Seq(Nat) /\ Len(v) = Len(sent)
  BY <1>3
<1>5. [w \in DOMAIN sent' |-> w] = Append(v, u)
  <2> DEFINE more == Append(v, u)
  <2>1. /\ more \in Seq(Nat) /\ Len(more) = u /\ DOMAIN more = 1 .. u
        /\ \A w \in 1 .. Len(sent) : more[w] = w
        /\ more[u] = u
    BY <1>3, <1>4
  <2>2. DOMAIN sent' = 1 .. u
    BY <1>1, <1>3
  <2>3. \A w \in 1 .. u : more[w] = w
    BY <1>3, <2>1
  <2>4. more = [w \in 1 .. u |-> more[w]]
    BY <2>1
  <2> HIDE DEF more
  <2> QED BY <2>2, <2>3, <2>4 DEF more
<1>6. \A o : \A j \in DOMAIN v : j \in I(o) <=> j \in J(o)
  BY <1>1
<1>7. \A o : u \in J(o) <=> o = n
  BY <1>1, <1>2
<1>8. \A o : SentBy(o) = Chosen(v, I(o)) /\ SentBy(o)' = Chosen(Append(v, u), J(o))
  BY <1>5 DEF SentBy
<1> HIDE DEF v, I, J
<1>9. ASSUME NEW o
      PROVE  Chosen(Append(v, u), J(o)) = IF Len(v) + 1 \in J(o) THEN Append(Chosen(v, I(o)), u)
                                          ELSE Chosen(v, I(o))
  <2>1. \A j \in DOMAIN v : j \in I(o) <=> j \in J(o)
    BY <1>6
  <2> HIDE DEF u
  <2> QED BY <1>1, <1>4, <2>1, ChosenMore
<1>10. Len(v) + 1 = u
  BY <1>4
<1> QED BY <1>7, <1>8, <1>9, <1>10

(* A delivered message is one that was sent, or 0. *)
LEMMA WholeIsNumber ==
  ASSUME NEW d, d.parts[1].of \in DOMAIN sent, sent \in Seq(AMessage)
  PROVE  Whole(d) \in Nat
BY DEF Whole

(* What was delivered is the same when only the history grows. *)
LEMMA DeliveredStays ==
  ASSUME BeginInv, delivered' = delivered, DOMAIN sent \subseteq DOMAIN sent',
         \A u \in DOMAIN sent : sent'[u] = sent[u]
  PROVE  \A n : DeliveredFrom(n)' = DeliveredFrom(n)
<1>1. ASSUME NEW j \in DOMAIN delivered PROVE Whole(delivered[j])' = Whole(delivered[j])
  <2> DEFINE u == delivered[j].parts[1].of
  <2>1. u \in DOMAIN sent
    BY DEF BeginInv, DeliveredBegun, Begun
  <2>2. sent'[u] = sent[u]
    BY <2>1
  <2>3. PartsOf(u)' = PartsOf(u)
    BY <2>2 DEF PartsOf
  <2> QED BY <2>2, <2>3 DEF Whole
<1>2. [j \in DOMAIN delivered |-> Whole(delivered[j])]'
        = [j \in DOMAIN delivered |-> Whole(delivered[j])]
  BY <1>1
<1> QED BY <1>2 DEF DeliveredFrom

(* A delivery of node n comes behind those before. *)
LEMMA DeliveredMore ==
  ASSUME BeginInv, NEW d, delivered' = Append(delivered, d), sent' = sent,
         d \in ADelivery, d.parts[1].of \in DOMAIN sent
  PROVE  /\ DeliveredFrom(d.from)' = Append(DeliveredFrom(d.from), Whole(d))
         /\ \A o : o # d.from => DeliveredFrom(o)' = DeliveredFrom(o)
<1> DEFINE L == Len(delivered)
           v == [j \in DOMAIN delivered |-> Whole(delivered[j])]
           I(o) == {j \in DOMAIN delivered : delivered[j].from = o}
           J(o) == {j \in DOMAIN delivered' : delivered'[j].from = o}
<1>1. /\ delivered \in Seq(ADelivery) /\ sent \in Seq(AMessage)
  BY DEF BeginInv, SourceInv, Types
<1>2. /\ L \in Nat /\ DOMAIN delivered = 1 .. L /\ DOMAIN delivered' = 1 .. L + 1
      /\ delivered'[L + 1] = d
      /\ \A j \in 1 .. L : delivered'[j] = delivered[j]
  BY <1>1
<1>3. \A e : Whole(e)' = Whole(e)
  BY DEF Whole, PartsOf
<1>4. \A j \in DOMAIN delivered : Whole(delivered[j]) \in Nat
  BY <1>1, WholeIsNumber DEF BeginInv, DeliveredBegun, Begun
<1>5. Whole(d) \in Nat
  BY <1>1, WholeIsNumber
<1>6. v \in Seq(Nat) /\ Len(v) = L /\ \A j \in 1 .. L : v[j] = Whole(delivered[j])
  BY <1>2, <1>4
<1>7. [j \in DOMAIN delivered |-> Whole(delivered[j])]' = Append(v, Whole(d))
  <2> DEFINE more == Append(v, Whole(d))
             new == [j \in 1 .. L + 1 |-> Whole(delivered'[j])]
  <2>1. /\ more \in Seq(Nat) /\ DOMAIN more = 1 .. L + 1
        /\ \A j \in 1 .. L : more[j] = v[j]
        /\ more[L + 1] = Whole(d)
    BY <1>2, <1>5, <1>6
  <2>2. more = [j \in 1 .. L + 1 |-> more[j]]
    BY <2>1
  <2>3. \A j \in 1 .. L + 1 : more[j] = Whole(delivered'[j])
    <3> HIDE DEF more, v
    <3>1. \A j \in 1 .. L + 1 : j \in 1 .. L \/ j = L + 1
      BY <1>2
    <3> QED BY <1>2, <1>6, <2>1, <3>1
  <2>4. [j \in DOMAIN delivered |-> Whole(delivered[j])]' = new
    BY <1>2, <1>3
  <2> HIDE DEF more
  <2> QED BY <2>2, <2>3, <2>4 DEF more
<1>8. \A o : \A j \in DOMAIN v : j \in I(o) <=> j \in J(o)
  BY <1>2
<1>9. \A o : L + 1 \in J(o) <=> o = d.from
  BY <1>2
<1>10. \A o : DeliveredFrom(o) = Chosen(v, I(o)) /\ DeliveredFrom(o)' = Chosen(Append(v, Whole(d)), J(o))
  BY <1>7 DEF DeliveredFrom
<1> HIDE DEF v, I, J
<1>11. ASSUME NEW o
       PROVE  Chosen(Append(v, Whole(d)), J(o))
                = IF Len(v) + 1 \in J(o) THEN Append(Chosen(v, I(o)), Whole(d))
                  ELSE Chosen(v, I(o))
  <2>1. \A j \in DOMAIN v : j \in I(o) <=> j \in J(o)
    BY <1>8
  <2> DEFINE x == Whole(d)
  <2>2. x \in Nat /\ v \in Seq(Nat)
    BY <1>5, <1>6
  <2> HIDE DEF x
  <2>3. Chosen(Append(v, x), J(o))
          = IF Len(v) + 1 \in J(o) THEN Append(Chosen(v, I(o)), x) ELSE Chosen(v, I(o))
    BY <2>1, <2>2, ChosenMore
  <2> QED BY <2>3 DEF x
<1> QED BY <1>6, <1>9, <1>10, <1>11
-----------------------------------------------------------------------------
(* Without failures all frames of a new message go on their way. *)
LEMMA SendWhole ==
  ASSUME SourceInv, NEW n \in Node, NEW id \in Id, NEW length \in Length,
         NEW k \in Nat, Send(n, id, length, k), MaxFailures = 0, failures = 0
  PROVE  /\ \A f : OnWay(f) => OnWay(f)'
         /\ \A j \in 1 .. Count(Len(sent) + 1, sent') :
              \A f : f = Frame(Len(sent) + 1, j, sent') => OnWay(f)'
<1> DEFINE u == Len(sent) + 1
           frames == FramesOf(u, n, id, length)
           new == SubSeq(frames, 1, k)
           q == txq[n]
<1>1. /\ sent' \in Seq(AMessage) /\ u \in DOMAIN sent' /\ u \in Nat
      /\ sent'[u] = [from |-> n, id |-> id, length |-> length]
  BY SendMakes
<1>2. sent'[u].from = n /\ sent'[u].id = id /\ sent'[u].length = length
  BY <1>1
<1>3. txq \in [Node -> Seq(AFrame)] /\ q \in Seq(AFrame)
  BY DEF SourceInv, Types
<1>4. /\ k <= Len(frames) /\ txq' = [txq EXCEPT ![n] = @ \o new] /\ rxq' = rxq
      /\ failures' = IF k < Len(frames) THEN failures + 1 ELSE failures
      /\ failures' <= MaxFailures
  BY DEF Send
<1>5. frames \in Seq(AFrame)
  BY <1>1, FramesOfType
<1>6. /\ DOMAIN frames = 1 .. Count(u, sent')
      /\ \A j \in DOMAIN frames : frames[j] = Frame(u, j, sent')
  <2> HIDE DEF u
  <2> QED BY <1>1, <1>2, FramesOfFields
<1> HIDE DEF u, frames
<1>7. k = Len(frames)
  BY <1>4, <1>5
<1>8. new \in Seq(AFrame) /\ DOMAIN new = DOMAIN frames /\ \A j \in DOMAIN frames : new[j] = frames[j]
  BY <1>5, <1>7
<1> HIDE DEF new
<1>9. txq'[n] = q \o new /\ \A o \in Node : o # n => txq'[o] = txq[o]
  BY <1>3, <1>4
<1>10. /\ \A j \in DOMAIN q : j \in DOMAIN txq'[n] /\ txq'[n][j] = q[j]
       /\ \A j \in DOMAIN new : /\ Len(q) + j \in DOMAIN txq'[n]
                                /\ txq'[n][Len(q) + j] = new[j]
  BY <1>3, <1>8, <1>9
<1>11. ASSUME NEW f, OnWay(f) PROVE OnWay(f)'
  <2>1. CASE \E i \in DOMAIN rxq : f = rxq[i]
    BY <1>4, <2>1 DEF OnWay
  <2>2. CASE \E o \in Node : \E j \in DOMAIN txq[o] : f = txq[o][j]
    <3>1. PICK o \in Node : \E j \in DOMAIN txq[o] : f = txq[o][j]
      BY <2>2
    <3>2. PICK j \in DOMAIN txq[o] : f = txq[o][j]
      BY <3>1
    <3>3. j \in DOMAIN txq'[o] /\ f = txq'[o][j]
      BY <1>9, <1>10, <3>2
    <3> QED BY <3>3 DEF OnWay
  <2> QED BY <1>11, <2>1, <2>2 DEF OnWay
<1>12. ASSUME NEW j \in 1 .. Count(u, sent'), NEW f, f = Frame(u, j, sent') PROVE OnWay(f)'
  <2>1. new[j] = Frame(u, j, sent') /\ j \in DOMAIN new
    BY <1>6, <1>8
  <2>2. Len(q) + j \in DOMAIN txq'[n] /\ txq'[n][Len(q) + j] = f
    BY <1>10, <1>12, <2>1
  <2> QED BY <2>2 DEF OnWay
<1> QED BY <1>11, <1>12 DEF u

(* The bus carries a frame to an open port. *)
LEMMA ArbitrateCarries ==
  ASSUME SourceInv, NEW n \in Node, Arbitrate(n), canPort
  PROVE  \A f : OnWay(f) => OnWay(f)'
<1>1. /\ txq' = [txq EXCEPT ![n] = Tail(@)] /\ txq[n] # <<>>
      /\ rxq' = Append(rxq, Head(txq[n]))
  BY DEF Arbitrate
<1>2. txq \in [Node -> Seq(AFrame)] /\ txq[n] \in Seq(AFrame) /\ rxq \in Seq(AFrame)
  BY DEF SourceInv, Types
<1>3. /\ \A i \in DOMAIN rxq : i \in DOMAIN rxq' /\ rxq'[i] = rxq[i]
      /\ Len(rxq) + 1 \in DOMAIN rxq' /\ rxq'[Len(rxq) + 1] = txq[n][1]
  BY <1>1, <1>2
<1>4. /\ txq'[n] = Tail(txq[n]) /\ \A o \in Node : o # n => txq'[o] = txq[o]
  BY <1>1, <1>2
<1>5. \A j \in DOMAIN txq[n] : j # 1 => j - 1 \in DOMAIN txq'[n] /\ txq'[n][j - 1] = txq[n][j]
  BY <1>1, <1>2, <1>4
<1> TAKE f
<1> HAVE OnWay(f)
<1>6. CASE \E i \in DOMAIN rxq : f = rxq[i]
  BY <1>3, <1>6 DEF OnWay
<1>7. CASE \E o \in Node : \E j \in DOMAIN txq[o] : f = txq[o][j]
  <2>1. PICK o \in Node : \E j \in DOMAIN txq[o] : f = txq[o][j]
    BY <1>7
  <2>2. PICK j \in DOMAIN txq[o] : f = txq[o][j]
    BY <2>1
  <2>3. CASE o # n
    BY <1>4, <2>2, <2>3 DEF OnWay
  <2>4. CASE o = n /\ j = 1
    BY <1>3, <2>2, <2>4 DEF OnWay
  <2>5. CASE o = n /\ j # 1
    <3>1. j - 1 \in DOMAIN txq'[n] /\ txq'[n][j - 1] = f
      BY <1>5, <2>2, <2>5
    <3> QED BY <3>1 DEF OnWay
  <2> QED BY <2>3, <2>4, <2>5
<1> QED BY <1>6, <1>7 DEF OnWay

(* The reader takes one frame off the way, and no other. *)
LEMMA ReadsOne ==
  ASSUME SourceInv, NEW f, Reads(f), NEW g, OnWay(g), g # f
  PROVE  OnWay(g)'
<1>1. rxq # <<>> /\ f = Head(rxq) /\ rxq' = Tail(rxq) /\ txq' = txq
  BY DEF Reads
<1>2. rxq \in Seq(AFrame)
  BY DEF SourceInv, Types
<1>3. f = rxq[1] /\ \A i \in DOMAIN rxq : i # 1 => i - 1 \in DOMAIN rxq' /\ rxq'[i - 1] = rxq[i]
  BY <1>1, <1>2
<1>4. CASE \E i \in DOMAIN rxq : g = rxq[i]
  <2>1. PICK i \in DOMAIN rxq : g = rxq[i]
    BY <1>4
  <2>2. i - 1 \in DOMAIN rxq' /\ rxq'[i - 1] = g
    BY <1>3, <2>1
  <2> QED BY <2>2 DEF OnWay
<1>5. CASE \E o \in Node : \E j \in DOMAIN txq[o] : g = txq[o][j]
  BY <1>1, <1>5 DEF OnWay
<1> QED BY <1>4, <1>5 DEF OnWay

(* Without losses the frame read is the next of its message, and all that   *)
(* its node sent before were read.                                          *)
LEMMA ReadsNext ==
  ASSUME ReadInv, AllOnWay, NEW f, Reads(f), NEW k, IsFrame(f, k, sent)
  PROVE  LET u == f.part.of
         IN  /\ seen[u] = k - 1
             /\ \A v \in DOMAIN sent : v < u /\ sent[v].from = f.source =>
                  seen[v] = Count(v, sent)
<1> DEFINE u == f.part.of
<1>1. BeginInv /\ SourceInv /\ WayInv /\ sent \in Seq(AMessage)
  BY DEF ReadInv, BeginInv, SourceInv, Types
<1>2. \A g : OnWay(g)' /\ g.source = f.source => Before(f, g)
  BY <1>1, ReadsOrdered
<1>3. u \in DOMAIN seen /\ seen[u] \in Nat /\ seen[u] < k /\ DOMAIN seen = DOMAIN sent
  BY ReadsSeen
<1>4. u \in DOMAIN sent /\ f.source = sent[u].from /\ k \in 1 .. Count(u, sent)
  BY FrameFields
<1>5. \A v \in DOMAIN sent : Count(v, sent) \in Nat /\ seen[v] \in Nat
  BY <1>1, <1>3, Lengths DEF ReadInv, SeenTypes
(* A frame of an earlier message, or before f in its own, is not on its way. *)
<1>6. ASSUME NEW v \in DOMAIN sent, sent[v].from = f.source, NEW j \in 1 .. Count(v, sent),
             v < u \/ (v = u /\ j < k), seen[v] < j
      PROVE  FALSE
  <2> DEFINE g == Frame(v, j, sent)
  <2>1. OnWay(g)
    BY <1>6 DEF AllOnWay
  <2>2. g.part.of = v /\ IsFrame(g, j, sent)
    BY NewFrame
  <2> HIDE DEF g
  <2>3. g.source = f.source
    BY <1>6, <2>2, FrameFields
  <2>4. /\ k \in Nat /\ j \in Nat /\ u \in Nat /\ v \in Nat
        /\ Before(f, g) => u < v \/ (u = v /\ k < j)
    <3>1. f.part.of \in Nat /\ g.part.of \in Nat /\ k \in Nat /\ j \in Nat
      BY <1>1, <2>2, NumberOrder
    <3>2. Before(f, g) => \/ f.part.of < g.part.of
                          \/ f.part.of = g.part.of /\ k < j
      BY <1>1, <2>2, NumberOrder
    <3> QED BY <2>2, <3>1, <3>2
  <2>5. g # f
    <3>1. ASSUME g = f PROVE FALSE
      <4>1. v = u
        BY <2>2, <3>1
      <4>2. k = j
        BY <1>1, <2>2, <3>1, OneNumber
      <4> HIDE DEF u
      <4> QED BY <1>6, <2>4, <4>1, <4>2
    <3> QED BY <3>1
  <2>6. Before(f, g)
    BY <1>1, <1>2, <2>1, <2>3, <2>5, ReadsOne
  <2> HIDE DEF u
  <2> QED BY <1>6, <2>4, <2>6
<1> HIDE DEF u
<1>7. seen[u] = k - 1
  <2>1. k \in Nat /\ k <= Count(u, sent) /\ seen[u] \in Nat /\ Count(u, sent) \in Nat
    BY <1>3, <1>4, <1>5
  <2>2. ASSUME seen[u] < k - 1 PROVE FALSE
    <3>1. seen[u] + 1 \in 1 .. Count(u, sent) /\ seen[u] + 1 < k /\ seen[u] < seen[u] + 1
      BY <2>1, <2>2
    <3> QED BY <1>4, <1>6, <3>1
  <2> QED BY <1>3, <2>1, <2>2
<1>8. ASSUME NEW v \in DOMAIN sent, v < u, sent[v].from = f.source
      PROVE  seen[v] = Count(v, sent)
  <2>1. seen[v] <= Count(v, sent)
    BY DEF AllOnWay
  <2>2. ASSUME seen[v] < Count(v, sent) PROVE FALSE
    <3>1. Count(v, sent) \in 1 .. Count(v, sent)
      BY <1>5, <2>2
    <3> QED BY <1>6, <1>8, <2>2, <3>1
  <2> QED BY <1>5, <2>1, <2>2
<1> QED BY <1>7, <1>8 DEF u
-----------------------------------------------------------------------------
(* The next frame of a message grows its body or ends it. *)
LEMMA TurnInOrder ==
  ASSUME ReadInv, up, AllOnWay, Reassemble
  PROVE  \E f, k :
           /\ Reads(f) /\ IsFrame(f, k, sent) /\ up' = up
           /\ IF k < Count(f.part.of, sent) THEN delivered' = delivered
              ELSE \E d \in ADelivery : /\ delivered' = Append(delivered, d)
                                        /\ Delivers(d, f.part.of)
<1>1. BeginInv /\ SourceInv /\ WayInv /\ Growing /\ sent \in Seq(AMessage)
  BY DEF ReadInv, BeginInv, SourceInv, Types
<1>2. PICK f : /\ Reads(f)
               /\ WholeMessage(f) \/ NewStream(f) \/ StrayFragment(f) \/ Fragment(f)
  BY DEF Reassemble, WholeMessage, NewStream, StrayFragment, Fragment
<1>3. OnWay(f) /\ f \in AFrame
  BY <1>1, <1>2, ReadsWay
<1>4. PICK k : IsFrame(f, k, sent)
  BY <1>1, <1>3 DEF BeginInv, Numbered
<1> DEFINE u == f.part.of
           n == sent[u].length
           N == Count(u, sent)
           mine == KeyOf(f)
<1>5. seen[u] = k - 1
  BY <1>2, <1>4, ReadsNext
<1>6. /\ u \in DOMAIN sent /\ f.id = sent[u].id /\ f.source = sent[u].from /\ f.total = n
      /\ f.fragmented <=> N > 1
      /\ f.newStream <=> k = 1
      /\ f.part = Part(u, k, sent)
  BY <1>4, FrameFields
<1>7. /\ k \in Nat /\ 0 < k /\ k <= N /\ N \in Nat \ {0} /\ n \in Nat
  BY <1>1, <1>4, <1>6, NumberOrder, Lengths
<1>8. /\ StartOf(k) + f.part.size = IF k < N THEN StartOf(k + 1) ELSE n
      /\ k < N => StartOf(k + 1) < n
      /\ StartOf(k) \in Nat /\ StartOf(k + 1) \in Nat
  BY <1>1, <1>4, FrameEnds
<1>9. PartsOf(u) = [i \in 1 .. N |-> Part(u, i, sent)]
  BY PartsOfMessage
<1>10. k > 1 => mine \in DOMAIN in_progress /\ in_progress[mine] = Progress(u, k, sent)
  BY <1>1, <1>3, <1>4, <1>5 DEF Growing
<1>11. \A parts \in Seq(APart) : parts = PartsOf(u) /\ Give(f, n, parts) =>
         \E d \in ADelivery : delivered' = Append(delivered, d) /\ Delivers(d, u)
  <2> TAKE parts \in Seq(APart)
  <2> HAVE parts = PartsOf(u) /\ Give(f, n, parts)
  <2> DEFINE d == [id |-> f.id, from |-> f.source, length |-> n, parts |-> parts]
  <2>1. delivered' = Append(delivered, d)
    BY DEF Give
  <2>2. d \in ADelivery
    BY <1>3, <1>7 DEF ADelivery, AFrame
  <2>3. Delivers(d, u)
    BY <1>6 DEF Delivers
  <2> QED BY <2>1, <2>2, <2>3
<1> SUFFICES /\ up' = up
             /\ IF k < N THEN delivered' = delivered
                ELSE \E d \in ADelivery : delivered' = Append(delivered, d) /\ Delivers(d, u)
  BY <1>2, <1>4
<1> HIDE DEF u, n, N, mine
<1>12. CASE WholeMessage(f)
  <2>1. ~f.fragmented /\ up' = up /\ Give(f, f.part.size, <<f.part>>)
    BY <1>12 DEF WholeMessage
  <2>2. N = 1 /\ k = 1
    BY <1>6, <1>7, <2>1
  <2>3. f.part.size = n
    BY <1>1, <1>4, <2>1, FirstFrame DEF u, n
  <2>4. <<f.part>> = PartsOf(u)
    BY <1>6, <1>9, <2>2, OnePart
  <2>5. <<f.part>> \in Seq(APart)
    BY <1>3 DEF AFrame
  <2> DEFINE parts == <<f.part>>
  <2>6. parts \in Seq(APart) /\ parts = PartsOf(u) /\ Give(f, n, parts)
    BY <2>1, <2>3, <2>4, <2>5
  <2> HIDE DEF parts
  <2>7. \E d \in ADelivery : delivered' = Append(delivered, d) /\ Delivers(d, u)
    BY <1>11, <2>6
  <2> QED BY <2>1, <2>2, <2>7
<1>13. CASE NewStream(f)
  <2>1. f.fragmented /\ f.newStream /\ up' = up /\ delivered' = delivered
    BY <1>13 DEF NewStream
  <2> QED BY <1>6, <1>7, <2>1
<1>14. CASE StrayFragment(f)
  <2>1. ~f.newStream /\ mine \notin DOMAIN in_progress
    BY <1>14 DEF StrayFragment, mine
  <2> QED BY <1>6, <1>7, <1>10, <2>1
<1>15. CASE Fragment(f)
  <2> DEFINE p == in_progress[mine]
             count == p.count + f.part.size
             parts == Append(p.parts, f.part)
  <2>1. ~f.newStream /\ k > 1
    BY <1>6, <1>7, <1>15 DEF Fragment
  <2>2. p.total = n /\ p.count = StartOf(k)
        /\ p.parts = [i \in 1 .. (k - 1) |-> Part(u, i, sent)]
    BY <1>10, <2>1 DEF Progress, n
  <2>3. parts = [i \in 1 .. k |-> Part(u, i, sent)] /\ p.parts \in Seq(APart)
    BY <1>1, <1>6, <1>7, <2>2, PartsGrow
  <2>4. count = IF k < N THEN StartOf(k + 1) ELSE n
    BY <1>8, <2>2
  <2>5. parts \in Seq(APart)
    <3>1. f.part \in APart
      BY <1>3 DEF AFrame
    <3>2. \A s \in Seq(APart), x \in APart : Append(s, x) \in Seq(APart)
      OBVIOUS
    <3> HIDE DEF p
    <3> QED BY <2>3, <3>1, <3>2
  <2>6. \/ count > p.total
        \/ ~(count > p.total) /\ count >= p.total /\ Give(f, p.total, parts) /\ up' = up
        \/ ~(count > p.total) /\ ~(count >= p.total) /\ delivered' = delivered /\ up' = up
    BY <1>15 DEF Fragment, Overruns, Finished, mine
  <2> HIDE DEF p, count, parts
  <2>7. CASE k < N
    <3>1. ~(count > p.total) /\ ~(count >= p.total)
      BY <1>7, <1>8, <2>2, <2>4, <2>7
    <3> QED BY <2>6, <2>7, <3>1
  <2>8. CASE ~(k < N)
    <3>1. ~(count > p.total) /\ count >= p.total /\ p.total = n
      BY <1>7, <2>2, <2>4, <2>8
    <3>2. k = N
      BY <1>7, <2>8
    <3>3. parts = PartsOf(u)
      BY <1>9, <2>3, <3>2
    <3> QED BY <1>11, <2>5, <2>6, <2>8, <3>1, <3>3
  <2> QED BY <2>7, <2>8
<1> QED BY <1>2, <1>12, <1>13, <1>14, <1>15

(* The first and the last step of a link: nothing yet, and nothing new.     *)
LinkStep == \/ \E n \in Node, m \in 1 .. MaxSends : Link!Send(n, m)
            \/ \E n \in Node : Link!Deliver(n)
            \/ UNCHANGED Link!vars

LinkStays == /\ \A n \in Node : SentBy(n)' = SentBy(n)
             /\ \A n \in Node : DeliveredFrom(n)' = DeliveredFrom(n)

LEMMA LinkStutters == ASSUME LinkStays PROVE LinkStep
BY DEF LinkStays, LinkStep, Link!vars

(* Sending is sending. *)
LEMMA SendLinks ==
  ASSUME ReadInv, ReadInv', Lossless, NEW n \in Node, NEW id \in Id, NEW length \in Length,
         NEW k \in Nat, Send(n, id, length, k), MaxFailures = 0
  PROVE  Lossless' /\ LinkStep
<1> DEFINE u == Len(sent) + 1
<1>1. BeginInv /\ SourceInv /\ SeenTypes /\ NoLoss /\ AllOnWay
      /\ \A o \in Node : SentInTurn(o) /\ ArrivedInTurn(o)
  BY DEF ReadInv, BeginInv, Lossless
<1>2. /\ sent' \in Seq(AMessage) /\ DOMAIN sent' = DOMAIN sent \cup {u}
      /\ u \in Nat /\ u \notin DOMAIN sent
      /\ sent'[u] = [from |-> n, id |-> id, length |-> length]
      /\ \A v \in DOMAIN sent : sent'[v] = sent[v] /\ v < u
  BY <1>1, SendMakes
<1>3. sent'[u].from = n
  BY <1>2
<1>4. /\ sent \in Seq(AMessage) /\ seen \in Seq(Nat) /\ Len(seen) = Len(sent)
      /\ seen' = Append(seen, 0) /\ delivered' = delivered /\ Len(sent) < MaxSends
  BY <1>1 DEF SourceInv, Types, SeenTypes, Send
<1>5. seen'[u] = 0 /\ \A v \in DOMAIN sent : seen'[v] = seen[v]
  BY <1>4
<1>6. u \in 1 .. MaxSends
  BY <1>4, LinkAssumption
<1>7. SentBy(n)' = Append(SentBy(n), u) /\ \A o \in Node : o # n => SentBy(o)' = SentBy(o)
  BY <1>1, SentByMore
<1>8. \A o : DeliveredFrom(o)' = DeliveredFrom(o)
  BY <1>1, <1>2, <1>4, DeliveredStays
<1>9. /\ \A f : OnWay(f) => OnWay(f)'
      /\ \A j \in 1 .. Count(u, sent') : \A f : f = Frame(u, j, sent') => OnWay(f)'
  BY <1>1, SendWhole DEF NoLoss
<1> HIDE DEF u
<1>10. \A v \in DOMAIN sent : Count(v, sent') = Count(v, sent)
                              /\ \A k2 : Frame(v, k2, sent') = Frame(v, k2, sent)
  BY <1>2 DEF Count, Frame, Part
<1>11. \A v \in DOMAIN sent' : Count(v, sent') \in Nat \ {0}
  BY <1>2, Lengths
<1>12. NoLoss'
  <2>1. failures' <= 0 /\ (failures' = failures \/ failures' = failures + 1)
    BY DEF Send
  <2> QED BY <1>1, <2>1 DEF NoLoss, Send
<1>13. AllOnWay'
  <2> SUFFICES ASSUME NEW v \in DOMAIN sent'
               PROVE  /\ seen'[v] <= Count(v, sent')
                      /\ \A j \in 1 .. Count(v, sent') : seen'[v] < j =>
                           \A f : f = Frame(v, j, sent') => OnWay(f)'
    BY DEF AllOnWay
  <2>1. CASE v = u
    BY <1>5, <1>9, <1>11, <2>1
  <2>2. CASE v # u
    <3>1. v \in DOMAIN sent
      BY <1>2, <2>2
    <3> QED BY <1>1, <1>5, <1>9, <1>10, <3>1 DEF AllOnWay
  <2> QED BY <2>1, <2>2
<1>14. ASSUME NEW o \in Node PROVE SentInTurn(o)' /\ ArrivedInTurn(o)'
  <2> DEFINE out == SentBy(o)
             got == DeliveredFrom(o)
             Late(s) == s \in Seq(Nat) /\ Len(got) <= Len(s)
  <2>1. /\ out \in Seq(Nat)
        /\ \A i, j \in DOMAIN out : i < j => out[i] < out[j]
        /\ \A i \in DOMAIN out : out[i] \in DOMAIN sent /\ sent[out[i]].from = o
        /\ \A v \in DOMAIN sent : sent[v].from = o => \E i \in DOMAIN out : out[i] = v
    BY <1>1 DEF SentInTurn
  <2>2. /\ got \in Seq(Nat) /\ Len(got) <= Len(out)
        /\ \A i \in DOMAIN got : got[i] = out[i]
        /\ \A i \in DOMAIN out : seen[out[i]] = Count(out[i], sent) <=> i <= Len(got)
    BY <1>1 DEF ArrivedInTurn
  <2>3. SentBy(o)' = IF o = n THEN Append(out, u) ELSE out
    BY <1>7
  <2>4. DeliveredFrom(o)' = got
    BY <1>8
  <2> HIDE DEF out, got
  <2>5. CASE o # n
    <3>1. \A i \in DOMAIN out : /\ out[i] \in DOMAIN sent'
                                /\ sent'[out[i]].from = o
                                /\ seen'[out[i]] = seen[out[i]]
                                /\ Count(out[i], sent') = Count(out[i], sent)
      BY <1>2, <1>5, <1>10, <2>1
    <3>2. ASSUME NEW v \in DOMAIN sent', sent'[v].from = o PROVE \E i \in DOMAIN out : out[i] = v
      <4>1. v \in DOMAIN sent /\ sent[v].from = o
        BY <1>2, <1>3, <2>5, <3>2
      <4> QED BY <2>1, <4>1
    <3>3. SentInTurn(o)'
      BY <2>1, <2>3, <2>5, <3>1, <3>2 DEF SentInTurn
    <3>4. ArrivedInTurn(o)'
      BY <2>2, <2>3, <2>4, <2>5, <3>1 DEF ArrivedInTurn
    <3> QED BY <3>3, <3>4
  <2>6. CASE o = n
    <3> DEFINE more == Append(out, u)
               L == Len(out)
    <3>1. /\ more \in Seq(Nat) /\ L \in Nat /\ Len(more) = L + 1 /\ DOMAIN more = 1 .. L + 1
          /\ DOMAIN out = 1 .. L /\ more[L + 1] = u
          /\ \A i \in 1 .. L : more[i] = out[i]
      BY <1>2, <2>1
    <3> HIDE DEF more, L
    <3>2. SentBy(o)' = more
      BY <2>3, <2>6 DEF more
    <3>3. \A i \in DOMAIN more : i \in DOMAIN out \/ i = L + 1
      BY <3>1
    <3>4. \A i, j \in DOMAIN more : i < j => more[i] < more[j]
      <4> SUFFICES ASSUME NEW i \in DOMAIN more, NEW j \in DOMAIN more, i < j
                   PROVE  more[i] < more[j]
        OBVIOUS
      <4>1. i \in DOMAIN out
        BY <3>1
      <4>2. CASE j \in DOMAIN out
        BY <2>1, <3>1, <4>1, <4>2
      <4>3. CASE j = L + 1
        BY <1>2, <2>1, <3>1, <4>1, <4>3
      <4> QED BY <3>3, <4>2, <4>3
    <3>5. \A i \in DOMAIN more : more[i] \in DOMAIN sent' /\ sent'[more[i]].from = o
      <4>1. u \in DOMAIN sent' /\ sent'[u].from = o
        BY <1>2, <1>3, <2>6
      <4>2. \A i \in DOMAIN out : out[i] \in DOMAIN sent' /\ sent'[out[i]].from = o
        BY <1>2, <2>1
      <4> QED BY <3>1, <3>3, <4>1, <4>2
    <3>6. ASSUME NEW v \in DOMAIN sent', sent'[v].from = o PROVE \E i \in DOMAIN more : more[i] = v
      <4>1. CASE v = u
        <5>1. L + 1 \in DOMAIN more
          BY <3>1
        <5> QED BY <3>1, <4>1, <5>1
      <4>2. CASE v # u
        <5>1. v \in DOMAIN sent /\ sent[v].from = o
          BY <1>2, <3>6, <4>2
        <5>2. PICK i \in DOMAIN out : out[i] = v
          BY <2>1, <5>1
        <5>3. i \in DOMAIN more /\ more[i] = v
          BY <3>1, <5>2
        <5> QED BY <5>3
      <4> QED BY <4>1, <4>2
    <3>7. SentInTurn(o)'
      BY <3>1, <3>2, <3>4, <3>5, <3>6 DEF SentInTurn
    <3>8. ASSUME NEW i \in DOMAIN more PROVE seen'[more[i]] = Count(more[i], sent') <=> i <= Len(got)
      <4>1. CASE i = L + 1
        <5>1. seen'[u] # Count(u, sent')
          BY <1>2, <1>5, <1>11
        <5>2. Len(got) <= L /\ Len(got) \in Nat
          BY <2>2 DEF L
        <5> QED BY <3>1, <4>1, <5>1, <5>2
      <4>2. CASE i \in DOMAIN out
        <5>1. out[i] \in DOMAIN sent /\ more[i] = out[i]
          BY <2>1, <3>1, <4>2
        <5>2. seen'[out[i]] = seen[out[i]] /\ Count(out[i], sent') = Count(out[i], sent)
          BY <1>5, <1>10, <5>1
        <5> QED BY <2>2, <4>2, <5>1, <5>2
      <4> QED BY <3>3, <4>1, <4>2
    <3>9. ArrivedInTurn(o)'
      <4>1. Len(got) <= Len(more) /\ \A i \in DOMAIN got : i \in DOMAIN out /\ got[i] = more[i]
        <5>1. Len(got) \in Nat /\ DOMAIN got = 1 .. Len(got) /\ Len(got) <= L
          BY <2>2 DEF L
        <5> QED BY <2>2, <3>1, <5>1
      <4> QED BY <2>2, <2>4, <3>2, <3>8, <4>1 DEF ArrivedInTurn
    <3> QED BY <3>7, <3>9
  <2> QED BY <2>5, <2>6
<1>15. Link!Send(n, u)
  <2>1. [o \in Node |-> SentBy(o)]' = [[o \in Node |-> SentBy(o)] EXCEPT ![n] = Append(@, u)]
    BY <1>7
  <2>2. [o \in Node |-> DeliveredFrom(o)]' = [o \in Node |-> DeliveredFrom(o)]
    BY <1>8
  <2> QED BY <2>1, <2>2 DEF Link!Send
<1>16. LinkStep
  BY <1>6, <1>15 DEF LinkStep
<1> QED BY <1>12, <1>13, <1>14, <1>16 DEF Lossless
(* Reading is delivering, if the frame is the last of its message. *)
LEMMA ReassembleLinks ==
  ASSUME ReadInv, ReadInv', Lossless, Reassemble
  PROVE  Lossless' /\ LinkStep
<1>1. BeginInv /\ SourceInv /\ SeenTypes /\ NoLoss /\ AllOnWay /\ up /\ sent \in Seq(AMessage)
      /\ \A o \in Node : SentInTurn(o) /\ ArrivedInTurn(o)
  BY DEF ReadInv, BeginInv, SourceInv, Types, Lossless, NoLoss
<1>2. PICK f, k :
        /\ Reads(f) /\ IsFrame(f, k, sent) /\ up' = up
        /\ IF k < Count(f.part.of, sent) THEN delivered' = delivered
           ELSE \E d \in ADelivery : /\ delivered' = Append(delivered, d)
                                     /\ Delivers(d, f.part.of)
  BY <1>1, TurnInOrder
<1> DEFINE u == f.part.of
<1>0. PICK n, N : n = sent[u].from /\ N = Count(u, sent)
  OBVIOUS
<1>3. /\ u \in DOMAIN sent /\ f.source = n /\ k \in 1 .. N
  BY <1>0, <1>2, FrameFields
<1>4. /\ seen[u] = k - 1
      /\ \A v \in DOMAIN sent : v < u /\ sent[v].from = f.source => seen[v] = Count(v, sent)
  BY <1>1, <1>2, ReadsNext
<1>5. /\ seen'[u] = seen[u] + 1 /\ \A v \in DOMAIN sent : v # u => seen'[v] = seen[v]
      /\ DOMAIN seen = DOMAIN sent
  BY <1>2, ReadsSeen
<1>6. sent' = sent /\ UNCHANGED <<canPort, failures, toggles>>
  BY <1>2 DEF Reads
<1>7. N \in Nat \ {0} /\ k \in Nat /\ k <= N /\ n \in Node /\ u \in Nat
  <2>1. N \in Nat \ {0} /\ u \in Nat
    BY <1>0, <1>1, <1>3, Lengths
  <2>2. sent[u] \in AMessage
    BY <1>1, <1>3
  <2>3. sent[u].from \in Node
    BY <2>2 DEF AMessage
  <2>4. k \in Nat /\ k <= N
    BY <1>3, <2>1
  <2> QED BY <1>0, <2>1, <2>3, <2>4
<1>8. seen'[u] = k
  BY <1>4, <1>5, <1>7
<1>9. NoLoss'
  BY <1>1, <1>2, <1>6 DEF NoLoss
<1> HIDE DEF u
<1>10. AllOnWay'
  <2> SUFFICES ASSUME NEW v \in DOMAIN sent
               PROVE  /\ seen'[v] <= Count(v, sent)
                      /\ \A j \in 1 .. Count(v, sent) :
                           seen'[v] < j => \A g : g = Frame(v, j, sent) => OnWay(g)'
    BY <1>6 DEF AllOnWay
  <2>1. seen'[v] <= Count(v, sent)
    <3>1. CASE v = u
      BY <1>7, <1>8, <3>1, <1>0
    <3>2. CASE v # u
      BY <1>1, <1>5, <3>2 DEF AllOnWay
    <3> QED BY <3>1, <3>2
  <2>2. ASSUME NEW j \in 1 .. Count(v, sent), seen'[v] < j, NEW g, g = Frame(v, j, sent)
        PROVE  OnWay(g)'
    <3>1. g.part.of = v /\ IsFrame(g, j, sent)
      BY <2>2, NewFrame
    <3>2. seen[v] < j
      <4>1. CASE v = u
        <5>1. k < j /\ j \in Nat
          BY <1>8, <2>2, <4>1
        <5> QED BY <1>4, <1>7, <4>1, <5>1 DEF u
      <4>2. CASE v # u
        BY <1>5, <2>2, <4>2
      <4> QED BY <4>1, <4>2
    <3>3. OnWay(g)
      BY <1>1, <2>2, <3>2 DEF AllOnWay
    <3>4. g # f
      <4>1. ASSUME g = f PROVE FALSE
        <5>1. v = u
          BY <3>1, <4>1 DEF u
        <5>2. j = k
          BY <1>1, <1>2, <3>1, <4>1, OneNumber
        <5> QED BY <1>7, <1>8, <2>2, <5>1, <5>2
      <4> QED BY <4>1
    <3> QED BY <1>1, <1>2, <3>3, <3>4, ReadsOne
  <2> QED BY <2>1, <2>2
<1>11. \A o : SentBy(o)' = SentBy(o)
  BY <1>6 DEF SentBy
<1>12. \A o \in Node : SentInTurn(o)'
  BY <1>1, <1>6, <1>11 DEF SentInTurn
<1>13. \A v : Count(v, sent') = Count(v, sent)
  BY <1>6
<1>14. CASE k < N
  <2>1. delivered' = delivered
    BY <1>2, <1>14, <1>0 DEF u
  <2>2. \A o : DeliveredFrom(o)' = DeliveredFrom(o)
    BY <1>1, <1>6, <2>1, DeliveredStays
  <2>3. \A v \in DOMAIN sent : seen'[v] = Count(v, sent) <=> seen[v] = Count(v, sent)
    <3>1. seen'[u] # Count(u, sent) /\ seen[u] # Count(u, sent)
      <4>1. seen[u] = k - 1
        BY <1>4 DEF u
      <4> QED BY <1>7, <1>8, <1>14, <4>1, <1>0
    <3> QED BY <1>5, <3>1
  <2>4. ASSUME NEW o \in Node PROVE ArrivedInTurn(o)'
    <3>1. \A i \in DOMAIN SentBy(o) : SentBy(o)[i] \in DOMAIN sent
      BY <1>1 DEF SentInTurn
    <3>2. ArrivedInTurn(o)
      BY <1>1
    <3> QED BY <1>6, <1>11, <2>2, <2>3, <3>1, <3>2 DEF ArrivedInTurn
  <2>5. LinkStep
    BY <1>11, <2>2, LinkStutters DEF LinkStays
  <2> QED BY <1>9, <1>10, <1>12, <2>4, <2>5 DEF Lossless
<1>15. CASE ~(k < N)
  <2>1. k = N /\ seen'[u] = N /\ seen[u] # N
    <3>1. seen[u] = k - 1
      BY <1>4 DEF u
    <3> QED BY <1>7, <1>8, <1>15, <3>1
  <2>2. PICK d \in ADelivery : delivered' = Append(delivered, d) /\ Delivers(d, u)
    BY <1>2, <1>15, <1>0 DEF u
  <2>3. d.from = n /\ d.id = sent[u].id /\ d.parts = PartsOf(u)
    BY <2>2, <1>0 DEF Delivers
  <2>4. d.parts[1].of = u
    <3>1. PartsOf(u) = [j \in 1 .. N |-> Part(u, j, sent)]
      BY PartsOfMessage, <1>0
    <3>2. 1 \in 1 .. N
      BY <1>7
    <3>3. d.parts[1] = Part(u, 1, sent)
      BY <2>3, <3>1, <3>2
    <3> QED BY <3>3 DEF Part
  <2>5. Whole(d) = u
    BY <2>3, <2>4 DEF Whole
  <2>6. /\ DeliveredFrom(n)' = Append(DeliveredFrom(n), u)
        /\ \A o : o # n => DeliveredFrom(o)' = DeliveredFrom(o)
    <3>1. d.parts[1].of \in DOMAIN sent
      BY <1>3, <2>4 DEF u
    <3>2. /\ DeliveredFrom(d.from)' = Append(DeliveredFrom(d.from), Whole(d))
          /\ \A o : o # d.from => DeliveredFrom(o)' = DeliveredFrom(o)
      BY <1>1, <1>6, <2>2, <3>1, DeliveredMore
    <3>3. \A e, w : e = n /\ w = u /\ d.from = e /\ Whole(d) = w =>
            DeliveredFrom(e)' = Append(DeliveredFrom(e), w)
      BY <3>2
    <3> QED BY <2>3, <2>5, <3>2, <3>3
  <2> DEFINE out == SentBy(n)
             got == DeliveredFrom(n)
  <2>7. /\ out \in Seq(Nat)
        /\ \A i, j \in DOMAIN out : i < j => out[i] < out[j]
        /\ \A i \in DOMAIN out : out[i] \in DOMAIN sent /\ sent[out[i]].from = n
        /\ \A v \in DOMAIN sent : sent[v].from = n => \E i \in DOMAIN out : out[i] = v
    BY <1>1, <1>7 DEF SentInTurn
  <2>8. /\ got \in Seq(Nat) /\ Len(got) <= Len(out)
        /\ \A i \in DOMAIN got : got[i] = out[i]
        /\ \A i \in DOMAIN out : seen[out[i]] = Count(out[i], sent) <=> i <= Len(got)
    BY <1>1, <1>7 DEF ArrivedInTurn
  <2> HIDE DEF out, got
  <2>9. PICK j \in DOMAIN out : out[j] = u
    <3>1. u \in DOMAIN sent /\ sent[u].from = n
      BY <1>3, <1>0 DEF u
    <3> QED BY <2>7, <3>1
  <2>10. DOMAIN out = 1 .. Len(out) /\ Len(out) \in Nat /\ Len(got) \in Nat
    BY <2>7, <2>8
  <2>11. ASSUME NEW i \in DOMAIN out, i < j PROVE i <= Len(got)
    <3>1. out[i] < u /\ out[i] \in DOMAIN sent /\ sent[out[i]].from = n
      BY <2>7, <2>9, <2>11
    <3>2. seen[out[i]] = Count(out[i], sent)
      BY <1>3, <1>4, <3>1, <1>0 DEF u
    <3> QED BY <2>8, <3>2
  <2>12. ~(j <= Len(got))
    BY <2>1, <2>8, <2>9, <1>0
  <2>13. j = Len(got) + 1
    <3>1. j \in Nat /\ 0 < j /\ j <= Len(out)
      BY <2>10
    <3>2. ASSUME Len(got) + 1 < j PROVE FALSE
      <4>1. Len(got) + 1 \in DOMAIN out
        BY <2>10, <3>1, <3>2
      <4> QED BY <2>10, <2>11, <3>2, <4>1
    <3> QED BY <2>10, <2>12, <3>1, <3>2
  <2> DEFINE more == Append(got, u)
  <2>14. /\ more \in Seq(Nat) /\ Len(more) = Len(got) + 1 /\ DOMAIN more = 1 .. Len(got) + 1
         /\ more[Len(got) + 1] = u
         /\ \A i \in 1 .. Len(got) : more[i] = got[i]
    BY <1>7, <2>8
  <2> HIDE DEF more
  <2>15. \A i, l \in DOMAIN out : out[i] = out[l] => i = l
    <3> SUFFICES ASSUME NEW i \in DOMAIN out, NEW l \in DOMAIN out, out[i] = out[l], i # l
                 PROVE  FALSE
      OBVIOUS
    <3>1. out[i] \in Nat /\ out[l] \in Nat /\ i \in Nat /\ l \in Nat
      BY <2>7, <2>10
    <3>2. i < l \/ l < i
      BY <3>1
    <3>3. out[i] < out[l] \/ out[l] < out[i]
      BY <2>7, <3>2
    <3> QED BY <3>1, <3>3
  <2>16. ArrivedInTurn(n)'
    <3>1. Len(more) <= Len(out) /\ \A i \in DOMAIN more : more[i] = out[i]
      <4>1. j <= Len(out)
        BY <2>10
      <4>2. \A i \in DOMAIN more : i \in 1 .. Len(got) \/ i = j
        BY <2>10, <2>13, <2>14
      <4>3. DOMAIN got = 1 .. Len(got)
        BY <2>8
      <4> QED BY <2>8, <2>9, <2>13, <2>14, <4>1, <4>2, <4>3
    <3>2. ASSUME NEW i \in DOMAIN out
          PROVE  seen'[out[i]] = Count(out[i], sent) <=> i <= Len(more)
      <4>1. CASE i = j
        BY <2>1, <2>9, <2>13, <2>14, <4>1, <2>10, <1>0
      <4>2. CASE i # j
        <5>1. out[i] # u /\ out[i] \in DOMAIN sent
          BY <2>7, <2>9, <2>15, <4>2
        <5>2. seen'[out[i]] = seen[out[i]]
          BY <1>5, <5>1 DEF u
        <5>3. i <= Len(more) <=> i <= Len(got)
          BY <2>10, <2>13, <2>14, <4>2
        <5> QED BY <2>8, <5>2, <5>3
      <4> QED BY <4>1, <4>2
    <3>3. SentBy(n)' = out /\ DeliveredFrom(n)' = more
      BY <1>11, <2>6 DEF out, got, more
    <3> QED BY <1>6, <2>14, <3>1, <3>2, <3>3 DEF ArrivedInTurn
  <2>17. ASSUME NEW o \in Node, o # n PROVE ArrivedInTurn(o)'
    <3>1. \A i \in DOMAIN SentBy(o) : SentBy(o)[i] \in DOMAIN sent /\ sent[SentBy(o)[i]].from = o
      BY <1>1 DEF SentInTurn
    <3>2. \A i \in DOMAIN SentBy(o) : seen'[SentBy(o)[i]] = seen[SentBy(o)[i]]
      <4>1. \A i \in DOMAIN SentBy(o) : SentBy(o)[i] # u
        BY <2>17, <3>1, <1>0
      <4> QED BY <1>5, <3>1, <4>1 DEF u
    <3>3. ArrivedInTurn(o)
      BY <1>1
    <3> QED BY <1>6, <1>11, <2>6, <2>17, <3>2, <3>3 DEF ArrivedInTurn
  <2>18. Link!Deliver(n)
    <3> DEFINE A == [o \in Node |-> DeliveredFrom(o)]
               S == [o \in Node |-> SentBy(o)]
    <3>1. A[n] = got /\ S[n] = out
      BY <1>7 DEF got, out
    <3>2. S' = S
      BY <1>11
    <3>3. A' = [A EXCEPT ![n] = Append(@, S[n][Len(@) + 1])]
      <4>1. S[n][Len(A[n]) + 1] = u
        BY <2>9, <2>13, <3>1
      <4>2. \A o \in Node : DeliveredFrom(o)' = IF o = n THEN Append(A[n], u) ELSE A[o]
        BY <2>6, <3>1 DEF got
      <4> QED BY <1>7, <4>1, <4>2
    <3>4. Len(A[n]) < Len(S[n])
      <4>1. j <= Len(out)
        BY <2>10
      <4> QED BY <2>10, <2>13, <3>1, <4>1
    <3> QED BY <3>2, <3>3, <3>4 DEF Link!Deliver
  <2>19. LinkStep
    BY <1>7, <2>18 DEF LinkStep
  <2> QED BY <1>9, <1>10, <1>12, <2>16, <2>17, <2>19 DEF Lossless
<1> QED BY <1>14, <1>15

(* Nothing on its way is lost, and the link takes no step of its own. *)
LEMMA CarryLinks ==
  ASSUME ReadInv, Lossless, \A f : OnWay(f) => OnWay(f)',
         UNCHANGED <<sent, seen, delivered, up, failures, toggles, canPort>>
  PROVE  Lossless' /\ LinkStep
<1>1. NoLoss' /\ AllOnWay'
  BY DEF Lossless, NoLoss, AllOnWay
<1>2. BeginInv
  BY DEF ReadInv
<1>3. \A o : SentBy(o)' = SentBy(o)
  BY DEF SentBy
<1>4. \A o : DeliveredFrom(o)' = DeliveredFrom(o)
  BY <1>2, DeliveredStays
<1>5. \A o \in Node : SentInTurn(o)' /\ ArrivedInTurn(o)'
  BY <1>3, <1>4 DEF Lossless, SentInTurn, ArrivedInTurn
<1>6. LinkStep
  BY <1>3, <1>4, LinkStutters DEF LinkStays
<1> QED BY <1>1, <1>5, <1>6 DEF Lossless

(***************************************************************************)
(* When no send fails and nobody closes the port, every step of the nodes, *)
(* the bus and the receiver is a step of NodeLink or none of its own: the  *)
(* messages of each node arrive whole, once and in the order in which it   *)
(* sent them, for every number of nodes and every set of ids and lengths   *)
(* (CanPlugin.py:205-267).  That they do arrive is checked by TLC.         *)
(***************************************************************************)
THEOREM LinkCorrect ==
  ASSUME MaxFailures = 0, MaxToggles = 0
  PROVE  Spec => LinkSafety
<1>1. Init => Lossless /\ Link!Init
  <2> SUFFICES ASSUME Init PROVE Lossless /\ Link!Init
    OBVIOUS
  <2>1. /\ sent = <<>> /\ delivered = <<>> /\ seen = <<>> /\ failures = 0 /\ toggles = 0
        /\ canPort = TRUE /\ up = TRUE
    BY DEF Init
  <2>2. \A o : SentBy(o) = <<>> /\ DeliveredFrom(o) = <<>>
    <3>1. [u \in DOMAIN sent |-> u] = <<>>
      BY <2>1
    <3>2. [j \in DOMAIN delivered |-> Whole(delivered[j])] = <<>>
      BY <2>1
    <3> QED BY <3>1, <3>2, ChosenNone DEF SentBy, DeliveredFrom
  <2>3. NoLoss /\ AllOnWay
    BY <2>1 DEF NoLoss, AllOnWay
  <2>4. \A o \in Node : SentInTurn(o) /\ ArrivedInTurn(o)
    <3>1. <<>> \in Seq(Nat) /\ Len(<<>>) = 0 /\ DOMAIN <<>> = {}
      OBVIOUS
    <3>2. DOMAIN sent = {}
      BY <2>1
    <3>3. \A o : SentInTurn(o)
      BY <2>2, <3>1, <3>2 DEF SentInTurn
    <3>4. ASSUME NEW o PROVE ArrivedInTurn(o)
      <4> DEFINE out == SentBy(o)
                 got == DeliveredFrom(o)
      <4>1. out = <<>> /\ got = <<>>
        BY <2>2
      <4> HIDE DEF out, got
      <4>2. DOMAIN out = {} /\ DOMAIN got = {}
        BY <4>1
      <4>3. got \in Seq(Nat) /\ Len(got) <= Len(out)
        BY <4>1
      <4> QED BY <4>2, <4>3 DEF ArrivedInTurn, out, got
    <3> QED BY <3>3, <3>4
  <2>5. Link!Init
    BY <2>2 DEF Link!Init
  <2> QED BY <2>3, <2>4, <2>5 DEF Lossless
<1>2. ReadInv /\ ReadInv' /\ Lossless /\ [Next]_vars => Lossless' /\ LinkStep
  <2> SUFFICES ASSUME ReadInv, ReadInv', Lossless, [Next]_vars PROVE Lossless' /\ LinkStep
    OBVIOUS
  <2>0. SourceInv /\ canPort /\ toggles = 0
    BY DEF ReadInv, BeginInv, Lossless, NoLoss
  <2>1. CASE UNCHANGED vars
    <3>1. \A f : OnWay(f) => OnWay(f)'
      BY <2>1 DEF vars, OnWay
    <3> QED BY <2>1, <3>1, CarryLinks DEF vars
  <2>2. CASE \E n \in Node, id \in Id, length \in Length :
               \E k \in 0 .. packet_count(length) : Send(n, id, length, k)
    <3>1. PICK n \in Node, id \in Id, length \in Length :
            \E k \in 0 .. packet_count(length) : Send(n, id, length, k)
      BY <2>2
    <3>2. PICK k \in 0 .. packet_count(length) : Send(n, id, length, k)
      BY <3>1
    <3> QED BY <3>2, SendLinks
  <2>3. CASE \E n \in Node : Arbitrate(n)
    <3>1. PICK n \in Node : Arbitrate(n)
      BY <2>3
    <3>2. \A f : OnWay(f) => OnWay(f)'
      BY <2>0, <3>1, ArbitrateCarries
    <3>3. UNCHANGED <<sent, seen, delivered, up, failures, toggles, canPort>>
      BY <3>1 DEF Arbitrate
    <3> QED BY <3>2, <3>3, CarryLinks
  <2>4. CASE OpenCloseSwitch
    BY <2>0, <2>4 DEF OpenCloseSwitch
  <2>5. CASE Reassemble
    BY <2>5, ReassembleLinks
  <2> QED BY <2>1, <2>2, <2>3, <2>4, <2>5 DEF Next
<1>3. LinkStep => [Link!Next]_(Link!vars)
  BY DEF LinkStep, Link!Next
<1> QED BY <1>1, <1>2, <1>3, ReadKept, PTL DEF Spec, LinkSafety
=============================================================================
