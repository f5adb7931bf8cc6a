--------------------------- MODULE SerialLinkProofs ---------------------------
(***************************************************************************)
(* Proofs about SerialLink, for every size of the header, every set of     *)
(* lengths, and any number of messages, losses and events: what is emitted *)
(* is whole and in order, a message with nothing lost in it or shortly     *)
(* before it is emitted, and the port stays closed for the user.           *)
(***************************************************************************)
EXTENDS SerialLink, SequenceTheorems, TLAPS

InBuffer(p) == \E i \in DOMAIN buffer : buffer[i] = p

IsDelivered(k) == \E i \in DOMAIN delivered : delivered[i] = k

(* Nothing is lost of message k, nor of MaxLength bytes before it.          *)
Intact(k) == \A p \in lost : p + MaxLength <= Begin(k) \/ written[k] < p

(* The messages follow each other, and no more has come than was written.   *)
Laid ==
    /\ \A k \in DOMAIN written : DataLength(k) \in Lengths /\ written[k] <= End
    /\ \A j, k \in DOMAIN written : j < k => written[j] <= Begin(k)
    /\ came <= End

(* The buffer holds what came and was not lost, in order and without gaps:  *)
(* where nothing is lost between two bytes they lie as far apart as they    *)
(* were written.                                                            *)
Queued ==
    /\ \A i \in DOMAIN buffer : buffer[i] \in 1 .. came /\ buffer[i] \notin lost
    /\ \A i, j \in DOMAIN buffer : i < j => buffer[i] < buffer[j]
    /\ \A i \in DOMAIN buffer : \A p \in buffer[i] .. came : p \notin lost => InBuffer(p)
    /\ \A i, j \in DOMAIN buffer :
          (i <= j /\ \A p \in buffer[i] .. buffer[j] : p \notin lost)
             => buffer[j] - buffer[i] = j - i

(* The header that is read is one of a message; what came after it and was  *)
(* not lost is in the buffer; a slot does not end between a header and no   *)
(* body.                                                                    *)
HeaderRead ==
    tmpRxHdr # NoHeader =>
      /\ tmpRxHdr \in DOMAIN written
      /\ \A p \in Begin(tmpRxHdr) + 1 .. Begin(tmpRxHdr) + HdrSize : p <= came /\ p \notin lost
      /\ \A i \in DOMAIN buffer : Begin(tmpRxHdr) + HdrSize < buffer[i]
      /\ \A p \in Begin(tmpRxHdr) + HdrSize + 1 .. came : p \notin lost => InBuffer(p)
      /\ DataLength(tmpRxHdr) = 0 => slot = "running"

(* What is emitted is whole, behind the buffer, and before what is read.    *)
Emitted ==
    /\ \A i \in DOMAIN delivered :
          /\ delivered[i] \in DOMAIN written
          /\ written[delivered[i]] <= came
          /\ \A p \in Begin(delivered[i]) + 1 .. written[delivered[i]] : p \notin lost
          /\ \A j \in DOMAIN buffer : written[delivered[i]] < buffer[j]
          /\ tmpRxHdr # NoHeader => delivered[i] < tmpRxHdr
    /\ \A i, j \in DOMAIN delivered : i < j => delivered[i] < delivered[j]

(* Of an intact message that is not emitted, what came is in the buffer,    *)
(* but for the header when that is read.                                    *)
Waits(k) ==
    (Intact(k) /\ ~IsDelivered(k)) =>
       \A p \in Begin(k) + 1 .. written[k] :
          (p <= came /\ (tmpRxHdr = k => Begin(k) + HdrSize < p)) => InBuffer(p)

Waiting == \A k \in DOMAIN written : Waits(k)

(* The timer runs only beside a closed port, and never for one the user     *)
(* closed.                                                                  *)
PortInv == /\ reopening => ~portOpen
           /\ ~asked => ~portOpen /\ ~reopening

Stream == TypeOK /\ Laid /\ Queued /\ HeaderRead /\ Emitted /\ Waiting
-----------------------------------------------------------------------------
(* The numbers the state is made of. *)
LEMMA Numbers ==
    ASSUME TypeOK
    PROVE  /\ HdrSize \in Nat /\ HdrSize > 0 /\ MaxLength \in Nat /\ came \in Nat
           /\ \A length \in Lengths : length \in Nat /\ length <= MaxLength
           /\ Len(written) \in Nat /\ DOMAIN written = 1 .. Len(written)
           /\ Len(buffer) \in Nat /\ DOMAIN buffer = 1 .. Len(buffer)
           /\ Len(delivered) \in Nat /\ DOMAIN delivered = 1 .. Len(delivered)
           /\ \A k \in DOMAIN written : /\ k \in Nat /\ written[k] \in Nat
                                        /\ Begin(k) \in Nat
           /\ \A i \in DOMAIN buffer : i \in Nat /\ buffer[i] \in Nat
           /\ \A i \in DOMAIN delivered : i \in Nat /\ delivered[i] \in Nat
           /\ \A p \in lost : p \in Nat /\ 1 <= p /\ p <= came
           /\ End \in Nat
  BY SerialAssumption DEF TypeOK, Begin, End

(* Where a message lies beside its own parts and those after it. *)
LEMMA Spacing ==
    ASSUME TypeOK, Laid
    PROVE  /\ \A k \in DOMAIN written :
                /\ DataLength(k) \in Nat /\ DataLength(k) <= MaxLength
                /\ written[k] = Begin(k) + HdrSize + DataLength(k)
                /\ written[k] <= End
           /\ \A j, k \in DOMAIN written : j < k => written[j] <= Begin(k)
           /\ \A j, k \in DOMAIN written : Begin(j) = Begin(k) => j = k
<1>1. \A k \in DOMAIN written :
        /\ DataLength(k) \in Nat /\ DataLength(k) <= MaxLength
        /\ written[k] = Begin(k) + HdrSize + DataLength(k)
        /\ written[k] <= End
  <2>1. TAKE k \in DOMAIN written
  <2>2. DataLength(k) \in Nat /\ DataLength(k) <= MaxLength
    BY Numbers DEF Laid
  <2> QED
    BY <2>2, Numbers DEF Laid, DataLength
<1>2. ASSUME NEW j \in DOMAIN written, NEW k \in DOMAIN written, j < k
      PROVE  Begin(j) < Begin(k) /\ written[j] <= Begin(k)
  <2>1. written[j] <= Begin(k)
    BY <1>2 DEF Laid
  <2>2. Begin(j) \in Nat /\ Begin(k) \in Nat /\ HdrSize \in Nat /\ HdrSize > 0
    BY Numbers
  <2>3. DataLength(j) \in Nat /\ written[j] = Begin(j) + HdrSize + DataLength(j)
    BY <1>1
  <2> QED
    BY <2>1, <2>2, <2>3
<1>3. ASSUME NEW j \in DOMAIN written, NEW k \in DOMAIN written, Begin(j) = Begin(k)
      PROVE  j = k
  <2>1. ~(j < k) /\ ~(k < j)
    BY <1>2, <1>3, Numbers
  <2> QED
    BY <2>1, Numbers
<1> QED
  BY <1>1, <1>2, <1>3

(* What is left of the buffer when its first n bytes are read. *)
LEMMA Taken ==
    ASSUME TypeOK, NEW n \in Nat, n <= Len(buffer), buffer' = Rest(n)
    PROVE  /\ buffer' \in Seq(Nat)
           /\ DOMAIN buffer' = 1 .. Len(buffer) - n
           /\ \A i \in DOMAIN buffer' : /\ i \in Nat /\ i + n \in DOMAIN buffer
                                        /\ buffer'[i] = buffer[i + n]
           /\ \A i \in DOMAIN buffer : n < i => /\ i - n \in DOMAIN buffer'
                                                /\ buffer'[i - n] = buffer[i]
<1>1. buffer \in Seq(Nat) /\ Len(buffer) \in Nat /\ DOMAIN buffer = 1 .. Len(buffer)
  BY Numbers DEF TypeOK
<1>2. buffer' = SubSeq(buffer, n + 1, Len(buffer))
  BY DEF Rest
<1>3. /\ buffer' \in Seq(Nat)
      /\ Len(buffer') = Len(buffer) - n
      /\ \A i \in 1 .. Len(buffer) - n : buffer'[i] = buffer[n + i]
  <2>1. PICK len \in Nat : len = Len(buffer)
    BY <1>1
  <2>2. n + 1 \in Int /\ len \in Int /\ n <= len /\ \A i \in n + 1 .. len : buffer[i] \in Nat
    BY <1>1, <2>1, Numbers
  <2>3. /\ SubSeq(buffer, n + 1, len) \in Seq(Nat)
        /\ Len(SubSeq(buffer, n + 1, len)) = IF n + 1 <= len THEN len - (n + 1) + 1 ELSE 0
        /\ \A i \in 1 .. len - (n + 1) + 1 : SubSeq(buffer, n + 1, len)[i] = buffer[n + 1 + i - 1]
    BY <2>2, SubSeqProperties
  <2>4. len - (n + 1) + 1 = len - n /\ (~(n + 1 <= len) => len - n = 0)
        /\ \A i \in 1 .. len - n : n + 1 + i - 1 = n + i
    BY <2>2, <2>1
  <2> QED
    BY <1>2, <2>1, <2>3, <2>4
<1> QED
  BY <1>1, <1>3

LEMMA TakenQueued ==
    ASSUME TypeOK, Queued, NEW n \in Nat, n <= Len(buffer), buffer' = Rest(n),
           came' = came, lost' = lost
    PROVE  Queued'
<1>1. ASSUME NEW i \in DOMAIN buffer'
      PROVE  buffer'[i] \in 1 .. came' /\ buffer'[i] \notin lost'
  BY Taken DEF Queued
<1>2. ASSUME NEW i \in DOMAIN buffer', NEW j \in DOMAIN buffer', i < j
      PROVE  buffer'[i] < buffer'[j]
  BY <1>2, Taken DEF Queued
<1>3. ASSUME NEW i \in DOMAIN buffer', NEW p \in buffer'[i] .. came', p \notin lost'
      PROVE  InBuffer(p)'
  <2>1. /\ i + n \in DOMAIN buffer /\ buffer'[i] = buffer[i + n] /\ i \in Nat /\ 0 < i
    BY Taken, Numbers
  <2>2. PICK m \in DOMAIN buffer : buffer[m] = p
    BY <1>3, <2>1 DEF Queued, InBuffer
  <2>3. ~(m < i + n)
    BY <2>1, <2>2, Numbers DEF Queued
  <2>4. n < m
    BY <2>1, <2>3, Numbers
  <2> QED
    BY <2>2, <2>4, Taken DEF InBuffer
<1>4. ASSUME NEW i \in DOMAIN buffer', NEW j \in DOMAIN buffer', i <= j,
             \A p \in buffer'[i] .. buffer'[j] : p \notin lost'
      PROVE  buffer'[j] - buffer'[i] = j - i
  <2>1. /\ i + n \in DOMAIN buffer /\ buffer'[i] = buffer[i + n] /\ i \in Nat
        /\ j + n \in DOMAIN buffer /\ buffer'[j] = buffer[j + n] /\ j \in Nat
    BY Taken
  <2>2. i + n <= j + n /\ \A p \in buffer[i + n] .. buffer[j + n] : p \notin lost
    BY <1>4, <2>1
  <2>3. buffer[j + n] - buffer[i + n] = (j + n) - (i + n)
    BY <2>1, <2>2 DEF Queued
  <2> QED
    BY <2>1, <2>3
<1> QED
  BY <1>1, <1>2, <1>3, <1>4 DEF Queued

(* Where nothing is lost, the bytes of the buffer are consecutive. *)
LEMMA Run ==
    ASSUME TypeOK, Queued, NEW i \in DOMAIN buffer, NEW j \in DOMAIN buffer, i <= j,
           \A p \in buffer[i] .. buffer[i] + (j - i) : p \notin lost
    PROVE  buffer[j] = buffer[i] + (j - i)
<1>1. /\ i \in Nat /\ j \in Nat /\ buffer[i] \in Nat /\ buffer[j] \in Nat
      /\ buffer[i] <= came /\ buffer[j] <= came /\ came \in Nat
  BY Numbers DEF Queued
<1> DEFINE q == buffer[i] + (j - i)
<1>2. CASE buffer[j] <= q
  <2>1. \A p \in buffer[i] .. buffer[j] : p \notin lost
    BY <1>1, <1>2
  <2>2. buffer[j] - buffer[i] = j - i
    BY <2>1 DEF Queued
  <2> QED
    BY <1>1, <2>2
<1>3. CASE q < buffer[j]
  <2>1. q \in buffer[i] .. came /\ q \notin lost
    BY <1>1, <1>3
  <2>2. PICK m \in DOMAIN buffer : buffer[m] = q
    BY <2>1 DEF Queued, InBuffer
  <2>3. m \in Nat /\ i <= m
    <3>1. ~(m < i)
      BY <1>1, <2>1, <2>2 DEF Queued
    <3> QED
      BY <3>1, <1>1, Numbers
  <2>4. buffer[m] - buffer[i] = m - i
    BY <2>2, <2>3 DEF Queued
  <2> QED
    BY <1>1, <2>2, <2>3, <2>4
<1> QED
  BY <1>1, <1>2, <1>3

(* The header of an intact message is found where its first byte is read. *)
LEMMA HeaderFound ==
    ASSUME TypeOK, Laid, Queued, NEW k \in DOMAIN written, Intact(k),
           HdrSize <= Len(buffer), buffer[1] = Begin(k) + 1
    PROVE  Bytes(Peek, k, 0)
<1>1. /\ HdrSize \in Nat /\ HdrSize > 0 /\ Begin(k) \in Nat /\ written[k] \in Nat
      /\ MaxLength \in Nat /\ Begin(k) + HdrSize <= written[k]
      /\ DOMAIN buffer = 1 .. Len(buffer) /\ Len(buffer) \in Nat
  BY Numbers, Spacing
<1>2. ASSUME NEW i \in 1 .. HdrSize
      PROVE  buffer[i] = Begin(k) + 0 + i
  <2>1. 1 \in DOMAIN buffer /\ i \in DOMAIN buffer /\ 1 <= i
    BY <1>1
  <2>2. \A p \in buffer[1] .. buffer[1] + (i - 1) : p \notin lost
    BY <1>1 DEF Intact
  <2>3. buffer[i] = buffer[1] + (i - 1)
    BY <2>1, <2>2, Run
  <2> QED
    BY <2>3, <1>1
<1>3. Len(Peek) = HdrSize /\ \A i \in 1 .. HdrSize : Peek[i] = buffer[i]
  BY <1>1 DEF Peek, TypeOK
<1>4. DOMAIN Peek = 1 .. HdrSize
  BY <1>1, <1>3 DEF Peek, TypeOK
<1> QED
  BY <1>2, <1>3, <1>4 DEF Bytes

(* The body of an intact message follows its header. *)
LEMMA BodyFound ==
    ASSUME TypeOK, Laid, Queued, HeaderRead, tmpRxHdr # NoHeader, Intact(tmpRxHdr),
           DataLength(tmpRxHdr) <= Len(buffer)
    PROVE  Bytes(SubSeq(buffer, 1, DataLength(tmpRxHdr)), tmpRxHdr, HdrSize)
<1> DEFINE k == tmpRxHdr
           n == DataLength(tmpRxHdr)
           b == Begin(k) + HdrSize
<1>0. k \in DOMAIN written
  BY DEF HeaderRead
<1>1. /\ HdrSize \in Nat /\ HdrSize > 0 /\ Begin(k) \in Nat /\ written[k] \in Nat
      /\ MaxLength \in Nat /\ n \in Nat /\ written[k] = b + n /\ b \in Nat
      /\ DOMAIN buffer = 1 .. Len(buffer) /\ Len(buffer) \in Nat
  BY <1>0, Numbers, Spacing
<1>2. /\ \A i \in DOMAIN buffer : b < buffer[i]
      /\ \A p \in b + 1 .. came : p \notin lost => InBuffer(p)
  BY DEF HeaderRead
<1>3. \A p \in b + 1 .. b + n : p \notin lost
  BY <1>1 DEF Intact
<1> HIDE DEF n, b
<1>4. ASSUME NEW i \in 1 .. n
      PROVE  buffer[i] = b + i
  <2>1. 1 \in DOMAIN buffer /\ i \in DOMAIN buffer /\ 1 <= i /\ i <= n /\ i \in Nat
    BY <1>1 DEF n
  <2>2. buffer[1] \in Nat /\ buffer[1] <= came /\ came \in Nat
    BY <2>1, Numbers DEF Queued
  <2>3. PICK m \in DOMAIN buffer : buffer[m] = b + 1
    <3>1. b + 1 \in b + 1 .. came /\ b + 1 \notin lost
      BY <1>1, <1>2, <1>3, <2>1, <2>2
    <3> QED
      BY <3>1, <1>2 DEF InBuffer
  <2>4. m = 1
    <3>1. m \in Nat /\ 1 <= m
      BY <1>1
    <3>2. ~(1 < m)
      BY <1>1, <1>2, <2>1, <2>2, <2>3 DEF Queued
    <3> QED
      BY <3>1, <3>2
  <2>5. \A p \in buffer[1] .. buffer[1] + (i - 1) : p \notin lost
    BY <1>1, <1>3, <2>1, <2>3, <2>4
  <2>6. buffer[i] = buffer[1] + (i - 1)
    BY <2>1, <2>5, Run
  <2> QED
    BY <1>1, <2>1, <2>3, <2>4, <2>6
<1>5. PICK s : s = SubSeq(buffer, 1, n)
  OBVIOUS
<1>6. DOMAIN s = 1 .. n /\ \A i \in 1 .. n : s[i] = buffer[i]
  BY <1>1, <1>5 DEF TypeOK, n
<1>7. \A i \in DOMAIN s : s[i] = Begin(k) + HdrSize + i
  BY <1>4, <1>6 DEF b
<1> QED
  BY <1>5, <1>7 DEF Bytes, n

(* A body that is read for another message's header does not reach an       *)
(* intact message.                                                          *)
LEMMA NotReached ==
    ASSUME TypeOK, Laid, Queued, HeaderRead, tmpRxHdr # NoHeader,
           NEW k \in DOMAIN written, k # tmpRxHdr, Intact(k),
           NEW m \in DOMAIN buffer, Begin(k) < buffer[m], buffer[m] <= written[k]
    PROVE  DataLength(tmpRxHdr) < m
<1> DEFINE j == tmpRxHdr
           n == DataLength(tmpRxHdr)
           b == Begin(tmpRxHdr) + HdrSize
<1>0. j \in DOMAIN written
  BY DEF HeaderRead
<1>1. /\ HdrSize \in Nat /\ HdrSize > 0 /\ MaxLength \in Nat
      /\ n \in Nat /\ n <= MaxLength /\ written[j] = b + n /\ b \in Nat
      /\ Begin(j) \in Nat /\ j \in Nat /\ k \in Nat
      /\ Begin(k) \in Nat /\ written[k] \in Nat
      /\ DOMAIN buffer = 1 .. Len(buffer) /\ Len(buffer) \in Nat
      /\ m \in Nat /\ 1 <= m /\ buffer[m] \in Nat /\ buffer[m] <= came /\ came \in Nat
  <2>1. /\ n \in Nat /\ n <= MaxLength
        /\ written[j] = Begin(j) + HdrSize + n
    BY <1>0, Spacing
  <2>2. /\ HdrSize \in Nat /\ HdrSize > 0 /\ MaxLength \in Nat
        /\ Begin(j) \in Nat /\ j \in Nat /\ k \in Nat
        /\ Begin(k) \in Nat /\ written[k] \in Nat
        /\ DOMAIN buffer = 1 .. Len(buffer) /\ Len(buffer) \in Nat
        /\ m \in Nat /\ buffer[m] \in Nat /\ came \in Nat
    BY <1>0, Numbers
  <2>3. 1 <= m /\ buffer[m] <= came
    BY <2>2 DEF Queued
  <2> QED
    BY <2>1, <2>2, <2>3
<1>2. /\ \A i \in DOMAIN buffer : b < buffer[i]
      /\ \A p \in b + 1 .. came : p \notin lost => InBuffer(p)
  BY DEF HeaderRead
<1>3. b + n <= Begin(k)
  <2>1. ~(k < j)
    <3>1. ASSUME k < j
          PROVE  FALSE
      <4>1. written[k] <= Begin(j)
        BY <3>1, <1>0 DEF Laid
      <4> QED
        BY <4>1, <1>1, <1>2
    <3> QED
      BY <3>1
  <2>2. j < k
    BY <2>1, <1>1
  <2> QED
    BY <2>2, <1>0, <1>1 DEF Laid
<1> HIDE DEF n, b
<1>4. ASSUME NEW q \in Nat, b < q, q <= buffer[m], Begin(k) < q + MaxLength
      PROVE  \E a \in Nat : 1 <= a /\ m = a + (buffer[m] - q)
  <2>1. \A p \in q .. buffer[m] : p \notin lost
    BY <1>1, <1>4 DEF Intact
  <2>2. q \in b + 1 .. came /\ q \notin lost
    BY <2>1, <1>1, <1>4
  <2>3. PICK a \in DOMAIN buffer : buffer[a] = q
    BY <2>2, <1>2 DEF InBuffer
  <2>4. a \in Nat /\ 1 <= a /\ a <= m
    <3>1. ~(m < a)
      BY <1>1, <1>4, <2>3 DEF Queued
    <3> QED
      BY <3>1, <1>1
  <2>5. buffer[m] - buffer[a] = m - a
    BY <2>1, <2>3, <2>4 DEF Queued
  <2> QED
    BY <2>3, <2>4, <2>5, <1>1
<1>7. b < buffer[m]
  BY <1>2
<1>8. n < m
  <2>1. CASE Begin(k) <= b + MaxLength
    <3>1. b + 1 \in Nat /\ b < b + 1 /\ b + 1 <= buffer[m] /\ Begin(k) < (b + 1) + MaxLength
      BY <1>1, <1>7, <2>1
    <3>2. PICK a \in Nat : 1 <= a /\ m = a + (buffer[m] - (b + 1))
      BY <1>4, <3>1
    <3> QED
      BY <3>2, <1>1, <1>3
  <2>2. CASE b + MaxLength < Begin(k)
    <3>1. PICK q \in Nat : q = Begin(k) + 1 - MaxLength
      BY <1>1, <2>2
    <3>2. b < q /\ q <= buffer[m] /\ Begin(k) < q + MaxLength
      BY <1>1, <2>2, <3>1
    <3>3. PICK a \in Nat : 1 <= a /\ m = a + (buffer[m] - q)
      BY <1>4, <3>2
    <3>4. buffer[m] - q \in Nat /\ MaxLength <= buffer[m] - q
      BY <3>1, <1>1
    <3> QED
      BY <3>3, <3>4, <1>1
  <2> QED
    BY <2>1, <2>2, <1>1
<1> QED
  BY <1>8 DEF n
-----------------------------------------------------------------------------
(* What leaves the bytes and messages alone leaves them as they were; a     *)
(* slot may end when it does not wait for an empty body.                    *)
LEMMA QuietStep ==
    ASSUME Stream, TypeOK',
           UNCHANGED <<written, came, lost, buffer, tmpRxHdr, delivered>>,
           \/ slot' = slot \/ slot' = "running"
           \/ tmpRxHdr # NoHeader => DataLength(tmpRxHdr) # 0
    PROVE  Stream'
<1>1. Laid' /\ Queued'
  BY DEF Stream, Laid, Queued, InBuffer, DataLength, Begin, End
<1>2. HeaderRead'
  BY DEF Stream, HeaderRead, InBuffer, DataLength, Begin
<1>3. Emitted'
  BY DEF Stream, Emitted, Begin
<1>4. Waiting'
  BY DEF Stream, Waiting, Waits, Intact, IsDelivered, InBuffer, Begin
<1> QED
  BY <1>1, <1>2, <1>3, <1>4 DEF Stream

(* The port closes, and what it held is lost. *)
LEMMA CloseStep ==
    ASSUME Stream, CloseSerialPort, TypeOK',
           UNCHANGED <<written, came, slot, tmpRxHdr, delivered>>
    PROVE  Stream'
<1>1. /\ buffer' = <<>> /\ DOMAIN buffer' = {}
      /\ \A p : p \in lost' <=> p \in lost \/ InBuffer(p)
  BY DEF CloseSerialPort, InBuffer
<1>2. Laid'
  BY DEF Stream, Laid, DataLength, Begin, End
<1>3. Queued'
  BY <1>1 DEF Queued
<1>4. HeaderRead'
  <2>1. ASSUME tmpRxHdr # NoHeader
        PROVE  /\ tmpRxHdr \in DOMAIN written /\ Begin(tmpRxHdr)' = Begin(tmpRxHdr)
               /\ DataLength(tmpRxHdr)' = DataLength(tmpRxHdr)
               /\ Begin(tmpRxHdr) \in Nat /\ HdrSize \in Nat /\ came \in Nat
    BY <2>1, Numbers DEF Stream, HeaderRead, DataLength, Begin
  <2>2. ASSUME tmpRxHdr # NoHeader,
               NEW p \in Begin(tmpRxHdr) + 1 .. Begin(tmpRxHdr) + HdrSize
        PROVE  p <= came /\ p \notin lost'
    <3>1. ~InBuffer(p)
      BY <2>1, <2>2, Numbers DEF Stream, HeaderRead, InBuffer
    <3> QED
      BY <1>1, <2>2, <3>1 DEF Stream, HeaderRead
  <2>3. ASSUME tmpRxHdr # NoHeader,
               NEW p \in Begin(tmpRxHdr) + HdrSize + 1 .. came, p \notin lost'
        PROVE  FALSE
    BY <1>1, <2>3 DEF Stream, HeaderRead
  <2>4. tmpRxHdr # NoHeader /\ DataLength(tmpRxHdr) = 0 => slot = "running"
    BY DEF Stream, HeaderRead
  <2> QED
    BY <1>1, <2>1, <2>2, <2>3, <2>4 DEF HeaderRead
<1>5. Emitted'
  <2>1. ASSUME NEW i \in DOMAIN delivered,
               NEW p \in Begin(delivered[i]) + 1 .. written[delivered[i]]
        PROVE  p \notin lost'
    <3>1. delivered[i] \in DOMAIN written
      BY DEF Stream, Emitted
    <3>2. ~InBuffer(p)
      BY <3>1, <2>1, Numbers DEF Stream, Emitted, InBuffer
    <3> QED
      BY <1>1, <2>1, <3>2 DEF Stream, Emitted
  <2> QED
    BY <1>1, <2>1 DEF Stream, Emitted, Begin
<1>6. ASSUME NEW k \in DOMAIN written
      PROVE  Waits(k)'
  <2>1. SUFFICES ASSUME Intact(k)', ~IsDelivered(k)',
                        NEW p \in Begin(k) + 1 .. written[k], p <= came,
                        tmpRxHdr = k => Begin(k) + HdrSize < p
                 PROVE  FALSE
    BY DEF Waits, Begin
  <2>2. Intact(k)
    BY <1>1, <2>1 DEF Intact, Begin
  <2>3. InBuffer(p)
    BY <2>1, <2>2 DEF Stream, Waiting, Waits, IsDelivered
  <2>4. p + MaxLength <= Begin(k) \/ written[k] < p
    BY <1>1, <2>1, <2>3 DEF Intact, Begin
  <2> QED
    BY <2>1, <2>4, Numbers DEF Stream
<1>7. Waiting'
  BY <1>6 DEF Waiting
<1> QED
  BY <1>2, <1>3, <1>4, <1>5, <1>7 DEF Stream

(* The next byte is lost. *)
LEMMA LostStep ==
    ASSUME Stream, TypeOK', came < End, came' = came + 1,
           lost' = lost \cup {came + 1},
           UNCHANGED <<written, slot, buffer, tmpRxHdr, delivered>>
    PROVE  Stream'
<1>0. /\ came \in Nat /\ End \in Nat
      /\ \A k \in DOMAIN written : k \in Nat /\ written[k] \in Nat /\ Begin(k) \in Nat
      /\ \A i \in DOMAIN buffer : buffer[i] \in Nat /\ buffer[i] <= came
      /\ HdrSize \in Nat /\ MaxLength \in Nat
  BY Numbers DEF Stream, Queued
<1>1. Laid'
  BY <1>0 DEF Stream, Laid, DataLength, Begin, End
<1>2. Queued'
  <2>1. \A i \in DOMAIN buffer : buffer[i] \in 1 .. came' /\ buffer[i] \notin lost'
    BY <1>0 DEF Stream, Queued
  <2>2. \A i \in DOMAIN buffer : \A p \in buffer[i] .. came' : p \notin lost' => InBuffer(p)'
    BY <1>0 DEF Stream, Queued, InBuffer
  <2>3. ASSUME NEW i \in DOMAIN buffer, NEW j \in DOMAIN buffer, i <= j,
               \A p \in buffer[i] .. buffer[j] : p \notin lost'
        PROVE  buffer[j] - buffer[i] = j - i
    BY <2>3 DEF Stream, Queued
  <2> QED
    BY <2>1, <2>2, <2>3 DEF Stream, Queued
<1>3. HeaderRead'
  <2>1. SUFFICES ASSUME tmpRxHdr # NoHeader
                 PROVE  HeaderRead'
    BY DEF HeaderRead
  <2>2. /\ tmpRxHdr \in DOMAIN written /\ Begin(tmpRxHdr)' = Begin(tmpRxHdr)
        /\ DataLength(tmpRxHdr)' = DataLength(tmpRxHdr)
        /\ Begin(tmpRxHdr) \in Nat
    BY <1>0, <2>1 DEF Stream, HeaderRead, DataLength, Begin
  <2>3. \A p \in Begin(tmpRxHdr) + 1 .. Begin(tmpRxHdr) + HdrSize : p <= came' /\ p \notin lost'
    BY <1>0, <2>1, <2>2 DEF Stream, HeaderRead
  <2>4. \A p \in Begin(tmpRxHdr) + HdrSize + 1 .. came' : p \notin lost' => InBuffer(p)'
    BY <1>0, <2>1, <2>2 DEF Stream, HeaderRead, InBuffer
  <2> QED
    BY <2>1, <2>2, <2>3, <2>4 DEF Stream, HeaderRead
<1>4. Emitted'
  <2>1. ASSUME NEW i \in DOMAIN delivered
        PROVE  /\ delivered[i] \in DOMAIN written
               /\ written[delivered[i]] <= came'
               /\ \A p \in Begin(delivered[i]) + 1 .. written[delivered[i]] : p \notin lost'
    <3>1. delivered[i] \in DOMAIN written /\ written[delivered[i]] <= came
      BY DEF Stream, Emitted
    <3> QED
      BY <1>0, <3>1 DEF Stream, Emitted
  <2> QED
    BY <2>1 DEF Stream, Emitted, Begin
<1>5. ASSUME NEW k \in DOMAIN written
      PROVE  Waits(k)'
  <2>1. SUFFICES ASSUME Intact(k)', ~IsDelivered(k)',
                        NEW p \in Begin(k) + 1 .. written[k], p <= came',
                        tmpRxHdr = k => Begin(k) + HdrSize < p
                 PROVE  InBuffer(p)'
    BY DEF Waits, Begin
  <2>2. Intact(k)
    BY <2>1 DEF Intact, Begin
  <2>3. came + 1 + MaxLength <= Begin(k) \/ written[k] < came + 1
    BY <2>1 DEF Intact, Begin
  <2>4. p <= came
    BY <1>0, <2>1, <2>3
  <2> QED
    BY <2>1, <2>2, <2>4 DEF Stream, Waiting, Waits, IsDelivered, InBuffer
<1>6. Waiting'
  BY <1>5 DEF Waiting
<1> QED
  BY <1>1, <1>2, <1>3, <1>4, <1>6 DEF Stream

(* The next byte comes into the buffer. *)
LEMMA KeptStep ==
    ASSUME Stream, TypeOK', came < End, came' = came + 1,
           buffer' = Append(buffer, came + 1),
           slot # "running", slot' = "pending",
           UNCHANGED <<written, lost, tmpRxHdr, delivered>>
    PROVE  Stream'
<1>9. PICK n \in Nat, next \in Nat : n = Len(buffer) /\ next = came + 1
  <2>1. Len(buffer) \in Nat /\ came + 1 \in Nat
    BY Numbers DEF Stream
  <2> QED
    BY <2>1
<1>0. /\ came \in Nat /\ End \in Nat /\ n \in Nat /\ DOMAIN buffer = 1 .. n
      /\ \A k \in DOMAIN written : k \in Nat /\ written[k] \in Nat /\ Begin(k) \in Nat
      /\ \A i \in DOMAIN buffer : buffer[i] \in Nat /\ 1 <= buffer[i] /\ buffer[i] <= came
      /\ HdrSize \in Nat /\ 0 < HdrSize /\ MaxLength \in Nat
      /\ came + 1 \notin lost
  BY <1>9, Numbers DEF Stream, Queued
<1>1. /\ DOMAIN buffer' = 1 .. n + 1 /\ buffer'[n + 1] = next
      /\ \A i \in DOMAIN buffer : i \in DOMAIN buffer' /\ buffer'[i] = buffer[i]
      /\ \A i \in DOMAIN buffer' : i = n + 1 \/ i \in DOMAIN buffer
  <2>1. buffer \in Seq(Nat) /\ buffer' = Append(buffer, next)
    BY <1>9 DEF Stream, TypeOK
  <2>2. /\ Len(buffer') = n + 1 /\ buffer'[n + 1] = next
        /\ \A i \in 1 .. n : buffer'[i] = buffer[i]
    BY <2>1, <1>9, AppendProperties
  <2>3. DOMAIN buffer' = 1 .. n + 1
    BY <2>1, <2>2, <1>9
  <2> QED
    BY <2>2, <2>3, <1>0, <1>9
<1>2. /\ \A p : InBuffer(p) => InBuffer(p)'
      /\ InBuffer(next)'
  BY <1>1, <1>9 DEF InBuffer
<1>3. Laid'
  BY <1>0, <1>9 DEF Stream, Laid, DataLength, Begin, End
<1>4. Queued'
  <2>1. \A i \in DOMAIN buffer' : buffer'[i] \in 1 .. came' /\ buffer'[i] \notin lost'
    BY <1>0, <1>9, <1>1 DEF Stream, Queued
  <2>2. \A i, j \in DOMAIN buffer' : i < j => buffer'[i] < buffer'[j]
    <3>1. TAKE i, j \in DOMAIN buffer'
    <3>2. HAVE i < j
    <3>3. i \in DOMAIN buffer /\ buffer'[i] = buffer[i]
      BY <1>0, <1>9, <1>1, <3>2
    <3>4. CASE j = n + 1
      BY <1>0, <1>9, <1>1, <3>3, <3>4
    <3>5. CASE j \in DOMAIN buffer
      BY <1>1, <3>2, <3>3, <3>5 DEF Stream, Queued
    <3> QED
      BY <1>1, <3>4, <3>5
  <2>3. ASSUME NEW i \in DOMAIN buffer', NEW p \in buffer'[i] .. came', p \notin lost'
        PROVE  InBuffer(p)'
    <3>1. CASE p = next
      BY <1>2, <3>1
    <3>2. CASE p # next
      <4>1. i \in DOMAIN buffer /\ p \in buffer[i] .. came
        BY <1>0, <1>9, <1>1, <2>3, <3>2
      <4> QED
        BY <4>1, <2>3, <1>2 DEF Stream, Queued
    <3> QED
      BY <3>1, <3>2
  <2>4. ASSUME NEW i \in DOMAIN buffer', NEW j \in DOMAIN buffer', i <= j,
               \A p \in buffer'[i] .. buffer'[j] : p \notin lost'
        PROVE  buffer'[j] - buffer'[i] = j - i
    <3>1. CASE j \in DOMAIN buffer
      <4>1. i \in DOMAIN buffer
        BY <1>0, <1>9, <1>1, <2>4, <3>1
      <4> QED
        BY <4>1, <3>1, <1>1, <2>4 DEF Stream, Queued
    <3>2. CASE j = n + 1 /\ i = n + 1
      BY <1>0, <1>9, <1>1, <3>2
    <3>3. CASE j = n + 1 /\ i \in DOMAIN buffer
      <4>1. \A p \in buffer[i] .. came + 1 : p \notin lost
        BY <1>1, <2>4, <3>3
      <4>2. came \in buffer[i] .. came /\ came \notin lost
        BY <4>1, <1>0, <1>9, <3>3
      <4>3. PICK m \in DOMAIN buffer : buffer[m] = came
        BY <4>2, <3>3 DEF Stream, Queued, InBuffer
      <4>4. n \in DOMAIN buffer /\ m \in Nat /\ m <= n /\ i <= n
        BY <1>0, <1>9, <3>3, <4>3
      <4>5. ~(m < n)
        <5>1. m < n => buffer[m] < buffer[n]
          BY <4>3, <4>4 DEF Stream, Queued
        <5>2. buffer[n] \in Nat /\ buffer[n] <= came
          BY <4>4, <1>0
        <5> QED
          BY <5>1, <5>2, <4>3, <1>0
      <4>6. buffer[n] = came
        BY <4>3, <4>4, <4>5, <1>0, <1>9
      <4>7. buffer[n] - buffer[i] = n - i
        BY <4>1, <4>4, <4>6, <3>3, <1>0, <1>9 DEF Stream, Queued
      <4> QED
        BY <4>6, <4>7, <3>3, <1>0, <1>9, <1>1
    <3> QED
      BY <3>1, <3>2, <3>3, <1>1
  <2> QED
    BY <2>1, <2>2, <2>3, <2>4 DEF Queued
<1>5. HeaderRead'
  <2>1. SUFFICES ASSUME tmpRxHdr # NoHeader
                 PROVE  HeaderRead'
    BY DEF HeaderRead
  <2>2. /\ tmpRxHdr \in DOMAIN written /\ Begin(tmpRxHdr)' = Begin(tmpRxHdr)
        /\ DataLength(tmpRxHdr)' = DataLength(tmpRxHdr)
        /\ Begin(tmpRxHdr) \in Nat
    BY <1>0, <1>9, <2>1 DEF Stream, HeaderRead, DataLength, Begin
  <2>3. \A p \in Begin(tmpRxHdr) + 1 .. Begin(tmpRxHdr) + HdrSize :
           p <= came /\ p <= came' /\ p \notin lost'
    BY <1>0, <1>9, <2>1, <2>2 DEF Stream, HeaderRead
  <2>4. Begin(tmpRxHdr) + HdrSize <= came
    <3>1. PICK q \in Nat : q = Begin(tmpRxHdr) + HdrSize
      BY <1>0, <2>2
    <3>2. q \in Begin(tmpRxHdr) + 1 .. Begin(tmpRxHdr) + HdrSize
      BY <1>0, <2>2, <3>1
    <3> QED
      BY <2>3, <3>1, <3>2
  <2>5. \A i \in DOMAIN buffer' : Begin(tmpRxHdr) + HdrSize < buffer'[i]
    BY <1>0, <1>9, <1>1, <2>1, <2>2, <2>4 DEF Stream, HeaderRead
  <2>6. ASSUME NEW p \in Begin(tmpRxHdr) + HdrSize + 1 .. came', p \notin lost'
        PROVE  InBuffer(p)'
    <3>1. CASE p = next
      BY <1>2, <3>1
    <3>2. CASE p # next
      BY <1>0, <1>9, <1>2, <2>1, <2>2, <2>6, <3>2 DEF Stream, HeaderRead
    <3> QED
      BY <3>1, <3>2
  <2>7. DataLength(tmpRxHdr) # 0
    BY <2>1 DEF Stream, HeaderRead
  <2> QED
    BY <2>1, <2>2, <2>3, <2>5, <2>6, <2>7 DEF HeaderRead
<1>6. Emitted'
  <2>1. ASSUME NEW i \in DOMAIN delivered
        PROVE  /\ delivered[i] \in DOMAIN written
               /\ written[delivered[i]] <= came'
               /\ \A j \in DOMAIN buffer' : written[delivered[i]] < buffer'[j]
    <3>1. delivered[i] \in DOMAIN written /\ written[delivered[i]] <= came
      BY DEF Stream, Emitted
    <3> QED
      BY <1>0, <1>9, <1>1, <3>1 DEF Stream, Emitted
  <2> QED
    BY <2>1 DEF Stream, Emitted, Begin
<1>7. ASSUME NEW k \in DOMAIN written
      PROVE  Waits(k)'
  <2>1. SUFFICES ASSUME Intact(k), ~IsDelivered(k),
                        NEW p \in Begin(k) + 1 .. written[k], p <= came',
                        tmpRxHdr = k => Begin(k) + HdrSize < p
                 PROVE  InBuffer(p)'
    BY DEF Waits, Begin, Intact, IsDelivered
  <2>2. CASE p = next
    BY <1>2, <2>2
  <2>3. CASE p # next
    BY <1>0, <1>9, <1>2, <2>1, <2>3 DEF Stream, Waiting, Waits
  <2> QED
    BY <2>2, <2>3
<1>8. Waiting'
  BY <1>7 DEF Waiting
<1> QED
  BY <1>3, <1>4, <1>5, <1>6, <1>8 DEF Stream

(* A message is written at the end, of which nothing has come. *)
LEMMA WriteStep ==
    ASSUME Stream, NEW length \in Lengths, Write(length)
    PROVE  Stream'
<1>15. PICK l \in Nat, new \in Nat : l = Len(written) /\ new = End + HdrSize + length
  <2>1. Len(written) \in Nat /\ End \in Nat /\ HdrSize \in Nat /\ length \in Nat
    BY Numbers DEF Stream
  <2>2. End + HdrSize + length \in Nat
    BY <2>1
  <2> QED
    BY <2>1, <2>2
<1>0. /\ came \in Nat /\ End \in Nat /\ l \in Nat /\ DOMAIN written = 1 .. l
      /\ \A k \in DOMAIN written : k \in Nat /\ written[k] \in Nat /\ Begin(k) \in Nat
      /\ HdrSize \in Nat /\ 0 < HdrSize /\ length \in Nat /\ came <= End
      /\ \A k \in DOMAIN written : written[k] <= End
  BY <1>15, Numbers DEF Stream, Laid
<1>1. new \in Nat /\ written' = Append(written, new)
  BY <1>15 DEF Write
<1>2. /\ DOMAIN written' = 1 .. l + 1 /\ written'[l + 1] = new /\ Len(written') = l + 1
      /\ \A k \in DOMAIN written : k \in DOMAIN written' /\ written'[k] = written[k]
      /\ \A k \in DOMAIN written' : k = l + 1 \/ k \in DOMAIN written
      /\ written' \in Seq(Nat)
  <2>1. written \in Seq(Nat)
    BY DEF Stream, TypeOK
  <2>2. /\ Len(written') = l + 1 /\ written'[l + 1] = new /\ written' \in Seq(Nat)
        /\ \A k \in 1 .. l : written'[k] = written[k]
    BY <2>1, <1>1, <1>15, AppendProperties
  <2>3. DOMAIN written' = 1 .. l + 1
    BY <2>2
  <2> QED
    BY <2>2, <2>3, <1>0
<1>3. /\ \A k \in DOMAIN written : Begin(k)' = Begin(k)
      /\ Begin(l + 1)' = End
  <2>1. ASSUME NEW k \in 1 .. l + 1
        PROVE  Begin(k)' = Begin(k)
    <3>1. k = 1 \/ k - 1 \in DOMAIN written
      BY <1>0, <2>1
    <3> QED
      BY <3>1, <1>2 DEF Begin
  <2>2. Begin(l + 1) = End
    BY <1>15 DEF End
  <2> QED
    BY <2>1, <2>2, <1>0
<1>4. End' = new
  BY <1>0, <1>2 DEF Begin, End
<1>5. \A k \in DOMAIN written : DataLength(k)' = DataLength(k)
  BY <1>2, <1>3 DEF DataLength
<1>6. DataLength(l + 1)' = length
  BY <1>0, <1>2, <1>3, <1>15 DEF DataLength
<1>7. End <= new
  BY <1>0, <1>15
<1>8. TypeOK'
  BY <1>2 DEF Stream, TypeOK, Write, port
<1>9. Laid'
  <2>1. \A k \in DOMAIN written' : DataLength(k)' \in Lengths /\ written'[k] <= End'
    BY <1>0, <1>1, <1>2, <1>4, <1>5, <1>6, <1>7 DEF Stream, Laid
  <2>2. ASSUME NEW j \in DOMAIN written', NEW k \in DOMAIN written', j < k
        PROVE  written'[j] <= Begin(k)'
    <3>1. j \in DOMAIN written
      BY <1>0, <1>2, <2>2
    <3>2. CASE k = l + 1
      BY <3>1, <3>2, <1>0, <1>2, <1>3
    <3>3. CASE k \in DOMAIN written
      BY <3>1, <3>3, <2>2, <1>2, <1>3 DEF Stream, Laid
    <3> QED
      BY <3>2, <3>3, <1>2
  <2>3. came' <= End'
    BY <1>0, <1>1, <1>4, <1>7 DEF Write
  <2> QED
    BY <2>1, <2>2, <2>3 DEF Laid
<1>10. Queued'
  BY DEF Stream, Queued, InBuffer, Write
<1>11. HeaderRead'
  <2>1. SUFFICES ASSUME tmpRxHdr # NoHeader
                 PROVE  HeaderRead'
    BY DEF HeaderRead, Write
  <2>2. tmpRxHdr \in DOMAIN written
    BY <2>1 DEF Stream, HeaderRead
  <2> QED
    BY <1>2, <1>3, <1>5, <2>1, <2>2 DEF Stream, HeaderRead, InBuffer, Write
<1>12. Emitted'
  BY <1>2, <1>3 DEF Stream, Emitted, Write
<1>13. ASSUME NEW k \in DOMAIN written'
       PROVE  Waits(k)'
  <2>1. CASE k = l + 1
    <3>1. \A p \in Begin(k)' + 1 .. written'[k] : ~(p <= came')
      BY <1>0, <1>1, <1>2, <1>3, <2>1 DEF Write
    <3> QED
      BY <3>1 DEF Waits
  <2>2. CASE k \in DOMAIN written
    BY <1>2, <1>3, <2>2 DEF Stream, Waiting, Waits, Intact, IsDelivered, InBuffer, Write
  <2> QED
    BY <1>2, <2>1, <2>2
<1>14. Waiting'
  BY <1>13 DEF Waiting
<1> QED
  BY <1>8, <1>9, <1>10, <1>11, <1>12, <1>14 DEF Stream

(* What is read from the buffer are its first bytes. *)
LEMMA ReadAreFirst ==
    ASSUME TypeOK, NEW n \in Nat, n <= Len(buffer), buffer' = Rest(n),
           NEW p, InBuffer(p), ~InBuffer(p)'
    PROVE  \E m \in DOMAIN buffer : m <= n /\ buffer[m] = p
<1>1. PICK m \in DOMAIN buffer : buffer[m] = p
  BY DEF InBuffer
<1>2. ~(n < m)
  BY <1>1, Taken DEF InBuffer
<1> QED
  BY <1>1, <1>2, Numbers

(* The byte thrown away is none of an intact message that is not emitted:   *)
(* its header would be the one that is peeked.                              *)
LEMMA ThrowAwayStep ==
    ASSUME Stream, ThrowAway
    PROVE  Stream'
<1>0. /\ 1 \in Nat /\ 1 <= Len(buffer) /\ buffer' = Rest(1)
      /\ tmpRxHdr = NoHeader /\ HdrSize <= Len(buffer)
  BY Numbers DEF Stream, ThrowAway, Searching
<1>1. TypeOK'
  BY <1>0, Taken DEF Stream, TypeOK, ThrowAway, port
<1>2. Laid'
  BY DEF Stream, Laid, DataLength, Begin, End, ThrowAway
<1>3. Queued'
  BY <1>0, TakenQueued DEF Stream, ThrowAway
<1>4. HeaderRead'
  BY <1>0 DEF HeaderRead, ThrowAway
<1>5. Emitted'
  BY <1>0, Taken DEF Stream, Emitted, Begin, ThrowAway
<1>6. ASSUME NEW k \in DOMAIN written
      PROVE  Waits(k)'
  <2>0. /\ HdrSize \in Nat /\ HdrSize > 0 /\ Begin(k) \in Nat /\ k \in Nat /\ 1 <= k
        /\ written[k] \in Nat /\ Begin(k) + HdrSize <= written[k] /\ came \in Nat
        /\ DOMAIN buffer = 1 .. Len(buffer) /\ Len(buffer) \in Nat
        /\ \A i \in DOMAIN buffer : buffer[i] \in Nat
    BY Numbers, Spacing DEF Stream
  <2>1. SUFFICES ASSUME Intact(k), ~IsDelivered(k),
                        NEW p \in Begin(k) + 1 .. written[k], p <= came, ~InBuffer(p)'
                 PROVE  FALSE
    BY DEF Waits, Begin, Intact, IsDelivered, ThrowAway
  <2>2. \A q \in Begin(k) + 1 .. written[k] : q <= came => InBuffer(q)
    BY <1>0, <2>0, <2>1 DEF Stream, Waiting, Waits, NoHeader
  <2>3. buffer[1] = p
    <3>1. PICK m \in DOMAIN buffer : m <= 1 /\ buffer[m] = p
      BY <1>0, <2>1, <2>2, ReadAreFirst DEF Stream
    <3> QED
      BY <3>1, <2>0
  <2>4. PICK a \in DOMAIN buffer : buffer[a] = Begin(k) + 1
    <3>1. /\ Begin(k) + 1 \in Begin(k) + 1 .. written[k]
          /\ Begin(k) + 1 <= came
      BY <2>0, <2>1
    <3> QED
      BY <2>2, <3>1 DEF InBuffer
  <2>5. a = 1
    <3>1. 1 \in DOMAIN buffer
      BY <1>0, <2>0
    <3>2. 1 < a => buffer[1] < buffer[a]
      BY <3>1 DEF Stream, Queued
    <3> QED
      BY <2>0, <2>1, <2>3, <2>4, <3>2
  <2>6. Bytes(Peek, k, 0)
    BY <1>0, <2>1, <2>4, <2>5, HeaderFound DEF Stream
  <2> QED
    BY <2>6 DEF ThrowAway, HeaderValid
<1>7. Waiting'
  BY <1>6 DEF Waiting, ThrowAway
<1> QED
  BY <1>1, <1>2, <1>3, <1>4, <1>5, <1>7 DEF Stream

(* A header is read: it is that of a message after all that is emitted, and *)
(* its bytes are of no other message.                                       *)
LEMMA ReadHeaderStep ==
    ASSUME Stream, ReadHeader
    PROVE  Stream'
<1>0. PICK j \in DOMAIN written : Bytes(Peek, j, 0) /\ tmpRxHdr' = j
  BY DEF ReadHeader
<1>1. /\ HdrSize \in Nat /\ HdrSize > 0 /\ HdrSize <= Len(buffer) /\ buffer' = Rest(HdrSize)
      /\ tmpRxHdr = NoHeader /\ slot = "running" /\ came \in Nat
      /\ DOMAIN buffer = 1 .. Len(buffer) /\ Len(buffer) \in Nat
      /\ \A i \in DOMAIN buffer : buffer[i] \in Nat /\ buffer[i] <= came
      /\ \A k \in DOMAIN written : /\ k \in Nat /\ 1 <= k /\ written[k] \in Nat
                                   /\ Begin(k) \in Nat
                                   /\ Begin(k) + HdrSize <= written[k]
      /\ \A i, k \in DOMAIN written : i < k => written[i] <= Begin(k)
  <2>1. /\ HdrSize <= Len(buffer) /\ buffer' = Rest(HdrSize)
        /\ tmpRxHdr = NoHeader /\ slot = "running"
    BY DEF ReadHeader, Searching
  <2>2. \A i \in DOMAIN buffer : buffer[i] <= came
    BY Numbers DEF Stream, Queued
  <2>3. ASSUME NEW k \in DOMAIN written
        PROVE  /\ k \in Nat /\ 1 <= k /\ written[k] \in Nat
               /\ Begin(k) \in Nat
               /\ Begin(k) + HdrSize <= written[k]
    <3>1. /\ DataLength(k) \in Nat
          /\ written[k] = Begin(k) + HdrSize + DataLength(k)
      BY Spacing DEF Stream
    <3>2. /\ Begin(k) \in Nat /\ HdrSize \in Nat /\ written[k] \in Nat
          /\ k \in 1 .. Len(written) /\ Len(written) \in Nat
      BY Numbers DEF Stream
    <3> QED
      BY <3>1, <3>2
  <2>4. \A i, k \in DOMAIN written : i < k => written[i] <= Begin(k)
    BY Spacing DEF Stream
  <2> QED
    BY <2>1, <2>2, <2>3, <2>4, Numbers DEF Stream
<1>2. ASSUME NEW i \in 1 .. HdrSize
      PROVE  i \in DOMAIN buffer /\ buffer[i] = Begin(j) + i
  <2>1. DOMAIN Peek = 1 .. HdrSize /\ Peek[i] = buffer[i]
    BY <1>1 DEF Peek, Stream, TypeOK
  <2>2. Peek[i] = Begin(j) + 0 + i
    BY <1>0, <2>1 DEF Bytes
  <2> QED
    BY <1>0, <1>1, <2>1, <2>2
<1>3. PICK b \in Nat : b = Begin(j) + HdrSize
  BY <1>0, <1>1
<1>4. HdrSize \in DOMAIN buffer /\ buffer[HdrSize] = b
  BY <1>1, <1>2, <1>3
<1>5. \A i \in DOMAIN buffer' : b < buffer'[i]
  <2>1. TAKE i \in DOMAIN buffer'
  <2>2. /\ i + HdrSize \in DOMAIN buffer /\ buffer'[i] = buffer[i + HdrSize]
        /\ i \in Nat /\ 0 < i
    <3>1. DOMAIN buffer' = 1 .. Len(buffer) - HdrSize
      BY <1>1, Taken DEF Stream
    <3> QED
      BY <3>1, <1>1, Taken DEF Stream
  <2>3. HdrSize < i + HdrSize
    BY <1>1, <2>2
  <2> QED
    BY <1>4, <2>2, <2>3 DEF Stream, Queued
<1>6. ASSUME NEW p, InBuffer(p), ~InBuffer(p)'
      PROVE  p \in Begin(j) + 1 .. b
  <2>1. PICK m \in DOMAIN buffer : m <= HdrSize /\ buffer[m] = p
    BY <1>1, <1>6, ReadAreFirst DEF Stream
  <2>2. m \in 1 .. HdrSize
    BY <1>1, <2>1
  <2> QED
    BY <1>0, <1>1, <1>2, <1>3, <2>1, <2>2
<1>7. TypeOK'
  BY <1>0, <1>1, Taken DEF Stream, TypeOK, ReadHeader, port
<1>8. Laid'
  BY DEF Stream, Laid, DataLength, Begin, End, ReadHeader
<1>9. Queued'
  BY <1>1, TakenQueued DEF Stream, ReadHeader
<1>10. HeaderRead'
  <2>1. Begin(j)' = Begin(j)
    BY DEF Begin, ReadHeader
  <2>2. ASSUME NEW p \in Begin(j) + 1 .. b
        PROVE  p <= came /\ p \notin lost
    <3>1. PICK i \in 1 .. HdrSize : p = Begin(j) + i
      <4>1. p - Begin(j) \in 1 .. HdrSize
        BY <1>0, <1>1, <1>3, <2>2
      <4> QED
        BY <4>1, <1>0, <1>1, <2>2
    <3> QED
      BY <1>2, <3>1 DEF Stream, Queued
  <2>3. ASSUME NEW p \in b + 1 .. came, p \notin lost
        PROVE  InBuffer(p)'
    <3>1. InBuffer(p)
      <4>1. p \in b .. came
        BY <1>1, <1>3, <2>3
      <4> QED
        BY <4>1, <1>4, <2>3 DEF Stream, Queued
    <3>2. p \notin Begin(j) + 1 .. b
      BY <1>1, <1>3, <2>3
    <3> QED
      BY <1>6, <3>1, <3>2
  <2>4. came' = came /\ lost' = lost /\ written' = written /\ slot' = "running"
    BY <1>1 DEF ReadHeader
  <2> QED
    BY <1>0, <1>3, <1>5, <2>1, <2>2, <2>3, <2>4 DEF HeaderRead
<1>11. Emitted'
  <2>1. ASSUME NEW i \in DOMAIN delivered
        PROVE  delivered[i] < j
    <3>1. PICK d \in DOMAIN written : d = delivered[i]
      BY DEF Stream, Emitted
    <3>2. 1 \in DOMAIN buffer /\ buffer[1] = Begin(j) + 1
      BY <1>1, <1>2
    <3>3. written[d] < Begin(j) + 1
      BY <3>1, <3>2 DEF Stream, Emitted
    <3>4. ~(j < d) /\ d # j
      BY <1>0, <1>1, <3>3
    <3> QED
      BY <1>0, <1>1, <3>1, <3>4
  <2>2. \A i \in DOMAIN delivered : \A m \in DOMAIN buffer' :
           written[delivered[i]] < buffer'[m]
    BY <1>1, Taken DEF Stream, Emitted
  <2> QED
    BY <1>0, <2>1, <2>2 DEF Stream, Emitted, Begin, ReadHeader
<1>12. ASSUME NEW k \in DOMAIN written
       PROVE  Waits(k)'
  <2>1. SUFFICES ASSUME Intact(k), ~IsDelivered(k),
                        NEW p \in Begin(k) + 1 .. written[k], p <= came, ~InBuffer(p)',
                        j = k => b < p
                 PROVE  FALSE
    BY <1>0, <1>3 DEF Waits, Begin, Intact, IsDelivered, ReadHeader
  <2>2. InBuffer(p)
    BY <1>1, <2>1 DEF Stream, Waiting, Waits, NoHeader
  <2>3. p \in Begin(j) + 1 .. b
    BY <1>6, <2>1, <2>2
  <2>4. ~(j < k)
    BY <1>0, <1>1, <1>3, <2>1, <2>3
  <2>5. ~(k < j)
    BY <1>0, <1>1, <1>3, <2>1, <2>3
  <2> QED
    BY <1>0, <1>1, <1>3, <2>1, <2>3, <2>4, <2>5
<1>13. Waiting'
  BY <1>12 DEF Waiting, ReadHeader
<1> QED
  BY <1>7, <1>8, <1>9, <1>10, <1>11, <1>13 DEF Stream

(* A body is read: a whole one is emitted, after all the others, and an     *)
(* intact message is emitted now or lies behind what is read.               *)
LEMMA ReadBodyStep ==
    ASSUME Stream, ReadBody
    PROVE  Stream'
<1> DEFINE j == tmpRxHdr
<1>0. j \in DOMAIN written /\ tmpRxHdr # NoHeader
  BY DEF Stream, HeaderRead, ReadBody
<1>1. PICK n \in Nat, b \in Nat : /\ n = DataLength(j) /\ b = Begin(j) + HdrSize
                                  /\ written[j] = b + n
  <2>1. DataLength(j) \in Nat /\ Begin(j) \in Nat /\ HdrSize \in Nat
    BY <1>0, Numbers, Spacing DEF Stream
  <2>2. Begin(j) + HdrSize \in Nat
    BY <2>1
  <2> QED
    BY <1>0, <2>1, <2>2, Spacing DEF Stream
<1>2. /\ HdrSize \in Nat /\ HdrSize > 0 /\ Begin(j) \in Nat /\ j \in Nat /\ came \in Nat
      /\ DOMAIN buffer = 1 .. Len(buffer) /\ Len(buffer) \in Nat
      /\ \A i \in DOMAIN buffer : buffer[i] \in Nat /\ buffer[i] <= came
  BY <1>0, Numbers DEF Stream, Queued
<1>3. n <= Len(buffer) /\ buffer' = Rest(n) /\ tmpRxHdr' = NoHeader
  BY <1>1 DEF ReadBody
<1>4. /\ written' = written /\ came' = came /\ lost' = lost /\ slot' = slot
  BY DEF ReadBody
<1>5. PICK s : s = SubSeq(buffer, 1, n)
  OBVIOUS
<1>6. delivered' = IF Bytes(s, j, HdrSize) THEN Append(delivered, j) ELSE delivered
  BY <1>1, <1>5 DEF ReadBody
<1>7. delivered \in Seq(Nat) /\ Len(delivered) \in Nat /\ DOMAIN delivered = 1 .. Len(delivered)
  BY Numbers DEF Stream, TypeOK
<1>8. TypeOK'
  <2>1. buffer' \in Seq(Nat)
    BY <1>3, Taken DEF Stream
  <2>2. delivered' \in Seq(Nat)
    BY <1>2, <1>6, <1>7
  <2> QED
    BY <1>3, <2>1, <2>2 DEF Stream, TypeOK, ReadBody, port, NoHeader
<1>9. Laid'
  BY <1>4 DEF Stream, Laid, DataLength, Begin, End
<1>10. Queued'
  BY <1>3, <1>4, TakenQueued DEF Stream
<1>11. HeaderRead'
  BY <1>3 DEF HeaderRead
<1>12. \A i \in DOMAIN buffer' : \E m \in DOMAIN buffer : n < m /\ buffer'[i] = buffer[m]
  <2>1. TAKE i \in DOMAIN buffer'
  <2>2. /\ i + n \in DOMAIN buffer /\ buffer'[i] = buffer[i + n] /\ i \in Nat /\ 1 <= i
    BY <1>2, <1>3, Taken DEF Stream
  <2> QED
    BY <2>2
<1>13. ASSUME Bytes(s, j, HdrSize)
       PROVE  /\ written[j] <= came
              /\ \A p \in Begin(j) + 1 .. written[j] : p \notin lost
              /\ \A i \in DOMAIN buffer' : written[j] < buffer'[i]
  <2>1. ASSUME NEW i \in 1 .. n
        PROVE  i \in DOMAIN buffer /\ buffer[i] = b + i
    <3>1. DOMAIN s = 1 .. n /\ s[i] = buffer[i]
      BY <1>2, <1>3, <1>5 DEF Stream, TypeOK
    <3>2. s[i] = Begin(j) + HdrSize + i
      BY <1>13, <3>1 DEF Bytes
    <3> QED
      BY <1>1, <1>2, <1>3, <3>1, <3>2
  <2>2. b <= came
    <3>1. b \in Begin(j) + 1 .. Begin(j) + HdrSize
      BY <1>1, <1>2
    <3> QED
      BY <1>0, <3>1 DEF Stream, HeaderRead
  <2>3. written[j] <= came
    <3>1. CASE n = 0
      BY <1>1, <2>2, <3>1
    <3>2. CASE n # 0
      <4>1. n \in 1 .. n
        BY <3>2
      <4> QED
        BY <4>1, <1>1, <1>2, <2>1
    <3> QED
      BY <3>1, <3>2
  <2>4. ASSUME NEW p \in Begin(j) + 1 .. written[j]
        PROVE  p \notin lost
    <3>1. CASE p <= b
      <4>1. p \in Begin(j) + 1 .. Begin(j) + HdrSize
        BY <1>1, <1>2, <2>4, <3>1
      <4> QED
        BY <1>0, <4>1 DEF Stream, HeaderRead
    <3>2. CASE b < p
      <4>1. p - b \in 1 .. n /\ b + (p - b) = p
        <5>1. p \in Int /\ p <= b + n
          BY <1>1, <1>2, <2>4
        <5> QED
          BY <5>1, <3>2, <1>1
      <4>2. p - b \in DOMAIN buffer /\ buffer[p - b] = p
        BY <4>1, <2>1
      <4> QED
        BY <4>2 DEF Stream, Queued
    <3> QED
      BY <1>1, <1>2, <2>4, <3>1, <3>2
  <2>5. ASSUME NEW i \in DOMAIN buffer'
        PROVE  written[j] < buffer'[i]
    <3>1. PICK m \in DOMAIN buffer : n < m /\ buffer'[i] = buffer[m]
      BY <1>12
    <3>2. CASE n = 0
      <4>1. b < buffer[m]
        BY <1>0, <1>1 DEF Stream, HeaderRead
      <4> QED
        BY <4>1, <3>1, <3>2, <1>1
    <3>3. CASE n # 0
      <4>1. n \in DOMAIN buffer /\ buffer[n] = b + n
        BY <2>1, <3>3
      <4> QED
        BY <4>1, <3>1, <1>1 DEF Stream, Queued
    <3> QED
      BY <3>2, <3>3
  <2> QED
    BY <2>3, <2>4, <2>5
<1>14. ASSUME NEW i \in DOMAIN delivered
       PROVE  /\ delivered[i] \in DOMAIN written
              /\ written[delivered[i]] <= came
              /\ \A p \in Begin(delivered[i]) + 1 .. written[delivered[i]] : p \notin lost
              /\ \A m \in DOMAIN buffer' : written[delivered[i]] < buffer'[m]
              /\ delivered[i] < j
  BY <1>0, <1>12 DEF Stream, Emitted
<1>15. Emitted'
  <2>1. CASE ~Bytes(s, j, HdrSize)
    BY <1>3, <1>4, <1>6, <1>14, <2>1 DEF Stream, Emitted, Begin
  <2>2. CASE Bytes(s, j, HdrSize)
    <3>1. PICK d \in Nat : d = Len(delivered)
      BY <1>7
    <3>2. /\ DOMAIN delivered' = 1 .. d + 1 /\ delivered'[d + 1] = j
          /\ \A i \in 1 .. d : delivered'[i] = delivered[i]
      <4>1. delivered' = Append(delivered, j)
        BY <1>6, <2>2
      <4>2. /\ Len(delivered') = d + 1 /\ delivered'[d + 1] = j /\ delivered' \in Seq(Nat)
            /\ \A i \in 1 .. d : delivered'[i] = delivered[i]
        BY <4>1, <3>1, <1>2, <1>7, AppendProperties
      <4> QED
        BY <4>2
    <3>3. ASSUME NEW i \in 1 .. d + 1
          PROVE  /\ delivered'[i] \in DOMAIN written
                 /\ written[delivered'[i]] <= came
                 /\ \A p \in Begin(delivered'[i]) + 1 .. written[delivered'[i]] : p \notin lost
                 /\ \A m \in DOMAIN buffer' : written[delivered'[i]] < buffer'[m]
      <4>1. CASE i = d + 1
        BY <4>1, <3>2, <1>0, <1>13, <2>2
      <4>2. CASE i \in 1 .. d
        BY <4>2, <3>1, <3>2, <1>7, <1>14
      <4> QED
        BY <4>1, <4>2
    <3>4. ASSUME NEW i \in 1 .. d + 1, NEW m \in 1 .. d + 1, i < m
          PROVE  delivered'[i] < delivered'[m]
      <4>1. i \in 1 .. d /\ delivered'[i] = delivered[i]
        BY <3>2, <3>4
      <4>2. CASE m = d + 1
        BY <4>1, <4>2, <3>1, <3>2, <1>7, <1>14
      <4>3. CASE m \in 1 .. d
        BY <4>1, <4>3, <3>1, <3>2, <3>4, <1>7 DEF Stream, Emitted
      <4> QED
        BY <4>2, <4>3
    <3> QED
      BY <1>3, <1>4, <3>2, <3>3, <3>4 DEF Emitted, Begin
  <2> QED
    BY <2>1, <2>2
<1>16. \A k : IsDelivered(k) => IsDelivered(k)'
  <2>1. CASE delivered' = delivered
    BY <2>1 DEF IsDelivered
  <2>2. CASE delivered' = Append(delivered, j)
    <3>1. \A i \in DOMAIN delivered : i \in DOMAIN delivered' /\ delivered'[i] = delivered[i]
      BY <2>2, <1>2, <1>7, AppendProperties
    <3> QED
      BY <3>1 DEF IsDelivered
  <2> QED
    BY <1>6, <2>1, <2>2
<1>17. ASSUME NEW k \in DOMAIN written
       PROVE  Waits(k)'
  <2>1. SUFFICES ASSUME Intact(k), ~IsDelivered(k), ~IsDelivered(k)',
                        NEW p \in Begin(k) + 1 .. written[k], p <= came
                 PROVE  InBuffer(p)'
    BY <1>4, <1>16 DEF Waits, Begin, Intact
  <2>2. k # j
    <3>1. ASSUME k = j
          PROVE  FALSE
      <4>1. Bytes(s, j, HdrSize)
        BY <3>1, <2>1, <1>0, <1>1, <1>3, <1>5, BodyFound DEF Stream
      <4>2. delivered' = Append(delivered, j)
        BY <4>1, <1>6
      <4>3. Len(delivered) + 1 \in DOMAIN delivered' /\ delivered'[Len(delivered) + 1] = j
        BY <4>2, <1>2, <1>7, AppendProperties
      <4> QED
        BY <4>3, <3>1, <2>1 DEF IsDelivered
    <3> QED
      BY <3>1
  <2>3. PICK m \in DOMAIN buffer : buffer[m] = p
    BY <2>1, <2>2 DEF Stream, Waiting, Waits, InBuffer
  <2>4. Begin(k) < buffer[m] /\ buffer[m] <= written[k]
    BY <2>1, <2>3, Numbers DEF Stream
  <2>5. n < m
    BY <1>0, <1>1, <2>1, <2>2, <2>4, NotReached DEF Stream
  <2> QED
    BY <1>3, <2>3, <2>5, Taken DEF Stream, InBuffer
<1>18. Waiting'
  BY <1>4, <1>17 DEF Waiting
<1> QED
  BY <1>8, <1>9, <1>10, <1>11, <1>15, <1>18 DEF Stream
-----------------------------------------------------------------------------
LEMMA InitStream == Init => Stream /\ PortInv
<1>1. SUFFICES ASSUME Init
               PROVE  Stream /\ PortInv
  OBVIOUS
<1>2. TypeOK
  <2>1. /\ written = <<>> /\ buffer = <<>> /\ delivered = <<>>
        /\ came = 0 /\ tmpRxHdr = 0 /\ losses = 0 /\ events = 0
        /\ lost = {} /\ portOpen = FALSE /\ reopening = FALSE /\ asked = FALSE
        /\ slot = "idle"
    BY <1>1 DEF Init, NoHeader
  <2>2. <<>> \in Seq(Nat)
    OBVIOUS
  <2>3. 0 \in Nat /\ 0 \in 0 .. MaxLosses /\ 0 \in 0 .. MaxEvents
    BY SerialAssumption
  <2> QED
    BY <2>1, <2>2, <2>3 DEF TypeOK
<1>3. Laid
  <2>1. DOMAIN written = {} /\ Len(written) = 0
    BY <1>1 DEF Init
  <2>2. End = 0
    BY <2>1 DEF End, Begin
  <2> QED
    BY <1>1, <2>1, <2>2 DEF Init, Laid
<1>4. Queued /\ HeaderRead /\ Emitted /\ Waiting
  BY <1>1 DEF Init, Queued, HeaderRead, Emitted, Waiting
<1>5. PortInv
  BY <1>1 DEF Init, PortInv
<1> QED
  BY <1>2, <1>3, <1>4, <1>5 DEF Stream

(* Errors, buttons and ports chosen either close the port or leave it.      *)
LEMMA EventTypes ==
    ASSUME Stream, Event, CloseSerialPort \/ UNCHANGED <<buffer, lost>>,
           portOpen' \in BOOLEAN, reopening' \in BOOLEAN, asked' \in BOOLEAN
    PROVE  TypeOK'
<1>1. events' \in 0 .. MaxEvents
  BY SerialAssumption DEF Stream, TypeOK, Event
<1>2. buffer' \in Seq(Nat) /\ lost' \subseteq 1 .. came
  <2>1. buffer \in Seq(Nat) /\ lost \subseteq 1 .. came
    BY DEF Stream, TypeOK
  <2>2. CASE CloseSerialPort
    <3>1. \A i \in DOMAIN buffer : buffer[i] \in 1 .. came
      BY DEF Stream, Queued
    <3>2. buffer' = <<>> /\ lost' = lost \cup {buffer[i] : i \in DOMAIN buffer}
      BY <2>2 DEF CloseSerialPort
    <3>3. <<>> \in Seq(Nat)
      OBVIOUS
    <3>4. {buffer[i] : i \in DOMAIN buffer} \subseteq 1 .. came
      BY <3>1
    <3> QED
      BY <2>1, <3>2, <3>3, <3>4
  <2> QED
    BY <2>1, <2>2
<1> QED
  BY <1>1, <1>2 DEF Stream, TypeOK, Event

LEMMA EventStep ==
    ASSUME Stream, Event, CloseSerialPort \/ UNCHANGED <<buffer, lost>>,
           portOpen' \in BOOLEAN, reopening' \in BOOLEAN, asked' \in BOOLEAN
    PROVE  Stream'
<1>1. TypeOK'
  BY EventTypes
<1>2. CASE CloseSerialPort
  BY <1>1, <1>2, CloseStep DEF Event
<1>3. CASE UNCHANGED <<buffer, lost>>
  BY <1>1, <1>3, QuietStep DEF Event
<1> QED
  BY <1>2, <1>3

(* Every step keeps the stream. *)
LEMMA NextStream == Stream /\ [Next]_vars => Stream'
<1> SUFFICES ASSUME Stream, [Next]_vars
             PROVE  Stream'
  OBVIOUS
<1>1. ASSUME NEW length \in Lengths, Write(length)
      PROVE  Stream'
  BY <1>1, WriteStep
<1>2. ASSUME Come
      PROVE  Stream'
  <2>1. CASE portOpen
    <3>1. TypeOK'
      <4>1. came' \in Nat /\ buffer' \in Seq(Nat) /\ lost' \subseteq 1 .. came'
        <5>1. came \in Nat /\ came + 1 \in Nat /\ buffer \in Seq(Nat) /\ lost \subseteq 1 .. came
          BY DEF Stream, TypeOK
        <5>2. came' = came + 1 /\ buffer' = Append(buffer, came + 1) /\ lost' = lost
          BY <1>2, <2>1 DEF Come
        <5>3. Append(buffer, came + 1) \in Seq(Nat)
          BY <5>1, AppendProperties
        <5> QED
          BY <5>1, <5>2, <5>3
      <4> QED
        BY <1>2, <2>1, <4>1 DEF Stream, TypeOK, Come, port
    <3> QED
      BY <1>2, <2>1, <3>1, KeptStep DEF Come
  <2>2. CASE ~portOpen
    <3>1. TypeOK'
      <4>1. came' \in Nat /\ lost' \subseteq 1 .. came'
        <5>1. came \in Nat /\ lost \subseteq 1 .. came
          BY DEF Stream, TypeOK
        <5>2. came' = came + 1 /\ lost' = lost \cup {came + 1}
          BY <1>2, <2>2 DEF Come
        <5> QED
          BY <5>1, <5>2
      <4> QED
        BY <1>2, <2>2, <4>1 DEF Stream, TypeOK, Come, port
    <3> QED
      BY <1>2, <2>2, <3>1, LostStep DEF Come
  <2> QED
    BY <2>1, <2>2
<1>3. ASSUME Drop
      PROVE  Stream'
  <2>1. TypeOK'
    <3>1. came' \in Nat /\ lost' \subseteq 1 .. came' /\ losses' \in 0 .. MaxLosses
      BY <1>3, SerialAssumption DEF Stream, TypeOK, Drop
    <3> QED
      BY <1>3, <3>1 DEF Stream, TypeOK, Drop, port
  <2> QED
    BY <1>3, <2>1, LostStep DEF Drop
<1>4. ASSUME ReadyRead
      PROVE  Stream'
  <2>1. TypeOK'
    BY <1>4 DEF Stream, TypeOK, ReadyRead, port
  <2> QED
    BY <1>4, <2>1, QuietStep DEF ReadyRead
<1>5. ASSUME Return
      PROVE  Stream'
  <2>1. TypeOK'
    BY <1>5 DEF Stream, TypeOK, Return, port
  <2>2. tmpRxHdr # NoHeader => DataLength(tmpRxHdr) # 0
    BY <1>5, Numbers DEF Stream, Return
  <2> QED
    BY <1>5, <2>1, <2>2, QuietStep DEF Return
<1>6. ASSUME OnReadyRead
      PROVE  Stream'
  BY <1>5, <1>6, ThrowAwayStep, ReadHeaderStep, ReadBodyStep DEF OnReadyRead
<1>7. ASSUME NEW opens \in BOOLEAN, OpenCloseSwitch(opens)
      PROVE  Stream'
  <2>1. /\ portOpen' \in BOOLEAN /\ reopening' \in BOOLEAN /\ asked' \in BOOLEAN
        /\ CloseSerialPort \/ UNCHANGED <<buffer, lost>>
    BY <1>7 DEF OpenCloseSwitch, OpenSerialPort, Stream, TypeOK
  <2> QED
    BY <1>7, <2>1, EventStep DEF OpenCloseSwitch
<1>8. ASSUME NEW opens \in BOOLEAN, PortChanged(opens)
      PROVE  Stream'
  <2>1. /\ portOpen' \in BOOLEAN /\ reopening' \in BOOLEAN /\ asked' \in BOOLEAN
        /\ CloseSerialPort
    BY <1>8 DEF PortChanged, OpenSerialPort
  <2> QED
    BY <1>8, <2>1, EventStep DEF PortChanged
<1>9. ASSUME NEW opens \in BOOLEAN, Reopen(opens)
      PROVE  Stream'
  <2>1. TypeOK'
    BY <1>9 DEF Stream, TypeOK, Reopen, OpenSerialPort
  <2> QED
    BY <1>9, <2>1, QuietStep DEF Reopen
<1>10. ASSUME OnSerialError
       PROVE  Stream'
  <2>1. /\ portOpen' \in BOOLEAN /\ reopening' \in BOOLEAN /\ asked' \in BOOLEAN
        /\ CloseSerialPort
    BY <1>10 DEF OnSerialError, Stream, TypeOK
  <2> QED
    BY <1>10, <2>1, EventStep DEF OnSerialError
<1>11. ASSUME UNCHANGED vars
       PROVE  Stream'
  <2>1. TypeOK'
    BY <1>11 DEF Stream, TypeOK, vars, port
  <2> QED
    BY <1>11, <2>1, QuietStep DEF vars
<1> QED
  BY <1>1, <1>2, <1>3, <1>4, <1>6, <1>7, <1>8, <1>9, <1>10, <1>11 DEF Next

LEMMA NextPort == PortInv /\ [Next]_vars => PortInv'
<1> SUFFICES ASSUME PortInv, [Next]_vars
             PROVE  PortInv'
  OBVIOUS
<1>1. ASSUME UNCHANGED port
      PROVE  PortInv'
  BY <1>1 DEF PortInv, port
<1>2. ASSUME NEW opens \in BOOLEAN, OpenCloseSwitch(opens)
      PROVE  PortInv'
  BY <1>2 DEF PortInv, OpenCloseSwitch, OpenSerialPort
<1>3. ASSUME NEW opens \in BOOLEAN, PortChanged(opens)
      PROVE  PortInv'
  BY <1>3 DEF PortInv, PortChanged, OpenSerialPort
<1>4. ASSUME NEW opens \in BOOLEAN, Reopen(opens)
      PROVE  PortInv'
  BY <1>4 DEF PortInv, Reopen, OpenSerialPort
<1>5. ASSUME OnSerialError
      PROVE  PortInv'
  BY <1>5 DEF PortInv, OnSerialError
<1>6. ASSUME \/ \E length \in Lengths : Write(length)
             \/ Come \/ Drop \/ ReadyRead \/ OnReadyRead \/ UNCHANGED vars
      PROVE  UNCHANGED port
  BY <1>6 DEF Write, Come, Drop, ReadyRead, OnReadyRead, ThrowAway, ReadHeader, ReadBody,
              Return, vars
<1> QED
  BY <1>1, <1>2, <1>3, <1>4, <1>5, <1>6 DEF Next

LEMMA StreamKept == Spec => []Stream
  BY InitStream, NextStream, PTL DEF Spec

(* SentInOrder, whatever the line drops and whenever the port closes: what  *)
(* onReadyRead emits are the device's messages, in its order, none twice    *)
(* and none with a byte lost.                                               *)
THEOREM OrderCorrect == Spec => []SentInOrder
<1>1. Stream => SentInOrder
  BY DEF Stream, Emitted, SentInOrder
<1> QED
  BY <1>1, StreamKept, PTL

(* FindsItsPlace, for every length of body and any losses: onReadyRead      *)
(* emits each message of which nothing is lost, nor of MaxLength bytes      *)
(* before it.                                                               *)
THEOREM PlaceCorrect == Spec => []FindsItsPlace
<1>1. ASSUME Stream, NEW k \in DOMAIN written, slot # "running", Read(written[k]),
             \A p \in lost : p + MaxLength <= Begin(k) \/ written[k] < p
      PROVE  IsDelivered(k)
  <2>1. SUFFICES ASSUME ~IsDelivered(k)
                 PROVE  FALSE
    OBVIOUS
  <2>2. /\ DataLength(k) \in Nat /\ HdrSize \in Nat /\ HdrSize > 0
        /\ Begin(k) \in Nat /\ written[k] \in Nat
        /\ written[k] = Begin(k) + HdrSize + DataLength(k)
    BY <1>1, Numbers, Spacing DEF Stream
  <2>3. tmpRxHdr = k => DataLength(k) # 0
    <3>1. k # NoHeader
      BY Numbers DEF Stream, NoHeader
    <3> QED
      BY <1>1, <3>1 DEF Stream, HeaderRead
  <2>4. /\ written[k] \in Begin(k) + 1 .. written[k]
        /\ tmpRxHdr = k => Begin(k) + HdrSize < written[k]
    BY <2>2, <2>3
  <2>5. InBuffer(written[k])
    BY <1>1, <2>1, <2>4 DEF Stream, Waiting, Waits, Intact, Read
  <2> QED
    BY <1>1, <2>2, <2>5 DEF InBuffer, Read
<1>2. Stream => FindsItsPlace
  BY <1>1 DEF FindsItsPlace, IsDelivered
<1> QED
  BY <1>2, StreamKept, PTL

(* UserCloseStands, for any number of errors, buttons and time-outs: the    *)
(* timer never opens a port that the user has closed.                       *)
THEOREM CloseCorrect == Spec => []UserCloseStands
<1>1. PortInv => UserCloseStands
  BY DEF PortInv, UserCloseStands
<1> QED
  BY <1>1, InitStream, NextPort, PTL DEF Spec
=============================================================================
