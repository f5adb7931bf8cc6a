---------------------------- MODULE StreamProofs -----------------------------
(***************************************************************************)
(* Proofs about what is read from a link: that a reader makes of its bytes *)
(* the messages written (StreamFraming), for every size of the header,     *)
(* every set of lengths and any number of messages and connections; and    *)
(* that a short timestamp is made into the right long one                  *)
(* (TimestampUnwrap), for every size of the counter and every delay,       *)
(* lateness and silence its assumption allows.                             *)
(***************************************************************************)
EXTENDS StreamFraming, TimestampUnwrap, TLAPS

(* The messages follow each other in the stream, and no more has arrived    *)
(* than was written.                                                        *)
StreamOK(r) ==
    /\ \A i, j \in DOMAIN written[r] : i < j => written[r][i] + HdrSize <= written[r][j]
    /\ \A k \in DOMAIN written[r] : /\ HdrSize <= written[r][k]
                                    /\ written[r][k] - Begin(r, k) - HdrSize \in Lengths
    /\ arrived[r] <= End(r)

(* rxBuffer holds bytes that have arrived, and a header if a length is known. *)
BufferOK(r) == /\ pos[r] + have[r] <= arrived[r]
               /\ bodyLen[r] # NoHeader => HdrSize <= have[r]

Clean(r) == r = "hub" \/ stale[r] = 0

(* The message being read is the one after those delivered.                 *)
NextMessage(r) == Len(delivered[r]) + 1

Aligned(r) ==
    /\ Len(delivered[r]) <= Len(written[r])
    /\ pos[r] = Begin(r, NextMessage(r))
    /\ bodyLen[r] # NoHeader =>
         /\ NextMessage(r) \in DOMAIN written[r]
         /\ bodyLen[r] = written[r][NextMessage(r)] - pos[r] - HdrSize
    /\ \A k \in DOMAIN delivered[r] : delivered[r][k] = <<Begin(r, k), written[r][k]>>

ReaderOK(r) == StreamOK(r) /\ BufferOK(r) /\ (Clean(r) => Aligned(r))

Inv == TypeOK /\ \A r \in Reader : ReaderOK(r)
-----------------------------------------------------------------------------
(* The end of the stream, as a number. *)
LEMMA EndIsNat ==
    ASSUME TypeOK, NEW r \in Reader
    PROVE  /\ End(r) \in Nat
           /\ \A k \in DOMAIN written[r] : Begin(r, k) \in Nat
           /\ \A k \in DOMAIN written[r] : written[r][k] \in Nat
           /\ DOMAIN written[r] = 1 .. Len(written[r])
           /\ Len(written[r]) \in Nat
  BY DEF TypeOK, End, Begin

(* With a header's bytes there, a reader in step finds the header of the    *)
(* next message and no other.                                               *)
LEMMA HeaderFound ==
    ASSUME TypeOK, NEW r \in Reader, StreamOK(r), Aligned(r),
           pos[r] + HdrSize <= arrived[r]
    PROVE  /\ NextMessage(r) \in DOMAIN written[r]
           /\ HeaderAt(r, pos[r]) = {written[r][NextMessage(r)] - pos[r] - HdrSize}
<1> DEFINE n == NextMessage(r)
<1>1. n \in Nat \ {0} /\ Len(delivered[r]) = n - 1 /\ HdrSize \in Nat \ {0} /\ arrived[r] \in Nat
  BY FramingAssumption DEF TypeOK, NextMessage
<1>2. n \in DOMAIN written[r]
  <2>1. n <= Len(written[r]) + 1
    BY <1>1, EndIsNat DEF Aligned
  <2>2. n # Len(written[r]) + 1
    BY <1>1, EndIsNat DEF Aligned, StreamOK, End
  <2> QED
    BY <1>1, <2>1, <2>2, EndIsNat
<1> HIDE DEF n
<1>3. ASSUME NEW k \in DOMAIN written[r], Begin(r, k) = pos[r]
      PROVE  k = n
  <2>1. k \in Nat \ {0} /\ k <= Len(written[r]) /\ n <= Len(written[r])
    BY <1>2, EndIsNat
  <2>2. Begin(r, k) = Begin(r, n)
    BY <1>3 DEF Aligned, n
  <2>3. CASE k = 1 /\ n # 1
    <3>1. n - 1 \in DOMAIN written[r]
      BY <1>1, <2>1, <2>3, EndIsNat
    <3> QED
      BY <3>1, <2>2, <2>3, <1>1, EndIsNat DEF Begin, StreamOK
  <2>4. CASE k # 1 /\ n = 1
    <3>1. k - 1 \in DOMAIN written[r]
      BY <1>1, <2>1, <2>4, EndIsNat
    <3> QED
      BY <3>1, <2>2, <2>4, <1>1, EndIsNat DEF Begin, StreamOK
  <2>5. CASE k # 1 /\ n # 1
    <3>1. k - 1 \in DOMAIN written[r] /\ n - 1 \in DOMAIN written[r]
      BY <1>1, <2>1, <2>5, EndIsNat
    <3>2. written[r][k - 1] = written[r][n - 1]
      BY <2>2, <2>5 DEF Begin
    <3>3. \A i, j \in DOMAIN written[r] : written[r][i] = written[r][j] => ~(i < j)
      BY <1>1, EndIsNat DEF StreamOK
    <3>4. ~(k - 1 < n - 1) /\ ~(n - 1 < k - 1)
      BY <3>1, <3>2, <3>3
    <3> QED
      BY <3>4, <1>1, <2>1
  <2> QED
    BY <2>3, <2>4, <2>5
<1>4. {k \in DOMAIN written[r] : Begin(r, k) = pos[r]} = {n}
  BY <1>2, <1>3 DEF Aligned, n
<1> QED
  BY <1>2, <1>4 DEF HeaderAt, n
-----------------------------------------------------------------------------
(* What leaves a reader's variables alone leaves it as it was. *)
LEMMA QuietReader ==
    ASSUME NEW r \in Reader, ReaderOK(r),
           written'[r] = written[r], arrived'[r] = arrived[r], pos'[r] = pos[r],
           have'[r] = have[r], bodyLen'[r] = bodyLen[r], stale'[r] = stale[r],
           delivered'[r] = delivered[r]
    PROVE  ReaderOK(r)'
  BY DEF ReaderOK, StreamOK, BufferOK, Clean, Aligned, NextMessage, Begin, End

LEMMA Lengths_Nat == Lengths \subseteq Nat /\ HdrSize \in Nat \ {0}
  BY FramingAssumption

(* A message is added at the end of the stream. *)
LEMMA SendStep ==
    ASSUME Inv, NEW s \in Reader, NEW length \in Lengths, Send(s, length)
    PROVE  Inv'
<1>0. length \in Nat /\ HdrSize \in Nat \ {0}
  BY Lengths_Nat
<1>1. End(s) \in Nat
  BY EndIsNat DEF Inv
<1> DEFINE new == End(s) + HdrSize + length
<1>2. new \in Nat
  BY <1>0, <1>1
<1>3. /\ written'[s] = Append(written[s], new)
      /\ \A r \in Reader : r # s => written'[r] = written[r]
      /\ written' \in [Reader -> Seq(Nat)]
  BY <1>2 DEF Inv, TypeOK, Send
<1> HIDE DEF new
<1>4. TypeOK'
  BY <1>3 DEF Inv, TypeOK, Send
<1>5. ASSUME NEW r \in Reader, r # s
      PROVE  ReaderOK(r)'
  BY <1>3, <1>5, QuietReader DEF Inv, Send
<1>6. ReaderOK(s)'
  <2> DEFINE w == written[s] l == Len(written[s])
  <2>1. /\ l \in Nat /\ DOMAIN w = 1 .. l
        /\ DOMAIN written'[s] = 1 .. l + 1
        /\ written'[s][l + 1] = new
        /\ \A k \in 1 .. l : written'[s][k] = w[k] /\ w[k] \in Nat
        /\ Len(written'[s]) = l + 1
    <3>1. w \in Seq(Nat)
      BY DEF Inv, TypeOK
    <3>2. written'[s] = Append(w, new)
      BY <1>3
    <3> QED BY <1>2, <3>1, <3>2
  <2>2. \A k \in 1 .. l + 1 : Begin(s, k)' = Begin(s, k)
    BY <2>1 DEF Begin
  <2>3. /\ \A i, j \in 1 .. l : i < j => w[i] + HdrSize <= w[j]
        /\ \A k \in 1 .. l : HdrSize <= w[k] /\ w[k] - Begin(s, k) - HdrSize \in Lengths
        /\ arrived[s] <= End(s) /\ arrived[s] \in Nat
    BY <2>1 DEF Inv, TypeOK, ReaderOK, StreamOK
  <2>4. /\ End(s) = Begin(s, l + 1) /\ End(s)' = new
        /\ l # 0 => End(s) = w[l]
    BY <2>1 DEF End, Begin
  <2> HIDE DEF w, l
  <2>9. \A k \in 1 .. l : w[k] <= End(s)
    <3>1. TAKE k \in 1 .. l
    <3>2. l # 0 /\ l \in 1 .. l
      BY <2>1
    <3>3. CASE k = l
      BY <3>2, <3>3, <2>1, <2>4
    <3>4. CASE k # l
      BY <3>2, <3>4, <2>1, <2>3, <2>4, <1>0
    <3> QED
      BY <3>3, <3>4
  <2>5. StreamOK(s)'
    <3>1. ASSUME NEW i \in 1 .. l + 1, NEW j \in 1 .. l + 1, i < j
          PROVE  written'[s][i] + HdrSize <= written'[s][j]
      <4>1. i \in 1 .. l
        BY <2>1, <3>1
      <4>2. CASE j = l + 1
        BY <4>1, <4>2, <2>1, <2>9, <1>0, <1>1 DEF new
      <4>3. CASE j # l + 1
        BY <4>1, <4>3, <3>1, <2>1, <2>3
      <4> QED
        BY <4>2, <4>3
    <3>2. ASSUME NEW k \in 1 .. l + 1
          PROVE  /\ HdrSize <= written'[s][k]
                 /\ written'[s][k] - Begin(s, k)' - HdrSize \in Lengths
      <4>1. CASE k = l + 1
        <5>1. written'[s][k] - Begin(s, k)' - HdrSize = length
          BY <4>1, <2>1, <2>2, <2>4, <1>0, <1>1 DEF new
        <5> QED
          BY <5>1, <4>1, <2>1, <1>0, <1>1 DEF new
      <4>2. CASE k # l + 1
        BY <4>2, <2>1, <2>2, <2>3
      <4> QED
        BY <4>1, <4>2
    <3>3. arrived'[s] <= new
      BY <1>0, <1>1, <2>3 DEF Send, new
    <3> QED
      BY <3>1, <3>2, <3>3, <2>1, <2>4 DEF StreamOK
  <2>6. BufferOK(s)'
    BY DEF Inv, ReaderOK, BufferOK, Send
  <2>7. ASSUME Clean(s)'
        PROVE  Aligned(s)'
    <3>1. Aligned(s)
      BY <2>7 DEF Inv, ReaderOK, Clean, Send
    <3>2. delivered' = delivered /\ pos' = pos /\ bodyLen' = bodyLen
      BY DEF Send
    <3>3. Len(delivered[s]) \in Nat /\ DOMAIN delivered[s] = 1 .. Len(delivered[s])
      BY DEF Inv, TypeOK
    <3>4. Len(delivered[s]) <= l /\ DOMAIN written[s] = 1 .. l
      BY <3>1, <2>1 DEF Aligned, l, w
    <3>5. pos'[s] = Begin(s, NextMessage(s))'
      BY <3>1, <3>2, <3>3, <3>4, <2>1, <2>2 DEF Aligned, NextMessage
    <3>6. bodyLen'[s] # NoHeader =>
            /\ NextMessage(s)' \in DOMAIN written'[s]
            /\ bodyLen'[s] = written'[s][NextMessage(s)'] - pos'[s] - HdrSize
      BY <3>1, <3>2, <3>4, <2>1 DEF Aligned, NextMessage, w
    <3>7. \A k \in DOMAIN delivered'[s] : delivered'[s][k] = <<Begin(s, k)', written'[s][k]>>
      BY <3>1, <3>2, <3>3, <3>4, <2>1, <2>2 DEF Aligned, w
    <3>8. Len(delivered'[s]) <= Len(written'[s])
      BY <3>2, <3>3, <3>4, <2>1
    <3> QED
      BY <3>5, <3>6, <3>7, <3>8 DEF Aligned
  <2> QED
    BY <2>5, <2>6, <2>7 DEF ReaderOK
<1> QED
  BY <1>4, <1>5, <1>6 DEF Inv

LEMMA ReadyReadStep ==
    ASSUME Inv, NEW s \in Reader, NEW n \in Nat, ReadyRead(s, n)
    PROVE  Inv'
<1>1. TypeOK'
  BY DEF Inv, TypeOK, ReadyRead
<1>2. ASSUME NEW r \in Reader
      PROVE  ReaderOK(r)'
  <2>1. CASE r # s
    BY <1>2, <2>1, QuietReader DEF Inv, TypeOK, ReadyRead
  <2>2. CASE r = s
    <3>1. arrived'[s] = n /\ arrived[s] < n /\ n <= End(s)
      BY DEF Inv, TypeOK, ReadyRead
    <3>2. pos[s] \in Int /\ have[s] \in Nat /\ arrived[s] \in Nat
      BY DEF Inv, TypeOK
    <3>3. BufferOK(s)'
      BY <3>1, <3>2 DEF Inv, ReaderOK, BufferOK, ReadyRead
    <3>4. StreamOK(s)'
      BY <3>1 DEF Inv, ReaderOK, StreamOK, ReadyRead, Begin, End
    <3>5. Clean(s)' => Aligned(s)'
      BY DEF Inv, ReaderOK, Clean, Aligned, NextMessage, ReadyRead, Begin
    <3> QED
      BY <2>2, <3>3, <3>4, <3>5 DEF ReaderOK
  <2> QED
    BY <2>1, <2>2
<1> QED
  BY <1>1, <1>2 DEF Inv
-----------------------------------------------------------------------------
(* A slot that returns with bytes that have arrived, and with a header only *)
(* if it holds one: that of the next message if the reader is in step.      *)
LEMMA ReturnStep ==
    ASSUME Inv, NEW s \in Reader, NEW size \in Nat,
           NEW length \in Lengths \cup {NoHeader},
           Return(s, size, length),
           UNCHANGED <<open, opens, written, arrived, stale>>,
           pos[s] + size <= arrived[s],
           length # NoHeader => HdrSize <= size,
           Clean(s) /\ length # NoHeader =>
             /\ NextMessage(s) \in DOMAIN written[s]
             /\ length = written[s][NextMessage(s)] - pos[s] - HdrSize
    PROVE  Inv'
<1>1. TypeOK'
  BY DEF Inv, TypeOK, Return
<1>2. ASSUME NEW r \in Reader
      PROVE  ReaderOK(r)'
  <2>1. CASE r # s
    BY <1>2, <2>1, QuietReader DEF Inv, TypeOK, Return
  <2>2. CASE r = s
    <3>1. have'[s] = size /\ bodyLen'[s] = length
      BY DEF Inv, TypeOK, Return
    <3>2. BufferOK(s)'
      BY <3>1 DEF BufferOK, Return
    <3>3. StreamOK(s)'
      BY DEF Inv, ReaderOK, StreamOK, Begin, End
    <3>4. Clean(s)' => Aligned(s)'
      BY <3>1 DEF Inv, ReaderOK, Clean, Aligned, NextMessage, Begin, Return
    <3> QED
      BY <2>2, <3>2, <3>3, <3>4 DEF ReaderOK
  <2> QED
    BY <2>1, <2>2
<1> QED
  BY <1>1, <1>2 DEF Inv

(* A message is emitted whose bytes have arrived: the next one if the       *)
(* reader is in step.                                                       *)
LEMMA EmitStep ==
    ASSUME Inv, NEW s \in Reader, NEW length \in Lengths,
           Emit(s, HdrSize + length),
           UNCHANGED <<open, opens, written, arrived, stale>>,
           pos[s] + HdrSize + length <= arrived[s],
           Clean(s) =>
             /\ NextMessage(s) \in DOMAIN written[s]
             /\ length = written[s][NextMessage(s)] - pos[s] - HdrSize
    PROVE  Inv'
<1>0. length \in Nat /\ HdrSize \in Nat \ {0} /\ pos[s] \in Int /\ arrived[s] \in Nat
  BY Lengths_Nat DEF Inv, TypeOK
<1> DEFINE end == pos[s] + (HdrSize + length)
<1>1. end \in Int /\ end <= arrived[s] /\ <<pos[s], end>> \in Int \X Int
  BY <1>0
<1>2. /\ pos'[s] = end /\ have'[s] = 0 /\ bodyLen'[s] = NoHeader
      /\ delivered'[s] = Append(delivered[s], <<pos[s], end>>)
  BY DEF Inv, TypeOK, Emit
<1>3. TypeOK'
  <2>1. pos' \in [Reader -> Int] /\ have' \in [Reader -> Nat]
    BY <1>1 DEF Inv, TypeOK, Emit
  <2>2. delivered' \in [Reader -> Seq(Int \X Int)]
    BY <1>1 DEF Inv, TypeOK, Emit
  <2> HIDE DEF end
  <2> QED
    BY <2>1, <2>2 DEF Inv, TypeOK, Emit
<1>4. ASSUME NEW r \in Reader, r # s
      PROVE  ReaderOK(r)'
  BY <1>4, QuietReader DEF Inv, TypeOK, Emit
<1>5. ReaderOK(s)'
  <2>1. BufferOK(s)'
    BY <1>1, <1>2, <1>0 DEF BufferOK
  <2>2. StreamOK(s)'
    BY DEF Inv, ReaderOK, StreamOK, Begin, End
  <2>3. ASSUME Clean(s)'
        PROVE  Aligned(s)'
    <3>1. Clean(s) /\ Aligned(s)
      BY <2>3 DEF Inv, ReaderOK, Clean
    <3>0. PICK d \in Nat : d = Len(delivered[s])
      BY DEF Inv, TypeOK
    <3>2. /\ d \in Nat /\ d + 1 \in DOMAIN written[s] /\ DOMAIN delivered[s] = 1 .. d
          /\ DOMAIN written[s] = 1 .. Len(written[s]) /\ written[s][d + 1] \in Nat
          /\ Len(written[s]) \in Nat
      BY <3>0, <3>1, EndIsNat DEF NextMessage, Inv, TypeOK
    <3>3. end = written[s][d + 1]
      <4>1. length = written[s][d + 1] - pos[s] - HdrSize
        BY <3>0, <3>1 DEF NextMessage
      <4> QED
        BY <4>1, <3>2, <1>0
    <3>4. /\ Len(delivered'[s]) = d + 1 /\ DOMAIN delivered'[s] = 1 .. d + 1
          /\ delivered'[s][d + 1] = <<pos[s], end>>
          /\ \A k \in 1 .. d : delivered'[s][k] = delivered[s][k]
      BY <1>1, <1>2, <3>0, <3>2 DEF Inv, TypeOK
    <3>5. pos[s] = Begin(s, d + 1)
      BY <3>0, <3>1 DEF Aligned, NextMessage
    <3> HIDE DEF end
    <3>6. Len(delivered'[s]) <= Len(written'[s])
      BY <3>2, <3>4
    <3>7. pos'[s] = Begin(s, d + 2)' /\ NextMessage(s)' = d + 2
      <4>1. Begin(s, d + 2)' = written[s][d + 1]
        BY <3>2 DEF Begin
      <4> QED
        BY <4>1, <1>2, <3>2, <3>3, <3>4 DEF NextMessage, end
    <3>8. \A k \in 1 .. d + 1 : delivered'[s][k] = <<Begin(s, k)', written'[s][k]>>
      <4>1. \A k \in 1 .. d : delivered'[s][k] = <<Begin(s, k)', written'[s][k]>>
        BY <3>1, <3>2, <3>4 DEF Aligned, Begin
      <4>2. delivered'[s][d + 1] = <<Begin(s, d + 1)', written'[s][d + 1]>>
        <5>1. Begin(s, d + 1)' = Begin(s, d + 1)
          BY DEF Begin
        <5> QED
          BY <5>1, <3>3, <3>4, <3>5
      <4>3. ASSUME NEW k \in 1 .. d + 1, k # d + 1
            PROVE  k \in 1 .. d
        BY <4>3, <3>2
      <4> QED
        BY <4>1, <4>2, <4>3
    <3> QED
      BY <3>4, <3>6, <3>7, <3>8, <1>2 DEF Aligned
  <2> QED
    BY <2>1, <2>2, <2>3 DEF ReaderOK
<1> QED
  BY <1>3, <1>4, <1>5 DEF Inv

(* What GetDataLength() may be when the header is there. *)
LEMMA DataLengthOK ==
    ASSUME Inv, NEW s \in Reader, NEW length \in DataLength(s),
           pos[s] + HdrSize <= arrived[s]
    PROVE  /\ length \in Lengths
           /\ Clean(s) => /\ NextMessage(s) \in DOMAIN written[s]
                          /\ length = written[s][NextMessage(s)] - pos[s] - HdrSize
<1>1. CASE bodyLen[s] # NoHeader
  BY <1>1 DEF DataLength, Inv, TypeOK, ReaderOK, Aligned
<1>2. CASE bodyLen[s] = NoHeader
  <2>1. length \in HeaderAt(s, pos[s])
    BY <1>2 DEF DataLength
  <2>2. length \in Lengths
    BY <2>1 DEF HeaderAt, Inv, ReaderOK, StreamOK
  <2>3. ASSUME Clean(s)
        PROVE  /\ NextMessage(s) \in DOMAIN written[s]
               /\ length = written[s][NextMessage(s)] - pos[s] - HdrSize
    BY <2>1, <2>3, HeaderFound DEF Inv, ReaderOK
  <2> QED
    BY <2>2, <2>3
<1> QED
  BY <1>1, <1>2

LEMMA TurnStep ==
    ASSUME Inv, NEW s \in Reader, Turn(s)
    PROVE  Inv'
<1> DEFINE all == have[s] + Available(s)
<1>1. /\ all = arrived[s] - pos[s] /\ Available(s) \in Nat /\ all \in Nat /\ have[s] <= all
      /\ have[s] \in Nat /\ pos[s] \in Int /\ arrived[s] \in Nat
      /\ HdrSize \in Nat \ {0} /\ bodyLen[s] \in Lengths \cup {NoHeader}
  BY Lengths_Nat DEF Inv, TypeOK, ReaderOK, BufferOK, Available
<1>2. UNCHANGED <<open, opens, written, arrived, stale>>
  BY DEF Turn
<1>3. bodyLen[s] # NoHeader => HdrSize <= have[s]
  BY DEF Inv, ReaderOK, BufferOK
<1>4. Clean(s) /\ bodyLen[s] # NoHeader =>
             /\ NextMessage(s) \in DOMAIN written[s]
             /\ bodyLen[s] = written[s][NextMessage(s)] - pos[s] - HdrSize
  BY DEF Inv, ReaderOK, Aligned
<1>5. ASSUME NEW length \in DataLength(s), NEW size \in Nat, HdrSize <= size, size <= all,
             Return(s, size, length)
      PROVE  Inv'
  BY <1>1, <1>2, <1>5, DataLengthOK, ReturnStep
<1>6. ASSUME NEW length \in DataLength(s), HdrSize + length <= all, HdrSize <= all,
             Emit(s, HdrSize + length)
      PROVE  Inv'
  <2>0. pos[s] + HdrSize <= arrived[s]
    BY <1>1, <1>6
  <2>1. length \in Lengths /\ length \in Nat
    BY <2>0, <1>6, DataLengthOK, Lengths_Nat
  <2> QED
    BY <2>1, <1>1, <1>2, <1>6, DataLengthOK, EmitStep
<1>7. CASE s = "hub"
  <2>1. HubTurn(s)
    BY <1>7 DEF Turn
  <2>2. CASE have[s] < HdrSize /\ Available(s) < HdrSize
    <3>1. Return(s, have[s], bodyLen[s])
      BY <2>1, <2>2 DEF HubTurn
    <3> QED
      BY <3>1, <1>1, <1>2, <1>3, <1>4, ReturnStep
  <2>3. CASE ~(have[s] < HdrSize /\ Available(s) < HdrSize)
    <3>1. HdrSize <= all
      BY <2>3, <1>1
    <3>2. PICK length \in DataLength(s) :
            IF all < HdrSize + length
            THEN Return(s, IF have[s] < HdrSize THEN HdrSize ELSE have[s], length)
            ELSE Emit(s, HdrSize + length)
      BY <2>1, <2>3 DEF HubTurn
    <3>0. pos[s] + HdrSize <= arrived[s]
      BY <3>1, <1>1
    <3>3. length \in Nat
      BY <3>0, DataLengthOK, Lengths_Nat
    <3>4. CASE all < HdrSize + length
      BY <3>1, <3>2, <3>4, <1>1, <1>5
    <3>5. CASE ~(all < HdrSize + length)
      BY <3>1, <3>2, <3>3, <3>5, <1>1, <1>6
    <3> QED
      BY <3>4, <3>5
  <2> QED
    BY <2>2, <2>3
<1>8. CASE s # "hub"
  <2>1. AppTurn(s)
    BY <1>8 DEF Turn
  <2>2. CASE Available(s) = 0 \/ all < HdrSize
    <3>1. Return(s, all, bodyLen[s])
      BY <2>1, <2>2 DEF AppTurn
    <3>2. bodyLen[s] # NoHeader => HdrSize <= all
      BY <1>1, <1>3
    <3>3. pos[s] + all <= arrived[s]
      BY <1>1
    <3> HIDE DEF all
    <3> QED
      BY <3>1, <3>2, <3>3, <1>1, <1>2, <1>4, ReturnStep
  <2>3. CASE ~(Available(s) = 0 \/ all < HdrSize)
    <3>1. HdrSize <= all
      BY <2>3, <1>1
    <3>2. PICK length \in DataLength(s) :
            IF all < HdrSize + length
            THEN Return(s, all, length)
            ELSE Emit(s, HdrSize + length)
      BY <2>1, <2>3 DEF AppTurn
    <3>0. pos[s] + HdrSize <= arrived[s]
      BY <3>1, <1>1
    <3>3. length \in Nat
      BY <3>0, DataLengthOK, Lengths_Nat
    <3>4. CASE all < HdrSize + length
      BY <3>1, <3>2, <3>4, <1>1, <1>5
    <3>5. CASE ~(all < HdrSize + length)
      BY <3>1, <3>2, <3>3, <3>5, <1>1, <1>6
    <3> QED
      BY <3>4, <3>5
  <2> QED
    BY <2>2, <2>3
<1> QED
  BY <1>7, <1>8
-----------------------------------------------------------------------------
LEMMA OpenStep ==
    ASSUME Inv, OpenConnection
    PROVE  Inv'
<1>1. /\ have' \in [Reader -> Nat] /\ have'["hub"] = 0 /\ have'["app"] = have["app"]
      /\ bodyLen' \in [Reader -> Lengths \cup {NoHeader}]
      /\ bodyLen'["hub"] = NoHeader /\ bodyLen'["app"] = bodyLen["app"]
  BY DEF Inv, TypeOK, OpenConnection, Reader
<1>2. TypeOK'
  <2>1. /\ pos' \in [Reader -> Int] /\ stale' \in [Reader -> Nat]
        /\ \A r \in Reader : 0 - have'[r] \in Int
    BY <1>1 DEF OpenConnection
  <2>2. <<>> \in Seq(Nat) /\ <<>> \in Seq(Int \X Int)
    OBVIOUS
  <2>3. opens' \in 0 .. MaxOpens
    BY FramingAssumption DEF Inv, TypeOK, OpenConnection
  <2>4. written' \in [Reader -> Seq(Nat)] /\ delivered' \in [Reader -> Seq(Int \X Int)]
    BY <2>2 DEF OpenConnection
  <2> QED
    BY <1>1, <2>1, <2>3, <2>4 DEF Inv, TypeOK, OpenConnection
<1>3. ASSUME NEW r \in Reader
      PROVE  ReaderOK(r)'
  <2>1. /\ written'[r] = <<>> /\ arrived'[r] = 0 /\ delivered'[r] = <<>>
        /\ pos'[r] = 0 - have'[r] /\ stale'[r] = have'[r] /\ have'[r] \in Nat
    BY <1>1 DEF OpenConnection
  <2>2. bodyLen'[r] # NoHeader => HdrSize <= have'[r]
    BY <1>1 DEF Inv, ReaderOK, BufferOK, Reader
  <2>3. BufferOK(r)'
    BY <2>1, <2>2 DEF BufferOK
  <2>4. StreamOK(r)'
    BY <2>1 DEF StreamOK, End, Begin
  <2>5. ASSUME Clean(r)'
        PROVE  Aligned(r)'
    <3>1. have'[r] = 0
      BY <1>1, <2>1, <2>5 DEF Clean
    <3>2. bodyLen'[r] = NoHeader
      BY <3>1, <2>2, Lengths_Nat
    <3> QED
      BY <2>1, <3>1, <3>2 DEF Aligned, NextMessage, Begin
  <2> QED
    BY <2>3, <2>4, <2>5 DEF ReaderOK
<1> QED
  BY <1>2, <1>3 DEF Inv

LEMMA Initially == Init => Inv
<1> SUFFICES ASSUME Init PROVE Inv
  OBVIOUS
<1>1. TypeOK
  <2>1. <<>> \in Seq(Nat) /\ <<>> \in Seq(Int \X Int)
    OBVIOUS
  <2>2. opens \in 0 .. MaxOpens
    BY FramingAssumption DEF Init
  <2>3. written \in [Reader -> Seq(Nat)] /\ delivered \in [Reader -> Seq(Int \X Int)]
    BY <2>1 DEF Init
  <2>4. bodyLen \in [Reader -> Lengths \cup {NoHeader}] /\ pos \in [Reader -> Int]
    BY DEF Init
  <2> QED
    BY <2>2, <2>3, <2>4 DEF Init, TypeOK
<1>2. \A r \in Reader : ReaderOK(r)
  BY DEF Init, ReaderOK, StreamOK, BufferOK, Aligned, NextMessage, Begin, End
<1> QED
  BY <1>1, <1>2 DEF Inv

LEMMA Preserved == Inv /\ [Next]_vars => Inv'
<1> SUFFICES ASSUME Inv, [Next]_vars PROVE Inv'
  OBVIOUS
<1>1. ASSUME NEW r \in Reader, NEW length \in Lengths, Send(r, length) PROVE Inv'
  BY <1>1, SendStep
<1>2. ASSUME NEW r \in Reader, NEW n \in 1 .. End(r), ReadyRead(r, n) PROVE Inv'
  <2>1. n \in Nat
    BY EndIsNat DEF Inv
  <2> QED
    BY <1>2, <2>1, ReadyReadStep
<1>3. ASSUME NEW r \in Reader, Turn(r) PROVE Inv'
  BY <1>3, TurnStep
<1>4. ASSUME NEW r \in Reader, CloseConnection(r) PROVE Inv'
  <2>1. TypeOK'
    BY <1>4 DEF Inv, TypeOK, CloseConnection
  <2> QED
    BY <1>4, <2>1, QuietReader DEF Inv, CloseConnection
<1>5. CASE OpenConnection
  BY <1>5, OpenStep
<1>6. CASE UNCHANGED vars
  <2>1. TypeOK'
    BY <1>6 DEF Inv, TypeOK, vars
  <2> QED
    BY <1>6, <2>1, QuietReader DEF Inv, vars
<1> QED
  BY <1>1, <1>2, <1>3, <1>4, <1>5, <1>6 DEF Next

LEMMA Invariance == Spec => []Inv
  BY Initially, Preserved, PTL DEF Spec
-----------------------------------------------------------------------------
(***************************************************************************)
(* Type correctness: buffers never hold more than has arrived, and a       *)
(* length that is known is one of a message.                               *)
(***************************************************************************)
THEOREM TypeCorrect == Spec => []TypeOK
<1>1. Inv => TypeOK
  BY DEF Inv
<1> QED
  BY <1>1, Invariance, PTL

(***************************************************************************)
(* onReadyRead and _readRxBuffer make of the bytes the messages that were  *)
(* written, whole and in order, however they come in pieces.               *)
(***************************************************************************)
THEOREM WholeCorrect == Spec => []WholeMessages
<1>1. Inv => WholeMessages
  BY DEF Inv, ReaderOK, Clean, Aligned, WholeMessages
<1> QED
  BY <1>1, Invariance, PTL
-----------------------------------------------------------------------------
(* TimestampUnwrap *)

(* When the counter began the round of the newest message. *)
RoundBegin == Round(newest) * Period

(* The code's wait is over when the next wrap can be seen. *)
WaitEnds == second * Max + 2 * (MaxGap + MaxDelay) <= 2 * Period

TimeTypes == /\ second \in Nat \ {0}
             /\ now \in Nat /\ sentAt \in Nat /\ flight \in SUBSET Nat
             /\ newest \in Nat \cup {Never} /\ lastTimestamp \in Nat
             /\ lastWrapTime \in Nat \cup {Never} /\ timestampOffset \in Nat
             /\ dated.time \in Nat

(* The device and the link keep their times. *)
OnTime == /\ sentAt <= now /\ now <= sentAt + MaxGap /\ newest <= sentAt
          /\ \A t \in flight : t <= sentAt /\ now <= t + MaxDelay

(* After each message, and after the newest received, the next is on its    *)
(* way, or was not sent.                                                    *)
NextComes == \A x \in flight \cup {newest} :
               x >= newest /\ x # Never /\ x # sentAt
                 => \E u \in flight : x < u /\ u <= x + MaxGap

NoneYet == newest = Never => /\ lastTimestamp = 0 /\ timestampOffset = 0
                             /\ lastWrapTime = Never
                             /\ \E t \in flight : t <= Max

(* What the translator remembers is the last message, one of the newest. *)
LastOne == newest # Never => /\ dated.time <= newest /\ newest <= dated.time + MaxLate
                             /\ lastTimestamp = Stamp(dated.time)
                             /\ dated.given = timestampOffset * Max + lastTimestamp

(* No more wraps are counted than there were.  When none is left out, the   *)
(* clock was read in the present round; otherwise not long before it.       *)
Counted ==
    newest # Never =>
      /\ timestampOffset <= Round(newest)
      /\ lastWrapTime = Never => Round(newest) = 0
      /\ lastWrapTime # Never =>
            /\ 2 * RoundBegin <= 2 * lastWrapTime + second * Max
            /\ timestampOffset = Round(newest) => RoundBegin <= lastWrapTime

(* With a wait that ends in time none is left out, and the clock was read   *)
(* early in the present round.                                              *)
CountedAll ==
    WaitEnds /\ newest # Never =>
      /\ timestampOffset = Round(newest)
      /\ lastWrapTime # Never => lastWrapTime < RoundBegin + MaxGap + MaxDelay

TimeInv == TimeTypes /\ OnTime /\ NextComes /\ NoneYet /\ LastOne /\ Counted /\ CountedAll

LEMMA Times ==
  /\ Max \in Nat /\ Max > 0 /\ Period \in Nat /\ Period = Max + 1
  /\ MaxDelay \in Nat /\ MaxLate \in Nat /\ MaxGap \in Nat
  /\ 10 * MaxLate <= Max /\ 2 * (MaxLate + MaxGap + MaxDelay) <= Max
BY TimestampAssumption DEF Period

(* The wait is at least half of Max. *)
LEMMA Wait ==
  ASSUME second \in Nat \ {0}
  PROVE  second * Max \in Nat /\ Max <= second * Max
<1>1. Max \in Nat
  BY Times
<1>2. PICK k \in Nat : second = k + 1
  OBVIOUS
<1>3. second * Max = k * Max + Max /\ k * Max \in Nat
  BY <1>1, <1>2
<1> QED BY <1>1, <1>3

LEMMA Quotient ==
  ASSUME NEW a \in Nat, NEW m \in Nat, m > 0
  PROVE  a = m * (a \div m) + (a % m) /\ a % m \in 0 .. m - 1 /\ a \div m \in Nat
OBVIOUS

LEMMA Rounds ==
  ASSUME NEW w \in Nat
  PROVE  w * Period \in Nat /\ (w + 1) * Period = w * Period + Period /\ 0 * Period = 0
         /\ (w > 0 => (w - 1) * Period = w * Period - Period)
         /\ (w > 0 => Period <= w * Period)
<1>1. Max \in Nat /\ Period = Max + 1
  BY Times
<1> QED BY <1>1

(* The counter at a time of round w. *)
LEMMA StampInRound ==
  ASSUME NEW t \in Nat, NEW w \in Nat, w * Period <= t, t < w * Period + Period
  PROVE  Stamp(t) = t - w * Period /\ t \div Period = w
<1> DEFINE P == Period
           q == t \div P
           r == t % P
<1>1. P \in Nat /\ P > 0
  BY Times
<1>2. t = P * q + r /\ r \in 0 .. P - 1 /\ q \in Nat
  BY <1>1, Quotient
<1>3. Stamp(t) = r
  BY DEF Stamp
<1> HIDE DEF P, q, r
<1>4. w * P <= t /\ t < w * P + P
  BY DEF P
<1>5. ASSUME q < w PROVE FALSE
  <2>1. PICK d \in Nat : w = q + 1 + d
    BY <1>2, <1>5
  <2>2. w * P = P * q + P + d * P /\ d * P >= 0
    BY <1>1, <1>2, <2>1
  <2> QED BY <1>1, <1>2, <1>4, <2>2
<1>6. ASSUME w < q PROVE FALSE
  <2>1. PICK d \in Nat : q = w + 1 + d
    BY <1>2, <1>6
  <2>2. P * q = w * P + P + d * P /\ d * P >= 0
    BY <1>1, <1>2, <2>1
  <2> QED BY <1>1, <1>2, <1>4, <2>2
<1>7. q = w
  BY <1>2, <1>5, <1>6
<1>8. t = w * P + r
  BY <1>1, <1>2, <1>7
<1>9. w * P \in Nat
  BY <1>1
<1>10. r = t - w * P
  BY <1>2, <1>8, <1>9
<1> QED BY <1>3, <1>7, <1>10 DEF P, q

(* The same in the rounds beside it. *)
LEMMA StampNear ==
  ASSUME NEW t \in Nat, NEW w \in Nat
  PROVE  LET b == w * Period
         IN  /\ b <= t /\ t < b + Period => Stamp(t) = t - b
             /\ t < b /\ b - Period <= t => Stamp(t) = t - (b - Period)
             /\ b + Period <= t /\ t < b + 2 * Period => Stamp(t) = t - (b + Period)
<1> DEFINE b == w * Period
<1>1. Period \in Nat
  BY Times
<1>2. b \in Nat /\ (w + 1) * Period = b + Period
      /\ (w > 0 => (w - 1) * Period = b - Period) /\ (w = 0 => b = 0)
  BY Rounds
<1>3. b <= t /\ t < b + Period => Stamp(t) = t - b
  BY StampInRound
<1>4. ASSUME t < b, b - Period <= t PROVE Stamp(t) = t - (b - Period)
  <2>1. w > 0 /\ w - 1 \in Nat
    BY <1>2, <1>4
  <2>2. (w - 1) * Period = b - Period
    BY <1>2, <2>1
  <2>3. t < (b - Period) + Period
    BY <1>1, <1>2, <1>4
  <2> HIDE DEF b
  <2> QED BY <1>4, <2>1, <2>2, <2>3, StampInRound
<1>5. ASSUME b + Period <= t, t < b + 2 * Period PROVE Stamp(t) = t - (b + Period)
  <2>1. t < (b + Period) + Period
    BY <1>1, <1>2, <1>5
  <2>2. (w + 1) * Period = b + Period /\ w + 1 \in Nat
    BY <1>2
  <2> HIDE DEF b
  <2> QED BY <1>5, <2>1, <2>2, StampInRound
<1> HIDE DEF b
<1> QED BY <1>3, <1>4, <1>5 DEF b

(* The round of a time, and when it began. *)
LEMMA RoundFacts ==
  ASSUME NEW t \in Nat
  PROVE  Round(t) \in Nat /\ Round(t) * Period <= t /\ t < Round(t) * Period + Period
<1> DEFINE P == Period
           q == t \div P
           r == t % P
<1>1. P \in Nat /\ P > 0
  BY Times
<1>2. t = P * q + r /\ r \in 0 .. P - 1 /\ q \in Nat
  BY <1>1, Quotient
<1> HIDE DEF P, q, r
<1>3. P * q = q * P /\ q * P \in Nat
  BY <1>1, <1>2
<1>4. q * P <= t /\ t < q * P + P
  BY <1>1, <1>2, <1>3
<1> QED BY <1>2, <1>4 DEF P, q, Round

(* The newest message received was sent not long ago. *)
LEMMA Recent ==
  ASSUME TimeInv, newest # Never
  PROVE  now <= newest + (MaxGap + MaxDelay)
<1>1. /\ now \in Nat /\ newest \in Nat /\ sentAt \in Nat /\ flight \in SUBSET Nat
      /\ MaxGap \in Nat /\ MaxDelay \in Nat
  BY Times DEF TimeInv, TimeTypes
<1>2. CASE newest = sentAt
  BY <1>1, <1>2 DEF TimeInv, OnTime
<1>3. CASE newest # sentAt
  <2>1. PICK u \in flight : newest < u /\ u <= newest + MaxGap
    BY <1>1, <1>3 DEF TimeInv, NextComes
  <2>2. now <= u + MaxDelay /\ u \in Nat
    BY <1>1 DEF TimeInv, OnTime
  <2> QED BY <1>1, <2>1, <2>2
<1> QED BY <1>2, <1>3

(* The first message after a wrap is seen to be lower, and counts unless    *)
(* the wait is on; any other counts only if a wrap was left out.            *)
LEMMA WrapTold ==
  ASSUME TimeInv, newest # Never, NEW t \in flight, newest <= t + MaxLate
  PROVE  /\ RoundBegin + Period <= t => (Wraps(Stamp(t)) <=> LongSinceWrap)
         /\ t < RoundBegin + Period /\ Wraps(Stamp(t)) => timestampOffset < Round(newest)
         /\ t \in Nat /\ t < RoundBegin + 2 * Period /\ RoundBegin - Period <= t
<1> DEFINE w == Round(newest)
           b == RoundBegin
           L == dated.time
           P == Period
           S == MaxLate + MaxGap + MaxDelay
           W == second * Max
<1>1. /\ now \in Nat /\ newest \in Nat /\ t \in Nat /\ L \in Nat
      /\ timestampOffset \in Nat
      /\ lastWrapTime \in Nat \cup {Never} /\ lastTimestamp \in Nat
  BY DEF TimeInv, TimeTypes
<1>2. /\ P \in Nat /\ P = Max + 1 /\ Max \in Nat /\ Max > 0
      /\ MaxLate \in Nat /\ MaxGap \in Nat /\ MaxDelay \in Nat
      /\ 10 * MaxLate <= Max /\ 2 * S <= Max
      /\ W \in Nat /\ Max <= W
  BY Times, Wait DEF TimeInv, TimeTypes
<1>3. w \in Nat /\ b \in Nat /\ (w = 0 => b = 0) /\ b = w * Period
      /\ b <= newest /\ newest < b + P
  <2>1. w \in Nat
    BY <1>1, RoundFacts
  <2> QED BY <1>1, <2>1, RoundFacts, Rounds DEF RoundBegin
<1>4. /\ L <= newest /\ newest <= L + MaxLate /\ lastTimestamp = Stamp(L)
      /\ timestampOffset <= w
      /\ lastWrapTime = Never => w = 0
      /\ lastWrapTime # Never /\ timestampOffset = w => b <= lastWrapTime
  BY DEF TimeInv, LastOne, Counted
<1>5. t <= now /\ now <= newest + (MaxGap + MaxDelay)
  <2>1. t <= sentAt /\ sentAt <= now /\ sentAt \in Nat
    BY DEF TimeInv, TimeTypes, OnTime
  <2> QED BY <1>1, <2>1, Recent
<1>6. t < b + 2 * P /\ b - P <= t /\ b - P <= L
  <2> HIDE DEF b, L, P, W
  <2> QED BY <1>1, <1>2, <1>3, <1>4, <1>5
<1>7. /\ b <= t /\ t < b + P => Stamp(t) = t - b
      /\ t < b => Stamp(t) = t - (b - P)
      /\ b + P <= t => Stamp(t) = t - (b + P)
  BY <1>1, <1>3, <1>6, StampNear
<1>8. /\ b <= L => lastTimestamp = L - b
      /\ L < b => lastTimestamp = L - (b - P)
  <2>1. L < b + P
    <3> HIDE DEF b, L, P
    <3> QED BY <1>1, <1>2, <1>3, <1>4
  <2> QED BY <1>1, <1>3, <1>4, <1>6, <2>1, StampNear
<1>9. /\ Wraps(Stamp(t)) <=> 10 * Stamp(t) < 10 * lastTimestamp - Max /\ LongSinceWrap
      /\ LongSinceWrap <=> lastWrapTime = Never \/ 2 * now > 2 * lastWrapTime + W
  BY DEF Wraps, MuchLower, LongSinceWrap
<1> DEFINE s == Stamp(t)
<1> HIDE DEF b, w, L, P, s, W
<1>10. CASE b + P <= t
  <2>1. b <= L
    BY <1>1, <1>2, <1>3, <1>4, <1>5, <1>10
  <2>2. lastTimestamp = L - b
    BY <1>8, <2>1
  <2>3. s = t - (b + P)
    BY <1>7, <1>10 DEF s
  <2>4. 10 * s < 10 * lastTimestamp - Max
    BY <1>1, <1>2, <1>3, <1>4, <1>5, <2>2, <2>3
  <2>5. ~(t < b + P)
    BY <1>1, <1>2, <1>3, <1>10
  <2> QED BY <1>9, <2>4, <2>5, <1>1, <1>6 DEF s, b, P
<1>11. CASE b <= t /\ t < b + P
  <2>1. s = t - b
    BY <1>7, <1>11 DEF s
  <2>2. ~(b + P <= t)
    BY <1>1, <1>2, <1>3, <1>11
  <2>3. CASE b <= L
    <3>1. lastTimestamp = L - b
      BY <1>8, <2>3
    <3>2. ~(10 * s < 10 * lastTimestamp - Max)
      BY <1>1, <1>2, <1>3, <1>4, <2>1, <3>1
    <3> QED BY <1>1, <1>6, <1>9, <2>2, <3>2 DEF s, b, P
  <2>4. CASE L < b
    <3>1. lastWrapTime # Never
      BY <1>1, <1>3, <1>4, <2>4
    <3>2. ASSUME timestampOffset = w PROVE ~LongSinceWrap
      <4>1. b <= lastWrapTime /\ lastWrapTime \in Nat
        BY <1>1, <1>4, <3>1, <3>2
      <4>2. ~(2 * now > 2 * lastWrapTime + W)
        BY <1>1, <1>2, <1>3, <1>4, <1>5, <2>4, <4>1
      <4> QED BY <1>9, <3>1, <4>2
    <3>3. LongSinceWrap => timestampOffset < w
      BY <1>1, <1>3, <1>4, <3>2
    <3> QED BY <1>1, <1>6, <1>9, <2>2, <3>3 DEF b, P, w
  <2> QED BY <1>1, <1>3, <2>3, <2>4
<1>12. CASE t < b
  <2>1. s = t - (b - P)
    BY <1>7, <1>12 DEF s
  <2>2. lastTimestamp <= Max
    BY <1>1, <1>2, <1>3, <1>4, <1>6, <1>8
  <2>3. ~(10 * s < 10 * lastTimestamp - Max)
    BY <1>1, <1>2, <1>3, <1>4, <2>1, <2>2
  <2>4. ~(b + P <= t)
    BY <1>1, <1>2, <1>3, <1>12
  <2> QED BY <1>1, <1>6, <1>9, <2>3, <2>4 DEF s, b, P
<1> QED BY <1>1, <1>2, <1>3, <1>10, <1>11, <1>12
-----------------------------------------------------------------------------
LEMMA ReceiveTimes ==
  ASSUME TimeInv, NEW t \in flight, Receive(t)
  PROVE  OnTime' /\ NextComes' /\ newest' \in Nat /\ t \in Nat /\ Stamp(t) \in Nat
         /\ t <= newest' /\ newest <= newest' /\ newest' <= t + MaxLate
<1>1. /\ sentAt \in Nat /\ t \in Nat /\ newest \in Nat \cup {Never} /\ flight \in SUBSET Nat
      /\ MaxLate \in Nat /\ Period \in Nat /\ Period > 0
  BY Times DEF TimeInv, TimeTypes
<1>2. /\ newest' = IF t > newest THEN t ELSE newest
      /\ flight' = flight \ {t} /\ now' = now /\ sentAt' = sentAt
      /\ newest # Never => newest <= t + MaxLate
  BY DEF Receive
<1>3. newest' \in Nat /\ t <= newest' /\ newest <= newest' /\ newest' <= t + MaxLate
  BY <1>1, <1>2 DEF Never
<1>4. OnTime'
  <2>1. newest' <= sentAt
    BY <1>2 DEF TimeInv, OnTime
  <2> QED BY <1>2, <2>1 DEF TimeInv, OnTime
<1>5. NextComes'
  <2> SUFFICES ASSUME NEW x \in flight' \cup {newest'}, x >= newest', x # sentAt
               PROVE  \E u \in flight' : x < u /\ u <= x + MaxGap
    BY <1>2 DEF NextComes
  <2>1. x \in flight \cup {newest} /\ x >= newest /\ x # Never /\ x \in Nat
    BY <1>1, <1>2, <1>3 DEF Never
  <2>2. PICK u \in flight : x < u /\ u <= x + MaxGap
    BY <2>1 DEF TimeInv, NextComes
  <2>3. u # t
    BY <1>1, <1>3, <2>1, <2>2
  <2> QED BY <1>2, <2>2, <2>3
<1>6. Stamp(t) \in Nat
  <2>1. t % Period \in 0 .. Period - 1
    BY <1>1, Quotient
  <2> QED BY <1>1, <2>1 DEF Stamp
<1> QED BY <1>1, <1>3, <1>4, <1>5, <1>6

(* The first message of all is of the first round and no wrap. *)
LEMMA FirstCounts ==
  ASSUME TimeInv, newest = Never, NEW t \in flight, Receive(t)
  PROVE  Counted' /\ CountedAll'
<1>1. /\ t \in Nat /\ flight \in SUBSET Nat /\ MaxGap \in Nat /\ MaxDelay \in Nat
      /\ Max \in Nat /\ Max > 0 /\ Period \in Nat /\ Period = Max + 1
  BY Times DEF TimeInv, TimeTypes
<1>2. lastTimestamp = 0 /\ timestampOffset = 0 /\ lastWrapTime = Never
  BY DEF TimeInv, NoneYet
<1>3. newest' = t
  BY <1>1 DEF Receive, Never
<1>4. t <= Max
  <2>1. PICK u \in flight : u <= Max
    BY DEF TimeInv, NoneYet
  <2>2. t <= u /\ u \in Nat
    BY <1>1 DEF Receive
  <2> QED BY <1>1, <2>1, <2>2
<1>5. Stamp(t) = t /\ Round(t) = 0
  <2>1. 0 \in Nat /\ 0 * Period = 0 /\ 0 <= t /\ t < 0 + Period
    BY <1>1, <1>4
  <2> QED BY <1>1, <2>1, StampInRound DEF Round
<1>6. ~Wraps(Stamp(t))
  BY <1>1, <1>2, <1>5 DEF Wraps, MuchLower
<1>7. timestampOffset' = 0 /\ lastWrapTime' = Never
  BY <1>2, <1>6 DEF Receive
<1>8. Round(newest)' = 0
  BY <1>3, <1>5 DEF Round
<1> QED BY <1>7, <1>8 DEF Counted, CountedAll

(* The first message of a round. *)
LEMMA NextRoundCounts ==
  ASSUME TimeInv, newest # Never, NEW t \in flight, Receive(t), RoundBegin + Period <= t
  PROVE  Counted' /\ CountedAll'
<1> DEFINE w == Round(newest)
           b == RoundBegin
           W == second * Max
<1>1. /\ now \in Nat /\ t \in Nat /\ newest \in Nat /\ timestampOffset \in Nat
      /\ lastWrapTime \in Nat \cup {Never}
      /\ MaxGap \in Nat /\ MaxDelay \in Nat /\ Period \in Nat /\ Period > 0
      /\ W \in Nat
  BY Times, Wait DEF TimeInv, TimeTypes
<1>2. /\ newest' = (IF t > newest THEN t ELSE newest) /\ now' = now /\ second' = second
      /\ newest <= t + MaxLate
      /\ IF Wraps(Stamp(t)) THEN lastWrapTime' = now /\ timestampOffset' = timestampOffset + 1
         ELSE lastWrapTime' = lastWrapTime /\ timestampOffset' = timestampOffset
  BY DEF Receive
<1>3. /\ w \in Nat /\ b \in Nat /\ b = w * Period /\ b <= newest /\ newest < b + Period
      /\ (w + 1) * Period = b + Period
  <2>1. w \in Nat
    BY <1>1, RoundFacts
  <2> QED BY <1>1, <2>1, RoundFacts, Rounds DEF RoundBegin
<1>4. (Wraps(Stamp(t)) <=> LongSinceWrap) /\ t < b + 2 * Period
  BY <1>2, WrapTold
<1>5. /\ timestampOffset <= w
      /\ lastWrapTime = Never => w = 0
  BY DEF TimeInv, Counted
<1>6. t <= now /\ now <= newest + (MaxGap + MaxDelay)
  <2>1. t <= sentAt /\ sentAt <= now /\ sentAt \in Nat
    BY DEF TimeInv, TimeTypes, OnTime
  <2> QED BY <1>1, <2>1, Recent
<1>7. LongSinceWrap <=> lastWrapTime = Never \/ 2 * now > 2 * lastWrapTime + W
  BY DEF LongSinceWrap
<1>8. WaitEnds => /\ timestampOffset = w
                  /\ lastWrapTime # Never => lastWrapTime < b + MaxGap + MaxDelay
                  /\ W + 2 * (MaxGap + MaxDelay) <= 2 * Period
  BY DEF TimeInv, CountedAll, WaitEnds
<1>9. b + Period <= t
  OBVIOUS
<1> HIDE DEF w, b, W
<1>10. newest' = t
  BY <1>1, <1>2, <1>3, <1>9
<1>11. Round(t) = w + 1
  <2>1. w + 1 \in Nat /\ (w + 1) * Period <= t /\ t < (w + 1) * Period + Period
    BY <1>1, <1>3, <1>4, <1>9
  <2> QED BY <1>1, <2>1, StampInRound DEF Round
<1>12. Round(newest)' = w + 1 /\ RoundBegin' = b + Period
  BY <1>3, <1>10, <1>11 DEF Round, RoundBegin
<1>13. WaitEnds => LongSinceWrap
  BY <1>1, <1>3, <1>6, <1>7, <1>8, <1>9
<1>14. CASE LongSinceWrap
  <2>1. lastWrapTime' = now /\ timestampOffset' = timestampOffset + 1 /\ second' = second
    BY <1>2, <1>4, <1>14
  <2>2. timestampOffset' <= w + 1 /\ now # Never
    BY <1>1, <1>3, <1>5, <2>1 DEF Never
  <2>3. 2 * (b + Period) <= 2 * now + W /\ b + Period <= now
    BY <1>1, <1>3, <1>6, <1>9
  <2>4. Counted'
    BY <1>12, <2>1, <2>2, <2>3 DEF Counted, W
  <2>5. now < (b + Period) + MaxGap + MaxDelay
    BY <1>1, <1>3, <1>6
  <2>6. CountedAll'
    BY <1>8, <1>12, <2>1, <2>5 DEF CountedAll, WaitEnds
  <2> QED BY <2>4, <2>6
<1>15. CASE ~LongSinceWrap
  <2>1. /\ lastWrapTime' = lastWrapTime /\ timestampOffset' = timestampOffset
        /\ second' = second /\ lastWrapTime # Never /\ 2 * now <= 2 * lastWrapTime + W
    BY <1>1, <1>2, <1>4, <1>7, <1>15
  <2>2. timestampOffset <= w + 1 /\ timestampOffset # w + 1
    BY <1>1, <1>3, <1>5
  <2>3. 2 * (b + Period) <= 2 * lastWrapTime + W
    BY <1>1, <1>3, <1>6, <1>9, <2>1
  <2>4. Counted'
    BY <1>12, <2>1, <2>2, <2>3 DEF Counted, W
  <2>5. CountedAll'
    BY <1>13, <1>15, <2>1 DEF CountedAll, WaitEnds
  <2> QED BY <2>4, <2>5
<1> QED BY <1>14, <1>15

(* A later message of a round, or a late one. *)
LEMMA SameRoundCounts ==
  ASSUME TimeInv, newest # Never, NEW t \in flight, Receive(t), t < RoundBegin + Period
  PROVE  Counted' /\ CountedAll'
<1> DEFINE w == Round(newest)
           b == RoundBegin
           W == second * Max
<1>1. /\ now \in Nat /\ sentAt \in Nat /\ t \in Nat /\ newest \in Nat
      /\ timestampOffset \in Nat
      /\ lastWrapTime \in Nat \cup {Never}
      /\ Period \in Nat /\ Period > 0 /\ W \in Nat
  BY Times, Wait DEF TimeInv, TimeTypes
<1>2. /\ newest' = (IF t > newest THEN t ELSE newest) /\ now' = now /\ second' = second
      /\ newest <= t + MaxLate
      /\ IF Wraps(Stamp(t)) THEN lastWrapTime' = now /\ timestampOffset' = timestampOffset + 1
         ELSE lastWrapTime' = lastWrapTime /\ timestampOffset' = timestampOffset
  BY DEF Receive
<1>3. w \in Nat /\ b \in Nat /\ b = w * Period /\ b <= newest /\ newest < b + Period
  <2>1. w \in Nat
    BY <1>1, RoundFacts
  <2> QED BY <1>1, <2>1, RoundFacts, Rounds DEF RoundBegin
<1>4. Wraps(Stamp(t)) => timestampOffset < w
  BY <1>2, WrapTold
<1>5. /\ timestampOffset <= w
      /\ lastWrapTime = Never => w = 0
      /\ lastWrapTime # Never => /\ 2 * b <= 2 * lastWrapTime + W
                                 /\ timestampOffset = w => b <= lastWrapTime
  BY DEF TimeInv, Counted
<1>6. newest <= now
  <2>1. newest <= sentAt /\ sentAt <= now
    BY DEF TimeInv, OnTime
  <2> QED BY <1>1, <2>1
<1>7. WaitEnds => timestampOffset = w
  BY DEF TimeInv, CountedAll
<1>8. b <= newest' /\ newest' < b + Period /\ newest' \in Nat
  <2>1. t < b + Period
    BY DEF b
  <2> QED BY <1>1, <1>2, <1>3, <2>1
<1> HIDE DEF w, b, W
<1>9. newest' \div Period = w
  BY <1>3, <1>8, StampInRound
<1>10. Round(newest)' = w /\ RoundBegin' = b
  BY <1>3, <1>9 DEF Round, RoundBegin
<1>11. CASE Wraps(Stamp(t))
  <2>1. /\ lastWrapTime' = now /\ timestampOffset' = timestampOffset + 1 /\ second' = second
        /\ timestampOffset < w
    BY <1>2, <1>4, <1>11
  <2>2. timestampOffset' <= w /\ now # Never
    BY <1>1, <1>3, <2>1 DEF Never
  <2>3. 2 * b <= 2 * now + W /\ b <= now
    BY <1>1, <1>3, <1>6
  <2>4. Counted'
    BY <1>10, <2>1, <2>2, <2>3 DEF Counted, W
  <2>5. ~WaitEnds
    BY <1>1, <1>3, <1>7, <2>1
  <2>6. CountedAll'
    BY <2>1, <2>5 DEF CountedAll, WaitEnds
  <2> QED BY <2>4, <2>6
<1>12. CASE ~Wraps(Stamp(t))
  <2>1. lastWrapTime' = lastWrapTime /\ timestampOffset' = timestampOffset /\ second' = second
    BY <1>2, <1>12
  <2>2. Counted'
    BY <1>5, <1>10, <2>1 DEF Counted, W
  <2>3. WaitEnds /\ lastWrapTime # Never => lastWrapTime < b + MaxGap + MaxDelay
    BY DEF TimeInv, CountedAll, b
  <2>4. CountedAll'
    BY <1>7, <1>10, <2>1, <2>3 DEF CountedAll, WaitEnds
  <2> QED BY <2>2, <2>4
<1> QED BY <1>11, <1>12

LEMMA ReceiveCounts ==
  ASSUME TimeInv, NEW t \in flight, Receive(t)
  PROVE  TimeInv'
<1>1. /\ OnTime' /\ NextComes' /\ newest' \in Nat /\ t \in Nat /\ Stamp(t) \in Nat
      /\ t <= newest' /\ newest' <= t + MaxLate
  BY ReceiveTimes
<1>2. /\ now \in Nat /\ sentAt \in Nat /\ flight \in SUBSET Nat /\ second \in Nat \ {0}
      /\ timestampOffset \in Nat /\ lastWrapTime \in Nat \cup {Never}
  BY DEF TimeInv, TimeTypes
<1>3. /\ flight' = flight \ {t} /\ now' = now /\ sentAt' = sentAt /\ second' = second
      /\ lastTimestamp' = Stamp(t)
      /\ dated'.time = t /\ dated'.given = timestampOffset' * Max + Stamp(t)
      /\ IF Wraps(Stamp(t)) THEN lastWrapTime' = now /\ timestampOffset' = timestampOffset + 1
         ELSE lastWrapTime' = lastWrapTime /\ timestampOffset' = timestampOffset
  BY DEF Receive, Given
<1>4. TimeTypes' /\ NoneYet' /\ LastOne'
  BY <1>1, <1>2, <1>3 DEF TimeTypes, NoneYet, Never, LastOne
<1>5. Counted' /\ CountedAll'
  <2>1. CASE newest = Never
    BY <2>1, FirstCounts
  <2>2. CASE newest # Never
    <3>1. RoundBegin \in Int /\ Period \in Nat
      <4>1. newest \in Nat
        BY <2>2 DEF TimeInv, TimeTypes
      <4> QED BY <4>1, RoundFacts, Rounds, Times DEF RoundBegin
    <3> QED BY <1>1, <2>2, <3>1, NextRoundCounts, SameRoundCounts
  <2> QED BY <2>1, <2>2
<1> QED BY <1>1, <1>4, <1>5 DEF TimeInv

LEMMA OthersKeepTime ==
  ASSUME TimeInv, Tick \/ DeviceSends
  PROVE  TimeInv'
<1>1. /\ now \in Nat /\ sentAt \in Nat /\ flight \in SUBSET Nat /\ newest \in Nat \cup {Never}
      /\ second \in Nat \ {0} /\ MaxGap \in Nat /\ MaxDelay \in Nat
  BY Times DEF TimeInv, TimeTypes
<1>2. UNCHANGED <<second, newest, lastTimestamp, lastWrapTime, timestampOffset, dated>>
  BY DEF Tick, DeviceSends
<1>3. Round(newest)' = Round(newest) /\ RoundBegin' = RoundBegin
  BY <1>2 DEF Round, RoundBegin
<1>4. Counted' /\ CountedAll' /\ LastOne'
  BY <1>2, <1>3 DEF TimeInv, Counted, CountedAll, LastOne, Stamp, WaitEnds
<1>5. CASE Tick
  <2>1. /\ now' = now + 1 /\ UNCHANGED <<sentAt, flight>> /\ now < sentAt + MaxGap
        /\ \A t \in flight : now < t + MaxDelay
    BY <1>5 DEF Tick
  <2>2. TimeTypes' /\ NextComes' /\ NoneYet'
    BY <1>1, <1>2, <2>1 DEF TimeInv, TimeTypes, NextComes, NoneYet
  <2>3. OnTime'
    BY <1>1, <1>2, <2>1 DEF TimeInv, OnTime
  <2> QED BY <1>4, <2>2, <2>3 DEF TimeInv
<1>6. CASE DeviceSends
  <2>1. sentAt < now /\ sentAt' = now /\ flight' = flight \cup {now} /\ now' = now
    BY <1>6 DEF DeviceSends
  <2>2. TimeTypes' /\ NoneYet'
    BY <1>1, <1>2, <2>1 DEF TimeInv, TimeTypes, NoneYet
  <2>3. /\ sentAt <= now /\ now <= sentAt + MaxGap /\ newest <= sentAt
        /\ \A t \in flight : t <= sentAt /\ now <= t + MaxDelay
    BY DEF TimeInv, OnTime
  <2>4. newest <= now
    BY <1>1, <2>1, <2>3 DEF Never
  <2>5. ASSUME NEW t \in flight' PROVE t <= now /\ now <= t + MaxDelay
    <3>1. t = now => t <= now /\ now <= t + MaxDelay
      BY <1>1
    <3>2. t \in flight => t \in Nat /\ t <= now /\ now <= t + MaxDelay
      BY <1>1, <2>1, <2>3
    <3> QED BY <2>1, <3>1, <3>2
  <2>6. OnTime'
    BY <1>1, <1>2, <2>1, <2>4, <2>5 DEF OnTime
  <2>7. ASSUME NEW x \in flight' \cup {newest}, x >= newest, x # Never, x # now
        PROVE  \E u \in flight' : x < u /\ u <= x + MaxGap
    <3>1. x \in flight \cup {newest}
      BY <2>1, <2>7
    <3>2. CASE x = sentAt
      BY <1>1, <2>1, <2>3, <3>2
    <3>3. CASE x # sentAt
      BY <2>1, <2>7, <3>1, <3>3 DEF TimeInv, NextComes
    <3> QED BY <3>2, <3>3
  <2>8. NextComes'
    BY <1>2, <2>1, <2>7 DEF NextComes
  <2> QED BY <1>4, <2>2, <2>6, <2>8 DEF TimeInv
<1> QED BY <1>5, <1>6

LEMMA TimeInvariance == TranslatorSpec => []TimeInv
<1>1. TranslatorInit => TimeInv
  <2> SUFFICES ASSUME TranslatorInit PROVE TimeInv
    OBVIOUS
  <2>1. /\ second \in Seconds /\ now \in 0 .. Max /\ sentAt = now /\ flight = {now} /\ newest = Never
        /\ lastTimestamp = 0 /\ lastWrapTime = Never /\ timestampOffset = 0
        /\ dated = [time |-> 0, given |-> 0]
    BY DEF TranslatorInit
  <2>2. /\ second \in Nat \ {0} /\ now \in Nat /\ now <= Max
        /\ MaxGap \in Nat /\ MaxDelay \in Nat
    BY <2>1, Times, TimestampAssumption
  <2>3. TimeTypes /\ OnTime /\ NoneYet
    BY <2>1, <2>2 DEF TimeTypes, OnTime, NoneYet, Never
  <2>4. NextComes /\ LastOne /\ Counted /\ CountedAll
    BY <2>1 DEF NextComes, LastOne, Counted, CountedAll
  <2> QED BY <2>3, <2>4 DEF TimeInv
<1>2. TimeInv /\ [TranslatorNext]_translator_vars => TimeInv'
  <2> SUFFICES ASSUME TimeInv, [TranslatorNext]_translator_vars PROVE TimeInv'
    OBVIOUS
  <2>1. CASE UNCHANGED translator_vars
    BY <2>1 DEF translator_vars, TimeInv, TimeTypes, OnTime, NextComes, NoneYet, LastOne,
                Counted, CountedAll, RoundBegin, Round, Stamp, WaitEnds
  <2>2. CASE \E t \in flight : Receive(t)
    BY <2>2, ReceiveCounts
  <2> QED BY <2>1, <2>2, OthersKeepTime DEF TranslatorNext
<1> QED BY <1>1, <1>2, PTL DEF TranslatorSpec

(* What was counted takes no longer than the rounds there were. *)
LEMMA NeverAheadOfTime ==
  ASSUME TimeInv, newest # Never, dated.time = newest
  PROVE  dated.given <= dated.time
<1> DEFINE w == Round(newest)
           k == timestampOffset
<1>1. newest \in Nat /\ k \in Nat /\ Max \in Nat /\ Period = Max + 1
  BY Times DEF TimeInv, TimeTypes
<1>2. w \in Nat /\ w * Period <= newest /\ newest < w * Period + Period
  BY <1>1, RoundFacts
<1>3. k <= w /\ dated.given = k * Max + Stamp(newest)
  BY DEF TimeInv, Counted, LastOne
<1>4. Stamp(newest) = newest - w * Period
  BY <1>1, <1>2, StampInRound
<1> HIDE DEF w, k
<1>5. k * Max <= w * Period
  <2>1. PICK d \in Nat : w = k + d
    BY <1>1, <1>2, <1>3
  <2>2. /\ w * Period = k * Max + k + d * Max + d
        /\ k * Max \in Nat /\ d * Max \in Nat
    BY <1>1, <2>1
  <2> QED BY <1>1, <2>1, <2>2
<1>6. k * Max \in Nat /\ w * Period \in Nat
  BY <1>1, <1>2
<1> QED BY <1>1, <1>3, <1>4, <1>5, <1>6

LEMMA WrapsReal == TimeInv => NoWrapInvented
BY NeverAheadOfTime DEF TimeInv, Counted, NoWrapInvented

LEMMA WrapsSeen == TimeInv => MissedOnlyInWait
<1> SUFFICES ASSUME TimeInv, newest # Never, lastWrapTime # Never
             PROVE  2 * Round(newest) * Period <= 2 * lastWrapTime + second * Max
  BY DEF TimeInv, Counted, MissedOnlyInWait
<1>1. 2 * RoundBegin <= 2 * lastWrapTime + second * Max
  BY DEF TimeInv, Counted
<1>2. Round(newest) \in Nat /\ Period \in Nat
  BY RoundFacts, Times DEF TimeInv, TimeTypes
<1>3. 2 * RoundBegin = 2 * Round(newest) * Period
  BY <1>2 DEF RoundBegin
<1> QED BY <1>1, <1>3

(* A wait of half of Max ends in time. *)
LEMMA HalfEnds == second = 1 => WaitEnds
BY Times DEF WaitEnds

LEMMA RoundsCounted == TimeInv => EveryWrapCounted
BY HalfEnds DEF TimeInv, CountedAll, EveryWrapCounted

(***************************************************************************)
(* No wrap is counted that was none, however late messages come around the *)
(* real ones, and none is missed but in the wait after the last one that   *)
(* was counted, whatever the units of the headers; with the other header   *)
(* in seconds none is missed.  For every size of the counter, and every    *)
(* delay, lateness and silence the assumption allows, after any number of  *)
(* wraps (header_translator.py:161-194).                                   *)
(***************************************************************************)
THEOREM WrapsCorrect == TranslatorSpec => []WrapsCounted
<1>1. TimeInv => WrapsCounted
  BY WrapsReal, WrapsSeen, RoundsCounted DEF WrapsCounted
<1> QED BY <1>1, TimeInvariance, PTL
=============================================================================
