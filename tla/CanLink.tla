------------------------------ MODULE CanLink -------------------------------
(***************************************************************************)
(* Messages over a CAN bus (msgtools/server/CanPlugin.py): nodes cut them  *)
(* into frames, the bus interleaves the frames of the nodes, and one       *)
(* CanConnection puts messages together again, while its port is closed    *)
(* and opened and sends fail half way.                                     *)
(*                                                                         *)
(* A frame or a body carries no bytes: it says which part of which message *)
(* its bytes are (message number, first byte, how many).                   *)
(***************************************************************************)
EXTENDS CanFragmentation, FiniteSets, SequencesExt

CONSTANTS Node,        (* senders, each the Source of its messages           *)
          Id,          (* message ids                                        *)
          Length,      (* lengths of message bodies                          *)
          MaxSends,    (* bound: messages sent                               *)
          MaxFailures, (* bound: sends that raise                            *)
          MaxToggles   (* bound: presses of the Open/Close button            *)

ASSUME LinkAssumption == /\ Length \subseteq 1 .. MAX_MSG_SIZE
                         /\ MaxSends \in Nat
                         /\ MaxFailures \in Nat
                         /\ MaxToggles \in Nat

VARIABLES txq,         (* frames a node has queued in its controller          *)
          canPort,     (* the receiver's port is open                         *)
          rxq,         (* frames in the receiver's socket                     *)
          in_progress, (* in_progress_reassembly: by key, a body so far       *)
          up,          (* no slot of the receiver has raised                  *)
          sent,        (* history: the messages, in order of sending          *)
          seen,        (* history: frames of a message the receiver read      *)
          delivered,   (* the messages reassemble() returned                  *)
          failures, toggles

vars == <<txq, canPort, rxq, in_progress, up, sent, seen, delivered, failures, toggles>>

Init == /\ txq = [n \in Node |-> <<>>]
        /\ canPort = TRUE
        /\ rxq = <<>>
        /\ in_progress = <<>>
        /\ up = TRUE
        /\ sent = <<>>
        /\ seen = <<>>
        /\ delivered = <<>>
        /\ failures = 0
        /\ toggles = 0
-----------------------------------------------------------------------------
(* The frames of message number u: those of fragment(), with the fields of  *)
(* the CAN header and of the start header that reassemble() reads.          *)
FramesOf(u, from, id, length) ==
    LET frames == Frames(length)
    IN  [k \in DOMAIN frames |->
           [id |-> id, source |-> from, total |-> length,
            fragmented |-> frames[k].fragmented, newStream |-> frames[k].newStream,
            part |-> [of |-> u, first |-> frames[k].first, size |-> frames[k].size]]]

(* sendMsg: the controller's queue takes the first k frames, and if these   *)
(* are not all of them the next send() raises.                              *)
Send(n, id, length, k) ==
    LET frames == FramesOf(Len(sent) + 1, n, id, length)
    IN  /\ Len(sent) < MaxSends
        /\ k <= Len(frames)
        /\ failures' = IF k < Len(frames) THEN failures + 1 ELSE failures
        /\ failures' <= MaxFailures
        /\ sent' = Append(sent, [from |-> n, id |-> id, length |-> length])
        /\ seen' = Append(seen, 0)
        /\ txq' = [txq EXCEPT ![n] = @ \o SubSeq(frames, 1, k)]
        /\ UNCHANGED <<canPort, rxq, in_progress, up, delivered, toggles>>

(* The bus carries one frame at a time, of any node that has one.  A closed *)
(* port misses it.                                                          *)
Arbitrate(n) ==
    /\ txq[n] # <<>>
    /\ txq' = [txq EXCEPT ![n] = Tail(@)]
    /\ rxq' = IF canPort THEN Append(rxq, Head(txq[n])) ELSE rxq
    /\ UNCHANGED <<canPort, in_progress, up, sent, seen, delivered, failures, toggles>>

(* openCloseSwitch: closing drops what the socket holds, and keeps the      *)
(* bodies in progress.                                                      *)
OpenCloseSwitch ==
    /\ up
    /\ toggles < MaxToggles
    /\ toggles' = toggles + 1
    /\ canPort' = ~canPort
    /\ rxq' = <<>>
    /\ UNCHANGED <<txq, in_progress, up, sent, seen, delivered, failures>>
-----------------------------------------------------------------------------
(* Slip: the route is not part of the key. *)
KeyWithoutRoute(f) == <<f.id>>

KeyOf(f) == <<f.id, f.source>>

Put(key, progress) ==
    [k \in DOMAIN in_progress \cup {key} |-> IF k = key THEN progress ELSE in_progress[k]]

Pop(key) == [k \in DOMAIN in_progress \ {key} |-> in_progress[k]]

Give(f, total, parts) ==
    delivered' = Append(delivered, [id |-> f.id, from |-> f.source,
                                    length |-> total, parts |-> parts])

Reads(f) ==
    /\ up
    /\ rxq # <<>>
    /\ f = Head(rxq)
    /\ rxq' = Tail(rxq)
    /\ seen' = [seen EXCEPT ![f.part.of] = @ + 1]
    /\ UNCHANGED <<txq, canPort, sent, failures, toggles>>

WholeMessage(f) ==
    /\ ~f.fragmented
    /\ Reads(f)
    /\ Give(f, f.part.size, <<f.part>>)
    /\ UNCHANGED <<in_progress, up>>

(* Slip: a body in progress is finished before the next may begin. *)
NewStreamWaits(f) ==
    /\ f.fragmented /\ f.newStream
    /\ Reads(f)
    /\ in_progress' = IF KeyOf(f) \in DOMAIN in_progress THEN in_progress
                      ELSE Put(KeyOf(f), [total |-> f.total, count |-> f.part.size,
                                          parts |-> <<f.part>>])
    /\ UNCHANGED <<up, delivered>>

(* A new stream replaces the body in progress for its key. *)
NewStream(f) ==
    /\ f.fragmented /\ f.newStream
    /\ Reads(f)
    /\ in_progress' = Put(KeyOf(f), [total |-> f.total, count |-> f.part.size,
                                     parts |-> <<f.part>>])
    /\ UNCHANGED <<up, delivered>>

StrayFragment(f) ==
    /\ f.fragmented /\ ~f.newStream
    /\ KeyOf(f) \notin DOMAIN in_progress
    /\ Reads(f)
    /\ UNCHANGED <<in_progress, up, delivered>>

(* Slip: the comparison is strict. *)
FinishedLate(count, total) == count > total

Finished(count, total) == count >= total

(* Slip: the buffer grows as needed. *)
NeverOverruns(count, total) == FALSE

(* Bytes past the length have no room and their assignment raises: the      *)
(* check before it compares with > and lets the first such byte through.    *)
Overruns(count, total) == count > total

(* The next fragment of a body, whatever its stream and sequence number. *)
Fragment(f) ==
    /\ f.fragmented /\ ~f.newStream
    /\ KeyOf(f) \in DOMAIN in_progress
    /\ Reads(f)
    /\ LET total == in_progress[KeyOf(f)].total
           count == in_progress[KeyOf(f)].count + f.part.size
           parts == Append(in_progress[KeyOf(f)].parts, f.part)
       IN  \/ /\ Overruns(count, total)
              /\ up' = FALSE
              /\ UNCHANGED <<in_progress, delivered>>
           \/ /\ ~Overruns(count, total) /\ Finished(count, total)
              /\ in_progress' = Pop(KeyOf(f))
              /\ Give(f, total, parts)
              /\ UNCHANGED up
           \/ /\ ~Overruns(count, total) /\ ~Finished(count, total)
              /\ in_progress' = Put(KeyOf(f),
                                    [total |-> total, count |-> count, parts |-> parts])
              /\ UNCHANGED <<up, delivered>>

(* onReadReady: one turn of its loop. *)
Reassemble ==
    /\ rxq # <<>>
    /\ LET f == Head(rxq)
       IN  WholeMessage(f) \/ NewStream(f) \/ StrayFragment(f) \/ Fragment(f)

Next == \/ \E n \in Node, id \in Id, length \in Length :
             \E k \in 0 .. packet_count(length) : Send(n, id, length, k)
        \/ \E n \in Node : Arbitrate(n)
        \/ OpenCloseSwitch
        \/ Reassemble

Spec == Init /\ [][Next]_vars

(* The controller retries a frame until the bus takes it, and Qt calls      *)
(* onReadReady while the socket has data.                                   *)
Fairness == WF_vars(Reassemble) /\ \A n \in Node : WF_vars(Arbitrate(n))

FairSpec == Spec /\ Fairness
-----------------------------------------------------------------------------
(* The parts a message of this number and length is cut into. *)
PartsOf(u) ==
    LET length == sent[u].length
    IN  [k \in 1 .. packet_count(length) |->
           [of |-> u, first |-> StartOf(k),
            size |-> Least(length - StartOf(k), max_packet_size(length, StartOf(k)))]]

TotalSize(parts) ==
    LET upTo[k \in 0 .. Len(parts)] == IF k = 0 THEN 0 ELSE upTo[k - 1] + parts[k].size
    IN  upTo[Len(parts)]

(* Whose bytes a part holds. *)
Origin(part) == [id |-> sent[part.of].id, from |-> sent[part.of].from]

(***************************************************************************)
(* The bytes of a body in progress are all of one id and one source, and   *)
(* those of a delivered body of the id and source it is delivered under,   *)
(* even when bodies of several nodes grow at once (CanPlugin.py:227,       *)
(* 252-260).                                                               *)
(***************************************************************************)
SourcesNeverMix ==
    /\ \A d \in Range(delivered) : \A j \in DOMAIN d.parts :
         Origin(d.parts[j]) = [id |-> d.id, from |-> d.from]
    /\ \A key \in DOMAIN in_progress :
         LET parts == in_progress[key].parts
         IN  \A j, k \in DOMAIN parts : Origin(parts[j]) = Origin(parts[k])

(***************************************************************************)
(* A delivered body begins with the first part of a message and has just   *)
(* that message's length, also when the parts after the first come from a  *)
(* later one (CanPlugin.py:229-249, 263-267).                              *)
(***************************************************************************)
BodyOfOneBeginning ==
    \A d \in Range(delivered) :
        /\ d.parts[1].first = 0
        /\ d.length = sent[d.parts[1].of].length
        /\ d.length = TotalSize(d.parts)

(***************************************************************************)
(* A message all of whose frames the receiver reads is delivered intact,   *)
(* whatever was lost before it or is in progress beside it, as long as the *)
(* receiver runs (CanPlugin.py:229-267).                                   *)
(***************************************************************************)
ReadWholeIsDelivered ==
    up => \A u \in DOMAIN sent :
            seen[u] = packet_count(sent[u].length)
              => \E d \in Range(delivered) :
                   /\ d.from = sent[u].from /\ d.id = sent[u].id
                   /\ d.length = sent[u].length
                   /\ d.parts = PartsOf(u)

(* Those of a history's values whose index is chosen, in their order. *)
Chosen(values, indices) ==
    LET upTo[j \in 0 .. Len(values)] ==
          IF j = 0 THEN <<>>
          ELSE IF j \in indices THEN Append(upTo[j - 1], values[j]) ELSE upTo[j - 1]
    IN  upTo[Len(values)]

(* The sent message a delivered one is, whole and under its own id. *)
Whole(d) == LET u == d.parts[1].of
            IN  IF d.parts = PartsOf(u) /\ d.id = sent[u].id THEN u ELSE 0

(* The messages of node n among those sent, and among those delivered.      *)
SentBy(n) == Chosen([u \in DOMAIN sent |-> u], {u \in DOMAIN sent : sent[u].from = n})

DeliveredFrom(n) == Chosen([j \in DOMAIN delivered |-> Whole(delivered[j])],
                           {j \in DOMAIN delivered : delivered[j].from = n})

(***************************************************************************)
(* While the port stays open and no send raises, the bus is the link of    *)
(* NodeLink: nothing lost, doubled, damaged or out of a node's order, and  *)
(* everything delivered in the end.                                        *)
(***************************************************************************)
Link == INSTANCE NodeLink
          WITH Msg <- 1 .. MaxSends,
               outbox <- [n \in Node |-> SentBy(n)],
               arrived <- [n \in Node |-> DeliveredFrom(n)]

(* Its steps alone, without that anything has to happen. *)
LinkSafety == Link!Init /\ [][Link!Next]_(Link!vars)

LinkSpec == Link!Spec
=============================================================================
