-------------------------- MODULE SimulationProofs ---------------------------
(***************************************************************************)
(* Proofs about Simulation, for every set of greenlets, command lines and  *)
(* waits.  The first invariant follows the messages through the queues: of *)
(* any two places on the way to somebody, what comes out of the first      *)
(* knows nothing of what is in the second.  The last follows the reader    *)
(* through the files of a script.                                          *)
(***************************************************************************)
EXTENDS Simulation, FiniteSetTheorems, WellFoundedInduction, TLAPS

Party == Task \cup {Sim, FSW, Net}
Client == Task \cup {Sim}
Kind == {"tick", "tock", "script", "other"}

AMade == [from : Party, kind : Kind, knows : SUBSET Nat]

MessageTypes == /\ made \in Seq(AMade)
                /\ heard \in [Party -> Seq(Nat)]
                /\ queue \in [Client -> Seq(Nat)]
                /\ fswOut \in Seq(Nat) /\ netIn \in Seq(Nat)
                /\ args \in Configs

(* The messages of a sequence come in a possible order; those of a set may  *)
(* come before those of another.                                            *)
OrderedIn(mm, s) ==
    \A i, j \in DOMAIN s : i < j => s[i] # s[j] /\ s[j] \notin mm[s[i]].knows

AheadIn(mm, A, B) == \A a \in A, b \in B : a # b /\ b \notin mm[a].knows

Heard(p) == ToSet(heard[p])
Queued(c) == ToSet(queue[c])
Out == ToSet(fswOut)
In == ToSet(netIn)

Orders == /\ \A p \in Party : OrderedIn(made, heard[p])
          /\ \A c \in Client : OrderedIn(made, queue[c])
          /\ OrderedIn(made, fswOut) /\ OrderedIn(made, netIn)

Behind == /\ \A p \in Party : AheadIn(made, Heard(p), Out) /\ AheadIn(made, Heard(p), In)
          /\ \A c \in Client : /\ AheadIn(made, Heard(c), Queued(c))
                               /\ AheadIn(made, Queued(c), Out) /\ AheadIn(made, Queued(c), In)
          /\ AheadIn(made, Out, In) /\ AheadIn(made, In, Out)
          /\ AheadIn(made, Heard(FSW), Queued(Sim)) /\ AheadIn(made, Out, Queued(Sim))

(* Nobody's messages are on their way to itself. *)
Authors == /\ \A p \in Party \ {Sim} : \A m \in Heard(p) : made[m].from # p
           /\ \A c \in Task : \A m \in Queued(c) : made[m].from # c
           /\ \A m \in Queued(Sim) : made[m].from \notin {Sim, FSW}
           /\ \A m \in Out : made[m].from = FSW
           /\ \A m \in In : made[m].from = Net

(* A message knows earlier ones. *)
Earlier == \A m \in DOMAIN made : made[m].knows \subseteq 1 .. (m - 1)

Placed == /\ \A p \in Party : Heard(p) \subseteq DOMAIN made
          /\ \A c \in Client : Queued(c) \subseteq DOMAIN made
          /\ Out \subseteq DOMAIN made /\ In \subseteq DOMAIN made
          /\ lost \subseteq DOMAIN made

MessageInv == MessageTypes /\ Orders /\ Behind /\ Authors /\ Earlier /\ Placed

(* What is neither logged nor lost will be logged. *)
Logged == /\ DOMAIN made \subseteq Heard(Sim) \cup Queued(Sim) \cup Out \cup In \cup lost
          /\ lost \cap (Heard(Sim) \cup Queued(Sim) \cup Out \cup In) = {}
-----------------------------------------------------------------------------
LEMMA Names ==
  /\ Sim \in Party /\ FSW \in Party /\ Net \in Party /\ Sim \in Client
  /\ Sim # FSW /\ Sim # Net /\ FSW # Net /\ Client \subseteq Party /\ Task \subseteq Party
  /\ Task \subseteq Client
  /\ \A t \in Task : t # Sim /\ t # FSW /\ t # Net
  /\ FSW \notin Client /\ Net \notin Client
BY SimulationAssumption DEF Party, Client, Sim, FSW, Net

(* Sequences and the sets of their elements. *)
LEMMA AppendSet ==
  ASSUME NEW s \in Seq(Nat), NEW x \in Nat
  PROVE  Append(s, x) \in Seq(Nat) /\ ToSet(Append(s, x)) = ToSet(s) \cup {x}
<1> DEFINE t == Append(s, x)
<1>1. t \in Seq(Nat) /\ DOMAIN t = DOMAIN s \cup {Len(s) + 1} /\ t[Len(s) + 1] = x
      /\ \A i \in DOMAIN s : t[i] = s[i]
  OBVIOUS
<1> HIDE DEF t
<1>2. ToSet(t) = ToSet(s) \cup {x}
  BY <1>1 DEF ToSet
<1> QED BY <1>1, <1>2 DEF t

LEMMA ConcatSet ==
  ASSUME NEW s \in Seq(Nat), NEW t \in Seq(Nat)
  PROVE  s \o t \in Seq(Nat) /\ ToSet(s \o t) = ToSet(s) \cup ToSet(t)
<1> DEFINE u == s \o t
<1>1. /\ u \in Seq(Nat) /\ Len(s) \in Nat /\ Len(t) \in Nat
      /\ DOMAIN s = 1 .. Len(s) /\ DOMAIN t = 1 .. Len(t) /\ DOMAIN u = 1 .. (Len(s) + Len(t))
      /\ \A i \in DOMAIN s : u[i] = s[i]
      /\ \A i \in DOMAIN u : i > Len(s) => u[i] = t[i - Len(s)]
  OBVIOUS
<1> HIDE DEF u
<1>2. ASSUME NEW i \in DOMAIN u PROVE u[i] \in ToSet(s) \cup ToSet(t)
  <2>1. i \in DOMAIN s \/ (i > Len(s) /\ i - Len(s) \in DOMAIN t)
    BY <1>1
  <2> QED BY <1>1, <2>1 DEF ToSet
<1>3. ASSUME NEW i \in DOMAIN t PROVE t[i] \in ToSet(u)
  <2>1. Len(s) + i \in DOMAIN u /\ Len(s) + i > Len(s) /\ (Len(s) + i) - Len(s) = i
    BY <1>1
  <2>2. u[Len(s) + i] = t[i]
    BY <1>1, <2>1
  <2> QED BY <2>1, <2>2 DEF ToSet
<1>4. ASSUME NEW i \in DOMAIN s PROVE s[i] \in ToSet(u)
  <2>1. i \in DOMAIN u /\ u[i] = s[i]
    BY <1>1
  <2> QED BY <2>1 DEF ToSet
<1>5. ToSet(u) = ToSet(s) \cup ToSet(t)
  BY <1>2, <1>3, <1>4 DEF ToSet
<1> QED BY <1>1, <1>5 DEF u

LEMMA EmptySet == ToSet(<<>>) = {} /\ \A mm : OrderedIn(mm, <<>>)
BY DEF ToSet, OrderedIn

LEMMA TailSet ==
  ASSUME NEW s \in Seq(Nat), s # <<>>
  PROVE  /\ Head(s) \in Nat /\ Tail(s) \in Seq(Nat)
         /\ ToSet(s) = {Head(s)} \cup ToSet(Tail(s))
         /\ \A mm : OrderedIn(mm, s) => /\ OrderedIn(mm, Tail(s))
                                        /\ AheadIn(mm, {Head(s)}, ToSet(Tail(s)))
<1> DEFINE t == Tail(s)
           n == Len(s)
<1>1. /\ s \in Seq(Nat) /\ n \in Nat /\ n > 0 /\ DOMAIN s = 1 .. n
      /\ t \in Seq(Nat) /\ DOMAIN t = 1 .. (n - 1) /\ Head(s) = s[1] /\ s[1] \in Nat
      /\ \A i \in DOMAIN t : t[i] = s[i + 1]
  OBVIOUS
<1> HIDE DEF t, n
<1>2. ASSUME NEW i \in DOMAIN t PROVE i + 1 \in DOMAIN s /\ 1 < i + 1 /\ t[i] = s[i + 1]
  BY <1>1
<1>3. ASSUME NEW i \in DOMAIN s, i # 1 PROVE i - 1 \in DOMAIN t /\ t[i - 1] = s[i]
  <2>1. i - 1 \in DOMAIN t /\ (i - 1) + 1 = i
    BY <1>1, <1>3
  <2> QED BY <1>1, <2>1
<1>4. 1 \in DOMAIN s
  BY <1>1
<1>5. ToSet(s) = {s[1]} \cup ToSet(t)
  BY <1>2, <1>3, <1>4 DEF ToSet
<1>6. ASSUME NEW mm, OrderedIn(mm, s)
      PROVE  OrderedIn(mm, t) /\ AheadIn(mm, {s[1]}, ToSet(t))
  <2>1. OrderedIn(mm, t)
    <3> SUFFICES ASSUME NEW i \in DOMAIN t, NEW j \in DOMAIN t, i < j
                 PROVE  t[i] # t[j] /\ t[j] \notin mm[t[i]].knows
      BY DEF OrderedIn
    <3>1. i + 1 < j + 1
      BY <1>1
    <3> QED BY <1>2, <1>6, <3>1 DEF OrderedIn
  <2>2. AheadIn(mm, {s[1]}, ToSet(t))
    BY <1>2, <1>4, <1>6 DEF OrderedIn, AheadIn, ToSet
  <2> QED BY <2>1, <2>2
<1> QED BY <1>1, <1>5, <1>6 DEF t

LEMMA OrderedConcat ==
  ASSUME NEW mm, NEW s \in Seq(Nat), NEW t \in Seq(Nat),
         OrderedIn(mm, s), OrderedIn(mm, t), AheadIn(mm, ToSet(s), ToSet(t))
  PROVE  OrderedIn(mm, s \o t)
<1> DEFINE u == s \o t
<1>1. /\ Len(s) \in Nat /\ Len(t) \in Nat
      /\ DOMAIN s = 1 .. Len(s) /\ DOMAIN t = 1 .. Len(t) /\ DOMAIN u = 1 .. (Len(s) + Len(t))
      /\ \A i \in DOMAIN s : u[i] = s[i]
      /\ \A i \in DOMAIN u : i > Len(s) => u[i] = t[i - Len(s)]
  OBVIOUS
<1> HIDE DEF u
<1>2. ASSUME NEW i \in DOMAIN u
      PROVE  \/ i \in DOMAIN s /\ u[i] = s[i]
             \/ i > Len(s) /\ i - Len(s) \in DOMAIN t /\ u[i] = t[i - Len(s)]
  BY <1>1
<1>3. OrderedIn(mm, u)
  <2> SUFFICES ASSUME NEW i \in DOMAIN u, NEW j \in DOMAIN u, i < j
               PROVE  u[i] # u[j] /\ u[j] \notin mm[u[i]].knows
    BY DEF OrderedIn
  <2>1. CASE j \in DOMAIN s /\ u[j] = s[j]
    <3>1. i \in DOMAIN s /\ u[i] = s[i]
      BY <1>1, <2>1
    <3> QED BY <2>1, <3>1 DEF OrderedIn
  <2>2. CASE j > Len(s) /\ j - Len(s) \in DOMAIN t /\ u[j] = t[j - Len(s)]
    <3>1. CASE i \in DOMAIN s /\ u[i] = s[i]
      BY <2>2, <3>1 DEF AheadIn, ToSet
    <3>2. CASE i > Len(s) /\ i - Len(s) \in DOMAIN t /\ u[i] = t[i - Len(s)]
      <4>1. i - Len(s) < j - Len(s)
        BY <1>1
      <4> QED BY <2>2, <3>2, <4>1 DEF OrderedIn
    <3> QED BY <1>2, <3>1, <3>2
  <2> QED BY <1>2, <2>1, <2>2
<1> QED BY <1>3 DEF u

LEMMA OrderedAppend ==
  ASSUME NEW mm, NEW s \in Seq(Nat), NEW x \in Nat,
         OrderedIn(mm, s), AheadIn(mm, ToSet(s), {x})
  PROVE  OrderedIn(mm, Append(s, x))
<1>1. <<x>> \in Seq(Nat) /\ Append(s, x) = s \o <<x>>
  OBVIOUS
<1>2. ToSet(<<x>>) = {x} /\ OrderedIn(mm, <<x>>)
  BY DEF ToSet, OrderedIn
<1> QED BY <1>1, <1>2, OrderedConcat
-----------------------------------------------------------------------------
(* A new message has the next number, and nobody knows it. *)
LEMMA MakeFresh ==
  ASSUME MessageInv, NEW p \in Party, NEW kind \in Kind, Make(p, kind)
  PROVE  /\ New \in Nat /\ New \notin DOMAIN made /\ made' \in Seq(AMade)
         /\ DOMAIN made' = DOMAIN made \cup {New}
         /\ made'[New].from = p /\ made'[New].kind = kind /\ made'[New].knows = Knows(p)
         /\ \A k \in DOMAIN made : made'[k] = made[k] /\ New \notin made[k].knows
         /\ Knows(p) \subseteq DOMAIN made
         /\ Earlier'
<1> DEFINE m == [from |-> p, kind |-> kind, knows |-> Knows(p)]
<1>1. made \in Seq(AMade) /\ Heard(p) \subseteq DOMAIN made /\ Earlier
  BY DEF MessageInv, MessageTypes, Placed
<1>2. Knows(p) \subseteq DOMAIN made
  BY <1>1 DEF Knows, Heard
<1>3. DOMAIN made = 1 .. Len(made) /\ Len(made) \in Nat /\ New = Len(made) + 1
  BY <1>1 DEF New
<1>4. m \in AMade
  BY <1>2, <1>3 DEF AMade
<1>5. made' = Append(made, m)
  BY DEF Make
<1>6. m.from = p /\ m.kind = kind /\ m.knows = Knows(p)
  OBVIOUS
<1> HIDE DEF m
<1>7. /\ made' \in Seq(AMade) /\ DOMAIN made' = 1 .. New /\ made'[New] = m
      /\ \A k \in DOMAIN made : made'[k] = made[k]
  BY <1>1, <1>3, <1>4, <1>5
<1>8. New \in Nat /\ New \notin DOMAIN made /\ DOMAIN made' = DOMAIN made \cup {New}
  BY <1>3, <1>7
<1>9. \A k \in DOMAIN made : New \notin made[k].knows
  BY <1>1, <1>3 DEF Earlier
<1>10. Earlier'
  <2> SUFFICES ASSUME NEW k \in DOMAIN made' PROVE made'[k].knows \subseteq 1 .. (k - 1)
    BY DEF Earlier
  <2>1. CASE k \in DOMAIN made
    BY <1>1, <1>7, <2>1 DEF Earlier
  <2>2. CASE k = New
    BY <1>2, <1>3, <1>6, <1>7, <2>2
  <2> QED BY <1>8, <2>1, <2>2
<1> QED BY <1>2, <1>6, <1>7, <1>8, <1>9, <1>10

(* It may come after all others, and they keep their order. *)
LEMMA MakeOrdered ==
  ASSUME MessageInv, NEW p \in Party, NEW kind \in Kind, Make(p, kind)
  PROVE  /\ \A A \in SUBSET DOMAIN made : \A B : AheadIn(made, A, B) => AheadIn(made', A, B)
         /\ \A A \in SUBSET DOMAIN made : AheadIn(made', A, {New})
         /\ \A B \in SUBSET DOMAIN made : B \cap Knows(p) = {} => AheadIn(made', {New}, B)
         /\ \A s \in Seq(Nat) : ToSet(s) \subseteq DOMAIN made /\ OrderedIn(made, s) =>
              OrderedIn(made', s) /\ OrderedIn(made', Append(s, New))
<1>1. /\ New \in Nat /\ New \notin DOMAIN made /\ made'[New].knows = Knows(p)
      /\ \A k \in DOMAIN made : made'[k] = made[k] /\ New \notin made[k].knows
  BY MakeFresh
<1>2. \A A \in SUBSET DOMAIN made : \A B : AheadIn(made, A, B) => AheadIn(made', A, B)
  BY <1>1 DEF AheadIn
<1>3. \A A \in SUBSET DOMAIN made : AheadIn(made', A, {New})
  BY <1>1 DEF AheadIn
<1>4. \A B \in SUBSET DOMAIN made : B \cap Knows(p) = {} => AheadIn(made', {New}, B)
  BY <1>1 DEF AheadIn
<1>5. ASSUME NEW s \in Seq(Nat), ToSet(s) \subseteq DOMAIN made, OrderedIn(made, s)
      PROVE  OrderedIn(made', s) /\ OrderedIn(made', Append(s, New))
  <2>1. \A i \in DOMAIN s : made'[s[i]] = made[s[i]]
    BY <1>1, <1>5 DEF ToSet
  <2>2. OrderedIn(made', s)
    BY <1>5, <2>1 DEF OrderedIn
  <2>3. AheadIn(made', ToSet(s), {New})
    BY <1>3, <1>5
  <2> QED BY <1>1, <2>2, <2>3, OrderedAppend
<1> QED BY <1>2, <1>3, <1>4, <1>5

(* Nobody knows what is still on its way to all whom it could tell before.  *)
LEMMA KnowsNothingPending ==
  ASSUME MessageInv, NEW p \in Party
  PROVE  /\ p # FSW => Out \cap Knows(p) = {}
         /\ p # Net => In \cap Knows(p) = {}
         /\ p \in {Sim, FSW} => Queued(Sim) \cap Knows(p) = {}
BY Names DEF MessageInv, Behind, Authors, Knows, Heard, AheadIn

(* What is made is given to those who can be told it at once, or put behind *)
(* what was made before at the same place.                                  *)
Puts(p, kind) ==
    /\ Make(p, kind)
    /\ heard' \in [Party -> Seq(Nat)] /\ queue' \in [Client -> Seq(Nat)]
    /\ \A q \in Party : \/ heard'[q] = heard[q]
                        \/ /\ heard'[q] = Append(heard[q], New)
                           /\ p \notin {FSW, Net} /\ q \notin Task
                           /\ (p = q \/ q = FSW \/ q = Sim) => p = Sim
    /\ \A c \in Client : \/ queue'[c] = queue[c]
                         \/ queue'[c] = Append(queue[c], New) /\ p \notin {FSW, Net, c}
    /\ fswOut' = fswOut \/ (fswOut' = Append(fswOut, New) /\ p = FSW)
    /\ netIn' = netIn \/ (netIn' = Append(netIn, New) /\ p = Net)
    /\ args' = args /\ lost' = lost

LEMMA PutsKeeps ==
  ASSUME MessageInv, NEW p \in Party, NEW kind \in Kind, Puts(p, kind)
  PROVE  MessageInv'
<1>0. Make(p, kind)
  BY DEF Puts
<1>1. /\ New \in Nat /\ New \notin DOMAIN made /\ made' \in Seq(AMade)
      /\ DOMAIN made' = DOMAIN made \cup {New}
      /\ made'[New].from = p /\ \A k \in DOMAIN made : made'[k] = made[k]
      /\ Earlier'
  BY <1>0, MakeFresh
<1>2. /\ heard \in [Party -> Seq(Nat)] /\ queue \in [Client -> Seq(Nat)]
      /\ fswOut \in Seq(Nat) /\ netIn \in Seq(Nat) /\ args \in Configs
  BY DEF MessageInv, MessageTypes
<1>3. /\ \A q \in Party : Heard(q) \in SUBSET DOMAIN made /\ OrderedIn(made, heard[q])
      /\ \A c \in Client : Queued(c) \in SUBSET DOMAIN made /\ OrderedIn(made, queue[c])
      /\ Out \in SUBSET DOMAIN made /\ OrderedIn(made, fswOut)
      /\ In \in SUBSET DOMAIN made /\ OrderedIn(made, netIn)
  BY DEF MessageInv, Placed, Orders
<1>4. MessageTypes'
  <2>1. fswOut' \in Seq(Nat) /\ netIn' \in Seq(Nat)
    BY <1>1, <1>2, AppendSet DEF Puts
  <2>2. heard' \in [Party -> Seq(Nat)] /\ queue' \in [Client -> Seq(Nat)] /\ args' = args
    BY DEF Puts
  <2> QED BY <1>1, <1>2, <2>1, <2>2 DEF MessageTypes
<1>5. Orders'
  BY <1>0, <1>2, <1>3, MakeOrdered DEF Puts, Orders, Heard, Queued, Out, In
<1> DEFINE hd(q) == ToSet(heard'[q])
           qd(c) == ToSet(queue'[c])
           out == ToSet(fswOut')
           in == ToSet(netIn')
<1>6. /\ \A q \in Party : \/ hd(q) = Heard(q)
                          \/ /\ hd(q) = Heard(q) \cup {New}
                             /\ p \notin {FSW, Net} /\ q \notin Task
                             /\ (p = q \/ q = FSW \/ q = Sim) => p = Sim
      /\ \A c \in Client : \/ qd(c) = Queued(c)
                           \/ qd(c) = Queued(c) \cup {New} /\ p \notin {FSW, Net, c}
      /\ out = Out \/ (out = Out \cup {New} /\ p = FSW)
      /\ in = In \/ (in = In \cup {New} /\ p = Net)
  BY <1>1, <1>2, AppendSet DEF Puts, Heard, Queued, Out, In
<1> HIDE DEF hd, qd, out, in
<1>7. Placed'
  <2>1. /\ \A q \in Party : hd(q) \subseteq DOMAIN made'
        /\ \A c \in Client : qd(c) \subseteq DOMAIN made'
        /\ out \subseteq DOMAIN made' /\ in \subseteq DOMAIN made' /\ lost' \subseteq DOMAIN made'
    <3>1. lost' = lost /\ lost \subseteq DOMAIN made
      BY DEF Puts, MessageInv, Placed
    <3> QED BY <1>1, <1>3, <1>6, <3>1
  <2> QED BY <2>1 DEF Placed, Heard, Queued, Out, In, hd, qd, out, in
<1>8. Authors'
  <2>1. /\ \A q \in Party \ {Sim} : \A m \in Heard(q) : made[m].from # q
        /\ \A c \in Task : \A m \in Queued(c) : made[m].from # c
        /\ \A m \in Queued(Sim) : made[m].from \notin {Sim, FSW}
        /\ \A m \in Out : made[m].from = FSW
        /\ \A m \in In : made[m].from = Net
    BY DEF MessageInv, Authors
  <2>2. \A q \in Party \ {Sim} : \A m \in hd(q) : made'[m].from # q
    BY <1>1, <1>3, <1>6, <2>1
  <2>3. \A c \in Task : \A m \in qd(c) : made'[m].from # c
    BY <1>1, <1>3, <1>6, <2>1, Names
  <2>4. \A m \in qd(Sim) : made'[m].from \notin {Sim, FSW}
    BY <1>1, <1>3, <1>6, <2>1, Names
  <2>5. /\ \A m \in out : made'[m].from = FSW
        /\ \A m \in in : made'[m].from = Net
    BY <1>1, <1>3, <1>6, <2>1
  <2> QED BY <2>2, <2>3, <2>4, <2>5 DEF Authors, Heard, Queued, Out, In, hd, qd, out, in
<1>9. Behind'
  <2> DEFINE Ok(A, B) == AheadIn(made', A, B)
  <2>1. /\ p # FSW => Out \cap Knows(p) = {}
        /\ p # Net => In \cap Knows(p) = {}
        /\ p \in {Sim, FSW} => Queued(Sim) \cap Knows(p) = {}
    BY KnowsNothingPending
  <2>2. /\ \A q \in Party : AheadIn(made, Heard(q), Out) /\ AheadIn(made, Heard(q), In)
        /\ \A c \in Client : /\ AheadIn(made, Heard(c), Queued(c))
                             /\ AheadIn(made, Queued(c), Out) /\ AheadIn(made, Queued(c), In)
        /\ AheadIn(made, Out, In) /\ AheadIn(made, In, Out)
        /\ AheadIn(made, Heard(FSW), Queued(Sim)) /\ AheadIn(made, Out, Queued(Sim))
    BY DEF MessageInv, Behind
  <2> DEFINE Wider(A, B, C, D) ==
               \/ C = A /\ D = B
               \/ C = A /\ D = B \cup {New}
               \/ C = A \cup {New} /\ D = B /\ B \cap Knows(p) = {}
  <2>3. ASSUME NEW A \in SUBSET DOMAIN made, NEW B \in SUBSET DOMAIN made, NEW C, NEW D,
               AheadIn(made, A, B), Wider(A, B, C, D)
        PROVE  Ok(C, D)
    <3>1. /\ AheadIn(made', A, B) /\ AheadIn(made', A, {New})
          /\ B \cap Knows(p) = {} => AheadIn(made', {New}, B)
      BY <1>0, <2>3, MakeOrdered
    <3> QED BY <2>3, <3>1 DEF AheadIn
  <2> HIDE DEF Ok
  <2>4. /\ Sim \in Party /\ Sim \in Client /\ FSW \in Party /\ FSW # Sim /\ FSW # Net
    BY Names
  <2>5. ASSUME NEW q \in Party PROVE Wider(Heard(q), Out, hd(q), out) /\ Wider(Heard(q), In, hd(q), in)
    BY <1>6, <2>1, <2>5
  <2>6. ASSUME NEW q \in Party PROVE Ok(hd(q), out) /\ Ok(hd(q), in)
    <3> HIDE DEF Wider
    <3> QED BY <1>3, <2>2, <2>3, <2>5, <2>6
  <2>7. ASSUME NEW c \in Client
        PROVE  Ok(hd(c), qd(c)) /\ Ok(qd(c), out) /\ Ok(qd(c), in)
    <3>1. c \in Party /\ (c \in Task \/ c = Sim)
      BY Names DEF Client
    <3>2. Wider(Queued(c), Out, qd(c), out) /\ Wider(Queued(c), In, qd(c), in)
      BY <1>6, <2>1, <2>7
    <3>3. Wider(Heard(c), Queued(c), hd(c), qd(c))
      BY <1>6, <2>1, <2>7, <3>1
    <3> HIDE DEF Wider
    <3>4. Ok(qd(c), out) /\ Ok(qd(c), in)
      BY <1>3, <2>2, <2>3, <2>7, <3>2
    <3>5. Ok(hd(c), qd(c))
      BY <1>3, <2>2, <2>3, <2>7, <3>1, <3>3
    <3> QED BY <3>4, <3>5
  <2>8. Ok(out, in) /\ Ok(in, out)
    <3>1. Wider(Out, In, out, in) /\ Wider(In, Out, in, out)
      BY <1>6, <2>1, <2>4
    <3> HIDE DEF Wider
    <3> QED BY <1>3, <2>2, <2>3, <3>1
  <2>9. Ok(hd(FSW), qd(Sim))
    <3>1. Wider(Heard(FSW), Queued(Sim), hd(FSW), qd(Sim))
      BY <1>6, <2>1, <2>4
    <3> HIDE DEF Wider
    <3> QED BY <1>3, <2>2, <2>3, <2>4, <3>1
  <2>10. Ok(out, qd(Sim))
    <3>1. Wider(Out, Queued(Sim), out, qd(Sim))
      BY <1>6, <2>1, <2>4
    <3> HIDE DEF Wider
    <3> QED BY <1>3, <2>2, <2>3, <2>4, <3>1
  <2> QED BY <2>6, <2>7, <2>8, <2>9, <2>10
          DEF Behind, Ok, Heard, Queued, Out, In, hd, qd, out, in
<1> QED BY <1>1, <1>4, <1>5, <1>7, <1>8, <1>9 DEF MessageInv
-----------------------------------------------------------------------------
(* What the invariant says of the places now. *)
LEMMA PlacesOf ==
  ASSUME MessageInv
  PROVE  /\ heard \in [Party -> Seq(Nat)] /\ queue \in [Client -> Seq(Nat)]
         /\ fswOut \in Seq(Nat) /\ netIn \in Seq(Nat) /\ args \in Configs /\ made \in Seq(AMade)
         /\ \A p \in Party : /\ OrderedIn(made, heard[p]) /\ Heard(p) \subseteq DOMAIN made
                             /\ AheadIn(made, Heard(p), Out) /\ AheadIn(made, Heard(p), In)
         /\ \A c \in Client : /\ OrderedIn(made, queue[c]) /\ Queued(c) \subseteq DOMAIN made
                              /\ AheadIn(made, Heard(c), Queued(c))
                              /\ AheadIn(made, Queued(c), Out) /\ AheadIn(made, Queued(c), In)
         /\ OrderedIn(made, fswOut) /\ Out \subseteq DOMAIN made
         /\ OrderedIn(made, netIn) /\ In \subseteq DOMAIN made /\ lost \subseteq DOMAIN made
         /\ AheadIn(made, Out, In) /\ AheadIn(made, In, Out)
         /\ AheadIn(made, Heard(FSW), Queued(Sim)) /\ AheadIn(made, Out, Queued(Sim))
BY DEF MessageInv, MessageTypes, Orders, Behind, Placed

LEMMA UnionAhead ==
  /\ \A mm, A, B, C : AheadIn(mm, A, B) /\ AheadIn(mm, A, C) => AheadIn(mm, A, B \cup C)
  /\ \A mm, A, B, C : AheadIn(mm, A, C) /\ AheadIn(mm, B, C) => AheadIn(mm, A \cup B, C)
  /\ \A mm, A : AheadIn(mm, A, {}) /\ AheadIn(mm, {}, A)
BY DEF AheadIn

LEMMA ConcatEmpty == \A s \in Seq(Nat) : s \o <<>> = s
OBVIOUS

(* The main loop takes what the FSW has sent, and then what others have. *)
LEMMA CommandsMoved ==
  ASSUME MessageInv, GetCommands
  PROVE  LET all == fswOut \o queue[Sim]
         IN  /\ heard' \in [Party -> Seq(Nat)] /\ queue' \in [Client -> Seq(Nat)]
             /\ all \in Seq(Nat) /\ ToSet(all) = Out \cup Queued(Sim)
             /\ heard'[Sim] = heard[Sim] \o all
             /\ heard'[FSW] = heard[FSW] \/ heard'[FSW] = heard[FSW] \o queue[Sim]
             /\ heard'[Net] = heard[Net] \/ heard'[Net] = heard[Net] \o fswOut
             /\ \A t \in Task : heard'[t] = heard[t]
             /\ queue'[Sim] = <<>>
             /\ \A t \in Task : queue'[t] = queue[t] \/ queue'[t] = queue[t] \o fswOut
             /\ fswOut' = <<>> /\ UNCHANGED <<made, args, netIn, lost>>
<1> DEFINE all == fswOut \o queue[Sim]
           more(p) == IF p = Sim THEN all
                      ELSE IF p \in Inside THEN queue[Sim]
                      ELSE IF p \in Socket THEN fswOut ELSE <<>>
<1>1. /\ heard \in [Party -> Seq(Nat)] /\ queue \in [Client -> Seq(Nat)] /\ fswOut \in Seq(Nat)
  BY PlacesOf
<1>2. /\ heard' = [p \in DOMAIN heard |-> heard[p] \o more(p)]
      /\ queue' = [c \in DOMAIN queue |-> IF c = Sim THEN <<>>
                                          ELSE IF c \in Clients THEN queue[c] \o fswOut
                                          ELSE queue[c]]
      /\ fswOut' = <<>> /\ UNCHANGED <<made, args, netIn, lost>>
  BY DEF GetCommands, netVars
<1>3. queue[Sim] \in Seq(Nat) /\ all \in Seq(Nat) /\ ToSet(all) = Out \cup Queued(Sim)
  BY <1>1, Names, ConcatSet DEF Out, Queued
<1> HIDE DEF all
<1>4. \A p : more(p) \in Seq(Nat)
  BY <1>1, <1>3
<1>5. /\ more(Sim) = all
      /\ more(FSW) = <<>> \/ more(FSW) = queue[Sim]
      /\ more(Net) = <<>> \/ more(Net) = fswOut
      /\ \A t \in Task : more(t) = <<>>
  BY Names DEF Inside, Socket
<1> HIDE DEF more
<1>6. \A p \in Party : heard'[p] = heard[p] \o more(p) /\ heard'[p] \in Seq(Nat)
  <2>1. ASSUME NEW p \in Party PROVE heard[p] \o more(p) \in Seq(Nat)
    BY <1>1, <1>4, ConcatSet
  <2> QED BY <1>1, <1>2, <2>1
<1>7. heard' \in [Party -> Seq(Nat)]
  BY <1>1, <1>2, <1>6
<1>8. \A p \in Party : more(p) = <<>> => heard'[p] = heard[p]
  BY <1>1, <1>6, ConcatEmpty
<1>9. \A c \in Client : queue[c] \o fswOut \in Seq(Nat)
  BY <1>1, ConcatSet
<1>10. queue' \in [Client -> Seq(Nat)]
  BY <1>1, <1>2, <1>9
<1>11. /\ queue'[Sim] = <<>>
       /\ \A t \in Task : queue'[t] = queue[t] \/ queue'[t] = queue[t] \o fswOut
  BY <1>1, <1>2, Names
<1> QED BY <1>2, <1>3, <1>5, <1>6, <1>7, <1>8, <1>10, <1>11, Names DEF all

(* The same, place by place. *)
LEMMA PlaceByPlace ==
  ASSUME MessageInv
  PROVE  /\ heard[Sim] \in Seq(Nat) /\ heard[FSW] \in Seq(Nat) /\ heard[Net] \in Seq(Nat)
         /\ queue[Sim] \in Seq(Nat) /\ fswOut \in Seq(Nat) /\ netIn \in Seq(Nat)
         /\ \A t \in Task : heard[t] \in Seq(Nat) /\ queue[t] \in Seq(Nat)
         /\ OrderedIn(made, heard[Sim]) /\ OrderedIn(made, heard[FSW])
         /\ OrderedIn(made, heard[Net]) /\ OrderedIn(made, queue[Sim])
         /\ OrderedIn(made, fswOut) /\ OrderedIn(made, netIn)
         /\ \A t \in Task : OrderedIn(made, heard[t]) /\ OrderedIn(made, queue[t])
         /\ AheadIn(made, Heard(Sim), Out) /\ AheadIn(made, Heard(Sim), Queued(Sim))
         /\ AheadIn(made, Heard(FSW), Out) /\ AheadIn(made, Heard(FSW), Queued(Sim))
         /\ AheadIn(made, Heard(Net), Out) /\ AheadIn(made, Out, Queued(Sim))
         /\ \A t \in Task : /\ AheadIn(made, Queued(t), Out) /\ AheadIn(made, Queued(t), In)
                            /\ AheadIn(made, Heard(t), Queued(t)) /\ AheadIn(made, Heard(t), Out)
                            /\ AheadIn(made, Heard(t), In)
         /\ AheadIn(made, Heard(Sim), In) /\ AheadIn(made, Heard(FSW), In)
         /\ AheadIn(made, Heard(Net), In) /\ AheadIn(made, Queued(Sim), In)
         /\ AheadIn(made, Out, In) /\ AheadIn(made, In, Out)
<1>1. /\ heard \in [Party -> Seq(Nat)] /\ queue \in [Client -> Seq(Nat)]
      /\ fswOut \in Seq(Nat) /\ netIn \in Seq(Nat)
  BY PlacesOf
<1>2. /\ \A p \in Party : /\ OrderedIn(made, heard[p])
                          /\ AheadIn(made, Heard(p), Out) /\ AheadIn(made, Heard(p), In)
      /\ \A c \in Client : /\ OrderedIn(made, queue[c])
                           /\ AheadIn(made, Heard(c), Queued(c))
                           /\ AheadIn(made, Queued(c), Out) /\ AheadIn(made, Queued(c), In)
  BY PlacesOf
<1>3. /\ OrderedIn(made, fswOut) /\ OrderedIn(made, netIn)
      /\ AheadIn(made, Out, In) /\ AheadIn(made, In, Out)
      /\ AheadIn(made, Heard(FSW), Queued(Sim)) /\ AheadIn(made, Out, Queued(Sim))
  BY PlacesOf
<1>4. /\ Sim \in Party /\ FSW \in Party /\ Net \in Party /\ Sim \in Client
      /\ \A t \in Task : t \in Party /\ t \in Client
  BY Names
<1> QED BY <1>1, <1>2, <1>3, <1>4

(* To show that all still come in their order, it is enough to look at the  *)
(* places one after the other.                                              *)
Replaced(hd, qd, out, in) ==
    /\ UNCHANGED <<made, args>> /\ lost' \subseteq DOMAIN made
    /\ heard' \in [Party -> Seq(Nat)] /\ queue' \in [Client -> Seq(Nat)]
    /\ fswOut' \in Seq(Nat) /\ netIn' \in Seq(Nat)
    /\ hd = [p \in Party |-> ToSet(heard'[p])] /\ qd = [c \in Client |-> ToSet(queue'[c])]
    /\ out = ToSet(fswOut') /\ in = ToSet(netIn')
    /\ \A p \in Party : OrderedIn(made, heard'[p]) /\ hd[p] \subseteq DOMAIN made
    /\ \A c \in Client : OrderedIn(made, queue'[c]) /\ qd[c] \subseteq DOMAIN made
    /\ OrderedIn(made, fswOut') /\ OrderedIn(made, netIn')
    /\ out \subseteq Out /\ in \subseteq In
    /\ \A p \in Party : AheadIn(made, hd[p], out) /\ AheadIn(made, hd[p], in)
    /\ \A c \in Client : /\ AheadIn(made, hd[c], qd[c])
                         /\ AheadIn(made, qd[c], out) /\ AheadIn(made, qd[c], in)
    /\ AheadIn(made, hd[FSW], qd[Sim]) /\ AheadIn(made, out, qd[Sim])
    /\ \A p \in Party \ {Sim} : \A m \in hd[p] : made[m].from # p
    /\ \A t \in Task : \A m \in qd[t] : made[m].from # t
    /\ \A m \in qd[Sim] : made[m].from \notin {Sim, FSW}

LEMMA ReplacedKeeps ==
  ASSUME MessageInv, NEW hd, NEW qd, NEW out, NEW in, Replaced(hd, qd, out, in)
  PROVE  MessageInv'
<1> USE DEF Replaced
<1>1. MessageTypes' /\ Earlier'
  BY DEF MessageInv, MessageTypes, Earlier
<1>2. Orders'
  BY DEF Orders
<1>3. /\ \A p \in Party : ToSet(heard'[p]) = hd[p]
      /\ \A c \in Client : ToSet(queue'[c]) = qd[c]
      /\ ToSet(fswOut') = out /\ ToSet(netIn') = in
  OBVIOUS
<1>4. /\ AheadIn(made, Out, In) /\ AheadIn(made, In, Out)
      /\ Out \subseteq DOMAIN made /\ In \subseteq DOMAIN made
      /\ \A m \in Out : made[m].from = FSW
      /\ \A m \in In : made[m].from = Net
  BY DEF MessageInv, Behind, Placed, Authors
<1>5. AheadIn(made, out, in) /\ AheadIn(made, in, out)
  BY <1>4 DEF AheadIn
<1>6. Behind'
  BY <1>3, <1>5, Names DEF Behind, Heard, Queued, Out, In
<1>7. Authors'
  <2>1. /\ \A m \in out : made[m].from = FSW
        /\ \A m \in in : made[m].from = Net
    BY <1>4
  <2> QED BY <1>3, <2>1, Names DEF Authors, Heard, Queued, Out, In
<1>8. Placed'
  <2>1. out \subseteq DOMAIN made /\ in \subseteq DOMAIN made
    BY <1>4
  <2> QED BY <1>3, <2>1 DEF Placed, Heard, Queued, Out, In
<1> QED BY <1>1, <1>2, <1>6, <1>7, <1>8 DEF MessageInv

LEMMA GetKeeps ==
  ASSUME MessageInv, GetCommands
  PROVE  MessageInv'
<1> DEFINE all == fswOut \o queue[Sim]
<1>1. /\ heard' \in [Party -> Seq(Nat)] /\ queue' \in [Client -> Seq(Nat)]
      /\ all \in Seq(Nat) /\ ToSet(all) = Out \cup Queued(Sim)
      /\ heard'[Sim] = heard[Sim] \o all
      /\ heard'[FSW] = heard[FSW] \/ heard'[FSW] = heard[FSW] \o queue[Sim]
      /\ heard'[Net] = heard[Net] \/ heard'[Net] = heard[Net] \o fswOut
      /\ \A t \in Task : heard'[t] = heard[t]
      /\ queue'[Sim] = <<>>
      /\ \A t \in Task : queue'[t] = queue[t] \/ queue'[t] = queue[t] \o fswOut
      /\ fswOut' = <<>> /\ UNCHANGED <<made, args, netIn, lost>>
  BY CommandsMoved
<1>2. /\ heard[Sim] \in Seq(Nat) /\ heard[FSW] \in Seq(Nat) /\ heard[Net] \in Seq(Nat)
      /\ queue[Sim] \in Seq(Nat) /\ fswOut \in Seq(Nat) /\ netIn \in Seq(Nat)
      /\ \A t \in Task : heard[t] \in Seq(Nat) /\ queue[t] \in Seq(Nat)
  BY PlaceByPlace
<1>3. /\ OrderedIn(made, heard[Sim]) /\ OrderedIn(made, heard[FSW])
      /\ OrderedIn(made, heard[Net]) /\ OrderedIn(made, queue[Sim])
      /\ OrderedIn(made, fswOut) /\ OrderedIn(made, netIn)
      /\ \A t \in Task : OrderedIn(made, heard[t]) /\ OrderedIn(made, queue[t])
  BY PlaceByPlace
<1>4. /\ AheadIn(made, Heard(Sim), Out) /\ AheadIn(made, Heard(Sim), Queued(Sim))
      /\ AheadIn(made, Heard(FSW), Out) /\ AheadIn(made, Heard(FSW), Queued(Sim))
      /\ AheadIn(made, Heard(Net), Out) /\ AheadIn(made, Out, Queued(Sim))
      /\ \A t \in Task : /\ AheadIn(made, Queued(t), Out)
                         /\ AheadIn(made, Heard(t), Queued(t)) /\ AheadIn(made, Heard(t), Out)
  BY PlaceByPlace
<1>5. OrderedIn(made, all)
  BY <1>2, <1>3, <1>4, OrderedConcat DEF Out, Queued
<1> HIDE DEF all
<1>6. OrderedIn(made, heard'[Sim])
  <2>1. AheadIn(made, Heard(Sim), Out \cup Queued(Sim))
    BY <1>4, UnionAhead
  <2>2. AheadIn(made, ToSet(heard[Sim]), ToSet(all))
    BY <1>1, <2>1 DEF Heard
  <2> QED BY <1>1, <1>2, <1>3, <1>5, <2>2, OrderedConcat
<1>7. OrderedIn(made, heard'[FSW])
  <2>1. OrderedIn(made, heard[FSW] \o queue[Sim])
    BY <1>2, <1>3, <1>4, OrderedConcat DEF Heard, Queued
  <2> QED BY <1>1, <1>3, <2>1
<1>8. OrderedIn(made, heard'[Net])
  <2>1. OrderedIn(made, heard[Net] \o fswOut)
    BY <1>2, <1>3, <1>4, OrderedConcat DEF Heard, Out
  <2> QED BY <1>1, <1>3, <2>1
<1>9. ASSUME NEW t \in Task PROVE OrderedIn(made, heard'[t]) /\ OrderedIn(made, queue'[t])
  <2>1. OrderedIn(made, queue[t] \o fswOut)
    BY <1>2, <1>3, <1>4, OrderedConcat DEF Queued, Out
  <2> QED BY <1>1, <1>3, <2>1
<1> DEFINE hd == [p \in Party |-> ToSet(heard'[p])]
           qd == [c \in Client |-> ToSet(queue'[c])]
<1>10. /\ hd[Sim] = Heard(Sim) \cup (Out \cup Queued(Sim))
       /\ hd[FSW] = Heard(FSW) \/ hd[FSW] = Heard(FSW) \cup Queued(Sim)
       /\ hd[Net] = Heard(Net) \/ hd[Net] = Heard(Net) \cup Out
       /\ \A t \in Task : hd[t] = Heard(t)
  <2>1. /\ ToSet(heard[Sim] \o all) = Heard(Sim) \cup (Out \cup Queued(Sim))
        /\ ToSet(heard[FSW] \o queue[Sim]) = Heard(FSW) \cup Queued(Sim)
        /\ ToSet(heard[Net] \o fswOut) = Heard(Net) \cup Out
    <3>1. ToSet(heard[Sim] \o all) = ToSet(heard[Sim]) \cup ToSet(all)
      BY <1>1, <1>2, ConcatSet
    <3>2. ToSet(heard[FSW] \o queue[Sim]) = ToSet(heard[FSW]) \cup ToSet(queue[Sim])
      BY <1>2, ConcatSet
    <3>3. ToSet(heard[Net] \o fswOut) = ToSet(heard[Net]) \cup ToSet(fswOut)
      BY <1>2, ConcatSet
    <3> QED BY <1>1, <3>1, <3>2, <3>3 DEF Heard, Queued, Out
  <2>2. /\ hd[Sim] = ToSet(heard'[Sim]) /\ hd[FSW] = ToSet(heard'[FSW])
        /\ hd[Net] = ToSet(heard'[Net]) /\ \A t \in Task : hd[t] = ToSet(heard'[t])
    BY Names
  <2> HIDE DEF hd
  <2> QED BY <1>1, <2>1, <2>2 DEF Heard
<1>11. /\ qd[Sim] = {}
       /\ \A t \in Task : qd[t] = Queued(t) \/ qd[t] = Queued(t) \cup Out
  <2>1. \A t \in Task : ToSet(queue[t] \o fswOut) = Queued(t) \cup Out
    BY <1>2, ConcatSet DEF Queued, Out
  <2>2. qd[Sim] = ToSet(queue'[Sim]) /\ \A t \in Task : qd[t] = ToSet(queue'[t])
    BY Names
  <2> HIDE DEF qd
  <2> QED BY <1>1, <2>1, <2>2, EmptySet DEF Queued
<1> HIDE DEF hd, qd
<1>12. /\ \A p \in Party : p \in Task \/ p = Sim \/ p = FSW \/ p = Net
       /\ \A c \in Client : c \in Task \/ c = Sim
       /\ \A t \in Task : t # Sim /\ t # FSW /\ t # Net
       /\ Sim # FSW /\ Sim # Net /\ FSW # Net
  BY Names DEF Party, Client
<1>13. /\ \A p \in Party : OrderedIn(made, heard'[p])
       /\ \A c \in Client : OrderedIn(made, queue'[c])
       /\ OrderedIn(made, fswOut') /\ OrderedIn(made, netIn')
  <2>1. OrderedIn(made, <<>>)
    BY EmptySet
  <2> QED BY <1>1, <1>3, <1>6, <1>7, <1>8, <1>9, <1>12, <2>1
<1>14. /\ \A p \in Party : hd[p] \subseteq DOMAIN made
       /\ \A c \in Client : qd[c] \subseteq DOMAIN made
  <2>1. /\ Heard(Sim) \subseteq DOMAIN made /\ Heard(FSW) \subseteq DOMAIN made
        /\ Heard(Net) \subseteq DOMAIN made /\ Queued(Sim) \subseteq DOMAIN made
        /\ Out \subseteq DOMAIN made
        /\ \A t \in Task : Heard(t) \subseteq DOMAIN made /\ Queued(t) \subseteq DOMAIN made
    BY Names DEF MessageInv, Placed
  <2>2. ASSUME NEW p \in Party PROVE hd[p] \subseteq DOMAIN made
    BY <1>10, <1>12, <2>1
  <2>3. ASSUME NEW c \in Client PROVE qd[c] \subseteq DOMAIN made
    BY <1>11, <1>12, <2>1
  <2> QED BY <2>2, <2>3
<1>15. \A p \in Party : AheadIn(made, hd[p], {}) /\ AheadIn(made, hd[p], In)
  <2>1. /\ AheadIn(made, Heard(Sim), In) /\ AheadIn(made, Heard(FSW), In)
        /\ AheadIn(made, Heard(Net), In) /\ AheadIn(made, Queued(Sim), In)
        /\ AheadIn(made, Out, In) /\ \A t \in Task : AheadIn(made, Heard(t), In)
    BY PlaceByPlace
  <2>2. AheadIn(made, Heard(Sim) \cup (Out \cup Queued(Sim)), In)
    BY <2>1, UnionAhead
  <2>3. /\ AheadIn(made, Heard(FSW) \cup Queued(Sim), In)
        /\ AheadIn(made, Heard(Net) \cup Out, In)
    BY <2>1, UnionAhead
  <2> QED BY <1>10, <1>12, <2>1, <2>2, <2>3, UnionAhead
<1>16. ASSUME NEW c \in Client
       PROVE  AheadIn(made, hd[c], qd[c]) /\ AheadIn(made, qd[c], {}) /\ AheadIn(made, qd[c], In)
  <2>1. CASE c = Sim
    BY <1>11, <2>1, UnionAhead
  <2>2. CASE c \in Task
    <3>1. AheadIn(made, Queued(c), In) /\ AheadIn(made, Out, In)
      BY <2>2, PlaceByPlace
    <3>2. /\ AheadIn(made, Heard(c), Queued(c) \cup Out)
          /\ AheadIn(made, Queued(c) \cup Out, In)
      BY <1>4, <2>2, <3>1, UnionAhead
    <3> QED BY <1>4, <1>10, <1>11, <2>2, <3>1, <3>2, UnionAhead
  <2> QED BY <1>12, <2>1, <2>2
<1>17. /\ \A p \in Party \ {Sim} : \A m \in hd[p] : made[m].from # p
       /\ \A t \in Task : \A m \in qd[t] : made[m].from # t
  <2>1. /\ \A p \in Party \ {Sim} : \A m \in Heard(p) : made[m].from # p
        /\ \A c \in Task : \A m \in Queued(c) : made[m].from # c
        /\ \A m \in Queued(Sim) : made[m].from # FSW
        /\ \A m \in Out : made[m].from = FSW
    BY DEF MessageInv, Authors
  <2>2. ASSUME NEW p \in Party \ {Sim}, NEW m \in hd[p] PROVE made[m].from # p
    <3>1. CASE p \in Task
      BY <1>10, <2>1, <2>2, <3>1
    <3>2. CASE p = FSW
      BY <1>10, <2>1, <2>2, <3>2
    <3>3. CASE p = Net
      BY <1>10, <1>12, <2>1, <2>2, <3>3
    <3> QED BY <1>12, <3>1, <3>2, <3>3
  <2>3. ASSUME NEW t \in Task, NEW m \in qd[t] PROVE made[m].from # t
    BY <1>11, <1>12, <2>1, <2>3
  <2> QED BY <2>2, <2>3
<1>18. /\ fswOut' \in Seq(Nat) /\ netIn' \in Seq(Nat) /\ ToSet(fswOut') = {} /\ ToSet(netIn') = In
       /\ lost' \subseteq DOMAIN made
  BY <1>1, <1>2, EmptySet DEF In, MessageInv, Placed
<1>19. AheadIn(made, hd[FSW], qd[Sim]) /\ AheadIn(made, {}, qd[Sim])
  BY <1>11, UnionAhead
<1>20. UNCHANGED <<made, args>> /\ {} \subseteq Out /\ In \subseteq In
       /\ \A m \in qd[Sim] : made[m].from \notin {Sim, FSW}
  BY <1>1, <1>11
<1>21. heard' \in [Party -> Seq(Nat)] /\ queue' \in [Client -> Seq(Nat)]
  BY <1>1
<1>22. hd = [p \in Party |-> ToSet(heard'[p])] /\ qd = [c \in Client |-> ToSet(queue'[c])]
  BY DEF hd, qd
<1>23. /\ \A p \in Party : OrderedIn(made, heard'[p]) /\ hd[p] \subseteq DOMAIN made
       /\ \A c \in Client : OrderedIn(made, queue'[c]) /\ qd[c] \subseteq DOMAIN made
  BY <1>13, <1>14
<1>24. OrderedIn(made, fswOut') /\ OrderedIn(made, netIn')
  BY <1>13
<1>25. Replaced(hd, qd, {}, In)
  BY <1>15, <1>16, <1>17, <1>18, <1>19, <1>20, <1>21, <1>22, <1>23, <1>24 DEF Replaced
<1> QED BY <1>25, ReplacedKeeps

LEMMA FewerAhead ==
  \A mm, A, B, C, D : AheadIn(mm, A, B) /\ C \subseteq A /\ D \subseteq B => AheadIn(mm, C, D)
BY DEF AheadIn

(* All other ways of a message: from the socket to a queue, from a queue to *)
(* its Client, out of a queue unread, away with a broken link.              *)
Moves ==
    /\ UNCHANGED <<made, args, fswOut>> /\ lost' \subseteq DOMAIN made
    /\ heard' \in [Party -> Seq(Nat)] /\ queue' \in [Client -> Seq(Nat)]
    /\ \A p \in Party : \/ heard'[p] = heard[p]
                        \/ /\ p \in Task /\ heard'[p] = heard[p] \o queue[p]
                           /\ queue'[p] = <<>>
    /\ \A c \in Client : \/ queue'[c] = queue[c]
                         \/ queue'[c] = <<>>
                         \/ /\ netIn # <<>> /\ netIn' = Tail(netIn)
                            /\ queue'[c] = Append(queue[c], Head(netIn))
    /\ netIn' = netIn \/ netIn' = <<>> \/ (netIn # <<>> /\ netIn' = Tail(netIn))

LEMMA MovesKeep ==
  ASSUME MessageInv, Moves
  PROVE  MessageInv'
<1> DEFINE hd == [p \in Party |-> ToSet(heard'[p])]
           qd == [c \in Client |-> ToSet(queue'[c])]
           in == ToSet(netIn')
           first == Head(netIn)
<1>1. /\ \A p \in Party : heard[p] \in Seq(Nat)
      /\ \A c \in Client : queue[c] \in Seq(Nat)
      /\ fswOut \in Seq(Nat) /\ netIn \in Seq(Nat)
  BY PlacesOf
<1>2. /\ \A p \in Party : /\ OrderedIn(made, heard[p]) /\ Heard(p) \subseteq DOMAIN made
                          /\ AheadIn(made, Heard(p), Out) /\ AheadIn(made, Heard(p), In)
      /\ \A c \in Client : /\ OrderedIn(made, queue[c]) /\ Queued(c) \subseteq DOMAIN made
                           /\ AheadIn(made, Heard(c), Queued(c))
                           /\ AheadIn(made, Queued(c), Out) /\ AheadIn(made, Queued(c), In)
  BY PlacesOf
<1>3. /\ OrderedIn(made, fswOut) /\ OrderedIn(made, netIn) /\ In \subseteq DOMAIN made
      /\ AheadIn(made, Out, In) /\ AheadIn(made, In, Out)
      /\ AheadIn(made, Heard(FSW), Queued(Sim)) /\ AheadIn(made, Out, Queued(Sim))
  BY PlacesOf
<1>4. /\ \A p \in Party \ {Sim} : \A m \in Heard(p) : made[m].from # p
      /\ \A c \in Task : \A m \in Queued(c) : made[m].from # c
      /\ \A m \in Queued(Sim) : made[m].from \notin {Sim, FSW}
      /\ \A m \in In : made[m].from = Net
  BY DEF MessageInv, Authors
<1>5. netIn # <<>> =>
         /\ first \in Nat /\ first \in In /\ Tail(netIn) \in Seq(Nat)
         /\ ToSet(Tail(netIn)) \subseteq In /\ OrderedIn(made, Tail(netIn))
         /\ AheadIn(made, {first}, ToSet(Tail(netIn)))
  <2> SUFFICES ASSUME netIn # <<>>
               PROVE  /\ first \in Nat /\ first \in In /\ Tail(netIn) \in Seq(Nat)
                      /\ ToSet(Tail(netIn)) \subseteq In /\ OrderedIn(made, Tail(netIn))
                      /\ AheadIn(made, {first}, ToSet(Tail(netIn)))
    OBVIOUS
  <2>1. /\ first \in Nat /\ Tail(netIn) \in Seq(Nat)
        /\ ToSet(netIn) = {first} \cup ToSet(Tail(netIn))
        /\ OrderedIn(made, Tail(netIn)) /\ AheadIn(made, {first}, ToSet(Tail(netIn)))
    BY <1>1, <1>3, TailSet
  <2> QED BY <2>1 DEF In
<1> HIDE DEF first
<1>6. /\ netIn' \in Seq(Nat) /\ OrderedIn(made, netIn') /\ in \subseteq In
      /\ (netIn # <<>> /\ netIn' = Tail(netIn)) => AheadIn(made, {first}, in)
  <2>1. CASE netIn' = netIn
    <3>1. netIn # <<>> => netIn # Tail(netIn)
      BY <1>1
    <3> QED BY <1>1, <1>3, <2>1, <3>1 DEF In
  <2>2. CASE netIn' = <<>>
    <3>1. in = {} /\ OrderedIn(made, netIn') /\ netIn' \in Seq(Nat)
      BY <2>2, EmptySet
    <3> QED BY <3>1, UnionAhead
  <2>3. CASE netIn # <<>> /\ netIn' = Tail(netIn)
    BY <1>5, <2>3
  <2> QED BY <2>1, <2>2, <2>3 DEF Moves
<1>7. ASSUME NEW p \in Party
      PROVE  /\ hd[p] = Heard(p) \/ (p \in Task /\ hd[p] = Heard(p) \cup Queued(p) /\ qd[p] = {})
             /\ OrderedIn(made, heard'[p])
  <2>1. CASE heard'[p] = heard[p]
    BY <1>2, <2>1 DEF Heard
  <2>2. CASE p \in Task /\ heard'[p] = heard[p] \o queue[p] /\ queue'[p] = <<>>
    <3>1. p \in Client
      BY <2>2, Names
    <3>2. heard[p] \in Seq(Nat) /\ queue[p] \in Seq(Nat)
      BY <1>1, <3>1
    <3>3. AheadIn(made, ToSet(heard[p]), ToSet(queue[p]))
      BY <1>2, <3>1 DEF Heard, Queued
    <3>4. OrderedIn(made, heard[p] \o queue[p])
      BY <1>2, <3>1, <3>2, <3>3, OrderedConcat
    <3>5. ToSet(heard[p] \o queue[p]) = Heard(p) \cup Queued(p)
      BY <3>2, ConcatSet DEF Heard, Queued
    <3>6. qd[p] = {}
      BY <2>2, <3>1, EmptySet
    <3> QED BY <2>2, <3>4, <3>5, <3>6
  <2> QED BY <2>1, <2>2 DEF Moves
<1>8. ASSUME NEW c \in Client
      PROVE  /\ \/ qd[c] \subseteq Queued(c)
                \/ /\ netIn # <<>> /\ netIn' = Tail(netIn)
                   /\ qd[c] = Queued(c) \cup {first}
             /\ OrderedIn(made, queue'[c])
  <2>1. CASE queue'[c] = queue[c]
    BY <1>2, <2>1 DEF Queued
  <2>2. CASE queue'[c] = <<>>
    BY <2>2, EmptySet
  <2>3. CASE netIn # <<>> /\ netIn' = Tail(netIn) /\ queue'[c] = Append(queue[c], first)
    <3>1. queue[c] \in Seq(Nat) /\ first \in Nat /\ first \in In
      BY <1>1, <1>5, <2>3
    <3>2. ToSet(Append(queue[c], first)) = Queued(c) \cup {first}
      BY <3>1, AppendSet DEF Queued
    <3>3. AheadIn(made, ToSet(queue[c]), {first})
      BY <1>2, <3>1, FewerAhead DEF Queued
    <3>4. OrderedIn(made, Append(queue[c], first))
      BY <1>2, <3>1, <3>3, OrderedAppend
    <3> QED BY <2>3, <3>2, <3>4
  <2> QED BY <2>1, <2>2, <2>3 DEF Moves, first
<1>9. hd = [p \in Party |-> ToSet(heard'[p])] /\ qd = [c \in Client |-> ToSet(queue'[c])]
  OBVIOUS
<1> HIDE DEF hd, qd
<1>10. \A c \in Client : c \in Party
  BY Names
<1>11. ASSUME NEW p \in Party
       PROVE  /\ hd[p] \subseteq DOMAIN made
              /\ AheadIn(made, hd[p], Out) /\ AheadIn(made, hd[p], in)
  <2>1. CASE hd[p] = Heard(p)
    BY <1>2, <1>6, <2>1, FewerAhead
  <2>2. CASE p \in Task /\ hd[p] = Heard(p) \cup Queued(p)
    <3>1. p \in Client
      BY <2>2, Names
    <3>2. AheadIn(made, hd[p], Out) /\ AheadIn(made, hd[p], In)
      BY <1>2, <2>2, <3>1, UnionAhead
    <3> QED BY <1>2, <1>6, <2>2, <3>1, <3>2, FewerAhead
  <2> QED BY <1>7, <2>1, <2>2
<1>12. ASSUME NEW c \in Client
       PROVE  /\ qd[c] \subseteq DOMAIN made
              /\ AheadIn(made, qd[c], Out) /\ AheadIn(made, qd[c], in)
  <2>1. CASE qd[c] \subseteq Queued(c)
    BY <1>2, <1>6, <2>1, FewerAhead
  <2>2. CASE netIn # <<>> /\ netIn' = Tail(netIn) /\ qd[c] = Queued(c) \cup {first}
    <3>1. first \in In /\ AheadIn(made, {first}, in)
      BY <1>5, <1>6, <2>2
    <3>2. AheadIn(made, {first}, Out) /\ AheadIn(made, Queued(c), in)
      BY <1>2, <1>3, <1>6, <3>1, FewerAhead
    <3> QED BY <1>2, <1>3, <2>2, <3>1, <3>2, UnionAhead
  <2> QED BY <1>8, <2>1, <2>2
<1>13. ASSUME NEW c \in Client PROVE AheadIn(made, hd[c], qd[c])
  <2>1. CASE qd[c] = {}
    BY <2>1, UnionAhead
  <2>2. CASE hd[c] = Heard(c) /\ qd[c] \subseteq Queued(c)
    BY <1>2, <2>2, FewerAhead
  <2>3. CASE hd[c] = Heard(c) /\ netIn # <<>> /\ qd[c] = Queued(c) \cup {first}
    <3>1. AheadIn(made, Heard(c), {first})
      BY <1>2, <1>5, <1>10, <2>3, FewerAhead
    <3> QED BY <1>2, <2>3, <3>1, UnionAhead
  <2> QED BY <1>7, <1>8, <1>10, <2>1, <2>2, <2>3
<1>14. AheadIn(made, hd[FSW], qd[Sim]) /\ AheadIn(made, Out, qd[Sim])
  <2>1. hd[FSW] = Heard(FSW) /\ FSW \in Party /\ Sim \in Client
    BY <1>7, Names
  <2>2. CASE qd[Sim] \subseteq Queued(Sim)
    BY <1>3, <2>1, <2>2, FewerAhead
  <2>3. CASE netIn # <<>> /\ qd[Sim] = Queued(Sim) \cup {first}
    <3>1. AheadIn(made, Heard(FSW), {first}) /\ AheadIn(made, Out, {first})
      BY <1>2, <1>3, <1>5, <2>1, <2>3, FewerAhead
    <3> QED BY <1>3, <2>1, <2>3, <3>1, UnionAhead
  <2> QED BY <1>8, <2>1, <2>2, <2>3
<1>15. ASSUME NEW p \in Party \ {Sim}, NEW m \in hd[p] PROVE made[m].from # p
  BY <1>4, <1>7, <1>15
<1>16. netIn # <<>> => made[first].from = Net
  BY <1>4, <1>5
<1>17. ASSUME NEW t \in Task, NEW m \in qd[t] PROVE made[m].from # t
  <2>1. t \in Client /\ t # Net
    BY Names
  <2> QED BY <1>4, <1>8, <1>16, <1>17, <2>1
<1>18. ASSUME NEW m \in qd[Sim] PROVE made[m].from \notin {Sim, FSW}
  <2>1. Sim \in Client /\ Net # Sim /\ Net # FSW
    BY Names
  <2> QED BY <1>4, <1>8, <1>16, <1>18, <2>1
<1>19. /\ UNCHANGED <<made, args>> /\ lost' \subseteq DOMAIN made
       /\ heard' \in [Party -> Seq(Nat)] /\ queue' \in [Client -> Seq(Nat)]
       /\ fswOut' = fswOut
  BY DEF Moves
<1>20. /\ fswOut' \in Seq(Nat) /\ ToSet(fswOut') = Out /\ OrderedIn(made, fswOut')
  BY <1>1, <1>3, <1>19 DEF Out
<1> HIDE DEF Moves
<1>21. \A p \in Party : OrderedIn(made, heard'[p]) /\ hd[p] \subseteq DOMAIN made
  BY <1>7, <1>11
<1>22. \A c \in Client : OrderedIn(made, queue'[c]) /\ qd[c] \subseteq DOMAIN made
  BY <1>8, <1>12
<1>23. \A p \in Party : AheadIn(made, hd[p], Out) /\ AheadIn(made, hd[p], in)
  BY <1>11
<1>24. \A c \in Client : /\ AheadIn(made, hd[c], qd[c])
                         /\ AheadIn(made, qd[c], Out) /\ AheadIn(made, qd[c], in)
  BY <1>12, <1>13
<1>25. /\ \A p \in Party \ {Sim} : \A m \in hd[p] : made[m].from # p
       /\ \A t \in Task : \A m \in qd[t] : made[m].from # t
       /\ \A m \in qd[Sim] : made[m].from \notin {Sim, FSW}
  BY <1>15, <1>17, <1>18
<1>26. netIn' \in Seq(Nat) /\ OrderedIn(made, netIn') /\ in \subseteq In /\ in = ToSet(netIn')
  BY <1>6
<1> HIDE DEF in
<1>27. Replaced(hd, qd, Out, in)
  BY <1>9, <1>14, <1>19, <1>20, <1>21, <1>22, <1>23, <1>24, <1>25, <1>26 DEF Replaced
<1> QED BY <1>27, ReplacedKeeps
-----------------------------------------------------------------------------
(* Who is given a new message, and who is queued for one. *)
LEMMA GiveTypes ==
  ASSUME MessageInv, NEW ps
  PROVE  /\ New \in Nat
         /\ Give(New, ps) \in [Party -> Seq(Nat)]
         /\ \A q \in Party : Give(New, ps)[q] = IF q \in ps THEN Append(heard[q], New) ELSE heard[q]
<1>1. heard \in [Party -> Seq(Nat)] /\ made \in Seq(AMade)
  BY PlacesOf
<1>2. New \in Nat
  BY <1>1 DEF New
<1> QED BY <1>1, <1>2 DEF Give

LEMMA QueueTypes ==
  ASSUME MessageInv, NEW m \in Nat, NEW c
  PROVE  /\ QueueForClients(m, c) \in [Client -> Seq(Nat)]
         /\ \A d \in Client : \/ QueueForClients(m, c)[d] = queue[d]
                              \/ QueueForClients(m, c)[d] = Append(queue[d], m) /\ c # d
<1>1. queue \in [Client -> Seq(Nat)]
  BY PlacesOf
<1> QED BY <1>1 DEF QueueForClients

LEMMA SendPuts ==
  ASSUME MessageInv, NEW kind \in Kind, Send(kind), UNCHANGED <<args, fswOut, netIn, lost>>
  PROVE  Puts(Sim, kind)
<1>1. /\ heard' = Give(New, {Sim} \cup Inside \cup Socket)
      /\ queue' = QueueForClients(New, Sim) /\ Make(Sim, kind)
  BY DEF Send
<1>2. \A q \in {Sim} \cup Inside \cup Socket : q \notin Task
  BY Names DEF Inside, Socket
<1>3. New \in Nat /\ Sim \notin {FSW, Net}
  BY GiveTypes, Names
<1>4. /\ heard' \in [Party -> Seq(Nat)]
      /\ \A q \in Party : \/ heard'[q] = heard[q]
                          \/ heard'[q] = Append(heard[q], New) /\ q \notin Task
  BY <1>1, <1>2, GiveTypes
<1>5. /\ queue' \in [Client -> Seq(Nat)]
      /\ \A c \in Client : \/ queue'[c] = queue[c]
                           \/ queue'[c] = Append(queue[c], New) /\ Sim # c
  BY <1>1, <1>3, QueueTypes
<1> QED BY <1>1, <1>3, <1>4, <1>5 DEF Puts

LEMMA TaskPuts ==
  ASSUME MessageInv, NEW t \in Task, TaskSend(t)
  PROVE  Puts(t, "other")
<1>1. /\ heard' = Give(New, Socket) /\ queue' = QueueForClients(New, t) /\ Make(t, "other")
      /\ UNCHANGED <<args, fswOut, netIn, lost>>
  BY DEF TaskSend, netVars
<1>2. \A q \in Socket : q = Net
  BY DEF Socket
<1>3. New \in Nat /\ t \notin {FSW, Net} /\ t # Sim /\ Net \notin Task
      /\ Net # FSW /\ Net # Sim
  BY GiveTypes, Names
<1>4. /\ heard' \in [Party -> Seq(Nat)]
      /\ \A q \in Party : \/ heard'[q] = heard[q]
                          \/ heard'[q] = Append(heard[q], New) /\ q = Net
  BY <1>1, <1>2, GiveTypes
<1>5. /\ queue' \in [Client -> Seq(Nat)]
      /\ \A c \in Client : \/ queue'[c] = queue[c]
                           \/ queue'[c] = Append(queue[c], New) /\ t # c
  BY <1>1, <1>3, QueueTypes
<1> QED BY <1>1, <1>3, <1>4, <1>5 DEF Puts

LEMMA FswPuts ==
  ASSUME MessageInv, NEW kind, FswSends(kind)
  PROVE  Puts(FSW, kind)
BY PlacesOf DEF FswSends, Puts, netVars

LEMMA PeerPuts ==
  ASSUME MessageInv, NEW kind, PeerSends(kind)
  PROVE  Puts(Net, kind)
BY PlacesOf DEF PeerSends, Puts

LEMMA PollMoves ==
  ASSUME MessageInv, NEW t \in Task, Poll(t)
  PROVE  Moves
<1>1. /\ heard \in [Party -> Seq(Nat)] /\ queue \in [Client -> Seq(Nat)]
      /\ lost \subseteq DOMAIN made
  BY PlacesOf
<1>2. /\ heard' = [heard EXCEPT ![t] = heard[t] \o queue[t]]
      /\ queue' = [queue EXCEPT ![t] = <<>>]
      /\ UNCHANGED <<args, fswOut, netIn, lost, made>>
  BY DEF Poll, netVars
<1>3. t \in Party /\ t \in Client
  BY Names
<1>4. heard[t] \o queue[t] \in Seq(Nat) /\ <<>> \in Seq(Nat)
  BY <1>1, <1>3, ConcatSet
<1>5. heard' \in [Party -> Seq(Nat)] /\ queue' \in [Client -> Seq(Nat)]
  BY <1>1, <1>2, <1>3, <1>4
<1>6. \A p \in Party : \/ heard'[p] = heard[p]
                       \/ /\ p \in Task /\ heard'[p] = heard[p] \o queue[p]
                          /\ queue'[p] = <<>>
  BY <1>1, <1>2, <1>3
<1>7. \A c \in Client : queue'[c] = queue[c] \/ queue'[c] = <<>>
  BY <1>1, <1>2
<1> QED BY <1>1, <1>2, <1>5, <1>6, <1>7 DEF Moves

LEMMA ThrowsMoves ==
  ASSUME MessageInv, NEW t \in Task, NEW all,
         queue' = [queue EXCEPT ![t] = IF all THEN <<>> ELSE @],
         UNCHANGED <<args, fswOut, netIn, lost, made, heard>>
  PROVE  Moves
<1>1. /\ heard \in [Party -> Seq(Nat)] /\ queue \in [Client -> Seq(Nat)]
      /\ lost \subseteq DOMAIN made
  BY PlacesOf
<1>2. /\ queue' \in [Client -> Seq(Nat)]
      /\ \A c \in Client : queue'[c] = queue[c] \/ queue'[c] = <<>>
  <2>1. t \in Client /\ <<>> \in Seq(Nat) /\ queue[t] \in Seq(Nat)
    BY <1>1, Names
  <2>2. queue' = [queue EXCEPT ![t] = <<>>] \/ queue' = [queue EXCEPT ![t] = queue[t]]
    OBVIOUS
  <2> QED BY <1>1, <2>1, <2>2
<1> QED BY <1>1, <1>2 DEF Moves

LEMMA ReadMoves ==
  ASSUME MessageInv, ReadForAllClients
  PROVE  Moves
<1>1. /\ heard \in [Party -> Seq(Nat)] /\ netIn \in Seq(Nat) /\ netIn # <<>>
      /\ lost \subseteq DOMAIN made
  BY PlacesOf DEF ReadForAllClients
<1>2. Head(netIn) \in Nat
  BY <1>1
<1>3. /\ queue' = QueueForClients(Head(netIn), "nobody") /\ netIn' = Tail(netIn)
      /\ UNCHANGED <<args, fswOut, lost, made, heard>>
  BY DEF ReadForAllClients
<1>4. /\ queue' \in [Client -> Seq(Nat)]
      /\ \A c \in Client : queue'[c] = queue[c] \/ queue'[c] = Append(queue[c], Head(netIn))
  BY <1>2, <1>3, QueueTypes
<1> QED BY <1>1, <1>3, <1>4 DEF Moves

LEMMA ReconnectMoves ==
  ASSUME MessageInv, ReconnectSocket
  PROVE  Moves
<1>1. /\ heard \in [Party -> Seq(Nat)] /\ queue \in [Client -> Seq(Nat)]
      /\ lost \subseteq DOMAIN made /\ In \subseteq DOMAIN made
  BY PlacesOf
<1> QED BY <1>1 DEF Moves, ReconnectSocket, In

messageVars == <<args, made, heard, queue, fswOut, netIn, lost>>

LEMMA MessageStays ==
  ASSUME MessageInv, UNCHANGED messageVars
  PROVE  MessageInv'
<1>1. UNCHANGED <<args, made, heard, queue, fswOut, netIn, lost>>
  BY DEF messageVars
<1> QED BY <1>1 DEF MessageInv, MessageTypes, Orders, Behind, Authors, Earlier, Placed,
                    Heard, Queued, Out, In

LEMMA MessageInit == Init => MessageInv
<1> SUFFICES ASSUME Init PROVE MessageInv
  OBVIOUS
<1>1. /\ args \in Configs /\ made = <<>> /\ lost = {} /\ fswOut = <<>> /\ netIn = <<>>
      /\ heard = [p \in Party |-> <<>>] /\ queue = [c \in Client |-> <<>>]
  BY DEF Init, Party, Client
<1>2. MessageTypes
  BY <1>1 DEF MessageTypes
<1>3. /\ \A p \in Party : heard[p] = <<>> /\ Heard(p) = {}
      /\ \A c \in Client : queue[c] = <<>> /\ Queued(c) = {}
      /\ Out = {} /\ In = {}
  BY <1>1, EmptySet DEF Heard, Queued, Out, In
<1>4. Orders
  BY <1>1, <1>3, EmptySet DEF Orders
<1>5. Behind
  BY <1>3, UnionAhead, Names DEF Behind
<1>6. Authors /\ Placed
  BY <1>1, <1>3, Names DEF Authors, Placed
<1>7. Earlier
  BY <1>1 DEF Earlier
<1> QED BY <1>2, <1>4, <1>5, <1>6, <1>7 DEF MessageInv

LEMMA MessageNext == MessageInv /\ [Next]_vars => MessageInv'
<1> SUFFICES ASSUME MessageInv, [Next]_vars PROVE MessageInv'
  OBVIOUS
<1>0. FSW \in Party /\ Net \in Party /\ Sim \in Party /\ \A t \in Task : t \in Party
  BY Names
<1>1. CASE LoadScript
  BY <1>1, MessageStays DEF LoadScript, messageVars, netVars
<1>2. CASE ProcessScriptInput
  <2>1. UNCHANGED <<args, fswOut, netIn, lost>>
    BY <1>2 DEF ProcessScriptInput, netVars
  <2>2. CASE Send("script")
    BY <1>0, <2>1, <2>2, SendPuts, PutsKeeps DEF Kind
  <2>3. CASE UNCHANGED <<made, heard, queue>>
    BY <2>1, <2>3, MessageStays DEF messageVars
  <2> QED BY <1>2, <2>2, <2>3 DEF ProcessScriptInput
<1>3. CASE GetCommands
  BY <1>3, GetKeeps
<1>4. CASE Step
  <2>1. UNCHANGED <<args, fswOut, netIn, lost>>
    BY <1>4 DEF Step, netVars
  <2>2. CASE Send("tick")
    BY <1>0, <2>1, <2>2, SendPuts, PutsKeeps DEF Kind
  <2>3. CASE UNCHANGED <<made, heard, queue>>
    BY <2>1, <2>3, MessageStays DEF messageVars
  <2> QED BY <1>4, <2>2, <2>3 DEF Step
<1>5. ASSUME NEW kind \in {"tock", "other"}, FswSends(kind) PROVE MessageInv'
  BY <1>0, <1>5, FswPuts, PutsKeeps DEF Kind
<1>6. CASE OutputState
  <2>1. UNCHANGED <<args, fswOut, netIn, lost>> /\ Send("other")
    BY <1>6 DEF OutputState, netVars
  <2> QED BY <1>0, <2>1, SendPuts, PutsKeeps DEF Kind
<1>7. CASE TimeTick
  BY <1>7, MessageStays DEF TimeTick, messageVars, netVars
<1>8. ASSUME NEW t \in Task, Join(t) PROVE MessageInv'
  BY <1>8, MessageStays DEF Join, messageVars, netVars
<1>9. ASSUME NEW t \in Task, TaskSend(t) PROVE MessageInv'
  BY <1>0, <1>9, TaskPuts, PutsKeeps DEF Kind
<1>10. ASSUME NEW t \in Task, Poll(t) PROVE MessageInv'
  BY <1>10, PollMoves, MovesKeep
<1>11. ASSUME NEW t \in Task, NEW w \in Waits[t], Block(t, w) PROVE MessageInv'
  <2>1. /\ queue' = [queue EXCEPT ![t] = IF w.reads THEN <<>> ELSE @]
        /\ UNCHANGED <<args, fswOut, netIn, lost, made, heard>>
    BY <1>11 DEF Block, netVars
  <2> QED BY <2>1, ThrowsMoves, MovesKeep
<1>12. ASSUME NEW t \in Task, Woken(t) PROVE MessageInv'
  <2> DEFINE all == task[t].reads /\ ~(clock - task[t].since > task[t].span)
  <2>1. /\ queue' = [queue EXCEPT ![t] = IF all THEN <<>> ELSE @]
        /\ UNCHANGED <<args, fswOut, netIn, lost, made, heard>>
    BY <1>12 DEF Woken, netVars
  <2> HIDE DEF all
  <2> QED BY <2>1, ThrowsMoves, MovesKeep
<1>13. CASE ReadForAllClients
  BY <1>13, ReadMoves, MovesKeep
<1>14. CASE LinkBreaks
  BY <1>14, MessageStays DEF LinkBreaks, messageVars
<1>15. CASE ReconnectSocket
  BY <1>15, ReconnectMoves, MovesKeep
<1>16. ASSUME NEW kind \in {"tock", "other"}, PeerSends(kind) PROVE MessageInv'
  BY <1>0, <1>16, PeerPuts, PutsKeeps DEF Kind
<1>17. CASE UNCHANGED vars
  BY <1>17, MessageStays DEF vars, netVars, messageVars
<1> QED BY <1>1, <1>2, <1>3, <1>4, <1>5, <1>6, <1>7, <1>8, <1>9, <1>10, <1>11, <1>12,
           <1>13, <1>14, <1>15, <1>16, <1>17 DEF Next, MainLoop

(* Everything comes in an order in which it can have been said: of any two  *)
(* places on the way to a participant the first holds nothing that knows    *)
(* of the second.                                                           *)
THEOREM MessageKept == Spec => []MessageInv
<1>1. Init => MessageInv
  BY MessageInit
<1>2. MessageInv /\ [Next]_vars => MessageInv'
  BY MessageNext
<1> QED BY <1>1, <1>2, PTL DEF Spec

(* Nobody is given a message twice, nor its own, nor an answer before what  *)
(* it answers (SimBaseClass.send and recv, Client.queue_for_clients).       *)
THEOREM OrderCorrect == Spec => []CausalOrder
<1>1. MessageInv => CausalOrder
  <2> SUFFICES ASSUME MessageInv, NEW p \in DOMAIN heard
               PROVE  LET given == Given(p) IN
                      /\ p # Sim => \A i \in DOMAIN given : made[given[i]].from # p
                      /\ \A i, j \in DOMAIN given :
                            i < j => /\ given[i] # given[j]
                                     /\ given[j] \notin made[given[i]].knows
    BY DEF CausalOrder
  <2> DEFINE given == Given(p)
             more == IF p \in Task THEN queue[p] ELSE <<>>
  <2>1. p \in Party /\ heard[p] \in Seq(Nat) /\ given = heard[p] \o more
    BY PlacesOf DEF Given
  <2>2. more \in Seq(Nat) /\ OrderedIn(made, more) /\ AheadIn(made, Heard(p), ToSet(more))
        /\ (\A m \in ToSet(more) : made[m].from # p)
    <3>1. CASE p \in Task
      <4>1. more = queue[p] /\ p \in Client
        BY <3>1, Names
      <4>2. queue[p] \in Seq(Nat) /\ OrderedIn(made, queue[p]) /\ AheadIn(made, Heard(p), Queued(p))
        BY <4>1, PlacesOf
      <4>3. \A m \in Queued(p) : made[m].from # p
        BY <3>1 DEF MessageInv, Authors
      <4> QED BY <4>1, <4>2, <4>3 DEF Queued
    <3>2. CASE p \notin Task
      <4>1. more = <<>>
        BY <3>2
      <4>2. <<>> \in Seq(Nat) /\ ToSet(<<>>) = {} /\ OrderedIn(made, <<>>)
        BY EmptySet
      <4> QED BY <4>1, <4>2, UnionAhead
    <3> QED BY <3>1, <3>2
  <2> HIDE DEF given, more
  <2>3. OrderedIn(made, heard[p])
    BY <2>1, PlacesOf
  <2>4. OrderedIn(made, given)
    BY <2>1, <2>2, <2>3, OrderedConcat DEF Heard
  <2>5. ToSet(given) = Heard(p) \cup ToSet(more)
    BY <2>1, <2>2, ConcatSet DEF Heard
  <2>6. p # Sim => \A m \in ToSet(given) : made[m].from # p
    BY <2>1, <2>2, <2>5 DEF MessageInv, Authors
  <2>7. \A i \in DOMAIN given : given[i] \in ToSet(given)
    BY DEF ToSet
  <2>8. \A i, j \in DOMAIN given :
            i < j => given[i] # given[j] /\ given[j] \notin made[given[i]].knows
    BY <2>4 DEF OrderedIn
  <2> QED BY <2>6, <2>7, <2>8 DEF given
<1> QED BY <1>1, MessageKept, PTL
-----------------------------------------------------------------------------
(* Where a message is that is logged or will be *)
Kept == Heard(Sim) \cup Queued(Sim) \cup Out \cup In

LEMMA KeptMore ==
  ASSUME MessageInv, Logged, NEW p \in Party, NEW kind \in Kind, Puts(p, kind),
         \/ heard'[Sim] = Append(heard[Sim], New)
         \/ queue'[Sim] = Append(queue[Sim], New)
         \/ fswOut' = Append(fswOut, New)
         \/ netIn' = Append(netIn, New)
  PROVE  Logged'
<1>1. New \in Nat /\ New \notin DOMAIN made /\ DOMAIN made' = DOMAIN made \cup {New}
  BY MakeFresh DEF Puts
<1>2. /\ heard[Sim] \in Seq(Nat) /\ queue[Sim] \in Seq(Nat)
      /\ fswOut \in Seq(Nat) /\ netIn \in Seq(Nat) /\ lost \subseteq DOMAIN made
  BY PlacesOf, Names
<1> DEFINE hd == ToSet(heard'[Sim])
           qd == ToSet(queue'[Sim])
           out == ToSet(fswOut')
           in == ToSet(netIn')
<1>3. hd = Heard(Sim) \/ hd = Heard(Sim) \cup {New}
  <2>1. heard'[Sim] = heard[Sim] \/ heard'[Sim] = Append(heard[Sim], New)
    BY Names DEF Puts
  <2> QED BY <1>1, <1>2, <2>1, AppendSet DEF Heard
<1>4. qd = Queued(Sim) \/ qd = Queued(Sim) \cup {New}
  <2>1. queue'[Sim] = queue[Sim] \/ queue'[Sim] = Append(queue[Sim], New)
    BY Names DEF Puts
  <2> QED BY <1>1, <1>2, <2>1, AppendSet DEF Queued
<1>5. out = Out \/ out = Out \cup {New}
  <2>1. fswOut' = fswOut \/ fswOut' = Append(fswOut, New)
    BY DEF Puts
  <2> QED BY <1>1, <1>2, <2>1, AppendSet DEF Out
<1>6. in = In \/ in = In \cup {New}
  <2>1. netIn' = netIn \/ netIn' = Append(netIn, New)
    BY DEF Puts
  <2> QED BY <1>1, <1>2, <2>1, AppendSet DEF In
<1>7. New \in hd \cup qd \cup out \cup in
  <2>1. /\ New \in ToSet(Append(heard[Sim], New)) /\ New \in ToSet(Append(queue[Sim], New))
        /\ New \in ToSet(Append(fswOut, New)) /\ New \in ToSet(Append(netIn, New))
    BY <1>1, <1>2, AppendSet
  <2> QED BY <2>1
<1> HIDE DEF hd, qd, out, in
<1>8. hd \cup qd \cup out \cup in = Kept \cup {New}
  BY <1>3, <1>4, <1>5, <1>6, <1>7 DEF Kept
<1>9. lost' = lost
  BY DEF Puts
<1>10. /\ DOMAIN made' \subseteq hd \cup qd \cup out \cup in \cup lost'
       /\ lost' \cap (hd \cup qd \cup out \cup in) = {}
  BY <1>1, <1>2, <1>8, <1>9 DEF Logged, Kept
<1> QED BY <1>10 DEF Logged, Heard, Queued, Out, In, hd, qd, out, in

LEMMA KeptSame ==
  ASSUME Logged, NEW keep, keep = ToSet(heard'[Sim]) \cup ToSet(queue'[Sim])
                                  \cup ToSet(fswOut') \cup ToSet(netIn'),
         keep \cup lost' = Kept \cup lost, keep \cap lost' = {}, made' = made
  PROVE  Logged'
BY DEF Logged, Kept, Heard, Queued, Out, In

LEMMA LoggedNext == MessageInv /\ Logged /\ [Next]_vars => Logged'
<1> SUFFICES ASSUME MessageInv, Logged, [Next]_vars PROVE Logged'
  OBVIOUS
<1>0. /\ FSW \in Party /\ Net \in Party /\ Sim \in Party /\ Sim \in Client
      /\ \A t \in Task : t \in Party /\ t # Sim
  BY Names
<1>s. ASSUME NEW kind \in Kind, Send(kind), UNCHANGED <<args, fswOut, netIn, lost>>
      PROVE  Logged'
  <2>1. heard' = Give(New, {Sim} \cup Inside \cup Socket)
    BY <1>s DEF Send
  <2>2. heard'[Sim] = Append(heard[Sim], New)
    BY <1>0, <2>1, GiveTypes
  <2> QED BY <1>0, <1>s, <2>2, SendPuts, KeptMore
<1>v. ASSUME heard'[Sim] = heard[Sim], queue'[Sim] = queue[Sim],
             UNCHANGED <<made, fswOut, netIn, lost>>
      PROVE  Logged'
  BY <1>v DEF Logged, Heard, Queued, Out, In
<1>1. CASE LoadScript
  BY <1>1, <1>v DEF LoadScript, netVars
<1>2. CASE ProcessScriptInput
  <2>1. UNCHANGED <<args, fswOut, netIn, lost>>
    BY <1>2 DEF ProcessScriptInput, netVars
  <2>2. CASE Send("script")
    BY <1>s, <2>1, <2>2 DEF Kind
  <2>3. CASE UNCHANGED <<made, heard, queue>>
    BY <1>v, <2>1, <2>3
  <2> QED BY <1>2, <2>2, <2>3 DEF ProcessScriptInput
<1>3. CASE GetCommands
  <2>1. /\ fswOut \o queue[Sim] \in Seq(Nat) /\ ToSet(fswOut \o queue[Sim]) = Out \cup Queued(Sim)
        /\ heard'[Sim] = heard[Sim] \o (fswOut \o queue[Sim])
        /\ queue'[Sim] = <<>> /\ fswOut' = <<>> /\ UNCHANGED <<made, netIn, lost>>
    BY <1>3, CommandsMoved
  <2>2. heard[Sim] \in Seq(Nat)
    BY PlaceByPlace
  <2>3. ToSet(heard'[Sim]) = Heard(Sim) \cup (Out \cup Queued(Sim))
    <3> DEFINE all == fswOut \o queue[Sim]
    <3>1. all \in Seq(Nat) /\ heard'[Sim] = heard[Sim] \o all /\ ToSet(all) = Out \cup Queued(Sim)
      BY <2>1
    <3> HIDE DEF all
    <3> QED BY <2>2, <3>1, ConcatSet DEF Heard
  <2>4. ToSet(queue'[Sim]) = {} /\ ToSet(fswOut') = {} /\ ToSet(netIn') = In
    BY <2>1, EmptySet DEF In
  <2>5. ToSet(heard'[Sim]) \cup ToSet(queue'[Sim]) \cup ToSet(fswOut') \cup ToSet(netIn') = Kept
    BY <2>3, <2>4 DEF Kept
  <2>6. Kept \cap lost = {}
    BY DEF Logged, Kept
  <2> QED BY <2>1, <2>5, <2>6, KeptSame
<1>4. CASE Step
  <2>1. UNCHANGED <<args, fswOut, netIn, lost>>
    BY <1>4 DEF Step, netVars
  <2>2. CASE Send("tick")
    BY <1>s, <2>1, <2>2 DEF Kind
  <2>3. CASE UNCHANGED <<made, heard, queue>>
    BY <1>v, <2>1, <2>3
  <2> QED BY <1>4, <2>2, <2>3 DEF Step
<1>5. ASSUME NEW kind \in {"tock", "other"}, FswSends(kind) PROVE Logged'
  <2>1. fswOut' = Append(fswOut, New) /\ kind \in Kind
    BY <1>5 DEF FswSends, Kind
  <2> QED BY <1>0, <1>5, <2>1, FswPuts, KeptMore
<1>6. CASE OutputState
  <2>1. UNCHANGED <<args, fswOut, netIn, lost>> /\ Send("other")
    BY <1>6 DEF OutputState, netVars
  <2> QED BY <1>s, <2>1 DEF Kind
<1>7. CASE TimeTick
  BY <1>7, <1>v DEF TimeTick, netVars
<1>8. ASSUME NEW t \in Task, Join(t) PROVE Logged'
  BY <1>8, <1>v DEF Join, netVars
<1>9. ASSUME NEW t \in Task, TaskSend(t) PROVE Logged'
  <2>1. queue' = QueueForClients(New, t)
    BY <1>9 DEF TaskSend
  <2>2. queue \in [Client -> Seq(Nat)]
    BY PlacesOf
  <2>3. queue'[Sim] = Append(queue[Sim], New)
    BY <1>0, <2>1, <2>2 DEF QueueForClients, Clients
  <2> QED BY <1>0, <1>9, <2>3, TaskPuts, KeptMore DEF Kind
<1>10. ASSUME NEW t \in Task, Poll(t) PROVE Logged'
  <2>1. heard \in [Party -> Seq(Nat)] /\ queue \in [Client -> Seq(Nat)]
    BY PlacesOf
  <2>2. heard'[Sim] = heard[Sim] /\ queue'[Sim] = queue[Sim]
    BY <1>0, <1>10, <2>1 DEF Poll
  <2> QED BY <1>10, <1>v, <2>2 DEF Poll, netVars
<1>11. ASSUME NEW t \in Task, NEW w \in Waits[t], Block(t, w) PROVE Logged'
  <2>1. queue \in [Client -> Seq(Nat)]
    BY PlacesOf
  <2>2. queue'[Sim] = queue[Sim]
    BY <1>0, <1>11, <2>1 DEF Block
  <2> QED BY <1>11, <1>v, <2>2 DEF Block, netVars
<1>12. ASSUME NEW t \in Task, Woken(t) PROVE Logged'
  <2>1. queue \in [Client -> Seq(Nat)]
    BY PlacesOf
  <2>2. queue'[Sim] = queue[Sim]
    BY <1>0, <1>12, <2>1 DEF Woken
  <2> QED BY <1>12, <1>v, <2>2 DEF Woken, netVars
<1>13. CASE ReadForAllClients
  <2>1. /\ netIn \in Seq(Nat) /\ netIn # <<>> /\ queue \in [Client -> Seq(Nat)]
        /\ heard' = heard /\ fswOut' = fswOut /\ lost' = lost /\ made' = made
        /\ netIn' = Tail(netIn) /\ queue' = QueueForClients(Head(netIn), "nobody")
    BY <1>13, PlacesOf DEF ReadForAllClients
  <2>2. Head(netIn) \in Nat /\ In = {Head(netIn)} \cup ToSet(Tail(netIn))
    BY <2>1, TailSet DEF In
  <2>3. queue'[Sim] = Append(queue[Sim], Head(netIn)) /\ queue[Sim] \in Seq(Nat)
    <3>1. Sim # "nobody"
      BY DEF Sim
    <3> QED BY <1>0, <2>1, <3>1 DEF QueueForClients, Clients
  <2>4. ToSet(queue'[Sim]) = Queued(Sim) \cup {Head(netIn)}
    BY <2>2, <2>3, AppendSet DEF Queued
  <2>5. ToSet(heard'[Sim]) \cup ToSet(queue'[Sim]) \cup ToSet(fswOut') \cup ToSet(netIn') = Kept
    BY <2>1, <2>2, <2>4 DEF Kept, Heard, Out
  <2>6. Kept \cap lost = {}
    BY DEF Logged, Kept
  <2> QED BY <2>1, <2>5, <2>6, KeptSame
<1>14. CASE LinkBreaks
  BY <1>14, <1>v DEF LinkBreaks
<1>15. CASE ReconnectSocket
  <2>1. /\ heard' = heard /\ queue' = queue /\ fswOut' = fswOut /\ made' = made
        /\ netIn' = <<>> /\ lost' = lost \cup In
    BY <1>15 DEF ReconnectSocket, In
  <2>2. AheadIn(made, Heard(Sim), In) /\ AheadIn(made, Queued(Sim), In) /\ AheadIn(made, Out, In)
    BY PlaceByPlace
  <2> DEFINE keep == Heard(Sim) \cup Queued(Sim) \cup Out
  <2>3. keep \cap In = {}
    BY <2>2 DEF AheadIn
  <2>4. keep = ToSet(heard'[Sim]) \cup ToSet(queue'[Sim]) \cup ToSet(fswOut') \cup ToSet(netIn')
    BY <2>1, EmptySet DEF Heard, Queued, Out
  <2>5. Kept = keep \cup In /\ keep \cap lost = {}
    BY DEF Kept, Logged
  <2> HIDE DEF keep
  <2>6. keep \cup lost' = Kept \cup lost /\ keep \cap lost' = {}
    BY <2>1, <2>3, <2>5
  <2> QED BY <2>1, <2>4, <2>6, KeptSame
<1>16. ASSUME NEW kind \in {"tock", "other"}, PeerSends(kind) PROVE Logged'
  <2>1. netIn' = Append(netIn, New) /\ kind \in Kind
    BY <1>16 DEF PeerSends, Kind
  <2> QED BY <1>0, <1>16, <2>1, PeerPuts, KeptMore
<1>17. CASE UNCHANGED vars
  BY <1>17, <1>v DEF vars, netVars
<1> QED BY <1>1, <1>2, <1>3, <1>4, <1>5, <1>6, <1>7, <1>8, <1>9, <1>10, <1>11, <1>12,
           <1>13, <1>14, <1>15, <1>16, <1>17 DEF Next, MainLoop

(* Every message is logged once, or once on its way to be, or lost in a     *)
(* link that broke (SimBaseClass.send and recv, Client.reconnect_socket).   *)
THEOREM LogCorrect == Spec => []LogComplete
<1>1. Init => Logged
  BY EmptySet DEF Init, Logged, Heard, Queued, Out, In
<1>2. MessageInv /\ Logged /\ [Next]_vars => Logged'
  BY LoggedNext
<1>3. MessageInv /\ Logged => LogComplete
  <2> SUFFICES ASSUME MessageInv, Logged, NEW m \in DOMAIN made
               PROVE  LET places == heard[Sim] \o queue[Sim] \o fswOut \o netIn
                      IN  Cardinality({i \in DOMAIN places : places[i] = m})
                          = (IF m \in lost THEN 0 ELSE 1)
    BY DEF LogComplete
  <2> DEFINE two == heard[Sim] \o queue[Sim]
             three == two \o fswOut
             places == three \o netIn
             at == {i \in DOMAIN places : places[i] = m}
  <2>1. /\ heard[Sim] \in Seq(Nat) /\ queue[Sim] \in Seq(Nat)
        /\ fswOut \in Seq(Nat) /\ netIn \in Seq(Nat)
    BY PlaceByPlace
  <2>2. /\ OrderedIn(made, heard[Sim]) /\ OrderedIn(made, queue[Sim])
        /\ OrderedIn(made, fswOut) /\ OrderedIn(made, netIn)
        /\ AheadIn(made, Heard(Sim), Queued(Sim)) /\ AheadIn(made, Heard(Sim), Out)
        /\ AheadIn(made, Heard(Sim), In) /\ AheadIn(made, Queued(Sim), In)
        /\ AheadIn(made, Out, In)
    BY PlaceByPlace
  <2>3. AheadIn(made, Queued(Sim), Out)
    BY PlacesOf, Names
  <2>4. two \in Seq(Nat) /\ OrderedIn(made, two) /\ ToSet(two) = Heard(Sim) \cup Queued(Sim)
    BY <2>1, <2>2, ConcatSet, OrderedConcat DEF Heard, Queued
  <2> HIDE DEF two
  <2>5. /\ AheadIn(made, ToSet(two), ToSet(fswOut)) /\ AheadIn(made, ToSet(two), In)
    BY <2>2, <2>3, <2>4, UnionAhead DEF Out
  <2>6. three \in Seq(Nat) /\ OrderedIn(made, three) /\ ToSet(three) = ToSet(two) \cup Out
    BY <2>1, <2>2, <2>4, <2>5, ConcatSet, OrderedConcat DEF Out
  <2> HIDE DEF three
  <2>7. AheadIn(made, ToSet(three), ToSet(netIn))
    BY <2>2, <2>5, <2>6, UnionAhead DEF In
  <2>8. /\ places \in Seq(Nat) /\ OrderedIn(made, places)
        /\ ToSet(places) = ToSet(three) \cup In
    BY <2>1, <2>2, <2>6, <2>7, ConcatSet, OrderedConcat DEF In
  <2>9. ToSet(places) = Kept
    BY <2>4, <2>6, <2>8 DEF Kept
  <2> HIDE DEF places
  <2>10. \A i, j \in DOMAIN places : places[i] = places[j] => i = j
    <3> SUFFICES ASSUME NEW i \in DOMAIN places, NEW j \in DOMAIN places, i # j
                 PROVE  places[i] # places[j]
      OBVIOUS
    <3>1. DOMAIN places \subseteq Nat
      BY <2>8
    <3>2. i < j \/ j < i
      BY <3>1
    <3> QED BY <2>8, <3>2 DEF OrderedIn
  <2>11. Cardinality(at) = (IF m \in lost THEN 0 ELSE 1)
    <3>1. CASE m \in lost
      <4>1. m \notin ToSet(places)
        BY <2>9, <3>1 DEF Logged, Kept
      <4>2. at = {}
        BY <4>1 DEF ToSet
      <4> QED BY <3>1, <4>2, FS_EmptySet
    <3>2. CASE m \notin lost
      <4>1. m \in ToSet(places)
        BY <2>9, <3>2 DEF Logged, Kept
      <4>2. PICK i \in DOMAIN places : places[i] = m
        BY <4>1 DEF ToSet
      <4>3. at = {i}
        BY <2>10, <4>2
      <4> HIDE DEF at
      <4> QED BY <3>2, <4>3, FS_Singleton
    <3> QED BY <3>1, <3>2
  <2> QED BY <2>11 DEF places, three, two
<1> QED BY <1>1, <1>2, <1>3, MessageKept, PTL DEF Spec
-----------------------------------------------------------------------------
(* A wait is within its time, and at most one step over it when the event   *)
(* of that step has woken it; and all who were woken have run before the    *)
(* next step.                                                               *)
Waiting == [at : {"blocked"}, reads : BOOLEAN, since : Nat, span : Nat]

ClockInv ==
    /\ now \in Nat /\ clock \in Nat
    /\ now = IF main \in {"fsw", "tick"} THEN clock + 2 ELSE clock
    /\ task \in [Task -> [at : {"new", "idle"}] \cup Waiting]
    /\ woken \subseteq Blocked
    /\ woken # {} => main = "asleep"
    /\ \A t \in Blocked :
          clock - task[t].since <= task[t].span + (IF t \in woken THEN 2 ELSE 0)

LEMMA BlockedWaits ==
  ASSUME ClockInv, NEW t \in Blocked
  PROVE  t \in Task /\ task[t] \in Waiting /\ task[t].since \in Nat /\ task[t].span \in Nat
<1>1. t \in Task /\ task[t].at = "blocked" /\ task[t] \in [at : {"new", "idle"}] \cup Waiting
  BY DEF Blocked, ClockInv
<1>2. task[t] \in Waiting
  BY <1>1
<1> QED BY <1>1, <1>2 DEF Waiting

(* Steps that neither begin nor end a wait, nor take time *)
LEMMA ClockStays ==
  ASSUME ClockInv, UNCHANGED <<now, clock, task, woken>>,
         woken # {} => main' = "asleep",
         main' \in {"fsw", "tick"} <=> main \in {"fsw", "tick"}
  PROVE  ClockInv'
BY DEF ClockInv, Blocked

LEMMA ClockNext == ClockInv /\ [Next]_vars => ClockInv'
<1> SUFFICES ASSUME ClockInv, [Next]_vars PROVE ClockInv'
  OBVIOUS
<1>0. /\ now \in Nat /\ clock \in Nat /\ task \in [Task -> [at : {"new", "idle"}] \cup Waiting]
      /\ now = IF main \in {"fsw", "tick"} THEN clock + 2 ELSE clock
      /\ woken \subseteq Blocked /\ (woken # {} => main = "asleep")
  BY DEF ClockInv
<1>1. CASE LoadScript
  BY <1>0, <1>1, ClockStays DEF LoadScript, AtTop
<1>2. CASE ProcessScriptInput
  BY <1>0, <1>2, ClockStays DEF ProcessScriptInput, AtTop
<1>3. CASE GetCommands
  BY <1>0, <1>3, ClockStays DEF GetCommands, AtTop
<1>4. CASE Step
  <2>1. /\ now' = now + 2 /\ main' = "fsw" /\ main = "step"
        /\ UNCHANGED <<clock, task, woken>> /\ woken = {}
    BY <1>0, <1>4 DEF Step
  <2>2. \A t \in Blocked :
          clock - task[t].since <= task[t].span + (IF t \in woken THEN 2 ELSE 0)
    BY DEF ClockInv
  <2> QED BY <1>0, <2>1, <2>2 DEF ClockInv, Blocked
<1>5. ASSUME NEW kind \in {"tock", "other"}, FswSends(kind) PROVE ClockInv'
  BY <1>0, <1>5, ClockStays DEF FswSends, simVars
<1>6. CASE OutputState
  BY <1>0, <1>6, ClockStays DEF OutputState, FswRan
<1>7. CASE TimeTick
  <2>1. /\ main \in {"fsw", "tick"} /\ clock' = now /\ woken' = Blocked /\ main' = "asleep"
        /\ UNCHANGED <<now, task>>
    BY <1>7 DEF TimeTick, FswRan, Notified
  <2>2. now = clock + 2 /\ woken = {}
    BY <1>0, <2>1
  <2>3. ASSUME NEW t \in Blocked PROVE clock' - task[t].since <= task[t].span + 2
    <3>1. clock - task[t].since <= task[t].span
      <4>1. clock - task[t].since <= task[t].span + 0
        BY <2>2 DEF ClockInv
      <4> QED BY <1>0, <4>1, BlockedWaits
    <3> QED BY <1>0, <2>1, <2>2, <3>1, BlockedWaits
  <2>4. Blocked' = Blocked
    BY <2>1 DEF Blocked
  <2> QED BY <1>0, <2>1, <2>2, <2>3, <2>4 DEF ClockInv
<1>8. ASSUME NEW t \in Task, Join(t) PROVE ClockInv'
  <2>1. /\ task' = [task EXCEPT ![t] = Idle] /\ task[t].at = "new"
        /\ UNCHANGED <<now, clock, main, woken>>
    BY <1>8 DEF Join, simVars
  <2>2. Idle \in [at : {"new", "idle"}] /\ Idle.at # "blocked"
    BY DEF Idle
  <2>3. task' \in [Task -> [at : {"new", "idle"}] \cup Waiting]
    BY <1>0, <2>1, <2>2
  <2>4. Blocked' = Blocked /\ \A u \in Blocked : task'[u] = task[u]
    BY <1>0, <2>1, <2>2 DEF Blocked
  <2> QED BY <1>0, <2>1, <2>3, <2>4 DEF ClockInv
<1>9. ASSUME NEW t \in Task, TaskSend(t) PROVE ClockInv'
  BY <1>0, <1>9, ClockStays DEF TaskSend, simVars
<1>10. ASSUME NEW t \in Task, Poll(t) PROVE ClockInv'
  BY <1>0, <1>10, ClockStays DEF Poll, simVars
<1>11. ASSUME NEW t \in Task, NEW w \in Waits[t], Block(t, w) PROVE ClockInv'
  <2> DEFINE wait == [at |-> "blocked", reads |-> w.reads, since |-> clock, span |-> w.span]
  <2>1. /\ task' = [task EXCEPT ![t] = wait] /\ task[t].at = "idle"
        /\ UNCHANGED <<now, clock, main, woken>>
    BY <1>11 DEF Block, simVars
  <2>2. w.reads \in BOOLEAN /\ w.span \in Nat
    BY SimulationAssumption
  <2>3. wait \in Waiting /\ wait.at = "blocked" /\ wait.since = clock /\ wait.span = w.span
    BY <1>0, <2>2 DEF Waiting
  <2> HIDE DEF wait
  <2>4. task' \in [Task -> [at : {"new", "idle"}] \cup Waiting] /\ task'[t] = wait
        /\ \A u \in Task \ {t} : task'[u] = task[u]
    BY <1>0, <2>1, <2>3
  <2>5. Blocked' = Blocked \cup {t} /\ t \notin Blocked
    BY <1>0, <2>1, <2>3, <2>4 DEF Blocked
  <2>6. ASSUME NEW u \in Blocked'
        PROVE  clock' - task'[u].since <= task'[u].span + (IF u \in woken' THEN 2 ELSE 0)
    <3>1. CASE u = t
      BY <1>0, <2>1, <2>2, <2>3, <2>4, <3>1
    <3>2. CASE u # t
      <4>1. u \in Blocked /\ task'[u] = task[u]
        BY <2>4, <2>5, <3>2 DEF Blocked
      <4> QED BY <2>1, <4>1 DEF ClockInv
    <3> QED BY <3>1, <3>2
  <2> QED BY <1>0, <2>1, <2>4, <2>5, <2>6 DEF ClockInv
<1>12. ASSUME NEW t \in Task, Woken(t) PROVE ClockInv'
  <2> DEFINE over == clock - task[t].since > task[t].span
  <2>1. /\ main = "asleep" /\ t \in woken /\ woken' = woken \ {t}
        /\ task' = [task EXCEPT ![t] = IF over THEN Idle ELSE task[t]]
        /\ UNCHANGED <<now, clock, main>>
    BY <1>12 DEF Woken, simVars
  <2>2. t \in Blocked /\ task[t] \in Waiting /\ task[t].since \in Nat /\ task[t].span \in Nat
    BY <1>0, <2>1, BlockedWaits
  <2>3. Idle \in [at : {"new", "idle"}] /\ Idle.at # "blocked"
    BY DEF Idle
  <2>4. CASE over
    <3>1. /\ task' \in [Task -> [at : {"new", "idle"}] \cup Waiting] /\ task'[t] = Idle
          /\ \A u \in Task \ {t} : task'[u] = task[u]
      BY <1>0, <2>1, <2>3, <2>4
    <3>2. Blocked' = Blocked \ {t}
      BY <2>3, <3>1 DEF Blocked
    <3>3. \A u \in Blocked' : u \in Blocked /\ task'[u] = task[u] /\ (u \in woken' <=> u \in woken)
      BY <2>1, <3>1, <3>2 DEF Blocked
    <3> QED BY <1>0, <2>1, <3>1, <3>2, <3>3 DEF ClockInv
  <2>5. CASE ~over
    <3>1. task' = task /\ Blocked' = Blocked
      BY <1>0, <2>1, <2>5 DEF Blocked
    <3>2. ASSUME NEW u \in Blocked
          PROVE  clock - task[u].since <= task[u].span + (IF u \in woken' THEN 2 ELSE 0)
      <4>1. CASE u = t
        BY <1>0, <2>1, <2>2, <2>5, <4>1
      <4>2. CASE u # t
        <5>1. u \in woken' <=> u \in woken
          BY <2>1, <4>2
        <5> QED BY <5>1 DEF ClockInv
      <4> QED BY <4>1, <4>2
    <3> QED BY <1>0, <2>1, <3>1, <3>2 DEF ClockInv
  <2> QED BY <2>4, <2>5
<1>13. CASE ReadForAllClients
  BY <1>0, <1>13, ClockStays DEF ReadForAllClients, simVars
<1>14. CASE LinkBreaks
  BY <1>0, <1>14, ClockStays DEF LinkBreaks, simVars
<1>15. CASE ReconnectSocket
  BY <1>0, <1>15, ClockStays DEF ReconnectSocket, simVars
<1>16. ASSUME NEW kind \in {"tock", "other"}, PeerSends(kind) PROVE ClockInv'
  BY <1>0, <1>16, ClockStays DEF PeerSends, simVars
<1>17. CASE UNCHANGED vars
  BY <1>0, <1>17, ClockStays DEF vars, simVars
<1> QED BY <1>1, <1>2, <1>3, <1>4, <1>5, <1>6, <1>7, <1>8, <1>9, <1>10, <1>11, <1>12,
           <1>13, <1>14, <1>15, <1>16, <1>17 DEF Next, MainLoop

LEMMA ClockInit == Init => ClockInv
<1> SUFFICES ASSUME Init PROVE ClockInv
  OBVIOUS
<1>1. /\ task = [t \in Task |-> [at |-> "new"]] /\ woken = {} /\ now = 0 /\ clock = 0
      /\ main = "inputs"
  BY DEF Init
<1>2. Blocked = {}
  BY <1>1 DEF Blocked
<1> QED BY <1>1, <1>2 DEF ClockInv

(* A wait ends in the first step that takes it over its time, and none      *)
(* waits beyond it (SimExec.wait and time_tick, Client.recv).               *)
THEOREM WaitsCorrect == Spec => WaitsOnTime
<1> DEFINE InTime == \A t \in Blocked :
             /\ task'[t].at # "blocked" =>
                   clock - task[t].since \in task[t].span + 1 .. task[t].span + 2
             /\ t \notin woken => clock - task[t].since <= task[t].span
<1>1. Init => ClockInv
  BY ClockInit
<1>2. ClockInv /\ [Next]_vars => ClockInv'
  BY ClockNext
<1>3. ClockInv /\ [Next]_vars => [InTime]_vars
  <2> SUFFICES ASSUME ClockInv, Next, NEW t \in Blocked
               PROVE  /\ task'[t].at # "blocked" =>
                            clock - task[t].since \in task[t].span + 1 .. task[t].span + 2
                      /\ t \notin woken => clock - task[t].since <= task[t].span
    OBVIOUS
  <2>1. t \in Task /\ task[t].at = "blocked" /\ task[t].since \in Nat /\ task[t].span \in Nat
        /\ clock \in Nat /\ task \in [Task -> [at : {"new", "idle"}] \cup Waiting]
    BY BlockedWaits DEF Blocked, ClockInv
  <2>2. clock - task[t].since <= task[t].span + (IF t \in woken THEN 2 ELSE 0)
    BY DEF ClockInv
  <2>3. t \notin woken => clock - task[t].since <= task[t].span
    BY <2>1, <2>2
  <2>4. task' = task \/ (\E u \in Task : \/ Join(u) \/ Woken(u)
                                         \/ \E w \in Waits[u] : Block(u, w))
    BY DEF Next, MainLoop, LoadScript, ProcessScriptInput, GetCommands, Step, FswSends,
           TimeTick, OutputState, TaskSend, Poll, ReadForAllClients, LinkBreaks,
           ReconnectSocket, PeerSends
  <2>5. ASSUME task'[t].at # "blocked"
        PROVE  clock - task[t].since \in task[t].span + 1 .. task[t].span + 2
    <3>1. PICK u \in Task : Join(u) \/ Woken(u) \/ \E w \in Waits[u] : Block(u, w)
      BY <2>1, <2>4, <2>5
    <3>2. u = t
      BY <2>1, <2>5, <3>1 DEF Join, Woken, Block
    <3>3. Woken(t)
      BY <2>1, <3>1, <3>2 DEF Join, Block
    <3>4. t \in woken /\ clock - task[t].since > task[t].span
      BY <2>1, <2>5, <3>3 DEF Woken
    <3> QED BY <2>1, <2>2, <3>4
  <2> QED BY <2>3, <2>5
<1>4. Spec => [][InTime]_vars
  BY <1>1, <1>2, <1>3, PTL DEF Spec
<1> QED BY <1>4 DEF WaitsOnTime
-----------------------------------------------------------------------------
(* Lockstep.  F is the FSW, wherever it runs; an answer is pending until    *)
(* the main loop has it.                                                    *)
F == IF args.fsw THEN FSW ELSE Net
Ticks == Made(Sim, "tick")
Tocks == Made(F, "tock")
Open == {i \in Ticks : \A j \in Tocks : i \notin made[j].knows}
Coming == Queued(Sim) \cup Out \cup In
Pending == Tocks \cap Coming

Kinds == \A m \in DOMAIN made : /\ made[m].kind = "tick" => made[m].from = Sim
                                /\ made[m].kind = "tock" => made[m].from = F

(* No tick is open but the last; while its answer is pending, or may make   *)
(* the next step begin, none is; and there is one answer at most.           *)
Lock == /\ \A i \in Open, k \in Ticks : k <= i
        /\ Pending # {} \/ main = "step" \/ ready => Open = {}
        /\ main = "step" \/ ready => Pending = {}
        /\ \A i, j \in Pending : i = j
        /\ main = "step" => ~ready

LockInv == Kinds /\ (args.lockstep => Lock)

LEMMA MoreInSet ==
  ASSUME NEW s \in Seq(Nat), NEW t, NEW x \in Nat, t = s \/ t = Append(s, x)
  PROVE  ToSet(t) \subseteq ToSet(s) \cup {x}
<1>1. CASE t = s
  BY <1>1
<1>2. CASE t = Append(s, x)
  <2>1. ToSet(Append(s, x)) = ToSet(s) \cup {x}
    BY AppendSet
  <2> QED BY <1>2, <2>1
<1> QED BY <1>1, <1>2

LEMMA ComingMore ==
  ASSUME MessageInv, NEW p \in Party, NEW kind \in Kind, Puts(p, kind)
  PROVE  Coming' \subseteq Coming \cup {New}
<1>1. /\ queue[Sim] \in Seq(Nat) /\ fswOut \in Seq(Nat) /\ netIn \in Seq(Nat) /\ New \in Nat
      /\ Sim \in Client
  BY PlaceByPlace, GiveTypes, Names
<1>2. ToSet(queue'[Sim]) \subseteq Queued(Sim) \cup {New}
  <2>1. queue'[Sim] = queue[Sim] \/ queue'[Sim] = Append(queue[Sim], New)
    BY <1>1 DEF Puts
  <2> QED BY <1>1, <2>1, MoreInSet DEF Queued
<1>3. ToSet(fswOut') \subseteq Out \cup {New}
  <2>1. fswOut' = fswOut \/ fswOut' = Append(fswOut, New)
    BY DEF Puts
  <2> QED BY <1>1, <2>1, MoreInSet DEF Out
<1>4. ToSet(netIn') \subseteq In \cup {New}
  <2>1. netIn' = netIn \/ netIn' = Append(netIn, New)
    BY DEF Puts
  <2> QED BY <1>1, <2>1, MoreInSet DEF In
<1>5. Coming' = ToSet(queue'[Sim]) \cup ToSet(fswOut') \cup ToSet(netIn')
  BY DEF Coming, Queued, Out, In
<1> QED BY <1>2, <1>3, <1>4, <1>5 DEF Coming

LEMMA ComingLess ==
  ASSUME MessageInv, Moves
  PROVE  Coming' \subseteq Coming
<1>1. /\ queue[Sim] \in Seq(Nat) /\ fswOut \in Seq(Nat) /\ netIn \in Seq(Nat)
      /\ Sim \in Client
  BY PlaceByPlace, Names
<1>2. netIn # <<>> => Head(netIn) \in Nat /\ Head(netIn) \in In /\ ToSet(Tail(netIn)) \subseteq In
  BY <1>1, TailSet DEF In
<1>3. ToSet(queue'[Sim]) \subseteq Queued(Sim) \cup In
  <2>1. CASE queue'[Sim] = queue[Sim]
    BY <2>1 DEF Queued
  <2>2. CASE queue'[Sim] = <<>>
    BY <2>2, EmptySet
  <2>3. CASE netIn # <<>> /\ queue'[Sim] = Append(queue[Sim], Head(netIn))
    BY <1>1, <1>2, <2>3, AppendSet DEF Queued
  <2> QED BY <1>1, <2>1, <2>2, <2>3 DEF Moves
<1>4. ToSet(netIn') \subseteq In
  BY <1>2, EmptySet DEF Moves, In
<1>5. ToSet(fswOut') = Out
  BY DEF Moves, Out
<1>6. Coming' = ToSet(queue'[Sim]) \cup ToSet(fswOut') \cup ToSet(netIn')
  BY DEF Coming, Queued, Out, In
<1> QED BY <1>3, <1>4, <1>5, <1>6 DEF Coming

(* What a new message changes *)
LEMMA TicksAndTocks ==
  ASSUME MessageInv, Kinds, NEW p \in Party, NEW kind \in Kind, Puts(p, kind),
         kind = "tick" => p = Sim, kind = "tock" => p = F
  PROVE  /\ Kinds' /\ New \in Nat /\ New \notin Ticks /\ New \notin Tocks
         /\ Ticks \subseteq DOMAIN made
         /\ Ticks' = Ticks \cup (IF kind = "tick" THEN {New} ELSE {})
         /\ Tocks' = Tocks \cup (IF kind = "tock" THEN {New} ELSE {})
         /\ kind \notin {"tick", "tock"} => Open' = Open
         /\ kind = "tick" => Open' = Open \cup {New}
         /\ kind = "tock" => Open' = Open \ Knows(F)
         /\ Pending' \subseteq Pending \cup (IF kind = "tock" THEN {New} ELSE {})
<1>1. /\ New \in Nat /\ New \notin DOMAIN made /\ DOMAIN made' = DOMAIN made \cup {New}
      /\ made'[New].from = p /\ made'[New].kind = kind /\ made'[New].knows = Knows(p)
      /\ \A k \in DOMAIN made : made'[k] = made[k] /\ New \notin made[k].knows
      /\ Knows(p) \subseteq DOMAIN made
  BY MakeFresh DEF Puts
<1>2. F' = F
  BY DEF Puts, F
<1>3. /\ Ticks = {i \in DOMAIN made : made[i].from = Sim /\ made[i].kind = "tick"}
      /\ Tocks = {i \in DOMAIN made : made[i].from = F /\ made[i].kind = "tock"}
      /\ Ticks' = {i \in DOMAIN made' : made'[i].from = Sim /\ made'[i].kind = "tick"}
      /\ Tocks' = {i \in DOMAIN made' : made'[i].from = F /\ made'[i].kind = "tock"}
  BY <1>2 DEF Ticks, Tocks, Made
<1>4. Kinds'
  BY <1>1, <1>2 DEF Kinds
<1>5. Ticks' = Ticks \cup (IF kind = "tick" THEN {New} ELSE {})
  BY <1>1, <1>3
<1>6. Tocks' = Tocks \cup (IF kind = "tock" THEN {New} ELSE {})
  BY <1>1, <1>3
<1>7. /\ Ticks \subseteq DOMAIN made /\ Tocks \subseteq DOMAIN made
      /\ New \notin Ticks /\ New \notin Tocks
  BY <1>1, <1>3
<1>8. Open = {i \in Ticks : \A j \in Tocks : i \notin made[j].knows}
      /\ Open' = {i \in Ticks' : \A j \in Tocks' : i \notin made'[j].knows}
  BY DEF Open
<1>9. \A j \in Tocks : made'[j].knows = made[j].knows /\ New \notin made[j].knows
  BY <1>1, <1>7
<1>10. kind \notin {"tick", "tock"} => Open' = Open
  BY <1>5, <1>6, <1>8, <1>9
<1>11. kind = "tick" => Open' = Open \cup {New}
  BY <1>5, <1>6, <1>8, <1>9
<1>12. kind = "tock" => Open' = Open \ Knows(F)
  BY <1>1, <1>5, <1>6, <1>8, <1>9
<1>13. Pending' \subseteq Pending \cup (IF kind = "tock" THEN {New} ELSE {})
  <2>1. Pending' = Tocks' \cap Coming' /\ Coming' \subseteq Coming \cup {New}
    BY ComingMore DEF Pending
  <2> QED BY <1>6, <1>7, <2>1 DEF Pending
<1> QED BY <1>1, <1>4, <1>5, <1>6, <1>7, <1>10, <1>11, <1>12, <1>13

(* Steps that answer and begin nothing *)
LEMMA LockStays ==
  ASSUME LockInv, Kinds', UNCHANGED <<args, ready>>, main' = "step" => main = "step",
         Ticks' = Ticks, Open' = Open, Pending' \subseteq Pending
  PROVE  LockInv'
<1>1. args'.lockstep = args.lockstep
  OBVIOUS
<1>2. ASSUME Lock PROVE Lock'
  BY <1>2 DEF Lock
<1> QED BY <1>1, <1>2 DEF LockInv

LEMMA LockSends ==
  ASSUME MessageInv, LockInv, NEW p \in Party, NEW kind \in {"script", "other"}, Puts(p, kind),
         ready' = ready, main' = "step" => main = "step"
  PROVE  LockInv'
<1>1. kind \in Kind /\ kind \notin {"tick", "tock"} /\ args' = args
  BY DEF Kind, Puts
<1>2. Kinds' /\ Ticks' = Ticks /\ Open' = Open /\ Pending' \subseteq Pending
  BY <1>1, TicksAndTocks DEF LockInv
<1> QED BY <1>1, <1>2, LockStays

LEMMA LockSame ==
  ASSUME LockInv, UNCHANGED <<args, made, ready>>, main' = "step" => main = "step",
         Coming' \subseteq Coming
  PROVE  LockInv'
<1>1. Kinds' /\ Ticks' = Ticks /\ Tocks' = Tocks /\ Open' = Open
  BY DEF LockInv, Kinds, Ticks, Tocks, Made, Open, F
<1>2. Pending' \subseteq Pending
  BY <1>1 DEF Pending
<1> QED BY <1>1, <1>2, LockStays

LEMMA LockMoves ==
  ASSUME MessageInv, LockInv, Moves, UNCHANGED <<main, ready>>
  PROVE  LockInv'
BY ComingLess, LockSame DEF Moves

LEMMA LockTick ==
  ASSUME MessageInv, LockInv, Puts(Sim, "tick"), main = "step", main' = "fsw", ready' = ready
  PROVE  LockInv'
<1>1. /\ Kinds' /\ New \in Nat /\ Ticks' = Ticks \cup {New} /\ Tocks' = Tocks
      /\ Open' = Open \cup {New} /\ Pending' \subseteq Pending /\ Ticks \subseteq DOMAIN made
  BY Names, TicksAndTocks DEF LockInv, Kind
<1>2. args' = args
  BY DEF Puts
<1>3. ASSUME Lock PROVE Lock'
  <2>1. Open = {} /\ Pending = {} /\ ~ready
    BY <1>3 DEF Lock
  <2>2. \A k \in Ticks : k <= New
    <3>1. made \in Seq(AMade)
      BY PlacesOf
    <3>2. DOMAIN made = 1 .. Len(made) /\ Len(made) \in Nat
      BY <3>1
    <3> QED BY <1>1, <3>2 DEF New
  <2>3. \A i \in Open', k \in Ticks' : k <= i
    BY <1>1, <2>1, <2>2
  <2>4. Pending' = {} /\ ~ready' /\ main' # "step"
    BY <1>1, <2>1
  <2> QED BY <2>3, <2>4 DEF Lock
<1> QED BY <1>1, <1>2, <1>3 DEF LockInv

LEMMA LockTock ==
  ASSUME MessageInv, LockInv, Puts(F, "tock"), Unanswered(F), ready' = ready, main' = main,
         main # "step"
  PROVE  LockInv'
<1>1. F \in Party
  BY Names DEF F
<1>2. /\ Kinds' /\ Ticks' = Ticks /\ Tocks' = Tocks \cup {New}
      /\ Open' = Open \ Knows(F) /\ Pending' \subseteq Pending \cup {New}
  BY <1>1, TicksAndTocks DEF LockInv, Kind
<1>3. args' = args
  BY DEF Puts
<1>4. PICK i \in ToSet(heard[F]) : /\ made[i].kind = "tick"
                                   /\ \A j \in Tocks : i \notin made[j].knows
  BY DEF Unanswered, Tocks
<1>5. i \in Open /\ i \in Knows(F) /\ Open \subseteq Ticks
  <2>1. i \in DOMAIN made
    BY <1>1, PlacesOf DEF Heard
  <2>2. i \in Ticks
    BY <1>4, <2>1 DEF LockInv, Kinds, Ticks, Made
  <2> QED BY <1>4, <2>2 DEF Open, Knows
<1>6. ASSUME Lock PROVE Lock'
  <2>1. Pending = {} /\ ~ready /\ main # "step"
    BY <1>5, <1>6 DEF Lock
  <2>2. Open = {i}
    <3>1. ASSUME NEW k \in Open PROVE k = i
      <4>1. k <= i /\ i <= k
        BY <1>5, <1>6 DEF Lock
      <4>2. i \in Nat /\ k \in Nat
        <5>1. DOMAIN made \subseteq Nat
          <6>1. made \in Seq(AMade)
            BY PlacesOf
          <6> QED BY <6>1
        <5> QED BY <1>5, <5>1 DEF Ticks, Made
      <4> QED BY <4>1, <4>2
    <3> QED BY <1>5, <3>1
  <2>3. Open' = {}
    BY <1>2, <1>5, <2>2
  <2>4. \A a, b \in Pending' : a = b
    BY <1>2, <2>1
  <2> QED BY <2>1, <2>3, <2>4 DEF Lock
<1> QED BY <1>2, <1>3, <1>6 DEF LockInv

LEMMA LockGet ==
  ASSUME MessageInv, LockInv, GetCommands
  PROVE  LockInv'
<1> DEFINE all == fswOut \o queue[Sim]
<1>1. /\ ToSet(all) = Out \cup Queued(Sim)
      /\ queue'[Sim] = <<>> /\ fswOut' = <<>> /\ UNCHANGED <<made, args, netIn>>
  BY CommandsMoved
<1>2. Coming' = In
  <2>1. Coming' = ToSet(queue'[Sim]) \cup ToSet(fswOut') \cup ToSet(netIn')
    BY DEF Coming, Queued, Out, In
  <2> QED BY <1>1, <2>1, EmptySet DEF In
<1>3. In \cap ToSet(all) = {}
  <2>1. AheadIn(made, Out, In) /\ AheadIn(made, Queued(Sim), In)
    BY PlaceByPlace
  <2> QED BY <1>1, <2>1 DEF AheadIn
<1>4. IF args.lockstep /\ ~ready /\ ~Answered(all)
      THEN main' = "asleep" /\ ready' = ready
      ELSE main' = "step" /\ ready' = ReadyNext(all)
  BY DEF GetCommands
<1>5. Coming = ToSet(all) \cup In
  BY <1>1 DEF Coming
<1> HIDE DEF all
<1>6. Coming' \subseteq Coming
  BY <1>2, <1>5
<1>7. CASE args.lockstep /\ ~ready /\ ~Answered(all)
  BY <1>1, <1>4, <1>6, <1>7, LockSame
<1>8. CASE args.lockstep /\ (ready \/ Answered(all))
  <2>1. Lock
    BY <1>8 DEF LockInv
  <2>2. Kinds' /\ Ticks' = Ticks /\ Tocks' = Tocks /\ Open' = Open
    BY <1>1 DEF LockInv, Kinds, Ticks, Tocks, Made, Open, F
  <2>3. Pending' = Tocks \cap In
    BY <1>2, <2>2 DEF Pending
  <2>4. Open = {} /\ Pending' = {}
    <3>1. CASE ready
      BY <1>5, <2>1, <2>3, <3>1 DEF Lock, Pending
    <3>2. CASE Answered(all)
      <4>1. PICK m \in ToSet(all) : made[m].kind = "tock"
        BY <3>2 DEF Answered
      <4>2. m \in DOMAIN made
        <5>1. Out \subseteq DOMAIN made /\ Queued(Sim) \subseteq DOMAIN made
          BY PlacesOf, Names
        <5> QED BY <1>1, <4>1, <5>1
      <4>3. m \in Tocks
        BY <4>1, <4>2 DEF LockInv, Kinds, Tocks, Made
      <4>4. m \in Pending
        BY <1>5, <4>1, <4>3 DEF Pending
      <4>5. Open = {} /\ \A j \in Pending : j = m
        BY <2>1, <4>4 DEF Lock
      <4>6. m \notin In
        BY <1>3, <4>1
      <4> QED BY <1>5, <2>3, <4>5, <4>6 DEF Pending
    <3> QED BY <1>8, <3>1, <3>2
  <2>5. ~ready'
    BY <1>4, <1>8 DEF ReadyNext
  <2>6. Lock'
    BY <2>2, <2>4, <2>5 DEF Lock
  <2> QED BY <2>2, <2>6 DEF LockInv
<1>9. CASE ~args.lockstep
  <2>1. Kinds'
    BY <1>1 DEF LockInv, Kinds, F
  <2> QED BY <1>1, <1>9, <2>1 DEF LockInv
<1> QED BY <1>7, <1>8, <1>9

LEMMA LockNext == MessageInv /\ LockInv /\ [Next]_vars => LockInv'
<1> SUFFICES ASSUME MessageInv, LockInv, [Next]_vars PROVE LockInv'
  OBVIOUS
<1>0. /\ FSW \in Party /\ Net \in Party /\ Sim \in Party
      /\ \A t \in Task : t \in Party
  BY Names
<1>v. ASSUME UNCHANGED <<args, made, ready, queue, fswOut, netIn>>, main' = "step" => main = "step"
      PROVE  LockInv'
  <2>1. Coming' = Coming
    BY <1>v DEF Coming, Queued, Out, In
  <2> QED BY <1>v, <2>1, LockSame
<1>s. ASSUME NEW kind \in {"script", "other"}, Send(kind), main' # "step",
             UNCHANGED <<args, fswOut, netIn, lost, ready>>
      PROVE  LockInv'
  BY <1>0, <1>s, SendPuts, LockSends DEF Kind
<1>1. CASE LoadScript
  BY <1>1, <1>v DEF LoadScript, netVars
<1>2. CASE ProcessScriptInput
  <2>1. UNCHANGED <<args, fswOut, netIn, lost, ready>> /\ main' # "step"
    BY <1>2 DEF ProcessScriptInput, netVars
  <2>2. CASE Send("script")
    BY <1>s, <2>1, <2>2
  <2>3. CASE UNCHANGED <<made, heard, queue>>
    BY <1>v, <2>1, <2>3
  <2> QED BY <1>2, <2>2, <2>3 DEF ProcessScriptInput
<1>3. CASE GetCommands
  BY <1>3, LockGet
<1>4. CASE Step
  <2>1. UNCHANGED <<args, fswOut, netIn, lost, ready>> /\ main = "step" /\ main' = "fsw"
    BY <1>4 DEF Step, netVars
  <2>2. CASE Send("tick")
    <3>1. Puts(Sim, "tick")
      BY <2>1, <2>2, SendPuts DEF Kind
    <3> QED BY <2>1, <3>1, LockTick
  <2>3. CASE UNCHANGED <<made, heard, queue>>
    BY <1>v, <2>1, <2>3
  <2> QED BY <1>4, <2>2, <2>3 DEF Step
<1>5. ASSUME FswSends("tock") PROVE LockInv'
  <2>1. Puts(FSW, "tock") /\ Unanswered(FSW) /\ args.fsw /\ ready' = ready /\ main' = main
        /\ main # "step"
    BY <1>5, FswPuts DEF FswSends, simVars
  <2>2. F = FSW
    BY <2>1 DEF F
  <2> QED BY <2>1, <2>2, LockTock
<1>6. ASSUME FswSends("other") PROVE LockInv'
  BY <1>0, <1>6, FswPuts, LockSends DEF FswSends, simVars
<1>7. CASE OutputState
  BY <1>7, <1>s DEF OutputState, netVars
<1>8. CASE TimeTick
  BY <1>8, <1>v DEF TimeTick, netVars
<1>9. ASSUME NEW t \in Task, Join(t) PROVE LockInv'
  BY <1>9, <1>v DEF Join, netVars, simVars
<1>10. ASSUME NEW t \in Task, TaskSend(t) PROVE LockInv'
  BY <1>0, <1>10, TaskPuts, LockSends DEF TaskSend, simVars
<1>11. ASSUME NEW t \in Task, Poll(t) PROVE LockInv'
  BY <1>11, PollMoves, LockMoves DEF Poll, simVars
<1>12. ASSUME NEW t \in Task, NEW w \in Waits[t], Block(t, w) PROVE LockInv'
  <2>1. /\ queue' = [queue EXCEPT ![t] = IF w.reads THEN <<>> ELSE @]
        /\ UNCHANGED <<args, fswOut, netIn, lost, made, heard, main, ready>>
    BY <1>12 DEF Block, netVars, simVars
  <2>2. Moves
    BY <2>1, ThrowsMoves
  <2> QED BY <2>1, <2>2, LockMoves
<1>13. ASSUME NEW t \in Task, Woken(t) PROVE LockInv'
  <2> DEFINE all == task[t].reads /\ ~(clock - task[t].since > task[t].span)
  <2>1. /\ queue' = [queue EXCEPT ![t] = IF all THEN <<>> ELSE @]
        /\ UNCHANGED <<args, fswOut, netIn, lost, made, heard, main, ready>>
    BY <1>13 DEF Woken, netVars, simVars
  <2> HIDE DEF all
  <2>2. Moves
    BY <2>1, ThrowsMoves
  <2> QED BY <2>1, <2>2, LockMoves
<1>14. CASE ReadForAllClients
  BY <1>14, ReadMoves, LockMoves DEF ReadForAllClients, simVars
<1>15. CASE LinkBreaks
  BY <1>15, <1>v DEF LinkBreaks, simVars
<1>16. CASE ReconnectSocket
  BY <1>16, ReconnectMoves, LockMoves DEF ReconnectSocket, simVars
<1>17. ASSUME PeerSends("tock") PROVE LockInv'
  <2>1. Puts(Net, "tock") /\ Unanswered(Net) /\ ~args.fsw /\ ready' = ready /\ main' = main
        /\ main # "step"
    BY <1>17, PeerPuts DEF PeerSends, simVars
  <2>2. F = Net
    BY <2>1 DEF F
  <2> QED BY <2>1, <2>2, LockTock
<1>18. ASSUME PeerSends("other") PROVE LockInv'
  BY <1>0, <1>18, PeerPuts, LockSends DEF PeerSends, simVars
<1>19. CASE UNCHANGED vars
  BY <1>19, <1>v DEF vars, netVars, simVars
<1> QED BY <1>1, <1>2, <1>3, <1>4, <1>5, <1>6, <1>7, <1>8, <1>9, <1>10, <1>11, <1>12,
           <1>13, <1>14, <1>15, <1>16, <1>17, <1>18, <1>19 DEF Next, MainLoop

(* In lockstep a step begins only when the FSW has answered the ticks of    *)
(* all steps before (SimBaseClass.process_sim_command and run).             *)
THEOREM LockstepCorrect == Spec => []NeverAhead
<1>1. Init => LockInv
  <2> SUFFICES ASSUME Init PROVE LockInv
    OBVIOUS
  <2>1. made = <<>> /\ main = "inputs"
    BY DEF Init
  <2>2. Ticks = {} /\ Tocks = {} /\ Kinds
    BY <2>1 DEF Ticks, Tocks, Made, Kinds
  <2> QED BY <2>1, <2>2 DEF LockInv, Lock, Open, Pending
<1>2. MessageInv /\ LockInv /\ [Next]_vars => LockInv'
  BY LockNext
<1>3. LockInv => NeverAhead
  <2> SUFFICES ASSUME LockInv, args.lockstep
               PROVE  \A i \in Ticks : \/ \A k \in Ticks : k <= i
                                       \/ \E j \in Tocks : i \in made[j].knows
    BY DEF NeverAhead, Ticks, Tocks, F
  <2>1. \A i \in Open, k \in Ticks : k <= i
    BY DEF LockInv, Lock
  <2> QED BY <2>1 DEF Open
<1> QED BY <1>1, <1>2, <1>3, MessageKept, PTL DEF Spec
-----------------------------------------------------------------------------
(* The natural numbers are well founded, said of a set of pairs, and what    *)
(* follows: a set that has 0 and each successor has them all.               *)
Below == {ss \in Nat \X Nat : ss[1] < ss[2]}

LEMMA BelowFounded == IsWellFoundedOn(Below, Nat)
BY NatLessThanWellFounded DEF OpToRel, Below

LEMMA CountingUp ==
  ASSUME NEW P, 0 \in P, \A n \in Nat : n \in P => n + 1 \in P
  PROVE  Nat \subseteq P
<1> SUFFICES ASSUME Nat \ P # {} PROVE FALSE
  OBVIOUS
<1>1. PICK m \in Nat \ P : \A k \in Nat \ P : ~(<<k, m>> \in Below)
  BY BelowFounded, WFMin
<1>2. m \in Nat /\ m # 0 /\ m - 1 \in Nat /\ (m - 1) + 1 = m
  OBVIOUS
<1>3. <<m - 1, m>> \in Below
  BY <1>2 DEF Below
<1>4. m - 1 \in P
  BY <1>1, <1>2, <1>3
<1> QED BY <1>2, <1>4
(* A function that starts somewhere and takes one step a number, in a set   *)
(* that the steps do not leave.                                             *)
LEMMA Iterates ==
  ASSUME NEW S, NEW start \in S, NEW L \in Nat, NEW step \in [1 .. L -> [S -> S]]
  PROVE  \E f \in [0 .. L -> S] : f[0] = start /\ \A i \in 1 .. L : f[i] = step[i][f[i - 1]]
<1> DEFINE Goes(f, n) == f[0] = start /\ \A i \in 1 .. n : f[i] = step[i][f[i - 1]]
           P == {n \in Nat : n <= L => \E f \in [0 .. n -> S] : Goes(f, n)}
<1>1. 0 \in P
  <2> DEFINE f == [j \in 0 .. 0 |-> start]
  <2>1. f \in [0 .. 0 -> S] /\ Goes(f, 0)
    OBVIOUS
  <2> QED BY <2>1
<1>2. ASSUME NEW n \in Nat, n \in P PROVE n + 1 \in P
  <2> SUFFICES ASSUME n + 1 <= L PROVE \E g \in [0 .. n + 1 -> S] : Goes(g, n + 1)
    OBVIOUS
  <2>1. PICK f \in [0 .. n -> S] : Goes(f, n)
    BY <1>2
  <2>2. f[n] \in S /\ n + 1 \in 1 .. L
    OBVIOUS
  <2> DEFINE last == step[n + 1][f[n]]
             g == [j \in 0 .. n + 1 |-> IF j = n + 1 THEN last ELSE f[j]]
  <2>3. last \in S
    BY <2>2
  <2>4. g \in [0 .. n + 1 -> S]
    <3> HIDE DEF last
    <3> QED BY <2>3
  <2>5. g[n + 1] = last /\ \A j \in 0 .. n : g[j] = f[j]
    OBVIOUS
  <2> HIDE DEF g
  <2>6. g[0] = start
    BY <2>1, <2>5
  <2>7. ASSUME NEW i \in 1 .. n + 1 PROVE g[i] = step[i][g[i - 1]]
    <3>1. CASE i = n + 1
      <4>1. i - 1 = n /\ n \in 0 .. n
        BY <3>1
      <4> QED BY <2>5, <3>1, <4>1
    <3>2. CASE i \in 1 .. n
      <4>1. i - 1 \in 0 .. n /\ i \in 0 .. n
        BY <3>2
      <4>2. f[i] = step[i][f[i - 1]]
        BY <2>1, <3>2
      <4> QED BY <2>5, <4>1, <4>2
    <3> QED BY <3>1, <3>2
  <2> QED BY <2>4, <2>6, <2>7
<1> HIDE DEF P
<1>3. Nat \subseteq P
  BY <1>1, <1>2, CountingUp
<1>4. L <= L
  OBVIOUS
<1> QED BY <1>3, <1>4 DEF P

LEMMA Within ==
  ASSUME NEW f, NEW S, NEW L \in Nat, f[0] \in S, \A i \in 1 .. L : f[i - 1] \in S => f[i] \in S
  PROVE  \A i \in 0 .. L : f[i] \in S
<1> DEFINE P == {n \in Nat : n <= L => f[n] \in S}
<1>1. 0 \in P
  OBVIOUS
<1>2. ASSUME NEW n \in Nat, n \in P PROVE n + 1 \in P
  <2> SUFFICES ASSUME n + 1 <= L PROVE f[n + 1] \in S
    OBVIOUS
  <2>1. n + 1 \in 1 .. L /\ (n + 1) - 1 = n /\ n <= L
    OBVIOUS
  <2>2. f[(n + 1) - 1] \in S
    BY <1>2, <2>1
  <2> QED BY <2>1, <2>2
<1> HIDE DEF P
<1>3. Nat \subseteq P
  BY <1>1, <1>2, CountingUp
<1> QED BY <1>3 DEF P

(* Sequences are joined in any grouping. *)
LEMMA Joined ==
  ASSUME NEW S
  PROVE  /\ \A a, b \in Seq(S) : a \o b \in Seq(S) /\ Len(a \o b) = Len(a) + Len(b)
         /\ \A a, b, c \in Seq(S) : (a \o b) \o c = a \o (b \o c)
         /\ \A a \in Seq(S) : <<>> \o a = a /\ a \o <<>> = a
         /\ \A a \in Seq(S), x \in S : Append(a, x) = a \o <<x>> /\ <<x>> \in Seq(S)
OBVIOUS
-----------------------------------------------------------------------------
(* The files of a script, read to their ends *)
Line == UNION {Lines(name) : name \in DOMAIN Files}

Content(line, flat) == IF line.command = "load" THEN flat[line.option] ELSE <<>>

LineLeft(name, left) == Files[name][Len(Files[name]) - left + 1]

(* rest has, of each number of lines left of a file, what is to be carried  *)
(* out.                                                                     *)
IsRest(rest, name, flat) ==
    rest = [left \in 0 .. Len(Files[name]) |->
              IF left = 0 THEN <<>>
              ELSE <<LineLeft(name, left)>> \o Content(LineLeft(name, left), flat)
                                            \o rest[left - 1]]

Rest(name, flat) == CHOOSE rest : IsRest(rest, name, flat)

(* What a file loads is known to flat. *)
Knowing(name, flat) ==
    \A line \in Lines(name) : line.command = "load" => flat[line.option] \in Seq(Line)

LEMMA LinesOf ==
  ASSUME NEW name \in DOMAIN Files
  PROVE  /\ Files[name] \in Seq(Line) /\ Len(Files[name]) \in Nat
         /\ \A left \in 1 .. Len(Files[name]) : LineLeft(name, left) \in Lines(name)
         /\ \A line \in Lines(name) :
              /\ line \in Line /\ Delay(line) \in Nat
              /\ line.command = "load" => line.option \in DOMAIN Files
<1>1. Files[name] \in Seq(Lines(name)) /\ Lines(name) \subseteq Line
  BY ScriptAssumption DEF Line
<1>2. Len(Files[name]) \in Nat /\ DOMAIN Files[name] = 1 .. Len(Files[name])
  BY <1>1
<1>3. Files[name] \in Seq(Line)
  BY <1>1
<1>4. ASSUME NEW left \in 1 .. Len(Files[name]) PROVE LineLeft(name, left) \in Lines(name)
  <2>1. Len(Files[name]) - left + 1 \in 1 .. Len(Files[name])
    BY <1>2
  <2> QED BY <1>1, <1>2, <2>1 DEF LineLeft
<1> QED BY <1>1, <1>2, <1>3, <1>4, ScriptAssumption

LEMMA RestTurn ==
  ASSUME NEW name \in DOMAIN Files, NEW flat, NEW rest, IsRest(rest, name, flat)
  PROVE  /\ rest[0] = <<>> /\ DOMAIN rest = 0 .. Len(Files[name])
         /\ \A left \in 1 .. Len(Files[name]) :
              rest[left] = (<<LineLeft(name, left)>> \o Content(LineLeft(name, left), flat))
                           \o rest[left - 1]
<1>1. Len(Files[name]) \in Nat
  BY LinesOf
<1>2. 0 \in 0 .. Len(Files[name])
  BY <1>1
<1>3. \A left \in 1 .. Len(Files[name]) : left \in 0 .. Len(Files[name]) /\ left # 0
  BY <1>1
<1> QED BY <1>2, <1>3 DEF IsRest

LEMMA RestExists ==
  ASSUME NEW name \in DOMAIN Files, NEW flat, Knowing(name, flat)
  PROVE  /\ IsRest(Rest(name, flat), name, flat)
         /\ Rest(name, flat) \in [0 .. Len(Files[name]) -> Seq(Line)]
         /\ FlatOf(name, flat) = Rest(name, flat)[Len(Files[name])]
<1> DEFINE L == Len(Files[name])
           First(left) == <<LineLeft(name, left)>> \o Content(LineLeft(name, left), flat)
           S == Seq(Line)
           step == [left \in 1 .. L |-> [s \in S |-> First(left) \o s]]
<1>1. L \in Nat
  BY LinesOf
<1>2. ASSUME NEW left \in 1 .. L PROVE First(left) \in S
  <2>1. LineLeft(name, left) \in Lines(name) /\ LineLeft(name, left) \in Line
    BY <1>2, LinesOf
  <2>2. <<LineLeft(name, left)>> \in S
    BY <2>1
  <2>3. Content(LineLeft(name, left), flat) \in S
    <3>1. <<>> \in S
      OBVIOUS
    <3> QED BY <2>1, <3>1 DEF Content, Knowing
  <2> HIDE DEF S
  <2> QED BY <2>2, <2>3, Joined DEF S
<1> HIDE DEF First
<1>3. \A left \in 1 .. L : \A s \in S : First(left) \o s \in S
  BY <1>2, Joined
<1> HIDE DEF S, L
<1>4. step \in [1 .. L -> [S -> S]]
  BY <1>3
<1>5. <<>> \in S
  BY DEF S
<1>6. PICK f \in [0 .. L -> S] : f[0] = <<>> /\ \A left \in 1 .. L : f[left] = step[left][f[left - 1]]
  <2> HIDE DEF step
  <2> QED BY <1>1, <1>4, <1>5, Iterates
<1>7. \A left \in 1 .. L : f[left] = First(left) \o f[left - 1]
  <2> SUFFICES ASSUME NEW left \in 1 .. L PROVE f[left] = First(left) \o f[left - 1]
    OBVIOUS
  <2>1. f[left - 1] \in S
    BY <1>1
  <2> QED BY <1>6, <2>1
<1>8. IsRest(f, name, flat)
  <2>1. f = [left \in 0 .. L |-> f[left]]
    OBVIOUS
  <2>2. \A left \in 0 .. L : f[left] = IF left = 0 THEN <<>> ELSE First(left) \o f[left - 1]
    BY <1>1, <1>6, <1>7
  <2>3. f = [left \in 0 .. L |-> IF left = 0 THEN <<>> ELSE First(left) \o f[left - 1]]
    BY <2>1, <2>2
  <2> QED BY <2>3 DEF IsRest, First, L
<1> DEFINE R == Rest(name, flat)
<1>9. IsRest(R, name, flat)
  BY <1>8 DEF Rest
<1> HIDE DEF R
<1>10. R \in [0 .. L -> S]
  <2>1. R[0] = <<>> /\ DOMAIN R = 0 .. L /\ \A left \in 1 .. L : R[left] = First(left) \o R[left - 1]
    BY <1>9, RestTurn DEF L, First
  <2>2. \A left \in 1 .. L : R[left - 1] \in S => R[left] \in S
    BY <1>3, <2>1
  <2>3. \A left \in 0 .. L : R[left] \in S
    BY <1>1, <1>5, <2>1, <2>2, Within
  <2>4. R = [left \in 0 .. L |-> R[left]]
    BY <1>9 DEF IsRest, L
  <2> QED BY <2>3, <2>4
<1>11. FlatOf(name, flat) = R[L]
  BY DEF FlatOf, R, Rest, IsRest, L, LineLeft, Content
<1> QED BY <1>9, <1>10, <1>11 DEF R, L, S

(* It depends on what the file loads only. *)
LEMMA FlatAgrees ==
  ASSUME NEW name \in DOMAIN Files, NEW f, NEW g, Knowing(name, f),
         \A line \in Lines(name) : line.command = "load" => f[line.option] = g[line.option]
  PROVE  FlatOf(name, f) = FlatOf(name, g)
<1> DEFINE L == Len(Files[name])
           F1 == Rest(name, f)
           G1 == Rest(name, g)
<1>1. Knowing(name, g)
  BY DEF Knowing
<1>2. IsRest(F1, name, f) /\ IsRest(G1, name, g) /\ FlatOf(name, f) = F1[L] /\ FlatOf(name, g) = G1[L]
  BY <1>1, RestExists
<1> HIDE DEF F1, G1
<1>3. L \in Nat
  BY LinesOf
<1>4. \A left \in 1 .. L : Content(LineLeft(name, left), f) = Content(LineLeft(name, left), g)
  BY LinesOf DEF Content
<1> DEFINE P == {n \in Nat : n <= L => F1[n] = G1[n]}
<1>5. 0 \in P
  BY <1>2, RestTurn
<1>6. ASSUME NEW n \in Nat, n \in P PROVE n + 1 \in P
  <2> SUFFICES ASSUME n + 1 <= L PROVE F1[n + 1] = G1[n + 1]
    OBVIOUS
  <2>1. n + 1 \in 1 .. L /\ (n + 1) - 1 = n /\ n <= L
    BY <1>3
  <2> DEFINE C(h) == <<LineLeft(name, n + 1)>> \o Content(LineLeft(name, n + 1), h)
  <2>2. F1[n + 1] = C(f) \o F1[n]
    <3>1. \A left \in 1 .. L : F1[left] = (<<LineLeft(name, left)>> \o Content(LineLeft(name, left), f))
                                        \o F1[left - 1]
      BY <1>2, RestTurn
    <3>2. F1[n + 1] = C(f) \o F1[(n + 1) - 1]
      BY <2>1, <3>1
    <3> HIDE DEF C
    <3> QED BY <2>1, <3>2
  <2>3. G1[n + 1] = C(g) \o G1[n]
    <3>1. \A left \in 1 .. L : G1[left] = (<<LineLeft(name, left)>> \o Content(LineLeft(name, left), g))
                                        \o G1[left - 1]
      BY <1>2, RestTurn
    <3>2. G1[n + 1] = C(g) \o G1[(n + 1) - 1]
      BY <2>1, <3>1
    <3> HIDE DEF C
    <3> QED BY <2>1, <3>2
  <2>4. C(f) = C(g)
    BY <1>4, <2>1
  <2> QED BY <1>6, <2>1, <2>2, <2>3, <2>4
<1> HIDE DEF P
<1>7. Nat \subseteq P
  BY <1>5, <1>6, CountingUp
<1> QED BY <1>2, <1>3, <1>7 DEF P

(* Files of less depth than n: they load none deeper. *)
Shallow(depth, n) == {name \in DOMAIN Files : depth[name] < n}

LEMMA Depths ==
  \E depth \in [DOMAIN Files -> Nat] : \E n \in Nat :
     /\ Shallow(depth, n) = DOMAIN Files /\ Shallow(depth, 0) = {}
     /\ \A name \in DOMAIN Files : \A line \in Lines(name) :
          line.command = "load" => /\ line.option \in DOMAIN Files
                                   /\ depth[line.option] < depth[name]
<1> DEFINE C == Cardinality(DOMAIN Files)
<1>1. C \in Nat
  BY FS_CardinalityType, ScriptAssumption
<1>2. PICK depth \in [DOMAIN Files -> 0 .. C] : \A name \in DOMAIN Files : \A line \in Lines(name) :
                       line.command = "load" => depth[line.option] < depth[name]
  BY ScriptAssumption
<1> HIDE DEF C
<1>3. depth \in [DOMAIN Files -> Nat]
  BY <1>1, <1>2
<1>4. \A name \in DOMAIN Files : depth[name] \in Nat /\ depth[name] < C + 1
  BY <1>1, <1>2
<1>5. Shallow(depth, C + 1) = DOMAIN Files /\ Shallow(depth, 0) = {}
  BY <1>4 DEF Shallow
<1>6. C + 1 \in Nat
  BY <1>1
<1>7. \A name \in DOMAIN Files : \A line \in Lines(name) :
          line.command = "load" => /\ line.option \in DOMAIN Files
                                   /\ depth[line.option] < depth[name]
  BY <1>2, LinesOf
<1> QED BY <1>3, <1>5, <1>6, <1>7

(* Scripts that do not load each other in a circle have such lines. *)
LEMMA FlatExists == \E f : f = [name \in DOMAIN Files |-> FlatOf(name, f)]
<1>1. PICK depth \in [DOMAIN Files -> Nat] : \E n \in Nat :
     /\ Shallow(depth, n) = DOMAIN Files /\ Shallow(depth, 0) = {}
     /\ \A name \in DOMAIN Files : \A line \in Lines(name) :
          line.command = "load" => /\ line.option \in DOMAIN Files
                                   /\ depth[line.option] < depth[name]
  BY Depths
<1> DEFINE Some(n) == \E f \in [Shallow(depth, n) -> Seq(Line)] :
                        \A name \in Shallow(depth, n) : f[name] = FlatOf(name, f)
           P == {n \in Nat : Some(n)}
<1>2. 0 \in P
  <2> DEFINE f == [name \in Shallow(depth, 0) |-> <<>>]
  <2>1. Shallow(depth, 0) = {}
    BY <1>1
  <2>2. f \in [Shallow(depth, 0) -> Seq(Line)]
        /\ \A name \in Shallow(depth, 0) : f[name] = FlatOf(name, f)
    BY <2>1
  <2>3. Some(0)
    BY <2>2
  <2> QED BY <2>3
<1>3. ASSUME NEW n \in Nat, n \in P PROVE n + 1 \in P
  <2> DEFINE A == Shallow(depth, n)
             B == Shallow(depth, n + 1)
  <2>1. PICK f \in [A -> Seq(Line)] : \A name \in A : f[name] = FlatOf(name, f)
    BY <1>3
  <2>2. A \subseteq B /\ B \subseteq DOMAIN Files
    BY DEF Shallow
  <2>3. \A name \in B : \A line \in Lines(name) : line.command = "load" => line.option \in A
    <3> SUFFICES ASSUME NEW name \in B, NEW line \in Lines(name), line.command = "load"
                 PROVE  line.option \in A
      OBVIOUS
    <3>1. /\ name \in DOMAIN Files /\ depth[name] < n + 1 /\ depth[name] \in Nat
      BY DEF Shallow
    <3>2. line.option \in DOMAIN Files /\ depth[line.option] < depth[name] /\ depth[line.option] \in Nat
      BY <1>1, <3>1
    <3>3. depth[line.option] < n
      BY <3>1, <3>2
    <3> QED BY <3>2, <3>3 DEF Shallow
  <2> HIDE DEF A, B
  <2>4. \A name \in B : Knowing(name, f)
    BY <2>1, <2>3 DEF Knowing
  <2>5. \A name \in B : FlatOf(name, f) \in Seq(Line)
    <3> SUFFICES ASSUME NEW name \in B PROVE FlatOf(name, f) \in Seq(Line)
      OBVIOUS
    <3>1. name \in DOMAIN Files /\ Knowing(name, f)
      BY <2>2, <2>4
    <3>2. Rest(name, f) \in [0 .. Len(Files[name]) -> Seq(Line)]
          /\ FlatOf(name, f) = Rest(name, f)[Len(Files[name])]
      BY <3>1, RestExists
    <3>3. Len(Files[name]) \in 0 .. Len(Files[name])
      BY <3>1, LinesOf
    <3> QED BY <3>2, <3>3
  <2> DEFINE g == [name \in B |-> FlatOf(name, f)]
  <2>6. g \in [B -> Seq(Line)]
    BY <2>5
  <2>7. \A name \in A : g[name] = f[name]
    BY <2>1, <2>2
  <2>8. \A name \in B : g[name] = FlatOf(name, f)
    OBVIOUS
  <2> HIDE DEF g
  <2>9. \A name \in B : g[name] = FlatOf(name, g)
    <3> SUFFICES ASSUME NEW name \in B PROVE g[name] = FlatOf(name, g)
      OBVIOUS
    <3>1. name \in DOMAIN Files /\ Knowing(name, f)
      BY <2>2, <2>4
    <3>2. \A line \in Lines(name) : line.command = "load" => f[line.option] = g[line.option]
      BY <2>3, <2>7
    <3>3. FlatOf(name, f) = FlatOf(name, g)
      BY <3>1, <3>2, FlatAgrees
    <3> QED BY <2>8, <3>3
  <2>10. Some(n + 1)
    BY <2>6, <2>9 DEF B
  <2> QED BY <2>10
<1> HIDE DEF P
<1>4. Nat \subseteq P
  BY <1>2, <1>3, CountingUp
<1>5. PICK n \in Nat : Shallow(depth, n) = DOMAIN Files
  BY <1>1
<1>6. Some(n)
  BY <1>4 DEF P
<1>7. PICK f \in [DOMAIN Files -> Seq(Line)] : \A name \in DOMAIN Files : f[name] = FlatOf(name, f)
  BY <1>5, <1>6
<1>8. f = [name \in DOMAIN Files |-> f[name]]
  OBVIOUS
<1>9. f = [name \in DOMAIN Files |-> FlatOf(name, f)]
  BY <1>7, <1>8
<1> QED BY <1>9

LEMMA FlatIs ==
  /\ Flat \in [DOMAIN Files -> Seq(Line)]
  /\ \A name \in DOMAIN Files : Flat[name] = FlatOf(name, Flat) /\ Knowing(name, Flat)
<1>1. Flat = [name \in DOMAIN Files |-> FlatOf(name, Flat)]
  BY FlatExists DEF Flat
<1> DEFINE F0 == Flat
<1>2. F0 = [name \in DOMAIN Files |-> FlatOf(name, F0)]
  BY <1>1
<1> HIDE DEF F0
<1>3. PICK depth \in [DOMAIN Files -> Nat] : \E n \in Nat :
     /\ Shallow(depth, n) = DOMAIN Files /\ Shallow(depth, 0) = {}
     /\ \A name \in DOMAIN Files : \A line \in Lines(name) :
          line.command = "load" => /\ line.option \in DOMAIN Files
                                   /\ depth[line.option] < depth[name]
  BY Depths
<1> DEFINE P == {n \in Nat : \A name \in Shallow(depth, n) : F0[name] \in Seq(Line)}
<1>4. 0 \in P
  BY <1>3
<1>5. ASSUME NEW n \in Nat, n \in P PROVE n + 1 \in P
  <2> SUFFICES ASSUME NEW name \in Shallow(depth, n + 1) PROVE F0[name] \in Seq(Line)
    OBVIOUS
  <2>1. name \in DOMAIN Files /\ depth[name] < n + 1 /\ depth[name] \in Nat
    BY DEF Shallow
  <2>2. Knowing(name, F0)
    <3> SUFFICES ASSUME NEW line \in Lines(name), line.command = "load"
                 PROVE  F0[line.option] \in Seq(Line)
      BY DEF Knowing
    <3>1. line.option \in DOMAIN Files /\ depth[line.option] < depth[name]
          /\ depth[line.option] \in Nat
      BY <1>3, <2>1
    <3>2. depth[line.option] < n
      BY <2>1, <3>1
    <3>3. line.option \in Shallow(depth, n)
      BY <3>1, <3>2 DEF Shallow
    <3> QED BY <1>5, <3>3
  <2>3. /\ Rest(name, F0) \in [0 .. Len(Files[name]) -> Seq(Line)]
        /\ FlatOf(name, F0) = Rest(name, F0)[Len(Files[name])]
    BY <2>1, <2>2, RestExists
  <2>4. Len(Files[name]) \in 0 .. Len(Files[name])
    BY <2>1, LinesOf
  <2>5. F0[name] = FlatOf(name, F0)
    BY <1>2, <2>1
  <2> QED BY <2>3, <2>4, <2>5
<1> HIDE DEF P
<1>6. Nat \subseteq P
  BY <1>4, <1>5, CountingUp
<1>7. \A name \in DOMAIN Files : F0[name] \in Seq(Line)
  BY <1>3, <1>6 DEF P
<1>8. F0 = [name \in DOMAIN Files |-> F0[name]]
  BY <1>2
<1>9. F0 \in [DOMAIN Files -> Seq(Line)]
  BY <1>7, <1>8
<1>10. \A name \in DOMAIN Files : Knowing(name, F0)
  BY <1>7, LinesOf DEF Knowing
<1>11. \A name \in DOMAIN Files : F0[name] = FlatOf(name, F0)
  BY <1>2
<1> QED BY <1>9, <1>10, <1>11 DEF F0
-----------------------------------------------------------------------------
(* The open files, and what is to be carried out before all are read *)
Position == {p \in [name : DOMAIN Files, pos : Nat] : p.pos <= Len(Files[p.name])}

Left(p) == Rest(p.name, Flat)[Len(Files[p.name]) - p.pos]

IsAhead(a, files) ==
    a = [d \in 0 .. Len(files) |-> IF d = 0 THEN <<>> ELSE Left(files[d]) \o a[d - 1]]

AheadUpTo(files) == CHOOSE a : IsAhead(a, files)

Ahead(files) == AheadUpTo(files)[Len(files)]

LEMMA LeftTurn ==
  ASSUME NEW p \in Position
  PROVE  /\ Left(p) \in Seq(Line)
         /\ p.pos = Len(Files[p.name]) => Left(p) = <<>>
         /\ p.pos < Len(Files[p.name]) =>
              \A q : q = [p EXCEPT !.pos = @ + 1] =>
                /\ q \in Position
                /\ Files[p.name][p.pos + 1] \in Line
                /\ Left(p) = (<<Files[p.name][p.pos + 1]>>
                              \o Content(Files[p.name][p.pos + 1], Flat)) \o Left(q)
<1> DEFINE name == p.name
           L == Len(Files[name])
           R == Rest(name, Flat)
<1>1. /\ name \in DOMAIN Files /\ p.pos \in Nat /\ p.pos <= L /\ L \in Nat
      /\ p \in [name : DOMAIN Files, pos : Nat]
  BY LinesOf DEF Position
<1>2. IsRest(R, name, Flat) /\ R \in [0 .. L -> Seq(Line)]
  BY <1>1, FlatIs, RestExists
<1>3. /\ R[0] = <<>>
      /\ \A left \in 1 .. L :
              R[left] = (<<LineLeft(name, left)>> \o Content(LineLeft(name, left), Flat)) \o R[left - 1]
  BY <1>1, <1>2, RestTurn
<1>4. Left(p) = R[L - p.pos] /\ L - p.pos \in 0 .. L
  BY <1>1 DEF Left
<1>5. ASSUME p.pos < L, NEW q, q = [p EXCEPT !.pos = @ + 1]
      PROVE  /\ q \in Position
             /\ Files[name][p.pos + 1] \in Line
             /\ Left(p) = (<<Files[name][p.pos + 1]>> \o Content(Files[name][p.pos + 1], Flat)) \o Left(q)
  <2>1. q.name = name /\ q.pos = p.pos + 1 /\ q \in [name : DOMAIN Files, pos : Nat]
    BY <1>1, <1>5
  <2>2. q \in Position
    BY <1>1, <1>5, <2>1 DEF Position
  <2>3. Left(q) = R[(L - p.pos) - 1]
    <3>1. L - q.pos = (L - p.pos) - 1
      BY <1>1, <2>1
    <3> QED BY <2>1, <3>1 DEF Left
  <2>4. L - p.pos \in 1 .. L /\ L - (L - p.pos) + 1 = p.pos + 1
    BY <1>1, <1>5
  <2>5. LineLeft(name, L - p.pos) = Files[name][p.pos + 1]
    BY <2>4 DEF LineLeft
  <2>6. Files[name][p.pos + 1] \in Line
    BY <1>1, <2>4, <2>5, LinesOf
  <2> HIDE DEF R
  <2> QED BY <1>3, <1>4, <2>2, <2>3, <2>4, <2>5, <2>6
<1>6. p.pos = L => Left(p) = <<>>
  BY <1>1, <1>3, <1>4
<1> QED BY <1>2, <1>4, <1>5, <1>6

LEMMA AheadIs ==
  ASSUME NEW files \in Seq(Position)
  PROVE  /\ AheadUpTo(files) \in [0 .. Len(files) -> Seq(Line)]
         /\ AheadUpTo(files)[0] = <<>>
         /\ \A d \in 1 .. Len(files) :
              AheadUpTo(files)[d] = Left(files[d]) \o AheadUpTo(files)[d - 1]
<1> DEFINE L == Len(files)
           S == Seq(Line)
           step == [d \in 1 .. L |-> [s \in S |-> Left(files[d]) \o s]]
           a == AheadUpTo(files)
<1>1. L \in Nat /\ \A d \in 1 .. L : files[d] \in Position
  OBVIOUS
<1>2. \A d \in 1 .. L : Left(files[d]) \in S
  BY <1>1, LeftTurn
<1>3. \A d \in 1 .. L : \A s \in S : Left(files[d]) \o s \in S
  BY <1>2, Joined
<1>4. <<>> \in S
  OBVIOUS
<1> HIDE DEF S
<1>5. step \in [1 .. L -> [S -> S]]
  BY <1>3
<1>6. PICK f \in [0 .. L -> S] : f[0] = <<>> /\ \A d \in 1 .. L : f[d] = step[d][f[d - 1]]
  <2>1. L \in Nat
    BY <1>1
  <2> HIDE DEF step, L, a
  <2>2. \A go \in [1 .. L -> [S -> S]] : \E f \in [0 .. L -> S] :
          f[0] = <<>> /\ \A d \in 1 .. L : f[d] = go[d][f[d - 1]]
    <3> DEFINE none == <<>>
    <3>1. none \in S
      BY <1>4
    <3> HIDE DEF none
    <3>2. \A go \in [1 .. L -> [S -> S]] : \E f \in [0 .. L -> S] :
            f[0] = none /\ \A i \in 1 .. L : f[i] = go[i][f[i - 1]]
      BY <2>1, <3>1, Iterates
    <3> QED BY <3>2 DEF none
  <2> QED BY <1>5, <2>2
<1>7. \A d \in 1 .. L : f[d] = Left(files[d]) \o f[d - 1]
  <2> SUFFICES ASSUME NEW d \in 1 .. L PROVE f[d] = Left(files[d]) \o f[d - 1]
    OBVIOUS
  <2>1. f[d - 1] \in S
    BY <1>1
  <2> QED BY <1>6, <2>1
<1>8. IsAhead(f, files)
  <2>1. f = [d \in 0 .. L |-> f[d]]
    OBVIOUS
  <2>2. \A d \in 0 .. L : f[d] = IF d = 0 THEN <<>> ELSE Left(files[d]) \o f[d - 1]
    BY <1>1, <1>6, <1>7
  <2>3. f = [d \in 0 .. L |-> IF d = 0 THEN <<>> ELSE Left(files[d]) \o f[d - 1]]
    BY <2>1, <2>2
  <2> QED BY <2>3 DEF IsAhead
<1>9. IsAhead(a, files)
  BY <1>8 DEF AheadUpTo
<1> HIDE DEF a
<1>10. /\ a[0] = <<>> /\ a = [d \in 0 .. L |-> a[d]]
       /\ \A d \in 1 .. L : a[d] = Left(files[d]) \o a[d - 1]
  <2>1. 0 \in 0 .. L /\ \A d \in 1 .. L : d \in 0 .. L /\ d # 0
    BY <1>1
  <2> QED BY <1>9, <2>1 DEF IsAhead
<1>11. \A d \in 0 .. L : a[d] \in S
  <2>1. \A d \in 1 .. L : a[d - 1] \in S => a[d] \in S
    BY <1>3, <1>10
  <2> HIDE DEF L
  <2> QED BY <1>1, <1>4, <1>10, <2>1, Within
<1> QED BY <1>10, <1>11 DEF a, S

(* The files at the bottom know nothing of those on top. *)
LEMMA AheadAgrees ==
  ASSUME NEW f \in Seq(Position), NEW g \in Seq(Position), NEW d \in Nat,
         d <= Len(f), d <= Len(g), \A j \in 1 .. d : f[j] = g[j]
  PROVE  AheadUpTo(f)[d] = AheadUpTo(g)[d]
<1> DEFINE a == AheadUpTo(f)
           b == AheadUpTo(g)
           P == {n \in Nat : n <= d => a[n] = b[n]}
<1>0. Len(f) \in Nat /\ Len(g) \in Nat
  OBVIOUS
<1>1. /\ a[0] = <<>> /\ \A j \in 1 .. Len(f) : a[j] = Left(f[j]) \o a[j - 1]
      /\ b[0] = <<>> /\ \A j \in 1 .. Len(g) : b[j] = Left(g[j]) \o b[j - 1]
  BY AheadIs
<1> HIDE DEF a, b
<1>2. 0 \in P
  BY <1>1
<1>3. ASSUME NEW n \in Nat, n \in P PROVE n + 1 \in P
  <2> SUFFICES ASSUME n + 1 <= d PROVE a[n + 1] = b[n + 1]
    OBVIOUS
  <2>1. n + 1 \in 1 .. Len(f) /\ n + 1 \in 1 .. Len(g) /\ n + 1 \in 1 .. d
        /\ (n + 1) - 1 = n /\ n <= d
    BY <1>0
  <2>2. a[n + 1] = Left(f[n + 1]) \o a[(n + 1) - 1] /\ b[n + 1] = Left(g[n + 1]) \o b[(n + 1) - 1]
    BY <1>1, <2>1
  <2>3. f[n + 1] = g[n + 1] /\ a[n] = b[n]
    BY <1>3, <2>1
  <2> QED BY <2>1, <2>2, <2>3
<1> HIDE DEF P
<1>4. Nat \subseteq P
  BY <1>2, <1>3, CountingUp
<1> QED BY <1>4 DEF P, a, b

LEMMA AheadNone == Ahead(<<>>) = <<>>
<1>1. <<>> \in Seq(Position) /\ Len(<<>>) = 0
  OBVIOUS
<1> QED BY <1>1, AheadIs DEF Ahead

LEMMA AheadTop ==
  ASSUME NEW f \in Seq(Position), NEW p \in Position
  PROVE  Ahead(Append(f, p)) = Left(p) \o Ahead(f)
<1> DEFINE g == Append(f, p)
           n == Len(f)
<1>1. /\ g \in Seq(Position) /\ n \in Nat /\ Len(g) = n + 1 /\ g[n + 1] = p
      /\ \A j \in 1 .. n : f[j] = g[j]
  OBVIOUS
<1> HIDE DEF g, n
<1>2. n <= Len(f) /\ n <= Len(g)
  BY <1>1 DEF n
<1>3. AheadUpTo(f)[n] = AheadUpTo(g)[n]
  BY <1>1, <1>2, AheadAgrees
<1>4. AheadUpTo(g)[n + 1] = Left(g[n + 1]) \o AheadUpTo(g)[(n + 1) - 1]
  <2>1. n + 1 \in 1 .. Len(g)
    BY <1>1
  <2> QED BY <1>1, <2>1, AheadIs
<1>5. (n + 1) - 1 = n
  BY <1>1
<1> QED BY <1>1, <1>3, <1>4, <1>5 DEF Ahead, g, n

(* Files read to their ends add nothing. *)
LEMMA AheadOfEnds ==
  ASSUME NEW f \in Seq(Position), NEW d \in 0 .. Len(f),
         \A j \in 1 .. Len(f) : j > d => f[j].pos = Len(Files[f[j].name])
  PROVE  Ahead(f) = AheadUpTo(f)[d]
<1> DEFINE a == AheadUpTo(f)
           L == Len(f)
           P == {n \in Nat : d + n <= L => a[d + n] = a[d]}
<1>0. L \in Nat /\ d \in Nat /\ d <= L /\ \A j \in 1 .. L : f[j] \in Position
  OBVIOUS
<1>1. /\ \A j \in 1 .. L : a[j] = Left(f[j]) \o a[j - 1]
      /\ \A j \in 0 .. L : a[j] \in Seq(Line)
  BY AheadIs
<1> HIDE DEF a, L
<1>2. 0 \in P
  BY <1>0
<1>3. ASSUME NEW n \in Nat, n \in P PROVE n + 1 \in P
  <2> SUFFICES ASSUME d + (n + 1) <= L PROVE a[d + (n + 1)] = a[d]
    OBVIOUS
  <2> DEFINE j == d + (n + 1)
  <2>1. j \in 1 .. L /\ j - 1 = d + n /\ d + n <= L /\ d + n \in 0 .. L /\ j > d
    BY <1>0
  <2> HIDE DEF j
  <2>2. a[j] = Left(f[j]) \o a[j - 1]
    BY <1>1, <2>1
  <2>3. f[j] \in Position /\ f[j].pos = Len(Files[f[j].name])
    BY <1>0, <2>1 DEF L
  <2>4. Left(f[j]) = <<>>
    BY <2>3, LeftTurn
  <2>5. a[d + n] \in Seq(Line) /\ a[d + n] = a[d]
    BY <1>1, <1>3, <2>1
  <2>6. <<>> \o a[d + n] = a[d + n]
    BY <2>5, Joined
  <2>7. a[j] = a[d]
    BY <2>1, <2>2, <2>4, <2>5, <2>6
  <2> QED BY <2>7 DEF j
<1> HIDE DEF P
<1>4. Nat \subseteq P
  BY <1>2, <1>3, CountingUp
<1>5. L - d \in Nat /\ d + (L - d) = L /\ d + (L - d) <= L
  BY <1>0
<1>6. a[d + (L - d)] = a[d]
  BY <1>4, <1>5 DEF P
<1> QED BY <1>5, <1>6 DEF a, L, Ahead

LEMMA Largest == \A n \in Nat : \A S \in SUBSET (1 .. n) : S # {} => \E m \in S : \A y \in S : m >= y
<1> DEFINE P == {n \in Nat : \A S \in SUBSET (1 .. n) : S # {} => \E m \in S : \A y \in S : m >= y}
<1>1. 0 \in P
  BY 1 .. 0 = {}
<1>2. ASSUME NEW n \in Nat, n \in P PROVE n + 1 \in P
  <2> SUFFICES ASSUME NEW S \in SUBSET (1 .. n + 1), S # {} PROVE \E m \in S : \A y \in S : m >= y
    OBVIOUS
  <2>1. CASE n + 1 \in S
    <3>1. \A y \in S : n + 1 >= y
      OBVIOUS
    <3> QED BY <2>1, <3>1
  <2>2. CASE n + 1 \notin S
    <3>1. S \in SUBSET (1 .. n)
      BY <2>2
    <3> QED BY <1>2, <3>1
  <2> QED BY <2>1, <2>2
<1> HIDE DEF P
<1>3. Nat \subseteq P
  BY <1>1, <1>2, CountingUp
<1> QED BY <1>3 DEF P

(* What a reader has still to carry out, its line first. *)
Here(r) == IF r.files = <<>> THEN <<>>
           ELSE (<<r.line>> \o Content(r.line, Flat)) \o Ahead(r.files)

Reads(r, ahead, time) ==
    /\ r.files \in Seq(Position) /\ r.due \in Nat
    /\ Here(r) = ahead
    /\ r.files = <<>> => r.due = time
    /\ r.files # <<>> => r.line \in Line /\ r.due = time + Delay(r.line)

(* Reading a line takes the first of those ahead. *)
LEMMA ReadLineIs ==
  ASSUME NEW files \in Seq(Position), NEW time \in Nat
  PROVE  Reads(ReadLine(files, time), Ahead(files), time)
<1> DEFINE L == Len(files)
           unread == {d \in DOMAIN files : files[d].pos < Len(Files[files[d].name])}
           r == ReadLine(files, time)
<1>1. L \in Nat /\ DOMAIN files = 1 .. L /\ \A d \in 1 .. L : files[d] \in Position
  OBVIOUS
<1>2. \A d \in 1 .. L : /\ files[d].pos \in Nat /\ Len(Files[files[d].name]) \in Nat
                        /\ d \notin unread => files[d].pos = Len(Files[files[d].name])
  <2> SUFFICES ASSUME NEW d \in 1 .. L
               PROVE  /\ files[d].pos \in Nat /\ Len(Files[files[d].name]) \in Nat
                      /\ d \notin unread => files[d].pos = Len(Files[files[d].name])
    OBVIOUS
  <2>1. files[d].pos \in Nat /\ files[d].name \in DOMAIN Files
        /\ files[d].pos <= Len(Files[files[d].name])
    BY <1>1 DEF Position
  <2>2. Len(Files[files[d].name]) \in Nat
    BY <2>1, LinesOf
  <2> QED BY <1>1, <2>1, <2>2
<1>3. CASE unread = {}
  <2>1. r = [files |-> <<>>, line |-> <<>>, due |-> time]
    BY <1>3 DEF ReadLine
  <2>2. 0 \in 0 .. L /\ \A j \in 1 .. L : j > 0 => files[j].pos = Len(Files[files[j].name])
    BY <1>1, <1>2, <1>3
  <2>3. Ahead(files) = AheadUpTo(files)[0]
    BY <2>2, AheadOfEnds
  <2>4. Ahead(files) = <<>>
    BY <2>3, AheadIs
  <2>5. <<>> \in Seq(Position)
    OBVIOUS
  <2> HIDE DEF r
  <2>6. r.files = <<>> /\ r.due = time
    BY <2>1
  <2> QED BY <2>4, <2>5, <2>6 DEF Reads, Here, r
<1>4. CASE unread # {}
  <2> DEFINE d == Max(unread)
             p == files[d]
             line == Files[p.name][p.pos + 1]
             q == [p EXCEPT !.pos = @ + 1]
             g == [SubSeq(files, 1, d) EXCEPT ![d].pos = @ + 1]
  <2>1. d \in unread /\ \A y \in unread : d >= y
    <3>1. unread \in SUBSET (1 .. L)
      BY <1>1
    <3>2. \E m \in unread : \A y \in unread : m >= y
      BY <1>1, <1>4, <3>1, Largest
    <3> HIDE DEF unread
    <3> QED BY <3>2 DEF Max
  <2>2. r = [files |-> g, line |-> line, due |-> time + Delay(line)]
    BY <1>4 DEF ReadLine
  <2>3. d \in 1 .. L /\ p \in Position /\ p.pos < Len(Files[p.name])
    BY <1>1, <2>1
  <2> HIDE DEF d
  <2>4. \A j \in 1 .. L : j > d => j \notin unread
    <3>1. \A j \in 1 .. L : j \in unread => d >= j
      BY <2>1
    <3> HIDE DEF unread
    <3> QED BY <1>1, <2>3, <3>1
  <2>5. q \in Position /\ line \in Line
        /\ Left(p) = (<<line>> \o Content(line, Flat)) \o Left(q)
    BY <2>3, LeftTurn
  <2>6. SubSeq(files, 1, d) \in Seq(Position) /\ Len(SubSeq(files, 1, d)) = d
        /\ \A j \in 1 .. d : SubSeq(files, 1, d)[j] = files[j]
    BY <1>1, <2>3
  <2>7. g = [SubSeq(files, 1, d) EXCEPT ![d] = q]
    <3> DEFINE s == SubSeq(files, 1, d)
    <3>1. s[d] = p
      BY <2>3, <2>6
    <3>2. g = [s EXCEPT ![d] = [s[d] EXCEPT !.pos = @ + 1]]
      OBVIOUS
    <3> HIDE DEF s, p, g
    <3> QED BY <3>1, <3>2 DEF s
  <2> HIDE DEF q, p
  <2>8. /\ g \in Seq(Position) /\ Len(g) = d /\ g[d] = q
        /\ \A j \in 1 .. (d - 1) : g[j] = files[j]
    <3> DEFINE s == SubSeq(files, 1, d)
               h == [s EXCEPT ![d] = q]
    <3>1. s \in Seq(Position) /\ Len(s) = d /\ DOMAIN s = 1 .. d /\ d \in 1 .. d
      BY <2>3, <2>6
    <3>2. \A j \in 1 .. d : s[j] = files[j]
      BY <2>6
    <3> HIDE DEF s
    <3>3. h \in Seq(Position) /\ Len(h) = d /\ h[d] = q /\ \A j \in 1 .. (d - 1) : h[j] = s[j]
      BY <2>3, <2>5, <3>1
    <3>4. \A j \in 1 .. (d - 1) : j \in 1 .. d
      BY <2>3
    <3>5. g = h
      BY <2>7 DEF s
    <3> HIDE DEF g, h
    <3> QED BY <3>2, <3>3, <3>4, <3>5
  <2> HIDE DEF g
  <2>9. Ahead(files) = AheadUpTo(files)[d]
    <3>1. \A j \in 1 .. L : j > d => files[j].pos = Len(Files[files[j].name])
      BY <1>2, <2>4
    <3>2. d \in 0 .. L
      BY <1>1, <2>3
    <3> QED BY <3>1, <3>2, AheadOfEnds
  <2> DEFINE below == AheadUpTo(files)[d - 1]
  <2>10. AheadUpTo(files)[d] = Left(p) \o below /\ below \in Seq(Line)
    <3>1. d - 1 \in 0 .. L
      BY <1>1, <2>3
    <3> QED BY <2>3, <3>1, AheadIs DEF p
  <2>11. Ahead(g) = Left(q) \o below
    <3>1. d - 1 \in Nat /\ d - 1 <= Len(files) /\ d - 1 <= Len(g) /\ d \in 1 .. Len(g)
      BY <1>1, <2>3, <2>8
    <3>2. AheadUpTo(g)[d - 1] = below
      BY <2>8, <3>1, AheadAgrees
    <3>3. AheadUpTo(g)[d] = Left(g[d]) \o AheadUpTo(g)[d - 1]
      BY <2>8, <3>1, AheadIs
    <3> QED BY <2>8, <3>2, <3>3 DEF Ahead
  <2> HIDE DEF below, line
  <2>12. Content(line, Flat) \in Seq(Line) /\ Delay(line) \in Nat
    <3>1. PICK name \in DOMAIN Files : line \in Lines(name)
      BY <2>5 DEF Line
    <3>2. <<>> \in Seq(Line)
      OBVIOUS
    <3> QED BY <3>1, <3>2, LinesOf, FlatIs DEF Content
  <2>13. Ahead(files) = (<<line>> \o Content(line, Flat)) \o Ahead(g)
    <3> DEFINE first == <<line>> \o Content(line, Flat)
    <3>1. first \in Seq(Line)
      BY <2>5, <2>12, Joined
    <3>2. Left(q) \in Seq(Line)
      BY <2>5, LeftTurn
    <3> HIDE DEF first
    <3>3. (first \o Left(q)) \o below = first \o (Left(q) \o below)
      BY <2>10, <3>1, <3>2, Joined
    <3>4. Left(p) = first \o Left(q)
      BY <2>5 DEF first
    <3> QED BY <2>9, <2>10, <2>11, <3>3, <3>4 DEF first
  <2>14. g # <<>>
    BY <2>3, <2>8
  <2> HIDE DEF r
  <2>15. r.files = g /\ r.line = line /\ r.due = time + Delay(line)
    BY <2>2
  <2>16. Here(r) = Ahead(files)
    BY <2>13, <2>14, <2>15 DEF Here
  <2>17. r.due \in Nat
    BY <2>12, <2>15
  <2> QED BY <2>5, <2>8, <2>14, <2>15, <2>16, <2>17 DEF Reads, r
<1> QED BY <1>3, <1>4

LEMMA LineKnown ==
  ASSUME NEW line \in Line
  PROVE  /\ Delay(line) \in Nat /\ Content(line, Flat) \in Seq(Line)
         /\ line.command = "load" => line.option \in DOMAIN Files
<1>1. PICK name \in DOMAIN Files : line \in Lines(name)
  BY DEF Line
<1>2. <<>> \in Seq(Line)
  OBVIOUS
<1> QED BY <1>1, <1>2, LinesOf, FlatIs DEF Content

(* The whole of a file is ahead when it is opened. *)
LEMMA OpenIs ==
  ASSUME NEW files \in Seq(Position), NEW name \in DOMAIN Files
  PROVE  /\ OpenFile(files, name) \in Seq(Position)
         /\ Ahead(OpenFile(files, name)) = Flat[name] \o Ahead(files)
<1> DEFINE p == [name |-> name, pos |-> 0]
<1>1. Len(Files[name]) \in Nat
  BY LinesOf
<1>2. p \in Position
  BY <1>1 DEF Position
<1>3. Left(p) = Flat[name]
  <2>1. Left(p) = Rest(name, Flat)[Len(Files[name])]
    BY <1>1 DEF Left
  <2>2. Knowing(name, Flat) /\ Flat[name] = FlatOf(name, Flat)
    BY FlatIs
  <2> QED BY <2>1, <2>2, RestExists
<1> HIDE DEF p
<1>4. OpenFile(files, name) = Append(files, p)
  BY DEF OpenFile, p
<1>5. Append(files, p) \in Seq(Position)
  BY <1>2
<1>6. Ahead(Append(files, p)) = Left(p) \o Ahead(files)
  BY <1>2, AheadTop
<1> QED BY <1>3, <1>4, <1>5, <1>6
-----------------------------------------------------------------------------
(* The commands of some lines, and when the last of the lines is due *)
Timed == [due : Nat, commands : Seq([line : Line, due : Nat])]

After(plan, line) ==
    [due |-> plan.due + Delay(line),
     commands |-> IF line.command = "load" THEN plan.commands
                  ELSE Append(plan.commands, [line |-> line, due |-> plan.due + Delay(line)])]

IsPlan(f, lines) ==
    f = [i \in 0 .. Len(lines) |-> IF i = 0 THEN [due |-> 0, commands |-> <<>>]
                                   ELSE After(f[i - 1], lines[i])]

Plan(lines) == CHOOSE f : IsPlan(f, lines)

LEMMA AfterTimed ==
  ASSUME NEW plan \in Timed, NEW line \in Line
  PROVE  After(plan, line) \in Timed
<1>1. plan.due \in Nat /\ plan.commands \in Seq([line : Line, due : Nat]) /\ Delay(line) \in Nat
  BY LineKnown DEF Timed
<1> DEFINE due == plan.due + Delay(line)
           new == [line |-> line, due |-> due]
<1>2. due \in Nat
  BY <1>1
<1> HIDE DEF due
<1>3. new \in [line : Line, due : Nat]
  BY <1>2
<1> HIDE DEF new
<1>4. Append(plan.commands, new) \in Seq([line : Line, due : Nat])
  BY <1>1, <1>3
<1>5. After(plan, line)
        = [due |-> due, commands |-> IF line.command = "load" THEN plan.commands
                                     ELSE Append(plan.commands, new)]
  BY DEF After, due, new
<1> DEFINE now1 == IF line.command = "load" THEN plan.commands ELSE Append(plan.commands, new)
<1>6. now1 \in Seq([line : Line, due : Nat])
  BY <1>1, <1>4
<1>7. After(plan, line) = [due |-> due, commands |-> now1]
  BY <1>5
<1> HIDE DEF now1
<1> QED BY <1>2, <1>6, <1>7 DEF Timed

LEMMA PlanIs ==
  ASSUME NEW lines \in Seq(Line)
  PROVE  /\ Plan(lines) \in [0 .. Len(lines) -> Timed]
         /\ Plan(lines)[0] = [due |-> 0, commands |-> <<>>]
         /\ \A i \in 1 .. Len(lines) : Plan(lines)[i] = After(Plan(lines)[i - 1], lines[i])
         /\ Planned(lines) = Plan(lines)[Len(lines)].commands
<1> DEFINE L == Len(lines)
           none == [due |-> 0, commands |-> <<>>]
           step == [i \in 1 .. L |-> [s \in Timed |-> After(s, lines[i])]]
           T == Plan(lines)
<1>1. L \in Nat /\ \A i \in 1 .. L : lines[i] \in Line
  OBVIOUS
<1>2. \A i \in 1 .. L : \A s \in Timed : After(s, lines[i]) \in Timed
  BY <1>1, AfterTimed
<1>3. none \in Timed
  BY DEF Timed
<1>4. step \in [1 .. L -> [Timed -> Timed]]
  BY <1>2
<1>5. PICK f \in [0 .. L -> Timed] : f[0] = none /\ \A i \in 1 .. L : f[i] = step[i][f[i - 1]]
  <2>1. L \in Nat
    BY <1>1
  <2> DEFINE S == Timed
  <2>2. none \in S /\ step \in [1 .. L -> [S -> S]]
    BY <1>3, <1>4
  <2> HIDE DEF step, L, none, T, S
  <2>3. \A go \in [1 .. L -> [S -> S]] : \E f \in [0 .. L -> S] :
          f[0] = none /\ \A i \in 1 .. L : f[i] = go[i][f[i - 1]]
    <3>1. none \in S
      BY <2>2
    <3> QED BY <2>1, <3>1, Iterates
  <2> QED BY <2>2, <2>3 DEF S
<1>6. \A i \in 1 .. L : f[i] = After(f[i - 1], lines[i])
  <2> SUFFICES ASSUME NEW i \in 1 .. L PROVE f[i] = After(f[i - 1], lines[i])
    OBVIOUS
  <2>1. f[i - 1] \in Timed
    BY <1>1
  <2> QED BY <1>5, <2>1
<1>7. IsPlan(f, lines)
  <2>1. f = [i \in 0 .. L |-> f[i]]
    OBVIOUS
  <2> HIDE DEF none
  <2>2. \A i \in 0 .. L : f[i] = IF i = 0 THEN none ELSE After(f[i - 1], lines[i])
    BY <1>1, <1>5, <1>6
  <2>3. f = [i \in 0 .. L |-> IF i = 0 THEN none ELSE After(f[i - 1], lines[i])]
    BY <2>1, <2>2
  <2> QED BY <2>3 DEF IsPlan, none
<1>8. IsPlan(T, lines)
  BY <1>7 DEF Plan
<1> HIDE DEF T
<1>9. /\ T[0] = none /\ T = [i \in 0 .. L |-> T[i]]
      /\ \A i \in 1 .. L : T[i] = After(T[i - 1], lines[i])
  <2>1. 0 \in 0 .. L /\ \A i \in 1 .. L : i \in 0 .. L /\ i # 0
    BY <1>1
  <2> QED BY <1>8, <2>1 DEF IsPlan
<1>10. \A i \in 0 .. L : T[i] \in Timed
  <2>1. \A i \in 1 .. L : T[i - 1] \in Timed => T[i] \in Timed
    BY <1>2, <1>9
  <2>2. T[0] \in Timed
    BY <1>3, <1>9
  <2> HIDE DEF L
  <2> QED BY <1>1, <2>1, <2>2, Within
<1>11. Planned(lines) = T[L].commands
  BY DEF Planned, T, Plan, IsPlan, After
<1>12. T \in [0 .. L -> Timed]
  BY <1>9, <1>10
<1> QED BY <1>9, <1>11, <1>12 DEF T

(* A plan only grows, and by later commands. *)
LEMMA PlanKeeps ==
  ASSUME NEW lines \in Seq(Line), NEW c \in 0 .. Len(lines), NEW j \in c .. Len(lines)
  PROVE  LET old == Plan(lines)[c].commands
             new == Plan(lines)[j].commands
         IN  /\ Len(old) <= Len(new)
             /\ \A k \in DOMAIN old : k \in DOMAIN new /\ new[k] = old[k]
<1> DEFINE T == Plan(lines)
           L == Len(lines)
           old == T[c].commands
           Keeps(s) == /\ s \in Seq([line : Line, due : Nat])
                       /\ Len(old) <= Len(s)
                       /\ \A k \in DOMAIN old : k \in DOMAIN s /\ s[k] = old[k]
           P == {n \in Nat : c + n <= L => Keeps(T[c + n].commands)}
<1>1. L \in Nat /\ c \in Nat /\ c <= L /\ c \in 0 .. L
  OBVIOUS
<1>2. /\ \A i \in 0 .. L : T[i] \in Timed
      /\ \A i \in 1 .. L : T[i] = After(T[i - 1], lines[i])
      /\ \A i \in 1 .. L : lines[i] \in Line
  <2>1. T \in [0 .. L -> Timed] /\ \A i \in 1 .. L : T[i] = After(T[i - 1], lines[i])
    BY PlanIs
  <2>2. \A i \in 1 .. L : lines[i] \in Line
    OBVIOUS
  <2> HIDE DEF T
  <2> QED BY <2>1, <2>2
<1> HIDE DEF T, L
<1>3. old \in Seq([line : Line, due : Nat])
  BY <1>1, <1>2 DEF Timed
<1>4. 0 \in P
  <2>1. c + 0 = c
    BY <1>1
  <2> HIDE DEF old
  <2>2. Keeps(old)
    BY <1>3
  <2> HIDE DEF Keeps
  <2> QED BY <2>1, <2>2 DEF old
<1>5. ASSUME NEW n \in Nat, n \in P PROVE n + 1 \in P
  <2> SUFFICES ASSUME c + (n + 1) <= L PROVE Keeps(T[c + (n + 1)].commands)
    OBVIOUS
  <2> DEFINE i == c + (n + 1)
             s == T[c + n].commands
  <2>1. i \in 1 .. L /\ i - 1 = c + n /\ c + n <= L /\ c + n \in 0 .. L
    BY <1>1
  <2>2. Keeps(s)
    BY <1>5, <2>1
  <2>3. T[c + n] \in Timed
    BY <1>2, <2>1
  <2> HIDE DEF i, old
  <2>4. T[i] = After(T[i - 1], lines[i]) /\ lines[i] \in Line
    BY <1>2, <2>1
  <2>5. T[i] = After(T[c + n], lines[i])
    BY <2>1, <2>4
  <2> DEFINE x == [line |-> lines[i], due |-> T[c + n].due + Delay(lines[i])]
  <2>6. T[i].commands = s \/ T[i].commands = Append(s, x)
    BY <2>5 DEF After
  <2>7. x \in [line : Line, due : Nat]
    <3>1. Delay(lines[i]) \in Nat /\ T[c + n].due \in Nat
      BY <2>3, <2>4, LineKnown DEF Timed
    <3> QED BY <2>4, <3>1
  <2> HIDE DEF s, x
  <2>8. Keeps(Append(s, x))
    BY <2>2, <2>7, <1>3
  <2> HIDE DEF Keeps
  <2>9. Keeps(T[i].commands)
    BY <2>2, <2>6, <2>8
  <2> QED BY <2>9 DEF i
<1> HIDE DEF P
<1>6. Nat \subseteq P
  BY <1>4, <1>5, CountingUp
<1>7. j - c \in Nat /\ c + (j - c) = j /\ c + (j - c) <= L
  BY <1>1 DEF L
<1>8. Keeps(T[c + (j - c)].commands)
  BY <1>6, <1>7 DEF P
<1> QED BY <1>7, <1>8 DEF T

LEMMA PlanLater ==
  ASSUME NEW lines \in Seq(Line), NEW c \in Nat, NEW j \in c + 1 .. Len(lines)
  PROVE  LET old == Plan(lines)[c].commands
             new == Plan(lines)[j].commands
         IN  \A k \in DOMAIN new : k > Len(old) => new[k].due >= Plan(lines)[c + 1].due
<1> DEFINE T == Plan(lines)
           L == Len(lines)
           old == T[c].commands
           due == T[c + 1].due
           Later(t) == /\ t \in Timed /\ t.due >= due
                       /\ \A k \in DOMAIN t.commands : k > Len(old) => t.commands[k].due >= due
           P == {n \in Nat : (c + 1) + n <= L => Later(T[(c + 1) + n])}
<1>1. L \in Nat /\ c \in Nat /\ c + 1 <= L /\ c \in 0 .. L /\ c + 1 \in 1 .. L /\ c + 1 \in 0 .. L
  OBVIOUS
<1>2. /\ \A i \in 0 .. L : T[i] \in Timed
      /\ \A i \in 1 .. L : T[i] = After(T[i - 1], lines[i])
      /\ \A i \in 1 .. L : lines[i] \in Line
  <2>1. T \in [0 .. L -> Timed] /\ \A i \in 1 .. L : T[i] = After(T[i - 1], lines[i])
    BY PlanIs
  <2>2. \A i \in 1 .. L : lines[i] \in Line
    OBVIOUS
  <2> HIDE DEF T
  <2> QED BY <2>1, <2>2
<1> HIDE DEF T, L
<1>3. old \in Seq([line : Line, due : Nat]) /\ due \in Nat
  BY <1>1, <1>2 DEF Timed
<1>4. 0 \in P
  <2>1. (c + 1) + 0 = c + 1 /\ (c + 1) - 1 = c
    BY <1>1
  <2>2. T[c + 1] = After(T[(c + 1) - 1], lines[c + 1]) /\ T[c + 1] \in Timed
    BY <1>1, <1>2
  <2>3. T[c + 1] = After(T[c], lines[c + 1])
    BY <2>1, <2>2
  <2> DEFINE x == [line |-> lines[c + 1], due |-> due]
             now1 == T[c + 1].commands
  <2>4. T[c + 1].commands = old \/ T[c + 1].commands = Append(old, x)
    BY <2>3 DEF After
  <2>5. x.due = due
    OBVIOUS
  <2> HIDE DEF x, old, due
  <2>6. \A k \in DOMAIN now1 : k > Len(old) => now1[k].due >= due
    <3> SUFFICES ASSUME NEW k \in DOMAIN now1, k > Len(old) PROVE now1[k].due >= due
      OBVIOUS
    <3> HIDE DEF now1
    <3>1. CASE now1 = old
      BY <1>3, <3>1
    <3>2. CASE now1 = Append(old, x)
      <4>1. k = Len(old) + 1
        BY <1>3, <3>2
      <4>2. now1[k] = x
        BY <1>3, <3>2, <4>1
      <4> QED BY <1>3, <2>5, <4>2
    <3> QED BY <2>4, <3>1, <3>2 DEF now1
  <2>7. Later(T[c + 1])
    <3>1. T[c + 1].due >= due
      BY <1>3 DEF due
    <3> QED BY <2>2, <2>6, <3>1
  <2> HIDE DEF Later
  <2> QED BY <2>1, <2>7
<1>5. ASSUME NEW n \in Nat, n \in P PROVE n + 1 \in P
  <2> SUFFICES ASSUME (c + 1) + (n + 1) <= L PROVE Later(T[(c + 1) + (n + 1)])
    OBVIOUS
  <2> DEFINE i == (c + 1) + (n + 1)
             t == T[(c + 1) + n]
             s == t.commands
  <2>1. i \in 1 .. L /\ i \in 0 .. L /\ i - 1 = (c + 1) + n /\ (c + 1) + n <= L
        /\ (c + 1) + n \in 0 .. L
    BY <1>1
  <2>2. Later(t)
    BY <1>5, <2>1
  <2> HIDE DEF i, old, due
  <2>3. T[i] = After(T[i - 1], lines[i]) /\ lines[i] \in Line /\ T[i] \in Timed
    BY <1>2, <2>1
  <2>4. T[i] = After(t, lines[i])
    BY <2>1, <2>3
  <2> HIDE DEF t
  <2>5. Delay(lines[i]) \in Nat /\ t.due \in Nat /\ t.due >= due
    BY <2>2, <2>3, LineKnown DEF Timed
  <2> DEFINE x == [line |-> lines[i], due |-> t.due + Delay(lines[i])]
             new == T[i].commands
  <2>6. (new = s \/ new = Append(s, x)) /\ T[i].due = t.due + Delay(lines[i])
    BY <2>4 DEF After
  <2>7. x.due >= due /\ T[i].due >= due
    BY <1>3, <2>5, <2>6
  <2>8. s \in Seq([line : Line, due : Nat])
        /\ \A k \in DOMAIN s : k > Len(old) => s[k].due >= due
    BY <2>2 DEF Timed
  <2> HIDE DEF x, s, new
  <2>9. \A k \in DOMAIN new : k > Len(old) => new[k].due >= due
    <3> SUFFICES ASSUME NEW k \in DOMAIN new, k > Len(old) PROVE new[k].due >= due
      OBVIOUS
    <3>1. CASE new = s
      BY <2>8, <3>1
    <3>2. CASE new = Append(s, x)
      <4>1. DOMAIN new = 1 .. Len(s) + 1 /\ DOMAIN s = 1 .. Len(s) /\ Len(s) \in Nat
        BY <2>8, <3>2
      <4>2. CASE k = Len(s) + 1
        <5>1. new[k] = x
          BY <2>8, <3>2, <4>2
        <5> QED BY <2>7, <5>1
      <4>3. CASE k \in DOMAIN s
        <5>1. new[k] = s[k]
          BY <2>8, <3>2, <4>1, <4>3
        <5> QED BY <2>8, <4>3, <5>1
      <4>4. k = Len(s) + 1 \/ k \in DOMAIN s
        BY <4>1
      <4> QED BY <4>2, <4>3, <4>4
    <3> QED BY <2>6, <3>1, <3>2
  <2>10. Later(T[i])
    BY <2>3, <2>7, <2>9 DEF new
  <2> QED BY <2>10 DEF i
<1> HIDE DEF P
<1>6. Nat \subseteq P
  BY <1>4, <1>5, CountingUp
<1>7. j - (c + 1) \in Nat /\ (c + 1) + (j - (c + 1)) = j /\ (c + 1) + (j - (c + 1)) <= L
  BY <1>1 DEF L
<1>8. Later(T[(c + 1) + (j - (c + 1))])
  BY <1>6, <1>7 DEF P
<1> QED BY <1>7, <1>8 DEF T
-----------------------------------------------------------------------------
(* What was taken of the script, and the line the reader is at, are the     *)
(* beginning of what is to be carried out; the commands of the beginning    *)
(* are done, each in its time.                                              *)
InTime(d, command) == /\ d.line = command.line
                      /\ d.at + 1 >= command.due
                      /\ d.at > 0 => d.at - 1 < command.due

Taken(past) ==
    LET lines == Flat[args.script]
        plan == Plan(lines)[Len(past)]
    IN  /\ lines = past \o Here(reader)
        /\ reader.files = <<>> => reader.due = plan.due
        /\ reader.files # <<>> => reader.due = plan.due + Delay(reader.line)
        /\ DOMAIN done = DOMAIN plan.commands
        /\ \A k \in DOMAIN done : InTime(done[k], plan.commands[k])

ReaderTypes == /\ args \in Configs
               /\ reader.files \in Seq(Position) /\ reader.due \in Nat
               /\ reader.files # <<>> => reader.line \in Line
               /\ done \in Seq([line : Line, at : Nat])

(* When the line the reader is at is due. *)
DueLater ==
    reader.files # <<>> =>
        /\ main \in {"step", "fsw", "tick"} => reader.due > clock + 1
        /\ main \in {"inputs", "asleep"} /\ now > 0 => reader.due > now - 1

ScriptInv == ReaderTypes /\ DueLater /\ \E past \in Seq(Line) : Taken(past)

LEMMA ScriptLines == ASSUME args \in Configs
                     PROVE  args.script \in DOMAIN Files /\ Flat[args.script] \in Seq(Line)
BY SimulationAssumption, FlatIs

LEMMA ScriptStays ==
  ASSUME ScriptInv, UNCHANGED <<args, reader, done>>, DueLater'
  PROVE  ScriptInv'
<1>1. PICK past \in Seq(Line) : Taken(past)
  BY DEF ScriptInv
<1>2. Here(reader)' = Here(reader)
  BY DEF Here
<1>3. Taken(past)'
  BY <1>1, <1>2 DEF Taken
<1>4. ReaderTypes'
  BY DEF ScriptInv, ReaderTypes
<1> QED BY <1>3, <1>4 DEF ScriptInv

(* The line the reader is at is the next, and the reader goes on to those   *)
(* behind it.                                                               *)
LEMMA LineTaken ==
  ASSUME ReaderTypes, NEW past \in Seq(Line), Taken(past), reader.files # <<>>,
         args' = args, NEW rest \in Seq(Line), Here(reader) = <<reader.line>> \o rest,
         Reads(reader', rest, reader.due)
  PROVE  LET lines == Flat[args.script]
             plan == Plan(lines)[Len(past)]
             more == Append(past, reader.line)
         IN  /\ more \in Seq(Line) /\ lines = more \o Here(reader')
             /\ plan \in Timed
             /\ Plan(lines)[Len(more)] = After(plan, reader.line)
             /\ reader.due = plan.due + Delay(reader.line)
             /\ reader'.files = <<>> => reader'.due = reader.due
             /\ reader'.files # <<>> => reader'.due = reader.due + Delay(reader'.line)
             /\ reader'.due >= reader.due
<1> DEFINE lines == Flat[args.script]
           T == Plan(lines)
           c == Len(past)
           line == reader.line
           more == Append(past, line)
<1>1. lines \in Seq(Line) /\ line \in Line /\ c \in Nat /\ reader.due \in Nat
  BY ScriptLines DEF ReaderTypes
<1>2. lines = past \o Here(reader) /\ reader.due = T[c].due + Delay(line)
  BY DEF Taken
<1>3. Here(reader') = rest
  BY DEF Reads
<1> HIDE DEF line, lines, T
<1>4. <<line>> \in Seq(Line) /\ more = past \o <<line>> /\ more \in Seq(Line)
      /\ Len(more) = c + 1 /\ more[c + 1] = line
  BY <1>1
<1>5. lines = more \o rest
  <2>1. (past \o <<line>>) \o rest = past \o (<<line>> \o rest)
    BY <1>4, Joined
  <2> QED BY <1>2, <1>4, <2>1 DEF line
<1>6. c + 1 \in 1 .. Len(lines) /\ lines[c + 1] = line
  <2> HIDE DEF more
  <2>1. Len(more \o rest) = (c + 1) + Len(rest) /\ (more \o rest)[c + 1] = more[c + 1]
    BY <1>1, <1>4
  <2>2. Len(rest) \in Nat
    OBVIOUS
  <2> QED BY <1>1, <1>4, <1>5, <2>1, <2>2
<1>7. T[c + 1] = After(T[(c + 1) - 1], lines[c + 1]) /\ T \in [0 .. Len(lines) -> Timed]
  BY <1>1, <1>6, PlanIs DEF T
<1>8. (c + 1) - 1 = c /\ c \in 0 .. Len(lines)
  BY <1>1, <1>6
<1>9. T[c] \in Timed /\ T[c + 1] = After(T[c], line)
  BY <1>6, <1>7, <1>8
<1>10. reader'.files # <<>> => reader'.line \in Line /\ reader'.due = reader.due + Delay(reader'.line)
  BY DEF Reads
<1>11. reader'.files = <<>> => reader'.due = reader.due
  BY DEF Reads
<1>12. reader'.due >= reader.due
  <2>1. CASE reader'.files = <<>>
    BY <1>1, <1>11, <2>1
  <2>2. CASE reader'.files # <<>>
    <3>1. Delay(reader'.line) \in Nat
      BY <1>10, <2>2, LineKnown
    <3> QED BY <1>1, <1>10, <2>2, <3>1
  <2> QED BY <2>1, <2>2
<1> QED BY <1>2, <1>3, <1>4, <1>5, <1>9, <1>10, <1>11, <1>12 DEF line, lines, T

LEMMA LoadTakes == ASSUME ScriptInv, ClockInv, LoadScript PROVE ScriptInv'
<1>1. PICK past \in Seq(Line) : Taken(past)
  BY DEF ScriptInv
<1> DEFINE line == reader.line
           rest == Content(line, Flat) \o Ahead(reader.files)
<1>2. /\ reader.files # <<>> /\ line.command = "load" /\ reader' = Load(reader)
      /\ main' = "inputs" /\ main \in {"inputs", "asleep"}
      /\ UNCHANGED <<args, now, clock, done>>
  BY DEF LoadScript, IsInput, IsDue, Ended, AtTop
<1>3. ReaderTypes /\ DueLater /\ line \in Line /\ reader.due \in Nat
  BY <1>2 DEF ScriptInv, ReaderTypes
<1>4. /\ line.option \in DOMAIN Files /\ Content(line, Flat) = Flat[line.option]
      /\ Content(line, Flat) \in Seq(Line)
  BY <1>2, <1>3, LineKnown DEF Content
<1>5. reader.files \in Seq(Position)
  BY <1>3 DEF ReaderTypes
<1>6. Ahead(reader.files) \in Seq(Line)
  <2>1. Len(reader.files) \in 0 .. Len(reader.files)
    BY <1>5
  <2> QED BY <1>5, <2>1, AheadIs DEF Ahead
<1>7. rest \in Seq(Line) /\ Here(reader) = <<line>> \o rest
  <2>1. <<line>> \in Seq(Line)
    BY <1>3
  <2>2. (<<line>> \o Content(line, Flat)) \o Ahead(reader.files)
          = <<line>> \o (Content(line, Flat) \o Ahead(reader.files))
    <3> DEFINE x == <<line>>
               b == Content(line, Flat)
               e == Ahead(reader.files)
    <3>1. x \in Seq(Line) /\ b \in Seq(Line) /\ e \in Seq(Line)
      BY <1>4, <1>6, <2>1
    <3> HIDE DEF x, b, e
    <3>2. (x \o b) \o e = x \o (b \o e)
      BY <3>1, Joined
    <3> QED BY <3>2 DEF x, b, e
  <2> QED BY <1>2, <1>4, <1>6, <2>2, Joined DEF Here
<1>8. Reads(reader', rest, reader.due)
  <2> DEFINE open == OpenFile(reader.files, line.option)
  <2>1. open \in Seq(Position) /\ Ahead(open) = rest
    BY <1>4, <1>5, OpenIs
  <2>2. reader' = ReadLine(open, reader.due)
    BY <1>2 DEF Load
  <2> HIDE DEF open, rest
  <2>3. Reads(ReadLine(open, reader.due), Ahead(open), reader.due)
    BY <1>3, <2>1, ReadLineIs
  <2> QED BY <2>1, <2>2, <2>3
<1> HIDE DEF rest
<1> DEFINE lines == Flat[args.script]
           plan == Plan(lines)[Len(past)]
           more == Append(past, line)
<1>9. /\ more \in Seq(Line) /\ lines = more \o Here(reader')
      /\ plan \in Timed
      /\ Plan(lines)[Len(more)] = After(plan, line)
      /\ reader.due = plan.due + Delay(line)
      /\ reader'.files = <<>> => reader'.due = reader.due
      /\ reader'.files # <<>> => reader'.due = reader.due + Delay(reader'.line)
      /\ reader'.due >= reader.due
  BY <1>1, <1>2, <1>3, <1>7, <1>8, LineTaken
<1>10. After(plan, line).due = reader.due /\ After(plan, line).commands = plan.commands
  BY <1>2, <1>9 DEF After
<1>11. DOMAIN done = DOMAIN plan.commands
       /\ \A k \in DOMAIN done : InTime(done[k], plan.commands[k])
  BY <1>1 DEF Taken
<1> HIDE DEF plan
<1>12. \E p \in Seq(Line) : Taken(p)'
  <2>1. \A p : p = more => Taken(p)'
    <3> SUFFICES ASSUME NEW p, p = more PROVE Taken(p)'
      OBVIOUS
    <3> HIDE DEF more
    <3> QED BY <1>2, <1>9, <1>10, <1>11 DEF Taken, Here
  <2> QED BY <1>9, <2>1
<1>13. ReaderTypes'
  BY <1>2, <1>3, <1>8 DEF ReaderTypes, Reads
<1>14. DueLater'
  <2> SUFFICES ASSUME now > 0, reader'.files # <<>> PROVE reader'.due > now - 1
    BY <1>2 DEF DueLater
  <2>1. reader.due > now - 1
    BY <1>2, <1>3 DEF DueLater
  <2>2. now \in Nat /\ reader'.due \in Nat
    BY <1>8 DEF ClockInv, Reads
  <2> QED BY <1>3, <1>9, <2>1, <2>2
<1> QED BY <1>12, <1>13, <1>14 DEF ScriptInv

LEMMA InputTakes == ASSUME ScriptInv, ClockInv, ProcessScriptInput PROVE ScriptInv'
<1>1. PICK past \in Seq(Line) : Taken(past)
  BY DEF ScriptInv
<1> DEFINE line == reader.line
           rest == Ahead(reader.files)
           d == [line |-> line, at |-> now]
<1>2. /\ reader.files # <<>> /\ line.command # "load" /\ reader' = NextLine(reader)
      /\ now + 1 >= reader.due
      /\ main' \in {"inputs", "exit"} /\ main \in {"inputs", "asleep"}
      /\ done' = Append(done, d)
      /\ UNCHANGED <<args, now, clock>>
  BY DEF ProcessScriptInput, IsInput, IsDue, Ended, AtTop
<1>3. ReaderTypes /\ DueLater /\ line \in Line /\ reader.due \in Nat /\ now \in Nat
      /\ reader.files \in Seq(Position)
  BY <1>2 DEF ScriptInv, ReaderTypes, ClockInv
<1>4. rest \in Seq(Line)
  <2>1. Len(reader.files) \in 0 .. Len(reader.files)
    BY <1>3
  <2> QED BY <1>3, <2>1, AheadIs DEF Ahead
<1>5. Here(reader) = <<line>> \o rest
  <2>1. <<line>> \in Seq(Line)
    BY <1>3
  <2>2. <<line>> \o Content(line, Flat) = <<line>>
    BY <1>2, <2>1, Joined DEF Content
  <2> QED BY <1>2, <2>2 DEF Here
<1>6. Reads(reader', rest, reader.due)
  BY <1>2, <1>3, ReadLineIs DEF NextLine
<1> HIDE DEF rest
<1> DEFINE lines == Flat[args.script]
           plan == Plan(lines)[Len(past)]
           more == Append(past, line)
<1>7. /\ more \in Seq(Line) /\ lines = more \o Here(reader')
      /\ plan \in Timed
      /\ Plan(lines)[Len(more)] = After(plan, line)
      /\ reader.due = plan.due + Delay(line)
      /\ reader'.files = <<>> => reader'.due = reader.due
      /\ reader'.files # <<>> => reader'.due = reader.due + Delay(reader'.line)
      /\ reader'.due >= reader.due
  BY <1>1, <1>2, <1>3, <1>4, <1>5, <1>6, LineTaken
<1> DEFINE new == [line |-> line, due |-> reader.due]
<1>8. After(plan, line).due = reader.due
      /\ After(plan, line).commands = Append(plan.commands, new)
  BY <1>2, <1>7 DEF After
<1>9. DOMAIN done = DOMAIN plan.commands
      /\ \A k \in DOMAIN done : InTime(done[k], plan.commands[k])
  BY <1>1 DEF Taken
<1>10. InTime(d, new)
  <2>1. now > 0 => reader.due > now - 1
    BY <1>2, <1>3 DEF DueLater
  <2> QED BY <1>2, <1>3, <2>1 DEF InTime
<1>11. done \in Seq([line : Line, at : Nat]) /\ d \in [line : Line, at : Nat]
       /\ plan.commands \in Seq([line : Line, due : Nat]) /\ new \in [line : Line, due : Nat]
  BY <1>3, <1>7 DEF ReaderTypes, Timed
<1> HIDE DEF plan, d, new
<1>12. done' \in Seq([line : Line, at : Nat])
  BY <1>2, <1>11
<1>13. DOMAIN done' = DOMAIN Append(plan.commands, new)
       /\ \A k \in DOMAIN done' : InTime(done'[k], Append(plan.commands, new)[k])
  <2> DEFINE L == Len(done)
             all == Append(plan.commands, new)
  <2>1. /\ L \in Nat /\ DOMAIN done = 1 .. L /\ DOMAIN done' = 1 .. L + 1
        /\ done'[L + 1] = d /\ \A k \in 1 .. L : done'[k] = done[k]
    BY <1>2, <1>11
  <2>2. Len(plan.commands) = L
    BY <1>9, <1>11
  <2>3. /\ DOMAIN all = 1 .. L + 1 /\ all[L + 1] = new
        /\ \A k \in 1 .. L : all[k] = plan.commands[k]
    BY <1>11, <2>2
  <2> HIDE DEF L, all
  <2>4. \A k \in DOMAIN done' : k \in 1 .. L \/ k = L + 1
    BY <2>1
  <2>5. \A k \in DOMAIN done' : InTime(done'[k], all[k])
    BY <1>9, <1>10, <2>1, <2>3, <2>4
  <2> QED BY <2>1, <2>3, <2>5 DEF all
<1>14. \E p \in Seq(Line) : Taken(p)'
  <2>1. \A p : p = more => Taken(p)'
    <3> SUFFICES ASSUME NEW p, p = more PROVE Taken(p)'
      OBVIOUS
    <3> HIDE DEF more
    <3> QED BY <1>2, <1>7, <1>8, <1>13 DEF Taken, Here
  <2> QED BY <1>7, <2>1
<1>15. ReaderTypes'
  BY <1>2, <1>3, <1>6, <1>12 DEF ReaderTypes, Reads
<1>16. DueLater'
  <2> SUFFICES ASSUME now > 0, reader'.files # <<>> PROVE reader'.due > now - 1
    BY <1>2 DEF DueLater
  <2>1. reader.due > now - 1
    BY <1>2, <1>3 DEF DueLater
  <2>2. reader'.due \in Nat
    BY <1>6 DEF Reads
  <2> QED BY <1>3, <1>7, <2>1, <2>2
<1> QED BY <1>14, <1>15, <1>16 DEF ScriptInv

LEMMA ScriptInit == Init => ScriptInv
<1> SUFFICES ASSUME Init PROVE ScriptInv
  OBVIOUS
<1> DEFINE open == OpenFile(<<>>, args.script)
<1>1. /\ args \in Configs /\ main = "inputs" /\ now = 0 /\ done = <<>>
      /\ reader = ReadLine(open, 0)
  BY DEF Init, StartReading
<1>2. args.script \in DOMAIN Files /\ Flat[args.script] \in Seq(Line)
  BY <1>1, ScriptLines
<1>3. open \in Seq(Position) /\ Ahead(open) = Flat[args.script]
  <2>1. <<>> \in Seq(Position)
    OBVIOUS
  <2>2. open \in Seq(Position) /\ Ahead(open) = Flat[args.script] \o Ahead(<<>>)
    BY <1>2, <2>1, OpenIs
  <2>3. Flat[args.script] \o <<>> = Flat[args.script]
    BY <1>2, Joined
  <2> QED BY <2>2, <2>3, AheadNone
<1> HIDE DEF open
<1>4. Reads(reader, Flat[args.script], 0)
  BY <1>1, <1>3, ReadLineIs
<1> DEFINE lines == Flat[args.script]
           none == <<>>
<1>5. none \in Seq(Line) /\ Len(none) = 0 /\ none \o lines = lines
  BY <1>2, Joined
<1>6. Plan(lines)[0].due = 0 /\ Plan(lines)[0].commands = <<>>
  BY <1>2, PlanIs
<1>7. Here(reader) = lines /\ reader.files = <<>> => reader.due = 0
  BY <1>4 DEF Reads
<1>8. reader.files # <<>> => reader.due = 0 + Delay(reader.line)
  BY <1>4 DEF Reads
<1> HIDE DEF none, lines
<1>9. Taken(none)
  <2>1. DOMAIN done = {} /\ DOMAIN Plan(lines)[0].commands = {}
    BY <1>1, <1>6
  <2>2. Here(reader) = lines
    BY <1>4 DEF Reads, lines
  <2>3. reader.files = <<>> => reader.due = 0
    BY <1>4 DEF Reads
  <2> QED BY <1>5, <1>6, <1>8, <2>1, <2>2, <2>3 DEF Taken, lines
<1>10. ReaderTypes
  <2>1. done \in Seq([line : Line, at : Nat])
    BY <1>1
  <2> QED BY <1>1, <1>4, <2>1 DEF ReaderTypes, Reads
<1>11. DueLater
  BY <1>1 DEF DueLater
<1> QED BY <1>5, <1>9, <1>10, <1>11 DEF ScriptInv

LEMMA ScriptNext == ScriptInv /\ ClockInv /\ [Next]_vars => ScriptInv'
<1> SUFFICES ASSUME ScriptInv, ClockInv, [Next]_vars PROVE ScriptInv'
  OBVIOUS
<1>0. /\ now \in Nat /\ clock \in Nat
      /\ now = IF main \in {"fsw", "tick"} THEN clock + 2 ELSE clock
      /\ DueLater /\ (reader.files # <<>> => reader.due \in Nat)
  BY DEF ClockInv, ScriptInv, ReaderTypes
<1>1. CASE LoadScript
  BY <1>1, LoadTakes
<1>2. CASE ProcessScriptInput
  BY <1>2, InputTakes
<1>3. CASE GetCommands
  <2>1. /\ UNCHANGED <<args, reader, now, clock, done>>
        /\ main \in {"inputs", "asleep"} /\ main' \in {"step", "asleep"}
        /\ ~IsInput
    BY <1>3 DEF GetCommands, AtTop
  <2>2. reader.files # <<>> => reader.due > now + 1
    BY <1>0, <2>1 DEF IsInput, IsDue, Ended
  <2>3. DueLater'
    BY <1>0, <2>1, <2>2 DEF DueLater
  <2> QED BY <2>1, <2>3, ScriptStays
<1>4. CASE Step
  <2>1. UNCHANGED <<args, reader, clock, done>> /\ main = "step" /\ main' = "fsw"
    BY <1>4 DEF Step
  <2>2. DueLater'
    BY <1>0, <2>1 DEF DueLater
  <2> QED BY <2>1, <2>2, ScriptStays
<1>5. CASE OutputState
  <2>1. UNCHANGED <<args, reader, now, clock, done>> /\ main = "fsw" /\ main' = "tick"
    BY <1>5 DEF OutputState, FswRan
  <2>2. DueLater'
    BY <1>0, <2>1 DEF DueLater
  <2> QED BY <2>1, <2>2, ScriptStays
<1>6. CASE TimeTick
  <2>1. UNCHANGED <<args, reader, now, done>> /\ main \in {"fsw", "tick"} /\ main' = "asleep"
        /\ clock' = now
    BY <1>6 DEF TimeTick, FswRan
  <2>2. DueLater'
    BY <1>0, <2>1 DEF DueLater
  <2> QED BY <2>1, <2>2, ScriptStays
<1>7. CASE UNCHANGED <<args, reader, main, now, clock, done>>
  <2>1. DueLater'
    BY <1>0, <1>7 DEF DueLater
  <2> QED BY <1>7, <2>1, ScriptStays
<1>8. \/ LoadScript \/ ProcessScriptInput \/ GetCommands \/ Step \/ OutputState \/ TimeTick
      \/ UNCHANGED <<args, reader, main, now, clock, done>>
  <2>1. CASE UNCHANGED vars
    BY <2>1 DEF vars, simVars
  <2>2. CASE \E kind \in {"tock", "other"} : FswSends(kind)
    BY <2>2 DEF FswSends, simVars
  <2>3. CASE \E t \in Task : \/ Join(t) \/ TaskSend(t) \/ Poll(t) \/ Woken(t)
                             \/ \E w \in Waits[t] : Block(t, w)
    BY <2>3 DEF Join, TaskSend, Poll, Woken, Block, simVars
  <2>4. CASE ReadForAllClients \/ LinkBreaks \/ ReconnectSocket
    BY <2>4 DEF ReadForAllClients, LinkBreaks, ReconnectSocket, simVars
  <2>5. CASE \E kind \in {"tock", "other"} : PeerSends(kind)
    BY <2>5 DEF PeerSends, simVars
  <2> QED BY <2>1, <2>2, <2>3, <2>4, <2>5 DEF Next, MainLoop
<1> QED BY <1>1, <1>2, <1>3, <1>4, <1>5, <1>6, <1>7, <1>8

LEMMA ScriptInTime == ScriptInv /\ ClockInv => CommandsInTime
<1> SUFFICES ASSUME ScriptInv, ClockInv PROVE CommandsInTime
  OBVIOUS
<1>1. PICK past \in Seq(Line) : Taken(past)
  BY DEF ScriptInv
<1>2. ReaderTypes /\ DueLater /\ clock \in Nat
  BY DEF ScriptInv, ClockInv
<1> DEFINE lines == Flat[args.script]
           T == Plan(lines)
           L == Len(lines)
           c == Len(past)
           old == T[c].commands
           commands == Planned(lines)
<1>3. lines \in Seq(Line) /\ L \in Nat /\ c \in Nat /\ Flat \in [DOMAIN Files -> Seq(Line)]
  BY <1>2, ScriptLines, FlatIs DEF ReaderTypes
<1>4. /\ lines = past \o Here(reader)
      /\ reader.files # <<>> => reader.due = T[c].due + Delay(reader.line)
      /\ DOMAIN done = DOMAIN old
      /\ \A k \in DOMAIN done : InTime(done[k], old[k])
  BY <1>1 DEF Taken
<1>5. commands = T[L].commands /\ T \in [0 .. L -> Timed]
      /\ \A i \in 1 .. L : T[i] = After(T[i - 1], lines[i])
  BY <1>3, PlanIs
<1> HIDE DEF lines, T
<1>6. /\ Here(reader) \in Seq(Line)
      /\ reader.files = <<>> => Here(reader) = <<>>
      /\ reader.files # <<>> => \E rest \in Seq(Line) : Here(reader) = <<reader.line>> \o rest
  <2>1. CASE reader.files = <<>>
    <3>1. <<>> \in Seq(Line)
      OBVIOUS
    <3> QED BY <2>1, <3>1 DEF Here
  <2>2. CASE reader.files # <<>>
    <3> DEFINE x == <<reader.line>>
               b == Content(reader.line, Flat)
               e == Ahead(reader.files)
    <3>1. reader.line \in Line /\ reader.files \in Seq(Position)
      BY <1>2, <2>2 DEF ReaderTypes
    <3>2. Len(reader.files) \in 0 .. Len(reader.files)
      BY <3>1
    <3>3. e \in Seq(Line)
      BY <3>1, <3>2, AheadIs DEF Ahead
    <3>4. x \in Seq(Line) /\ b \in Seq(Line)
      BY <3>1, LineKnown
    <3>5. Here(reader) = (x \o b) \o e
      BY <2>2 DEF Here
    <3> HIDE DEF x, b, e
    <3>6. (x \o b) \o e = x \o (b \o e) /\ b \o e \in Seq(Line) /\ x \o (b \o e) \in Seq(Line)
      BY <3>3, <3>4, Joined
    <3> QED BY <2>2, <3>5, <3>6 DEF x
  <2> QED BY <2>1, <2>2
<1>7. L = c + Len(Here(reader)) /\ c <= L
  BY <1>3, <1>4, <1>6
<1>8. reader.files = <<>> => c = L
  <2>1. Len(<<>>) = 0
    OBVIOUS
  <2> QED BY <1>3, <1>6, <1>7, <2>1
<1>9. reader.files # <<>> => c + 1 <= L /\ lines[c + 1] = reader.line
  <2> SUFFICES ASSUME reader.files # <<>> PROVE c + 1 <= L /\ lines[c + 1] = reader.line
    OBVIOUS
  <2>1. PICK rest \in Seq(Line) : Here(reader) = <<reader.line>> \o rest
    BY <1>6
  <2>2. reader.line \in Line
    BY <1>2 DEF ReaderTypes
  <2>3. Len(Here(reader)) >= 1 /\ Here(reader)[1] = reader.line
    BY <2>1, <2>2
  <2> DEFINE h == Here(reader)
  <2>4. h \in Seq(Line) /\ lines = past \o h
    BY <1>4, <1>6
  <2> HIDE DEF h
  <2>5. Len(h) >= 1 => (past \o h)[Len(past) + 1] = h[1]
    BY <2>4
  <2> QED BY <1>3, <1>7, <2>3, <2>4, <2>5 DEF h
<1>10. /\ Len(old) <= Len(commands)
       /\ \A k \in DOMAIN old : k \in DOMAIN commands /\ commands[k] = old[k]
  <2>1. c \in 0 .. Len(lines) /\ L \in c .. Len(lines)
    BY <1>3, <1>7
  <2> QED BY <1>3, <1>5, <2>1, PlanKeeps DEF T
<1>11. \A k \in DOMAIN done : InTime(done[k], commands[k])
  BY <1>4, <1>10
<1>12. ASSUME main \in {"step", "fsw"}, NEW k \in DOMAIN commands, commands[k].due <= clock + 1
       PROVE  k <= Len(done)
  <2>1. T[c] \in Timed /\ T[L] \in Timed
    BY <1>3, <1>5, <1>7
  <2>2. old \in Seq([line : Line, due : Nat]) /\ commands \in Seq([line : Line, due : Nat])
    BY <1>5, <2>1 DEF Timed
  <2>3. Len(done) = Len(old)
    BY <1>2, <1>4, <2>2 DEF ReaderTypes
  <2>4. CASE reader.files = <<>>
    BY <1>5, <1>8, <2>2, <2>3, <2>4
  <2>5. CASE reader.files # <<>>
    <3>1. reader.due > clock + 1
      BY <1>2, <1>12, <2>5 DEF DueLater
    <3>2. T[c + 1].due = reader.due
      <4>1. c + 1 \in 1 .. L /\ (c + 1) - 1 = c
        BY <1>3, <1>9, <2>5
      <4>2. T[c + 1] = After(T[(c + 1) - 1], lines[c + 1])
        BY <1>5, <4>1
      <4>3. T[c + 1] = After(T[c], reader.line)
        BY <1>9, <2>5, <4>1, <4>2
      <4> QED BY <1>4, <2>5, <4>3 DEF After
    <3>3. k > Len(old) => commands[k].due >= T[c + 1].due
      <4>1. L \in c + 1 .. Len(lines)
        BY <1>3, <1>9, <2>5
      <4> QED BY <1>3, <1>5, <4>1, PlanLater DEF T
    <3>4. commands[k].due \in Nat /\ k \in Nat /\ Len(old) \in Nat /\ reader.due \in Nat
      <4>1. reader.due \in Nat
        BY <1>2 DEF ReaderTypes
      <4>2. k \in DOMAIN commands
        BY <1>12
      <4> DEFINE R == [line : Line, due : Nat]
      <4>3. commands \in Seq(R) /\ old \in Seq(R)
        BY <2>2
      <4> HIDE DEF commands, old, R
      <4>4. commands[k] \in R /\ k \in Nat
        BY <4>2, <4>3
      <4>5. Len(old) \in Nat
        BY <4>3
      <4> QED BY <4>1, <4>4, <4>5 DEF R
    <3> QED BY <1>2, <1>12, <2>3, <3>1, <3>2, <3>3, <3>4
  <2> QED BY <2>4, <2>5
<1> QED BY <1>11, <1>12 DEF CommandsInTime, InTime, lines

(* Every command of a script comes in its order and its time, for all       *)
(* scripts that do not load each other in a circle and whatever else        *)
(* happens (sim.py:77-111, 275-282).                                        *)
THEOREM CommandsCorrect == Spec => []CommandsInTime
<1>1. Spec => []ClockInv
  BY ClockInit, ClockNext, PTL DEF Spec
<1> QED BY <1>1, ScriptInit, ScriptNext, ScriptInTime, PTL DEF Spec
=============================================================================
