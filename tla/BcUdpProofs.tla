------------------------------- MODULE BcUdpProofs -------------------------------
(***************************************************************************)
(* Proofs about BcUdp, for any window, buffer, queue and network bounds:   *)
(* neither side forgets a packet the other still needs, and the transport  *)
(* implements an in-order channel.                                         *)
(***************************************************************************)
EXTENDS BcUdp, TLAPS, FiniteSetTheorems, WellFoundedInduction

\* What the application has of the camera's packets, drained or in the buffer.
Have == 0..(packets_want - 1) \cup received

\* An ack to the camera names only packets the application has, and one to the
\* application only packets the camera has got.
ToCamSound(a) == (a.id # IdMax => 0..a.id \subseteq Have) /\ a.also \subseteq Have
ToAppSound(a) == (a.id # IdMax => 0..a.id \subseteq camGot) /\ a.also \subseteq camGot

\* A packet in flight or in socket_out claims nothing that is not so.
Honest(p) ==
    /\ p \in Packet
    /\ p.to = "app" /\ p.type = "data" /\ p.conn = "this" /\ p.addr = "camera" => p.id < camNext
    /\ p.to = "app" /\ p.type = "ack" /\ p.conn = "this" /\ p.addr = "camera" => ToAppSound(p.ack)
    /\ p.to = "cam" /\ p.type = "data" => p.id < packets_sent
    /\ p.to = "cam" /\ p.type = "ack" => ToCamSound(p.ack)

PacketsHonest ==
    /\ \A p \in net : Honest(p)
    /\ \A k \in 1..Len(out) : out[k].to = "app" /\ Honest(out[k])
    /\ ToCamSound(ack)

\* Ids count up from 0 and stay below IdMax, so that nothing wraps.
IdsCount ==
    /\ packets_want <= camNext /\ camNext <= CamPackets
    /\ packets_sent <= AppChunks
    /\ \A i \in received : packets_want < i /\ i < camNext
    /\ \A i \in sent \cup camGot : i < packets_sent
    /\ \A i \in camUnacked : i < camNext
    /\ Len(sink) <= 1
    /\ sink # <<>> => packets_sent + sink[1] <= AppChunks

\* What has been read, what is in the stream and what is pending follow each other
\* without a gap up to packets_want; the error is the stream's last item.
InStep ==
    /\ \A k \in 1..Len(stream) :
          \/ stream[k] = Err /\ k = Len(stream) /\ run = "done"
          \/ stream[k] = Payload("this", Len(got) + k - 1) /\ Len(got) + k - 1 < packets_want
    /\ run = "select" =>
          /\ packets_want = Len(got) + Len(stream) + Len(pending)
          /\ \A k \in 1..Len(pending) : pending[k] = Payload("this", Len(got) + Len(stream) + k - 1)
    /\ run = "failing" => pending = <<>>

IndInv ==
    /\ TypeOK
    /\ IdsCount
    /\ PacketsHonest
    /\ InStep
    /\ NothingForgotten

-----------------------------------------------------------------------------------
(* The operators. *)

\* Ids below IdMax + 1 do not wrap.
LEMMA NoWrap ==
    ASSUME NEW n \in Nat, NEW k \in Nat, n + k <= IdMax
    PROVE  WrappingAdd(n, k) = n + k
BY BcUdpAssumption DEF WrappingAdd

\* A set of numbers that is not empty has a least element.
LEMMA LeastNumber ==
    ASSUME NEW S \in SUBSET Nat, S # {}
    PROVE  \E m \in S : \A i \in S : m <= i
<1>1. PICK m \in S : \A i \in S : ~(<<i, m>> \in OpToRel(<, Nat))
    BY WFMin, NatLessThanWellFounded, Zenon
<1>2. \A i \in S : ~(i < m)
    BY <1>1 DEF OpToRel
<1> QED
    BY <1>2

\* The numbers below n are those below m and those from m on.
LEMMA Split ==
    ASSUME NEW m \in Nat, NEW n \in Nat, m <= n
    PROVE  /\ 0..(n - 1) = 0..(m - 1) \cup m..(n - 1)
           /\ n - m \in Nat /\ n = m + (n - m)
OBVIOUS

\* The interval up to n - 1 holds the numbers below n.
LEMMA Below ==
    ASSUME NEW n \in Nat
    PROVE  \A i \in Nat : i \in 0..(n - 1) <=> i < n
OBVIOUS

\* An item of a sequence is one of its kind.
LEMMA ItemOf ==
    ASSUME NEW S, NEW s \in Seq(S), NEW k \in 1..Len(s)
    PROVE  s[k] \in S
OBVIOUS

\* When IdMax is not in s, there is a first id from n on that is not in s.
LEMMA FirstMissingIs ==
    ASSUME NEW n \in Ids, NEW s, IdMax \notin s
    PROVE  /\ FirstMissing(n, s) \in n..IdMax
           /\ FirstMissing(n, s) \notin s
           /\ \A i \in n..(FirstMissing(n, s) - 1) : i \in s
<1> DEFINE Free == {m \in n..IdMax : m \notin s}
<1>1. Free \subseteq Nat /\ IdMax \in Free
    BY BcUdpAssumption DEF Ids
<1>2. PICK m \in Free : \A i \in Free : m <= i
    BY <1>1, LeastNumber
<1>3. m \in n..IdMax /\ m \notin s /\ \A i \in n..(m - 1) : i \in s
    BY <1>1, <1>2, BcUdpAssumption DEF Ids
<1> QED
    BY <1>3 DEF FirstMissing

\* One more element makes a set larger by at most one.
LEMMA OneMore ==
    ASSUME NEW S, NEW x, IsFiniteSet(S)
    PROVE  /\ Cardinality(S) \in Nat /\ Cardinality(S \cup {x}) \in Nat
           /\ Cardinality(S \cup {x}) <= Cardinality(S) + 1
<1>1. Cardinality(S) \in Nat
    BY FS_CardinalityType
<1>2. CASE x \in S
  <2>1. S \cup {x} = S
      BY <1>2
  <2> QED
      BY <1>1, <2>1
<1>3. CASE x \notin S
    BY <1>1, <1>3, FS_AddElement
<1> QED
    BY <1>2, <1>3

\* Into the network go the packets posted; others may be lost, none is made up.
LEMMA PostAdds ==
    ASSUME NEW ps, Post(ps)
    PROVE  net' \subseteq net \cup ps
BY DEF Post

\* The ack built from what is wanted and buffered names only what is there.
LEMMA AckOfSound ==
    ASSUME NEW want \in Ids, NEW recv \in SUBSET Ids, IdMax \notin recv
    PROVE  /\ AckOf(want, recv) \in AckValue
           /\ AckOf(want, recv).also \subseteq recv
           /\ AckOf(want, recv).id # IdMax =>
                  0..AckOf(want, recv).id \subseteq 0..(want - 1) \cup recv
<1>1. CASE want = 0
    BY <1>1, BcUdpAssumption DEF AckOf, EmptyAck, AckValue, Ids
<1>2. CASE want # 0
  <2> DEFINE fm == FirstMissing(want, recv)
  <2>1. fm \in want..IdMax /\ \A i \in want..(fm - 1) : i \in recv
      BY FirstMissingIs
  <2>2. AckOf(want, recv) = [id |-> fm - 1, also |-> {i \in recv : i > fm /\ i < fm + 4 * REORDER_CAP}]
      BY <1>2 DEF AckOf
  <2> HIDE DEF fm
  <2>3. fm - 1 \in Ids /\ 0..(fm - 1) \subseteq 0..(want - 1) \cup recv
      BY <1>2, <2>1, BcUdpAssumption DEF Ids
  <2> QED
      BY <2>2, <2>3 DEF AckValue
<1> QED
    BY <1>1, <1>2

\* An ack takes away only what it names.
LEMMA UnackedNamed ==
    ASSUME NEW s \in SUBSET Ids, NEW a \in AckValue
    PROVE  /\ Unacked(s, a) \subseteq s
           /\ \A i \in s : \/ i \in Unacked(s, a)
                           \/ i \in a.also
                           \/ a.id # IdMax /\ i \in 0..a.id
<1>1. CASE a.id = IdMax
    BY <1>1 DEF Unacked
<1>2. CASE a.id # IdMax
  <2> DEFINE above == {k \in s : k > a.id}
  <2>1. Unacked(s, a) = above \/ Unacked(s, a) = above \ a.also
      BY <1>2 DEF Unacked
  <2>2. \A i \in s : i \in above \/ i \in 0..a.id
      BY BcUdpAssumption DEF AckValue, Ids
  <2> QED
      BY <1>2, <2>1, <2>2
<1> QED
    BY <1>1, <1>2

\* What draining a buffer does, when the ids in it are in range.
LEMMA DrainMoves ==
    ASSUME packets_want \in Ids, camNext \in Nat, camNext < IdMax, packets_want <= camNext,
           NEW recv \in SUBSET Ids,
           \A i \in recv : packets_want <= i /\ i < camNext,
           Drain(packets_want, recv)
    PROVE  /\ packets_want' \in packets_want..camNext
           /\ \A i \in packets_want..(packets_want' - 1) : i \in recv
           /\ received' \subseteq recv
           /\ \A i \in recv : i < packets_want' <=> i \notin received'
           /\ \A i \in received' : packets_want' < i
           /\ pending' = [k \in 1..(packets_want' - packets_want) |->
                             Payload("this", packets_want + k - 1)]
<1> DEFINE fm == FirstMissing(packets_want, recv)
<1>1. IdMax \notin recv
    BY BcUdpAssumption DEF Ids
<1>2. fm \in packets_want..IdMax /\ fm \notin recv /\ \A i \in packets_want..(fm - 1) : i \in recv
    BY <1>1, FirstMissingIs
<1> DEFINE ids == [k \in 1..(fm - packets_want) |-> packets_want + k - 1]
<1>3. ids = Drained(packets_want, recv)
    BY DEF Drained
<1> HIDE DEF fm
<1>4. fm <= camNext
    BY <1>2 DEF Ids
<1>5. fm - packets_want \in Nat /\ packets_want \in Nat /\ fm \in Nat
    BY <1>2, BcUdpAssumption DEF Ids
<1>6. Len(ids) = fm - packets_want /\ DOMAIN ids = 1..(fm - packets_want)
    BY <1>5
<1>7. packets_want' = fm
  <2>1. packets_want' = WrappingAdd(packets_want, fm - packets_want)
      BY <1>3, <1>6 DEF Drain
  <2>2. packets_want + (fm - packets_want) = fm /\ fm <= IdMax
      BY <1>2, <1>5, BcUdpAssumption DEF Ids
  <2> QED
      BY <1>5, <2>1, <2>2, NoWrap
<1>8. {ids[k] : k \in DOMAIN ids} = packets_want..(fm - 1)
  <2>1. \A k \in 1..(fm - packets_want) : ids[k] \in packets_want..(fm - 1)
      BY <1>5
  <2>2. \A i \in packets_want..(fm - 1) :
           i - packets_want + 1 \in 1..(fm - packets_want) /\ ids[i - packets_want + 1] = i
      BY <1>5
  <2> QED
      BY <1>6, <2>1, <2>2
<1>9. received' = recv \ (packets_want..(fm - 1))
    BY <1>3, <1>8 DEF Drain
<1>10. pending' = [k \in 1..(fm - packets_want) |-> Payload("this", packets_want + k - 1)]
    BY <1>3, <1>6 DEF Drain
<1>11. \A i \in recv : i \in Nat
    BY BcUdpAssumption DEF Ids
<1> QED
    BY <1>2, <1>4, <1>5, <1>7, <1>9, <1>10, <1>11
\* An arm of run() that ends by draining a buffer in range keeps the buffer bounded,
\* loses nothing it holds, and hands on the next packets in order.
LEMMA ArmDrains ==
    ASSUME IndInv, Selecting,
           NEW recv \in SUBSET Ids,
           \A i \in recv : packets_want <= i /\ i < camNext,
           Cardinality(recv) <= REORDER_CAP,
           Drain(packets_want, recv),
           UNCHANGED <<stream, got, run, camNext>>
    PROVE  /\ packets_want' \in Ids /\ packets_want <= packets_want' /\ packets_want' <= camNext
           /\ received' \subseteq Ids /\ Cardinality(received') <= REORDER_CAP
           /\ \A i \in received' : packets_want' < i /\ i < camNext
           /\ pending' \in Seq([conn : {"this"}, id : Ids])
           /\ Have' = 0..(packets_want - 1) \cup recv
           /\ InStep'
<1>1. /\ packets_want \in Nat /\ camNext \in Nat /\ camNext < IdMax /\ IdMax \in Nat
      /\ packets_want <= camNext /\ packets_want \in Ids
    BY BcUdpAssumption DEF IndInv, TypeOK, IdsCount, Ids
<1>2. /\ packets_want' \in packets_want..camNext
      /\ \A i \in packets_want..(packets_want' - 1) : i \in recv
      /\ received' \subseteq recv
      /\ \A i \in recv : i < packets_want' <=> i \notin received'
      /\ \A i \in received' : packets_want' < i
      /\ pending' = [k \in 1..(packets_want' - packets_want) |->
                        Payload("this", packets_want + k - 1)]
    BY <1>1, DrainMoves
<1>3. /\ \A i \in recv : i \in Nat
      /\ packets_want' \in Nat /\ packets_want <= packets_want' /\ packets_want' <= camNext
    BY <1>1, <1>2 DEF Ids
<1>4. Cardinality(received') <= REORDER_CAP
  <2>1. IsFiniteSet(Ids)
      BY <1>1, FS_Interval DEF Ids
  <2>2. IsFiniteSet(recv)
      BY <2>1, FS_Subset
  <2>3. /\ Cardinality(received') <= Cardinality(recv)
        /\ Cardinality(received') \in Nat /\ Cardinality(recv) \in Nat
      BY <1>2, <2>2, FS_Subset, FS_CardinalityType
  <2> QED
      BY <2>3, BcUdpAssumption
<1>5. Have' = 0..(packets_want - 1) \cup recv
  <2>1. 0..(packets_want' - 1) = 0..(packets_want - 1) \cup packets_want..(packets_want' - 1)
      BY <1>1, <1>3, Split
  <2>2. packets_want..(packets_want' - 1) \subseteq recv
      BY <1>2
  <2>3. ASSUME NEW i \in recv PROVE i \in 0..(packets_want' - 1) \cup received'
    <3>1. i < packets_want' \/ i \in received'
        BY <1>2
    <3> QED
        BY <1>3, <3>1
  <2> QED
      BY <1>2, <2>1, <2>2, <2>3 DEF Have
<1> DEFINE d == packets_want' - packets_want
<1>6. d \in Nat /\ packets_want' = packets_want + d
    BY <1>1, <1>3, Split
<1> HIDE DEF d
<1>7. pending' = [k \in 1..d |-> Payload("this", packets_want + k - 1)]
    BY <1>2 DEF d
<1>8. pending' \in Seq([conn : {"this"}, id : Ids]) /\ Len(pending') = d
  <2>1. \A k \in 1..d : Payload("this", packets_want + k - 1) \in [conn : {"this"}, id : Ids]
      BY <1>1, <1>3, <1>6 DEF Payload, Ids
  <2> QED
      BY <1>6, <1>7, <2>1
<1>9. InStep'
  <2>1. /\ Len(got) \in Nat /\ Len(stream) \in Nat
        /\ run = "select" /\ packets_want = Len(got) + Len(stream)
    <3>1. got \in Seq(Ids) /\ stream \in Seq([conn : {"this", "error"}, id : Ids])
        BY DEF IndInv, TypeOK
    <3>2. run = "select" /\ pending = <<>> /\ Len(pending) = 0
        BY DEF Selecting
    <3> QED
        BY <3>1, <3>2 DEF IndInv, InStep
  <2>2. \A k \in 1..Len(stream) :
           /\ stream[k] = Payload("this", Len(got) + k - 1)
           /\ Len(got) + k - 1 < packets_want
      BY <2>1 DEF IndInv, InStep
  <2>3. \A k \in 1..Len(stream) :
           /\ stream'[k] = Payload("this", Len(got') + k - 1)
           /\ Len(got') + k - 1 < packets_want'
    <3>1. ASSUME NEW k \in 1..Len(stream) PROVE Len(got) + k - 1 < packets_want'
      <4>1. Len(got) + k - 1 \in Nat
          BY <2>1
      <4> QED
          BY <1>1, <1>3, <2>2, <4>1
    <3> QED
        BY <2>2, <3>1
  <2>4. packets_want' = Len(got') + Len(stream') + Len(pending')
      BY <1>6, <1>8, <2>1
  <2>5. \A k \in 1..Len(pending') : pending'[k] = Payload("this", Len(got') + Len(stream') + k - 1)
      BY <1>7, <1>8, <2>1
  <2> QED
      BY <2>1, <2>3, <2>4, <2>5 DEF InStep
<1> QED
    BY <1>1, <1>2, <1>3, <1>4, <1>5, <1>8, <1>9 DEF Ids

\* What an honest packet claims stays so while the camera and the application send
\* and get more.
LEMMA HonestStays ==
    ASSUME camNext \in Nat, camNext' \in Nat, camNext <= camNext',
           packets_sent \in Nat, packets_sent' \in Nat, packets_sent <= packets_sent',
           camGot \subseteq camGot', Have \subseteq Have'
    PROVE  /\ \A p : Honest(p) => Honest(p)'
           /\ \A a : ToCamSound(a) => ToCamSound(a)'
<1>1. \A a : ToCamSound(a) => ToCamSound(a)'
    BY DEF ToCamSound
<1>2. \A a : ToAppSound(a) => ToAppSound(a)'
    BY DEF ToAppSound
<1>3. ASSUME NEW p, Honest(p) PROVE Honest(p)'
  <2>1. p \in Packet
      BY <1>3 DEF Honest
  <2>2. p.type = "data" => p.id \in Nat
      BY <2>1, BcUdpAssumption DEF Packet, Ids
  <2> QED
      BY <1>1, <1>2, <1>3, <2>2 DEF Honest
<1> QED
    BY <1>1, <1>3
-----------------------------------------------------------------------------------
(* The initial states and the steps. *)

\* IndInv holds when the tasks start.
LEMMA InitInv ==
    ASSUME Init
    PROVE  IndInv
<1>1. {0, IdMax} \subseteq Ids /\ Cardinality({}) = 0
    BY BcUdpAssumption, FS_EmptySet DEF Ids
<1>2. EmptyAck \in AckValue /\ ToCamSound(EmptyAck)
    BY <1>1 DEF EmptyAck, AckValue, ToCamSound
<1>3. ASSUME NEW p \in net PROVE Honest(p)
  <2>1. p \in Strays
      BY DEF Init
  <2>2. p \in Packet
      BY <1>1, <2>1 DEF Strays, Data, Ack, Heartbeat, Packet, AckValue
  <2> QED
      BY <2>1, <2>2 DEF Honest, Strays, Data, Ack, Heartbeat
<1>4. TypeOK
  <2>1. net \subseteq Packet
      BY <1>3 DEF Honest
  <2>2. /\ \A S : <<>> \in Seq(S)
        /\ Len(<<>>) <= StreamCap /\ Len(<<>>) <= OutCap /\ 0 <= REORDER_CAP
      BY BcUdpAssumption
  <2> QED
      BY <1>1, <1>2, <2>1, <2>2 DEF Init, TypeOK
<1>5. IdsCount
    BY BcUdpAssumption DEF Init, IdsCount
<1>6. PacketsHonest
    BY <1>2, <1>3 DEF Init, PacketsHonest
<1>7. InStep
    BY DEF Init, InStep
<1>8. NothingForgotten
    BY DEF Init, NothingForgotten
<1> QED
    BY <1>4, <1>5, <1>6, <1>7, <1>8 DEF IndInv

\* A step of the network or of the socket alone.
LEMMA NetworkStep ==
    ASSUME IndInv, sock' \in {"up", "down"}, \A p \in net' : Honest(p),
           UNCHANGED <<flowVars, sink, run, pending, stream, out, appVars, camVars>>
    PROVE  IndInv'
<1> USE DEF flowVars, appVars, camVars
<1>1. \A p : Honest(p)' <=> Honest(p)
    BY DEF Honest, ToAppSound, ToCamSound, Have
<1>2. TypeOK'
    BY DEF IndInv, TypeOK, Honest
<1>3. IdsCount'
    BY DEF IndInv, IdsCount
<1>4. PacketsHonest'
    BY <1>1 DEF IndInv, PacketsHonest, ToCamSound, Have
<1>5. InStep'
    BY DEF IndInv, InStep
<1>6. NothingForgotten'
    BY DEF IndInv, NothingForgotten
<1> QED
    BY <1>2, <1>3, <1>4, <1>5, <1>6 DEF IndInv

\* The packets each side makes are honest.
LEMMA MadeHonest ==
    ASSUME IndInv
    PROVE  /\ Honest(Ack("cam", "this", "app", ack))
           /\ Honest(Ack("app", "this", "camera", CamAckValue))
           /\ \A i \in camUnacked : Honest(Data("app", "this", "camera", i))
           /\ \A i \in sent : Honest(Data("cam", "this", "app", i))
<1>1. Honest(Ack("cam", "this", "app", ack))
    BY DEF IndInv, TypeOK, PacketsHonest, Honest, Ack, Packet
<1>2. CamAckValue \in AckValue /\ ToAppSound(CamAckValue)
  <2> DEFINE fm == FirstMissing(0, camGot)
  <2>1. 0 \in Ids /\ IdMax \notin camGot /\ IdMax \in Nat /\ camGot \subseteq Ids
      BY BcUdpAssumption DEF IndInv, TypeOK, IdsCount, Ids
  <2>2. fm \in 0..IdMax /\ \A i \in 0..(fm - 1) : i \in camGot
      BY <2>1, FirstMissingIs
  <2>3. CASE fm = 0
      BY <2>1, <2>3 DEF CamAckValue, EmptyAck, AckValue, ToAppSound, Ids
  <2>4. CASE fm # 0
    <3>1. CamAckValue = [id |-> fm - 1, also |-> {i \in camGot : i > fm}]
        BY <2>4 DEF CamAckValue
    <3> HIDE DEF fm
    <3>2. fm - 1 \in Ids
        BY <2>1, <2>2, <2>4 DEF Ids
    <3> QED
        BY <2>1, <2>2, <3>1, <3>2 DEF AckValue, ToAppSound
  <2> QED
      BY <2>3, <2>4
<1>3. Honest(Ack("app", "this", "camera", CamAckValue))
    BY <1>2 DEF Honest, Ack, Packet
<1>4. \A i \in camUnacked : Honest(Data("app", "this", "camera", i))
    BY DEF IndInv, TypeOK, IdsCount, Honest, Data, Packet
<1>5. \A i \in sent : Honest(Data("cam", "this", "app", i))
    BY DEF IndInv, TypeOK, IdsCount, Honest, Data, Packet
<1> QED
    BY <1>1, <1>3, <1>4, <1>5
\* Acks, resends, losses and the end of the socket keep IndInv: what they post is honest.
LEMMA NetActionsKeep ==
    ASSUME IndInv,
           \/ SockFails \/ AckTick \/ CamAck
           \/ \E i \in camUnacked : CamResend(i)
           \/ \E p \in net : Lose(p)
    PROVE  IndInv'
<1>1. \A p \in net : Honest(p)
    BY DEF IndInv, PacketsHonest
<1>2. sock \in {"up", "down"}
    BY DEF IndInv, TypeOK
<1>3. CASE SockFails
    BY <1>3, NetworkStep DEF SockFails, SockEnds
<1>4. CASE AckTick
  <2>1. net' \subseteq net \cup {Ack("cam", "this", "app", ack)}
      BY <1>4, PostAdds DEF AckTick
  <2>2. \A p \in net' : Honest(p)
      BY <1>1, <2>1, MadeHonest
  <2> QED
      BY <1>2, <1>4, <2>2, NetworkStep DEF AckTick, taskVars
<1>5. CASE CamAck
  <2>1. net' \subseteq net \cup {Ack("app", "this", "camera", CamAckValue)}
      BY <1>5, PostAdds DEF CamAck
  <2>2. \A p \in net' : Honest(p)
      BY <1>1, <2>1, MadeHonest
  <2> QED
      BY <1>2, <1>5, <2>2, NetworkStep DEF CamAck, taskVars
<1>6. ASSUME NEW i \in camUnacked, CamResend(i) PROVE IndInv'
  <2>1. net' \subseteq net \cup {Data("app", "this", "camera", i)}
      BY <1>6, PostAdds DEF CamResend
  <2>2. \A p \in net' : Honest(p)
      BY <1>1, <2>1, MadeHonest
  <2> QED
      BY <1>2, <1>6, <2>2, NetworkStep DEF CamResend, taskVars
<1>7. ASSUME NEW p \in net, Lose(p) PROVE IndInv'
  <2>1. \A q \in net' : Honest(q)
      BY <1>1, <1>7 DEF Lose
  <2> QED
      BY <1>2, <1>7, <2>1, NetworkStep DEF Lose, taskVars
<1> QED
    BY <1>3, <1>4, <1>5, <1>6, <1>7

\* The socket task keeps IndInv: socket_out stays within its capacity.
LEMMA SockRecvKeeps ==
    ASSUME IndInv, NEW p \in net, SockRecv(p)
    PROVE  IndInv'
<1>1. \A q \in net : Honest(q)
    BY DEF IndInv, PacketsHonest
<1>2. CASE Len(out) < OutCap
  <2>1. /\ p.to = "app" /\ sock' = sock
        /\ UNCHANGED <<flowVars, sink, run, pending, stream, appVars, camVars>>
        /\ out' = Append(out, p) /\ net' \subseteq net
      BY <1>2 DEF SockRecv
  <2>2. out \in Seq(Packet) /\ p \in Packet /\ Len(out) \in Nat
      BY <1>1 DEF IndInv, TypeOK, Honest
  <2>3. /\ out' \in Seq(Packet) /\ Len(out') = Len(out) + 1
        /\ \A k \in 1..Len(out) : out'[k] = out[k]
        /\ out'[Len(out) + 1] = p
      BY <2>1, <2>2
  <2>4. \A q : Honest(q)' <=> Honest(q)
      BY <2>1 DEF Honest, ToAppSound, ToCamSound, Have, flowVars, camVars
  <2>5. TypeOK'
    <3>1. Len(out') <= OutCap
        BY <1>2, <2>2, <2>3, BcUdpAssumption
    <3> QED
        BY <2>1, <2>3, <3>1 DEF IndInv, TypeOK, flowVars, appVars, camVars
  <2>6. IdsCount'
      BY <2>1 DEF IndInv, IdsCount, flowVars, camVars
  <2>7. PacketsHonest'
    <3>1. \A k \in 1..Len(out) : out[k].to = "app" /\ Honest(out[k])
        BY DEF IndInv, PacketsHonest
    <3>2. \A k \in 1..Len(out') : out'[k].to = "app" /\ Honest(out'[k])
      <4>1. \A k \in 1..Len(out') : k \in 1..Len(out) \/ k = Len(out) + 1
          BY <2>2, <2>3
      <4> QED
          BY <1>1, <2>1, <2>3, <3>1, <4>1
    <3>3. ToCamSound(ack)'
        BY <2>1 DEF IndInv, PacketsHonest, ToCamSound, Have, flowVars
    <3> QED
        BY <1>1, <2>1, <2>4, <3>2, <3>3 DEF PacketsHonest
  <2>8. InStep'
      BY <2>1 DEF IndInv, InStep, flowVars, appVars
  <2>9. NothingForgotten'
      BY <2>1 DEF IndInv, NothingForgotten, flowVars, camVars
  <2> QED
      BY <2>5, <2>6, <2>7, <2>8, <2>9 DEF IndInv
<1>3. CASE ~(Len(out) < OutCap)
    BY <1>3, NetworkStep DEF SockRecv, SockEnds
<1> QED
    BY <1>2, <1>3

\* A new packet of the camera keeps IndInv: the camera keeps it until it is acknowledged.
LEMMA CamSendKeeps ==
    ASSUME IndInv, CamSend
    PROVE  IndInv'
<1>1. /\ UNCHANGED <<flowVars, taskVars, appVars, camGot>>
      /\ camNext' = camNext + 1 /\ camNext < CamPackets
      /\ camUnacked' = camUnacked \cup {camNext}
    BY DEF CamSend
<1>2. /\ camNext \in Nat /\ packets_sent \in Nat /\ packets_want \in Nat
      /\ CamPackets \in Nat /\ IdMax \in Nat /\ CamPackets < IdMax
    BY BcUdpAssumption DEF IndInv, TypeOK, Ids
<1>3. /\ \A p : Honest(p) => Honest(p)'
      /\ \A a : ToCamSound(a) => ToCamSound(a)'
    BY <1>1, <1>2, HonestStays DEF Have, flowVars
<1>4. camNext \in Ids
    BY <1>1, <1>2 DEF Ids
<1>5. \A p \in net' : Honest(p)'
  <2>1. net' \subseteq net \cup {Data("app", "this", "camera", camNext)}
      BY PostAdds DEF CamSend
  <2>2. \A p : p = Data("app", "this", "camera", camNext) => Honest(p)'
      BY <1>1, <1>2, <1>4 DEF Honest, Data, Packet
  <2> QED
      BY <1>3, <2>1, <2>2 DEF IndInv, PacketsHonest
<1>6. TypeOK'
    BY <1>1, <1>2, <1>4, <1>5 DEF IndInv, TypeOK, Honest, flowVars, taskVars, appVars
<1>7. IdsCount'
  <2>1. \A i \in received : i < camNext + 1
      BY <1>2 DEF IndInv, TypeOK, IdsCount, Ids
  <2>2. \A i \in camUnacked' : i < camNext + 1
      BY <1>1, <1>2 DEF IndInv, TypeOK, IdsCount, Ids
  <2>3. packets_want <= camNext + 1 /\ camNext + 1 <= CamPackets
      BY <1>1, <1>2 DEF IndInv, IdsCount
  <2> QED
      BY <1>1, <2>1, <2>2, <2>3 DEF IndInv, IdsCount, flowVars, taskVars
<1>8. PacketsHonest'
    BY <1>1, <1>3, <1>5 DEF IndInv, PacketsHonest, flowVars, taskVars
<1>9. InStep'
  <2>1. UNCHANGED <<packets_want, stream, run, pending, got>>
      BY <1>1 DEF flowVars, taskVars, appVars
  <2> QED
      BY <2>1 DEF IndInv, InStep
<1>10. NothingForgotten'
  <2>1. \A i \in 0..(camNext' - 1) : i = camNext \/ i \in 0..(camNext - 1)
      BY <1>1, <1>2
  <2> QED
      BY <1>1, <2>1 DEF IndInv, NothingForgotten, flowVars
<1> QED
    BY <1>6, <1>7, <1>8, <1>9, <1>10 DEF IndInv

\* The camera drops only what an honest ack names.
LEMMA CamRecvKeeps ==
    ASSUME IndInv, NEW p \in net, CamRecv(p)
    PROVE  IndInv'
<1>1. /\ UNCHANGED <<flowVars, taskVars, appVars, camNext>>
      /\ net' \subseteq net /\ p.to = "cam"
      /\ camGot' = IF p.type = "data" THEN camGot \cup {p.id} ELSE camGot
      /\ camUnacked' = IF p.type = "ack" THEN Unacked(camUnacked, p.ack) ELSE camUnacked
    BY DEF CamRecv
<1>2. camNext \in Nat /\ packets_sent \in Nat /\ camUnacked \subseteq Ids /\ Honest(p)
    BY BcUdpAssumption DEF IndInv, TypeOK, PacketsHonest, Ids
<1>3. /\ \A q : Honest(q) => Honest(q)'
      /\ \A a : ToCamSound(a) => ToCamSound(a)'
    BY <1>1, <1>2, HonestStays DEF Have, flowVars
<1>4. camGot \subseteq camGot' /\ camGot' \subseteq Ids /\ \A i \in camGot' : i < packets_sent
    BY <1>1, <1>2 DEF IndInv, TypeOK, IdsCount, Honest, Packet
<1>5. /\ camUnacked' \subseteq camUnacked
      /\ \A i \in camUnacked : i \in camUnacked' \/ i \in Have
  <2>1. CASE p.type = "ack"
    <3>1. p.ack \in AckValue /\ ToCamSound(p.ack)
        BY <1>1, <1>2, <2>1 DEF Honest, Packet
    <3>2. camUnacked' = Unacked(camUnacked, p.ack)
        BY <1>1, <2>1
    <3> QED
        BY <1>2, <3>1, <3>2, UnackedNamed DEF ToCamSound
  <2> QED
      BY <1>1, <2>1
<1>6. TypeOK'
    BY <1>1, <1>4, <1>5 DEF IndInv, TypeOK, flowVars, taskVars, appVars
<1>7. IdsCount'
    BY <1>1, <1>4, <1>5 DEF IndInv, IdsCount, flowVars, taskVars
<1>8. PacketsHonest'
    BY <1>1, <1>3 DEF IndInv, PacketsHonest, flowVars, taskVars
<1>9. InStep'
    BY <1>1 DEF IndInv, InStep, flowVars, taskVars, appVars
<1>10. NothingForgotten'
  <2>1. \A i \in Have : i \in received \/ i < packets_want
      BY DEF Have, IndInv, TypeOK, Ids
  <2> QED
      BY <1>1, <1>4, <1>5, <2>1 DEF IndInv, NothingForgotten, flowVars
<1> QED
    BY <1>6, <1>7, <1>8, <1>9, <1>10 DEF IndInv
\* A step of the tasks that only hands payloads on.
LEMMA HandingOn ==
    ASSUME IndInv,
           UNCHANGED <<flowVars, sink, out, camVars>>,
           net' \subseteq net, sock' \in {"up", "down"},
           run' \in {"select", "failing", "done"},
           pending' \in Seq([conn : {"this"}, id : Ids]),
           stream' \in Seq([conn : {"this", "error"}, id : Ids]), Len(stream') <= StreamCap,
           got' \in Seq(Ids), closed' \in BOOLEAN,
           InStep'
    PROVE  IndInv'
<1> USE DEF flowVars, camVars
<1>1. \A p : Honest(p)' <=> Honest(p)
    BY DEF Honest, ToAppSound, ToCamSound, Have
<1>2. TypeOK'
  <2>1. net' \subseteq Packet
      BY DEF IndInv, TypeOK
  <2> QED
      BY <2>1 DEF IndInv, TypeOK
<1>3. IdsCount'
    BY DEF IndInv, IdsCount
<1>4. PacketsHonest'
    BY <1>1 DEF IndInv, PacketsHonest, ToCamSound, Have
<1>5. NothingForgotten'
    BY DEF IndInv, NothingForgotten
<1> QED
    BY <1>2, <1>3, <1>4, <1>5 DEF IndInv

\* Feeding a drained packet keeps the stream in step.
LEMMA RunFeedKeeps ==
    ASSUME IndInv, RunFeed
    PROVE  IndInv'
<1>1. /\ pending \in Seq([conn : {"this"}, id : Ids]) /\ pending # <<>>
      /\ stream \in Seq([conn : {"this", "error"}, id : Ids]) /\ got \in Seq(Ids)
      /\ Len(stream) < StreamCap /\ StreamCap \in Nat
    BY BcUdpAssumption DEF RunFeed, IndInv, TypeOK
<1>2. run = "select" /\ run' = "select" /\ got' = got /\ packets_want' = packets_want
    BY DEF RunFeed, appVars, flowVars
<1>3. /\ pending' = Tail(pending) /\ stream' = Append(stream, pending[1])
    BY <1>1 DEF RunFeed
<1>4. /\ Len(got) \in Nat /\ Len(stream) \in Nat /\ Len(pending) \in Nat /\ Len(pending) >= 1
      /\ pending' \in Seq([conn : {"this"}, id : Ids]) /\ Len(pending') = Len(pending) - 1
      /\ \A k \in 1..Len(pending') : pending'[k] = pending[k + 1]
    BY <1>1, <1>3
<1>5. packets_want = Len(got) + Len(stream) + Len(pending)
    BY <1>2 DEF IndInv, InStep
<1>6. \A k \in 1..Len(pending) : pending[k] = Payload("this", Len(got) + Len(stream) + k - 1)
    BY <1>2 DEF IndInv, InStep
<1>7. pending[1] = Payload("this", Len(got) + Len(stream))
    BY <1>4, <1>6
<1>8. /\ stream' \in Seq([conn : {"this", "error"}, id : Ids]) /\ Len(stream') = Len(stream) + 1
      /\ \A k \in 1..Len(stream) : stream'[k] = stream[k]
      /\ stream'[Len(stream) + 1] = pending[1]
  <2>1. pending[1] \in [conn : {"this", "error"}, id : Ids]
    <3>1. pending[1] \in [conn : {"this"}, id : Ids]
      <4>1. 1 \in 1..Len(pending)
          BY <1>4
      <4> QED
          BY <1>1, <4>1, ItemOf
    <3> QED
        BY <3>1
  <2> QED
      BY <1>1, <1>3, <2>1
<1>9. InStep'
  <2>1. ASSUME NEW k \in 1..Len(stream')
        PROVE  stream'[k] = Payload("this", Len(got) + k - 1) /\ Len(got) + k - 1 < packets_want
    <3>1. CASE k = Len(stream) + 1
        BY <1>4, <1>5, <1>7, <1>8, <3>1
    <3>2. CASE k # Len(stream) + 1
      <4>1. k \in 1..Len(stream)
          BY <1>4, <1>8, <3>2
      <4> QED
          BY <1>2, <1>8, <4>1 DEF IndInv, InStep
    <3> QED
        BY <3>1, <3>2
  <2>2. packets_want' = Len(got') + Len(stream') + Len(pending')
      BY <1>2, <1>4, <1>5, <1>8
  <2>3. ASSUME NEW k \in 1..Len(pending')
        PROVE  pending'[k] = Payload("this", Len(got') + Len(stream') + k - 1)
    <3>1. k + 1 \in 1..Len(pending) /\ Len(got) + Len(stream) + (k + 1) - 1 = Len(got') + Len(stream') + k - 1
        BY <1>2, <1>4, <1>8
    <3> QED
        BY <1>4, <1>6, <3>1
  <2> QED
      BY <1>2, <2>1, <2>2, <2>3 DEF InStep
<1>10. Len(stream') <= StreamCap
    BY <1>1, <1>4, <1>8
<1>11. /\ UNCHANGED <<flowVars, sink, out, camVars>>
       /\ net' \subseteq net /\ sock' \in {"up", "down"} /\ run' \in {"select", "failing", "done"}
       /\ got' \in Seq(Ids) /\ closed' \in BOOLEAN
    BY <1>1, <1>2 DEF RunFeed, IndInv, TypeOK, appVars
<1> QED
    BY <1>4, <1>8, <1>9, <1>10, <1>11, HandingOn

\* The payload task fails only with nothing left to feed.
LEMMA RunErrorKeeps ==
    ASSUME IndInv, RunError
    PROVE  IndInv'
<1>1. /\ UNCHANGED <<flowVars, sink, pending, stream, out, sock, appVars, net, camVars>>
      /\ run = "select" /\ pending = <<>> /\ run' = "failing"
    BY DEF RunError, Selecting
<1>2. InStep'
    BY <1>1 DEF IndInv, InStep, flowVars, appVars
<1> QED
    BY <1>1, <1>2, HandingOn DEF IndInv, TypeOK, appVars

\* The error becomes the last item of the stream.
LEMMA RunFailsKeeps ==
    ASSUME IndInv, RunFails
    PROVE  IndInv'
<1>1. /\ UNCHANGED <<flowVars, sink, pending, out, sock, appVars, net, camVars>>
      /\ run = "failing" /\ run' = "done" /\ Len(stream) < StreamCap
      /\ stream' = Append(stream, Err)
    BY DEF RunFails
<1>2. Err \in [conn : {"this", "error"}, id : Ids]
    BY BcUdpAssumption DEF Err, Ids
<1>3. stream \in Seq([conn : {"this", "error"}, id : Ids]) /\ StreamCap \in Nat
    BY BcUdpAssumption DEF IndInv, TypeOK
<1>4. /\ stream' \in Seq([conn : {"this", "error"}, id : Ids]) /\ Len(stream') = Len(stream) + 1
      /\ \A k \in 1..Len(stream) : stream'[k] = stream[k]
      /\ stream'[Len(stream) + 1] = Err /\ Len(stream') <= StreamCap
    BY <1>1, <1>2, <1>3
<1>5. InStep'
  <2>1. \A k \in 1..Len(stream) :
           stream[k] = Payload("this", Len(got) + k - 1) /\ Len(got) + k - 1 < packets_want
      BY <1>1 DEF IndInv, InStep
  <2>2. \A k \in 1..Len(stream') : k = Len(stream') \/ k \in 1..Len(stream)
      BY <1>3, <1>4
  <2>3. \A k \in 1..Len(stream') :
          \/ stream'[k] = Err /\ k = Len(stream')
          \/ stream'[k] = Payload("this", Len(got) + k - 1) /\ Len(got) + k - 1 < packets_want
      BY <1>4, <2>1, <2>2
  <2>4. got' = got /\ packets_want' = packets_want
      BY <1>1 DEF flowVars, appVars
  <2> QED
      BY <1>1, <2>3, <2>4 DEF InStep
<1> QED
    BY <1>1, <1>4, <1>5, HandingOn DEF IndInv, TypeOK, appVars

\* A payload of the application leaves room for its chunks below IdMax.
LEMMA AppWriteKeeps ==
    ASSUME IndInv, AppWrite
    PROVE  IndInv'
<1>1. UNCHANGED <<flowVars, run, pending, stream, out, sock, appVars, net, camVars>>
    BY DEF AppWrite
<1>2. PICK chunks \in 1..2 : packets_sent + chunks <= AppChunks /\ sink' = <<chunks>>
    BY DEF AppWrite
<1>3. sink' \in Seq(1..2) /\ Len(sink') = 1 /\ sink'[1] = chunks
    BY <1>2
<1>4. \A p : Honest(p)' <=> Honest(p)
    BY <1>1 DEF Honest, ToAppSound, ToCamSound, Have, flowVars, camVars
<1>5. TypeOK'
    BY <1>1, <1>3 DEF IndInv, TypeOK, flowVars, appVars, camVars
<1>6. IdsCount'
    BY <1>1, <1>2, <1>3 DEF IndInv, IdsCount, flowVars, camVars
<1>7. PacketsHonest'
    BY <1>1, <1>4 DEF IndInv, PacketsHonest, ToCamSound, Have, flowVars
<1>8. InStep'
    BY <1>1 DEF IndInv, InStep, flowVars, appVars
<1>9. NothingForgotten'
    BY <1>1 DEF IndInv, NothingForgotten, flowVars, camVars
<1> QED
    BY <1>5, <1>6, <1>7, <1>8, <1>9 DEF IndInv

\* Reading moves an item from the head of the stream to what has been read.
LEMMA AppReadKeeps ==
    ASSUME IndInv, AppRead
    PROVE  IndInv'
<1>1. /\ UNCHANGED <<flowVars, sink, run, pending, out, sock, net, camVars>>
      /\ stream # <<>> /\ stream' = Tail(stream)
    BY DEF AppRead
<1>2. stream \in Seq([conn : {"this", "error"}, id : Ids]) /\ got \in Seq(Ids) /\ StreamCap \in Nat
    BY BcUdpAssumption DEF IndInv, TypeOK
<1>3. /\ Len(stream) \in Nat /\ Len(stream) >= 1 /\ Len(got) \in Nat
      /\ stream' \in Seq([conn : {"this", "error"}, id : Ids]) /\ Len(stream') = Len(stream) - 1
      /\ \A k \in 1..Len(stream') : stream'[k] = stream[k + 1]
      /\ Head(stream) = stream[1] /\ 1 \in 1..Len(stream)
    BY <1>1, <1>2
<1>4. Len(stream') <= StreamCap
    BY <1>2, <1>3 DEF IndInv, TypeOK
<1>5. packets_want' = packets_want /\ run' = run /\ pending' = pending
    BY <1>1 DEF flowVars
<1>6. CASE Head(stream) = Err
  <2>1. closed' = TRUE /\ got' = got
      BY <1>6 DEF AppRead
  <2>2. Len(stream) = 1 /\ run = "done"
    <3>1. \A n : Err # Payload("this", n)
        BY DEF Err, Payload
    <3>2. \/ stream[1] = Err /\ 1 = Len(stream) /\ run = "done"
          \/ stream[1] = Payload("this", Len(got) + 1 - 1)
        BY <1>3 DEF IndInv, InStep
    <3> QED
        BY <1>3, <1>6, <3>1, <3>2
  <2>3. InStep'
      BY <1>3, <1>5, <2>2 DEF InStep
  <2> QED
      BY <1>1, <1>2, <1>3, <1>4, <2>1, <2>3, HandingOn DEF IndInv, TypeOK
<1>7. CASE Head(stream) # Err
  <2>1. closed' = closed /\ got' = Append(got, stream[1].id)
      BY <1>3, <1>7 DEF AppRead
  <2>2. stream[1] \in [conn : {"this", "error"}, id : Ids]
      BY <1>2, <1>3, ItemOf
  <2>3. got' \in Seq(Ids) /\ Len(got') = Len(got) + 1
      BY <1>2, <2>1, <2>2
  <2>4. ASSUME NEW k \in 1..Len(stream')
        PROVE  \/ stream'[k] = Err /\ k = Len(stream') /\ run = "done"
               \/ stream'[k] = Payload("this", Len(got') + k - 1) /\ Len(got') + k - 1 < packets_want
    <3>1. k + 1 \in 1..Len(stream) /\ Len(got) + (k + 1) - 1 = Len(got') + k - 1
        BY <1>3, <2>3
    <3>2. \/ stream[k + 1] = Err /\ k + 1 = Len(stream) /\ run = "done"
          \/ /\ stream[k + 1] = Payload("this", Len(got) + (k + 1) - 1)
             /\ Len(got) + (k + 1) - 1 < packets_want
        BY <3>1 DEF IndInv, InStep
    <3>3. k + 1 = Len(stream) => k = Len(stream')
        BY <1>3, <3>1
    <3>4. stream'[k] = stream[k + 1]
        BY <1>3
    <3> QED
        BY <3>1, <3>2, <3>3, <3>4
  <2>5. Len(got') + Len(stream') = Len(got) + Len(stream)
      BY <1>3, <2>3
  <2>6. InStep'
      BY <1>5, <2>4, <2>5 DEF IndInv, InStep
  <2> QED
      BY <1>1, <1>3, <1>4, <2>1, <2>3, <2>6, HandingOn DEF IndInv, TypeOK
<1> QED
    BY <1>6, <1>7

\* Dropping the source keeps IndInv.
LEMMA AppDropKeeps ==
    ASSUME IndInv, AppDrop
    PROVE  IndInv'
<1>1. /\ UNCHANGED <<flowVars, sink, pending, stream, out, got, camVars>>
      /\ closed' = TRUE /\ run' = "done" /\ sock' = "down" /\ net' = {}
    BY DEF AppDrop, SockEnds
<1>2. InStep'
    BY <1>1 DEF IndInv, InStep, flowVars
<1> QED
    BY <1>1, <1>2, HandingOn DEF IndInv, TypeOK
\* A step of an arm of run(), whatever it sends, gets and acknowledges before it drains.
LEMMA ArmKeeps ==
    ASSUME IndInv, Selecting,
           NEW recv \in SUBSET Ids, received \subseteq recv,
           \A i \in recv : packets_want <= i /\ i < camNext,
           Cardinality(recv) <= REORDER_CAP,
           Drain(packets_want, recv),
           UNCHANGED <<run, stream, sock, appVars, camVars>>,
           packets_sent' \in Nat, packets_sent <= packets_sent', packets_sent' <= AppChunks,
           sent' \subseteq Ids, \A i \in sent' : i < packets_sent',
           \A i \in 0..(packets_sent' - 1) : i \in sent' \cup camGot,
           sink' \in Seq(1..2), Len(sink') <= 1,
           sink' # <<>> => packets_sent' + sink'[1] <= AppChunks,
           ack' \in AckValue, ack'.also \subseteq 0..(packets_want - 1) \cup recv,
           ack'.id # IdMax => 0..ack'.id \subseteq 0..(packets_want - 1) \cup recv,
           out' \in Seq(Packet), Len(out') <= OutCap,
           \A k \in 1..Len(out') : out'[k].to = "app" /\ Honest(out'[k]),
           \A p \in net' : \/ Honest(p)
                           \/ \E i \in Ids : i < packets_sent' /\ p = Data("cam", "this", "app", i)
    PROVE  IndInv'
<1>1. /\ packets_want' \in Ids /\ packets_want <= packets_want' /\ packets_want' <= camNext
      /\ received' \subseteq Ids /\ Cardinality(received') <= REORDER_CAP
      /\ \A i \in received' : packets_want' < i /\ i < camNext
      /\ pending' \in Seq([conn : {"this"}, id : Ids])
      /\ Have' = 0..(packets_want - 1) \cup recv
      /\ InStep'
    BY ArmDrains DEF appVars, camVars
<1>2. /\ camNext \in Nat /\ packets_sent \in Nat /\ packets_want \in Nat
      /\ IdMax \in Nat /\ AppChunks \in Nat /\ AppChunks < IdMax
    BY BcUdpAssumption DEF IndInv, TypeOK, Ids
<1>3. Have \subseteq Have'
    BY <1>1 DEF Have
<1>4. \A p : Honest(p) => Honest(p)'
  <2>1. camNext' = camNext /\ camGot' = camGot /\ camNext <= camNext'
      BY <1>2 DEF camVars
  <2> QED
      BY <1>2, <1>3, <2>1, HonestStays
<1>5. \A p \in net' : Honest(p)'
  <2>1. ASSUME NEW p, NEW i \in Ids, i < packets_sent', p = Data("cam", "this", "app", i)
        PROVE  Honest(p)'
      BY <2>1 DEF Honest, Data, Packet
  <2> QED
      BY <1>4, <2>1
<1>6. TypeOK'
  <2>1. packets_sent' \in Ids
      BY <1>2 DEF Ids
  <2>2. net' \subseteq Packet
      BY <1>5 DEF Honest
  <2> QED
      BY <1>1, <2>1, <2>2 DEF IndInv, TypeOK, appVars, camVars
<1>7. IdsCount'
  <2>1. \A i \in camGot : i \in Nat /\ i < packets_sent
      BY DEF IndInv, TypeOK, IdsCount, Ids
  <2>2. \A i \in camGot : i < packets_sent'
      BY <1>2, <2>1
  <2> QED
      BY <1>1, <2>2 DEF IndInv, IdsCount, camVars
<1>8. PacketsHonest'
  <2>1. ToCamSound(ack)'
      BY <1>1 DEF ToCamSound
  <2> QED
      BY <1>4, <1>5, <2>1 DEF PacketsHonest
<1>9. NothingForgotten'
  <2>1. \A i \in Have : i \in Have'
      BY <1>3
  <2>2. \A i \in Nat : i \in Have' => i \in received' \/ i < packets_want'
    <3>1. packets_want' \in Nat
        BY <1>1, <1>2 DEF Ids
    <3> QED
        BY <3>1, Below DEF Have
  <2>3. \A i \in Nat : i \in received \/ i < packets_want => i \in Have
      BY <1>2 DEF Have
  <2>4. \A i \in 0..(camNext - 1) : i \in camUnacked \cup received' \/ i < packets_want'
    <3>1. \A i \in 0..(camNext - 1) : i \in Nat
        BY <1>2
    <3> QED
        BY <2>1, <2>2, <2>3, <3>1 DEF IndInv, NothingForgotten
  <2> QED
      BY <2>4 DEF NothingForgotten, camVars
<1> QED
    BY <1>1, <1>6, <1>7, <1>8, <1>9 DEF IndInv

\* The reorder buffer as it is satisfies what an arm needs.
LEMMA BufferReady ==
    ASSUME IndInv
    PROVE  /\ received \in SUBSET Ids /\ Cardinality(received) <= REORDER_CAP
           /\ \A i \in received : packets_want <= i /\ i < camNext
           /\ IdMax \notin received /\ packets_want \in Ids
<1>1. /\ received \subseteq Ids /\ packets_want \in Ids /\ camNext \in Nat
      /\ Cardinality(received) <= REORDER_CAP
    BY DEF IndInv, TypeOK
<1>2. \A i \in received : packets_want < i /\ i < camNext
    BY DEF IndInv, IdsCount
<1>3. camNext < IdMax /\ IdMax \in Nat
    BY <1>1, BcUdpAssumption DEF IndInv, IdsCount
<1> QED
    BY <1>1, <1>2, <1>3 DEF Ids

\* Resending keeps IndInv: what is sent again was sent before.
LEMMA RunResendKeeps ==
    ASSUME IndInv, RunResend
    PROVE  IndInv'
<1>1. /\ Selecting /\ Post({Data("cam", "this", "app", i) : i \in sent})
      /\ ack' = AckOf(packets_want, received) /\ Drain(packets_want, received)
      /\ UNCHANGED <<packets_sent, sent, sink, run, stream, out, sock, appVars, camVars>>
    BY DEF RunResend
<1>2. \A p \in net' : Honest(p)
  <2>1. net' \subseteq net \cup {Data("cam", "this", "app", i) : i \in sent}
      BY <1>1, PostAdds
  <2> QED
      BY <2>1, MadeHonest DEF IndInv, PacketsHonest
<1>3. /\ ack' \in AckValue /\ ack'.also \subseteq 0..(packets_want - 1) \cup received
      /\ ack'.id # IdMax => 0..ack'.id \subseteq 0..(packets_want - 1) \cup received
    BY <1>1, BufferReady, AckOfSound
<1>4. /\ packets_sent' \in Nat /\ packets_sent <= packets_sent' /\ packets_sent' <= AppChunks
      /\ sent' \subseteq Ids /\ (\A i \in sent' : i < packets_sent')
      /\ \A i \in 0..(packets_sent' - 1) : i \in sent' \cup camGot
  <2>1. packets_sent \in Nat
      BY DEF IndInv, TypeOK, Ids
  <2> QED
      BY <1>1, <2>1 DEF IndInv, TypeOK, IdsCount, NothingForgotten
<1>5. /\ sink' \in Seq(1..2) /\ Len(sink') <= 1
      /\ sink' # <<>> => packets_sent' + sink'[1] <= AppChunks
    BY <1>1 DEF IndInv, TypeOK, IdsCount
<1>6. /\ out' \in Seq(Packet) /\ Len(out') <= OutCap
      /\ \A k \in 1..Len(out') : out'[k].to = "app" /\ Honest(out'[k])
    BY <1>1 DEF IndInv, TypeOK, PacketsHonest
<1> QED
    BY <1>1, <1>2, <1>3, <1>4, <1>5, <1>6, BufferReady, ArmKeeps
\* Sending keeps IndInv: every chunk has an id of its own and is kept in sent.
LEMMA RunSendKeeps ==
    ASSUME IndInv, RunSend
    PROVE  IndInv'
<1> DEFINE n == sink[1]
           ids == {WrappingAdd(packets_sent, k) : k \in 0..(n - 1)}
<1>1. /\ Selecting /\ sink # <<>> /\ sink' = Tail(sink)
      /\ sent' = sent \cup ids /\ Post({Data("cam", "this", "app", i) : i \in ids})
      /\ packets_sent' = WrappingAdd(packets_sent, n)
      /\ Drain(packets_want, received)
      /\ UNCHANGED <<ack, run, stream, out, sock, appVars, camVars>>
  <2>1. Head(sink) = n
      BY DEF IndInv, TypeOK, RunSend
  <2> QED
      BY <2>1 DEF RunSend
<1>2. sink \in Seq(1..2) /\ Len(sink) = 1 /\ n \in 1..2 /\ packets_sent + n <= AppChunks
  <2>1. sink \in Seq(1..2) /\ Len(sink) <= 1
      BY DEF IndInv, TypeOK, IdsCount
  <2>2. Len(sink) = 1
      BY <1>1, <2>1
  <2>3. n \in 1..2
      BY <2>1, <2>2
  <2> QED
      BY <1>1, <2>1, <2>2, <2>3 DEF IndInv, IdsCount
<1>3. /\ packets_sent \in Nat /\ AppChunks \in Nat /\ IdMax \in Nat /\ AppChunks < IdMax
      /\ n \in Nat
    BY <1>2, BcUdpAssumption DEF IndInv, TypeOK, Ids
<1> HIDE DEF n
<1>4. \A k \in 0..n : WrappingAdd(packets_sent, k) = packets_sent + k
  <2> SUFFICES ASSUME NEW k \in 0..n PROVE WrappingAdd(packets_sent, k) = packets_sent + k
      OBVIOUS
  <2>1. k \in Nat /\ packets_sent + k <= IdMax
      BY <1>2, <1>3
  <2> QED
      BY <1>3, <2>1, NoWrap
<1>5. packets_sent' = packets_sent + n
    BY <1>1, <1>3, <1>4
<1>6. ids = packets_sent..(packets_sent + n - 1)
  <2>1. ids = {packets_sent + k : k \in 0..(n - 1)}
      BY <1>3, <1>4
  <2>2. \A i \in packets_sent..(packets_sent + n - 1) :
           i - packets_sent \in 0..(n - 1) /\ packets_sent + (i - packets_sent) = i
      BY <1>3
  <2>3. \A k \in 0..(n - 1) : packets_sent + k \in packets_sent..(packets_sent + n - 1)
      BY <1>3
  <2> HIDE DEF ids
  <2> QED
      BY <2>1, <2>2, <2>3
<1> HIDE DEF ids
<1>7. \A i \in ids : i \in Ids /\ i < packets_sent'
    BY <1>2, <1>3, <1>5, <1>6 DEF Ids
<1>8. ASSUME NEW p \in net'
      PROVE  \/ Honest(p)
             \/ \E i \in Ids : i < packets_sent' /\ p = Data("cam", "this", "app", i)
  <2>1. p \in net \/ \E i \in ids : p = Data("cam", "this", "app", i)
      BY <1>1, PostAdds
  <2> QED
      BY <1>7, <2>1 DEF IndInv, PacketsHonest
<1>9. /\ packets_sent' \in Nat /\ packets_sent <= packets_sent' /\ packets_sent' <= AppChunks
    BY <1>2, <1>3, <1>5
<1>10. /\ sent' \subseteq Ids /\ (\A i \in sent' : i < packets_sent')
       /\ \A i \in 0..(packets_sent' - 1) : i \in sent' \cup camGot
  <2>1. \A i \in sent : i \in Ids /\ i < packets_sent
      BY DEF IndInv, TypeOK, IdsCount
  <2>2. \A i \in sent : i < packets_sent'
      BY <1>3, <1>9, <2>1 DEF Ids
  <2>3. \A i \in 0..(packets_sent' - 1) : i \in 0..(packets_sent - 1) \/ i \in ids
      BY <1>3, <1>5, <1>6
  <2> QED
      BY <1>1, <1>7, <2>1, <2>2, <2>3 DEF IndInv, NothingForgotten
<1>11. sink' = <<>>
    BY <1>1, <1>2
<1>12. /\ sink' \in Seq(1..2) /\ Len(sink') <= 1
       /\ sink' # <<>> => packets_sent' + sink'[1] <= AppChunks
    BY <1>11
<1>13. /\ ack' \in AckValue /\ ack'.also \subseteq 0..(packets_want - 1) \cup received
       /\ ack'.id # IdMax => 0..ack'.id \subseteq 0..(packets_want - 1) \cup received
    BY <1>1 DEF IndInv, TypeOK, PacketsHonest, ToCamSound, Have
<1>14. /\ out' \in Seq(Packet) /\ Len(out') <= OutCap
       /\ \A k \in 1..Len(out') : out'[k].to = "app" /\ Honest(out'[k])
    BY <1>1 DEF IndInv, TypeOK, PacketsHonest
<1> QED
    BY <1>1, <1>8, <1>9, <1>10, <1>12, <1>13, <1>14, BufferReady, ArmKeeps

\* Receiving keeps IndInv: the buffer is bounded, the ack names what is there, and
\* sent loses only what the camera has got.
LEMMA RunRecvKeeps ==
    ASSUME IndInv, RunRecv
    PROVE  IndInv'
<1> DEFINE p == Head(out)
           mine == p.addr = "camera"
           taken == mine /\ p.type = "data" /\ Accepts(p.conn, p.id)
           recv == IF taken THEN received \cup {p.id} ELSE received
<1>1. /\ Selecting /\ out # <<>> /\ out' = Tail(out)
      /\ sent' = IF mine /\ p.type = "ack" /\ p.conn = "this" THEN Unacked(sent, p.ack) ELSE sent
      /\ ack' = IF taken THEN AckOf(packets_want, recv) ELSE ack
      /\ Drain(packets_want, recv)
      /\ UNCHANGED <<packets_sent, sink, run, stream, sock, appVars, net, camVars>>
    BY DEF RunRecv
<1>2. out \in Seq(Packet) /\ Len(out) <= OutCap /\ OutCap \in Nat
    BY BcUdpAssumption DEF IndInv, TypeOK
<1>3. /\ p = out[1] /\ 1 \in 1..Len(out) /\ Len(out) \in Nat
      /\ out' \in Seq(Packet) /\ Len(out') = Len(out) - 1
      /\ \A k \in 1..Len(out') : out'[k] = out[k + 1] /\ k + 1 \in 1..Len(out)
    BY <1>1, <1>2
<1>4. Honest(p) /\ p.to = "app" /\ p \in Packet
    BY <1>3 DEF IndInv, PacketsHonest, Honest
<1> HIDE DEF p
<1>5. /\ packets_want \in Ids /\ packets_want \in Nat /\ packets_want <= camNext
      /\ camNext \in Nat /\ camNext < IdMax /\ IdMax \in Nat
    BY BcUdpAssumption DEF IndInv, TypeOK, IdsCount, Ids
<1>6. /\ recv \in SUBSET Ids /\ received \subseteq recv
      /\ \A i \in recv : packets_want <= i /\ i < camNext
      /\ Cardinality(recv) <= REORDER_CAP
  <2>1. CASE taken
    <3>1. /\ p.id \in Ids /\ packets_want <= p.id /\ p.id < camNext
          /\ Cardinality(received) < REORDER_CAP
        BY <1>4, <1>5, <2>1 DEF Accepts, Honest, Packet, Ids
    <3>2. IsFiniteSet(received)
      <4>1. IsFiniteSet(Ids)
          BY <1>5, FS_Interval DEF Ids
      <4> QED
          BY <4>1, BufferReady, FS_Subset
    <3>3. /\ Cardinality(received) \in Nat /\ Cardinality(received \cup {p.id}) \in Nat
          /\ Cardinality(received \cup {p.id}) <= Cardinality(received) + 1
        BY <3>2, OneMore
    <3>4. Cardinality(received \cup {p.id}) <= REORDER_CAP
        BY <3>1, <3>3, BcUdpAssumption
    <3> QED
        BY <2>1, <3>1, <3>4, BufferReady
  <2>2. CASE ~taken
      BY <2>2, BufferReady
  <2> QED
      BY <2>1, <2>2
<1>7. /\ ack' \in AckValue /\ ack'.also \subseteq 0..(packets_want - 1) \cup recv
      /\ ack'.id # IdMax => 0..ack'.id \subseteq 0..(packets_want - 1) \cup recv
  <2>1. CASE taken
    <3>1. IdMax \notin recv
        BY <1>5, <1>6
    <3>2. ack' = AckOf(packets_want, recv)
        BY <1>1, <2>1
    <3> HIDE DEF recv
    <3> QED
        BY <1>5, <1>6, <3>1, <3>2, AckOfSound
  <2>2. CASE ~taken
      BY <1>1, <2>2 DEF IndInv, TypeOK, PacketsHonest, ToCamSound, Have
  <2> QED
      BY <2>1, <2>2
<1>8. /\ sent' \subseteq sent
      /\ \A i \in sent : i \in sent' \cup camGot
  <2>1. CASE mine /\ p.type = "ack" /\ p.conn = "this"
    <3>1. p.ack \in AckValue /\ ToAppSound(p.ack)
        BY <1>4, <2>1 DEF Honest, Packet
    <3>2. sent' = Unacked(sent, p.ack) /\ sent \in SUBSET Ids
        BY <1>1, <2>1 DEF IndInv, TypeOK
    <3> QED
        BY <3>1, <3>2, UnackedNamed DEF ToAppSound
  <2>2. CASE ~(mine /\ p.type = "ack" /\ p.conn = "this")
      BY <1>1, <2>2
  <2> QED
      BY <2>1, <2>2
<1>9. /\ packets_sent' \in Nat /\ packets_sent <= packets_sent' /\ packets_sent' <= AppChunks
      /\ sent' \subseteq Ids /\ (\A i \in sent' : i < packets_sent')
      /\ \A i \in 0..(packets_sent' - 1) : i \in sent' \cup camGot
  <2>1. packets_sent \in Nat /\ packets_sent' = packets_sent
      BY <1>1 DEF IndInv, TypeOK, Ids
  <2> QED
      BY <1>8, <2>1 DEF IndInv, TypeOK, IdsCount, NothingForgotten
<1>10. /\ sink' \in Seq(1..2) /\ Len(sink') <= 1
       /\ sink' # <<>> => packets_sent' + sink'[1] <= AppChunks
    BY <1>1 DEF IndInv, TypeOK, IdsCount
<1>11. /\ out' \in Seq(Packet) /\ Len(out') <= OutCap
       /\ \A k \in 1..Len(out') : out'[k].to = "app" /\ Honest(out'[k])
  <2>1. Len(out') <= OutCap
      BY <1>2, <1>3
  <2>2. \A k \in 1..Len(out) : out[k].to = "app" /\ Honest(out[k])
      BY DEF IndInv, PacketsHonest
  <2> QED
      BY <1>3, <2>1, <2>2
<1>12. \A q \in net' : Honest(q)
    BY <1>1 DEF IndInv, PacketsHonest
<1> HIDE DEF recv, taken, mine
<1> QED
    BY <1>1, <1>6, <1>7, <1>9, <1>10, <1>11, <1>12, ArmKeeps
\* Every step keeps the inductive invariant.
LEMMA NextKeeps ==
    ASSUME IndInv, [Next]_vars
    PROVE  IndInv'
<1>1. CASE UNCHANGED vars
  <2>1. UNCHANGED <<flowVars, taskVars, appVars, net, camVars>>
      BY <1>1 DEF vars
  <2>2. sock' \in {"up", "down"} /\ \A p \in net' : Honest(p)
      BY <2>1 DEF IndInv, TypeOK, PacketsHonest, taskVars
  <2> QED
      BY <2>1, <2>2, NetworkStep DEF taskVars
<1>2. CASE RunStep
    BY <1>2, RunSendKeeps, RunResendKeeps, RunRecvKeeps, RunFeedKeeps, RunErrorKeeps,
       RunFailsKeeps DEF RunStep
<1>3. CASE AppStep
    BY <1>3, AppWriteKeeps, AppReadKeeps, AppDropKeeps DEF AppStep
<1>4. CASE CamSend
    BY <1>4, CamSendKeeps
<1>5. CASE SockFails \/ AckTick \/ CamAck \/ \E i \in camUnacked : CamResend(i)
    BY <1>5, NetActionsKeep
<1>6. ASSUME NEW p \in net, NetStep(p) PROVE IndInv'
    BY <1>6, SockRecvKeeps, CamRecvKeeps, NetActionsKeep DEF NetStep
<1> QED
    BY <1>1, <1>2, <1>3, <1>4, <1>5, <1>6 DEF Next

\* The inductive invariant holds throughout, whatever the fairness.
THEOREM IndInvHolds == SafetySpec => []IndInv
<1>1. Init => IndInv
    BY InitInv
<1>2. IndInv /\ [Next]_vars => IndInv'
    BY NextKeeps
<1> QED
    BY <1>1, <1>2, PTL DEF SafetySpec

\* Neither side ever forgets a packet the other still needs, and the reorder buffer,
\* socket_out and thread_stream stay within their capacities, whatever the network
\* loses, repeats or reorders (handle_ack, handle_data, build_send_ack).
THEOREM TransportSafetyHolds == Spec => []TransportSafety
<1>1. IndInv => TransportSafety
    BY DEF IndInv, TransportSafety
<1> QED
    BY <1>1, IndInvHolds, PTL DEF Spec

-----------------------------------------------------------------------------------
(* The transport implements an in-order channel. *)

\* An item the application reads is the error or the next packet of the camera.
LEMMA NextItem ==
    ASSUME IndInv, AppRead
    PROVE  \/ closed' = TRUE /\ got' = got
           \/ ~closed /\ closed' = closed /\ Len(got) < camNext /\ got' = Append(got, Len(got))
<1>1. stream # <<>> /\ stream \in Seq([conn : {"this", "error"}, id : Ids]) /\ ~closed
    BY DEF AppRead, IndInv, TypeOK
<1>2. 1 \in 1..Len(stream) /\ Head(stream) = stream[1]
    BY <1>1
<1>3. Len(got) \in Nat /\ packets_want \in Nat /\ camNext \in Nat /\ packets_want <= camNext
    BY BcUdpAssumption DEF IndInv, TypeOK, IdsCount, Ids
<1>4. CASE Head(stream) = Err
    BY <1>4 DEF AppRead
<1>5. CASE Head(stream) # Err
  <2>1. stream[1] = Payload("this", Len(got) + 1 - 1) /\ Len(got) + 1 - 1 < packets_want
      BY <1>2, <1>5 DEF IndInv, InStep
  <2>2. stream[1].id = Len(got) /\ Len(got) < camNext
      BY <1>3, <2>1 DEF Payload
  <2> QED
      BY <1>1, <1>2, <1>5, <2>2 DEF AppRead
<1> QED
    BY <1>4, <1>5

\* Every step of the transport is a step of the channel or leaves it as it is.
LEMMA StepRefines ==
    ASSUME IndInv, [Next]_vars
    PROVE  [Channel!Next]_Channel!vars
<1> USE DEF Channel!vars, Channel!Next, flowVars, taskVars, appVars, camVars
<1>1. CASE UNCHANGED vars
    BY <1>1 DEF vars
<1>2. CASE RunStep
    BY <1>2 DEF RunStep, RunSend, RunResend, RunRecv, RunFeed, RunError, RunFails
<1>3. CASE AppWrite
    BY <1>3 DEF AppWrite
<1>4. CASE AppRead
  <2>1. camNext' = camNext
      BY <1>4 DEF AppRead
  <2> QED
      BY <1>4, <2>1, NextItem DEF Channel!Read, Channel!End
<1>5. CASE AppDrop
    BY <1>5 DEF AppDrop, Channel!End
<1>6. CASE SockFails \/ AckTick \/ CamAck \/ \E i \in camUnacked : CamResend(i)
    BY <1>6 DEF SockFails, AckTick, CamAck, CamResend
<1>7. CASE CamSend
    BY <1>7 DEF CamSend, Channel!Write
<1>8. CASE \E p \in net : NetStep(p)
    BY <1>8 DEF NetStep, SockRecv, CamRecv, Lose
<1> QED
    BY <1>1, <1>2, <1>3, <1>4, <1>5, <1>6, <1>7, <1>8 DEF Next, AppStep

\* The transport implements the in-order channel: the application reads the camera's
\* packets in order, each once and none left out, and nothing after the error, for
\* every loss, repetition and reordering of the network below.
THEOREM ImplementsChannel == Spec => InOrderChannel
<1>1. Init => Channel!Init
    BY DEF Init, Channel!Init
<1>2. IndInv /\ [Next]_vars => [Channel!Next]_Channel!vars
    BY StepRefines
<1> QED
    BY <1>1, <1>2, IndInvHolds, PTL DEF Spec, SafetySpec, InOrderChannel, Channel!Spec
==================================================================================
