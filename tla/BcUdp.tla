---------------------------------- MODULE BcUdp ----------------------------------
(***************************************************************************)
(* The BcUdp transport of one camera connection: numbered data packets,    *)
(* acknowledgements with a bitmap, resending and a bounded reorder buffer, *)
(* run by a socket task, an ack task and a payload task that talk through  *)
(* bounded channels, over a network that loses, duplicates and reorders.   *)
(***************************************************************************)
EXTENDS Naturals, Sequences, FiniteSets

CONSTANTS
    IdMax,          \* u32::MAX: the largest packet id, also the id of an empty ack
    REORDER_CAP,    \* packets the reorder buffer may hold
    OutCap,         \* capacity of socket_out (500)
    StreamCap,      \* capacity of thread_stream (100)
    CamWindow,      \* external: how far the camera sends past its oldest unacked packet
    CamPackets,     \* bound: packets the camera has to send
    AppChunks,      \* bound: chunks the application has to send
    NetCap          \* bound: packets in flight

ASSUME BcUdpAssumption ==
    /\ {IdMax, REORDER_CAP, OutCap, StreamCap, CamWindow} \subseteq Nat \ {0}
    /\ {CamPackets, AppChunks, NetCap} \subseteq Nat
    /\ CamPackets < IdMax /\ AppChunks < IdMax

VARIABLES
    packets_sent,   \* next id of a packet to the camera
    sent,           \* ids sent to the camera and not acknowledged
    packets_want,   \* next id wanted from the camera
    received,       \* ids waiting in the reorder buffer
    ack,            \* the watch channel: the ack the ack task sends
    sink,           \* thread_sink: payloads of the application, by number of chunks
    run,            \* payload task: "select", "failing" (an error to pass up), "done"
    pending,        \* packets drained and not yet fed to the application
    stream,         \* thread_stream
    out,            \* socket_out: packets from the socket task
    sock,           \* the socket task: "up" or "down"
    got,            \* ids the application has read
    closed,         \* the application has read the error, or has dropped the source
    net,            \* packets in flight, both ways
    camNext,        \* external: packets the camera has sent at least once
    camUnacked,     \* external: ids the camera still keeps
    camGot          \* external: ids the camera has got

flowVars == <<packets_sent, sent, packets_want, received, ack>>
taskVars == <<sink, run, pending, stream, out, sock>>
appVars == <<got, closed>>
camVars == <<camNext, camUnacked, camGot>>
vars == <<flowVars, taskVars, appVars, net, camVars>>

Ids == 0..IdMax

\* Packets.  "old" is the id of an earlier connection of the same camera, "other"
\* an address that is not the camera's.
Data(to, conn, addr, id) == [to |-> to, type |-> "data", conn |-> conn, addr |-> addr, id |-> id]
Ack(to, conn, addr, a) == [to |-> to, type |-> "ack", conn |-> conn, addr |-> addr, ack |-> a]
Heartbeat == [to |-> "app", type |-> "hb", conn |-> "this", addr |-> "camera", id |-> 0]

\* An acknowledgement: everything up to id, and the ids in also.
AckValue == [id : Ids, also : SUBSET Ids]
EmptyAck == [id |-> IdMax, also |-> {}]

\* What earlier connections and other hosts may have left in the network.
Strays == {Data("app", "old", "camera", 0), Data("app", "this", "other", 0),
           Ack("app", "old", "camera", [id |-> 0, also |-> {}]), Heartbeat}

\* Item of thread_stream: a packet's payload, named by its connection and id, or
\* the error that ends the stream.
Payload(conn, id) == [conn |-> conn, id |-> id]
Err == [conn |-> "error", id |-> 0]

Init ==
    /\ packets_sent = 0 /\ sent = {} /\ packets_want = 0 /\ received = {}
    /\ ack = EmptyAck
    /\ sink = <<>> /\ run = "select" /\ pending = <<>> /\ stream = <<>>
    /\ out = <<>> /\ sock = "up"
    /\ got = <<>> /\ closed = FALSE
    /\ net \in {{}} \cup {{s} : s \in Strays}
    /\ camNext = 0 /\ camUnacked = {} /\ camGot = {}

-----------------------------------------------------------------------------------
(* UdpFlowState: the per-packet decisions. *)

WrappingAdd(n, k) == (n + k) % (IdMax + 1)

\* The first id from n on that is not in s.
FirstMissing(n, s) ==
    CHOOSE m \in n..IdMax : m \notin s /\ \A i \in n..(m - 1) : i \in s

\* handle_data: is a packet taken into the reorder buffer?
Accepts(conn, id) ==
    /\ conn = "this"
    /\ id # IdMax
    /\ id >= packets_want
    /\ Cardinality(received) < REORDER_CAP

\* handle_ack: what is left of sent.  An ack whose bitmap would run past IdMax
\* still counts for the ids up to its own.
Unacked(s, a) ==
    IF a.id = IdMax THEN s
    ELSE LET above == {k \in s : k > a.id}
         IN  IF \E i \in a.also : i >= IdMax THEN above ELSE above \ a.also

\* Defect: the ack counts the packet that is still missing.
AckOfAhead(want, recv) ==
    IF want = 0 THEN EmptyAck
    ELSE LET first_missing == FirstMissing(want, recv)
         IN  [id |-> first_missing, also |-> {i \in recv : i > first_missing}]

\* build_send_ack: nothing before the first packet has been drained; then the
\* last id of the unbroken run, and a bitmap, cut at four times the buffer.
AckOf(want, recv) ==
    IF want = 0 THEN EmptyAck
    ELSE LET first_missing == FirstMissing(want, recv)
         IN  [id |-> first_missing - 1,
              also |-> {i \in recv : /\ i > first_missing
                                     /\ i < first_missing + 4 * REORDER_CAP}]

\* Defect: the reorder buffer is handed over from its smallest id, gap or no gap.
DrainedGap(want, recv) ==
    IF recv = {} THEN <<>>
    ELSE LET first == CHOOSE m \in recv : \A i \in recv : m <= i
         IN  [k \in 1..(FirstMissing(first, recv) - first) |-> first + k - 1]

\* drain_contiguous: the ids of the unbroken run from the one wanted, in order.
Drained(want, recv) == [k \in 1..(FirstMissing(want, recv) - want) |-> want + k - 1]

\* Every arm of run() ends by draining and feeding what it drained.
Drain(want, recv) ==
    LET ids == Drained(want, recv)
    IN  /\ packets_want' = WrappingAdd(want, Len(ids))
        /\ received' = recv \ {ids[k] : k \in DOMAIN ids}
        /\ pending' = [k \in DOMAIN ids |-> Payload("this", ids[k])]

-----------------------------------------------------------------------------------
(* The payload task: UdpPayloadInner::run in UdpPayloadSource::new's loop. *)

Selecting == run = "select" /\ pending = <<>>

\* Into a network that is full, packets go at the expense of others.
Post(ps) ==
    IF Cardinality(net \cup ps) <= NetCap THEN net' = net \cup ps
    ELSE \E kept \in SUBSET net : /\ net' = kept \cup ps
                                  /\ Cardinality(net') = NetCap

\* The application's next payload, chunk by chunk.
RunSend ==
    /\ Selecting /\ sink # <<>> /\ sock = "up"
    /\ LET ids == {WrappingAdd(packets_sent, k) : k \in 0..(Head(sink) - 1)}
       IN  /\ sent' = sent \cup ids
           /\ Post({Data("cam", "this", "app", i) : i \in ids})
    /\ packets_sent' = WrappingAdd(packets_sent, Head(sink))
    /\ sink' = Tail(sink)
    /\ Drain(packets_want, received)
    /\ UNCHANGED <<ack, run, stream, out, sock, appVars, camVars>>

\* Defect: nothing is sent twice.
RunResendNothing ==
    /\ Selecting /\ sock = "up"
    /\ UNCHANGED net
    /\ ack' = AckOf(packets_want, received)
    /\ Drain(packets_want, received)
    /\ UNCHANGED <<packets_sent, sent, sink, run, stream, out, sock, appVars, camVars>>

\* Every 500 ms: all that is unacknowledged again, and a fresh ack.
RunResend ==
    /\ Selecting /\ (sock = "up" \/ sent = {})
    /\ Post({Data("cam", "this", "app", i) : i \in sent})
    /\ ack' = AckOf(packets_want, received)
    /\ Drain(packets_want, received)
    /\ UNCHANGED <<packets_sent, sent, sink, run, stream, out, sock, appVars, camVars>>

\* A packet from the socket task; one from another address, of another
\* connection, or of discovery changes nothing.
RunRecv ==
    /\ Selecting /\ out # <<>>
    /\ out' = Tail(out)
    /\ LET p == Head(out)
           mine == p.addr = "camera"
           taken == mine /\ p.type = "data" /\ Accepts(p.conn, p.id)
           recv == IF taken THEN received \cup {p.id} ELSE received
       IN  /\ sent' = IF mine /\ p.type = "ack" /\ p.conn = "this"
                      THEN Unacked(sent, p.ack) ELSE sent
           /\ ack' = IF taken THEN AckOf(packets_want, recv) ELSE ack
           /\ Drain(packets_want, recv)
    /\ UNCHANGED <<packets_sent, sink, run, stream, sock, appVars, net, camVars>>

\* What was drained goes to the application as it makes room.
RunFeed ==
    /\ run = "select" /\ pending # <<>> /\ Len(stream) < StreamCap
    /\ stream' = Append(stream, Head(pending))
    /\ pending' = Tail(pending)
    /\ UNCHANGED <<flowVars, sink, run, out, sock, appVars, net, camVars>>

\* Defect: a closed channel is taken for a quiet one.
RunErrorOnSend ==
    /\ Selecting /\ sock = "down"
    /\ sent # {} \/ sink # <<>>
    /\ run' = "failing"
    /\ UNCHANGED <<flowVars, sink, pending, stream, out, sock, appVars, net, camVars>>

\* The socket task is gone: its channel is empty and closed, or a packet cannot
\* be fed to it.
RunError ==
    /\ Selecting /\ sock = "down"
    /\ out = <<>> \/ sent # {} \/ sink # <<>>
    /\ run' = "failing"
    /\ UNCHANGED <<flowVars, sink, pending, stream, out, sock, appVars, net, camVars>>

\* The error goes up as the last item of the stream.
RunFails ==
    /\ run = "failing" /\ Len(stream) < StreamCap
    /\ stream' = Append(stream, Err)
    /\ run' = "done"
    /\ UNCHANGED <<flowVars, sink, pending, out, sock, appVars, net, camVars>>

-----------------------------------------------------------------------------------
(* The socket task, the ack task and the heartbeat task. *)

\* The socket closes: what is in flight is lost.
SockEnds == sock' = "down" /\ net' = {}

\* Defect: the channel to the payload task has no limit.
SockRecvUnbounded(p) ==
    /\ sock = "up" /\ p.to = "app"
    /\ out' = Append(out, p) /\ net' \in {net, net \ {p}}
    /\ UNCHANGED <<flowVars, sink, run, pending, stream, sock, appVars, camVars>>

\* A packet arrives (and may arrive again).  A full socket_out ends the task.
SockRecv(p) ==
    /\ sock = "up" /\ p.to = "app"
    /\ IF Len(out) < OutCap
       THEN out' = Append(out, p) /\ net' \in {net, net \ {p}} /\ UNCHANGED sock
       ELSE SockEnds /\ UNCHANGED out
    /\ UNCHANGED <<flowVars, sink, run, pending, stream, appVars, camVars>>

\* Ten seconds without a packet, an error of the socket, or a failed reconnect.
SockFails ==
    /\ sock = "up"
    /\ SockEnds
    /\ UNCHANGED <<flowVars, sink, run, pending, stream, out, appVars, camVars>>

\* Every 10 ms, whatever the payload task is doing.
AckTick ==
    /\ sock = "up"
    /\ Post({Ack("cam", "this", "app", ack)})
    /\ UNCHANGED <<flowVars, taskVars, appVars, camVars>>

-----------------------------------------------------------------------------------
(* The application: the codec above reads and writes payloads. *)

AppWrite ==
    /\ ~closed /\ sock = "up" /\ sink = <<>>
    /\ \E chunks \in 1..2 :
          /\ packets_sent + chunks <= AppChunks
          /\ sink' = <<chunks>>
    /\ UNCHANGED <<flowVars, run, pending, stream, out, sock, appVars, net, camVars>>

AppRead ==
    /\ ~closed /\ stream # <<>>
    /\ stream' = Tail(stream)
    /\ IF Head(stream) = Err
       THEN closed' = TRUE /\ UNCHANGED got
       ELSE got' = Append(got, Head(stream).id) /\ UNCHANGED closed
    /\ UNCHANGED <<flowVars, sink, run, pending, out, sock, net, camVars>>

\* Dropping the source cancels the payload task, whose own drop cancels the rest.
AppDrop ==
    /\ ~closed
    /\ closed' = TRUE /\ run' = "done" /\ SockEnds
    /\ UNCHANGED <<flowVars, sink, pending, stream, out, got, camVars>>

-----------------------------------------------------------------------------------
(* External: the camera, and the network, as long as there is a socket. *)

Oldest == IF camUnacked = {} THEN camNext
          ELSE CHOOSE m \in camUnacked : \A i \in camUnacked : m <= i

CamSend ==
    /\ sock = "up" /\ camNext < CamPackets /\ camNext < Oldest + CamWindow
    /\ camNext' = camNext + 1
    /\ camUnacked' = camUnacked \cup {camNext}
    /\ Post({Data("app", "this", "camera", camNext)})
    /\ UNCHANGED <<flowVars, taskVars, appVars, camGot>>

CamResend(i) ==
    /\ sock = "up" /\ i \in camUnacked
    /\ Post({Data("app", "this", "camera", i)})
    /\ UNCHANGED <<flowVars, taskVars, appVars, camVars>>

CamRecv(p) ==
    /\ sock = "up" /\ p.to = "cam"
    /\ net' \in {net, net \ {p}}
    /\ camGot' = IF p.type = "data" THEN camGot \cup {p.id} ELSE camGot
    /\ camUnacked' = IF p.type = "ack" THEN Unacked(camUnacked, p.ack) ELSE camUnacked
    /\ UNCHANGED <<flowVars, taskVars, appVars, camNext>>

CamAckValue ==
    LET next == FirstMissing(0, camGot)
    IN  IF next = 0 THEN EmptyAck
        ELSE [id |-> next - 1, also |-> {i \in camGot : i > next}]

CamAck ==
    /\ sock = "up" /\ camGot # {}
    /\ Post({Ack("app", "this", "camera", CamAckValue)})
    /\ UNCHANGED <<flowVars, taskVars, appVars, camVars>>

Lose(p) ==
    /\ sock = "up"
    /\ net' = net \ {p}
    /\ UNCHANGED <<flowVars, taskVars, appVars, camVars>>

-----------------------------------------------------------------------------------
RunStep == RunSend \/ RunResend \/ RunRecv \/ RunFeed \/ RunError \/ RunFails
AppStep == AppWrite \/ AppRead \/ AppDrop
NetStep(p) == SockRecv(p) \/ CamRecv(p) \/ Lose(p)

Next ==
    \/ RunStep \/ AppStep \/ SockFails \/ AckTick
    \/ CamSend \/ CamAck \/ \E i \in camUnacked : CamResend(i)
    \/ \E p \in net : NetStep(p)

SafetySpec == Init /\ [][Next]_vars

\* The tasks run; select! takes each arm that is ready again and again; timers
\* tick; and the network, though it loses packets, does not lose for ever a packet
\* that is sent again and again.
Arrives(p) == p \in net /\ (SockRecv(p) \/ CamRecv(p))
WantedArrives == Arrives(Data("app", "this", "camera", packets_want))
ResentArrives == Arrives(Data("cam", "this", "app", FirstMissing(0, camGot)))
AckArrives == Arrives(Ack("cam", "this", "app", ack))
CamAckArrives == Arrives(Ack("app", "this", "camera", CamAckValue))

Fairness ==
    /\ WF_vars(RunFeed) /\ WF_vars(RunFails) /\ WF_vars(AppRead)
    /\ WF_vars(RunRecv) /\ WF_vars(RunError) /\ WF_vars(RunSend) /\ WF_vars(RunResend)
    /\ WF_vars(AckTick) /\ WF_vars(CamAck) /\ WF_vars(CamResend(Oldest))
    /\ SF_vars(WantedArrives) /\ SF_vars(ResentArrives)
    /\ SF_vars(AckArrives) /\ SF_vars(CamAckArrives)

Spec == SafetySpec /\ Fairness

-----------------------------------------------------------------------------------
Packet ==
    [to : {"app", "cam"}, type : {"data", "hb"}, conn : {"this", "old"},
     addr : {"camera", "app", "other"}, id : Ids]
    \cup [to : {"app", "cam"}, type : {"ack"}, conn : {"this", "old"},
          addr : {"camera", "app", "other"}, ack : AckValue]

TypeOK ==
    /\ packets_sent \in Ids /\ sent \subseteq Ids
    /\ packets_want \in Ids /\ received \subseteq Ids /\ Cardinality(received) <= REORDER_CAP
    /\ ack \in AckValue
    /\ sink \in Seq(1..2)
    /\ run \in {"select", "failing", "done"} /\ sock \in {"up", "down"}
    /\ pending \in Seq([conn : {"this"}, id : Ids])
    /\ stream \in Seq([conn : {"this", "error"}, id : Ids]) /\ Len(stream) <= StreamCap
    /\ out \in Seq(Packet) /\ Len(out) <= OutCap
    /\ got \in Seq(Ids) /\ closed \in BOOLEAN
    /\ net \subseteq Packet
    /\ camNext \in Nat /\ camUnacked \subseteq Ids /\ camGot \subseteq Ids

\* Neither side forgets a packet the other still needs: what the camera no longer
\* keeps has been drained or waits in the reorder buffer, and what is no longer in
\* sent has reached the camera, whatever acks were lost, repeated or late.
NothingForgotten ==
    /\ \A i \in 0..(camNext - 1) : i \in camUnacked \cup received \/ i < packets_want
    /\ \A i \in 0..(packets_sent - 1) : i \in sent \cup camGot

\* What both ends of the transport keep: bounded channels, and every packet the other
\* side still needs.
TransportSafety == TypeOK /\ NothingForgotten

\* The transport is an in-order channel: the application reads the camera's
\* packets in order, each once, and nothing after the error.
Channel == INSTANCE PacketChannel WITH written <- camNext, read <- got, ended <- closed
InOrderChannel == Channel!Spec

\* Again and again, as long as the connection lives, the application has read
\* everything the camera has sent and the camera has acknowledged everything the
\* application has sent: no loss, delay or repetition stalls either direction.
Delivery == []<>(\/ Len(got) = camNext /\ sent = {} /\ sink = <<>>
                 \/ sock = "down" \/ closed)

\* When the socket task dies, the application is told: it reads the error.
FailureReported == []<>(sock = "up" \/ closed)
==================================================================================
