------------------------------- MODULE RtspServer -------------------------------
(***************************************************************************)
(* The RTSP server: the accept loop with its connection slots, one task    *)
(* per connection that handles requests one after the other, the sessions  *)
(* of a connection with one task each, and the pool of UDP port pairs all  *)
(* connections share.  A session may be ended by TEARDOWN, by the sweep of *)
(* idle sessions, by the end of its connection, and by its own task when a *)
(* dispatch loop ends; its ports go back when the last of entry and task   *)
(* lets go of them.                                                        *)
(***************************************************************************)
EXTENDS Naturals, FiniteSets, Sequences

CONSTANTS
    Conns,          \* client connections, numbered in the order of their acceptance
    Ids,            \* session ids a client may name
    Ports,          \* even ports of the pool, 40000..40998
    MaxConnections, \* max_connections
    MaxIdle,        \* sweeps an untouched session survives (30 s, swept every 5 s)
    MaxGen,         \* bound: sessions set up in all
    MaxTracks,      \* bound: tracks of a session
    Tls             \* whether the listener speaks TLS

ASSUME RtspAssumption ==
    /\ MaxConnections \in Nat \ {0} /\ MaxIdle \in Nat /\ MaxGen \in Nat /\ MaxTracks \in Nat \ {0}
    /\ Tls \in BOOLEAN /\ Conns \subseteq Nat \ {0} /\ Ports \subseteq Nat \ {0}

VARIABLES
    acceptor,   \* the accept loop: "acquire" a slot, "accept" a client, "stopped"
    slots,      \* free permits of conn_sem
    cancel,     \* the server's cancellation token
    conn,       \* per connection: "none", "handshake", "open", "ended"
    handler,    \* per connection: the request being handled
    entry,      \* SessionRegistry: per connection, id -> the session listed, 0 if none
    sess,       \* per session set up: its task and what it shares with its entry
    used        \* UdpPortPool: leased ports

vars == <<acceptor, slots, cancel, conn, handler, entry, sess, used>>

Gens == 1..MaxGen
None == [pc |-> "-", conn |-> 0, id |-> "-", cancelled |-> FALSE, fired |-> FALSE, notified |-> FALSE,
         tracks |-> <<>>, age |-> 0]
Idle == [op |-> "idle"]
TaskRuns(s) == s.pc \notin {"-", "done"}
Listed(c, g) == \E i \in Ids : entry[c][i] = g

Init ==
    /\ acceptor = "acquire"
    /\ slots = MaxConnections
    /\ cancel = FALSE
    /\ conn = [c \in Conns |-> "none"]
    /\ handler = [c \in Conns |-> Idle]
    /\ entry = [c \in Conns |-> [i \in Ids |-> 0]]
    /\ sess = [g \in Gens |-> None]
    /\ used = {}

-----------------------------------------------------------------------------------
(* Ports: a transport over UDP holds a lease for as long as someone holds it.  A   *)
(* track is the port of its transport, or 0 for one interleaved in the connection. *)

PortsOf(tracks) == {tracks[i] : i \in 1..Len(tracks)} \ {0}

\* UdpPortPool::acquire and UdpUnicastTransport::bind: the lowest free pair that the
\* host can bind; those it cannot are parked during the search and given back, so that
\* any free pair may be the one.
Acquirable == Ports \ used

\* The ports session g's entry was the last to hold: its task shares them while it runs.
Dropped(g) == IF TaskRuns(sess[g]) THEN {} ELSE PortsOf(sess[g].tracks)

-----------------------------------------------------------------------------------
(* The accept loop. *)

AcquireSlot ==
    /\ acceptor = "acquire" /\ slots > 0
    /\ acceptor' = "accept"
    /\ slots' = slots - 1
    /\ UNCHANGED <<cancel, conn, handler, entry, sess, used>>

\* The slot goes to the connection's task; the loop asks for the next one.
Accept(c) ==
    /\ acceptor = "accept" /\ conn[c] = "none"
    /\ \A d \in Conns : d < c => conn[d] # "none"
    /\ conn' = [conn EXCEPT ![c] = IF Tls THEN "handshake" ELSE "open"]
    /\ acceptor' = "acquire"
    /\ UNCHANGED <<slots, cancel, handler, entry, sess, used>>

\* accept() failed: the slot is dropped and taken again.
AcceptFails ==
    /\ acceptor = "accept"
    /\ acceptor' = "acquire"
    /\ slots' = slots + 1
    /\ UNCHANGED <<cancel, conn, handler, entry, sess, used>>

\* Defect: a failed handshake keeps the slot.
HandshakeKeepsSlot(c, ok) ==
    /\ conn[c] = "handshake"
    /\ conn' = [conn EXCEPT ![c] = IF ok THEN "open" ELSE "ended"]
    /\ UNCHANGED <<acceptor, slots, cancel, handler, entry, sess, used>>
\* The handshake ends within TLS_HANDSHAKE_TIMEOUT, one way or the other.
Handshake(c, ok) ==
    /\ conn[c] = "handshake"
    /\ conn' = [conn EXCEPT ![c] = IF ok THEN "open" ELSE "ended"]
    /\ slots' = IF ok THEN slots ELSE slots + 1
    /\ UNCHANGED <<acceptor, cancel, handler, entry, sess, used>>

Cancel ==
    /\ ~cancel
    /\ cancel' = TRUE
    /\ UNCHANGED <<acceptor, slots, conn, handler, entry, sess, used>>

\* Defect: the loop gives back a slot it does not hold.
AcceptorStopsTwice ==
    /\ cancel /\ acceptor # "stopped"
    /\ acceptor' = "stopped"
    /\ slots' = slots + 1
    /\ UNCHANGED <<cancel, conn, handler, entry, sess, used>>
\* A slot held for the next client is dropped with the loop.
AcceptorStops ==
    /\ cancel /\ acceptor # "stopped"
    /\ acceptor' = "stopped"
    /\ slots' = IF acceptor = "accept" THEN slots + 1 ELSE slots
    /\ UNCHANGED <<cancel, conn, handler, entry, sess, used>>

-----------------------------------------------------------------------------------
(* The connection task: one request at a time. *)

Ready(c) == conn[c] = "open" /\ handler[c] = Idle
\* A request naming a session touches it before it is handled, whatever it asks.
Touched(c, i) ==
    [g \in Gens |-> IF entry[c][i] = g THEN [sess[g] EXCEPT !.age = 0] ELSE sess[g]]

\* Defect: the entries are forgotten and their tasks are not told.
RemoveQuietly(c, gs) ==
    /\ entry' = [entry EXCEPT ![c] = [i \in Ids |-> IF @[i] \in gs THEN 0 ELSE @[i]]]
    /\ UNCHANGED <<sess, used>>
\* Entries leave the registry: their tasks are cancelled and what only the entry
\* held (the subscription with its wake lock, ports of a finished task) is dropped.
RemoveGens(c, gs) ==
    /\ entry' = [entry EXCEPT ![c] = [i \in Ids |-> IF @[i] \in gs THEN 0 ELSE @[i]]]
    /\ sess' = [g \in Gens |->
                  IF g \in gs THEN [sess[g] EXCEPT !.cancelled = TRUE, !.age = 0] ELSE sess[g]]
    /\ used' = used \ UNION {Dropped(g) : g \in gs}

\* OPTIONS, GET_PARAMETER and PAUSE change nothing but the age.
KeepAlive(c, i) ==
    /\ Ready(c) /\ entry[c][i] # 0
    /\ sess' = Touched(c, i)
    /\ UNCHANGED <<acceptor, slots, cancel, conn, handler, entry, used>>

\* DESCRIBE subscribes for the SDP and drops the subscription when it has it, or is
\* refused; no other request and no sweep of the connection is handled meanwhile.
DescribeBegins(c) ==
    /\ Ready(c)
    /\ handler' = [handler EXCEPT ![c] = [op |-> "describe"]]
    /\ UNCHANGED <<acceptor, slots, cancel, conn, entry, sess, used>>
DescribeEnds(c) ==
    /\ handler[c].op = "describe"
    /\ handler' = [handler EXCEPT ![c] = Idle]
    /\ UNCHANGED <<acceptor, slots, cancel, conn, entry, sess, used>>

\* SETUP refused (bad URI, no authorisation, no transport, no port to bind) changes nothing.
\* SETUP accepted: the transport is made first; a session known by that id gets one
\* more track, an unknown one needs a subscription.
SetupBegins(c, i, port) ==
    /\ Ready(c)
    /\ used' = used \cup PortsOf(<<port>>)
    /\ IF entry[c][i] # 0
       THEN /\ Len(sess[entry[c][i]].tracks) < MaxTracks
            /\ sess' = [Touched(c, i) EXCEPT ![entry[c][i]] =
                           [@ EXCEPT !.tracks = Append(sess[entry[c][i]].tracks, port)]]
            /\ UNCHANGED handler
       ELSE /\ handler' = [handler EXCEPT ![c] = [op |-> "setup", id |-> i, port |-> port]]
            /\ UNCHANGED sess
    /\ UNCHANGED <<acceptor, slots, cancel, conn, entry>>

\* Defect: the port of a session that could not subscribe is never given back.
SetupFailsHolding(c) ==
    /\ conn[c] = "open" /\ handler[c].op = "setup"
    /\ handler' = [handler EXCEPT ![c] = Idle]
    /\ UNCHANGED <<acceptor, slots, cancel, conn, entry, sess, used>>
\* No such camera, no access, no stream: the transport is dropped with its lease.
SetupFails(c) ==
    /\ conn[c] = "open" /\ handler[c].op = "setup"
    /\ handler' = [handler EXCEPT ![c] = Idle]
    /\ used' = used \ PortsOf(<<handler[c].port>>)
    /\ UNCHANGED <<acceptor, slots, cancel, conn, entry, sess>>

\* Subscribed: a new entry under the client's id, and its task.
Unborn == {g \in Gens : sess[g].pc = "-"}
SetupSubscribed(c) ==
    /\ conn[c] = "open" /\ handler[c].op = "setup"
    /\ Unborn # {}
    /\ LET g == CHOOSE g \in Unborn : \A h \in Unborn : g <= h
           i == handler[c].id
       IN  /\ entry' = [entry EXCEPT ![c][i] = g]
           /\ sess' = [sess EXCEPT ![g] = [None EXCEPT !.pc = "start", !.conn = c, !.id = i,
                                                 !.tracks = <<handler[c].port>>]]
    /\ handler' = [handler EXCEPT ![c] = Idle]
    /\ UNCHANGED <<acceptor, slots, cancel, conn, used>>

\* PLAY: mark_playing sets the flag, then wakes whoever waits; the handler then
\* waits up to 200 ms for the first packet's numbers before it answers.
Play(c, i) ==
    /\ Ready(c) /\ entry[c][i] # 0
    /\ sess' = [Touched(c, i) EXCEPT ![entry[c][i]] =
                   [@ EXCEPT !.fired = TRUE,
                             !.notified = sess[entry[c][i]].pc \in {"armed", "parked"}]]
    /\ UNCHANGED <<acceptor, slots, cancel, conn, handler, entry, used>>

Teardown(c, i) ==
    /\ Ready(c) /\ entry[c][i] # 0
    /\ RemoveGens(c, {entry[c][i]})
    /\ UNCHANGED <<acceptor, slots, cancel, conn, handler>>

\* keepalive_ticker: sessions untouched for too long go, the others grow older.
Expired(c) == {g \in Gens : Listed(c, g) /\ sess[g].age >= MaxIdle}
sweep_expired(c) ==
    /\ Ready(c)
    /\ IF Expired(c) # {}
       THEN RemoveGens(c, Expired(c))
       ELSE /\ sess' = [g \in Gens |->
                           IF Listed(c, g) THEN [sess[g] EXCEPT !.age = @ + 1] ELSE sess[g]]
            /\ UNCHANGED <<entry, used>>
    /\ UNCHANGED <<acceptor, slots, cancel, conn, handler>>

\* End of file, a read error, a malformed or oversized request, silence before the
\* first session, or the server's cancellation: all sessions are cleared.
ConnEnds(c) ==
    /\ Ready(c)
    /\ conn' = [conn EXCEPT ![c] = "ended"]
    /\ slots' = slots + 1
    /\ RemoveGens(c, {g \in Gens : Listed(c, g)})
    /\ UNCHANGED <<acceptor, cancel, handler>>

-----------------------------------------------------------------------------------
(* The session task. *)

Move(g, from, to) ==
    sess[g].pc = from /\ sess' = [sess EXCEPT ![g] = [@ EXCEPT !.pc = to, !.notified = FALSE]]

\* notified() is created before play_fired is read, so a PLAY in between is not lost.
TaskArms(g) ==
    /\ Move(g, "start", "armed")
    /\ UNCHANGED <<acceptor, slots, cancel, conn, handler, entry, used>>

\* Defect: play_fired is not read again once the wait is registered.
TaskChecksNothing(g) ==
    /\ sess[g].pc = "armed"
    /\ sess' = [sess EXCEPT ![g].pc = "parked"]
    /\ UNCHANGED <<acceptor, slots, cancel, conn, handler, entry, used>>
TaskChecks(g) ==
    /\ sess[g].pc = "armed"
    /\ sess' = [sess EXCEPT ![g] = [@ EXCEPT !.pc = IF sess[g].fired THEN "playing" ELSE "parked"]]
    /\ UNCHANGED <<acceptor, slots, cancel, conn, handler, entry, used>>

TaskWakes(g) ==
    /\ sess[g].notified
    /\ Move(g, "parked", "playing")
    /\ UNCHANGED <<acceptor, slots, cancel, conn, handler, entry, used>>

\* Cancelled, lagging behind the broadcast, the stream's end or a failed write: both
\* dispatch loops are cancelled and joined.
TaskDrains(g) ==
    /\ sess[g].pc = "playing"
    /\ sess' = [sess EXCEPT ![g] = [@ EXCEPT !.pc = "draining", !.cancelled = TRUE]]
    /\ UNCHANGED <<acceptor, slots, cancel, conn, handler, entry, used>>

\* The end: the task removes the entry of its id, whoever it belongs to by now, and
\* drops its own hold on the tracks.
TaskEnds(g) ==
    /\ \/ sess[g].pc = "parked" /\ sess[g].cancelled
       \/ sess[g].pc = "draining"
    /\ LET c == sess[g].conn
           h == entry[c][sess[g].id]
       IN  /\ entry' = [entry EXCEPT ![c][sess[g].id] = 0]
           /\ sess' = [k \in Gens |->
                          IF k = g THEN [None EXCEPT !.pc = "done", !.conn = c]
                          ELSE [sess[k] EXCEPT !.cancelled = @ \/ k = h]]
           /\ used' = used \ PortsOf(sess[g].tracks)
    /\ UNCHANGED <<acceptor, slots, cancel, conn, handler>>

-----------------------------------------------------------------------------------
TaskStep(g) ==
    TaskArms(g) \/ TaskChecks(g) \/ TaskWakes(g) \/ TaskDrains(g) \/ TaskEnds(g)

Next ==
    \/ AcquireSlot \/ AcceptFails \/ Cancel \/ AcceptorStops
    \/ \E c \in Conns :
          \/ Accept(c) \/ (\E ok \in BOOLEAN : Handshake(c, ok))
          \/ DescribeBegins(c) \/ DescribeEnds(c) \/ SetupFails(c) \/ SetupSubscribed(c) \/ sweep_expired(c) \/ ConnEnds(c)
          \/ \E i \in Ids : KeepAlive(c, i) \/ Play(c, i) \/ Teardown(c, i)
          \/ \E i \in Ids, p \in {0} \cup Acquirable : SetupBegins(c, i, p)
    \/ \E g \in Gens : TaskStep(g)

\* Tasks run.  A subscription is granted or refused within its time limits, a client
\* that has nothing left to do goes, and a write completes or its connection breaks.
Fairness ==
    /\ WF_vars(AcquireSlot) /\ WF_vars(AcceptorStops)
    /\ \A c \in Conns :
          /\ WF_vars(DescribeEnds(c) \/ SetupFails(c) \/ SetupSubscribed(c))
          /\ WF_vars(cancel /\ ConnEnds(c))
          /\ WF_vars(\E ok \in BOOLEAN : Handshake(c, ok))
    /\ \A g \in Gens :
          /\ WF_vars(TaskArms(g) \/ TaskChecks(g) \/ TaskWakes(g) \/ TaskEnds(g))
          /\ WF_vars(sess[g].cancelled /\ TaskDrains(g))

Spec == Init /\ [][Next]_vars /\ Fairness

-----------------------------------------------------------------------------------
TypeOK ==
    /\ acceptor \in {"acquire", "accept", "stopped"}
    /\ slots \in 0..MaxConnections
    /\ conn \in [Conns -> {"none", "handshake", "open", "ended"}]
    /\ entry \in [Conns -> [Ids -> 0..MaxGen]]
    /\ used \subseteq Ports
    /\ \A g \in Gens :
          sess[g].pc \in {"-", "start", "armed", "parked", "playing", "draining", "done"}

\* udp_pool.rs 93, registry.rs 149: the leased ports are exactly those of the sessions
\* somebody still holds and of the request in progress, and no two of them share one:
\* no refusal, race between an entry's removal and its task, or reuse of an id leaks
\* or doubles a lease.
Claims ==
    {x \in Gens \X (1..MaxTracks) \X Ports :
        LET s == sess[x[1]]
        IN  /\ TaskRuns(s) \/ \E c \in Conns : Listed(c, x[1])
            /\ x[2] <= Len(s.tracks) /\ s.tracks[x[2]] = x[3]}
    \cup {<<0, c, handler[c].port>> :
             c \in {d \in Conns : handler[d].op = "setup" /\ handler[d].port # 0}}
PortsAccounted ==
    /\ used = {x[3] : x \in Claims}
    /\ Cardinality(used) = Cardinality(Claims)

\* listener.rs 90-159: every slot is free, held for the next client or with one
\* connection, so that the server neither exceeds max_connections nor starves.
SlotsAccounted ==
    slots + Cardinality({c \in Conns : conn[c] \in {"handshake", "open"}})
        + (IF acceptor = "accept" THEN 1 ELSE 0) = MaxConnections

\* What the server's two pools keep: no RTP port and no connection slot is lost or given
\* out twice, however sessions and connections end.
ResourcesAccounted == TypeOK /\ PortsAccounted /\ SlotsAccounted

\* session_task.rs 304-316, registry.rs 143: a PLAY is never lost, whatever the order in
\* which the handler and the session's task run.
PlayStarts ==
    \A g \in Gens :
        sess[g].fired ~> sess[g].pc \in {"playing", "draining", "done"}

\* connection.rs 223, session_task.rs 351-364: when a connection has ended, its
\* sessions' tasks end and every port of theirs is back in the pool.
EndedConnectionIsCleaned ==
    \A c \in Conns :
        conn[c] = "ended" ~>
            \A g \in Gens : sess[g].conn = c =>
                ~TaskRuns(sess[g]) /\ ~Listed(c, g) /\ (\A x \in Claims : x[1] # g)

\* registry.rs 178, session_task.rs 364: a session that is set up stays until it is torn
\* down, expires, fails or its connection ends: the task of another session, ended
\* before, does not remove it.
\* It fails when an id is used again: README, 3.
OwnEnd ==
    [][\A c \in Conns, g, h \in Gens :
          (TaskRuns(sess[g]) /\ sess'[g].pc = "done" /\ h # g /\ Listed(c, h))
             => Listed(c, h)']_vars
===================================================================================
