----------------------------- MODULE RtspServerProofs -----------------------------
(***************************************************************************)
(* Proofs about RtspServer, for any number of connections, session ids,    *)
(* ports, slots and sessions: no connection slot and no UDP port pair is   *)
(* lost or given out twice.  The slots and the sessions have no variable   *)
(* in common, so each has an inductive invariant of its own.               *)
(***************************************************************************)
EXTENDS RtspServer, TLAPS, FiniteSetTheorems, WellFoundedInduction

\* The connections that hold a slot.
Open == {c \in Conns : conn[c] \in {"handshake", "open"}}

SlotInv ==
    /\ acceptor \in {"acquire", "accept", "stopped"}
    /\ slots \in Nat
    /\ conn \in [Conns -> {"none", "handshake", "open", "ended"}]
    /\ IsFiniteSet(Open)
    /\ slots + Cardinality(Open) + (IF acceptor = "accept" THEN 1 ELSE 0) = MaxConnections

-----------------------------------------------------------------------------------
(* The sessions: types, what an entry stands for, and who holds which port. *)

Tracks == Seq(Ports \cup {0})
Session ==
    [pc : {"-", "start", "armed", "parked", "playing", "draining", "done"},
     conn : Conns \cup {0}, id : Ids \cup {"-"}, cancelled : BOOLEAN, fired : BOOLEAN,
     notified : BOOLEAN, tracks : Tracks, age : Nat]
Request == {Idle, [op |-> "describe"]} \cup [op : {"setup"}, id : Ids, port : Ports \cup {0}]

Typed ==
    /\ handler \in [Conns -> Request]
    /\ entry \in [Conns -> [Ids -> 0..MaxGen]]
    /\ sess \in [Gens -> Session]
    /\ used \subseteq Ports /\ IsFiniteSet(used)
    /\ \A g \in Gens : Len(sess[g].tracks) <= MaxTracks

\* A listed session is one whose task still runs, listed under its own connection and
\* id only: an entry never outlives its task.
EntryLives ==
    \A c \in Conns, i \in Ids :
        entry[c][i] # 0 =>
            /\ TaskRuns(sess[entry[c][i]])
            /\ sess[entry[c][i]].conn = c /\ sess[entry[c][i]].id = i

TaskPlaced == \A g \in Gens : TaskRuns(sess[g]) => sess[g].conn \in Conns /\ sess[g].id \in Ids

\* Session g's task holds port p for its k-th track; connection c's request holds it.
Holds(g, k, p) == TaskRuns(sess[g]) /\ k \in 1..Len(sess[g].tracks) /\ sess[g].tracks[k] = p
Wants(c, p) == handler[c].op = "setup" /\ handler[c].port = p

\* The ports in use are those that are held, each once.
HeldOnce ==
    /\ \A p \in used : (\E g \in Gens : \E k \in Nat : Holds(g, k, p)) \/ (\E c \in Conns : Wants(c, p))
    /\ \A p \in Ports :
          /\ \A g \in Gens, k \in Nat : Holds(g, k, p) => p \in used
          /\ \A c \in Conns : Wants(c, p) => p \in used
          /\ \A g, h \in Gens, k, l \in Nat : Holds(g, k, p) /\ Holds(h, l, p) => g = h /\ k = l
          /\ \A g \in Gens, k \in Nat, c \in Conns : ~(Holds(g, k, p) /\ Wants(c, p))
          /\ \A c, d \in Conns : Wants(c, p) /\ Wants(d, p) => c = d

SessInv == Typed /\ EntryLives /\ TaskPlaced /\ HeldOnce

IndInv == SlotInv /\ SessInv

-----------------------------------------------------------------------------------
(* The slots. *)

\* A step that changes neither the slots nor the connections keeps their invariant.
LEMMA SlotsUntouched ==
    ASSUME SlotInv, UNCHANGED <<acceptor, slots, conn>>
    PROVE  SlotInv'
BY DEF SlotInv, Open

\* The accept loop moves one permit at a time.
LEMMA AcceptorKeepsSlots ==
    ASSUME SlotInv, AcquireSlot \/ AcceptFails \/ AcceptorStops
    PROVE  SlotInv'
<1>1. conn' = conn
    BY DEF AcquireSlot, AcceptFails, AcceptorStops
<1>2. Open' = Open
    BY <1>1 DEF Open
<1>3. Cardinality(Open) \in Nat
    BY FS_CardinalityType DEF SlotInv
<1>4. CASE AcquireSlot
    BY <1>1, <1>2, <1>3, <1>4 DEF SlotInv, AcquireSlot
<1>5. CASE AcceptFails
    BY <1>1, <1>2, <1>3, <1>5 DEF SlotInv, AcceptFails
<1>6. CASE AcceptorStops
    BY <1>1, <1>2, <1>3, <1>6 DEF SlotInv, AcceptorStops
<1> QED
    BY <1>4, <1>5, <1>6

\* The slot held for the next client goes to its connection.
LEMMA AcceptKeepsSlots ==
    ASSUME SlotInv, NEW c \in Conns, Accept(c)
    PROVE  SlotInv'
<1>1. c \notin Open /\ Open' = Open \cup {c}
    BY DEF SlotInv, Accept, Open
<1>2. IsFiniteSet(Open') /\ Cardinality(Open') = Cardinality(Open) + 1
    BY <1>1, FS_AddElement DEF SlotInv
<1>3. Cardinality(Open) \in Nat
    BY FS_CardinalityType DEF SlotInv
<1>4. /\ acceptor = "accept" /\ acceptor' = "acquire" /\ slots' = slots
      /\ conn' \in [Conns -> {"none", "handshake", "open", "ended"}]
    BY DEF SlotInv, Accept
<1> QED
    BY <1>2, <1>3, <1>4 DEF SlotInv

\* A connection that ends gives its slot back.
LEMMA EndKeepsSlots ==
    ASSUME SlotInv, NEW c \in Open, slots' = slots + 1, acceptor' = acceptor,
           conn' = [conn EXCEPT ![c] = "ended"]
    PROVE  SlotInv'
<1>1. Open' = Open \ {c}
    BY DEF SlotInv, Open
<1>2. IsFiniteSet(Open') /\ Cardinality(Open') = Cardinality(Open) - 1
    BY <1>1, FS_RemoveElement DEF SlotInv
<1>3. Cardinality(Open) \in Nat
    BY FS_CardinalityType DEF SlotInv
<1>4. conn' \in [Conns -> {"none", "handshake", "open", "ended"}]
    BY DEF SlotInv, Open
<1> QED
    BY <1>2, <1>3, <1>4 DEF SlotInv

\* A handshake that succeeds keeps the slot, one that fails gives it back.
LEMMA HandshakeKeepsSlots ==
    ASSUME SlotInv, NEW c \in Conns, NEW ok \in BOOLEAN, Handshake(c, ok)
    PROVE  SlotInv'
<1>1. c \in Open
    BY DEF Handshake, Open
<1>2. CASE ok
  <2>1. Open' = Open
      BY <1>2 DEF SlotInv, Handshake, Open
  <2>2. conn' \in [Conns -> {"none", "handshake", "open", "ended"}]
      BY <1>2 DEF SlotInv, Handshake
  <2> QED
      BY <1>2, <2>1, <2>2 DEF SlotInv, Handshake
<1>3. CASE ~ok
    BY <1>1, <1>3, EndKeepsSlots DEF Handshake
<1> QED
    BY <1>2, <1>3

\* Every step keeps the slots accounted for.
LEMMA NextKeepsSlots ==
    ASSUME SlotInv, [Next]_vars
    PROVE  SlotInv'
<1>1. CASE UNCHANGED vars
    BY <1>1, SlotsUntouched DEF vars
<1>2. CASE AcquireSlot \/ AcceptFails \/ AcceptorStops
    BY <1>2, AcceptorKeepsSlots
<1>3. CASE Cancel
    BY <1>3, SlotsUntouched DEF Cancel
<1>4. ASSUME NEW c \in Conns,
             Accept(c) \/ (\E ok \in BOOLEAN : Handshake(c, ok)) \/ ConnEnds(c)
      PROVE  SlotInv'
  <2>1. CASE ConnEnds(c)
    <3>1. c \in Open
        BY <2>1 DEF ConnEnds, Ready, Open
    <3> QED
        BY <2>1, <3>1, EndKeepsSlots DEF ConnEnds
  <2> QED
      BY <1>4, <2>1, AcceptKeepsSlots, HandshakeKeepsSlots
<1>5. ASSUME NEW c \in Conns,
             DescribeBegins(c) \/ DescribeEnds(c) \/ SetupFails(c) \/ SetupSubscribed(c) \/ sweep_expired(c)
      PROVE  SlotInv'
    BY <1>5, SlotsUntouched
    DEF DescribeBegins, DescribeEnds, SetupFails, SetupSubscribed, sweep_expired
<1>6. ASSUME NEW c \in Conns, NEW i \in Ids, KeepAlive(c, i) \/ Play(c, i) \/ Teardown(c, i)
      PROVE  SlotInv'
    BY <1>6, SlotsUntouched DEF KeepAlive, Play, Teardown
<1>7. ASSUME NEW c \in Conns, NEW i \in Ids, NEW p \in {0} \cup Acquirable, SetupBegins(c, i, p)
      PROVE  SlotInv'
    BY <1>7, SlotsUntouched DEF SetupBegins
<1>8. ASSUME NEW g \in Gens, TaskStep(g) PROVE SlotInv'
    BY <1>8, SlotsUntouched DEF TaskStep, TaskArms, TaskChecks, TaskWakes, TaskDrains, TaskEnds
<1> QED
    BY <1>1, <1>2, <1>3, <1>4, <1>5, <1>6, <1>7, <1>8 DEF Next
-----------------------------------------------------------------------------------
(* The sessions: steps that move no port. *)

\* A step that keeps every task's tracks and every request's port, and at most
\* forgets entries, keeps the sessions' invariant.
LEMMA QuietKeeps ==
    ASSUME SessInv, used' = used,
           handler' \in [Conns -> Request],
           \A c \in Conns : \A p : Wants(c, p)' <=> Wants(c, p),
           entry' \in [Conns -> [Ids -> 0..MaxGen]],
           \A c \in Conns, i \in Ids : entry'[c][i] \in {0, entry[c][i]},
           sess' \in [Gens -> Session],
           \A g \in Gens : /\ TaskRuns(sess'[g]) <=> TaskRuns(sess[g])
                           /\ sess'[g].tracks = sess[g].tracks
                           /\ sess'[g].conn = sess[g].conn /\ sess'[g].id = sess[g].id
    PROVE  SessInv'
<1>1. Typed'
    BY DEF SessInv, Typed
<1>2. EntryLives'
  <2> SUFFICES ASSUME NEW c \in Conns, NEW i \in Ids, entry'[c][i] # 0
               PROVE  /\ TaskRuns(sess'[entry'[c][i]])
                      /\ sess'[entry'[c][i]].conn = c /\ sess'[entry'[c][i]].id = i
      BY DEF EntryLives
  <2>1. entry'[c][i] = entry[c][i] /\ entry[c][i] \in Gens
      BY RtspAssumption DEF SessInv, Typed, Gens
  <2> QED
      BY <2>1 DEF SessInv, EntryLives
<1>3. TaskPlaced'
    BY DEF SessInv, TaskPlaced
<1>4. \A g \in Gens : \A k, p : Holds(g, k, p)' <=> Holds(g, k, p)
    BY DEF Holds
<1>5. HeldOnce'
  <2> HIDE DEF Holds, Wants
  <2> QED
      BY <1>4 DEF SessInv, HeldOnce
<1> QED
    BY <1>1, <1>2, <1>3, <1>5 DEF SessInv

\* A listed session is one of the sessions set up.
LEMMA ListedIsGen ==
    ASSUME SessInv, NEW c \in Conns, NEW i \in Ids, entry[c][i] # 0
    PROVE  entry[c][i] \in Gens
BY RtspAssumption DEF SessInv, Typed, Gens

\* Touching a session changes its age alone.
LEMMA TouchedIs ==
    ASSUME SessInv, NEW c \in Conns, NEW i \in Ids
    PROVE  /\ Touched(c, i) \in [Gens -> Session]
           /\ \A g \in Gens :
                 /\ Touched(c, i)[g].pc = sess[g].pc /\ Touched(c, i)[g].tracks = sess[g].tracks
                 /\ Touched(c, i)[g].conn = sess[g].conn /\ Touched(c, i)[g].id = sess[g].id
<1>1. sess \in [Gens -> Session]
    BY DEF SessInv, Typed
<1>2. ASSUME NEW g \in Gens
      PROVE  /\ [sess[g] EXCEPT !.age = 0] \in Session
             /\ [sess[g] EXCEPT !.age = 0].pc = sess[g].pc
             /\ [sess[g] EXCEPT !.age = 0].tracks = sess[g].tracks
             /\ [sess[g] EXCEPT !.age = 0].conn = sess[g].conn
             /\ [sess[g] EXCEPT !.age = 0].id = sess[g].id
  <2>1. sess[g] \in Session
      BY <1>1
  <2> QED
      BY <2>1 DEF Session
<1> QED
    BY <1>1, <1>2 DEF Touched

\* OPTIONS, GET_PARAMETER and PAUSE keep the sessions' invariant.
LEMMA KeepAliveKeeps ==
    ASSUME SessInv, NEW c \in Conns, NEW i \in Ids, KeepAlive(c, i)
    PROVE  SessInv'
<1>1. sess' = Touched(c, i) /\ UNCHANGED <<handler, entry, used>>
    BY DEF KeepAlive
<1>2. /\ sess' \in [Gens -> Session]
      /\ \A g \in Gens : /\ TaskRuns(sess'[g]) <=> TaskRuns(sess[g])
                         /\ sess'[g].tracks = sess[g].tracks
                         /\ sess'[g].conn = sess[g].conn /\ sess'[g].id = sess[g].id
    BY <1>1, TouchedIs DEF TaskRuns
<1>3. /\ handler' \in [Conns -> Request] /\ \A d \in Conns : \A p : Wants(d, p)' <=> Wants(d, p)
    BY <1>1 DEF SessInv, Typed, Wants
<1>4. /\ entry' \in [Conns -> [Ids -> 0..MaxGen]]
      /\ \A d \in Conns, j \in Ids : entry'[d][j] \in {0, entry[d][j]}
    BY <1>1 DEF SessInv, Typed
<1> QED
    BY <1>1, <1>2, <1>3, <1>4, QuietKeeps

\* PLAY keeps the sessions' invariant.
LEMMA PlayKeeps ==
    ASSUME SessInv, NEW c \in Conns, NEW i \in Ids, Play(c, i)
    PROVE  SessInv'
<1> DEFINE h == entry[c][i]
           t == Touched(c, i)
           b == sess[h].pc \in {"armed", "parked"}
           s == [t[h] EXCEPT !.fired = TRUE, !.notified = b]
<1>1. h \in Gens
    BY ListedIsGen DEF Play
<1>2. /\ t \in [Gens -> Session]
      /\ \A g \in Gens : /\ t[g].pc = sess[g].pc /\ t[g].tracks = sess[g].tracks
                         /\ t[g].conn = sess[g].conn /\ t[g].id = sess[g].id
    BY TouchedIs
<1>3. sess' = [t EXCEPT ![h] = s] /\ UNCHANGED <<handler, entry, used>> /\ b \in BOOLEAN
    BY DEF Play
<1> HIDE DEF h, t, b
<1>4. t[h] \in Session
    BY <1>1, <1>2
<1>5. /\ s \in Session /\ s.pc = t[h].pc /\ s.tracks = t[h].tracks
      /\ s.conn = t[h].conn /\ s.id = t[h].id
    BY <1>3, <1>4 DEF Session
<1> HIDE DEF s
<1>6. /\ sess' \in [Gens -> Session]
      /\ \A g \in Gens : /\ TaskRuns(sess'[g]) <=> TaskRuns(sess[g])
                         /\ sess'[g].tracks = sess[g].tracks
                         /\ sess'[g].conn = sess[g].conn /\ sess'[g].id = sess[g].id
    BY <1>1, <1>2, <1>3, <1>5 DEF TaskRuns
<1>7. /\ handler' \in [Conns -> Request] /\ \A d \in Conns : \A p : Wants(d, p)' <=> Wants(d, p)
    BY <1>3 DEF SessInv, Typed, Wants
<1>8. /\ entry' \in [Conns -> [Ids -> 0..MaxGen]]
      /\ \A d \in Conns, j \in Ids : entry'[d][j] \in {0, entry[d][j]}
    BY <1>3 DEF SessInv, Typed
<1> QED
    BY <1>3, <1>6, <1>7, <1>8, QuietKeeps
\* Entries that leave the registry keep the sessions' invariant: their tasks still run,
\* so that nothing is dropped with them.
LEMMA RemoveGensKeeps ==
    ASSUME SessInv, NEW c \in Conns, NEW gs \in SUBSET Gens,
           \A g \in gs : Listed(c, g),
           RemoveGens(c, gs), UNCHANGED handler
    PROVE  SessInv'
<1>1. ASSUME NEW g \in gs PROVE Dropped(g) = {}
  <2>1. PICK i \in Ids : entry[c][i] = g
      BY DEF Listed
  <2>2. g # 0
      BY RtspAssumption DEF Gens
  <2>3. TaskRuns(sess[g])
      BY <2>1, <2>2 DEF SessInv, EntryLives
  <2> QED
      BY <2>3 DEF Dropped
<1>2. used' = used
  <2>1. UNION {Dropped(g) : g \in gs} = {}
      BY <1>1
  <2> QED
      BY <2>1 DEF RemoveGens
<1>3. /\ entry' \in [Conns -> [Ids -> 0..MaxGen]]
      /\ \A d \in Conns, j \in Ids : entry'[d][j] \in {0, entry[d][j]}
  <2>1. entry \in [Conns -> [Ids -> 0..MaxGen]] /\ 0 \in 0..MaxGen
      BY RtspAssumption DEF SessInv, Typed
  <2>2. entry' = [entry EXCEPT ![c] = [j \in Ids |-> IF entry[c][j] \in gs THEN 0 ELSE entry[c][j]]]
      BY DEF RemoveGens
  <2> QED
      BY <2>1, <2>2
<1>4. /\ sess' \in [Gens -> Session]
      /\ \A g \in Gens : /\ TaskRuns(sess'[g]) <=> TaskRuns(sess[g])
                         /\ sess'[g].tracks = sess[g].tracks
                         /\ sess'[g].conn = sess[g].conn /\ sess'[g].id = sess[g].id
  <2>1. sess \in [Gens -> Session]
      BY DEF SessInv, Typed
  <2>2. ASSUME NEW g \in Gens
        PROVE  LET s == [sess[g] EXCEPT !.cancelled = TRUE, !.age = 0]
               IN  /\ s \in Session /\ s.pc = sess[g].pc /\ s.tracks = sess[g].tracks
                   /\ s.conn = sess[g].conn /\ s.id = sess[g].id
    <3>1. sess[g] \in Session
        BY <2>1
    <3> QED
        BY <3>1 DEF Session
  <2> QED
      BY <2>1, <2>2 DEF RemoveGens, TaskRuns
<1>5. /\ handler' \in [Conns -> Request] /\ \A d \in Conns : \A p : Wants(d, p)' <=> Wants(d, p)
    BY DEF SessInv, Typed, Wants
<1> QED
    BY <1>2, <1>3, <1>4, <1>5, QuietKeeps

\* A step of a task that changes nothing of its session but its flags and where it is.
LEMMA TaskMoveKeeps ==
    ASSUME SessInv, NEW g \in Gens, NEW s \in Session,
           sess' = [sess EXCEPT ![g] = s],
           TaskRuns(s) <=> TaskRuns(sess[g]),
           s.tracks = sess[g].tracks, s.conn = sess[g].conn, s.id = sess[g].id,
           UNCHANGED <<handler, entry, used>>
    PROVE  SessInv'
<1>1. sess \in [Gens -> Session]
    BY DEF SessInv, Typed
<1>2. /\ sess' \in [Gens -> Session]
      /\ \A h \in Gens : /\ TaskRuns(sess'[h]) <=> TaskRuns(sess[h])
                         /\ sess'[h].tracks = sess[h].tracks
                         /\ sess'[h].conn = sess[h].conn /\ sess'[h].id = sess[h].id
    BY <1>1
<1>3. /\ handler' \in [Conns -> Request] /\ \A d \in Conns : \A p : Wants(d, p)' <=> Wants(d, p)
    BY DEF SessInv, Typed, Wants
<1>4. /\ entry' \in [Conns -> [Ids -> 0..MaxGen]]
      /\ \A d \in Conns, j \in Ids : entry'[d][j] \in {0, entry[d][j]}
    BY DEF SessInv, Typed
<1> QED
    BY <1>2, <1>3, <1>4, QuietKeeps

\* A session's task on its way to playing and draining keeps the sessions' invariant.
LEMMA TaskRunsOn ==
    ASSUME SessInv, NEW g \in Gens, TaskArms(g) \/ TaskChecks(g) \/ TaskWakes(g) \/ TaskDrains(g)
    PROVE  SessInv'
<1>1. sess[g] \in Session
    BY DEF SessInv, Typed
<1>2. CASE TaskArms(g) \/ TaskWakes(g)
  <2>1. PICK to \in {"armed", "playing"} :
           /\ sess' = [sess EXCEPT ![g] = [sess[g] EXCEPT !.pc = to, !.notified = FALSE]]
           /\ TaskRuns(sess[g]) /\ UNCHANGED <<handler, entry, used>>
      BY <1>2 DEF TaskArms, TaskWakes, Move, TaskRuns
  <2> DEFINE s == [sess[g] EXCEPT !.pc = to, !.notified = FALSE]
  <2>2. /\ s \in Session /\ TaskRuns(s) /\ s.tracks = sess[g].tracks
        /\ s.conn = sess[g].conn /\ s.id = sess[g].id
      BY <1>1 DEF Session, TaskRuns
  <2> QED
      BY <2>1, <2>2, TaskMoveKeeps
<1>3. CASE TaskChecks(g)
  <2> DEFINE to == IF sess[g].fired THEN "playing" ELSE "parked"
             s == [sess[g] EXCEPT !.pc = to]
  <2>1. sess' = [sess EXCEPT ![g] = s] /\ TaskRuns(sess[g]) /\ UNCHANGED <<handler, entry, used>>
      BY <1>3 DEF TaskChecks, TaskRuns
  <2>2. to \in {"playing", "parked"}
      OBVIOUS
  <2> HIDE DEF to
  <2>3. /\ s \in Session /\ TaskRuns(s) /\ s.tracks = sess[g].tracks
        /\ s.conn = sess[g].conn /\ s.id = sess[g].id
      BY <1>1, <2>2 DEF Session, TaskRuns
  <2> QED
      BY <2>1, <2>3, TaskMoveKeeps
<1>4. CASE TaskDrains(g)
  <2> DEFINE s == [sess[g] EXCEPT !.pc = "draining", !.cancelled = TRUE]
  <2>1. sess' = [sess EXCEPT ![g] = s] /\ TaskRuns(sess[g]) /\ UNCHANGED <<handler, entry, used>>
      BY <1>4 DEF TaskDrains, TaskRuns
  <2>2. /\ s \in Session /\ TaskRuns(s) /\ s.tracks = sess[g].tracks
        /\ s.conn = sess[g].conn /\ s.id = sess[g].id
      BY <1>1 DEF Session, TaskRuns
  <2> QED
      BY <2>1, <2>2, TaskMoveKeeps
<1> QED
    BY <1>2, <1>3, <1>4
-----------------------------------------------------------------------------------
(* The sessions: steps that move a port. *)

\* A set of numbers that is not empty has a least element.
LEMMA LeastNumber ==
    ASSUME NEW S \in SUBSET Nat, S # {}
    PROVE  \E m \in S : \A i \in S : m <= i
<1>1. PICK m \in S : \A i \in S : ~(<<i, m>> \in OpToRel(<, Nat))
    BY WFMin, NatLessThanWellFounded, Zenon
<1>2. \A i \in S : ~(i < m)
    BY <1>1 DEF OpToRel
<1> QED
    BY <1>2

\* A transport has its port pair, or none when it is interleaved.
LEMMA OnePort ==
    ASSUME NEW port
    PROVE  PortsOf(<<port>>) = {port} \ {0}
<1>1. \A k \in 1..Len(<<port>>) : k = 1
    OBVIOUS
<1>2. 1 \in 1..Len(<<port>>) /\ <<port>>[1] = port
    OBVIOUS
<1> QED
    BY <1>1, <1>2 DEF PortsOf

\* SETUP of one more track: the session's task is the new lease's only holder.
LEMMA SetupTrackKeeps ==
    ASSUME SessInv, NEW c \in Conns, NEW i \in Ids, NEW port \in {0} \cup Acquirable,
           SetupBegins(c, i, port), entry[c][i] # 0
    PROVE  SessInv'
<1> DEFINE h == entry[c][i]
           t == Touched(c, i)
           n == Len(sess[h].tracks)
           s == [t[h] EXCEPT !.tracks = Append(sess[h].tracks, port)]
<1>1. h \in Gens
    BY ListedIsGen
<1>2. /\ t \in [Gens -> Session]
      /\ \A g \in Gens : /\ t[g].pc = sess[g].pc /\ t[g].tracks = sess[g].tracks
                         /\ t[g].conn = sess[g].conn /\ t[g].id = sess[g].id
    BY TouchedIs
<1>3. /\ n < MaxTracks /\ sess' = [t EXCEPT ![h] = s] /\ UNCHANGED <<handler, entry>>
      /\ used' = used \cup ({port} \ {0})
  <2>1. used' = used \cup PortsOf(<<port>>) /\ UNCHANGED <<handler, entry>>
      BY DEF SetupBegins
  <2>2. n < MaxTracks /\ sess' = [t EXCEPT ![h] = s]
      BY Zenon DEF SetupBegins
  <2> HIDE DEF h, t, s, n
  <2> QED
      BY <2>1, <2>2, OnePort
<1>4. TaskRuns(sess[h]) /\ sess[h] \in Session /\ sess[h].tracks \in Tracks
    BY <1>1 DEF SessInv, EntryLives, Typed, Session
<1>5. port = 0 \/ port \in Ports \ used
    BY DEF Acquirable
<1> HIDE DEF h, t
<1>6. t[h] \in Session /\ t[h].tracks = sess[h].tracks
    BY <1>1, <1>2
<1>7. /\ n \in Nat /\ Append(sess[h].tracks, port) \in Tracks
      /\ Len(Append(sess[h].tracks, port)) = n + 1
      /\ \A k \in 1..n : Append(sess[h].tracks, port)[k] = sess[h].tracks[k]
      /\ Append(sess[h].tracks, port)[n + 1] = port
    BY <1>4, <1>5, <1>6 DEF Tracks
<1>8. /\ s \in Session /\ s.pc = t[h].pc /\ s.tracks = Append(sess[h].tracks, port)
      /\ s.conn = t[h].conn /\ s.id = t[h].id
    BY <1>6, <1>7 DEF Session
<1> HIDE DEF s, n
<1>9. /\ sess' \in [Gens -> Session] /\ sess'[h].tracks = Append(sess[h].tracks, port)
      /\ \A g \in Gens : /\ TaskRuns(sess'[g]) <=> TaskRuns(sess[g])
                         /\ sess'[g].conn = sess[g].conn /\ sess'[g].id = sess[g].id
                         /\ g # h => sess'[g].tracks = sess[g].tracks
    BY <1>1, <1>2, <1>3, <1>8 DEF TaskRuns
<1>10. Typed'
  <2>1. IsFiniteSet(used') /\ used' \subseteq Ports
    <3>1. used' = used \/ used' = used \cup {port}
        BY <1>3
    <3> QED
        BY <1>3, <1>5, <3>1, FS_AddElement DEF SessInv, Typed
  <2>2. \A g \in Gens : Len(sess'[g].tracks) <= MaxTracks
      BY <1>3, <1>7, <1>9, RtspAssumption DEF SessInv, Typed
  <2> QED
      BY <1>3, <1>9, <2>1, <2>2 DEF SessInv, Typed
<1>11. EntryLives'
  <2>1. \A d \in Conns, j \in Ids : entry[d][j] # 0 => entry[d][j] \in Gens
      BY ListedIsGen
  <2> QED
      BY <1>3, <1>9, <2>1 DEF SessInv, EntryLives
<1>12. TaskPlaced'
    BY <1>9 DEF SessInv, TaskPlaced
<1>13. \A g \in Gens : \A k \in Nat : \A p :
          Holds(g, k, p)' <=> Holds(g, k, p) \/ (g = h /\ k = n + 1 /\ p = port)
  <2> SUFFICES ASSUME NEW g \in Gens, NEW k \in Nat, NEW p
               PROVE  Holds(g, k, p)' <=> Holds(g, k, p) \/ (g = h /\ k = n + 1 /\ p = port)
      OBVIOUS
  <2>1. CASE g # h
      BY <1>9, <2>1 DEF Holds
  <2>2. CASE g = h
    <3>1. k \in 1..(n + 1) <=> k \in 1..n \/ k = n + 1
        BY <1>7
    <3>2. ~(n + 1 \in 1..n)
        BY <1>7
    <3>3. Len(sess[h].tracks) = n
        BY DEF n
    <3> QED
        BY <1>4, <1>7, <1>9, <2>2, <3>1, <3>2, <3>3 DEF Holds
  <2> QED
      BY <2>1, <2>2
<1>14. \A d \in Conns : \A p : Wants(d, p)' <=> Wants(d, p)
    BY <1>3 DEF Wants
<1>15. HeldOnce'
  <2>1. n + 1 \in Nat /\ 0 \notin Ports
      BY <1>7, RtspAssumption
  <2>2. HeldOnce
      BY DEF SessInv
  <2>3. \A g \in Gens, k \in Nat : ~(port \in Ports /\ Holds(g, k, port))
      BY <1>5, <2>1, <2>2 DEF HeldOnce
  <2>4. \A d \in Conns : ~(port \in Ports /\ Wants(d, port))
      BY <1>5, <2>1, <2>2 DEF HeldOnce
  <2>5. \A p \in used' : (\E g \in Gens : \E k \in Nat : Holds(g, k, p)') \/ (\E d \in Conns : Wants(d, p)')
      BY <1>1, <1>3, <1>13, <1>14, <2>1, <2>2 DEF HeldOnce
  <2> QED
      BY <1>3, <1>13, <1>14, <2>1, <2>2, <2>3, <2>4, <2>5 DEF HeldOnce
<1> QED
    BY <1>10, <1>11, <1>12, <1>15 DEF SessInv

\* SETUP of a new session: the request itself holds the lease while it subscribes.
LEMMA SetupNewKeeps ==
    ASSUME SessInv, NEW c \in Conns, NEW i \in Ids, NEW port \in {0} \cup Acquirable,
           SetupBegins(c, i, port), entry[c][i] = 0
    PROVE  SessInv'
<1>1. /\ handler' = [handler EXCEPT ![c] = [op |-> "setup", id |-> i, port |-> port]]
      /\ used' = used \cup ({port} \ {0}) /\ UNCHANGED <<sess, entry>>
      /\ handler[c] = Idle
    BY OnePort DEF SetupBegins, Ready
<1>2. port = 0 \/ port \in Ports \ used
    BY DEF Acquirable
<1>3. handler' \in [Conns -> Request]
    BY <1>1, <1>2 DEF SessInv, Typed, Request
<1>4. Typed'
  <2>1. used' = used \/ used' = used \cup {port}
      BY <1>1
  <2>2. IsFiniteSet(used') /\ used' \subseteq Ports
      BY <1>1, <1>2, <2>1, FS_AddElement DEF SessInv, Typed
  <2> QED
      BY <1>1, <1>3, <2>2 DEF SessInv, Typed
<1>5. EntryLives' /\ TaskPlaced'
    BY <1>1 DEF SessInv, EntryLives, TaskPlaced
<1>6. \A g \in Gens : \A k \in Nat : \A p : Holds(g, k, p)' <=> Holds(g, k, p)
    BY <1>1 DEF Holds
<1>7. \A d \in Conns : \A p : Wants(d, p)' <=> Wants(d, p) \/ (d = c /\ p = port)
    BY <1>1 DEF SessInv, Typed, Wants, Idle
<1>8. HeldOnce'
  <2>1. 0 \notin Ports
      BY RtspAssumption
  <2>2. HeldOnce
      BY DEF SessInv
  <2>3. \A g \in Gens, k \in Nat : ~(port \in Ports /\ Holds(g, k, port))
      BY <1>2, <2>1, <2>2 DEF HeldOnce
  <2>4. \A d \in Conns : ~(port \in Ports /\ Wants(d, port))
      BY <1>2, <2>1, <2>2 DEF HeldOnce
  <2>5. \A p \in used' : (\E g \in Gens : \E k \in Nat : Holds(g, k, p)') \/ (\E d \in Conns : Wants(d, p)')
      BY <1>1, <1>6, <1>7, <2>2 DEF HeldOnce
  <2> QED
      BY <1>1, <1>6, <1>7, <2>1, <2>2, <2>3, <2>4, <2>5 DEF HeldOnce
<1> QED
    BY <1>4, <1>5, <1>8 DEF SessInv
\* A refused subscription gives its lease back and no other.
LEMMA SetupFailsKeeps ==
    ASSUME SessInv, NEW c \in Conns, SetupFails(c)
    PROVE  SessInv'
<1> DEFINE port == handler[c].port
<1>1. /\ handler' = [handler EXCEPT ![c] = Idle] /\ handler[c].op = "setup"
      /\ used' = used \ ({port} \ {0}) /\ UNCHANGED <<sess, entry>>
    BY OnePort DEF SetupFails
<1>2. handler \in [Conns -> Request] /\ handler' \in [Conns -> Request]
    BY <1>1 DEF SessInv, Typed, Request
<1>3. Wants(c, port)
    BY <1>1 DEF Wants
<1> HIDE DEF port
<1>4. Typed'
  <2>1. IsFiniteSet(used')
      BY <1>1, FS_Subset DEF SessInv, Typed
  <2> QED
      BY <1>1, <1>2, <2>1 DEF SessInv, Typed
<1>5. EntryLives' /\ TaskPlaced'
    BY <1>1 DEF SessInv, EntryLives, TaskPlaced
<1>6. \A g \in Gens : \A k \in Nat : \A p : Holds(g, k, p)' <=> Holds(g, k, p)
    BY <1>1 DEF Holds
<1>7. \A d \in Conns : \A p : Wants(d, p)' <=> Wants(d, p) /\ d # c
    BY <1>1, <1>2 DEF Wants, Idle
<1>8. \A p : Wants(c, p) => p = port
    BY DEF Wants, port
<1>9. HeldOnce'
  <2>1. 0 \notin Ports /\ HeldOnce /\ used \subseteq Ports
      BY RtspAssumption DEF SessInv, Typed
  <2>2. \A p \in used' : p \in used /\ p # port
      BY <1>1, <2>1
  <2>3. \A p \in used' : (\E g \in Gens : \E k \in Nat : Holds(g, k, p)') \/ (\E d \in Conns : Wants(d, p)')
    <3> SUFFICES ASSUME NEW p \in used'
                 PROVE  (\E g \in Gens : \E k \in Nat : Holds(g, k, p)') \/ (\E d \in Conns : Wants(d, p)')
        OBVIOUS
    <3>1. (\E g \in Gens : \E k \in Nat : Holds(g, k, p)) \/ (\E d \in Conns : Wants(d, p))
        BY <2>1, <2>2 DEF HeldOnce
    <3> QED
        BY <1>6, <1>7, <1>8, <2>2, <3>1
  <2>4. \A p \in Ports : (p \in used /\ p # port) => p \in used'
      BY <1>1
  <2>5. port \in Ports => \A g \in Gens, k \in Nat : ~Holds(g, k, port)
      BY <1>3, <2>1 DEF HeldOnce
  <2>6. port \in Ports => \A d \in Conns : Wants(d, port) => d = c
      BY <1>3, <2>1 DEF HeldOnce
  <2>7. \A p \in Ports :
          /\ \A g \in Gens, k \in Nat : Holds(g, k, p)' => p \in used'
          /\ \A d \in Conns : Wants(d, p)' => p \in used'
      BY <1>6, <1>7, <2>1, <2>4, <2>5, <2>6 DEF HeldOnce
  <2> QED
      BY <1>6, <1>7, <2>1, <2>3, <2>7 DEF HeldOnce
<1> QED
    BY <1>4, <1>5, <1>9 DEF SessInv

\* Subscribed: the lease passes from the request to the new session's task.
LEMMA SetupSubscribedKeeps ==
    ASSUME SessInv, NEW c \in Conns, SetupSubscribed(c)
    PROVE  SessInv'
<1> DEFINE g0 == CHOOSE g \in Unborn : \A h \in Unborn : g <= h
           i == handler[c].id
           port == handler[c].port
           s == [None EXCEPT !.pc = "start", !.conn = c, !.id = i, !.tracks = <<port>>]
<1>1. /\ handler[c].op = "setup"
      /\ entry' = [entry EXCEPT ![c][i] = g0]
      /\ sess' = [sess EXCEPT ![g0] = s]
      /\ handler' = [handler EXCEPT ![c] = Idle] /\ used' = used
    BY DEF SetupSubscribed
<1>2. g0 \in Gens /\ sess[g0].pc = "-"
  <2>1. \E g \in Unborn : \A h \in Unborn : g <= h
    <3>1. Unborn \in SUBSET Nat /\ Unborn # {}
        BY RtspAssumption DEF SetupSubscribed, Unborn, Gens
    <3> QED
        BY <3>1, LeastNumber
  <2>2. g0 \in Unborn
      BY <2>1
  <2> QED
      BY <2>2 DEF Unborn
<1>3. i \in Ids /\ port \in Ports \cup {0} /\ Wants(c, port) /\ \A p : Wants(c, p) => p = port
    BY <1>1 DEF SessInv, Typed, Request, Wants, Idle
<1> HIDE DEF g0, i, port
<1>4. <<port>> \in Tracks /\ Len(<<port>>) = 1 /\ <<port>>[1] = port
    BY <1>3 DEF Tracks
<1>5. /\ s \in Session /\ s.pc = "start" /\ s.conn = c /\ s.id = i /\ s.tracks = <<port>>
    BY <1>3, <1>4 DEF Session, None
<1> HIDE DEF s
<1>6. sess \in [Gens -> Session] /\ sess' \in [Gens -> Session]
      /\ sess'[g0] = s /\ \A g \in Gens \ {g0} : sess'[g] = sess[g]
    BY <1>1, <1>2, <1>5 DEF SessInv, Typed
<1>7. TaskRuns(sess'[g0]) /\ ~TaskRuns(sess[g0]) /\ g0 \in 0..MaxGen /\ g0 # 0
    BY <1>2, <1>5, <1>6, RtspAssumption DEF TaskRuns, Gens
<1>8. /\ entry' \in [Conns -> [Ids -> 0..MaxGen]]
      /\ entry'[c][i] = g0
      /\ \A d \in Conns, j \in Ids : <<d, j>> # <<c, i>> => entry'[d][j] = entry[d][j]
    BY <1>1, <1>3, <1>7 DEF SessInv, Typed
<1>9. handler \in [Conns -> Request] /\ handler' \in [Conns -> Request]
    BY <1>1 DEF SessInv, Typed, Request
<1>10. Typed'
  <2>1. \A g \in Gens : Len(sess'[g].tracks) <= MaxTracks
    <3>1. Len(sess'[g0].tracks) <= MaxTracks
      <4>1. Len(sess'[g0].tracks) = 1
          BY <1>4, <1>5, <1>6
      <4>2. 1 <= MaxTracks
          BY RtspAssumption
      <4> QED
          BY <4>1, <4>2
    <3>2. \A g \in Gens \ {g0} : Len(sess'[g].tracks) <= MaxTracks
        BY <1>6 DEF SessInv, Typed
    <3> QED
        BY <3>1, <3>2
  <2> QED
      BY <1>1, <1>6, <1>8, <1>9, <2>1 DEF SessInv, Typed
<1>11. EntryLives'
  <2> SUFFICES ASSUME NEW d \in Conns, NEW j \in Ids, entry'[d][j] # 0
               PROVE  /\ TaskRuns(sess'[entry'[d][j]])
                      /\ sess'[entry'[d][j]].conn = d /\ sess'[entry'[d][j]].id = j
      BY DEF EntryLives
  <2>1. CASE <<d, j>> = <<c, i>>
      BY <1>5, <1>6, <1>7, <1>8, <2>1
  <2>2. CASE <<d, j>> # <<c, i>>
    <3>1. entry'[d][j] = entry[d][j]
        BY <1>8, <2>2
    <3>2. entry[d][j] \in Gens /\ TaskRuns(sess[entry[d][j]])
        BY <3>1, ListedIsGen DEF SessInv, EntryLives
    <3>3. entry[d][j] # g0
        BY <1>7, <3>2
    <3> QED
        BY <1>6, <3>1, <3>2, <3>3 DEF SessInv, EntryLives
  <2> QED
      BY <2>1, <2>2
<1>12. TaskPlaced'
    BY <1>3, <1>5, <1>6 DEF SessInv, TaskPlaced
<1>13. \A g \in Gens : \A k \in Nat : \A p :
          Holds(g, k, p)' <=> Holds(g, k, p) \/ (g = g0 /\ k = 1 /\ p = port)
  <2> SUFFICES ASSUME NEW g \in Gens, NEW k \in Nat, NEW p
               PROVE  Holds(g, k, p)' <=> Holds(g, k, p) \/ (g = g0 /\ k = 1 /\ p = port)
      OBVIOUS
  <2>1. CASE g # g0
      BY <1>6, <2>1 DEF Holds
  <2>2. CASE g = g0
    <3>1. ~Holds(g, k, p)
        BY <1>7, <2>2 DEF Holds
    <3>2. sess'[g].tracks = <<port>> /\ TaskRuns(sess'[g])
        BY <1>5, <1>6, <1>7, <2>2
    <3>3. k \in 1..1 <=> k = 1
        OBVIOUS
    <3> QED
        BY <1>4, <2>2, <3>1, <3>2, <3>3 DEF Holds
  <2> QED
      BY <2>1, <2>2
<1>14. \A d \in Conns : \A p : Wants(d, p)' <=> Wants(d, p) /\ d # c
    BY <1>1, <1>9 DEF Wants, Idle
<1>15. HeldOnce'
  <2>1. HeldOnce /\ used \subseteq Ports
      BY DEF SessInv, Typed
  <2>2. port \in Ports => \A g \in Gens, k \in Nat : ~Holds(g, k, port)
      BY <1>3, <2>1 DEF HeldOnce
  <2>3. port \in Ports => \A d \in Conns : Wants(d, port) => d = c
      BY <1>3, <2>1 DEF HeldOnce
  <2>4. \A p \in used' : (\E g \in Gens : \E k \in Nat : Holds(g, k, p)') \/ (\E d \in Conns : Wants(d, p)')
    <3> SUFFICES ASSUME NEW p \in used
                 PROVE  (\E g \in Gens : \E k \in Nat : Holds(g, k, p)') \/ (\E d \in Conns : Wants(d, p)')
        BY <1>1
    <3>1. (\E g \in Gens : \E k \in Nat : Holds(g, k, p)) \/ (\E d \in Conns : Wants(d, p))
        BY <2>1 DEF HeldOnce
    <3>2. Wants(c, p) => \E g \in Gens : \E k \in Nat : Holds(g, k, p)'
        BY <1>2, <1>3, <1>13
    <3> QED
        BY <1>2, <1>13, <1>14, <3>1, <3>2
  <2>5. \A p \in Ports :
          /\ \A g \in Gens, k \in Nat : Holds(g, k, p)' => p \in used'
          /\ \A d \in Conns : Wants(d, p)' => p \in used'
      BY <1>1, <1>3, <1>13, <1>14, <2>1 DEF HeldOnce
  <2>6. \A p \in Ports :
          /\ \A g, h \in Gens, k, l \in Nat : Holds(g, k, p)' /\ Holds(h, l, p)' => g = h /\ k = l
          /\ \A g \in Gens, k \in Nat, d \in Conns : ~(Holds(g, k, p)' /\ Wants(d, p)')
          /\ \A d, e \in Conns : Wants(d, p)' /\ Wants(e, p)' => d = e
      BY <1>13, <1>14, <2>1, <2>2, <2>3 DEF HeldOnce
  <2> QED
      BY <2>4, <2>5, <2>6 DEF HeldOnce
<1> QED
    BY <1>10, <1>11, <1>12, <1>15 DEF SessInv
\* The end of a task: its leases go back, and the entry that goes with it is nobody's.
LEMMA TaskEndsKeeps ==
    ASSUME SessInv, NEW g \in Gens, TaskEnds(g)
    PROVE  SessInv'
<1> DEFINE c == sess[g].conn
           i == sess[g].id
           h == entry[c][i]
           s == [None EXCEPT !.pc = "done", !.conn = c]
<1>1. /\ TaskRuns(sess[g])
      /\ entry' = [entry EXCEPT ![c][i] = 0]
      /\ sess' = [k \in Gens |-> IF k = g THEN s
                                 ELSE [sess[k] EXCEPT !.cancelled = sess[k].cancelled \/ k = h]]
      /\ used' = used \ PortsOf(sess[g].tracks)
      /\ handler' = handler
    BY DEF TaskEnds, TaskRuns
<1>2. c \in Conns /\ i \in Ids
    BY <1>1 DEF SessInv, TaskPlaced
<1> HIDE DEF c, i
<1>3. sess \in [Gens -> Session] /\ sess[g] \in Session /\ sess[g].tracks \in Tracks
    BY DEF SessInv, Typed, Session
<1>4. s \in Session /\ s.pc = "done" /\ s.tracks = <<>> /\ Len(<<>>) = 0
  <2>1. <<>> \in Tracks
      BY DEF Tracks
  <2> QED
      BY <1>2, <2>1 DEF Session, None
<1> HIDE DEF s, h
<1>5. ASSUME NEW k \in Gens
      PROVE  LET r == [sess[k] EXCEPT !.cancelled = sess[k].cancelled \/ k = h]
             IN  /\ r \in Session /\ r.pc = sess[k].pc /\ r.tracks = sess[k].tracks
                 /\ r.conn = sess[k].conn /\ r.id = sess[k].id
  <2>1. sess[k] \in Session
      BY <1>3
  <2>2. (sess[k].cancelled \/ k = h) \in BOOLEAN
      OBVIOUS
  <2> QED
      BY <2>1, <2>2 DEF Session
<1>6. /\ sess' \in [Gens -> Session] /\ sess'[g] = s
      /\ \A k \in Gens \ {g} : /\ sess'[k].pc = sess[k].pc /\ sess'[k].tracks = sess[k].tracks
                               /\ sess'[k].conn = sess[k].conn /\ sess'[k].id = sess[k].id
    BY <1>1, <1>3, <1>4, <1>5
<1>7. ~TaskRuns(sess'[g]) /\ \A k \in Gens \ {g} : TaskRuns(sess'[k]) <=> TaskRuns(sess[k])
    BY <1>4, <1>6 DEF TaskRuns
<1>8. /\ entry' \in [Conns -> [Ids -> 0..MaxGen]]
      /\ entry'[c][i] = 0
      /\ \A d \in Conns, j \in Ids : <<d, j>> # <<c, i>> => entry'[d][j] = entry[d][j]
  <2>1. entry \in [Conns -> [Ids -> 0..MaxGen]] /\ 0 \in 0..MaxGen
      BY RtspAssumption DEF SessInv, Typed
  <2> QED
      BY <1>1, <1>2, <2>1
<1>9. Typed'
  <2>1. IsFiniteSet(used')
      BY <1>1, FS_Subset DEF SessInv, Typed
  <2>2. \A k \in Gens : Len(sess'[k].tracks) <= MaxTracks
      BY <1>4, <1>6, RtspAssumption DEF SessInv, Typed
  <2> QED
      BY <1>1, <1>6, <1>8, <2>1, <2>2 DEF SessInv, Typed
<1>10. EntryLives'
  <2> SUFFICES ASSUME NEW d \in Conns, NEW j \in Ids, entry'[d][j] # 0
               PROVE  /\ TaskRuns(sess'[entry'[d][j]])
                      /\ sess'[entry'[d][j]].conn = d /\ sess'[entry'[d][j]].id = j
      BY DEF EntryLives
  <2>1. <<d, j>> # <<c, i>> /\ entry'[d][j] = entry[d][j]
      BY <1>8
  <2>2. /\ entry[d][j] \in Gens /\ TaskRuns(sess[entry[d][j]])
        /\ sess[entry[d][j]].conn = d /\ sess[entry[d][j]].id = j
      BY <2>1, ListedIsGen DEF SessInv, EntryLives
  <2>3. entry[d][j] # g
      BY <2>1, <2>2 DEF c, i
  <2> QED
      BY <1>6, <1>7, <2>1, <2>2, <2>3
<1>11. TaskPlaced'
    BY <1>6, <1>7 DEF SessInv, TaskPlaced
<1>12. \A k \in Gens : \A n \in Nat : \A p : Holds(k, n, p)' <=> Holds(k, n, p) /\ k # g
    BY <1>6, <1>7 DEF Holds
<1>13. \A d \in Conns : \A p : Wants(d, p)' <=> Wants(d, p)
    BY <1>1 DEF Wants
<1>14. \A p \in Ports : p \in PortsOf(sess[g].tracks) <=> \E n \in Nat : Holds(g, n, p)
  <2>1. 0 \notin Ports /\ Len(sess[g].tracks) \in Nat
      BY <1>3, RtspAssumption DEF Tracks
  <2>2. \A n \in 1..Len(sess[g].tracks) : n \in Nat
      BY <2>1
  <2> QED
      BY <1>1, <2>1, <2>2 DEF PortsOf, Holds
<1>15. HeldOnce'
  <2>1. HeldOnce /\ used \subseteq Ports
      BY DEF SessInv, Typed
  <2>2. \A p \in used' : (\E k \in Gens : \E n \in Nat : Holds(k, n, p)') \/ (\E d \in Conns : Wants(d, p)')
    <3> SUFFICES ASSUME NEW p \in used'
                 PROVE  (\E k \in Gens : \E n \in Nat : Holds(k, n, p)') \/ (\E d \in Conns : Wants(d, p)')
        OBVIOUS
    <3>1. p \in used /\ p \in Ports /\ ~\E n \in Nat : Holds(g, n, p)
        BY <1>1, <1>14, <2>1
    <3>2. (\E k \in Gens : \E n \in Nat : Holds(k, n, p)) \/ (\E d \in Conns : Wants(d, p))
        BY <2>1, <3>1 DEF HeldOnce
    <3> QED
        BY <1>12, <1>13, <3>1, <3>2
  <2>3. \A p \in Ports : p \in used /\ p \notin PortsOf(sess[g].tracks) => p \in used'
      BY <1>1
  <2>4. \A p \in Ports :
          /\ \A k \in Gens, n \in Nat : Holds(k, n, p)' => p \in used'
          /\ \A d \in Conns : Wants(d, p)' => p \in used'
    <3> SUFFICES ASSUME NEW p \in Ports
                 PROVE  /\ \A k \in Gens, n \in Nat : Holds(k, n, p)' => p \in used'
                        /\ \A d \in Conns : Wants(d, p)' => p \in used'
        OBVIOUS
    <3>1. ASSUME NEW k \in Gens, NEW n \in Nat, Holds(k, n, p)' PROVE p \in used'
      <4>1. Holds(k, n, p) /\ k # g
          BY <1>12, <3>1
      <4>2. p \in used /\ ~\E m \in Nat : Holds(g, m, p)
          BY <2>1, <4>1 DEF HeldOnce
      <4> QED
          BY <1>14, <2>3, <4>2
    <3>2. ASSUME NEW d \in Conns, Wants(d, p)' PROVE p \in used'
      <4>1. Wants(d, p)
          BY <1>13, <3>2
      <4>2. p \in used /\ ~\E m \in Nat : Holds(g, m, p)
          BY <2>1, <4>1 DEF HeldOnce
      <4> QED
          BY <1>14, <2>3, <4>2
    <3> QED
        BY <3>1, <3>2
  <2> QED
      BY <1>12, <1>13, <2>1, <2>2, <2>4 DEF HeldOnce
<1> QED
    BY <1>9, <1>10, <1>11, <1>15 DEF SessInv

\* The sweep of a connection's sessions keeps the sessions' invariant.
LEMMA SweepKeeps ==
    ASSUME SessInv, NEW c \in Conns, sweep_expired(c)
    PROVE  SessInv'
<1>1. UNCHANGED handler
    BY DEF sweep_expired
<1>2. CASE Expired(c) # {}
  <2>1. RemoveGens(c, Expired(c))
      BY <1>2 DEF sweep_expired
  <2>2. Expired(c) \in SUBSET Gens /\ \A g \in Expired(c) : Listed(c, g)
      BY DEF Expired
  <2> HIDE DEF Expired
  <2> QED
      BY <1>1, <2>1, <2>2, RemoveGensKeeps
<1>3. CASE Expired(c) = {}
  <2>1. /\ sess' = [g \in Gens |->
                       IF Listed(c, g) THEN [sess[g] EXCEPT !.age = sess[g].age + 1] ELSE sess[g]]
        /\ UNCHANGED <<entry, used>>
      BY <1>3 DEF sweep_expired
  <2>2. sess \in [Gens -> Session]
      BY DEF SessInv, Typed
  <2>3. ASSUME NEW g \in Gens
        PROVE  LET s == [sess[g] EXCEPT !.age = sess[g].age + 1]
               IN  /\ s \in Session /\ s.pc = sess[g].pc /\ s.tracks = sess[g].tracks
                   /\ s.conn = sess[g].conn /\ s.id = sess[g].id
    <3>1. sess[g] \in Session /\ sess[g].age + 1 \in Nat
        BY <2>2 DEF Session
    <3> QED
        BY <3>1 DEF Session
  <2>4. /\ sess' \in [Gens -> Session]
        /\ \A g \in Gens : /\ TaskRuns(sess'[g]) <=> TaskRuns(sess[g])
                           /\ sess'[g].tracks = sess[g].tracks
                           /\ sess'[g].conn = sess[g].conn /\ sess'[g].id = sess[g].id
      BY <2>1, <2>2, <2>3 DEF TaskRuns
  <2>5. /\ handler' \in [Conns -> Request] /\ \A d \in Conns : \A p : Wants(d, p)' <=> Wants(d, p)
      BY <1>1 DEF SessInv, Typed, Wants
  <2>6. /\ entry' \in [Conns -> [Ids -> 0..MaxGen]]
        /\ \A d \in Conns, j \in Ids : entry'[d][j] \in {0, entry[d][j]}
      BY <2>1 DEF SessInv, Typed
  <2> QED
      BY <2>1, <2>4, <2>5, <2>6, QuietKeeps
<1> QED
    BY <1>2, <1>3

\* DESCRIBE holds no port.
LEMMA DescribeKeeps ==
    ASSUME SessInv, NEW c \in Conns, DescribeBegins(c) \/ DescribeEnds(c)
    PROVE  SessInv'
<1>1. UNCHANGED <<entry, sess, used>>
    BY DEF DescribeBegins, DescribeEnds
<1>2. PICK r \in {Idle, [op |-> "describe"]} : handler' = [handler EXCEPT ![c] = r]
    BY DEF DescribeBegins, DescribeEnds
<1>3. handler \in [Conns -> Request] /\ handler' \in [Conns -> Request]
    BY <1>2 DEF SessInv, Typed, Request
<1>4. handler[c].op # "setup" /\ r.op # "setup"
    BY DEF DescribeBegins, DescribeEnds, Ready, Idle
<1>5. \A d \in Conns : \A p : Wants(d, p)' <=> Wants(d, p)
    BY <1>2, <1>3, <1>4 DEF Wants
<1>6. /\ entry' \in [Conns -> [Ids -> 0..MaxGen]] /\ sess' \in [Gens -> Session]
      /\ \A d \in Conns, j \in Ids : entry'[d][j] \in {0, entry[d][j]}
    BY <1>1 DEF SessInv, Typed
<1> QED
    BY <1>1, <1>3, <1>5, <1>6, QuietKeeps
\* Every step keeps the sessions' invariant.
LEMMA NextKeepsSessions ==
    ASSUME SessInv, [Next]_vars
    PROVE  SessInv'
<1>1. ASSUME UNCHANGED <<handler, entry, sess, used>> PROVE SessInv'
  <2>1. Typed' /\ EntryLives' /\ TaskPlaced'
      BY <1>1 DEF SessInv, Typed, EntryLives, TaskPlaced
  <2>2. HeldOnce'
      BY <1>1 DEF SessInv, HeldOnce, Holds, Wants
  <2> QED
      BY <2>1, <2>2 DEF SessInv
<1>2. CASE UNCHANGED vars
    BY <1>1, <1>2 DEF vars
<1>3. CASE AcquireSlot \/ AcceptFails \/ Cancel \/ AcceptorStops
    BY <1>1, <1>3 DEF AcquireSlot, AcceptFails, Cancel, AcceptorStops
<1>4. ASSUME NEW c \in Conns, Accept(c) \/ (\E ok \in BOOLEAN : Handshake(c, ok)) PROVE SessInv'
    BY <1>1, <1>4 DEF Accept, Handshake
<1>5. ASSUME NEW c \in Conns, ConnEnds(c) PROVE SessInv'
  <2> DEFINE gs == {g \in Gens : Listed(c, g)}
  <2>1. RemoveGens(c, gs) /\ UNCHANGED handler
      BY <1>5 DEF ConnEnds
  <2>2. gs \in SUBSET Gens /\ \A g \in gs : Listed(c, g)
      OBVIOUS
  <2> HIDE DEF gs
  <2> QED
      BY <2>1, <2>2, RemoveGensKeeps
<1>6. ASSUME NEW c \in Conns,
             DescribeBegins(c) \/ DescribeEnds(c) \/ SetupFails(c) \/ SetupSubscribed(c) \/ sweep_expired(c)
      PROVE  SessInv'
    BY <1>6, DescribeKeeps, SetupFailsKeeps, SetupSubscribedKeeps, SweepKeeps
<1>7. ASSUME NEW c \in Conns, NEW i \in Ids, Teardown(c, i) PROVE SessInv'
  <2>1. RemoveGens(c, {entry[c][i]}) /\ UNCHANGED handler /\ entry[c][i] # 0
      BY <1>7 DEF Teardown
  <2>2. {entry[c][i]} \in SUBSET Gens /\ \A g \in {entry[c][i]} : Listed(c, g)
      BY <2>1, ListedIsGen DEF Listed
  <2> QED
      BY <2>1, <2>2, RemoveGensKeeps
<1>8. ASSUME NEW c \in Conns, NEW i \in Ids, KeepAlive(c, i) \/ Play(c, i) PROVE SessInv'
    BY <1>8, KeepAliveKeeps, PlayKeeps
<1>9. ASSUME NEW c \in Conns, NEW i \in Ids, NEW p \in {0} \cup Acquirable, SetupBegins(c, i, p)
      PROVE  SessInv'
    BY <1>9, SetupTrackKeeps, SetupNewKeeps
<1>10. ASSUME NEW g \in Gens, TaskStep(g) PROVE SessInv'
    BY <1>10, TaskRunsOn, TaskEndsKeeps DEF TaskStep
<1> QED
    BY <1>2, <1>3, <1>4, <1>5, <1>6, <1>7, <1>8, <1>9, <1>10 DEF Next

\* Both invariants hold when the server starts.
LEMMA InitInv ==
    ASSUME Init
    PROVE  IndInv
<1>1. Open = {}
    BY DEF Init, Open
<1>2. IsFiniteSet({}) /\ Cardinality({}) = 0
    BY FS_EmptySet
<1>3. SlotInv
    BY <1>1, <1>2, RtspAssumption DEF Init, SlotInv
<1>4. None \in Session /\ ~TaskRuns(None) /\ Len(None.tracks) = 0
  <2>1. <<>> \in Tracks
      BY DEF Tracks
  <2> QED
      BY <2>1 DEF None, Session, TaskRuns
<1>5. Typed
  <2>1. handler \in [Conns -> Request]
      BY DEF Init, Request
  <2>2. entry \in [Conns -> [Ids -> 0..MaxGen]]
      BY RtspAssumption DEF Init
  <2>3. sess \in [Gens -> Session] /\ \A g \in Gens : Len(sess[g].tracks) <= MaxTracks
      BY <1>4, RtspAssumption DEF Init
  <2> QED
      BY <1>2, <2>1, <2>2, <2>3 DEF Init, Typed
<1>6. EntryLives /\ TaskPlaced
    BY <1>4 DEF Init, EntryLives, TaskPlaced
<1>7. HeldOnce
  <2>1. \A g \in Gens : \A k, p : ~Holds(g, k, p)
      BY <1>4 DEF Init, Holds
  <2>2. \A c \in Conns : \A p : ~Wants(c, p)
      BY DEF Init, Wants, Idle
  <2>3. used = {}
      BY DEF Init
  <2> QED
      BY <2>1, <2>2, <2>3 DEF HeldOnce
<1> QED
    BY <1>3, <1>5, <1>6, <1>7 DEF IndInv, SessInv
-----------------------------------------------------------------------------------
(* What follows. *)

\* The claims are the held ports and the requested ones.
LEMMA ClaimIs ==
    ASSUME IndInv, NEW x
    PROVE  x \in Claims <=>
              \/ \E g \in Gens, k \in 1..MaxTracks, p \in Ports : x = <<g, k, p>> /\ Holds(g, k, p)
              \/ \E c \in Conns, p \in Ports : x = <<0, c, p>> /\ Wants(c, p)
<1>1. \A g \in Gens : (\E c \in Conns : Listed(c, g)) => TaskRuns(sess[g])
    BY RtspAssumption DEF Listed, IndInv, SessInv, EntryLives, Gens
<1>2. \A g \in Gens, k \in 1..MaxTracks :
         k \in 1..Len(sess[g].tracks) <=> k <= Len(sess[g].tracks)
  <2> SUFFICES ASSUME NEW g \in Gens, NEW k \in 1..MaxTracks
               PROVE  k \in 1..Len(sess[g].tracks) <=> k <= Len(sess[g].tracks)
      OBVIOUS
  <2>1. Len(sess[g].tracks) \in Nat
      BY DEF IndInv, SessInv, Typed, Session, Tracks
  <2> QED
      BY <2>1, RtspAssumption
<1>3. \A c \in Conns : handler[c].op = "setup" => handler[c].port \in Ports \cup {0}
    BY DEF IndInv, SessInv, Typed, Request, Idle
<1>4. 0 \notin Ports
    BY RtspAssumption
<1> QED
    BY <1>1, <1>2, <1>3, <1>4 DEF Claims, Holds, Wants
\* Every leased port has one claim and every claim a leased port.
LEMMA PortsFollow ==
    ASSUME IndInv
    PROVE  PortsAccounted
<1> DEFINE f == [x \in Claims |-> x[3]]
<1>1. HeldOnce /\ used \subseteq Ports /\ IsFiniteSet(used) /\ MaxTracks \in Nat
    BY RtspAssumption DEF IndInv, SessInv, Typed
<1>2. ASSUME NEW x \in Claims PROVE x[3] \in used
  <2>1. CASE \E g \in Gens, k \in 1..MaxTracks, p \in Ports : x = <<g, k, p>> /\ Holds(g, k, p)
      BY <1>1, <2>1 DEF HeldOnce
  <2>2. CASE \E c \in Conns, p \in Ports : x = <<0, c, p>> /\ Wants(c, p)
      BY <1>1, <2>2 DEF HeldOnce
  <2> QED
      BY <2>1, <2>2, ClaimIs
<1>3. ASSUME NEW p \in used PROVE \E x \in Claims : x[3] = p
  <2>1. CASE \E g \in Gens : \E k \in Nat : Holds(g, k, p)
    <3>1. PICK g \in Gens, k \in Nat : Holds(g, k, p)
        BY <2>1
    <3>2. k \in 1..MaxTracks
      <4>1. Len(sess[g].tracks) \in Nat /\ Len(sess[g].tracks) <= MaxTracks
          BY DEF IndInv, SessInv, Typed, Session, Tracks
      <4> QED
          BY <1>1, <3>1, <4>1 DEF Holds
    <3>3. <<g, k, p>> \in Claims /\ <<g, k, p>>[3] = p
        BY <1>1, <3>1, <3>2, ClaimIs
    <3> QED
        BY <3>3
  <2>2. CASE \E c \in Conns : Wants(c, p)
    <3>1. PICK c \in Conns : Wants(c, p)
        BY <2>2
    <3>2. <<0, c, p>> \in Claims /\ <<0, c, p>>[3] = p
        BY <1>1, <3>1, ClaimIs
    <3> QED
        BY <3>2
  <2> QED
      BY <1>1, <2>1, <2>2 DEF HeldOnce
<1>4. ASSUME NEW x \in Claims, NEW y \in Claims, x[3] = y[3] PROVE x = y
  <2>1. \/ \E g \in Gens, k \in 1..MaxTracks, p \in Ports : x = <<g, k, p>> /\ Holds(g, k, p)
        \/ \E c \in Conns, p \in Ports : x = <<0, c, p>> /\ Wants(c, p)
      BY ClaimIs
  <2>2. \/ \E g \in Gens, k \in 1..MaxTracks, p \in Ports : y = <<g, k, p>> /\ Holds(g, k, p)
        \/ \E c \in Conns, p \in Ports : y = <<0, c, p>> /\ Wants(c, p)
      BY ClaimIs
  <2>3. \A k \in 1..MaxTracks : k \in Nat
      BY <1>1
  <2> QED
      BY <1>1, <1>4, <2>1, <2>2, <2>3 DEF HeldOnce
<1>5. used = {x[3] : x \in Claims}
    BY <1>2, <1>3
<1>6. f \in Injection(Claims, used) /\ f \in Surjection(Claims, used)
    BY <1>2, <1>3, <1>4 DEF Injection, Surjection, IsInjective
<1>7. Cardinality(Claims) = Cardinality(used)
    BY <1>1, <1>6, FS_Injection
<1> QED
    BY <1>5, <1>7 DEF PortsAccounted

\* The slots and the sessions are accounted for in every state of the server.
THEOREM IndInvHolds == Spec => []IndInv
<1>1. Init => IndInv
    BY InitInv
<1>2. IndInv /\ [Next]_vars => IndInv'
    BY NextKeepsSlots, NextKeepsSessions DEF IndInv
<1> QED
    BY <1>1, <1>2, PTL DEF Spec

\* No UDP port pair and no connection slot is lost or given out twice, however requests
\* are refused, sessions are torn down, swept or reused, tasks end and connections
\* break: the leased ports are those of the tracks of running tasks and of the request
\* in progress, each once, and every slot is free, held for the next client or with a
\* connection, for any number of clients, ports and sessions.
THEOREM ResourcesAccountedHolds == Spec => []ResourcesAccounted
<1>1. IndInv => TypeOK
  <2> SUFFICES ASSUME IndInv PROVE TypeOK
      OBVIOUS
  <2>1. slots \in 0..MaxConnections
    <3>1. Cardinality(Open) \in Nat
        BY FS_CardinalityType DEF IndInv, SlotInv
    <3> QED
        BY <3>1, RtspAssumption DEF IndInv, SlotInv
  <2>2. \A g \in Gens :
           sess[g].pc \in {"-", "start", "armed", "parked", "playing", "draining", "done"}
      BY DEF IndInv, SessInv, Typed, Session
  <2> QED
      BY <2>1, <2>2 DEF IndInv, SlotInv, SessInv, Typed, TypeOK
<1>2. IndInv => SlotsAccounted
    BY DEF IndInv, SlotInv, Open, SlotsAccounted
<1>3. IndInv => ResourcesAccounted
    BY <1>1, <1>2, PortsFollow DEF ResourcesAccounted
<1> QED
    BY <1>3, IndInvHolds, PTL

\* An entry of the registry never outlives its task: as long as a session is listed its
\* task runs, under the connection and the id it is listed by (registry.rs, session_task.rs).
THEOREM EntryLivesHolds == Spec => []EntryLives
<1>1. IndInv => EntryLives
    BY DEF IndInv, SessInv
<1> QED
    BY <1>1, IndInvHolds, PTL
===================================================================================
