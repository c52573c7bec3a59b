---------------------------- MODULE WakeDiscoveryProofs ----------------------------
(***************************************************************************)
(* Proofs about WakeDiscovery, for any cameras, relays, servers, options,  *)
(* timers and bounds: the wake server's maps stay within their bound and   *)
(* give each camera the ac of its own token, and the path the register     *)
(* server was told last is the path a search returns.  The two programs    *)
(* have no variable in common, so each has an inductive invariant of its   *)
(* own; what they say to each other is in `wire'.                          *)
(***************************************************************************)
EXTENDS WakeDiscovery, TLAPS, FiniteSetTheorems

Entry == [addr : Addrs, token : Tokens, age : Ages]
Anchor == [token : Tokens, ac : {Ac(t) : t \in Tokens}, age : Ages]
Camera == [pc : {"query", "register", "beat", "awake"}, token : 0..MaxIssue, ac : Nat]

\* A map of the wake server: finitely many entries, within the bound.
Bounded(map) == IsFiniteSet(DOMAIN map) /\ Cardinality(DOMAIN map) <= MAX_MAP_ENTRIES

\* An anchor holds a token and the ac drawn with it; so does every answer on its way,
\* and a camera that goes by an answer holds its token.
WakeInv ==
    /\ DOMAIN registry \subseteq {Uid(c) : c \in Cameras}
    /\ Bounded(registry) /\ Bounded(anchors)
    /\ \A u \in DOMAIN registry : registry[u] \in Entry
    /\ \A u \in DOMAIN anchors : anchors[u] \in Anchor /\ anchors[u].ac = Ac(anchors[u].token)
    /\ issued \in 0..MaxIssue
    /\ cam \in [Cameras -> Camera]
    /\ \A c \in Cameras : cam[c].pc # "query" => cam[c].token \in Tokens
    /\ \A m \in mail : m.tag = "M2D_Q_R" => m.token \in Tokens /\ m.ac = Ac(m.token)
    /\ AcOfToken

\* What the client may be told.
Reply(m) == {m.dev, m.dmap, m.relay} \subseteq BOOLEAN
WireInv == \A m \in wire : Reply(m)

\* The register server is told a path only by the route that holds the permit: the one
\* being confirmed, or one that asks (cdev asks before it has the permit).
PermitInv ==
    /\ \A r \in Routes :
          /\ route[r] = "confirm" => permit = r /\ told = Conn(r)
          /\ route[r] = "ask" /\ r # "cdev" => permit = r
    /\ LastWord

IndInv == WakeInv /\ WireInv /\ DiscTypeOK /\ PermitInv
-----------------------------------------------------------------------------------
(* The wake server's maps. *)

\* issue and upsert keep a map within its bound: at the bound a new key is refused.
LEMMA InsertBounded ==
    ASSUME NEW map, NEW uid, NEW entry, Bounded(map), ~Full(map, uid)
    PROVE  Bounded(Insert(map, uid, entry))
<1>1. DOMAIN Insert(map, uid, entry) = DOMAIN map \cup {uid}
    BY DEF Insert
<1>2. MAX_MAP_ENTRIES \in Nat /\ Cardinality(DOMAIN map) \in Nat
    BY FS_CardinalityType, WakeServerAssumption DEF Bounded
<1>3. CASE uid \in DOMAIN map
    <2>1. DOMAIN map \cup {uid} = DOMAIN map
        BY <1>3
    <2> QED
        BY <1>1, <2>1 DEF Bounded
<1>4. CASE uid \notin DOMAIN map
    <2>1. Cardinality(DOMAIN map) + 1 <= MAX_MAP_ENTRIES
        BY <1>2, <1>4 DEF Full
    <2>2. /\ IsFiniteSet(DOMAIN map \cup {uid})
          /\ Cardinality(DOMAIN map \cup {uid}) = Cardinality(DOMAIN map) + 1
        BY <1>4, FS_AddElement DEF Bounded
    <2> QED
        BY <1>1, <2>1, <2>2 DEF Bounded
<1> QED
    BY <1>3, <1>4

\* purge_stale only takes entries away.
LEMMA PurgeBounded ==
    ASSUME NEW map, Bounded(map)
    PROVE  /\ Bounded(purge_stale(map))
           /\ DOMAIN purge_stale(map) \subseteq DOMAIN map
           /\ \A u \in DOMAIN purge_stale(map) : purge_stale(map)[u] = map[u]
<1>1. /\ DOMAIN purge_stale(map) \subseteq DOMAIN map
      /\ \A u \in DOMAIN purge_stale(map) : purge_stale(map)[u] = map[u]
    BY DEF purge_stale, Restrict
<1>2. /\ IsFiniteSet(DOMAIN purge_stale(map))
      /\ Cardinality(DOMAIN purge_stale(map)) <= Cardinality(DOMAIN map)
    BY <1>1, FS_Subset DEF Bounded
<1>3. /\ MAX_MAP_ENTRIES \in Nat /\ Cardinality(DOMAIN map) \in Nat
      /\ Cardinality(DOMAIN purge_stale(map)) \in Nat
    BY <1>2, FS_CardinalityType, WakeServerAssumption DEF Bounded
<1> QED
    BY <1>1, <1>2, <1>3 DEF Bounded

\* Ages stay within their cap.
LEMMA AgeGrows ==
    ASSUME NEW a \in Ages
    PROVE  (IF a > AnchorTtl THEN a ELSE a + 1) \in Ages
BY WakeServerAssumption DEF Ages

-----------------------------------------------------------------------------------
(* The wake server's handlers and the cameras. *)

\* D2M_Q: token and ac are drawn together, and kept and sent together.
LEMMA QueryKeeps ==
    ASSUME WakeInv, NEW c \in Cameras, HandleD2mQ(c)
    PROVE  WakeInv'
<1> USE DEF Uid
<1>1. /\ issued' = issued + 1 /\ issued' \in Tokens /\ issued' \in 0..MaxIssue
      /\ registry' = registry /\ cam' = cam
    BY WakeServerAssumption DEF WakeInv, HandleD2mQ, Tokens
<1>2. CASE Full(anchors, Uid(c))
    <2>1. anchors' = anchors /\ mail' = mail
        BY <1>2 DEF HandleD2mQ
    <2> QED
        BY <1>1, <2>1 DEF WakeInv, AcOfToken, Bounded
<1>3. CASE ~Full(anchors, Uid(c))
    <2> DEFINE new == [token |-> issued', ac |-> Ac(issued'), age |-> 0]
    <2>1. anchors' = Insert(anchors, c, new) /\ mail' = mail \cup {M2dQr(c, issued')}
        BY <1>3 DEF HandleD2mQ
    <2>2. Bounded(anchors')
        BY <1>3, <2>1, InsertBounded DEF WakeInv
    <2>3. new \in Anchor /\ new.ac = Ac(new.token)
        BY <1>1, WakeServerAssumption DEF Anchor, Ages
    <2>4. \A u \in DOMAIN anchors' : anchors'[u] = new \/ (u \in DOMAIN anchors /\ anchors'[u] = anchors[u])
        BY <2>1 DEF Insert
    <2> HIDE DEF new
    <2>5. \A u \in DOMAIN anchors' : anchors'[u] \in Anchor /\ anchors'[u].ac = Ac(anchors'[u].token)
        BY <2>3, <2>4 DEF WakeInv
    <2>6. \A m \in mail' : m.tag = "M2D_Q_R" => m.token \in Tokens /\ m.ac = Ac(m.token)
        BY <1>1, <2>1 DEF WakeInv, M2dQr
    <2>7. AcOfToken'
        BY <2>1 DEF WakeInv, AcOfToken, M2dQr
    <2> QED
        BY <1>1, <2>2, <2>5, <2>6, <2>7 DEF WakeInv, Bounded
<1> QED
    BY <1>2, <1>3

\* D2R_R: the anchor's ac goes out only with the anchor's token.
LEMMA RegisterKeeps ==
    ASSUME WakeInv, NEW c \in Cameras, handle_register(c)
    PROVE  WakeInv'
<1>1. /\ registry' = registry /\ anchors' = anchors /\ issued' = issued /\ cam' = cam
      /\ mail' = mail \cup {R2dRr(c, cam[c].token, anchors[c].ac)}
      /\ c \in DOMAIN anchors /\ anchors[c].token = cam[c].token
    BY DEF handle_register, AnchorMatches, Fresh, Uid
<1>2. anchors[c].ac = Ac(cam[c].token)
    BY <1>1 DEF WakeInv
<1>3. AcOfToken'
    BY <1>1, <1>2 DEF WakeInv, AcOfToken, M2dQr, R2dRr
<1>4. \A m \in mail' : m.tag = "M2D_Q_R" => m.token \in Tokens /\ m.ac = Ac(m.token)
    BY <1>1 DEF WakeInv, R2dRr
<1> QED
    BY <1>1, <1>3, <1>4 DEF WakeInv, Bounded

\* D2R_HB: the entry of a camera that has a session, then the sweep of both maps.
LEMMA HeartbeatKeeps ==
    ASSUME WakeInv, NEW c \in Cameras, NEW a \in Addrs, handle_heartbeat(c, a)
    PROVE  WakeInv'
<1> USE DEF Uid
<1>1. issued' = issued /\ mail' = mail /\ cam' = cam /\ cam[c].pc = "beat"
    BY DEF handle_heartbeat
<1>2. CASE Full(registry, Uid(c))
    <2>1. registry' = registry /\ anchors' = anchors
        BY <1>2 DEF handle_heartbeat
    <2> QED
        BY <1>1, <2>1 DEF WakeInv, AcOfToken, Bounded
<1>3. CASE ~Full(registry, Uid(c))
    <2> DEFINE new == [addr |-> a, token |-> cam[c].token, age |-> 0]
               up == Insert(registry, c, new)
    <2>1. registry' = purge_stale(up) /\ anchors' = purge_stale(anchors)
        BY <1>3 DEF handle_heartbeat, Upserted
    <2>2. new \in Entry
        BY <1>1, WakeServerAssumption DEF WakeInv, Entry, Ages
    <2>3. /\ DOMAIN up = DOMAIN registry \cup {c}
          /\ \A u \in DOMAIN up : up[u] = new \/ (u \in DOMAIN registry /\ up[u] = registry[u])
        BY DEF Insert
    <2>4. Bounded(up)
        BY <1>3, InsertBounded DEF WakeInv
    <2> HIDE DEF new, up
    <2>5. \A u \in DOMAIN up : up[u] \in Entry
        BY <2>2, <2>3 DEF WakeInv
    <2>6. Bounded(registry') /\ DOMAIN registry' \subseteq DOMAIN up
        BY <2>1, <2>4, PurgeBounded
    <2>7. \A u \in DOMAIN registry' : registry'[u] \in Entry
        BY <2>1, <2>4, <2>5, PurgeBounded
    <2>8. DOMAIN registry' \subseteq {Uid(d) : d \in Cameras}
        BY <2>3, <2>6 DEF WakeInv
    <2>9. Bounded(anchors) /\ Bounded(anchors')
        BY <2>1, PurgeBounded DEF WakeInv
    <2>10. \A u \in DOMAIN anchors' : anchors'[u] \in Anchor /\ anchors'[u].ac = Ac(anchors'[u].token)
        BY <2>1, <2>9, PurgeBounded DEF WakeInv
    <2> QED
        BY <1>1, <2>6, <2>7, <2>8, <2>9, <2>10 DEF WakeInv, AcOfToken, Bounded
<1> QED
    BY <1>2, <1>3

\* C2R_C: a wake packet, and an answer to the client.
LEMMA ConnectKeeps ==
    ASSUME WakeInv, NEW asks, NEW reply, handle_connect(asks, reply)
    PROVE  WakeInv' /\ Reply(reply)
<1>1. /\ registry' = registry /\ anchors' = anchors /\ issued' = issued /\ cam' = cam
      /\ reply \in ConnectReplies(asks)
      /\ \/ mail' = mail
         \/ mail' = mail \cup {R2dC(reply.uid, registry[reply.uid].addr)}
    BY DEF handle_connect
<1>2. Reply(reply)
    <2>1. \/ reply.dev = FALSE /\ reply.dmap = FALSE /\ reply.relay = FALSE
          \/ reply.dev = TRUE /\ reply.dmap = TRUE /\ reply.relay = TRUE
        <3>1. CASE lookup_fresh(asks) = {}
            <4>1. reply = [rsp |-> "refused", dev |-> FALSE, dmap |-> FALSE, relay |-> FALSE, uid |-> asks]
                BY <1>1, <3>1, Zenon DEF ConnectReplies
            <4> QED
                BY <4>1
        <3>2. CASE lookup_fresh(asks) # {}
            <4>1. \E u \in lookup_fresh(asks) :
                    reply = [rsp |-> "ok", dev |-> TRUE, dmap |-> TRUE, relay |-> TRUE, uid |-> u]
                BY <1>1, <3>2, Zenon DEF ConnectReplies
            <4> QED
                BY <4>1
        <3> QED
            BY <3>1, <3>2
    <2> QED
        BY <2>1, Zenon DEF Reply
<1>3. \A m \in mail' \ mail : m.tag = "R2D_C"
    BY <1>1 DEF R2dC
<1>4. /\ \A m \in mail' : m.tag = "M2D_Q_R" => m.token \in Tokens /\ m.ac = Ac(m.token)
      /\ AcOfToken'
    BY <1>3 DEF WakeInv, AcOfToken
<1> QED
    BY <1>1, <1>2, <1>4 DEF WakeInv, Bounded

\* Time changes ages alone.
LEMMA WakeTickKeeps ==
    ASSUME WakeInv, WakeTick
    PROVE  WakeInv'
<1>1. /\ issued' = issued /\ mail' = mail /\ cam' = cam
      /\ registry' = Older(registry) /\ anchors' = Older(anchors)
    BY DEF WakeTick
<1>2. DOMAIN registry' = DOMAIN registry /\ DOMAIN anchors' = DOMAIN anchors
    BY <1>1 DEF Older
<1>3. ASSUME NEW u \in DOMAIN registry PROVE registry'[u] \in Entry
    <2>1. registry[u] \in Entry
        BY DEF WakeInv
    <2>2. registry'[u] = [registry[u] EXCEPT !.age = IF registry[u].age > AnchorTtl
                                                     THEN registry[u].age ELSE registry[u].age + 1]
        BY <1>1 DEF Older
    <2> QED
        BY <2>1, <2>2, AgeGrows DEF Entry
<1>4. ASSUME NEW u \in DOMAIN anchors
      PROVE  anchors'[u] \in Anchor /\ anchors'[u].ac = Ac(anchors'[u].token)
    <2>1. anchors[u] \in Anchor /\ anchors[u].ac = Ac(anchors[u].token)
        BY DEF WakeInv
    <2>2. anchors'[u] = [anchors[u] EXCEPT !.age = IF anchors[u].age > AnchorTtl
                                                   THEN anchors[u].age ELSE anchors[u].age + 1]
        BY <1>1 DEF Older
    <2> QED
        BY <2>1, <2>2, AgeGrows DEF Anchor
<1> QED
    BY <1>1, <1>2, <1>3, <1>4 DEF WakeInv, AcOfToken, Bounded

\* The cameras' own steps: a camera leaves "query" only with a token it was sent.
LEMMA CameraKeeps ==
    ASSUME WakeInv, NEW c \in Cameras, CameraQueried(c) \/ CameraRegistered(c) \/ CameraWakes(c)
    PROVE  WakeInv'
<1>1. registry' = registry /\ anchors' = anchors /\ issued' = issued /\ mail' = mail
    BY DEF CameraQueried, CameraRegistered, CameraWakes
<1>2. /\ cam' \in [Cameras -> Camera]
      /\ \A d \in Cameras : cam'[d].pc # "query" => cam'[d].token \in Tokens
    <2>1. CASE CameraQueried(c)
        <3>1. PICK m \in mail : /\ m.tag = "M2D_Q_R"
                                /\ cam' = [cam EXCEPT ![c] = [pc |-> "register", token |-> m.token,
                                                              ac |-> m.ac]]
            BY <2>1 DEF CameraQueried
        <3>2. m.token \in Tokens /\ m.ac = Ac(m.token)
            BY <3>1 DEF WakeInv
        <3>3. m.token \in 0..MaxIssue /\ m.ac \in Nat
            BY <3>2, WakeServerAssumption DEF Tokens, Ac
        <3> QED
            BY <3>1, <3>2, <3>3 DEF WakeInv, Camera
    <2>2. CASE CameraRegistered(c)
        BY <2>2 DEF CameraRegistered, WakeInv, Camera
    <2>3. CASE CameraWakes(c)
        BY <2>3 DEF CameraWakes, WakeInv, Camera
    <2> QED
        BY <2>1, <2>2, <2>3
<1> QED
    BY <1>1, <1>2 DEF WakeInv, AcOfToken, Bounded

\* The maps of a server that was just started.
LEMMA WakeStart ==
    ASSUME registry' = <<>>, anchors' = <<>>, issued' = 0, mail' = {},
           cam' = [c \in Cameras |-> [pc |-> "query", token |-> 0, ac |-> 0]]
    PROVE  WakeInv'
<1>1. DOMAIN registry' = {} /\ DOMAIN anchors' = {}
    OBVIOUS
<1>2. Bounded(registry') /\ Bounded(anchors')
    BY <1>1, FS_EmptySet, WakeServerAssumption DEF Bounded
<1>3. cam' \in [Cameras -> Camera]
    BY WakeServerAssumption DEF Camera
<1> QED
    BY <1>1, <1>2, <1>3, WakeServerAssumption DEF WakeInv, AcOfToken, Bounded
-----------------------------------------------------------------------------------
(* The search. *)

\* The options, the sockets to probe, timers and relays have no part in the permit.
LEMMA PermitUntouched ==
    ASSUME PermitInv, UNCHANGED <<route, permit, told>>, found' = found \/ found' \notin Routes
    PROVE  PermitInv'
BY DEF PermitInv, LastWord

\* A route that fails takes its partner along and gives the permit back; a permit that
\* another route holds stays where it is.
LEMMA FailKeeps ==
    ASSUME PermitInv, DiscTypeOK, NEW r \in Routes, RouteFails(r), told' = told,
           UNCHANGED <<opt, local, retry, attempt, asked, session>>
    PROVE  PermitInv' /\ DiscTypeOK'
<1>1. found' \in {found, "DiscoveryTimeout"} /\ reg' \in {reg, "failed"}
    BY DEF RouteFails, RegFails
<1>2. \A q \in Routes : /\ q \in Out(r) => route'[q] \in {"off", "failed"}
                        /\ q \notin Out(r) => route'[q] = route[q]
    BY DEF RouteFails, DiscTypeOK, RetryCap
<1>3. /\ permit \in Out(r) => permit' = "free"
      /\ permit \notin Out(r) => permit' = permit
    BY DEF RouteFails
<1>4. route' \in [Routes -> {"off", "delayed", "listen", "permit", "ask", "confirm", "done",
                             "failed"}]
    BY DEF RouteFails, DiscTypeOK, RetryCap
<1>5. PermitInv'
    <2>1. LastWord'
        BY <1>1 DEF PermitInv, LastWord, Routes
    <2>2. ASSUME NEW q \in Routes
          PROVE  /\ route'[q] = "confirm" => permit' = q /\ told' = Conn(q)
                 /\ route'[q] = "ask" /\ q # "cdev" => permit' = q
        <3>1. CASE q \in Out(r)
            BY <1>2, <3>1
        <3>2. CASE q \notin Out(r)
            BY <1>2, <1>3, <3>2 DEF PermitInv
        <3> QED
            BY <3>1, <3>2
    <2> QED
        BY <2>1, <2>2 DEF PermitInv, Conn
<1>6. DiscTypeOK'
    <2>1. permit' \in {"free", "closed"} \cup Routes
        BY <1>3 DEF DiscTypeOK, RetryCap
    <2> QED
        BY <1>1, <1>4, <2>1 DEF DiscTypeOK, RetryCap
<1> QED
    BY <1>5, <1>6

\* One step of a route, for every route.
LEMMA RouteKeeps ==
    ASSUME PermitInv, DiscTypeOK, NEW r \in Routes, RouteStep(r)
    PROVE  PermitInv' /\ DiscTypeOK'
<1>1. CASE RouteBegins(r)
    <2>1. CASE EntryOf(r) = "failed"
        BY <1>1, <2>1, FailKeeps DEF RouteBegins
    <2>2. CASE EntryOf(r) # "failed"
        <3>1. /\ route' = [route EXCEPT ![r] = EntryOf(r)]
              /\ UNCHANGED <<opt, local, reg, retry, attempt, asked, session, permit, told, found>>
            BY <1>1, <2>2 DEF RouteBegins, Set
        <3>2. EntryOf(r) \in {"ask", "permit", "listen"} /\ (EntryOf(r) = "ask" => r = "cdev")
            BY <2>2 DEF EntryOf, Routes
        <3> QED
            BY <3>1, <3>2 DEF PermitInv, DiscTypeOK, RetryCap, LastWord, Conn
    <2> QED
        BY <2>1, <2>2
<1>2. CASE RouteHears(r)
    <2>1. /\ route' = [route EXCEPT ![r] = "permit"]
          /\ UNCHANGED <<opt, local, reg, retry, attempt, asked, session, permit, told, found>>
        BY <1>2 DEF RouteHears, Set, searchVars
    <2> QED
        BY <2>1 DEF PermitInv, DiscTypeOK, RetryCap, LastWord, Conn
<1>3. CASE Acquire(r)
    <2>1. /\ route' = [route EXCEPT ![r] = IF r = "cdev" THEN "confirm" ELSE "ask"]
          /\ permit = "free" /\ permit' = r /\ found = "searching"
          /\ told' = IF r = "cdev" THEN "local" ELSE told
          /\ UNCHANGED <<opt, local, reg, retry, attempt, asked, session, found>>
        BY <1>3 DEF Acquire, Set, searchVars, Racing, Searching
    <2>2. \A q \in Routes : route[q] # "confirm" /\ (route[q] = "ask" => q = "cdev")
        BY <2>1 DEF PermitInv, Routes
    <2> QED
        BY <2>1, <2>2 DEF PermitInv, DiscTypeOK, RetryCap, LastWord, Conn, Routes
<1>4. CASE RouteAnswered(r)
    <2>1. /\ route' = [route EXCEPT ![r] = IF r = "cdev" THEN "permit" ELSE "confirm"]
          /\ route[r] = "ask" /\ found = "searching"
          /\ told' = IF r = "cdev" THEN told ELSE Conn(r)
          /\ UNCHANGED <<opt, local, reg, retry, attempt, asked, session, permit, found>>
        BY <1>4 DEF RouteAnswered, Set, searchVars, Racing, Searching
    <2>2. r # "cdev" => permit = r
        BY <2>1 DEF PermitInv
    <2> QED
        BY <2>1, <2>2 DEF PermitInv, DiscTypeOK, RetryCap, LastWord, Conn, Routes
<1>5. CASE RouteTimesOut(r)
    BY <1>5, FailKeeps DEF RouteTimesOut
<1>6. CASE RouteDone(r)
    <2>1. /\ route' = [q \in Routes |-> IF q = r THEN "done" ELSE "off"]
          /\ route[r] = "confirm" /\ found' = r /\ permit' = "closed"
          /\ UNCHANGED <<opt, local, reg, retry, attempt, asked, session, told>>
        BY <1>6 DEF RouteDone, Racing
    <2>2. told' = Conn(r)
        BY <2>1 DEF PermitInv
    <2> QED
        BY <2>1, <2>2 DEF PermitInv, DiscTypeOK, RetryCap, LastWord, Conn
<1>7. CASE RouteSocketFails(r)
    BY <1>7, FailKeeps DEF RouteSocketFails
<1> QED
    BY <1>1, <1>2, <1>3, <1>4, <1>5, <1>6, <1>7 DEF RouteStep

\* The steps before the routes are started, StartRoutes included.
LEMMA SearchKeeps ==
    ASSUME PermitInv, DiscTypeOK, DiscStep, ~\E r \in Routes : RouteStep(r)
    PROVE  PermitInv' /\ DiscTypeOK'
<1>1. ASSUME NEW works \in BOOLEAN, check_tcp(works) PROVE PermitInv' /\ DiscTypeOK'
    <2>1. found' \in {found, "tcp"}
          /\ UNCHANGED <<opt, local, reg, retry, attempt, asked, session, route, permit, told>>
        BY <1>1 DEF check_tcp
    <2> QED
        BY <2>1, PermitUntouched DEF DiscTypeOK, RetryCap, Routes
<1>2. CASE StartUdp
    <2>1. /\ found' \in {found, "CannotInitCamera", "DiscoveryTimeout"}
          /\ local' \in {"asking", "failed"} /\ reg' \in {"start", "failed"}
          /\ UNCHANGED <<opt, retry, attempt, asked, session, route, permit, told>>
        BY <1>2 DEF StartUdp
    <2> QED
        BY <2>1, PermitUntouched DEF DiscTypeOK, RetryCap, Routes
<1>3. ASSUME NEW ok \in BOOLEAN, LocalEnds(ok) PROVE PermitInv' /\ DiscTypeOK'
    <2>1. found' \in {found, "local", "DiscoveryTimeout"} /\ local' = "failed"
          /\ UNCHANGED <<opt, reg, retry, attempt, asked, session, route, permit, told>>
        BY <1>3 DEF LocalEnds
    <2> QED
        BY <2>1, PermitUntouched DEF DiscTypeOK, RetryCap, Routes
<1>4. CASE StartRound
    <2>1. /\ attempt' \in [Relays -> {"-", "query", "register", "failed"}]
          /\ asked' = [r \in Relays |-> "-"] /\ reg' = "round"
          /\ UNCHANGED <<opt, local, retry, session, route, permit, told, found>>
        BY <1>4 DEF StartRound
    <2> QED
        BY <2>1, PermitUntouched DEF DiscTypeOK, RetryCap
<1>10. CASE RegFactoryFails
    <2>1. /\ found' \in {found, "DiscoveryTimeout"} /\ reg' = "failed"
          /\ UNCHANGED <<opt, local, retry, attempt, asked, session, route, permit, told>>
        BY <1>10 DEF RegFactoryFails, RegFails
    <2> QED
        BY <2>1, PermitUntouched DEF DiscTypeOK, RetryCap, Routes
<1>5. CASE RoundFails
    <2>1. /\ attempt' = [r \in Relays |-> "-"] /\ asked' = [r \in Relays |-> "-"]
          /\ found' \in {found, "DiscoveryTimeout"} /\ reg' \in {"failed", "backoff"}
          /\ retry' = retry \/ (retry < RetryCap /\ retry' = retry + 1)
          /\ UNCHANGED <<opt, local, session, route, permit, told>>
        BY <1>5 DEF RoundFails, RegFails
    <2>2. RetryCap \in Nat /\ RetryCap' = RetryCap
        BY <2>1, DiscoveryAssumption DEF DiscTypeOK, RetryCap
    <2>3. retry' \in 0..RetryCap'
        BY <2>1, <2>2 DEF DiscTypeOK, RetryCap
    <2> QED
        BY <2>1, <2>3, PermitUntouched DEF DiscTypeOK, RetryCap, Routes
<1>6. CASE BackoffEnds
    <2>1. /\ reg' = "start"
          /\ UNCHANGED <<opt, local, retry, attempt, asked, session, route, permit, told, found>>
        BY <1>6 DEF BackoffEnds
    <2> QED
        BY <2>1, PermitUntouched DEF DiscTypeOK, RetryCap
<1>7. CASE StartRoutes
    <2>1. /\ route' = [r \in Routes |-> IF r \in Wanted THEN "delayed" ELSE "off"] /\ reg' = "routes"
          /\ UNCHANGED <<opt, local, retry, attempt, asked, session, permit, told, found>>
        BY <1>7 DEF StartRoutes
    <2> QED
        BY <2>1 DEF DiscTypeOK, RetryCap, PermitInv, LastWord, Conn
<1>8. ASSUME NEW r \in Relays, AttemptFails(r) PROVE PermitInv' /\ DiscTypeOK'
    <2>1. /\ attempt' = [attempt EXCEPT ![r] = "failed"]
          /\ UNCHANGED <<opt, local, reg, retry, asked, session, route, permit, told, found>>
        BY <1>8 DEF AttemptFails, Set
    <2> QED
        BY <2>1, PermitUntouched DEF DiscTypeOK, RetryCap
<1>9. ASSUME NEW r \in Relays, NEW s \in Servers, uid_lookup(r, s) PROVE PermitInv' /\ DiscTypeOK'
    <2>1. /\ attempt' = [attempt EXCEPT ![r] = "failed"] \/ attempt' = [attempt EXCEPT ![r] = "register"]
          /\ asked' = asked \/ asked' = [asked EXCEPT ![r] = s]
          /\ UNCHANGED <<opt, local, reg, retry, session, route, permit, told, found>>
        BY <1>9 DEF uid_lookup, Set
    <2> QED
        BY <2>1, PermitUntouched DEF DiscTypeOK, RetryCap
<1> QED
    BY <1>1, <1>2, <1>3, <1>4, <1>5, <1>6, <1>7, <1>8, <1>9, <1>10 DEF DiscStep

\* An answer of a register server, the program's own or the vendor's.
LEMMA AddressKeeps ==
    ASSUME PermitInv, DiscTypeOK, NEW r \in Relays, NEW reply, Reply(reply),
           register_address(r, reply)
    PROVE  PermitInv' /\ DiscTypeOK'
<1>1. UNCHANGED <<opt, local, retry, asked, route, permit, told, found>>
    BY DEF register_address
<1>2. [dev |-> reply.dev, dmap |-> reply.dmap, relay |-> reply.relay]
        \in [dev : BOOLEAN, dmap : BOOLEAN, relay : BOOLEAN]
    BY DEF Reply
<1>3. CASE Verdict(reply) = "ignored"
    BY <1>1, <1>3, PermitUntouched DEF register_address, DiscTypeOK, RetryCap
<1>4. CASE Verdict(reply) = "RegisterError"
    <2>1. attempt' = [attempt EXCEPT ![r] = "failed"] /\ UNCHANGED <<reg, session>>
        BY <1>4 DEF register_address, Set
    <2> QED
        BY <1>1, <2>1, PermitUntouched DEF DiscTypeOK, RetryCap
<1>5. CASE Verdict(reply) \notin {"ignored", "RegisterError"}
    <2>1. /\ session' = [dev |-> reply.dev, dmap |-> reply.dmap, relay |-> reply.relay]
          /\ reg' = "registered" /\ attempt' = [q \in Relays |-> "-"]
        BY <1>5 DEF register_address
    <2> QED
        BY <1>1, <1>2, <2>1, PermitUntouched DEF DiscTypeOK, RetryCap
<1> QED
    BY <1>3, <1>4, <1>5
-----------------------------------------------------------------------------------
(* The two together. *)

\* The search's steps leave the wake server alone, and the other way round.
LEMMA WakeUntouched ==
    ASSUME WakeInv, UNCHANGED wakeVars
    PROVE  WakeInv'
BY DEF WakeInv, wakeVars, AcOfToken, Bounded

\* The same of the search's variables.
LEMMA DiscUntouched ==
    ASSUME PermitInv, DiscTypeOK, UNCHANGED discVars
    PROVE  PermitInv' /\ DiscTypeOK'
BY DEF PermitInv, LastWord, DiscTypeOK, RetryCap, discVars

\* The client has its session: the wake server is left as it started, or as it is.
LEMMA PartKeeps ==
    ASSUME WakeInv, WireInv, Part
    PROVE  WakeInv' /\ WireInv'
<1>1. CASE reg' = "registered"
    <2>1. WakeInv'
        BY <1>1, WakeStart DEF Part
    <2>2. wire' = {}
        BY <1>1 DEF Part
    <2> QED
        BY <2>1, <2>2 DEF WireInv
<1>2. CASE reg' # "registered"
    <2>1. UNCHANGED wakeVars /\ wire' = wire
        BY <1>2 DEF Part
    <2> QED
        BY <2>1, WakeUntouched DEF WireInv
<1> QED
    BY <1>1, <1>2

\* The invariant holds at the start.
LEMMA InitInv == Init => IndInv
<1> SUFFICES ASSUME Init PROVE IndInv
    OBVIOUS
<1>1. WakeInv
    <2>1. registry = <<>> /\ anchors = <<>> /\ issued = 0 /\ mail = {}
          /\ cam = [c \in Cameras |-> [pc |-> "query", token |-> 0, ac |-> 0]]
        BY DEF Init, WakeInit
    <2>2. DOMAIN registry = {} /\ DOMAIN anchors = {}
        BY <2>1
    <2>3. Bounded(registry) /\ Bounded(anchors)
        BY <2>2, FS_EmptySet, WakeServerAssumption DEF Bounded
    <2>4. cam \in [Cameras -> Camera]
        BY <2>1, WakeServerAssumption DEF Camera
    <2> QED
        BY <2>1, <2>2, <2>3, <2>4, WakeServerAssumption DEF WakeInv, AcOfToken
<1>2. WireInv
    BY DEF Init, WireInv
<1>3. DiscTypeOK
    BY DiscoveryAssumption DEF Init, DiscInit, DiscTypeOK, RetryCap, NoSession
<1>4. PermitInv
    BY DEF Init, DiscInit, PermitInv, LastWord, Routes
<1> QED
    BY <1>1, <1>2, <1>3, <1>4 DEF IndInv

\* Every step preserves it.
LEMMA NextInv == IndInv /\ [Next]_vars => IndInv'
<1> SUFFICES ASSUME IndInv, [Next]_vars PROVE IndInv'
    OBVIOUS
<1> USE DEF IndInv
<1>1. CASE WakeServerStep
    <2>1. WakeInv'
        BY <1>1, QueryKeeps, RegisterKeeps, HeartbeatKeeps, CameraKeeps DEF WakeServerStep
    <2>2. WireInv'
        BY <1>1 DEF WakeServerStep, WireInv
    <2> QED
        BY <1>1, <2>1, <2>2, DiscUntouched DEF WakeServerStep
<1>2. CASE DiscStep /\ UNCHANGED <<wakeVars, wire>>
    <2>1. PermitInv' /\ DiscTypeOK'
        BY <1>2, RouteKeeps, SearchKeeps
    <2>2. WakeInv' /\ WireInv'
        BY <1>2, WakeUntouched DEF WireInv
    <2> QED
        BY <2>1, <2>2
<1>3. ASSUME NEW r \in Relays, RegisterAtVendor(r) PROVE IndInv'
    <2>1. PICK reply \in VendorReplies : register_address(r, reply)
        BY <1>3 DEF RegisterAtVendor
    <2>2. Reply(reply)
        BY DEF VendorReplies, Reply
    <2>3. PermitInv' /\ DiscTypeOK'
        BY <2>1, <2>2, AddressKeeps
    <2> QED
        BY <1>3, <2>3, PartKeeps DEF RegisterAtVendor
<1>4. ASSUME NEW r \in Relays, ServeConnect(r) PROVE IndInv'
    <2>1. PICK reply : handle_connect(Wanted_Uid, reply) /\ wire' = wire \cup {reply}
        BY <1>4 DEF ServeConnect
    <2>2. WakeInv' /\ Reply(reply)
        BY <2>1, ConnectKeeps
    <2>3. WireInv'
        BY <2>1, <2>2 DEF WireInv, Reply
    <2> QED
        BY <1>4, <2>2, <2>3, DiscUntouched DEF ServeConnect
<1>5. ASSUME NEW r \in Relays, RegisterAtWakeServer(r) PROVE IndInv'
    <2>1. PICK reply \in wire : register_address(r, reply)
        BY <1>5 DEF RegisterAtWakeServer
    <2>2. PermitInv' /\ DiscTypeOK'
        BY <2>1, AddressKeeps DEF WireInv
    <2> QED
        BY <1>5, <2>2, PartKeeps DEF RegisterAtWakeServer
<1>6. CASE Tick
    <2>1. CASE DiscTick /\ UNCHANGED <<wakeVars, wire>>
        <3>1. UNCHANGED <<opt, local, reg, retry, attempt, asked, session, route, permit, told, found>>
            BY <2>1 DEF DiscTick, searchVars
        <3>2. DiscTypeOK'
            BY <3>1 DEF DiscTypeOK, RetryCap
        <3> QED
            BY <2>1, <3>1, <3>2, PermitUntouched, WakeUntouched DEF WireInv
    <2>2. CASE WakeTick /\ UNCHANGED <<discVars, wire>>
        BY <2>2, WakeTickKeeps, DiscUntouched DEF WireInv
    <2> QED
        BY <1>6, <2>1, <2>2 DEF Tick
<1>7. CASE UNCHANGED vars
    BY <1>7, WakeUntouched, DiscUntouched DEF vars, WireInv
<1> QED
    BY <1>1, <1>2, <1>3, <1>4, <1>5, <1>6, <1>7 DEF Next

\* The inductive invariant holds throughout.
THEOREM IndInvHolds == Spec => []IndInv
BY InitInv, NextInv, PTL DEF Spec

\* WakeSafety: neither of the wake server's maps ever has more than MAX_MAP_ENTRIES
\* entries, and no camera is sent the ac of another token than the one it shows,
\* however the datagrams between it and the server are lost, repeated or reordered
\* (registry.rs issue and upsert, register.rs handle_register).
THEOREM WakeSafetyHolds == Spec => []WakeSafety
<1>1. IndInv => WakeSafety
    <2> SUFFICES ASSUME IndInv PROVE WakeSafety
        OBVIOUS
    <2>1. WakeTypeOK
        <3>1. \A map \in {registry, anchors} : Cardinality(DOMAIN map) <= MAX_MAP_ENTRIES
            BY DEF IndInv, WakeInv, Bounded
        <3>2. \A c \in Cameras : cam[c].pc \in {"query", "register", "beat", "awake"}
            BY DEF IndInv, WakeInv, Camera
        <3> QED
            BY <3>1, <3>2 DEF IndInv, WakeInv, WakeTypeOK, Entry, Anchor
    <2> QED
        BY <2>1 DEF IndInv, WakeInv, WakeSafety, TypeOK
<1> QED
    BY <1>1, IndInvHolds, PTL

\* LastWord: whichever routes race, fail or are dropped half-way, the path that the
\* register server was told last is the path of the connection the search returns
\* (discovery.rs 687-998, the semaphore the routes share).
THEOREM LastWordHolds == Spec => []LastWord
<1>1. IndInv => LastWord
    BY DEF IndInv, PermitInv
<1> QED
    BY <1>1, IndInvHolds, PTL
=====================================================================================
