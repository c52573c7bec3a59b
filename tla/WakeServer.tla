------------------------------- MODULE WakeServer -------------------------------
(***************************************************************************)
(* The wake server: a stand-in for the vendor's rendezvous service.  A     *)
(* sleeping camera asks the middleman port for a session (D2M_Q), confirms *)
(* it at the register port (D2R_R) and then only sends heartbeats (D2R_HB) *)
(* that keep its address known.  A client that asks for the camera (C2R_C) *)
(* makes the server send the camera a burst of wake packets (R2D_C).       *)
(* Datagrams may be lost, duplicated and reordered: `mail' keeps whatever  *)
(* was sent and a receiver takes any of it, any number of times.           *)
(***************************************************************************)
EXTENDS Naturals, FiniteSets, Sequences, Functions

CONSTANTS
    Cameras,        \* the cameras; each has the long UID it reports
    Addrs,          \* source addresses of datagrams
    StartsWith,     \* pairs <<long UID, shorter UID it begins with>>
    MAX_MAP_ENTRIES,\* bound of both maps (1024)
    StaleAfter,     \* stale_after_ms, in ticks (80 s)
    AnchorTtl,      \* lookup_ttl of handle_register, in ticks (1 h)
    MaxIssue        \* bound: sessions the middleman issues

ASSUME WakeServerAssumption ==
    /\ Cameras # {} /\ Addrs # {}
    /\ MAX_MAP_ENTRIES \in Nat \ {0} /\ StaleAfter \in Nat /\ AnchorTtl \in Nat
    /\ StaleAfter <= AnchorTtl /\ MaxIssue \in Nat

VARIABLES
    registry,   \* CameraRegistry: uid -> [addr, token, age]
    anchors,    \* SessionAnchors: uid -> [token, ac, age]
    issued,     \* number of sessions issued; the next random token
    mail,       \* datagrams sent to the cameras
    cam         \* external: what each camera believes and does

wakeVars == <<registry, anchors, issued, mail, cam>>

Uid(c) == c
Tokens == 1..MaxIssue
Ages == 0..(AnchorTtl + 1)
\* The middleman draws token and ac at random; two draws never agree.
Ac(token) == 100 + token

M2dQr(u, token) == [tag |-> "M2D_Q_R", uid |-> u, token |-> token, ac |-> Ac(token)]
R2dRr(u, token, ac) == [tag |-> "R2D_R_R", uid |-> u, token |-> token, ac |-> ac]
R2dC(u, addr) == [tag |-> "R2D_C", uid |-> u, addr |-> addr]

WakeInit ==
    /\ registry = <<>>
    /\ anchors = <<>>
    /\ issued = 0
    /\ mail = {}
    /\ cam = [c \in Cameras |-> [pc |-> "query", token |-> 0, ac |-> 0]]

-----------------------------------------------------------------------------------
(* The two maps. *)

\* Defect: the bound is not looked at.
NeverFull(map, uid) == FALSE
\* issue and upsert: a new key is refused at the bound, a refresh never is.
Full(map, uid) == Cardinality(DOMAIN map) >= MAX_MAP_ENTRIES /\ uid \notin DOMAIN map
Insert(map, uid, entry) ==
    [u \in DOMAIN map \cup {uid} |-> IF u = uid THEN entry ELSE map[u]]

purge_stale(map) == Restrict(map, {u \in DOMAIN map : map[u].age <= StaleAfter})
Fresh(map, ttl) == {u \in DOMAIN map : map[u].age <= ttl}

\* lookup_fresh: the exact UID, else any fresh UID that begins with the asked one.
lookup_fresh(asked) ==
    IF asked \in Fresh(registry, StaleAfter)
    THEN {asked}
    ELSE {u \in Fresh(registry, StaleAfter) : <<u, asked>> \in StartsWith}
\* lookup_by_ip: the push listener's question, which camera is at this address?
lookup_by_ip(addr) == {u \in Fresh(registry, StaleAfter) : registry[u].addr = addr}

-----------------------------------------------------------------------------------
(* The middleman's and the register loop's handlers.  A datagram that does not     *)
(* decode, or whose UID is too long, is dropped before any of them.                *)

\* D2M_Q: a session with a new token; a refused one gets no answer.
HandleD2mQ(c) ==
    /\ cam[c].pc \in {"query", "register"}
    /\ issued < MaxIssue
    /\ issued' = issued + 1
    /\ IF Full(anchors, Uid(c))
       THEN UNCHANGED <<anchors, mail>>
       ELSE /\ anchors' = Insert(anchors, Uid(c),
                                 [token |-> issued', ac |-> Ac(issued'), age |-> 0])
            /\ mail' = mail \cup {M2dQr(Uid(c), issued')}
    /\ UNCHANGED <<registry, cam>>

\* Defect: the stored ac is echoed whatever token the camera shows.
AnchorPresent(uid, token) == uid \in Fresh(anchors, AnchorTtl)

\* D2R_R: the ac issued with that very token; any other token is dropped.
AnchorMatches(uid, token) ==
    /\ uid \in Fresh(anchors, AnchorTtl)
    /\ anchors[uid].token = token
handle_register(c) ==
    /\ cam[c].pc = "register"
    /\ AnchorMatches(Uid(c), cam[c].token)
    /\ mail' = mail \cup {R2dRr(Uid(c), cam[c].token, anchors[Uid(c)].ac)}
    /\ UNCHANGED <<registry, anchors, issued, cam>>

\* D2R_HB: the entry is refreshed under the source address, then both maps are
\* swept; a heartbeat refused at the bound returns before the sweep.
Upserted(c, addr) ==
    Insert(registry, Uid(c), [addr |-> addr, token |-> cam[c].token, age |-> 0])

handle_heartbeat(c, addr) ==
    /\ cam[c].pc = "beat"
    /\ IF Full(registry, Uid(c))
       THEN UNCHANGED <<registry, anchors>>
       ELSE /\ registry' = purge_stale(Upserted(c, addr))
            /\ anchors' = purge_stale(anchors)
    /\ UNCHANGED <<issued, mail, cam>>

\* C2R_C: an unknown camera is answered with rsp -1 and no address; a known one is
\* sent the wake burst at its registered address, and the client gets that address
\* twice (dev, dmap), the server's own as relay, and a session.
ConnectReplies(asked) ==
    IF lookup_fresh(asked) = {}
    THEN {[rsp |-> "refused", dev |-> FALSE, dmap |-> FALSE, relay |-> FALSE, uid |-> asked]}
    ELSE {[rsp |-> "ok", dev |-> TRUE, dmap |-> TRUE, relay |-> TRUE, uid |-> u] :
             u \in lookup_fresh(asked)}

handle_connect(asked, reply) ==
    /\ reply \in ConnectReplies(asked)
    /\ mail' = IF reply.rsp = "ok"
               THEN mail \cup {R2dC(reply.uid, registry[reply.uid].addr)}
               ELSE mail
    /\ UNCHANGED <<registry, anchors, issued, cam>>

\* Time: entries grow older.  Ages past every limit are not told apart.
Older(map) ==
    [u \in DOMAIN map |-> [map[u] EXCEPT !.age = IF @ > AnchorTtl THEN @ ELSE @ + 1]]
WakeTick ==
    /\ registry' = Older(registry)
    /\ anchors' = Older(anchors)
    /\ UNCHANGED <<issued, mail, cam>>

-----------------------------------------------------------------------------------
(* External: the camera.  It uses the session of the answer it saw last, wants its *)
(* own ac back before it starts to beat, and wakes on a wake packet.  Nothing makes *)
(* it take a step: it may be out of reach or its battery empty.                     *)

CameraQueried(c) ==
    /\ cam[c].pc \in {"query", "register"}
    /\ \E m \in mail : /\ m.tag = "M2D_Q_R" /\ m.uid = Uid(c) /\ m.token # cam[c].token
                       /\ cam' = [cam EXCEPT ![c] = [pc |-> "register", token |-> m.token,
                                                     ac |-> m.ac]]
    /\ UNCHANGED <<registry, anchors, issued, mail>>

CameraRegistered(c) ==
    /\ cam[c].pc = "register"
    /\ \E m \in mail : m.tag = "R2D_R_R" /\ m.uid = Uid(c) /\ m.ac = cam[c].ac
    /\ cam' = [cam EXCEPT ![c].pc = "beat"]
    /\ UNCHANGED <<registry, anchors, issued, mail>>

\* A camera that answered the wake packet is awake and beats no more.
CameraWakes(c) ==
    /\ cam[c].pc = "beat"
    /\ \E a \in Addrs : R2dC(Uid(c), a) \in mail
    /\ cam' = [cam EXCEPT ![c].pc = "awake"]
    /\ UNCHANGED <<registry, anchors, issued, mail>>

-----------------------------------------------------------------------------------
WakeTypeOK ==
    /\ DOMAIN registry \subseteq {Uid(c) : c \in Cameras}
    /\ \A map \in {registry, anchors} : Cardinality(DOMAIN map) <= MAX_MAP_ENTRIES
    /\ \A u \in DOMAIN registry :
          registry[u] \in [addr : Addrs, token : Tokens, age : Ages]
    /\ \A u \in DOMAIN anchors :
          anchors[u] \in [token : Tokens, ac : {Ac(t) : t \in Tokens}, age : Ages]
    /\ issued \in 0..MaxIssue
    /\ \A c \in Cameras : cam[c].pc \in {"query", "register", "beat", "awake"}

\* register.rs 113: the ac the server echoes to a camera is the one issued together
\* with the token the camera shows, however the camera's repeated queries and the
\* answers to them are lost, duplicated or reordered.
AcOfToken ==
    \A m \in mail : m.tag = "R2D_R_R" => M2dQr(m.uid, m.token).ac = m.ac

=================================================================================
