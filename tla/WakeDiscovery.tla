------------------------------ MODULE WakeDiscovery ------------------------------
(***************************************************************************)
(* Discovery against the wake server.  The operator points the names of    *)
(* the vendor's relays at the box the program runs on, so that some        *)
(* register servers are the program's own wake server and the others the   *)
(* vendor's.  The wake server knows nothing of Discovery and the other way *)
(* round (docs/implementation.md 516): they meet in C2R_C and R2C_C_R.     *)
(***************************************************************************)
EXTENDS WakeServer, Discovery

CONSTANTS
    OwnServer,      \* the register server that is the wake server
    Wanted_Uid      \* the UID configured for the camera looked for

VARIABLE wire       \* R2C_C_R replies of the wake server on their way to the client

vars == <<wakeVars, discVars, wire>>

Init == WakeInit /\ DiscInit /\ wire = {}

\* External: what a register server of the vendor may reply.
VendorReplies ==
    [rsp : {"ok", "refused"}, dev : BOOLEAN, dmap : BOOLEAN, relay : BOOLEAN]

\* Once the client has its session neither side sees the other again: the wake
\* server and its datagrams are left out of the rest of the behaviour.
Part ==
    IF reg' = "registered"
    THEN /\ registry' = <<>> /\ anchors' = <<>> /\ issued' = 0 /\ mail' = {} /\ wire' = {}
         /\ cam' = [c \in Cameras |-> [pc |-> "query", token |-> 0, ac |-> 0]]
    ELSE UNCHANGED <<wakeVars, wire>>

RegisterAtVendor(r) ==
    /\ asked[r] # OwnServer
    /\ \E reply \in VendorReplies : register_address(r, reply)
    /\ Part

\* The client repeats its C2R_C, so the server may handle it any number of times, and
\* the client may hear any of the answers.
ServeConnect(r) ==
    /\ asked[r] = OwnServer
    /\ InRound(r, "register")
    /\ \E reply \in ConnectReplies(Wanted_Uid) :
          handle_connect(Wanted_Uid, reply) /\ wire' = wire \cup {reply}
    /\ UNCHANGED discVars

RegisterAtWakeServer(r) ==
    /\ asked[r] = OwnServer
    /\ \E reply \in wire : register_address(r, reply)
    /\ Part

Meeting == Searching /\ reg \in {"start", "round", "backoff"}

\* One clock for both.  The wake server's entries age at a pace of their own.
Tick ==
    \/ DiscTick /\ UNCHANGED <<wakeVars, wire>>
    \/ Meeting /\ WakeTick /\ UNCHANGED <<discVars, wire>>

WakeServerStep ==
    /\ Meeting
    /\ \E c \in Cameras : \/ HandleD2mQ(c) \/ handle_register(c)
                          \/ \E a \in Addrs : handle_heartbeat(c, a)
                          \/ CameraQueried(c) \/ CameraRegistered(c)
                          \/ CameraWakes(c)
    /\ UNCHANGED <<discVars, wire>>

Next ==
    \/ WakeServerStep
    \/ DiscStep /\ UNCHANGED <<wakeVars, wire>>
    \/ \E r \in Relays : RegisterAtVendor(r) \/ ServeConnect(r) \/ RegisterAtWakeServer(r)
    \/ Tick

\* The client's timers and tasks run; a camera that sleeps keeps beating; a request
\* repeated for as long as the server could grant it is granted.
Fairness ==
    /\ WF_vars(DiscTick /\ UNCHANGED <<wakeVars, wire>>)
    /\ WF_vars((StartUdp \/ StartRound \/ RegFactoryFails \/ RoundFails \/ BackoffEnds \/ StartRoutes)
               /\ UNCHANGED <<wakeVars, wire>>)
    /\ WF_vars((\E w \in BOOLEAN : check_tcp(w)) /\ UNCHANGED <<wakeVars, wire>>)
    /\ WF_vars(LocalEnds(FALSE) /\ UNCHANGED <<wakeVars, wire>>)
    /\ \A r \in Routes :
          WF_vars((RouteBegins(r) \/ Acquire(r) \/ RouteTimesOut(r) \/ RouteDone(r))
                  /\ UNCHANGED <<wakeVars, wire>>)

Spec == Init /\ [][Next]_vars /\ Fairness

TypeOK == WakeTypeOK /\ DiscTypeOK

\* What the wake server's maps keep under repeated and reordered requests: never more
\* than MAX_MAP_ENTRIES, and the ac that goes with the token a camera shows.
WakeSafety == TypeOK /\ AcOfToken
===================================================================================
