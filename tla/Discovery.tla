-------------------------------- MODULE Discovery --------------------------------
(***************************************************************************)
(* Finding a camera: BcCamera::find_camera.  TCP addresses are probed one  *)
(* after the other; then, when the UID is known, a local broadcast races a *)
(* registration loop against the rendezvous relays, and after it up to     *)
(* four routes to the camera race each other: the client knocks at the     *)
(* camera (cdev), the camera at the client (ddev), the camera's mapped     *)
(* address (map) and the relay (relay).  A semaphore with one permit keeps *)
(* two routes from being confirmed; the two first share one fate.          *)
(***************************************************************************)
EXTENDS Naturals, FiniteSets, Sequences, SequencesExt

CONSTANTS
    Relays,         \* P2P_RELAY_HOSTNAMES (12)
    Servers,        \* register servers the relays point at
    Options,        \* the BcCameraOpt values considered
    MaximumWait,    \* MAXIMUM_WAIT, in ticks of 250 ms (15 s)
    RoundTimeout,   \* REGISTRATION_ROUND_TIMEOUT (8 s)
    ForgetTime,     \* send_and_forget: five sends, 500 ms apart (2 s)
    SocketMayFail,  \* whether the discoverer's socket may break
    MaxBackoff      \* the longest pause between two rounds (30 s)

ASSUME DiscoveryAssumption ==
    /\ MaximumWait \in Nat \ {0} /\ RoundTimeout \in Nat \ {0} /\ MaxBackoff \in Nat \ {0}
    /\ ForgetTime \in Nat /\ SocketMayFail \in BOOLEAN
    /\ \A o \in Options : o.protocol \in {"Tcp", "Udp", "TcpUdp"} /\ o.max \in Nat

VARIABLES
    opt,        \* the options of this search
    probe,      \* TCP sockets still to probe
    local,      \* the local broadcast: "off", "asking", "failed"
    reg,        \* the registration loop
    retry,      \* failed rounds so far
    attempt,    \* per relay: "-", "query", "register", "failed"
    asked,      \* per relay: the register server it named
    session,    \* RegisterResult: which addresses it carries
    route,      \* per route: its place in the protocol
    left,       \* ticks until each timer fires
    permit,     \* the semaphore: "free", "closed" or the holder
    told,       \* C2R_CFM: the path last reported to the register server
    found       \* the search's result

discVars == <<opt, probe, local, reg, retry, attempt, asked, session, route, left,
              permit, told, found>>
searchVars == <<opt, probe, local, retry, attempt, asked, session, found, reg>>

Routes == {"cdev", "ddev", "map", "relay"}
Timers == Routes \cup {"local", "reg"}
NoSession == [dev |-> FALSE, dmap |-> FALSE, relay |-> FALSE]

-----------------------------------------------------------------------------------
(* What the options allow. *)

\* discovery_flags_for: each level includes the cheaper ones, except the last two.
discovery_flags_for(method) ==
    CASE method = "None" -> {}
      [] method = "Local" -> {"local"}
      [] method = "Remote" -> {"local", "remote"}
      [] method = "Map" -> {"local", "remote", "map"}
      [] method \in {"Relay", "Cloud"} -> {"local", "remote", "map", "relay"}
      [] method = "Cellular" -> {"map", "relay"}
      [] method = "Debug" -> {"map"}

Allowed == discovery_flags_for(opt.method)
Branch(r) == IF r \in {"cdev", "ddev"} THEN "remote" ELSE r
Wanted == {r \in Routes : Branch(r) \in Allowed}

\* pick_tcp_sockets: the configured port before the default one, per address.
pick_tcp_sockets(addrs, port) ==
    FlattenSeq([i \in 1..Len(addrs) |->
        IF port \in {"none", "9000"} THEN <<<<addrs[i], "9000">>>>
        ELSE <<<<addrs[i], port>>, <<addrs[i], "9000">>>>])

\* pick_udp_sockets: the ports the local search tries besides the broadcast.
pick_udp_sockets(addrs, port) ==
    FlattenSeq([i \in 1..Len(addrs) |->
        IF port \in {"none", "2015", "2018"}
        THEN <<<<addrs[i], "2018">>, <<addrs[i], "2015">>>>
        ELSE <<<<addrs[i], port>>, <<addrs[i], "2015">>, <<addrs[i], "2018">>>>])

DiscInit ==
    /\ opt \in Options
    /\ probe = IF opt.protocol = "Udp" THEN <<>> ELSE pick_tcp_sockets(opt.addrs, opt.port)
    /\ local = "off"
    /\ reg = "off"
    /\ retry = 0
    /\ attempt = [r \in Relays |-> "-"]
    /\ asked = [r \in Relays |-> "-"]
    /\ session = NoSession
    /\ route = [r \in Routes |-> "off"]
    /\ left = [t \in Timers |-> 0]
    /\ permit = "free"
    /\ told = "-"
    /\ found = "searching"

Conn(r) == IF r \in {"cdev", "ddev"} THEN "local" ELSE r

\* External: the datagrams a camera may send.  own: for this session and this client;
\* did: from the camera that knocked.
Datagrams ==
    [tag : {"D2C_C_R", "D2C_T", "D2C_CFM"}, own : BOOLEAN, did : BOOLEAN,
     conn : {"local", "map", "relay"}, from : {"dmap", "other"}]

\* The camera's knock, and its confirmation: cdev takes one of any path.
Knocks(r, m) == m.tag = "D2C_T" /\ m.own /\ m.from = "dmap" /\ m.conn = Conn(r)
Confirms(r, m) ==
    /\ m.tag = "D2C_CFM" /\ m.own
    /\ r # "cdev" => m.conn = Conn(r)
    /\ r \in {"ddev", "map"} => m.did
client_initiated_direct(m) == m.tag = "D2C_C_R" /\ m.own

Searching == found = "searching"
ProbingTcp == Searching /\ probe # <<>>
Set(f, x, v) == [f EXCEPT ![x] = v]

-----------------------------------------------------------------------------------
(* TCP: check_tcp logs in with a dummy and waits 4 s for any packet. *)

check_tcp(works) ==
    /\ ProbingTcp
    /\ found' = IF works THEN "tcp" ELSE found
    /\ probe' = IF works THEN <<>> ELSE Tail(probe)
    /\ UNCHANGED <<opt, local, reg, retry, attempt, asked, session, route, left, permit, told>>

\* No UID, or TCP only, ends the search; otherwise the branches that the method
\* allows start together.
StartUdp ==
    /\ Searching /\ probe = <<>> /\ local = "off" /\ reg = "off"
    /\ LET udp == opt.uid /\ opt.protocol # "Tcp"
           loc == udp /\ "local" \in Allowed
           registers == udp /\ Wanted # {}
       IN  /\ local' = IF loc THEN "asking" ELSE "failed"
           /\ reg' = IF registers THEN "start" ELSE "failed"
           /\ left' = IF loc THEN Set(left, "local", MaximumWait) ELSE left
           /\ found' = IF ~udp THEN "CannotInitCamera"
                       ELSE IF ~loc /\ ~registers THEN "DiscoveryTimeout" ELSE found
    /\ UNCHANGED <<opt, probe, retry, attempt, asked, session, route, permit, told>>

\* The outer select fails when its last branch does.
LocalEnds(ok) ==
    /\ Searching /\ local = "asking"
    /\ IF ok THEN \E m \in Datagrams : client_initiated_direct(m) ELSE left["local"] = 0
    /\ local' = "failed"
    /\ found' = IF ok THEN "local" ELSE IF reg = "failed" THEN "DiscoveryTimeout" ELSE found
    /\ UNCHANGED <<opt, probe, reg, retry, attempt, asked, session, route, left, permit, told>>

RegFails ==
    /\ reg' = "failed"
    /\ found' = IF local = "failed" THEN "DiscoveryTimeout" ELSE found

-----------------------------------------------------------------------------------
(* Registration rounds. *)

\* reg_factory: a discoverer, before the first round and after every pause, needs a
\* socket; without one the whole branch is over, whatever rounds are left.
RegFactoryFails ==
    /\ SocketMayFail
    /\ Searching /\ reg = "start"
    /\ RegFails
    /\ UNCHANGED <<opt, probe, local, retry, attempt, asked, session, route, left, permit, told>>

\* A round asks every relay whose name resolved.
StartRound ==
    /\ Searching /\ reg = "start"
    /\ \E resolved \in SUBSET Relays :
          attempt' = [r \in Relays |-> IF r \in resolved THEN "query" ELSE "failed"]
    /\ asked' = [r \in Relays |-> "-"]
    /\ reg' = "round"
    /\ left' = Set(left, "reg", RoundTimeout)
    /\ UNCHANGED <<opt, probe, local, retry, session, route, permit, told, found>>

InRound(r, st) == Searching /\ reg = "round" /\ attempt[r] = st

\* uid_lookup: the relay names a register server; one named before is not asked twice.
uid_lookup(r, s) ==
    /\ InRound(r, "query")
    /\ LET again == \E q \in Relays : asked[q] = s
       IN  /\ attempt' = Set(attempt, r, IF again THEN "failed" ELSE "register")
           /\ asked' = IF again THEN asked ELSE Set(asked, r, s)
    /\ UNCHANGED <<opt, probe, local, reg, retry, session, route, left, permit, told, found>>

AttemptFails(r) ==
    /\ Searching /\ reg = "round" /\ attempt[r] \in {"query", "register"}
    /\ attempt' = Set(attempt, r, "failed")
    /\ UNCHANGED <<opt, probe, local, reg, retry, asked, session, route, left, permit, told, found>>

\* register_address: what an R2C_C_R reply means.  Without a usable address it is
\* not recognised at all, a refusal included.
Usable(reply) == reply.dev \/ reply.dmap \/ reply.relay
Verdict(reply) ==
    IF ~Usable(reply) THEN "ignored" ELSE IF reply.rsp = "ok" THEN "session" ELSE "RegisterError"

register_address(r, reply) ==
    /\ InRound(r, "register")
    /\ CASE Verdict(reply) = "ignored" ->
              UNCHANGED <<attempt, reg, session>>
         [] Verdict(reply) = "RegisterError" ->
              /\ attempt' = Set(attempt, r, "failed")
              /\ UNCHANGED <<reg, session>>
         [] OTHER ->
              /\ session' = [dev |-> reply.dev, dmap |-> reply.dmap, relay |-> reply.relay]
              /\ reg' = "registered"
              /\ attempt' = [q \in Relays |-> "-"]
    /\ left' = IF Verdict(reply) = "session" THEN Set(left, "reg", 0) ELSE left
    /\ UNCHANGED <<opt, probe, local, retry, asked, route, permit, told, found>>

\* Defect: the bound of the rounds is not looked at.
RoundFailsForever ==
    /\ Searching /\ reg = "round"
    /\ left["reg"] = 0 \/ \A r \in Relays : attempt[r] = "failed"
    /\ attempt' = [r \in Relays |-> "-"]
    /\ asked' = [r \in Relays |-> "-"]
    /\ reg' = "backoff"
    /\ left' = Set(left, "reg", 1)
    /\ UNCHANGED <<opt, probe, local, retry, session, route, permit, told, found>>

\* All relays failed, or the round took too long: give up or pause, then start anew
\* with a discoverer of its own.  Bound: retry stops counting once it decides neither the
\* pause nor the end.
RetryCap == IF opt.max > MaxBackoff THEN opt.max ELSE MaxBackoff
RoundFails ==
    /\ Searching /\ reg = "round"
    /\ left["reg"] = 0 \/ \A r \in Relays : attempt[r] = "failed"
    /\ attempt' = [r \in Relays |-> "-"]
    /\ asked' = [r \in Relays |-> "-"]
    /\ IF opt.max > 0 /\ retry >= opt.max
       THEN RegFails /\ UNCHANGED <<retry, left>>
       ELSE /\ reg' = "backoff"
            /\ retry' = IF retry < RetryCap THEN retry + 1 ELSE retry
            /\ left' = Set(left, "reg", IF retry' < MaxBackoff THEN retry' ELSE MaxBackoff)
            /\ UNCHANGED found
    /\ UNCHANGED <<opt, probe, local, session, route, permit, told>>
BackoffEnds ==
    /\ Searching /\ reg = "backoff" /\ left["reg"] = 0
    /\ reg' = "start"
    /\ UNCHANGED <<opt, probe, local, retry, attempt, asked, session, route, left, permit,
                   told, found>>

-----------------------------------------------------------------------------------
(* The routes.  A route that needs an address the session lacks fails at once.  The *)
(* states: delayed, listen (for the camera's D2C_T), permit (waits for it), ask     *)
(* (repeats its request until D2C_CFM), confirm (tells the register server), failed.*)

Delay(r) == CASE r = "map" -> 1 [] r = "relay" -> 2 [] OTHER -> 0
Holds(r) == permit = r

\* A route starts: cdev and relay send, ddev and map wait for the camera.
EntryOf(r) ==
    CASE r = "cdev" -> IF session.dev THEN "ask" ELSE "failed"
      [] r = "relay" -> IF session.relay THEN "permit" ELSE "failed"
      [] OTHER -> "listen"

StartRoutes ==
    /\ Searching /\ reg = "registered"
    /\ reg' = "routes"
    /\ route' = [r \in Routes |-> IF r \in Wanted THEN "delayed" ELSE "off"]
    /\ left' = [t \in Timers |-> IF t \in Routes THEN Delay(t) ELSE left[t]]
    /\ UNCHANGED <<opt, probe, local, retry, attempt, asked, session, permit, told, found>>

Racing(r, st) == Searching /\ reg = "routes" /\ route[r] = st

\* The route is out, and with cdev or ddev the other one too; a permit it holds
\* is given back.  When none is left the registration branch has failed.
Out(r) == IF r \in {"cdev", "ddev"} THEN {"cdev", "ddev"} ELSE {r}
RouteFails(r) ==
    /\ route' = [q \in Routes |-> IF q \in Out(r) /\ route[q] # "off" THEN "failed" ELSE route[q]]
    /\ permit' = IF permit \in Out(r) THEN "free" ELSE permit
    /\ left' = [t \in Timers |-> IF t \in Out(r) THEN 0 ELSE left[t]]
    /\ IF \A q \in Routes : route'[q] \in {"off", "failed"}
       THEN RegFails
       ELSE UNCHANGED <<reg, found>>

RouteBegins(r) ==
    /\ Racing(r, "delayed") /\ left[r] = 0
    /\ IF EntryOf(r) = "failed"
       THEN RouteFails(r)
       ELSE /\ route' = Set(route, r, EntryOf(r))
            /\ left' = Set(left, r, IF EntryOf(r) = "permit" THEN 0 ELSE MaximumWait)
            /\ UNCHANGED <<reg, permit, found>>
    /\ UNCHANGED <<opt, probe, local, retry, attempt, asked, session, told>>

\* handle_incoming: the camera's D2C_T for this session, from its mapped address.
RouteHears(r) ==
    /\ Racing(r, "listen") /\ session.dmap
    /\ \E m \in Datagrams : Knocks(r, m)
    /\ route' = Set(route, r, "permit")
    /\ left' = Set(left, r, 0)
    /\ UNCHANGED <<searchVars, permit, told>>

\* Defect: the route goes on without waiting for the permit.
AcquireNothing(r) ==
    /\ Racing(r, "permit")
    /\ permit' = r
    /\ route' = Set(route, r, IF r = "cdev" THEN "confirm" ELSE "ask")
    /\ left' = Set(left, r, IF r = "cdev" THEN ForgetTime ELSE MaximumWait)
    /\ told' = IF r = "cdev" THEN "local" ELSE told
    /\ UNCHANGED searchVars

\* acquire_owned: cdev already has the camera's word and goes on to confirm.
Acquire(r) ==
    /\ Racing(r, "permit") /\ permit = "free"
    /\ permit' = r
    /\ route' = Set(route, r, IF r = "cdev" THEN "confirm" ELSE "ask")
    /\ left' = Set(left, r, IF r = "cdev" THEN ForgetTime ELSE MaximumWait)
    /\ told' = IF r = "cdev" THEN "local" ELSE told
    /\ UNCHANGED searchVars
\* retry_send: the camera's D2C_CFM for this session.
RouteAnswered(r) ==
    /\ Racing(r, "ask")
    /\ \E m \in Datagrams : Confirms(r, m)
    /\ route' = Set(route, r, IF r = "cdev" THEN "permit" ELSE "confirm")
    /\ told' = IF r = "cdev" THEN told ELSE Conn(r)
    /\ left' = Set(left, r, IF r = "cdev" THEN 0 ELSE ForgetTime)
    /\ UNCHANGED <<searchVars, permit>>

RouteTimesOut(r) ==
    /\ Searching /\ reg = "routes" /\ route[r] \in {"listen", "ask"} /\ left[r] = 0
    /\ RouteFails(r)
    /\ UNCHANGED <<opt, probe, local, retry, attempt, asked, session, told>>

\* send_and_forget is through: the semaphore is closed and the search has its result.
RouteDone(r) ==
    /\ Racing(r, "confirm") /\ left[r] = 0
    /\ permit' = "closed"
    /\ found' = r
    /\ route' = [q \in Routes |-> IF q = r THEN "done" ELSE "off"]
    /\ left' = [t \in Timers |-> 0]
    /\ UNCHANGED <<opt, probe, local, reg, retry, attempt, asked, session, told>>

\* The discoverer's socket breaks: the reader tells every subscriber, and a send fails.  A
\* route that listens is a handler, is not told and waits until its time is over.
RouteSocketFails(r) ==
    /\ SocketMayFail
    /\ Searching /\ reg = "routes" /\ route[r] \in {"ask", "confirm"}
    /\ RouteFails(r)
    /\ UNCHANGED <<opt, probe, local, retry, attempt, asked, session, told>>

-----------------------------------------------------------------------------------
(* Time passes only when no timer is due. *)

Running(t) ==
    CASE t = "local" -> local = "asking"
      [] t = "reg" -> reg \in {"round", "backoff"}
      [] OTHER -> reg = "routes" /\ route[t] \in {"delayed", "listen", "ask", "confirm"}

DiscTick ==
    /\ Searching /\ probe = <<>>
    /\ \E t \in Timers : Running(t)
    /\ \A t \in Timers : Running(t) => left[t] > 0
    /\ left' = [t \in Timers |-> IF Running(t) THEN left[t] - 1 ELSE left[t]]
    /\ UNCHANGED <<searchVars, route, permit, told>>

RouteStep(r) ==
    \/ RouteBegins(r) \/ RouteHears(r) \/ Acquire(r) \/ RouteAnswered(r)
    \/ RouteTimesOut(r) \/ RouteDone(r) \/ RouteSocketFails(r)

\* Every step but the register servers' replies and the passing of time.
DiscStep ==
    \/ \E works \in BOOLEAN : check_tcp(works)
    \/ StartUdp \/ (\E ok \in BOOLEAN : LocalEnds(ok))
    \/ StartRound \/ RegFactoryFails \/ RoundFails \/ BackoffEnds \/ StartRoutes
    \/ \E r \in Relays : AttemptFails(r) \/ \E s \in Servers : uid_lookup(r, s)
    \/ \E r \in Routes : RouteStep(r)

-----------------------------------------------------------------------------------
DiscTypeOK ==
    /\ opt \in Options
    /\ local \in {"off", "asking", "failed"}
    /\ reg \in {"off", "start", "round", "backoff", "registered", "routes", "failed"}
    /\ retry \in 0..RetryCap
    /\ attempt \in [Relays -> {"-", "query", "register", "failed"}]
    /\ asked \in [Relays -> Servers \cup {"-"}]
    /\ session \in [dev : BOOLEAN, dmap : BOOLEAN, relay : BOOLEAN]
    /\ route \in [Routes -> {"off", "delayed", "listen", "permit", "ask", "confirm", "done",
                             "failed"}]
    /\ permit \in {"free", "closed"} \cup Routes
    /\ found \in {"searching", "tcp", "local", "CannotInitCamera", "DiscoveryTimeout"} \cup Routes

\* discovery.rs, semaphore: the routes race, and one that is dropped half-way through
\* telling the register server leaves its word there.  Yet the last path the server
\* was told is the path the search returns.
LastWord == found \in Routes => told = Conn(found)

\* bc_protocol.rs 341-388: with a bound on the rounds the search ends, whatever
\* relays, register servers and camera answer or fail to answer.
SearchEnds == opt.max > 0 ~> ~Searching

\* docs/code-paths.md 381, "strategies raced, first answer wins": once the camera has
\* answered the client's knock in good time, the search finds it by that or another
\* route, and does not end empty-handed because a silent route is in the way.  It fails
\* (README, 3).
AnsweredInTime == route["cdev"] = "permit" /\ left["ddev"] > ForgetTime
AnswerWins == AnsweredInTime ~> ~Searching /\ found # "DiscoveryTimeout"

===================================================================================
