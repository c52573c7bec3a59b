------------------------------- MODULE Config -------------------------------
(***************************************************************************)
(* The configuration (src/config.rs, bc_opts.rs), the start-up that uses   *)
(* it (main.rs, tls_load.rs, orchestrator.rs, wake_server/config.rs) and   *)
(* the Home Assistant add-on's renderer (hassio/{options,merge,cmd}.rs).   *)
(*                                                                         *)
(* An Option is the set of its value: {} or {v}.  A TOML table is a        *)
(* function from its keys.  A number of seconds is a record: "finite" with *)
(* the (truncated) value, or one of the floats Duration::from_secs_f64     *)
(* panics on; "huge" is a finite float beyond a Duration.                  *)
(***************************************************************************)
EXTENDS Integers, Sequences, FiniteSets, SequencesExt

Or(o, default) == IF o = {} THEN default ELSE CHOOSE v \in o : TRUE
Values(s) == {s[i] : i \in DOMAIN s}
Distinct(s) == Cardinality(Values(s)) = Len(s)

Secs(n) == [kind |-> "finite", n |-> n]
NaN == [kind |-> "nan", n |-> 0]
Infinite == [kind |-> "infinite", n |-> 0]
Huge == [kind |-> "huge", n |-> 0]
is_finite(s) == s.kind \in {"finite", "huge"}
Positive(s) == is_finite(s) /\ (s.kind = "huge" \/ s.n > 0)
NonNegative(s) == is_finite(s) /\ (s.kind = "huge" \/ s.n >= 0)
\* Duration::from_secs_f64 does not panic
Representable(s) == s.kind = "finite" /\ s.n >= 0

-----------------------------------------------------------------------------
(* Defaults                                                                *)

DefaultMqtt == [enable_motion |-> TRUE, enable_pir |-> FALSE, battery_update |-> 2000,
                preview_update |-> 2000, floodlight_update |-> 2000]
\* deprecated stands for on_motion, on_client, on_disconnect, motion_timeout
\* and mode, which are accepted, warned about and have no effect
DefaultPause == [bridge_gaps |-> TRUE, gap_threshold_secs |-> Secs(3), preview_overlay |-> TRUE,
                 deprecated |-> {}, timeout |-> {}]
\* compat stands for print_format, update_time, buffer_duration, use_splash,
\* splash_pattern, max_discovery_retries, push_notifications and strict
DefaultCamera ==
    [name |-> "", address |-> {}, uid |-> {}, username |-> "", password |-> {},
     cloud_account |-> {}, cloud_password |-> {}, cloud_mfa_trust_token |-> {},
     cloud_refresh_token |-> {}, channel_id |-> 0, stream |-> "All", discovery |-> "Relay",
     max_encryption |-> "Aes", idle_disconnect |-> FALSE, idle_disconnect_timeout_secs |-> {},
     motion_wake_hold_secs |-> Secs(30), enabled |-> TRUE, mqtt |-> DefaultMqtt,
     pause |-> DefaultPause, permitted_users |-> <<>>, debug |-> {}, compat |-> {}]
DefaultBroker == [broker_addr |-> "", port |-> 1883, credentials |-> {}, ca |-> {},
                  client_auth |-> {}, topic_prefix |-> "bairelay", discovery |-> {}]
DefaultPush == [enable |-> FALSE, push_listener_addr |-> {}, push_listener_port |-> 443,
                motion_wake_hold_secs |-> Secs(30)]
DefaultWake == [enable |-> FALSE, middleman_port |-> 9999, register_port |-> 58200,
                heartbeat_ms |-> 20000, stale_after_ms |-> 80000]
DefaultConfig ==
    [bind_addr |-> "0.0.0.0", bind_port |-> 8554, certificate |-> {}, tls_client_auth |-> "none",
     tls_bind_port |-> {}, tls_client_ca |-> {}, users |-> <<>>, mqtt |-> {}, wake_server |-> {},
     push_listener |-> {}, tokio_console |-> {}, stream_prune_grace_secs |-> 30,
     cloud_account |-> {}, cloud_password |-> {}, cameras |-> <<>>]

-----------------------------------------------------------------------------
(* Reading a file.  The document is the configuration its tables hold and  *)
(* the section ("" for the root) in which each scalar of the root stands.  *)

TOP_LEVEL_SCALAR_KEYS == {"bind_port", "certificate", "tls_bind_port", "tls_client_auth",
                          "tls_client_ca", "tokio_console", "stream_prune_grace_secs"}
\* Root scalars the placement scan does not know; serde refuses them elsewhere
OtherRootKeys == {"cloud_account", "cloud_password"}
RootKeys == TOP_LEVEL_SCALAR_KEYS \cup OtherRootKeys

Refused(stage) == [ok |-> FALSE, why |-> stage]
Accepted(config) == [ok |-> TRUE, config |-> config]

validate_top_level_key_placement(doc) ==
    \A k \in DOMAIN doc.placed \cap TOP_LEVEL_SCALAR_KEYS : doc.placed[k] = ""

parse_config(doc) ==
    IF ~validate_top_level_key_placement(doc) THEN Refused("misplaced")
    ELSE IF \E k \in DOMAIN doc.placed : doc.placed[k] # "" THEN Refused("unknown field")
    ELSE Accepted([doc.config EXCEPT !.cameras =
             [i \in DOMAIN doc.config.cameras |->
               [doc.config.cameras[i] EXCEPT !.cloud_account = doc.config.cloud_account,
                                             !.cloud_password = doc.config.cloud_password]]])

\* apply_cloud_auth: auth is {} (no file) or the stored credential; valid is
\* CloudAuth::is_valid at this moment
apply_cloud_auth(c, auth) ==
    IF \/ auth = {}
       \/ c.cloud_account # {Or(auth, "").account}
       \/ ~Or(auth, "").valid
    THEN c
    ELSE [c EXCEPT !.cameras = [i \in DOMAIN c.cameras |->
           IF c.cameras[i].discovery # "Cloud" THEN c.cameras[i]
           ELSE [c.cameras[i] EXCEPT !.cloud_mfa_trust_token = Or(auth, "").trust,
                                     !.cloud_refresh_token = Or(auth, "").refresh]]]

-----------------------------------------------------------------------------
(* Validation.  A name is "ok..." or one of the spellings refused.         *)

DEFAULT_TLS_BIND_PORT == 8555
tls_port(c) == Or(c.tls_bind_port, DEFAULT_TLS_BIND_PORT)
Safe(name) == name \notin {"", " ", "a/b", "e'"}

\* Defect: the CA is asked for only when client certificates are required.
ValidTlsRequireOnly(c) ==
    /\ c.bind_port = 0 => c.certificate # {}
    /\ c.certificate # {} =>
         /\ tls_port(c) > 0
         /\ c.bind_port # tls_port(c)
         /\ c.tls_client_auth = "require" => c.tls_client_ca # {}
    /\ c.tls_client_auth # "none" => c.certificate # {}

ValidTls(c) ==
    /\ c.bind_port = 0 => c.certificate # {}
    /\ c.certificate # {} =>
         /\ tls_port(c) > 0
         /\ c.bind_port # tls_port(c)
         /\ c.tls_client_auth # "none" => c.tls_client_ca # {}
    /\ c.tls_client_auth # "none" => c.certificate # {}

ValidMqtt(c) ==
    \A m \in c.mqtt : /\ Safe(m.topic_prefix)
                      /\ \A d \in m.discovery : d \notin {"", "a/b"}

ValidUsers(c) ==
    /\ \A i \in DOMAIN c.users : c.users[i].name \notin {"", " "} /\ c.users[i].pass # ""
    /\ Distinct([i \in DOMAIN c.users |-> c.users[i].name])

ValidCamera(cam) ==
    /\ Safe(cam.name)
    /\ cam.password # {} \/ cam.discovery = "Cloud"
    /\ cam.discovery = "Cloud" =>
         cam.cloud_account # {} /\ cam.cloud_password # {} /\ cam.uid # {}
    /\ cam.address # {} \/ cam.uid # {}
    /\ \A f \in {"battery_update", "preview_update", "floodlight_update"} : cam.mqtt[f] >= 500
    /\ cam.pause.bridge_gaps => Positive(cam.pause.gap_threshold_secs)
    /\ \A s \in cam.idle_disconnect_timeout_secs \cup cam.pause.timeout : Positive(s)
    /\ NonNegative(cam.motion_wake_hold_secs)

ValidPush(c) ==
    \A p \in c.push_listener : p.enable =>
      /\ NonNegative(p.motion_wake_hold_secs)
      /\ p.push_listener_port > 0
      /\ \E w \in c.wake_server : w.enable

ValidPermitted(c) ==
    \A i \in DOMAIN c.cameras :
      Values(c.cameras[i].permitted_users) \subseteq {c.users[j].name : j \in DOMAIN c.users}

validate_config(c) ==
    /\ ValidTls(c)
    /\ ValidMqtt(c)
    /\ ValidUsers(c)
    /\ \A i \in DOMAIN c.cameras : ValidCamera(c.cameras[i])
    /\ Distinct([i \in DOMAIN c.cameras |-> c.cameras[i].name])
    /\ ValidPush(c)
    /\ ValidPermitted(c)

load_config(doc, auth) ==
    LET parsed == parse_config(doc) IN
    IF ~parsed.ok THEN parsed
    ELSE LET c == apply_cloud_auth(parsed.config, auth)
         IN  IF validate_config(c) THEN Accepted(c) ELSE Refused("validate")

-----------------------------------------------------------------------------
(* What the program makes of an accepted configuration                     *)

\* The camera's idle timeout as configured, and as it is used
IdleTimeout(cam) == Or(cam.idle_disconnect_timeout_secs, Or(cam.pause.timeout, Secs(45)))
Configured(cam) == IdleTimeout(cam).n

resolve_idle_disconnect_timeout(cam, prune_grace) ==
    IF Configured(cam) < prune_grace THEN prune_grace + 15 ELSE Configured(cam)

\* Warnings: the camera (or "") and the reason
warn_deprecated_pause_fields(c) ==
    UNION {{<<c.cameras[i].name, "pause">> : x \in c.cameras[i].pause.deprecated}
             \cup {<<c.cameras[i].name,
                     IF c.cameras[i].idle_disconnect_timeout_secs # {}
                     THEN "timeout overridden" ELSE "timeout mapped">>
                   : t \in c.cameras[i].pause.timeout} : i \in DOMAIN c.cameras}
warn_neolink_compat_fields(c) ==
    {<<"", "tokio_console">> : x \in c.tokio_console}
      \cup {<<c.cameras[i].name, "compat">> : i \in {j \in DOMAIN c.cameras : c.cameras[j].compat # {}}}
warn_wire_debug_enabled(c) ==
    {<<c.cameras[i].name, "debug">> : i \in {j \in DOMAIN c.cameras : c.cameras[j].debug = {TRUE}}}
warn_idle_timeout_below_prune_floor(c) ==
    {<<c.cameras[i].name, "clamped">> :
       i \in {j \in DOMAIN c.cameras : Configured(c.cameras[j]) < c.stream_prune_grace_secs}}
warn_users_without_tls(c) ==
    IF c.users # <<>> /\ c.certificate = {} THEN {<<"", "plaintext">>} ELSE {}
config_warnings(c) ==
    warn_deprecated_pause_fields(c) \cup warn_neolink_compat_fields(c)
      \cup warn_wire_debug_enabled(c) \cup warn_idle_timeout_below_prune_floor(c)
      \cup warn_users_without_tls(c)

\* load_server_tls: the PEM is the sequence of its items, ca_pem that of the CA
load_server_tls(pem, client_auth, client_ca, ca_pem) ==
    LET keys == SelectSeq(pem, LAMBDA x : x = "key")
    IN  IF "bad" \in Values(pem) \/ Len(keys) > 1 THEN "bad PEM"
        ELSE IF "cert" \notin Values(pem) THEN "no certificate"
        ELSE IF keys = <<>> THEN "no key"
        ELSE IF client_auth = "none" THEN "ok"
        ELSE IF client_ca = {} THEN "internal"
        ELSE IF "cert" \notin Values(ca_pem) THEN "no CA"
        ELSE "ok"

\* RuntimeConfig::from_block
from_block(w) ==
    /\ w.middleman_port > 0 /\ w.register_port > 0 /\ w.middleman_port # w.register_port
    /\ w.heartbeat_ms >= 1000 /\ w.stale_after_ms >= w.heartbeat_ms

\* The sockets main() binds, in order: protocol, port and service.  The
\* listeners share the address, so one of two with a protocol and a port fails.
RtspSockets(c) ==
    (IF c.bind_port > 0 THEN <<<<"tcp", c.bind_port, "rtsp">>>> ELSE <<>>)
      \o (IF c.certificate # {} THEN <<<<"tcp", tls_port(c), "rtsps">>>> ELSE <<>>)

WakeSockets(c) ==
    IF \E w \in c.wake_server : w.enable
    THEN LET w == Or(c.wake_server, {})
         IN  <<<<"udp", w.middleman_port, "wake">>, <<"udp", w.register_port, "wake">>>>
    ELSE <<>>

PushSocket(c) ==
    IF \E p \in c.push_listener : p.enable
    THEN <<<<"tcp", Or(c.push_listener, {}).push_listener_port, "push">>>> ELSE <<>>

Sockets(c) == RtspSockets(c) \o WakeSockets(c) \o PushSocket(c)

InUse(s) == \E i, j \in DOMAIN s : i < j /\ s[i][1] = s[j][1] /\ s[i][2] = s[j][2]

\* The listeners want an address, not a name
Ips == {"0.0.0.0"}
PushAddr(c, p) == Or(p.push_listener_addr, c.bind_addr)

\* main's start-up, in its order: "started", or where it stops
Startup(c, pem, ca_pem) ==
    LET tls == IF c.certificate = {} THEN "ok"
               ELSE load_server_tls(pem, c.tls_client_auth, c.tls_client_ca, ca_pem)
    IN  IF \E i \in DOMAIN c.cameras : ~Representable(IdleTimeout(c.cameras[i])) THEN "panic"
        ELSE IF tls # "ok" THEN tls
        ELSE IF c.bind_addr \notin Ips THEN "bind address"
        ELSE IF InUse(RtspSockets(c)) THEN "in use"
        ELSE IF \E w \in c.wake_server : w.enable /\ ~from_block(w) THEN "wake_server"
        ELSE IF InUse(RtspSockets(c) \o WakeSockets(c)) THEN "in use"
        ELSE IF \E p \in c.push_listener : p.enable /\ PushAddr(c, p) \notin Ips THEN "push_listener"
        ELSE IF \E p \in c.push_listener : p.enable /\ ~Representable(p.motion_wake_hold_secs)
        THEN "panic"
        ELSE IF InUse(Sockets(c)) THEN "in use"
        ELSE "started"

\* Orchestrator::with_bcmedia_dump_and_discovery
Managed(c) == {c.cameras[i] : i \in {j \in DOMAIN c.cameras : c.cameras[j].enabled}}

\* The durations made of a configuration: for the warnings at start-up (every
\* camera's), for the push listener, and later by the tasks of a camera
Durations(c) ==
    {IdleTimeout(c.cameras[i]) : i \in DOMAIN c.cameras}
      \cup {p.motion_wake_hold_secs : p \in {q \in c.push_listener : q.enable}}
      \cup {cam.pause.gap_threshold_secs : cam \in {x \in Managed(c) : x.pause.bridge_gaps}}
      \cup {cam.motion_wake_hold_secs :
               cam \in {x \in Managed(c) : c.mqtt # {} /\ x.mqtt.enable_motion}}

\* build_bc_opts and pick_tcp_sockets, pick_udp_sockets: an address is
\* [host |-> "ip" or "name", port |-> Option]; a name is dropped, and so is an
\* IPv6 address, which the split at the last colon breaks
addrs(cam) == {a.host : a \in {b \in cam.address : b.host = "ip"}}
port(cam) == UNION {a.port : a \in cam.address}
pick_tcp_sockets(cam) ==
    {<<"tcp", p>> : p \in IF addrs(cam) = {} THEN {} ELSE port(cam) \cup {9000}}
pick_udp_sockets(cam) ==
    {<<"udp", p>> : p \in IF addrs(cam) = {} THEN {} ELSE port(cam) \cup {2015, 2018}}

\* find_camera: the ways to a camera
Ways(cam) == pick_tcp_sockets(cam) \cup (IF cam.uid = {} THEN {} ELSE {<<"uid", 0>>})

\* login_with_maxenc: the credential the login has; a local password that is
\* missing is the empty one
Credential(cam) ==
    IF cam.discovery = "Cloud"
    THEN IF cam.cloud_account = {} \/ cam.cloud_password = {} \/ cam.uid = {}
         THEN "Error::Cloud" ELSE "cloud token"
    ELSE IF cam.password = {} THEN "empty password" ELSE "password"

\* build_broker_config: client_auth is not passed on
build_broker_config(c) == {[m EXCEPT !.client_auth = {}] : m \in c.mqtt}
build_rtsp_users(c) == [i \in DOMAIN c.users |-> <<c.users[i].name, c.users[i].pass>>]

-----------------------------------------------------------------------------
(* The add-on: options of the form and the Supervisor's broker as a base,  *)
(* the operator's overlay merged into it, the result validated, stripped   *)
(* of defaults and written.                                                *)

\* build_base_config: an empty field of the form is None
build_base_config(opts, flags) ==
    [DefaultConfig EXCEPT
       !.mqtt = {[DefaultBroker EXCEPT !.broker_addr = h, !.port = Or(flags.port, 1883),
                    !.credentials = IF flags.username # {} /\ flags.password # {}
                                    THEN {<<flags.username, flags.password>>} ELSE {},
                    !.topic_prefix = opts.topic_prefix, !.discovery = {"homeassistant"}]
                 : h \in flags.host},
       !.cameras = [i \in DOMAIN opts.cameras |->
          [DefaultCamera EXCEPT !.name = opts.cameras[i].name, !.address = opts.cameras[i].address,
             !.uid = opts.cameras[i].uid, !.username = opts.cameras[i].username,
             !.password = {opts.cameras[i].password},
             !.idle_disconnect = opts.cameras[i].idle_disconnect]]]

\* Fields the merge passes over: of a camera those no file sets; of the top
\* level three that a file may set, and the two merged on their own
CameraKept == {"name", "cloud_account", "cloud_password", "cloud_mfa_trust_token",
               "cloud_refresh_token"}
Unmerged == {"cloud_account", "cloud_password", "tokio_console"}
TopKept == Unmerged \cup {"mqtt", "cameras"}

\* overlay_field!: a value other than the default overrides
Overlaid(base, over, defaults, kept) ==
    [f \in DOMAIN base |-> IF f \notin kept /\ over[f] # defaults[f] THEN over[f] ELSE base[f]]

\* An overlay entry changes the first camera of its name, or is a camera more
merge_cameras(base, overlay) ==
    FoldLeft(LAMBDA out, over :
               LET same == {i \in DOMAIN out : out[i].name = over.name}
               IN  IF same = {} THEN Append(out, over)
                   ELSE LET i == Min(same)
                        IN  [out EXCEPT ![i] = Overlaid(@, over, DefaultCamera, CameraKept)],
             base, overlay)

merge_mqtt(base, overlay) ==
    IF base = {} \/ overlay = {} THEN base \cup overlay
    ELSE {Overlaid(Or(base, {}), Or(overlay, {}), DefaultBroker, {})}

merge(base, overlay) ==
    [Overlaid(base, overlay, DefaultConfig, TopKept)
       EXCEPT !.mqtt = merge_mqtt(base.mqtt, overlay.mqtt),
              !.cameras = merge_cameras(base.cameras, overlay.cameras)]

\* toml::Value::try_from: None and skipped fields are not written
CameraSkipped == {"cloud_account", "cloud_password", "cloud_mfa_trust_token", "cloud_refresh_token"}
OptionKeys == {"certificate", "tls_bind_port", "tls_client_ca", "mqtt", "wake_server",
               "push_listener", "tokio_console", "cloud_account", "cloud_password", "address",
               "uid", "password", "idle_disconnect_timeout_secs", "debug", "compat",
               "deprecated", "timeout"}
NestedKeys == {"mqtt", "pause"}    \* of a camera

Table(r, skipped) ==
    [f \in {g \in DOMAIN r \ skipped : g \in OptionKeys /\ g # "mqtt" => r[g] # {}} |-> r[f]]

\* strip_defaults on the fields of one table
Stripped(t, d) == [f \in {g \in DOMAIN t : g \notin DOMAIN d \/ t[g] # d[g]} |-> t[f]]
strip_camera(cam) ==
    LET t == Stripped(Table(cam, CameraSkipped), Table(DefaultCamera, CameraSkipped))
    IN  [f \in DOMAIN t |->
           IF f \in NestedKeys
           THEN Stripped(Table(t[f], {}), Table(DefaultCamera[f], {})) ELSE t[f]]
minimize_render(c) ==
    LET top == IF c.mqtt = {} THEN {"mqtt"} ELSE {}
        t == Stripped(Table(c, top), Table(DefaultConfig, {"mqtt"}))
    IN  [f \in DOMAIN t |->
           IF f = "cameras" THEN [i \in DOMAIN t[f] |-> strip_camera(t[f][i])] ELSE t[f]]

\* Config::deserialize of the rendered file: a missing field takes its
\* default; three have none
Filled(t, d) == [f \in DOMAIN d |-> IF f \in DOMAIN t THEN t[f] ELSE d[f]]
reload_camera(t) ==
    LET r == Filled(t, DefaultCamera)
    IN  [f \in DOMAIN r |-> IF f \in NestedKeys THEN Filled(r[f], DefaultCamera[f]) ELSE r[f]]
Reload(t) ==
    IF \/ "cameras" \notin DOMAIN t
       \/ \E i \in DOMAIN t.cameras : ~({"name", "username"} \subseteq DOMAIN t.cameras[i])
    THEN Refused("missing field")
    ELSE LET r == Filled(t, DefaultConfig)
         IN  parse_config([config |-> [r EXCEPT !.cameras =
                                         [i \in DOMAIN r.cameras |-> reload_camera(r.cameras[i])]],
                           placed |-> << >>])

\* hassio::cmd::run: overlay is {} when there is no such file
hassio_run(opts, flags, overlay) ==
    LET base == build_base_config(opts, flags)
        c == IF overlay = {} THEN base ELSE merge(base, Or(overlay, DefaultConfig))
    IN  IF validate_config(c) THEN Accepted(c) ELSE Refused("merged config invalid")

-----------------------------------------------------------------------------
(* The configurations of the check: one block at a time is varied.         *)

None == {}
Addresses == {[host |-> "ip", port |-> {}], [host |-> "ip", port |-> {9001}],
              [host |-> "name", port |-> {}], [host |-> "name", port |-> {9001}]}
Cam == [DefaultCamera EXCEPT !.name = "cam", !.address = {[host |-> "ip", port |-> {}]},
                             !.username = "admin", !.password = {"pw"}]
Base == [DefaultConfig EXCEPT !.cameras = <<Cam>>]
With(cam) == [Base EXCEPT !.cameras = <<cam>>]

TlsBlocks ==
    {[Base EXCEPT !.bind_port = p, !.certificate = ce, !.tls_client_auth = a,
                  !.tls_client_ca = ca, !.tls_bind_port = t] :
       p \in {0, 8554, 8555}, ce \in {None, {"pem"}}, a \in {"none", "request", "require"},
       ca \in {None, {"ca"}}, t \in {None, {0}, {8554}, {8556}}}
UserBlocks ==
    {[With([Cam EXCEPT !.permitted_users = pu]) EXCEPT !.users = us] :
       pu \in {<<>>, <<"u">>, <<"u", "v">>},
       us \in {<<>>} \cup {<<[name |-> n, pass |-> q]>> : n \in {"", "u"}, q \in {"", "q"}}
             \cup {<<[name |-> "u", pass |-> "q"], [name |-> n, pass |-> "q"]>> : n \in {"u", "v"}}}
CameraBlocks ==
    {[With([Cam EXCEPT !.discovery = d, !.address = a, !.uid = u, !.password = pw, !.name = n])
        EXCEPT !.cloud_account = ac, !.cloud_password = cp] :
       d \in {"Local", "Relay", "Cloud"}, a \in {None} \cup {{x} : x \in Addresses},
       u \in {None, {"uid"}}, pw \in {None, {"pw"}}, n \in {"", "a/b", "cam"},
       ac \in {None, {"me"}}, cp \in {None, {"pw"}}}
Times == {NaN, Infinite, Huge, Secs(-1), Secs(0), Secs(20), Secs(50)}
Broker == [DefaultBroker EXCEPT !.broker_addr = "core"]
TimeBlocks ==
    {[With([Cam EXCEPT !.idle_disconnect_timeout_secs = i, !.pause.timeout = t,
                       !.motion_wake_hold_secs = h, !.pause.gap_threshold_secs = g,
                       !.pause.bridge_gaps = b]) 
        EXCEPT !.stream_prune_grace_secs = p, !.mqtt = {Broker}] :
       i \in {None} \cup {{x} : x \in Times}, t \in {None, {Secs(20)}, {Secs(0)}, {Huge}},
       h \in Times, g \in Times, b \in BOOLEAN, p \in {0, 30, 60}}
PushBlocks ==
    {[Base EXCEPT !.push_listener = {[DefaultPush EXCEPT !.enable = e, !.push_listener_port = p,
                                                        !.motion_wake_hold_secs = h,
                                                        !.push_listener_addr = a]},
                  !.wake_server = w, !.bind_addr = b] :
       e \in BOOLEAN, p \in {0, 443, 8554}, h \in Times, a \in {None, {"name"}},
       b \in {"0.0.0.0", "name"},
       w \in {None, {DefaultWake}} \cup
             {{[DefaultWake EXCEPT !.enable = TRUE, !.middleman_port = m, !.heartbeat_ms = ms]} :
                m \in {0, 9999, 58200}, ms \in {500, 20000}}}
TwoCameras == {[Base EXCEPT !.cameras = <<Cam, [Cam EXCEPT !.name = n]>>] : n \in {"cam", "den"}}

Inputs == TlsBlocks \cup UserBlocks \cup CameraBlocks \cup TimeBlocks \cup PushBlocks
            \cup TwoCameras
Auths == {None} \cup {{[account |-> a, valid |-> v, trust |-> {"t"}, refresh |-> {"r"}]} :
                        a \in {"me", "you"}, v \in BOOLEAN}
Document(c) == [config |-> c, placed |-> << >>]

\* The faults validate_config does not look for: a finite duration beyond the
\* range of Duration, a camera known by a host name only, a bind address that is
\* none, a wake server that RuntimeConfig::from_block refuses, and a push
\* listener on a port of the RTSP server
Overlooked(c) ==
    \/ Huge \in Durations(c)
    \/ \E cam \in Managed(c) : cam.uid = {} /\ \A a \in cam.address : a.host = "name"
    \/ c.bind_addr \notin Ips
    \/ \E w \in c.wake_server : w.enable /\ ~from_block(w)
    \/ \E p \in c.push_listener :
         /\ p.enable
         /\ \/ PushAddr(c, p) \notin Ips
            \/ \E i \in DOMAIN RtspSockets(c) : RtspSockets(c)[i][2] = p.push_listener_port

\* What is left to start-up and to the tasks of a camera
Usable(c) ==
    LET s == Sockets(c) IN
    /\ {"rtsp", "rtsps"} \cap {s[i][3] : i \in DOMAIN s} # {}
    /\ Startup(c, <<"cert", "key">>, <<"cert">>) = "started"
    /\ \A x \in Durations(c) : Representable(x)
    /\ c.users = <<>> => \A cam \in Managed(c) : cam.permitted_users = <<>>
    /\ \A cam \in Managed(c) :
         /\ Ways(cam) # {}
         /\ Credential(cam) \in {"password", "cloud token"}
         /\ cam.cloud_refresh_token # {} =>
              cam.discovery = "Cloud" /\ cam.cloud_account = c.cloud_account
         /\ LET used == resolve_idle_disconnect_timeout(cam, c.stream_prune_grace_secs)
            IN  /\ used >= c.stream_prune_grace_secs
                /\ (used # Configured(cam)) = (<<cam.name, "clamped">> \in config_warnings(c))

\* The add-on's inputs
Flags == {[host |-> h, port |-> None, username |-> u, password |-> {"pw"}] :
            h \in {None, {"core"}}, u \in {None, {"ha"}}}
FormCamera(n, a, i) == [name |-> n, address |-> a, uid |-> {"uid"}, username |-> "admin",
                        password |-> "pw", idle_disconnect |-> i]
Forms == {[topic_prefix |-> "home", cameras |-> cs] :
            cs \in {<<>>} \cup {<<FormCamera("cam", a, i)>> :
                                  a \in {None} \cup {{x} : x \in Addresses}, i \in BOOLEAN}}
OverlayCameras ==
    {<<>>} \cup {<<[DefaultCamera EXCEPT !.name = n, !.username = u, !.password = {"other"},
                      !.address = {[host |-> "ip", port |-> {}]}, !.pause.timeout = t]>> :
                   n \in {"cam", "den"}, u \in {"", "root"}, t \in {None, {Secs(20)}}}
Overlays ==
    {None} \cup
    {{[DefaultConfig EXCEPT !.mqtt = m, !.stream_prune_grace_secs = p, !.cameras = cs,
                            !.cloud_account = ac]} :
       ac \in {None, {"me"}},
       m \in {None, {[DefaultBroker EXCEPT !.ca = {"ca"}]}, {[DefaultBroker EXCEPT !.port = 8883]}},
       p \in {30, 60}, cs \in OverlayCameras}

\* A setting that only one of the form and the overlay makes is in the result
Survives(base, over, merged, defaults, kept) ==
    \A f \in DOMAIN base \ kept :
      /\ over[f] = defaults[f] => merged[f] = base[f]
      /\ base[f] = defaults[f] => merged[f] = over[f]

AddOnKeeps ==
    \A opts \in Forms, flags \in Flags, overlay \in Overlays \ {None} :
      LET base == build_base_config(opts, flags)
          over == Or(overlay, {})
          merged == merge(base, over)
      IN  /\ Survives(base, over, merged, DefaultConfig, TopKept)
          /\ \A b \in base.mqtt, o \in over.mqtt, m \in merged.mqtt :
               Survives(b, o, m, DefaultBroker, {})
          /\ merged.mqtt = {} => base.mqtt \cup over.mqtt = {}
          /\ \A b \in Values(base.cameras), o \in Values(over.cameras) :
               b.name = o.name =>
                 \E m \in Values(merged.cameras) :
                   m.name = b.name /\ Survives(b, o, m, DefaultCamera, CameraKept)
          /\ {m.name : m \in Values(merged.cameras)}
               = {x.name : x \in Values(base.cameras) \cup Values(over.cameras)}
          /\ Distinct([i \in DOMAIN merged.cameras |-> merged.cameras[i].name])

\* The file the add-on writes, read back
Reloads(opts, flags, overlay) ==
    LET r == hassio_run(opts, flags, overlay)
    IN  r.ok => Reload(minimize_render(r.config)) = r

\* Every configuration the loader accepts can be run unless it has one of the
\* overlooked faults, and cannot if it has: a listener comes up, no start-up
\* step fails, every camera has a way to it and a credential, no duration
\* panics, an idle camera outlives its cached stream and the clamp that ensures
\* it is reported.  A root key in a section is refused.  The add-on's merge
\* loses no setting made on one side only but the three of Unmerged, and what
\* it writes reads back when it has cameras and user names (config.rs, main.rs,
\* hassio/).
LoadedIsUsable ==
    /\ \A c \in Inputs, auth \in Auths :
         LET r == load_config(Document(c), auth)
         IN  r.ok => (Usable(r.config) <=> ~Overlooked(r.config))
    /\ \A k \in RootKeys, section \in {"mqtt", "cameras", "cameras.pause"} :
         ~load_config([config |-> Base, placed |-> (k :> section)], None).ok
    /\ AddOnKeeps
    /\ \A opts \in Forms, flags \in Flags, overlay \in Overlays :
         LET c == hassio_run(opts, flags, overlay)
         IN  (c.ok => c.config.cameras # <<>> /\ \A cam \in Values(c.config.cameras) : cam.username # "")
             => Reloads(opts, flags, overlay)

Loads(c) == load_config(Document(c), None).ok

\* "Duration::from_secs_f64 panics on NaN, negative, infinite, or otherwise
\* non-representable values [...] Refuse at startup while the error still has
\* context" (config.rs:1342-1346).  It fails for a finite number of seconds
\* beyond the range of Duration.
DurationsRefused ==
    \A c \in TimeBlocks : Loads(c) => \A x \in Durations(c) : Representable(x)

\* The address of a camera is its "LAN IP or hostname" (hassio/bairelay/DOCS.md:29,
\* and the add-on's form).  build_bc_opts drops a name, and a camera that has
\* nothing else cannot be reached.
AddressReaches ==
    \A c \in CameraBlocks :
      Loads(c) => \A cam \in Managed(c) : cam.address # {} => Ways(cam) # {}

\* "Overlay values that differ from the type's default win" (merge.rs:148-149).
\* merge_top_level passes over cloud_account, cloud_password and tokio_console.
OverlayWins ==
    \A opts \in Forms, flags \in Flags, overlay \in Overlays \ {{}} :
      LET base == build_base_config(opts, flags)
          over == Or(overlay, {})
      IN  \A f \in DOMAIN over \ {"mqtt", "cameras"} :
            over[f] # DefaultConfig[f] => merge(base, over)[f] = over[f]

\* "Loading the stripped file back through Config::deserialize reapplies the
\* same defaults, so behaviour is unchanged" (hassio/cmd.rs:59).
\* It fails for a file without cameras or user names (README, 3).
FileReloads == \A opts \in Forms, flags \in Flags, overlay \in Overlays : Reloads(opts, flags, overlay)

=============================================================================
