--------------------------- MODULE RetainedState ---------------------------
(***************************************************************************)
(* What the MQTT broker retains for one camera: the Home Assistant         *)
(* discovery configs (src/mqtt/discovery/{mod,publisher}.rs) and the       *)
(* status values with their republish cache (mqtt_status.rs,               *)
(* status_cache.rs, camera_status.rs, mqtt/status.rs, and                  *)
(* publish_discovery, republish_cached_status and unpublish_discovery of   *)
(* camera.rs).                                                             *)
(*                                                                         *)
(* Three tasks publish the discovery of a camera: its session after each   *)
(* connect, the MQTT loop on each ConnAck and the handler of               *)
(* query/ptz/preset.  Each write to the broker is an await, so their       *)
(* writes interleave; only the set of topics in last_published is shared,  *)
(* under a lock that covers no await.                                      *)
(***************************************************************************)
EXTENDS Naturals, Sequences, FiniteSets, SequencesExt, MqttControl

CONSTANTS
    features,     \* [mqtt.discovery] features: a subset of Feature
    flags,        \* CameraEnableFlags: the per-camera switches that are on
    PresetLists,  \* the preset lists the camera may report
    MaxStarts     \* bound: publishes, reports and broker restarts

VARIABLES
    caps,         \* has_ptz, or "unknown" before the first probe
    presets,      \* preset_cache
    last,         \* last_published
    writes,       \* of each task that publishes: what it has yet to write
    retained,     \* the discovery topics with a retained config
    cached,       \* status_cache.motion
    shown,        \* the retained status of it
    seen,         \* the last value the camera reported
    preset,       \* the retained status/ptz/preset: a name, or "none"
    raced,        \* two tasks have written at the same time, or a write was given up
    starts, stopped

retainedVars == <<caps, presets, last, writes, retained, cached, shown, seen, preset, raced,
                  starts, stopped>>
discoveryVars == <<caps, presets, last, retained>>
statusVars == <<cached, shown, seen, preset>>

-----------------------------------------------------------------------------
(* The entities.  An entity is its component, the words of its unique id   *)
(* after the camera's name, the status topic it shows with what it         *)
(* understands there, and the topic it commands with what it sends.        *)

Feature == <<"Floodlight", "Camera", "Motion", "Led", "Ir", "Reboot", "Pt", "PtPreset",
             "Battery", "Siren", "Pir">>

ASSUME RetainedAssumption == features \subseteq {Feature[i] : i \in 1..Len(Feature)}

Entity(component, suffix, state, reads, command, sends) ==
    [component |-> component, suffix |-> suffix, state |-> state, reads |-> reads,
     command |-> command, sends |-> sends]

build_floodlight_light ==
    {Entity("light", <<"floodlight">>, "floodlight", {"state"}, "floodlight", {"on_off"})}
build_floodlight_tasks_switch ==
    {Entity("switch", <<"floodlight", "tasks">>, "floodlight_tasks", {"on_off"},
            "floodlight_tasks", {"on_off"})}
build_camera == {Entity("camera", <<"camera">>, "preview", {"base64"}, "none", {})}
build_motion == {Entity("binary_sensor", <<"md">>, "motion", {"on_off"}, "none", {})}
build_led == {Entity("switch", <<"led">>, "none", {}, "led", {"on_off"})}
build_ir == {Entity("select", <<"ir">>, "none", {}, "ir", {"on_off", "auto"})}
build_pir == {Entity("switch", <<"pir">>, "pir", {"on_off"}, "pir", {"on_off"})}
build_reboot == {Entity("button", <<"reboot">>, "none", {}, "reboot", {"name"})}
build_battery == {Entity("sensor", <<"battery">>, "battery_level", {"number"}, "none", {})}
build_siren == {Entity("button", <<"siren">>, "none", {}, "siren", {"on_off"})}

build_pt_buttons(has_ptz) ==
    {Entity("button", <<"pan", d>>, "none", {}, "ptz", {"direction"}) :
        d \in IF has_ptz THEN {"left", "right", "up", "down"} ELSE {}}

\* Defect: the select shows a topic of four segments that nobody publishes.
PresetsOnUnderscore(has_ptz, ps) ==
    IF ~has_ptz \/ ps = {} THEN {}
    ELSE {Entity("select", <<"preset">>, "ptz_preset_underscore", {"name"}, "ptz_preset", ps)}

\* The select of the presets; none while the list is empty
build_ptz_presets(has_ptz, ps) ==
    IF ~has_ptz \/ ps = {} THEN {}
    ELSE {Entity("select", <<"preset">>, "ptz_preset", {"name"}, "ptz_preset", ps)}

\* CameraEnableFlags::allows
allows(on, f) ==
    f \in {"Camera", "Ir", "Reboot", "Pt", "PtPreset", "Siren"} \union on

build(f, has_ptz, ps) ==
    CASE f = "Floodlight" -> build_floodlight_light \union build_floodlight_tasks_switch
      [] f = "Camera" -> build_camera
      [] f = "Motion" -> build_motion
      [] f = "Led" -> build_led
      [] f = "Ir" -> build_ir
      [] f = "Reboot" -> build_reboot
      [] f = "Pt" -> build_pt_buttons(has_ptz)
      [] f = "PtPreset" -> build_ptz_presets(has_ptz, ps)
      [] f = "Battery" -> build_battery
      [] f = "Siren" -> build_siren
      [] f = "Pir" -> build_pir

compute_payloads(fs, on, has_ptz, ps) ==
    UNION {build(f, has_ptz, ps) : f \in {g \in fs : allows(on, g)}}

\* config_topic and unique: the topic of an entity, a name being its words
unique(cam, e) == cam \o e.suffix
config_topic(cam, e) == <<e.component, unique(cam, e)>>

\* mqtt/status.rs, and the replies of query/pir: what is published where
StatusPublisher ==
    [motion |-> {"on_off", "unknown"}, battery_level |-> {"number"}, preview |-> {"base64"},
     floodlight |-> {"state"}, floodlight_tasks |-> {"on_off"}, pir |-> {"on_off", "xml"},
     ptz_preset |-> {"name", "empty"}]

-----------------------------------------------------------------------------
Tasks == {"session", "connack", "query", "shutdown"}

Topics == {config_topic(<<"cam">>, e) :
             e \in compute_payloads(features, flags, caps = "ptz", presets)}

Idle(t) == writes[t] = <<>>
Put(topic) == [op |-> "put", topic |-> topic]
Clear(topic) == [op |-> "clear", topic |-> topic]
Status(v) == [op |-> "status", topic |-> v]
Shows(p) == [op |-> "preset", topic |-> p]
Probing == [op |-> "presets", topic |-> "none"]

\* Defect: what disappeared from the list is left to the broker.
RemovedNothing(new) == {}

\* The topics of the previous publish that this one does not repeat
Removed(new) == last \ new

\* DiscoveryPublisher::publish up to its first await: last_published is swapped at once.
\* The writes end with an empty status/ptz/preset: nobody knows where the camera looks.
Publish(t) ==
    /\ last' = Topics'
    /\ writes' = [writes EXCEPT ![t] = (SetToSeq({Put(x) : x \in Topics'})
                                          \o SetToSeq({Clear(x) : x \in Removed(Topics')}))
                                         \o <<Shows("none")>>]

Started(t) ==
    /\ starts' = starts + 1
    /\ raced' = (raced \/ \E u \in Tasks \ {t} : ~Idle(u))

\* run_connected_session: the capabilities, then the presets, then publish_discovery
Probe(ptz) ==
    /\ ~stopped /\ starts < MaxStarts /\ Idle("session")
    /\ caps' = ptz
    /\ writes' = [writes EXCEPT !["session"] = <<Probing>>]
    /\ Started("session")
    /\ UNCHANGED <<presets, last, retained, statusVars, stopped>>

ProbePresets ==
    /\ ~Idle("session") /\ Head(writes["session"]) = Probing
    /\ presets' \in IF caps = "ptz" THEN PresetLists \union {presets} ELSE {presets}
    /\ caps' = caps
    /\ Publish("session")
    /\ UNCHANGED <<retained, statusVars, raced, starts, stopped>>

\* republish_cached_status: the values are all read before the first is published
CachedStatus == IF cached = "none" THEN <<>> ELSE <<Status(cached)>>

\* handle_connack: publish_discovery, then republish_cached_status
HandleConnack ==
    /\ ~stopped /\ starts < MaxStarts /\ Idle("connack")
    /\ UNCHANGED <<caps, presets>>
    /\ IF caps = "unknown"
       THEN /\ writes' = [writes EXCEPT !["connack"] = CachedStatus]
            /\ UNCHANGED last
       ELSE /\ last' = Topics
            /\ writes' = [writes EXCEPT !["connack"] =
                 (SetToSeq({Put(x) : x \in Topics})
                   \o SetToSeq({Clear(x) : x \in Removed(Topics)}))
                   \o (<<Shows("none")>> \o CachedStatus)]
    /\ Started("connack")
    /\ UNCHANGED <<retained, statusVars, stopped>>

\* A broker that keeps nothing over a restart; the loop reconnects to it
BrokerRestart ==
    /\ ~stopped /\ starts < MaxStarts /\ Idle("connack")
    /\ retained' = {} /\ shown' = "none" /\ preset' = "none"
    /\ writes' = [writes EXCEPT !["connack"] =
         IF caps = "unknown" THEN CachedStatus
         ELSE SetToSeq({Put(x) : x \in Topics}) \o (<<Shows("none")>> \o CachedStatus)]
    /\ last' = IF caps = "unknown" THEN last ELSE Topics
    /\ Started("connack")
    /\ UNCHANGED <<caps, presets, cached, seen, stopped>>

\* ControlCommand::QueryPtzPreset of a connected camera
QueryPtzPreset(ps) ==
    /\ ~stopped /\ starts < MaxStarts /\ Idle("query") /\ caps # "unknown"
    /\ presets' = ps /\ caps' = caps
    /\ Publish("query")
    /\ Started("query")
    /\ UNCHANGED <<retained, statusVars, stopped>>

\* ControlCommand::PtzPreset and PtzPresetByName, once the camera has moved: the name the
\* cache has for the preset is shown
MovetoPreset(p) ==
    /\ ~stopped /\ starts < MaxStarts /\ Idle("query") /\ p \in presets
    /\ writes' = [writes EXCEPT !["query"] = <<Shows(p)>>]
    /\ Started("query")
    /\ UNCHANGED <<discoveryVars, statusVars, stopped>>

\* unpublish_discovery in the shutdown fan-out, after the cameras' tasks and the loop's
Unpublish ==
    /\ ~stopped /\ Idle("session") /\ Idle("connack")
    /\ stopped' = TRUE
    /\ last' = {}
    /\ writes' = [writes EXCEPT !["shutdown"] =
         IF caps = "unknown" THEN <<>>
         ELSE SetToSeq({Clear(x) : x \in Topics \union last})]
    /\ raced' = (raced \/ ~Idle("query"))
    /\ UNCHANGED <<caps, presets, retained, statusVars, starts>>

\* MqttStatusReporter::report of a new value: published, then cached
ReportStatus(v) ==
    /\ ~stopped /\ starts < MaxStarts /\ Idle("session")
    /\ seen' = v
    /\ writes' = [writes EXCEPT !["session"] = <<Status(v)>>]
    /\ Started("session")
    /\ UNCHANGED <<discoveryVars, cached, shown, preset, stopped>>

\* publish_retained: one write reaches the broker
Write(t) ==
    /\ ~Idle(t) /\ Head(writes[t]) # Probing
    /\ writes' = [writes EXCEPT ![t] = Tail(@)]
    /\ LET w == Head(writes[t]) IN
       \/ /\ w.op = "put" /\ retained' = retained \union {w.topic}
          /\ UNCHANGED <<cached, shown, preset>>
       \/ /\ w.op = "clear" /\ retained' = retained \ {w.topic}
          /\ UNCHANGED <<cached, shown, preset>>
       \/ /\ w.op = "status" /\ shown' = w.topic /\ cached' = w.topic
          /\ UNCHANGED <<retained, preset>>
       \/ /\ w.op = "preset" /\ preset' = w.topic
          /\ UNCHANGED <<retained, cached, shown>>
    /\ UNCHANGED <<caps, presets, last, seen, raced, starts, stopped>>

\* The client is gone, or SHUTDOWN_FANOUT_TIMEOUT is over: the rest is never written
GiveUp(t) ==
    /\ stopped /\ ~Idle(t)
    /\ writes' = [writes EXCEPT ![t] = <<>>]
    /\ raced' = TRUE
    /\ UNCHANGED <<discoveryVars, statusVars, starts, stopped>>

\* The broker may still show the preset of an earlier process.  Bound: of the discovery
\* configs it has none left over; they are in no last_published, and nobody clears them.
RetainedInit ==
    /\ caps = "unknown" /\ presets = {} /\ last = {}
    /\ writes = [t \in Tasks |-> <<>>]
    /\ retained = {} /\ cached = "none" /\ shown = "none" /\ seen = "none"
    /\ preset \in {"none", "old"}
    /\ raced = FALSE /\ starts = 0 /\ stopped = FALSE

RetainedNext ==
    \/ \E c \in {"ptz", "fixed"} : Probe(c)
    \/ ProbePresets \/ HandleConnack \/ BrokerRestart \/ Unpublish
    \/ \E ps \in PresetLists : QueryPtzPreset(ps)
    \/ \E p \in presets : MovetoPreset(p)
    \/ \E v \in {"on", "off"} : ReportStatus(v)
    \/ \E t \in Tasks : Write(t) \/ GiveUp(t)

RetainedSpec == RetainedInit /\ [][RetainedNext]_retainedVars

-----------------------------------------------------------------------------
(* publisher.rs 219-239 and 276-282: at rest the broker retains exactly    *)
(* the entities the camera has now, none of an earlier preset list or      *)
(* capability and none after a shutdown, the status it shows is the last   *)
(* one the camera reported, and the preset it shows, if any, is one of the *)
(* camera's and not of an earlier list or process - as long as no two      *)
(* tasks wrote at the same time and no write was given up.                 *)
RetainedIsCurrent ==
    (~raced /\ \A t \in Tasks : Idle(t)) =>
        /\ retained = IF stopped \/ caps = "unknown" THEN {} ELSE Topics
        /\ seen # "none" => shown = seen
        /\ caps # "unknown" => preset \in presets \union {"none"}

(* discovery/mod.rs and topics.rs agree with control.rs and mqtt/status.rs: *)
(* whatever an entity sends is a command, unless a preset has an empty name,*)
(* which the select offers all the same, or that of a reply; what it shows is published in a form it understands; and no two *)
(* entities share a unique id, whatever words the names of two cameras have *)
(* in common with the ids.                                                  *)
EntitiesUnderstood ==
    \A has_ptz \in BOOLEAN, ps \in PresetLists \union {{"empty", "name"}} :
      LET es == compute_payloads({Feature[i] : i \in 1..Len(Feature)},
                                 {"Motion", "Battery", "Floodlight", "Led", "Pir"}, has_ptz, ps)
          words == {"a", "floodlight", "pan", "pir"}
          names == {<<w>> : w \in words} \union {<<w, x>> : w \in words, x \in words}
      IN  /\ \A e \in es :
               /\ \A p \in e.sends : is_reserved_reply_token(p) \/ p = "empty"
                                       \/ parse_control_message(e.command, p)
               /\ e.state # "none" => /\ e.state \in DOMAIN StatusPublisher
                                      /\ e.reads \intersect StatusPublisher[e.state] # {}
          /\ \A e, f \in es, c, d \in names :
               unique(c, e) = unique(d, f) => c = d /\ e = f
=============================================================================
