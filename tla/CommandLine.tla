----------------------------- MODULE CommandLine -----------------------------
(***************************************************************************)
(* The command line (cli.rs, cli_convert.rs, the first part of main.rs) and *)
(* the exit codes (oneshot/classify.rs over bc_protocol/errors.rs): which   *)
(* commands there are, where each is handled, what an omitted action stands *)
(* for, and what an error of the camera exits with.                         *)
(*                                                                          *)
(* A command is its name and its action, "none" when that is omitted; for   *)
(* services "all" says that no service is named, "zero" sets port 0.        *)
(***************************************************************************)
EXTENDS Naturals, Sequences

ServiceModes == {"mqtt", "rtsp", "mqtt-rtsp"}
OneShotArgs == {"reboot", "battery", "presets", "set-time", "version", "siren", "abilities"}

PtzCommand == {"preset", "preset id", "assign", "control", "zoom"}
ServiceAction == {"get", "on", "off", "port", "zero", "set"}
UserAction == {"list", "add", "password", "delete"}
OnOff == {"on", "off"}

\* The actions a command can be given with
Actions(name) ==
    CASE name = "ptz"      -> PtzCommand \union {"none"}
      [] name = "services" -> ServiceAction \union {"none", "all"}
      [] name = "users"    -> UserAction \union {"none"}
      [] name = "snapshot" -> {"none", "use-stream", "use-stream-raw"}
      [] name \in {"floodlight", "pir", "status-light"} -> OnOff \union {"none"}
      [] OTHER -> {"none"}

WithActions == {"capture", "snapshot", "floodlight", "pir", "status-light", "ptz", "services", "users"}
Local == {"check-config", "cloud-authorise", "render-hassio-config"}
CommandNames == ServiceModes \union OneShotArgs \union WithActions \union Local
CommandLines == UNION {[name : {n}, action : Actions(n)] : n \in CommandNames}

wants_mqtt(c) == c.name \in {"mqtt", "mqtt-rtsp"}
wants_rtsp(c) == c.name \in {"rtsp", "mqtt-rtsp"}
is_oneshot(c) == c.name \notin ServiceModes
camera_name(c) == c.name \in OneShotArgs \union WithActions

\* async_main and run_oneshot_to: who takes the command
Route(c) ==
    IF c.name = "render-hassio-config" THEN "hassio"
    ELSE IF ~is_oneshot(c) THEN "service"
    ELSE CASE c.name = "check-config"    -> "config"
           [] c.name = "cloud-authorise" -> "cloud"
           [] OTHER                      -> "camera"

-----------------------------------------------------------------------------
(* The requests of the commands for a camera, in order.  "probe" is one of   *)
(* the reads of services::run_all, which never fails; "drain" reads the      *)
(* stream for an I-frame, "window" for as long as a capture lasts, whatever  *)
(* the stream brings; "check" and "password" are local.                      *)

\* Defect: an omitted action switches the service on.
clone_service_on(a) == IF a = "none" THEN "on" ELSE a

clone_ptz_cmd(a) == IF a = "none" THEN "preset" ELSE a
clone_service_action(a) == IF a = "none" THEN "get" ELSE a
clone_user_action(a) == IF a = "none" THEN "list" ELSE a

Ptz(a) == IF a = "preset" THEN <<"read">> ELSE <<"set">>
Services == <<"probe", "probe", "probe", "probe", "probe", "probe">>
ServicesOne(a) ==
    CASE a = "get"  -> <<"read">>
      [] a = "zero" -> <<"refuse">>
      [] OTHER      -> <<"set", "read">>
Users(a) ==
    CASE a = "list"   -> <<"read">>
      [] a = "delete" -> <<"set">>
      [] OTHER        -> <<"password", "set">>
SetAndRead(a) == IF a = "none" THEN <<"read">> ELSE <<"set", "read">>
SnapshotStream == <<"start", "drain", "stop", "check">>
Capture == <<"check", "start", "window", "stop", "check">>

\* dispatch_oneshot
Body(c) ==
    CASE c.name \in {"battery", "version", "abilities", "presets"} -> <<"read">>
      [] c.name \in {"reboot", "siren", "set-time"} -> <<"set">>
      [] c.name = "ptz" -> Ptz(clone_ptz_cmd(c.action))
      [] c.name = "users" -> Users(clone_user_action(c.action))
      [] c.name = "services" /\ c.action = "all" -> Services
      [] c.name = "services" /\ c.action # "all" -> ServicesOne(clone_service_action(c.action))
      [] c.name \in {"floodlight", "pir", "status-light"} -> SetAndRead(c.action)
      [] c.name = "snapshot" -> IF c.action = "use-stream-raw" THEN SnapshotStream ELSE <<"read">>
      [] c.name = "capture" -> Capture

-----------------------------------------------------------------------------
(* Errors and exit codes.                                                    *)

EXIT_OK == 0
EXIT_UNEXPECTED == 1
EXIT_USAGE == 2
EXIT_CONFIG == 3
EXIT_CONNECTION == 4
EXIT_PROTOCOL == 5
EXIT_UNSUPPORTED == 6
EXIT_INTERRUPTED == 130

\* Error, by what it tells: the way to the camera, the login, the transport,
\* time, the camera's answer
Unreachable == {"DiscoveryTimeout", "DiscoveryIgnored", "NoDmap", "NoDev", "RegisterError",
                "ConnectionUnavailable", "CannotInitCamera", "AddrResolutionError", "AddrParseError"}
Refused == {"CameraLoginFail", "AuthFailed"}
Lost == {"DroppedConnection", "DroppedConnectionTry", "BroadcastDroppedConnectionTry",
         "ConnectionShutdown", "RelayTerminate", "CameraTerminate", "BcUdpDropReceiver",
         "BcUdpDropSender", "BcUdpPayloadDroppedInner", "Io"}
Late == {"Timeout", "TimeoutError", "TimeoutDisconnected", "BcUdpTimeout", "BcUdpReconnectTimeout"}
Unsupported == {"MissingAbility"}
Answer == {"TimeRange", "TimeParse", "TryFromInt", "TimeTryFrom", "UnintelligibleReply",
           "UnintelligibleXml", "CameraServiceUnavailable", "StreamFinished", "TokioBcSendError",
           "UnknownTalkEncoding", "UserAlreadyExists", "UserNotFound", "DiscoveryNoRelay",
           "GenError", "SimultaneousSubscription", "SimultaneousSubscriptionId",
           "UnknownEncryption", "DroppedSubscriber", "UnknownConnectionId", "UnknownSource",
           "NomIncomplete", "NomError", "JoinError", "Other", "Cloud"}
Errors == Unreachable \union Refused \union Lost \union Late \union Unsupported \union Answer

classify_core(e) ==
    CASE e \in Unreachable \union Refused \union Lost \union Late -> EXIT_CONNECTION
      [] e \in Unsupported -> EXIT_UNSUPPORTED
      [] OTHER -> EXIT_PROTOCOL

\* An error of the camera as an io::Error and back: one that an io::Error only
\* carries is taken out of it again
Wrapped(e) == [kind |-> "io", inner |-> e]
From(k) == IF k.inner \in Errors THEN k.inner ELSE "Io"

-----------------------------------------------------------------------------
\* Every command is taken by exactly one part of the program and none reaches an
\* arm of dispatch_oneshot that the code calls internal; a command goes to a
\* camera exactly when it names one, and a service runs MQTT, RTSP or both; a
\* command whose action is omitted only reads, and one with a port of 0 sends
\* nothing that changes the camera; a lost connection exits as one also when an
\* io::Error carried it (cli.rs, cli_convert.rs, dispatch.rs, classify.rs).
CommandsRouted ==
    /\ \A c \in CommandLines :
         /\ (Route(c) = "camera") <=> camera_name(c)
         /\ (Route(c) = "service") <=> (wants_mqtt(c) \/ wants_rtsp(c))
         /\ (Actions(c.name) # {"none"} /\ c.action \in {"none", "all", "zero"})
              => \A i \in DOMAIN Body(c) : Body(c)[i] # "set"
    /\ \A e \in Errors : classify_core(From(Wrapped(e))) = classify_core(e)
=============================================================================
