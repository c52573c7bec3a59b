------------------------------- MODULE BcCommands -------------------------------
(***************************************************************************)
(* The camera commands of BcCamera as data.  Nearly every command is one   *)
(* or more exchanges: pass the ability gate, subscribe to a message id     *)
(* under a fresh number, send one request, wait for one reply and judge    *)
(* it.  A command is the sequence of its exchanges; what differs between   *)
(* commands (gate, id, retries, how the reply is judged) is in the record. *)
(***************************************************************************)
EXTENDS Naturals, Sequences, FiniteSets

CONSTANT RETRIES        \* get_services, get_pirstate: retries after code 400 (5)

ASSUME RetriesAssumption == RETRIES \in Nat

\* The message ids of the commands below, and of the camera's keepalive.
MsgIds ==
    {"LOGIN", "LOGOUT", "VIDEO", "VIDEO_STOP", "PTZ_CONTROL", "PTZ_CONTROL_PRESET", "REBOOT",
     "MOTION_REQUEST", "SET_SERVICE_PORTS", "GET_SERVICE_PORTS", "GET_ABILITY_SUPPORT",
     "UPDATE_USER_LIST", "VERSION", "PING", "GET_GENERAL", "SET_GENERAL", "GET_DST", "SNAP",
     "ABILITY_INFO", "GET_PTZ_PRESET", "GET_SUPPORT", "GET_LED_STATUS", "SET_LED_STATUS",
     "GET_PIR_ALARM", "START_PIR_ALARM", "KEEP_ALIVE", "BATTERY_INFO", "PLAY_AUDIO",
     "FLOODLIGHT_MANUAL", "FLOODLIGHT_TASKS_WRITE", "GET_ZOOM_FOCUS", "SET_ZOOM_FOCUS",
     "FLOODLIGHT_TASKS_READ"}

NoNeed == [name |-> "-", kind |-> "-"]
Ro(name) == [name |-> name, kind |-> "ro"]
Rw(name) == [name |-> name, kind |-> "rw"]

\* How a reply is judged:
\*   xml     needs code 200 and the expected element
\*   anyxml  needs the element, whatever the code
\*   ok      needs code 200
\*   quirk   code 200, or no reply within SET_QUIRK_TIMEOUT
\*   none    nothing is awaited
\*   offer, modern, binary    the login exchanges
\*   chunks, stream, stop     the snapshot and the video stream
\* refuse is the error a code other than 200 gives; sub tells whether the exchange
\* subscribes under a new number, to any number of its id, under the number of
\* the previous exchange, or goes on with the previous subscription.
Exchange(id, need, reply, refuse) ==
    [id |-> id, need |-> need, reply |-> reply, refuse |-> refuse, retries |-> 0,
     sub |-> "new", unless |-> "-", advisory |-> FALSE]

Get(id, need) == Exchange(id, need, "xml", "CameraServiceUnavailable")
Set(id, need) == Exchange(id, need, "quirk", "CameraServiceUnavailable")
Order(id, need, refuse) == Exchange(id, need, "ok", refuse)

\* The exchange is skipped, or refused, when the reply before it says so.
Unless(x, body) == [x EXCEPT !.unless = body]

(* One definition per command. *)
get_services == <<[Get("GET_SERVICE_PORTS", Ro("port")) EXCEPT !.retries = RETRIES]>>
set_services == <<Set("SET_SERVICE_PORTS", Rw("port"))>>
WebPorts == {get_services, get_services \o set_services}
MediaPorts == {get_services, get_services \o set_services}

get_ledstate == <<Get("GET_LED_STATUS", Ro("ledState"))>>
set_ledstate == <<Set("SET_LED_STATUS", Rw("ledState"))>>
led_light_set == get_ledstate \o set_ledstate

get_pirstate == <<[Get("GET_PIR_ALARM", Ro("rfAlarm")) EXCEPT !.retries = RETRIES]>>
set_pirstate == <<Set("START_PIR_ALARM", Rw("rfAlarm"))>>
pir_set == get_pirstate \o set_pirstate

set_floodlight_manual == <<Set("FLOODLIGHT_MANUAL", NoNeed)>>
get_floodlight_tasks == <<Get("FLOODLIGHT_TASKS_READ", NoNeed)>>
set_floodlight_tasks == <<Order("FLOODLIGHT_TASKS_WRITE", NoNeed, "CameraServiceUnavailable")>>
floodlight_tasks_enable ==
    get_floodlight_tasks \o <<Unless(set_floodlight_tasks[1], "already")>>

send_ptz == <<Order("PTZ_CONTROL", Rw("control"), "UnintelligibleReply")>>
get_ptz_preset == <<Exchange("GET_PTZ_PRESET", Ro("control"), "anyxml", "-")>>
set_ptz_preset == <<Order("PTZ_CONTROL_PRESET", Rw("control"), "UnintelligibleReply")>>
moveto_ptz_preset == set_ptz_preset
get_zoom == <<Get("GET_ZOOM_FOCUS", Ro("control"))>>
zoom_to == get_zoom \o <<Order("SET_ZOOM_FOCUS", Rw("control"), "UnintelligibleReply")>>

get_users == <<Get("GET_ABILITY_SUPPORT", Ro("user"))>>
set_users == <<Set("UPDATE_USER_LIST", Rw("user"))>>
add_user == get_users \o <<Unless(set_users[1], "exists")>>
modify_user == get_users \o <<Unless(set_users[1], "missing")>>
delete_user == modify_user

get_system_general == <<Get("GET_GENERAL", NoNeed)>>
get_time == <<[get_system_general[1] EXCEPT !.need = Ro("general")]>>
get_dst == <<Get("GET_DST", NoNeed)>>
set_time ==
    <<[get_dst[1] EXCEPT !.need = Rw("general"), !.advisory = TRUE]>>
    \o get_system_general \o <<Order("SET_GENERAL", NoNeed, "UnintelligibleReply")>>

battery_info ==
    <<Exchange("BATTERY_INFO", NoNeed, "xml", "UnintelligibleReply")>>
get_linktype == <<Get("PING", NoNeed)>>
get_support == <<Get("GET_SUPPORT", NoNeed)>>
version == <<Get("VERSION", Ro("version"))>>
reboot == <<Order("REBOOT", Rw("reboot"), "UnintelligibleReply")>>
siren == <<Order("PLAY_AUDIO", Rw("siren"), "CameraServiceUnavailable")>>
logout == <<Exchange("LOGOUT", NoNeed, "none", "-")>>
get_abilityinfo == <<Get("ABILITY_INFO", NoNeed)>>
start_motion_query == <<Order("MOTION_REQUEST", Rw("motion"), "UnintelligibleReply")>>

\* A stream may be opened and stopped by whoever may write preview or read streamTable;
\* the abilities are one right for all names, so the second, weaker one decides.
Preview == Ro("streamTable")
stop_video == <<Order("VIDEO_STOP", Preview, "CameraServiceUnavailable")>>

\* The reply names the size; the picture follows on the same id under a number
\* of the camera's choice.  A size over MAX_SNAPSHOT_BYTES is refused at once.
get_snapshot ==
    <<Get("SNAP", Ro("preview")),
      [Unless(Exchange("SNAP", NoNeed, "chunks", "CameraServiceUnavailable"), "huge")
         EXCEPT !.sub = "any"]>>

\* The stream's task: frames until the consumer leaves, then the stop request
\* under the same number, sent whatever the stream's outcome.
start_video ==
    <<Exchange("VIDEO", Preview, "stream", "UnintelligibleReply"),
      [Exchange("VIDEO_STOP", NoNeed, "stop", "-") EXCEPT !.sub = "number"]>>

-----------------------------------------------------------------------------------
(* Login: what follows depends on the configuration and on the camera's offer. *)

LoginConfig == [is_cloud : BOOLEAN, password : BOOLEAN, handshake : BOOLEAN]

Upgrade == Exchange("LOGIN", NoNeed, "offer", "-")
Modern == [Exchange("LOGIN", NoNeed, "modern", "CameraLoginFail") EXCEPT !.sub = "same"]
GetAccesskey == [Exchange("LOGIN", NoNeed, "binary", "-") EXCEPT !.sub = "same"]
AuthLogin == [Exchange("LOGIN", NoNeed, "xml", "CameraLoginFail") EXCEPT !.sub = "same"]
SigV3 == Exchange("LOGIN", NoNeed, "xml", "CameraLoginFail")

populate_abilities == get_abilityinfo
Advisory(plan) == <<[plan[1] EXCEPT !.advisory = TRUE]>>
finish_cloud_login == Advisory(populate_abilities)

\* The exchanges after the camera's offer; none: the login fails.
run_authlogin == <<GetAccesskey, AuthLogin>>
AfterOffer(config, offer) ==
    CASE ~config.is_cloud -> <<Modern>> \o populate_abilities
      [] config.is_cloud /\ offer = "sigV3" -> <<SigV3>> \o finish_cloud_login
      [] config.is_cloud /\ offer = "getAccesskey" -> run_authlogin \o finish_cloud_login
      [] OTHER -> <<>>

\* login_with_maxenc, AES: a handshake that already carried the camera's key needs
\* no negotiation; a camera of the local network needs a password.
Login(config) ==
    CASE config.handshake -> <<SigV3>> \o finish_cloud_login
      [] ~config.handshake /\ (config.is_cloud \/ config.password) -> <<Upgrade>>
      [] OTHER -> <<>>

Commands ==
    WebPorts \cup MediaPorts \cup
    {get_ledstate, led_light_set, get_pirstate, pir_set, set_floodlight_manual,
     get_floodlight_tasks, set_floodlight_tasks, floodlight_tasks_enable, send_ptz,
     get_ptz_preset, set_ptz_preset, moveto_ptz_preset, get_zoom, zoom_to, get_users,
     add_user, modify_user, delete_user, get_time, get_dst, set_time, battery_info,
     get_linktype, get_support, version, reboot, siren, logout, start_motion_query,
     stop_video, get_snapshot, start_video}

\* How the exchanges of a plan hang together: an exchange that goes on with the previous
\* subscription waits for the same id; a subscription to any number, and the stop of a
\* stream, end the command; a stream is followed by its stop; an offer by a login.
Needs ==
    {NoNeed} \cup
    [name : {"control", "general", "ledState", "motion", "port", "preview", "reboot", "rfAlarm",
             "siren", "streamTable", "user", "version"}, kind : {"ro", "rw"}]
Exchanges ==
    [id : MsgIds, need : Needs,
     reply : {"xml", "anyxml", "ok", "quirk", "none", "offer", "modern", "binary", "chunks",
              "stream", "stop"},
     refuse : {"-", "CameraServiceUnavailable", "UnintelligibleReply", "CameraLoginFail"},
     retries : Nat, sub : {"new", "same", "any", "number"}, 
     unless : {"-", "already", "exists", "missing", "huge"}, advisory : BOOLEAN]
Sound(x) ==
    /\ x.sub \in {"any", "number"} => x.reply \in {"chunks", "stop"}
    /\ x.reply = "offer" => x.id = "LOGIN" /\ x.sub = "new"
Follows(x, y) == x.sub \in {"new", "same"} /\ (y.sub = "same" => y.id = x.id)
Planned(plan) ==
    /\ plan \in Seq(Exchanges) /\ plan # <<>>
    /\ \A i \in 1..Len(plan) : Sound(plan[i])
    /\ \A i \in 1..Len(plan) - 1 : Follows(plan[i], plan[i + 1])
    /\ plan[Len(plan)].reply # "stream"

\* A command whose replies come under the numbers of its requests: all but the snapshot.
\* A stop request has an id of its own, and nobody asks under the keepalive's id.
Direct(plan) ==
    /\ \A i \in 1..Len(plan) :
         /\ plan[i].id # "KEEP_ALIVE" /\ plan[i].sub # "any" /\ plan[i].reply # "chunks"
         /\ plan[i].reply = "stream" => plan[i].id = "VIDEO"
    /\ \A i \in 1..Len(plan) - 1 : plan[i + 1].sub = "number" => plan[i + 1].id # plan[i].id

-----------------------------------------------------------------------------------
(* Judging a reply: "ok", "retry" or the error the command returns.  A body is     *)
(* "element" (the expected one), "already", "exists", "missing" or "huge" (the     *)
(* element, with a content the command looks at), "binary", "part" (a piece of a   *)
(* snapshot), an offer, "other" or "empty".                                        *)

Offers == {"sigV3", "getAccesskey", "plain"}
Elements == {"element", "already", "exists", "missing", "huge"}

Judge(x, r, tried) ==
    CASE x.reply \in {"ok", "quirk", "stream"} -> IF r.code = 200 THEN "ok" ELSE x.refuse
      [] x.reply = "xml" ->
            (CASE r.code = 400 /\ tried < x.retries -> "retry"
               [] r.code # 200 /\ ~(r.code = 400 /\ tried < x.retries) -> x.refuse
               [] r.code = 200 /\ r.body \notin Elements -> "UnintelligibleReply"
               [] OTHER -> "ok")
      [] x.reply = "anyxml" -> IF r.body \in Elements THEN "ok" ELSE "UnintelligibleReply"
      [] x.reply = "offer" -> IF r.body \in Offers THEN "ok" ELSE "UnintelligibleReply"
      [] x.reply = "binary" -> IF r.body = "binary" THEN "ok" ELSE "CameraLoginFail"
      [] x.reply = "modern" ->
            (CASE r.code # 200 -> x.refuse
               [] r.code = 200 /\ r.body = "empty" -> "AuthFailed"
               [] r.code = 200 /\ r.body \notin Elements \cup {"empty"} -> "UnintelligibleReply"
               [] OTHER -> "ok")
      [] x.reply = "chunks" ->
            (CASE r.body # "part" /\ r.code \in {200, 201} -> "UnintelligibleReply"
               [] r.body = "part" /\ r.code = 200 -> "more"
               [] r.body = "part" /\ r.code = 201 -> "ok"
               [] OTHER -> x.refuse)
      [] x.reply \in {"stop", "none"} -> "ok"

\* What is left of a plan after its first exchange succeeded with reply r: nothing when
\* the next one is skipped or refused for what r says.
Rest(plan, r, config) ==
    LET rest == Tail(plan)
    IN  IF plan[1].reply = "offer" THEN AfterOffer(config, r.body)
        ELSE IF rest # <<>> /\ rest[1].unless = r.body THEN <<>> ELSE rest
===================================================================================
