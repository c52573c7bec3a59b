------------------------------- MODULE MqttControl -------------------------------
(***************************************************************************)
(* The control and query topics of one camera: which payloads each of them *)
(* takes, and which command a message becomes.  A payload is one of the    *)
(* classes the parser tells apart; a command is known by the topic it came *)
(* on, which is also the topic its reply goes to.                          *)
(***************************************************************************)
LOCAL INSTANCE Naturals

\* What a payload is to the parser, trimmed and without regard to case.  A "name" is any
\* other text, "id_name" a number, a blank and a name; the two replies are reserved.
Replies == {"OK", "FAIL"}
Payloads == Replies \cup {"on_off", "auto", "direction", "number", "float", "zero",
                          "negative", "name", "id_name", "empty", "not_utf8"}

is_reserved_reply_token(p) == p \in Replies

\* topics.rs: the topics the bridge subscribes to for a camera.
control_topics == {"floodlight", "floodlight_tasks", "led", "ir", "pir", "reboot", "ptz",
                   "ptz_preset", "ptz_assign", "zoom", "siren", "wakeup"}
query_topics == {"query_battery", "query_preview", "query_pir", "query_ptz_preset"}
subscribe_topics == control_topics \cup query_topics

Unreserved == {p \in Payloads : ~is_reserved_reply_token(p)} \ {"not_utf8"}

\* The payloads of a topic that become a command.  "number" is 1..255 here, so that a
\* number is also a zoom level and minutes to stay awake; zero is no number of minutes.
\* An on_off payload may be spelled 0 or 1 and is then a number as well, which the
\* parser of that topic decides.
parse_control_action ==
    [floodlight |-> {"on_off"}, floodlight_tasks |-> {"on_off"}, led |-> {"on_off"},
     ir |-> {"on_off", "auto"}, pir |-> {"on_off"}, siren |-> {"on_off"},
     reboot |-> Unreserved,
     ptz |-> {"direction"}, zoom |-> {"number", "float", "zero"}, wakeup |-> {"number"}]

parse_control_ptz_sub ==
    [ptz_preset |-> Unreserved \ {"empty"}, ptz_assign |-> {"id_name"}]

\* Defect: a query is recognised whatever its payload says.
ParseQueryAny == [t \in query_topics |-> Payloads \ {"not_utf8"}]
\* A query takes any payload but a reply: the payload says nothing.
parse_query_action == [t \in query_topics |-> Unreserved]

parse_control_message(topic, payload) ==
    \/ topic \in DOMAIN parse_control_action /\ payload \in parse_control_action[topic]
    \/ topic \in DOMAIN parse_control_ptz_sub /\ payload \in parse_control_ptz_sub[topic]
    \/ topic \in query_topics /\ payload \in parse_query_action[topic]
==================================================================================
