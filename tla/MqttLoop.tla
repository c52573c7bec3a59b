------------------------------ MODULE MqttLoop ------------------------------
(***************************************************************************)
(* The MQTT event loop (run_mqtt_event_loop in src/main.rs, handle_connack *)
(* and MqttBackoff in src/mqtt_loop.rs), the camera tasks and control      *)
(* dispatchers that publish through it, and the shutdown sequence of main: *)
(* the Ctrl+C task, the orchestrator, the supervisor and mqtt_cancel.      *)
(*                                                                         *)
(* rumqttc is external.  A publish or subscribe puts one request into a    *)
(* queue of fixed size and waits while it is full; only a poll of the      *)
(* event loop on a live connection takes requests out.  A lost connection  *)
(* moves the queued requests to a list of the library's own; a poll that   *)
(* fails to connect does not touch the queue.                              *)
(***************************************************************************)
EXTENDS Integers

CONSTANTS
    Cameras,          \* the per-camera tasks
    QueueSize,        \* capacity of rumqttc's request queue
    ConnackRequests,  \* requests that handle_connack makes
    FanoutRequests,   \* requests that publish_shutdown_fanout makes
    MaxConsecutive,   \* where MqttBackoff.consecutive saturates
    MaxReplies        \* bound on the control dispatchers in flight

ASSUME MqttAssumption ==
    /\ QueueSize \in Nat \ {0}
    /\ {ConnackRequests, FanoutRequests, MaxConsecutive, MaxReplies} \subseteq Nat

VARIABLES
    broker,       \* the broker can be reached
    link,         \* the event loop has a connection
    queue,        \* number of requests queued
    loop,         \* where run_mqtt_event_loop is
    todo,         \* requests handle_connack has yet to make
    consecutive,  \* MqttBackoff.consecutive
    camera,       \* where each camera task is
    replies,      \* control dispatchers with a reply to publish
    ctl,          \* where the Ctrl+C task is
    fanout,       \* requests its fan-out has yet to make
    cancel,       \* the global cancellation token
    main,         \* where main is
    mqtt_cancel   \* the event loop's own cancellation token

linkVars == <<broker, link>>
loopVars == <<loop, todo, consecutive>>
taskVars == <<camera, replies>>
stopVars == <<ctl, fanout, cancel, main, mqtt_cancel>>
vars == <<broker, link, queue, loop, todo, consecutive, camera, replies,
          ctl, fanout, cancel, main, mqtt_cancel>>

Init ==
    /\ broker \in BOOLEAN
    /\ link = FALSE
    /\ queue = 0
    /\ loop = "poll"
    /\ todo = 0
    /\ consecutive = 0
    /\ camera = [c \in Cameras |-> "run"]
    /\ replies = 0
    /\ ctl = "wait"
    /\ fanout = 0
    /\ cancel = FALSE
    /\ main = "orchestrator"
    /\ mqtt_cancel = FALSE

\* One request is queued, or refused at once when the event loop is gone.
Enqueue ==
    \/ loop # "exited" /\ queue < QueueSize /\ queue' = queue + 1
    \/ loop = "exited" /\ queue' = queue

-----------------------------------------------------------------------------
(* run_mqtt_event_loop. *)

\* Defect: a new connection does not reset the backoff.
PollConnAckStale ==
    /\ loop = "poll"
    /\ ~link /\ broker
    /\ link' = TRUE
    /\ loop' = "connack"
    /\ todo' = ConnackRequests
    /\ UNCHANGED <<broker, queue, consecutive, taskVars, stopVars>>

\* The broker accepts: ConnAck, backoff.reset and handle_connack.
PollConnAck ==
    /\ loop = "poll"
    /\ ~link /\ broker
    /\ link' = TRUE
    /\ loop' = "connack"
    /\ todo' = ConnackRequests
    /\ consecutive' = 0
    /\ UNCHANGED <<broker, queue, taskVars, stopVars>>

\* Defect: the counter does not saturate.
PollErrorWraps ==
    /\ loop = "poll"
    /\ ~broker
    /\ link' = FALSE
    /\ queue' = IF link THEN 0 ELSE queue
    /\ loop' = "backoff"
    /\ consecutive' = consecutive + 1
    /\ UNCHANGED <<broker, todo, taskVars, stopVars>>

\* An error, paced by the backoff.
PollError ==
    /\ loop = "poll"
    /\ ~broker
    /\ link' = FALSE
    /\ queue' = IF link THEN 0 ELSE queue
    /\ loop' = "backoff"
    /\ consecutive' = IF consecutive < MaxConsecutive THEN consecutive + 1
                                                      ELSE consecutive
    /\ UNCHANGED <<broker, todo, taskVars, stopVars>>

\* An outgoing request: an event the loop ignores.
PollOutgoing ==
    /\ loop = "poll"
    /\ link /\ broker
    /\ queue > 0
    /\ queue' = queue - 1
    /\ UNCHANGED <<linkVars, loopVars, taskVars, stopVars>>

\* A control message: a dispatcher is spawned for it.
PollPublish ==
    /\ loop = "poll"
    /\ link /\ broker
    /\ replies < MaxReplies
    /\ replies' = replies + 1
    /\ consecutive' = 0
    /\ UNCHANGED <<linkVars, queue, loop, todo, camera, stopVars>>

\* handle_connack runs inside the loop's task: nothing polls meanwhile.
ConnackRequest ==
    /\ loop = "connack"
    /\ todo > 0
    /\ Enqueue
    /\ todo' = todo - 1
    /\ UNCHANGED <<linkVars, loop, consecutive, taskVars, stopVars>>

ConnackDone ==
    /\ loop = "connack"
    /\ todo = 0
    /\ loop' = "poll"
    /\ UNCHANGED <<linkVars, queue, todo, consecutive, taskVars, stopVars>>

\* Defect: the loop gives up after a number of errors.
BackoffGivesUp ==
    /\ loop = "backoff"
    /\ consecutive < MaxConsecutive
    /\ loop' = "poll"
    /\ UNCHANGED <<linkVars, queue, todo, consecutive, taskVars, stopVars>>

BackoffOver ==
    /\ loop = "backoff"
    /\ loop' = "poll"
    /\ UNCHANGED <<linkVars, queue, todo, consecutive, taskVars, stopVars>>

\* Defect: the loop is stopped by the global token.
LoopCancelledEarly ==
    /\ loop \in {"poll", "backoff"}
    /\ cancel
    /\ loop' = "exited"
    /\ UNCHANGED <<linkVars, queue, todo, consecutive, taskVars, stopVars>>

\* Both waits of the loop are raced against its token; handle_connack is not.
LoopCancelled ==
    /\ loop \in {"poll", "backoff"}
    /\ mqtt_cancel
    /\ loop' = "exited"
    /\ UNCHANGED <<linkVars, queue, todo, consecutive, taskVars, stopVars>>

-----------------------------------------------------------------------------
(* The tasks that publish. *)

\* A camera's run loop reports a change of its state ...
Report(c) ==
    /\ camera[c] = "run"
    /\ camera' = [camera EXCEPT ![c] = "send"]
    /\ UNCHANGED <<linkVars, queue, loopVars, replies, stopVars>>

\* ... or sees the cancellation: a connected one has a last report to make.
CameraCancelled(c, connected) ==
    /\ camera[c] = "run"
    /\ cancel
    /\ camera' = [camera EXCEPT ![c] = IF connected THEN "last" ELSE "done"]
    /\ UNCHANGED <<linkVars, queue, loopVars, replies, stopVars>>

\* An authentication failure ends the task of a camera.
CameraFailed(c) ==
    /\ camera[c] = "run"
    /\ camera' = [camera EXCEPT ![c] = "done"]
    /\ UNCHANGED <<linkVars, queue, loopVars, replies, stopVars>>

Reported(c) ==
    /\ camera[c] \in {"send", "last"}
    /\ Enqueue
    /\ camera' = [camera EXCEPT ![c] = IF @ = "last" THEN "done" ELSE "run"]
    /\ UNCHANGED <<linkVars, loopVars, replies, stopVars>>

Replied ==
    /\ replies > 0
    /\ Enqueue
    /\ replies' = replies - 1
    /\ UNCHANGED <<linkVars, loopVars, camera, stopVars>>

BrokerChanges ==
    /\ broker' = ~broker
    /\ UNCHANGED <<link, queue, loopVars, taskVars, stopVars>>

-----------------------------------------------------------------------------
(* The Ctrl+C task, and the end of main. *)

CtrlC ==
    /\ ctl = "wait"
    /\ ctl' = "fanout"
    /\ fanout' = FanoutRequests
    /\ UNCHANGED <<linkVars, queue, loopVars, taskVars, cancel, main, mqtt_cancel>>

FanoutRequest ==
    /\ ctl = "fanout"
    /\ fanout > 0
    /\ Enqueue
    /\ fanout' = fanout - 1
    /\ UNCHANGED <<linkVars, loopVars, taskVars, ctl, cancel, main, mqtt_cancel>>

\* Defect: the fan-out has no timeout.
FanoutOverUncapped ==
    /\ ctl = "fanout"
    /\ fanout = 0
    /\ ctl' = "flush"
    /\ UNCHANGED <<linkVars, queue, loopVars, taskVars, fanout, cancel, main,
                   mqtt_cancel>>

\* All published, or SHUTDOWN_FANOUT_TIMEOUT is over.
FanoutOver ==
    /\ ctl = "fanout"
    /\ ctl' = "flush"
    /\ UNCHANGED <<linkVars, queue, loopVars, taskVars, fanout, cancel, main,
                   mqtt_cancel>>

FlushOver ==
    /\ ctl = "flush"
    /\ ctl' = "over"
    /\ cancel' = TRUE
    /\ UNCHANGED <<linkVars, queue, loopVars, taskVars, fanout, main, mqtt_cancel>>

\* orchestrator.run returns and sup.shutdown begins with cancelling the token.
CamerasJoined ==
    /\ main = "orchestrator"
    /\ \A c \in Cameras : camera[c] = "done"
    /\ main' = "supervisor"
    /\ cancel' = TRUE
    /\ UNCHANGED <<linkVars, queue, loopVars, taskVars, ctl, fanout, mqtt_cancel>>

\* Every service has been joined or abandoned after its 2 s.
ServicesJoined ==
    /\ main = "supervisor"
    /\ main' = "mqtt"
    /\ mqtt_cancel' = TRUE
    /\ UNCHANGED <<linkVars, queue, loopVars, taskVars, ctl, fanout, cancel>>

\* Defect: main waits for the event loop without a timeout.
LoopJoinedUncapped ==
    /\ main = "mqtt"
    /\ loop = "exited"
    /\ main' = "complete"
    /\ UNCHANGED <<linkVars, queue, loopVars, taskVars, ctl, fanout, cancel,
                   mqtt_cancel>>

\* The event loop has exited, or 2 s are over.
LoopJoined ==
    /\ main = "mqtt"
    /\ main' = "complete"
    /\ UNCHANGED <<linkVars, queue, loopVars, taskVars, ctl, fanout, cancel,
                   mqtt_cancel>>

-----------------------------------------------------------------------------

LoopStep ==
    \/ PollConnAck \/ PollError \/ PollOutgoing \/ PollPublish
    \/ ConnackRequest \/ ConnackDone \/ BackoffOver \/ LoopCancelled

CameraStep(c) ==
    \/ Report(c) \/ CameraFailed(c) \/ Reported(c)
    \/ \E connected \in BOOLEAN : CameraCancelled(c, connected)

CtlStep == FanoutRequest \/ FanoutOver \/ FlushOver
MainStep == CamerasJoined \/ ServicesJoined \/ LoopJoined

\* When main returns the process is gone; what a leftover task could still do
\* then is of no consequence.
Next ==
    \/ LoopStep \/ Replied \/ BrokerChanges
    \/ \E c \in Cameras : CameraStep(c)
    \/ CtrlC \/ CtlStep \/ MainStep

\* A task whose await is ready is polled; senders are served in turn; poll does
\* not prefer incoming messages to queued requests for ever; timeouts fire.
Fairness ==
    /\ WF_vars(LoopStep)
    /\ SF_vars(PollOutgoing)
    /\ SF_vars(ConnackRequest)
    /\ \A c \in Cameras :
           /\ SF_vars(Reported(c))
           /\ SF_vars(\E connected \in BOOLEAN : CameraCancelled(c, connected))
    /\ WF_vars(FanoutOver) /\ WF_vars(FlushOver)
    /\ WF_vars(MainStep)

SafetySpec == Init /\ [][Next]_vars
Spec == SafetySpec /\ Fairness

-----------------------------------------------------------------------------
(* Properties *)

\* The queue, the event loop, its clients and the shutdown sequence are well
\* formed.
TypeOK ==
    /\ broker \in BOOLEAN /\ link \in BOOLEAN
    /\ queue \in 0..QueueSize
    /\ loop \in {"poll", "connack", "backoff", "exited"}
    /\ todo \in 0..ConnackRequests
    /\ consecutive \in 0..MaxConsecutive
    /\ camera \in [Cameras -> {"run", "send", "last", "done"}]
    /\ replies \in 0..MaxReplies
    /\ ctl \in {"wait", "fanout", "flush", "over"}
    /\ fanout \in 0..FanoutRequests
    /\ cancel \in BOOLEAN /\ mqtt_cancel \in BOOLEAN
    /\ main \in {"orchestrator", "supervisor", "mqtt", "complete"}

\* MQTT is the last subsystem to shut down: the event loop is told to stop, and
\* does, only when every camera task has finished, so that no camera's last
\* report is refused.
LoopOutlivesCameras ==
    mqtt_cancel \/ loop = "exited" => \A c \in Cameras : camera[c] = "done"

\* A loop with a connection has a fresh backoff, so the first error of the next
\* outage is loud and retried quickly, although only two of the four kinds of
\* event reset it.
BackoffFreshWhenLinked == link => consecutive = 0

\* Ctrl+C reaches the cancellation token even if the fan-out is stuck on a full
\* queue and the event loop never polls again.
CtrlCCancels == ctl = "fanout" ~> cancel

\* After the cancellation the process ends, unless a camera task is waiting for
\* room in the queue.
ShutdownEnds ==
    cancel ~> (main = "complete" \/ \E c \in Cameras : camera[c] \in {"send", "last"})

\* While the broker stays reachable and the event loop keeps coming back to poll,
\* every camera's report is taken.
ReportTaken ==
    <>[]broker /\ []<>(loop # "connack")
        => \A c \in Cameras : camera[c] \in {"send", "last"}
                                 ~> camera[c] \in {"run", "done"}

\* What the loop and the shutdown sequence keep: bounded queue and counter, MQTT stops
\* last, and the backoff starts afresh with every connection.
LoopSafety == TypeOK /\ LoopOutlivesCameras /\ BackoffFreshWhenLinked

\* What the loop and the shutdown sequence owe: Ctrl+C works, shutdown ends, and reports
\* are taken.
LoopProgress == CtrlCCancels /\ ShutdownEnds /\ ReportTaken

(* What the repository's comments say and TLC refutes (README, 3). *)

\* src/main.rs, of the cameras' last reports: "these succeed because the MQTT
\* event loop is still polling (mqtt_cancel hasn't fired yet)".
LastReportTaken ==
    <>[]broker => \A c \in Cameras : camera[c] = "last" ~> camera[c] = "done"
=============================================================================
