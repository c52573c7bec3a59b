----------------------------- MODULE CameraActivity -----------------------------
(***************************************************************************)
(* What goes on around one camera beside its streams: the tasks of a       *)
(* session (motion listener, battery poller), the motion push, the wake-up *)
(* at start, and the commands that arrive over MQTT, each of which holds   *)
(* the camera's wake lock while it is at work.  The session comes and goes *)
(* (CameraLifecycle); the broker hands the bridge its own replies back,    *)
(* because a reply is published on the topic the command came on.          *)
(***************************************************************************)
EXTENDS Naturals, Sequences, FiniteSets, MqttControl

CONSTANTS
    Commands,      \* control messages a client may publish
    TopicsUsed,    \* topics they may be on
    Budgets,       \* configurations, and bounds on the outside's steps
    MaxUnsupported \* BATTERY_MAX_UNSUPPORTED

ASSUME ActivityAssumption ==
    /\ TopicsUsed \subseteq subscribe_topics
    /\ Budgets \subseteq [enable_motion : BOOLEAN, warm : BOOLEAN, sessions : Nat, cancels : Nat,
                         alarms : Nat, pushes : Nat, polls : Nat, commands : Nat]
    /\ MaxUnsupported \in Nat

VARIABLES
    budget,    \* the configuration, and the steps the outside may still take
    token,     \* the camera's cancellation token
    session,   \* whether a session is up
    moving,    \* motion in front of the camera
    alarms,    \* MotionData::rx: statuses not yet taken
    listener,  \* motion_listener: step, wake guard, release timer
    motion,    \* the retained motion status
    push,      \* fire_motion: step of the task
    warm,      \* startup_wake: step, and what it found out about audio
    battery,   \* battery_poller: refusals in a row, answered in this session, latch
    inbox,     \* messages the broker will deliver to the bridge
    sent,      \* commands the client has published
    task,      \* per command: step of its dispatcher
    ptz        \* the last pan or tilt request sent, and whether the camera moves

activityVars == <<budget, token, session, moving, alarms, listener, motion, push, warm, battery,
          inbox, sent, task, ptz>>
Up == session
Spend(what) == budget[what] > 0 /\ budget' = [budget EXCEPT ![what] = @ - 1]
NoListener == [pc |-> "off", guard |-> FALSE, timer |-> FALSE, report |-> "-"]
NoTask == [pc |-> "-", topic |-> "-", ok |-> FALSE]

ActivityInit ==
    /\ budget \in Budgets
    /\ token = FALSE
    /\ session = FALSE
    /\ moving = FALSE
    /\ alarms = <<>>
    /\ listener = NoListener
    /\ motion = "unknown"
    /\ push = "idle"
    /\ warm = [pc |-> IF budget.warm THEN "source" ELSE "done", audio |-> "unknown"]
    /\ battery = [streak |-> 0, ok |-> FALSE, latched |-> FALSE, answered |-> FALSE]
    /\ inbox = <<>>
    /\ sent = {}
    /\ task = [c \in Commands |-> NoTask]
    /\ ptz = [last |-> "stop", moves |-> FALSE]

-----------------------------------------------------------------------------------
(* The session: spawn_session_tasks and teardown. *)

\* Wanted by the wake lock or always on, the camera connects; the listener and the
\* battery poller start with it, the latter unless it has given up for good.
SessionStarts ==
    /\ ~Up /\ ~token /\ Spend("sessions")
    /\ session' = TRUE
    /\ listener' = IF budget.enable_motion THEN [NoListener EXCEPT !.pc = "subscribe"]
                   ELSE NoListener
    /\ battery' = [battery EXCEPT !.streak = 0, !.ok = FALSE]
    /\ UNCHANGED <<token, moving, alarms, motion, push, warm, inbox, sent, task, ptz>>

\* The session is over: its tasks are ended, their guards dropped.
SessionEnds ==
    /\ Up
    /\ session' = FALSE
    /\ listener' = NoListener
    /\ alarms' = <<>>
    /\ ptz' = [ptz EXCEPT !.moves = FALSE]
    /\ UNCHANGED <<budget, token, moving, motion, push, warm, battery, inbox, sent, task>>

Cancel ==
    /\ ~token /\ Spend("cancels")
    /\ token' = TRUE
    /\ UNCHANGED <<session, moving, alarms, listener, motion, push, warm, battery, inbox, sent,
                   task, ptz>>

-----------------------------------------------------------------------------------
(* Motion: the camera's alarms, the listener, the push. *)

\* An alarm message: motion begins, ends, or it is about something else (another
\* channel, no list); a subscribed listener gets one status for it.
Alarm(what) ==
    /\ Spend("alarms")
    /\ what # "nochange" => (what = "start") # moving
    /\ moving' = IF what = "nochange" THEN moving ELSE what = "start"
    /\ alarms' = IF listener.pc \in {"select", "report"} THEN Append(alarms, what) ELSE alarms
    /\ UNCHANGED <<token, session, listener, motion, push, warm, battery, inbox, sent, task, ptz>>

\* listen_on_motion, or the wait before it is tried again.
ListenerSubscribes(ok) ==
    /\ listener.pc = "subscribe"
    /\ listener' = [listener EXCEPT !.pc = IF ok THEN "select" ELSE "backoff"]
    /\ UNCHANGED <<budget, token, session, moving, alarms, motion, push, warm, battery, inbox, sent,
                   task, ptz>>
ListenerRetries ==
    /\ listener.pc = "backoff"
    /\ listener' = [listener EXCEPT !.pc = "subscribe"]
    /\ UNCHANGED <<budget, token, session, moving, alarms, motion, push, warm, battery, inbox, sent,
                   task, ptz>>

\* next_motion: whatever is queued is taken, and only the last of it counts.
ListenerTakes ==
    /\ listener.pc = "select" /\ alarms # <<>>
    /\ LET last == alarms[Len(alarms)]
       IN  listener' =
             CASE last = "start" -> [listener EXCEPT !.pc = "report", !.report = "on",
                                                     !.guard = TRUE, !.timer = FALSE]
               [] last = "stop" -> [listener EXCEPT !.pc = "report", !.report = "off"]
               [] last = "nochange" -> listener
    /\ alarms' = <<>>
    /\ UNCHANGED <<budget, token, session, moving, motion, push, warm, battery, inbox, sent, task, ptz>>

\* The report is published or fails; a stop then starts the hold's countdown.
ListenerReported(ok) ==
    /\ listener.pc = "report"
    /\ motion' = IF ok THEN listener.report ELSE motion
    /\ listener' = [listener EXCEPT !.pc = "select", !.report = "-",
                       !.timer = IF listener.report = "off" THEN listener.guard ELSE FALSE]
    /\ UNCHANGED <<budget, token, session, moving, alarms, push, warm, battery, inbox, sent, task, ptz>>

\* The countdown ends and the guard goes.
ListenerReleases ==
    /\ listener.pc = "select" /\ listener.timer
    /\ listener' = [listener EXCEPT !.guard = FALSE, !.timer = FALSE]
    /\ UNCHANGED <<budget, token, session, moving, alarms, motion, push, warm, battery, inbox, sent,
                   task, ptz>>

\* The event stream breaks: the guard goes with the inner loop.
ListenerFails ==
    /\ listener.pc = "select"
    /\ listener' = [NoListener EXCEPT !.pc = "backoff"]
    /\ alarms' = <<>>
    /\ UNCHANGED <<budget, token, session, moving, motion, push, warm, battery, inbox, sent, task, ptz>>

\* A connection to the push port from a registered camera: a task that reports motion,
\* holds the camera for motion_wake_hold and reports the end of motion.
PushArrives ==
    /\ push = "idle" /\ ~token /\ Spend("pushes")
    /\ push' = "on"
    /\ UNCHANGED <<token, session, moving, alarms, listener, motion, warm, battery, inbox, sent,
                   task, ptz>>
PushReports(ok) ==
    /\ push \in {"on", "off"}
    /\ motion' = IF ok THEN push ELSE motion
    /\ push' = IF push = "on" THEN "hold" ELSE "idle"
    /\ UNCHANGED <<budget, token, session, moving, alarms, listener, warm, battery, inbox, sent, task, ptz>>
PushHeld ==
    /\ push = "hold"
    /\ push' = "off"
    /\ UNCHANGED <<budget, token, session, moving, alarms, listener, motion, warm, battery, inbox, sent,
                   task, ptz>>

-----------------------------------------------------------------------------------
(* The battery poller. *)

\* A poll ends: a level, a refusal, or nothing that says anything about a battery.
BatteryTick(outcome) ==
    /\ Up /\ ~battery.latched /\ Spend("polls")
    /\ LET streak == IF outcome = "unsupported" THEN battery.streak + 1 ELSE 0
           ok == battery.ok \/ outcome = "ok"
       IN  battery' = [streak |-> streak, ok |-> ok,
                       latched |-> streak >= MaxUnsupported /\ ~ok,
                       answered |-> battery.answered \/ outcome = "ok"]
    /\ UNCHANGED <<token, session, moving, alarms, listener, motion, push, warm, inbox, sent,
                   task, ptz>>

-----------------------------------------------------------------------------------
(* Startup wake: a stream source, a picture, an audio packet or none, a snapshot; *)
(* cancellation and the time limits of every step end it early.                   *)

WarmStep(to, audio) ==
    /\ warm' = [pc |-> to, audio |-> audio]
    /\ UNCHANGED <<budget, token, session, moving, alarms, listener, motion, push, battery, inbox, sent,
                   task, ptz>>
WarmSource == warm.pc = "source" /\ Up /\ ~token /\ WarmStep("video", warm.audio)
WarmVideo == warm.pc = "video" /\ Up /\ ~token /\ WarmStep("audio", warm.audio)
\* Nothing heard, or cancelled: the camera counts as one without audio.
WarmAudio(heard) ==
    warm.pc = "audio" /\ WarmStep("snapshot", IF heard THEN "present" ELSE "absent")
WarmEnds == warm.pc \in {"source", "video", "snapshot"} /\ WarmStep("done", warm.audio)

-----------------------------------------------------------------------------------
(* Commands. *)

\* Any payload that is a command on its topic stands for the others.
SomePayload(topic) == CHOOSE p \in Unreserved : parse_control_message(topic, p)
\* A client publishes a command; the broker delivers it, as it does a reply.
ClientPublish(c, topic, payload) ==
    /\ c \notin sent /\ Spend("commands")
    /\ sent' = sent \cup {c}
    /\ inbox' = Append(inbox, [topic |-> topic, payload |-> payload])
    /\ UNCHANGED <<token, session, moving, alarms, listener, motion, push, warm, battery, task, ptz>>

\* A message becomes a command or nothing; a dispatcher is spawned for a command, and
\* takes a wake guard.
Free == {c \in Commands : task[c].pc = "-"}
Deliver ==
    /\ inbox # <<>>
    /\ LET m == Head(inbox)
       IN  IF parse_control_message(m.topic, m.payload)
           THEN \E c \in Free :
                   task' = [task EXCEPT ![c] = [pc |-> IF m.topic = "wakeup" THEN "await" ELSE "wake",
                                                topic |-> m.topic, ok |-> FALSE]]
           ELSE UNCHANGED task
    /\ inbox' = Tail(inbox)
    /\ UNCHANGED <<budget, token, session, moving, alarms, listener, motion, push, warm, battery, sent, ptz>>

Gone(c) == [task EXCEPT ![c] = [NoTask EXCEPT !.pc = "gone"]]

\* The driver is there, or arrives within 15 s; otherwise, or when cancelled, the
\* command is dropped without a reply.
DispatchRuns(c) ==
    /\ task[c].pc = "wake" /\ Up
    /\ task' = [task EXCEPT ![c].pc = "run"]
    /\ UNCHANGED <<budget, token, session, moving, alarms, listener, motion, push, warm, battery, inbox,
                   sent, ptz>>
DispatchDropped(c) ==
    /\ task[c].pc = "wake"
    /\ task' = Gone(c)
    /\ UNCHANGED <<budget, token, session, moving, alarms, listener, motion, push, warm, battery, inbox,
                   sent, ptz>>

\* The camera answers, refuses, or CMD_TIMEOUT passes.  A move it did not answer for
\* may have been made all the same.
DispatchEnds(c, ok) ==
    /\ task[c].pc = "run" /\ task[c].topic # "ptz" /\ (ok => Up)
    /\ task' = [task EXCEPT ![c].pc = "reply", ![c].ok = ok]
    /\ UNCHANGED <<budget, token, session, moving, alarms, listener, motion, push, warm, battery, inbox,
                   sent, ptz>>
PtzMoves(c, ok, taken) ==
    /\ task[c].pc = "run" /\ task[c].topic = "ptz"
    /\ (ok => taken) /\ (taken => Up)
    /\ ptz' = [last |-> "move", moves |-> ptz.moves \/ taken]
    /\ task' = [task EXCEPT ![c].pc = "turning", ![c].ok = ok]
    /\ UNCHANGED <<budget, token, session, moving, alarms, listener, motion, push, warm, battery, inbox, sent>>
\* Defect: a move that failed is not followed by a stop.
PtzStopsIfMoved(c, taken) ==
    /\ task[c].pc = "turning" /\ (taken => Up)
    /\ ptz' = IF task[c].ok
              THEN [last |-> "stop", moves |-> ptz.moves /\ ~taken] ELSE ptz
    /\ task' = [task EXCEPT ![c].pc = "reply"]
    /\ UNCHANGED <<budget, token, session, moving, alarms, listener, motion, push, warm, battery, inbox, sent>>
\* The turn's time is over (at once when the move failed): stop, whatever became of it.
PtzStops(c, taken) ==
    /\ task[c].pc = "turning" /\ (taken => Up)
    /\ ptz' = [last |-> "stop", moves |-> ptz.moves /\ ~taken]
    /\ task' = [task EXCEPT ![c].pc = "reply"]
    /\ UNCHANGED <<budget, token, session, moving, alarms, listener, motion, push, warm, battery, inbox, sent>>

\* The status the command publishes, if any, and the reply, on the command's topic, to
\* which the bridge is subscribed.
DispatchReplies(c) ==
    /\ task[c].pc = "reply"
    /\ task' = Gone(c)
    /\ inbox' = Append(inbox, [topic |-> task[c].topic,
                               payload |-> IF task[c].ok THEN "OK" ELSE "FAIL"])
    /\ UNCHANGED <<budget, token, session, moving, alarms, listener, motion, push, warm, battery, sent, ptz>>

\* control/wakeup: wait for the session, 120 s at most, then hold for the minutes asked.
WakeupConnected(c) ==
    /\ task[c].pc = "await" /\ Up /\ ~token
    /\ task' = [task EXCEPT ![c].pc = "minutes"]
    /\ UNCHANGED <<budget, token, session, moving, alarms, listener, motion, push, warm, battery, inbox,
                   sent, ptz>>
\* Defect: the wait for the session has no end.
WakeupWaitsOn(c) ==
    /\ task[c].pc = "minutes"
    /\ task' = Gone(c)
    /\ UNCHANGED <<budget, token, session, moving, alarms, listener, motion, push, warm, battery, inbox,
                   sent, ptz>>
WakeupEnds(c) ==
    /\ task[c].pc \in {"await", "minutes"}
    /\ task' = Gone(c)
    /\ UNCHANGED <<budget, token, session, moving, alarms, listener, motion, push, warm, battery, inbox,
                   sent, ptz>>

-----------------------------------------------------------------------------------
\* The steps that nothing can hold up for ever, and those that wait for the MQTT queue
\* to take what they publish; the end of a pushed motion gives up after a second.
ListenerTimed == ListenerRetries \/ ListenerTakes \/ ListenerReleases
ListenerStep ==
    \/ \E ok \in BOOLEAN : ListenerSubscribes(ok) \/ ListenerReported(ok)
    \/ ListenerTimed
PushStep == PushHeld \/ \E ok \in BOOLEAN : PushReports(ok)
PushTimed == PushHeld \/ (push = "off" /\ \E ok \in BOOLEAN : PushReports(ok))
WarmTask == WarmSource \/ WarmVideo \/ (\E h \in BOOLEAN : WarmAudio(h)) \/ WarmEnds
TaskTimed(c) ==
    \/ DispatchRuns(c) \/ DispatchDropped(c)
    \/ WakeupConnected(c) \/ WakeupEnds(c)
    \/ \E ok, taken \in BOOLEAN : DispatchEnds(c, ok) \/ PtzMoves(c, ok, taken) \/ PtzStops(c, taken)
TaskStep(c) == TaskTimed(c) \/ DispatchReplies(c)

ActivityNext ==
    \/ SessionStarts \/ SessionEnds \/ Cancel
    \/ \E w \in {"start", "stop", "nochange"} : Alarm(w)
    \/ ListenerStep \/ ListenerFails \/ PushArrives \/ PushStep \/ WarmTask \/ Deliver
    \/ \E o \in {"ok", "unsupported", "transient"} : BatteryTick(o)
    \/ \E c \in Commands : TaskStep(c)
    \/ \E c \in Commands, t \in TopicsUsed : ClientPublish(c, t, SomePayload(t))

\* Tasks run, and a wait of theirs has a time limit unless it is for the MQTT queue,
\* which is bounded and may stay full; nothing is assumed of that queue, of the
\* camera, of its sessions or of clients.
ActivityFairness ==
    /\ WF_activityVars(ListenerTimed) /\ WF_activityVars(PushTimed)
    /\ WF_activityVars(WarmTask) /\ WF_activityVars(Deliver)
    /\ \A c \in Commands : WF_activityVars(TaskTimed(c))

ActivitySpec == ActivityInit /\ [][ActivityNext]_activityVars /\ ActivityFairness

-----------------------------------------------------------------------------------
ActivityTypeOK ==
    /\ {session, moving, token} \subseteq BOOLEAN
    /\ listener \in [pc : {"off", "subscribe", "backoff", "select", "report"}, guard : BOOLEAN,
                     timer : BOOLEAN, report : {"-", "on", "off"}]
    /\ motion \in {"unknown", "on", "off"}
    /\ push \in {"idle", "on", "hold", "off"}
    /\ battery.streak \in Nat

\* mqtt_dispatch.rs 36-60 and 69, push_listener.rs 219, startup_wake.rs 77: whoever holds the
\* camera awake for a command, a push or the warm-up lets go of it in the end, whether or
\* not the camera ever connects or answers.  One wait is excepted, which has no time limit:
\* the answer to a command and the report of a pushed motion hold the camera for as long
\* as the MQTT queue does not take them (mqtt_dispatch.rs 315, push_listener.rs 221).
HoldsEnd ==
    /\ \A c \in Commands :
          task[c].pc # "-" ~> (task[c].pc = "gone" \/ [](task[c].pc = "reply"))
    /\ push # "idle" ~> (push = "idle" \/ [](push = "on"))
    /\ warm.pc = "done" \/ <>(warm.pc = "done")

\* control.rs 201, 262, 402: a dispatcher is spawned for what a client published only; the
\* bridge's own OK and FAIL, which come back to it on the same topics, start nothing.
RepliesStartNothing ==
    Cardinality({c \in Commands : task[c].pc # "-"}) <= Cardinality(sent)

\* mqtt_dispatch.rs 143-149: when no turn is under way, the last the camera was asked is to
\* stop, also after a move that was refused or not answered, and whatever two commands
\* did at once.
StopIsLast ==
    (\A c \in Commands : task[c].topic = "ptz" => task[c].pc \notin {"turning"}) => ptz.last = "stop"

\* What the tasks of a camera and the dispatcher keep: no reply is taken for a command,
\* and a move that was stopped stays stopped.
ActivitySafety == ActivityTypeOK /\ RepliesStartNothing /\ StopIsLast

\* motion.rs 53-65, camera_tasks.rs 92-110: a listener that holds the camera awake lets go of it
\* once the motion is over, while the events keep flowing.
\* It fails when an off and an on are merged: README, 3.
GuardFollowsMotion ==
    (listener.guard /\ ~moving) ~> (~listener.guard \/ moving)

\* camera_tasks.rs 205-216: a camera that has answered once is never taken for one without
\* a battery.
\* It fails: that the camera has answered is forgotten with the session it answered in.
BatteryNotSilenced == battery.latched => ~battery.answered
===================================================================================
