---------------------------- MODULE MqttProofs ------------------------------
(***************************************************************************)
(* Proofs about the bridge's MQTT side: MqttLoop, for any number of        *)
(* cameras, any queue size and any amount of work on a new connection or   *)
(* at shutdown, CameraActivity, for any commands, topics and steps of the  *)
(* outside, and RetainedState, for any features, switches and presets.     *)
(***************************************************************************)
EXTENDS MqttLoop, CameraActivity, RetainedState, FiniteSetTheorems, TLAPS

\* main goes past the orchestrator only when every camera task has ended, fires
\* mqtt_cancel after that, and nothing else stops the event loop.
ShutdownOrder ==
    /\ main # "orchestrator" => \A c \in Cameras : camera[c] = "done"
    /\ mqtt_cancel => main \in {"mqtt", "complete"}
    /\ loop = "exited" => mqtt_cancel

IndInv == TypeOK /\ ShutdownOrder /\ BackoffFreshWhenLinked

\* The initial state satisfies the invariant.
LEMMA InitInv == Init => IndInv
<1> SUFFICES ASSUME Init PROVE IndInv
    OBVIOUS
<1> USE DEF Init
<1>1. /\ broker \in BOOLEAN /\ link \in BOOLEAN
      /\ cancel \in BOOLEAN /\ mqtt_cancel \in BOOLEAN
    OBVIOUS
<1>2. /\ queue \in 0..QueueSize /\ todo \in 0..ConnackRequests
      /\ consecutive \in 0..MaxConsecutive /\ replies \in 0..MaxReplies
      /\ fanout \in 0..FanoutRequests
    BY MqttAssumption
<1>3. camera \in [Cameras -> {"run", "send", "last", "done"}]
    OBVIOUS
<1>4. TypeOK
    BY <1>1, <1>2, <1>3 DEF TypeOK
<1> QED
    BY <1>4 DEF IndInv, ShutdownOrder, BackoffFreshWhenLinked

\* Every step of the event loop keeps the invariant.
LEMMA LoopInv == ASSUME IndInv, LoopStep PROVE IndInv'
<1> USE MqttAssumption
    DEF IndInv, TypeOK, ShutdownOrder, BackoffFreshWhenLinked,
        linkVars, loopVars, taskVars, stopVars
<1>1. CASE PollConnAck
  <2>1. link' \in BOOLEAN
      BY <1>1, Zenon DEF PollConnAck
  <2> QED
      BY <1>1, <2>1 DEF PollConnAck
<1>2. CASE PollError
  <2>1. link' \in BOOLEAN
      BY <1>2, Zenon DEF PollError
  <2> QED
      BY <1>2, <2>1 DEF PollError
<1>3. CASE PollOutgoing
    BY <1>3 DEF PollOutgoing
<1>4. CASE PollPublish
    BY <1>4 DEF PollPublish
<1>5. CASE ConnackRequest
    BY <1>5 DEF ConnackRequest, Enqueue
<1>6. CASE ConnackDone \/ BackoffOver
    BY <1>6 DEF ConnackDone, BackoffOver
<1>7. CASE LoopCancelled
    BY <1>7 DEF LoopCancelled
<1> QED
    BY <1>1, <1>2, <1>3, <1>4, <1>5, <1>6, <1>7 DEF LoopStep

\* Every step of a publishing task, or of the broker, keeps the invariant.
LEMMA TaskInv ==
    ASSUME IndInv, Replied \/ BrokerChanges \/ \E c \in Cameras : CameraStep(c)
    PROVE  IndInv'
<1> USE MqttAssumption
    DEF IndInv, TypeOK, ShutdownOrder, BackoffFreshWhenLinked,
        linkVars, loopVars, taskVars, stopVars
<1>1. CASE Replied
    BY <1>1 DEF Replied, Enqueue
<1>2. CASE BrokerChanges
  <2>1. broker' \in BOOLEAN
      BY <1>2, Zenon DEF BrokerChanges
  <2> QED
      BY <1>2, <2>1 DEF BrokerChanges
<1>3. ASSUME NEW c \in Cameras, CameraStep(c) PROVE IndInv'
  <2>1. CASE Report(c) \/ CameraFailed(c)
      BY <2>1 DEF Report, CameraFailed
  <2>2. CASE Reported(c)
      BY <2>2 DEF Reported, Enqueue
  <2>3. CASE \E connected \in BOOLEAN : CameraCancelled(c, connected)
      BY <2>3 DEF CameraCancelled
  <2> QED
      BY <1>3, <2>1, <2>2, <2>3 DEF CameraStep
<1> QED
    BY <1>1, <1>2, <1>3

\* Every step of the shutdown sequence keeps the invariant.
LEMMA StopInv == ASSUME IndInv, CtrlC \/ CtlStep \/ MainStep PROVE IndInv'
<1> USE MqttAssumption
    DEF IndInv, TypeOK, ShutdownOrder, BackoffFreshWhenLinked,
        linkVars, loopVars, taskVars, stopVars
<1>1. CASE CtrlC \/ FanoutOver
    BY <1>1 DEF CtrlC, FanoutOver
<1>2. CASE FanoutRequest
    BY <1>2 DEF FanoutRequest, Enqueue
<1>3. CASE FlushOver
  <2>1. cancel' \in BOOLEAN
      BY <1>3, Zenon DEF FlushOver
  <2> QED
      BY <1>3, <2>1 DEF FlushOver
<1>4. CASE CamerasJoined
  <2>1. cancel' \in BOOLEAN
      BY <1>4, Zenon DEF CamerasJoined
  <2> QED
      BY <1>4, <2>1 DEF CamerasJoined
<1>5. CASE ServicesJoined
  <2>1. mqtt_cancel' \in BOOLEAN
      BY <1>5, Zenon DEF ServicesJoined
  <2> QED
      BY <1>5, <2>1 DEF ServicesJoined
<1>6. CASE LoopJoined
    BY <1>6 DEF LoopJoined
<1> QED
    BY <1>1, <1>2, <1>3, <1>4, <1>5, <1>6 DEF CtlStep, MainStep

\* The invariant is inductive.
LEMMA NextInv == IndInv /\ [Next]_vars => IndInv'
<1> SUFFICES ASSUME IndInv, [Next]_vars PROVE IndInv'
    OBVIOUS
<1>1. CASE UNCHANGED vars
    BY <1>1 DEF vars, IndInv, TypeOK, ShutdownOrder, BackoffFreshWhenLinked
<1>2. CASE Next
    BY <1>2, LoopInv, TaskInv, StopInv DEF Next
<1> QED
    BY <1>1, <1>2

\* The inductive invariant holds in every reachable state.
THEOREM IndInvHolds == SafetySpec => []IndInv
BY InitInv, NextInv, PTL DEF SafetySpec

\* The queue never holds more than it can, the backoff counter saturates, and
\* the rest of the state is well formed.
THEOREM TypeCorrect == SafetySpec => []TypeOK
<1>1. IndInv => TypeOK
    BY DEF IndInv
<1> QED
    BY <1>1, IndInvHolds, PTL

\* However many cameras there are, the event loop stops after the last of them.
THEOREM MqttStopsLast == SafetySpec => []LoopOutlivesCameras
<1>1. IndInv => LoopOutlivesCameras
    BY DEF IndInv, ShutdownOrder, LoopOutlivesCameras
<1> QED
    BY <1>1, IndInvHolds, PTL

\* A connected event loop has a fresh backoff.
THEOREM BackoffFresh == SafetySpec => []BackoffFreshWhenLinked
<1>1. IndInv => BackoffFreshWhenLinked
    BY DEF IndInv
<1> QED
    BY <1>1, IndInvHolds, PTL

\* What the run checks of the event loop and of the end of main, for any cameras, queue
\* size and request counts.
THEOREM SafetyHolds == SafetySpec => []LoopSafety
<1>1. TypeOK /\ LoopOutlivesCameras /\ BackoffFreshWhenLinked => LoopSafety
    BY DEF LoopSafety
<1> QED
    BY <1>1, TypeCorrect, MqttStopsLast, BackoffFresh, PTL

-----------------------------------------------------------------------------
(***************************************************************************)
(* The commands those messages carry, and the tasks around a camera's      *)
(* session.                                                                *)
(***************************************************************************)
sideVars == <<session, moving, token, alarms, listener, motion, push, battery>>

\* A listener about to report has something to report.
Reporting == listener.pc = "report" => listener.report \in {"on", "off"}

\* The tasks around the session.
SideInv ==
    /\ ActivityTypeOK /\ Reporting
    /\ alarms \in Seq({"start", "stop", "nochange"})
    /\ battery \in [streak : Nat, ok : BOOLEAN, latched : BOOLEAN, answered : BOOLEAN]

CommandTopics == TopicsUsed \cup {"-"}
Steps == {"-", "await", "wake", "run", "turning", "reply", "minutes", "gone"}
Message == [topic : CommandTopics, payload : Payloads \cup
                                        {SomePayload(t) : t \in TopicsUsed}]

\* The dispatchers: only a pan or tilt command turns the camera, and it was told to stop
\* last unless one of them is at it.
TurnInv ==
    /\ task \in [Commands -> [pc : Steps, topic : CommandTopics, ok : BOOLEAN]]
    /\ ptz \in [last : {"stop", "move"}, moves : BOOLEAN]
    /\ \A c \in Commands : task[c].pc = "turning" => task[c].topic = "ptz"
    /\ (\A c \in Commands : task[c].pc # "turning") => ptz.last = "stop"

IsCommand(m) == parse_control_message(m.topic, m.payload)
Pending(q) == {i \in 1..Len(q) : IsCommand(q[i])}
Begun == {c \in Commands : task[c].pc # "-"}

\* The commands begun and those still in the inbox are no more than were published: what
\* comes back to the bridge as a reply adds nothing to either.
CountInv ==
    /\ inbox \in Seq(Message)
    /\ IsFiniteSet(sent) /\ IsFiniteSet(Begun)
    /\ Cardinality(Begun) + Cardinality(Pending(inbox)) <= Cardinality(sent)

ActivityInv == SideInv /\ TurnInv /\ CountInv

\* A reply is no command on any topic.
LEMMA RepliesAreNoCommands ==
    ASSUME NEW t
    PROVE  /\ ~parse_control_message(t, "OK")
           /\ ~parse_control_message(t, "FAIL")
<1> DEFINE Accepts == Payloads \ {"OK", "FAIL"}
<1>1. Unreserved \subseteq Accepts
    BY DEF Unreserved, is_reserved_reply_token, Replies
<1>2. \A x \in DOMAIN parse_control_action :
         /\ "OK" \notin parse_control_action[x]
         /\ "FAIL" \notin parse_control_action[x]
    BY <1>1 DEF parse_control_action
<1>3. \A x \in DOMAIN parse_control_ptz_sub :
         /\ "OK" \notin parse_control_ptz_sub[x]
         /\ "FAIL" \notin parse_control_ptz_sub[x]
    BY <1>1 DEF parse_control_ptz_sub
<1>4. \A x \in query_topics :
         /\ "OK" \notin parse_query_action[x]
         /\ "FAIL" \notin parse_query_action[x]
    BY <1>1 DEF parse_query_action
<1> QED
    BY <1>2, <1>3, <1>4 DEF parse_control_message

\* The pending commands of an inbox are finitely many.
LEMMA PendingFinite ==
    ASSUME NEW q \in Seq(Message)
    PROVE  IsFiniteSet(Pending(q)) /\ Cardinality(Pending(q)) \in Nat
<1>1. IsFiniteSet(1..Len(q))
    BY FS_Interval
<1>2. Pending(q) \in SUBSET (1..Len(q))
    BY DEF Pending
<1> QED
    BY <1>1, <1>2, FS_Subset, FS_CardinalityType

\* A message put at the end of the inbox adds a pending command if it is one.
LEMMA PendingAppend ==
    ASSUME NEW q \in Seq(Message), NEW m \in Message
    PROVE  Cardinality(Pending(Append(q, m)))
             <= Cardinality(Pending(q)) + (IF IsCommand(m) THEN 1 ELSE 0)
<1>1. Pending(Append(q, m)) = IF IsCommand(m) THEN Pending(q) \cup {Len(q) + 1} ELSE Pending(q)
    BY DEF Pending
<1>2. IsFiniteSet(Pending(q)) /\ Cardinality(Pending(q)) \in Nat
    BY PendingFinite
<1>3. Cardinality(Pending(q) \cup {Len(q) + 1})
        = IF Len(q) + 1 \in Pending(q) THEN Cardinality(Pending(q)) ELSE Cardinality(Pending(q)) + 1
    BY <1>2, FS_AddElement, Zenon
<1> QED
    BY <1>1, <1>2, <1>3

\* Taking the first message takes one away if it was one.
LEMMA PendingTail ==
    ASSUME NEW q \in Seq(Message), q # <<>>
    PROVE  Cardinality(Pending(Tail(q))) + (IF IsCommand(Head(q)) THEN 1 ELSE 0)
             <= Cardinality(Pending(q))
<1> DEFINE Rest == Pending(q) \ {1}
           up == [i \in Pending(Tail(q)) |-> i + 1]
<1>1. IsFiniteSet(Pending(q)) /\ Cardinality(Pending(q)) \in Nat
    BY PendingFinite
<1>2. /\ IsFiniteSet(Rest)
      /\ Cardinality(Rest) = IF 1 \in Pending(q) THEN Cardinality(Pending(q)) - 1
                             ELSE Cardinality(Pending(q))
    BY <1>1, FS_RemoveElement
<1>3. 1 \in Pending(q) <=> IsCommand(Head(q))
    BY DEF Pending
<1>4. \A i \in Pending(Tail(q)) : i \in Nat /\ i + 1 \in Rest
    BY DEF Pending
<1>5. up \in Injection(Pending(Tail(q)), Rest)
    BY <1>4 DEF Injection, IsInjective
<1>6. Cardinality(Pending(Tail(q))) <= Cardinality(Rest)
    BY <1>2, <1>5, FS_Injection
<1>7. Cardinality(Pending(Tail(q))) \in Nat
  <2>1. Tail(q) \in Seq(Message)
      OBVIOUS
  <2> QED
      BY <2>1, PendingFinite
<1> HIDE DEF Rest, up
<1> QED
    BY <1>1, <1>2, <1>3, <1>6, <1>7

ListenerType == [pc : {"off", "subscribe", "backoff", "select", "report"}, guard : BOOLEAN,
                 timer : BOOLEAN, report : {"-", "on", "off"}]
BatteryType == [streak : Nat, ok : BOOLEAN, latched : BOOLEAN, answered : BOOLEAN]

\* The parts of SideInv by themselves.
LEMMA SideParts ==
    SideInv <=> /\ Reporting
                /\ session \in BOOLEAN /\ moving \in BOOLEAN /\ token \in BOOLEAN
                /\ listener \in ListenerType /\ motion \in {"unknown", "on", "off"}
                /\ push \in {"idle", "on", "hold", "off"} /\ battery \in BatteryType
                /\ alarms \in Seq({"start", "stop", "nochange"})
BY DEF SideInv, ActivityTypeOK, ListenerType, BatteryType

\* The same of the next state.
LEMMA SidePartsNext ==
    SideInv' <=> /\ Reporting'
                 /\ session' \in BOOLEAN /\ moving' \in BOOLEAN /\ token' \in BOOLEAN
                 /\ listener' \in ListenerType /\ motion' \in {"unknown", "on", "off"}
                 /\ push' \in {"idle", "on", "hold", "off"} /\ battery' \in BatteryType
                 /\ alarms' \in Seq({"start", "stop", "nochange"})
BY DEF SideInv, ActivityTypeOK, ListenerType, BatteryType

\* The initial state of the tasks satisfies the invariant.
LEMMA ActivityStarts == ActivityInit => ActivityInv
<1> SUFFICES ASSUME ActivityInit PROVE ActivityInv
    OBVIOUS
<1> USE DEF ActivityInit, NoTask, NoListener
<1>1. SideInv
  <2>1. session \in BOOLEAN /\ moving \in BOOLEAN /\ token \in BOOLEAN
      BY Zenon
  <2>2. /\ Reporting /\ listener \in ListenerType /\ battery \in BatteryType
        /\ alarms \in Seq({"start", "stop", "nochange"})
      BY DEF Reporting, ListenerType, BatteryType
  <2> QED
      BY <2>1, <2>2, SideParts
<1>2. TurnInv
    BY DEF TurnInv, Steps, CommandTopics
<1>3. Begun = {} /\ Pending(inbox) = {} /\ inbox \in Seq(Message) /\ sent = {}
    BY DEF Begun, Pending
<1>4. IsFiniteSet({}) /\ Cardinality({}) = 0
    BY FS_EmptySet
<1>5. Cardinality(Begun) + Cardinality(Pending(inbox)) <= Cardinality(sent)
  <2>1. Cardinality(Begun) = 0 /\ Cardinality(Pending(inbox)) = 0 /\ Cardinality(sent) = 0
      BY <1>3, <1>4, Zenon
  <2> QED
      BY <2>1
<1>6. CountInv
    BY <1>3, <1>4, <1>5, Zenon DEF CountInv
<1> QED
    BY <1>1, <1>2, <1>6 DEF ActivityInv

\* A step of the session, of its listener or poller, of the push or of the warm-up, or
\* an event in front of the camera.
SideStep ==
    \/ SessionStarts \/ SessionEnds \/ Cancel
    \/ \E w \in {"start", "stop", "nochange"} : Alarm(w)
    \/ ListenerStep \/ ListenerFails \/ PushArrives
    \/ PushStep \/ WarmTask
    \/ \E o \in {"ok", "unsupported", "transient"} : BatteryTick(o)

\* Every one of those steps keeps what is said of the tasks around the session.
LEMMA SideKept == ASSUME SideInv, SideStep PROVE SideInv'
<1> USE SideParts, SidePartsNext DEF Reporting
<1>1. CASE SessionStarts
  <2>1. Reporting' /\ listener' \in ListenerType
      BY <1>1 DEF SessionStarts, NoListener, ListenerType
  <2>2. battery' \in BatteryType
      BY <1>1 DEF SessionStarts, BatteryType
  <2> QED
      BY <1>1, <2>1, <2>2 DEF SessionStarts
<1>2. CASE SessionEnds
  <2>1. Reporting' /\ listener' \in ListenerType
      BY <1>2 DEF SessionEnds, NoListener, ListenerType
  <2>2. session' \in BOOLEAN
      BY <1>2, Zenon DEF SessionEnds
  <2> QED
      BY <1>2, <2>1, <2>2 DEF SessionEnds
<1>3. CASE Cancel
  <2>1. token' \in BOOLEAN
      BY <1>3, Zenon DEF Cancel
  <2> QED
      BY <1>3, <2>1 DEF Cancel
<1>4. ASSUME NEW w \in {"start", "stop", "nochange"}, Alarm(w) PROVE SideInv'
  <2>1. moving' \in BOOLEAN
      BY <1>4, Zenon DEF Alarm
  <2>2. alarms' \in Seq({"start", "stop", "nochange"})
      BY <1>4 DEF Alarm
  <2> QED
      BY <1>4, <2>1, <2>2 DEF Alarm
<1>5. CASE ListenerStep \/ ListenerFails
  <2> USE DEF ListenerType
  <2>1. ASSUME NEW ok \in BOOLEAN, ListenerSubscribes(ok) PROVE SideInv'
      BY <2>1 DEF ListenerSubscribes
  <2>2. ASSUME NEW ok \in BOOLEAN, ListenerReported(ok) PROVE SideInv'
    <3>1. listener' \in ListenerType
      <4> DEFINE timer == IF listener.report = "off" THEN listener.guard ELSE FALSE
      <4>1. listener.guard \in BOOLEAN
          OBVIOUS
      <4>2. timer \in BOOLEAN
          BY <4>1, Zenon
      <4>3. listener' = [listener EXCEPT !.pc = "select", !.report = "-", !.timer = timer]
          BY <2>2 DEF ListenerReported
      <4> HIDE DEF timer
      <4> QED
          BY <4>2, <4>3
    <3>2. motion' \in {"unknown", "on", "off"}
        BY <2>2 DEF ListenerReported
    <3> QED
        BY <2>2, <3>1, <3>2 DEF ListenerReported
  <2>3. CASE ListenerRetries
      BY <2>3 DEF ListenerRetries
  <2>4. CASE ListenerTakes
    <3>1. alarms[Len(alarms)] \in {"start", "stop", "nochange"}
        BY <2>4 DEF ListenerTakes
    <3>2. listener' \in ListenerType
        BY <2>4, <3>1 DEF ListenerTakes
    <3>3. alarms' \in Seq({"start", "stop", "nochange"})
        BY <2>4 DEF ListenerTakes
    <3> QED
        BY <2>4, <3>2, <3>3 DEF ListenerTakes
  <2>5. CASE ListenerReleases
      BY <2>5 DEF ListenerReleases
  <2>6. CASE ListenerFails
    <3>1. listener' \in ListenerType
        BY <2>6 DEF ListenerFails, NoListener
    <3> QED
        BY <2>6, <3>1 DEF ListenerFails
  <2> QED
      BY <1>5, <2>1, <2>2, <2>3, <2>4, <2>5, <2>6 DEF ListenerStep, ListenerTimed
<1>6. CASE PushArrives \/ PushStep
    BY <1>6 DEF PushArrives, PushStep, PushHeld, PushReports
<1>7. CASE WarmTask
    BY <1>7 DEF WarmTask, WarmSource, WarmVideo, WarmAudio,
                WarmEnds, WarmStep
<1>8. ASSUME NEW o \in {"ok", "unsupported", "transient"}, BatteryTick(o) PROVE SideInv'
  <2>1. battery' \in BatteryType
    <3> DEFINE streak == IF o = "unsupported" THEN battery.streak + 1 ELSE 0
               ok == battery.ok \/ o = "ok"
    <3>1. streak \in Nat
        BY DEF BatteryType
    <3>2. ok \in BOOLEAN /\ (streak >= MaxUnsupported /\ ~ok) \in BOOLEAN
          /\ (battery.answered \/ o = "ok") \in BOOLEAN
        BY Zenon
    <3>3. battery' = [streak |-> streak, ok |-> ok,
                      latched |-> streak >= MaxUnsupported /\ ~ok,
                      answered |-> battery.answered \/ o = "ok"]
        BY <1>8, Zenon DEF BatteryTick
    <3> HIDE DEF streak, ok
    <3> QED
        BY <3>1, <3>2, <3>3 DEF BatteryType
  <2> QED
      BY <1>8, <2>1 DEF BatteryTick
<1> QED
    BY <1>1, <1>2, <1>3, <1>4, <1>5, <1>6, <1>7, <1>8 DEF SideStep

\* None of them touches a command or what the camera was asked last.
LEMMA SideLeavesCommands ==
    ASSUME SideStep
    PROVE  /\ UNCHANGED <<task, inbox, sent>>
           /\ ptz' = ptz \/ ptz' = [ptz EXCEPT !.moves = FALSE]
BY Zenon DEF SideStep, SessionStarts, SessionEnds, Cancel, Alarm,
   ListenerStep, ListenerTimed, ListenerSubscribes, ListenerReported,
   ListenerRetries, ListenerTakes, ListenerReleases,
   ListenerFails, PushArrives, PushStep, PushHeld,
   PushReports, WarmTask, WarmSource, WarmVideo,
   WarmAudio, WarmEnds, WarmStep, BatteryTick

\* The variables of the tasks around the session.
LEMMA CommandsLeaveSide ==
    ASSUME SideInv, UNCHANGED sideVars
    PROVE  SideInv'
BY SideParts, SidePartsNext DEF sideVars, Reporting

\* The dispatchers' own steps leave the tasks around the session alone.
LEMMA DispatchLeavesSide ==
    ASSUME Deliver \/ (\E c \in Commands : TaskStep(c))
             \/ (\E c \in Commands, t \in TopicsUsed : ClientPublish(c, t, SomePayload(t)))
    PROVE  UNCHANGED sideVars
BY Zenon DEF sideVars, Deliver, TaskStep, TaskTimed, ClientPublish, DispatchRuns,
   DispatchDropped, DispatchReplies, WakeupConnected,
   WakeupEnds, DispatchEnds, PtzMoves, PtzStops

\* A dispatcher's step keeps what is said of turns.
LEMMA TaskTurn ==
    ASSUME TurnInv, NEW c \in Commands, TaskStep(c)
    PROVE  /\ TurnInv'
           /\ task[c].pc # "-" /\ task' = [task EXCEPT ![c] = task'[c]] /\ task'[c].pc # "-"
           /\ sent' = sent
           /\ inbox' = inbox \/ \E m \in Message : ~IsCommand(m) /\ inbox' = Append(inbox, m)
<1> USE DEF TurnInv, Steps
<1> DEFINE Rec == [pc : Steps, topic : CommandTopics, ok : BOOLEAN]
<1>1. task[c] \in Rec
    OBVIOUS
<1>2. CASE DispatchRuns(c)
    BY <1>2 DEF DispatchRuns
<1>3. CASE DispatchDropped(c)
    BY <1>3 DEF DispatchDropped, Gone, NoTask, CommandTopics
<1>4. CASE DispatchReplies(c)
  <2> DEFINE m == [topic |-> task[c].topic, payload |-> IF task[c].ok THEN "OK" ELSE "FAIL"]
  <2>1. m \in Message /\ ~IsCommand(m)
      BY <1>1, RepliesAreNoCommands DEF Message, IsCommand, Payloads, Replies
  <2>2. inbox' = Append(inbox, m)
      BY <1>4 DEF DispatchReplies
  <2> HIDE DEF m
  <2> QED
      BY <1>4, <2>1, <2>2 DEF DispatchReplies, Gone, NoTask, CommandTopics
<1>5. CASE WakeupConnected(c)
    BY <1>5 DEF WakeupConnected
<1>6. CASE WakeupEnds(c)
    BY <1>6 DEF WakeupEnds, Gone, NoTask, CommandTopics
<1>7. ASSUME NEW ok \in BOOLEAN, DispatchEnds(c, ok)
      PROVE  /\ TurnInv' /\ sent' = sent /\ inbox' = inbox
             /\ task[c].pc # "-" /\ task' = [task EXCEPT ![c] = task'[c]] /\ task'[c].pc # "-"
    BY <1>7 DEF DispatchEnds
<1>8. ASSUME NEW ok \in BOOLEAN, NEW taken \in BOOLEAN, PtzMoves(c, ok, taken)
      PROVE  /\ TurnInv' /\ sent' = sent /\ inbox' = inbox
             /\ task[c].pc # "-" /\ task' = [task EXCEPT ![c] = task'[c]] /\ task'[c].pc # "-"
  <2>1. (ptz.moves \/ taken) \in BOOLEAN
      BY Zenon
  <2> QED
      BY <1>8, <2>1 DEF PtzMoves
<1>9. ASSUME NEW taken \in BOOLEAN, PtzStops(c, taken)
      PROVE  /\ TurnInv' /\ sent' = sent /\ inbox' = inbox
             /\ task[c].pc # "-" /\ task' = [task EXCEPT ![c] = task'[c]] /\ task'[c].pc # "-"
  <2>1. (ptz.moves /\ ~taken) \in BOOLEAN
      BY Zenon
  <2> QED
      BY <1>9, <2>1 DEF PtzStops
<1> HIDE DEF TurnInv
<1> QED
    BY <1>2, <1>3, <1>4, <1>5, <1>6, <1>7, <1>8, <1>9 DEF TaskStep, TaskTimed

\* So it keeps the count of commands.
LEMMA TaskCount ==
    ASSUME TurnInv, CountInv, NEW c \in Commands, TaskStep(c)
    PROVE  CountInv'
<1>1. Begun' = Begun
    BY TaskTurn DEF Begun, TurnInv
<1>2. inbox' \in Seq(Message)
    BY TaskTurn DEF CountInv
<1>3. Cardinality(Pending(inbox)') <= Cardinality(Pending(inbox))
  <2>1. CASE inbox' = inbox
    <3>1. Pending(inbox)' = Pending(inbox)
        BY <2>1 DEF Pending, IsCommand
    <3> QED
        BY <3>1, PendingFinite DEF CountInv
  <2>2. ASSUME NEW m \in Message, ~IsCommand(m), inbox' = Append(inbox, m)
        PROVE  Cardinality(Pending(inbox)') <= Cardinality(Pending(inbox))
    <3>1. Pending(inbox)' = Pending(Append(inbox, m))
        BY <2>2 DEF Pending, IsCommand
    <3> QED
        BY <2>2, <3>1, PendingAppend, PendingFinite DEF CountInv
  <2> QED
      BY <2>1, <2>2, TaskTurn
<1>4. /\ Cardinality(Pending(inbox)) \in Nat /\ Cardinality(Pending(inbox)') \in Nat
    BY <1>2, PendingFinite DEF CountInv
<1>5. Cardinality(Begun) \in Nat /\ Cardinality(sent) \in Nat
    BY FS_CardinalityType DEF CountInv
<1>6. sent' = sent
    BY TaskTurn
<1> QED
    BY <1>1, <1>2, <1>3, <1>4, <1>5, <1>6 DEF CountInv

\* A published command is one more sent, and at most one more to deliver.
LEMMA PublishKept ==
    ASSUME TurnInv, CountInv, NEW c \in Commands, NEW t \in TopicsUsed,
           ClientPublish(c, t, SomePayload(t))
    PROVE  TurnInv' /\ CountInv'
<1> DEFINE m == [topic |-> t, payload |-> SomePayload(t)]
<1>1. /\ m \in Message
      /\ inbox' = Append(inbox, m) /\ sent' = sent \cup {c} /\ c \notin sent
      /\ task' = task /\ ptz' = ptz
    BY DEF ClientPublish, Message, CommandTopics
<1> HIDE DEF m
<1>2. TurnInv'
    BY <1>1 DEF TurnInv
<1>3. IsFiniteSet(sent') /\ Cardinality(sent') = Cardinality(sent) + 1 /\ Cardinality(sent) \in Nat
    BY <1>1, FS_AddElement, FS_CardinalityType, Zenon DEF CountInv
<1>4. Begun' = Begun /\ Cardinality(Begun) \in Nat
    BY <1>1, FS_CardinalityType DEF Begun, CountInv
<1>5. inbox' \in Seq(Message)
    BY <1>1 DEF CountInv
<1>6. Pending(inbox)' = Pending(Append(inbox, m))
    BY <1>1 DEF Pending, IsCommand
<1>7. Cardinality(Pending(inbox)) \in Nat /\ Cardinality(Pending(inbox)') \in Nat
    BY <1>5, PendingFinite DEF CountInv
<1>8. Cardinality(Pending(inbox)') <= Cardinality(Pending(inbox)) + 1
    BY <1>1, <1>6, <1>7, PendingAppend DEF CountInv
<1>9. CountInv'
    BY <1>3, <1>4, <1>5, <1>7, <1>8 DEF CountInv
<1> QED
    BY <1>2, <1>9

\* A delivered command starts one dispatcher, which was none before; anything else that
\* is delivered starts none.
LEMMA DeliverKept ==
    ASSUME TurnInv, CountInv, Deliver
    PROVE  TurnInv' /\ CountInv'
<1>1. /\ inbox \in Seq(Message) /\ inbox # <<>> /\ inbox' = Tail(inbox)
      /\ sent' = sent /\ ptz' = ptz
    BY DEF Deliver, CountInv
<1>2. Head(inbox) \in Message /\ inbox' \in Seq(Message)
    BY <1>1
<1>3. Pending(inbox)' = Pending(Tail(inbox))
    BY <1>1 DEF Pending, IsCommand
<1>4. Cardinality(Pending(inbox)) \in Nat /\ Cardinality(Pending(inbox)') \in Nat
    BY <1>1, <1>2, PendingFinite
<1>5. Cardinality(Pending(inbox)') + (IF IsCommand(Head(inbox)) THEN 1 ELSE 0)
        <= Cardinality(Pending(inbox))
    BY <1>1, <1>3, PendingTail
<1>6. Cardinality(Begun) \in Nat /\ Cardinality(sent) \in Nat
    BY FS_CardinalityType DEF CountInv
<1>7. CASE ~IsCommand(Head(inbox))
  <2>1. task' = task
      BY <1>7 DEF Deliver, IsCommand
  <2>2. Begun' = Begun
      BY <2>1 DEF Begun
  <2>3. TurnInv'
      BY <1>1, <2>1 DEF TurnInv
  <2> QED
      BY <1>1, <1>2, <1>4, <1>5, <1>6, <1>7, <2>2, <2>3 DEF CountInv
<1>8. CASE IsCommand(Head(inbox))
  <2>1. PICK c \in Free :
           task' = [task EXCEPT ![c] =
                       [pc |-> IF Head(inbox).topic = "wakeup" THEN "await" ELSE "wake",
                        topic |-> Head(inbox).topic, ok |-> FALSE]]
      BY <1>8 DEF Deliver, IsCommand
  <2>2. c \in Commands /\ task[c].pc = "-"
      BY DEF Free
  <2>3. Begun' = Begun \cup {c} /\ c \notin Begun
      BY <2>1, <2>2 DEF Begun, TurnInv
  <2>4. IsFiniteSet(Begun') /\ Cardinality(Begun') = Cardinality(Begun) + 1
      BY <2>3, FS_AddElement, Zenon DEF CountInv
  <2>5. TurnInv'
      BY <1>1, <1>2, <2>1, <2>2 DEF TurnInv, Steps, Message
  <2>6. Cardinality(Begun') + Cardinality(Pending(inbox)') <= Cardinality(sent')
      BY <1>1, <1>4, <1>5, <1>6, <1>8, <2>4 DEF CountInv
  <2> QED
      BY <1>1, <1>2, <2>4, <2>5, <2>6 DEF CountInv
<1> QED
    BY <1>7, <1>8

\* Every step keeps the invariant.
LEMMA ActivityStep == ActivityInv /\ [ActivityNext]_activityVars => ActivityInv'
<1> SUFFICES ASSUME ActivityInv, [ActivityNext]_activityVars PROVE ActivityInv'
    OBVIOUS
<1> USE DEF ActivityInv
<1>1. CASE SideStep
  <2>1. /\ UNCHANGED <<task, inbox, sent>>
        /\ ptz' = ptz \/ ptz' = [ptz EXCEPT !.moves = FALSE]
      BY <1>1, SideLeavesCommands
  <2>2. TurnInv'
      BY <2>1 DEF TurnInv
  <2>3. CountInv'
      BY <2>1 DEF CountInv, Begun, Pending, IsCommand
  <2> QED
      BY <1>1, <2>2, <2>3, SideKept
<1>2. CASE Deliver
    BY <1>2, DeliverKept, DispatchLeavesSide, CommandsLeaveSide
<1>3. ASSUME NEW c \in Commands, TaskStep(c) PROVE ActivityInv'
    BY <1>3, TaskTurn, TaskCount, DispatchLeavesSide, CommandsLeaveSide
<1>4. ASSUME NEW c \in Commands, NEW t \in TopicsUsed,
             ClientPublish(c, t, SomePayload(t))
      PROVE  ActivityInv'
    BY <1>4, PublishKept, DispatchLeavesSide, CommandsLeaveSide
<1>5. CASE UNCHANGED activityVars
  <2>1. UNCHANGED sideVars /\ UNCHANGED <<task, inbox, sent, ptz>>
      BY <1>5 DEF activityVars, sideVars
  <2>2. TurnInv' /\ CountInv'
      BY <2>1 DEF TurnInv, CountInv, Begun, Pending, IsCommand
  <2> QED
      BY <2>1, <2>2, CommandsLeaveSide
<1> QED
    BY <1>1, <1>2, <1>3, <1>4, <1>5 DEF ActivityNext, SideStep

\* No more dispatchers than published commands ever run.
LEMMA CountSays == ActivityInv => RepliesStartNothing
<1> SUFFICES ASSUME ActivityInv PROVE RepliesStartNothing
    OBVIOUS
<1>1. /\ Cardinality(Begun) + Cardinality(Pending(inbox)) <= Cardinality(sent)
      /\ Cardinality(Pending(inbox)) \in Nat
    BY PendingFinite DEF ActivityInv, CountInv
<1>2. Cardinality(Begun) \in Nat /\ Cardinality(sent) \in Nat
    BY FS_CardinalityType DEF ActivityInv, CountInv
<1>3. Cardinality(Begun) <= Cardinality(sent)
    BY <1>1, <1>2
<1> QED
    BY <1>3 DEF Begun, RepliesStartNothing, Cardinality, Cardinality

\* However many commands clients publish, on whichever topics, and however sessions come
\* and go around them: a dispatcher is spawned for a published command only, never for
\* one of the bridge's own replies that come back on the same topics; the camera was told
\* to stop last whenever no turn is under way; and the tasks around the session keep
\* their state well formed.
THEOREM CommandsStaySound == ActivitySpec => []ActivitySafety
<1>1. ActivityInv => ActivitySafety
  <2> SUFFICES ASSUME ActivityInv PROVE ActivitySafety
      OBVIOUS
  <2>1. ActivityTypeOK
      BY DEF ActivityInv, SideInv
  <2>2. StopIsLast
      BY DEF ActivityInv, TurnInv, StopIsLast
  <2>3. RepliesStartNothing
      BY CountSays
  <2> QED
      BY <2>1, <2>2, <2>3 DEF ActivitySafety
<1>2. ActivityInit /\ [][ActivityNext]_activityVars => []ActivityInv
    BY ActivityStarts, ActivityStep, PTL
<1> QED
    BY <1>1, <1>2, PTL DEF ActivitySpec

-----------------------------------------------------------------------------
(* RetainedState.  Every publish leaves a sequence of writes, a put for    *)
(* each topic and a clear for each that is gone; what the broker holds     *)
(* once they are made is what was published last.                          *)

Items(w) == {w[i] : i \in 1..Len(w)}

\* A finite set written out as a sequence holds its elements and nothing else.
LEMMA SetToSeqItems ==
    ASSUME NEW S, IsFiniteSet(S)
    PROVE  SetToSeq(S) \in Seq(S) /\ Items(SetToSeq(S)) = S
<1> DEFINE n == Cardinality(S)
           f == SetToSeq(S)
<1>1. n \in Nat /\ \E g \in [1..n -> S] : IsInjective(g)
    BY FS_CardinalityType DEF ExistsBijection, Bijection, Injection
<1>2. n = Cardinality(S)
    BY DEF Cardinality, Cardinality
<1>3. f = CHOOSE g \in [1..n -> S] : IsInjective(g)
    BY <1>2 DEF SetToSeq, IsInjective, IsInjective
<1>4. f \in [1..n -> S] /\ IsInjective(f)
    BY <1>1, <1>3
<1> HIDE DEF f
<1>5. f \in Injection(1..n, S)
    BY <1>4 DEF Injection
<1>6. Cardinality(1..n) = n
    BY <1>1, FS_Interval
<1> HIDE DEF n
<1>7. f \in Surjection(1..n, S)
    BY <1>5, <1>6, FS_Injection DEF n
<1>8. Len(f) = n /\ f \in Seq(S)
    BY <1>1, <1>4
<1>9. \A x \in S : \E i \in 1..n : f[i] = x
    BY <1>7 DEF Surjection
<1> QED
    BY <1>4, <1>8, <1>9 DEF Items, f

\* The elements of the sequences the publishers build and use up.
LEMMA ItemsEmpty == Items(<<>>) = {}
BY DEF Items

\* A sequence of one.
LEMMA ItemsOne == ASSUME NEW x PROVE Items(<<x>>) = {x}
BY DEF Items

\* What is written behind w comes on top.
LEMMA ItemsConcat ==
    ASSUME NEW S, NEW v \in Seq(S), NEW w \in Seq(S)
    PROVE  v \o w \in Seq(S) /\ Items(v \o w) = Items(v) \cup Items(w)
<1>1. Items(v \o w) \subseteq Items(v) \cup Items(w)
    BY DEF Items
<1>2. Items(v) \subseteq Items(v \o w)
    BY DEF Items
<1>3. ASSUME NEW i \in 1..Len(w) PROVE w[i] \in Items(v \o w)
  <2>1. Len(v) + i \in 1..Len(v \o w) /\ (v \o w)[Len(v) + i] = w[i]
      OBVIOUS
  <2> QED
      BY <2>1 DEF Items
<1>4. Items(w) \subseteq Items(v \o w)
    BY <1>3 DEF Items
<1>5. v \o w \in Seq(S)
    OBVIOUS
<1> QED
    BY <1>1, <1>2, <1>4, <1>5

\* A write that is made leaves the rest.
LEMMA ItemsTail ==
    ASSUME NEW S, NEW w \in Seq(S), w # <<>>
    PROVE  /\ Tail(w) \in Seq(S) /\ Head(w) \in S
           /\ Items(w) = {Head(w)} \cup Items(Tail(w))
<1>1. ASSUME NEW i \in 1..Len(Tail(w)) PROVE Tail(w)[i] \in Items(w)
    BY DEF Items
<1>2. ASSUME NEW i \in 1..Len(w) PROVE w[i] = Head(w) \/ w[i] \in Items(Tail(w))
  <2>1. CASE i = 1
      BY <2>1
  <2>2. CASE i # 1
    <3>1. i - 1 \in 1..Len(Tail(w)) /\ Tail(w)[i - 1] = w[i]
        BY <2>2
    <3> QED
        BY <3>1 DEF Items
  <2> QED
      BY <2>1, <2>2
<1>3. Head(w) \in Items(w)
    BY DEF Items
<1>4. Items(Tail(w)) \subseteq Items(w)
    BY <1>1 DEF Items
<1>5. Items(w) \subseteq {Head(w)} \cup Items(Tail(w))
    BY <1>2 DEF Items
<1>6. Tail(w) \in Seq(S) /\ Head(w) \in S
    OBVIOUS
<1> QED
    BY <1>3, <1>4, <1>5, <1>6

\* The image of a finite set under a function.
LEMMA FiniteImage ==
    ASSUME NEW S, IsFiniteSet(S), NEW f, DOMAIN f = S
    PROVE  IsFiniteSet({f[x] : x \in S})
<1> DEFINE T == {f[x] : x \in S}
           g == [x \in S |-> f[x]]
<1>1. g \in Surjection(S, T)
    BY DEF Surjection
<1> QED
    BY <1>1, FS_Surjection

\* Every builder yields finitely many entities.
LEMMA BuildFinite ==
    ASSUME NEW f \in Items(Feature), NEW turns \in BOOLEAN, NEW ps
    PROVE  IsFiniteSet(build(f, turns, ps))
<1>1. /\ IsFiniteSet(build_floodlight_light)
      /\ IsFiniteSet(build_floodlight_tasks_switch)
      /\ IsFiniteSet(build_camera) /\ IsFiniteSet(build_motion)
      /\ IsFiniteSet(build_led) /\ IsFiniteSet(build_ir)
      /\ IsFiniteSet(build_reboot) /\ IsFiniteSet(build_battery)
      /\ IsFiniteSet(build_siren) /\ IsFiniteSet(build_pir)
    BY FS_Singleton, Zenon
       DEF build_floodlight_light, build_floodlight_tasks_switch,
           build_camera, build_motion, build_led, build_ir,
           build_reboot, build_battery, build_siren,
           build_pir
<1>2. IsFiniteSet(build_ptz_presets(turns, ps))
    BY FS_EmptySet, FS_Singleton, Zenon DEF build_ptz_presets
<1>3. IsFiniteSet(build_pt_buttons(turns))
  <2> DEFINE D == IF turns THEN {"left", "right", "up", "down"} ELSE {}
             e == [d \in D |-> Entity("button", <<"pan", d>>, "none", {}, "ptz",
                                               {"direction"})]
  <2>1. IsFiniteSet({"left"} \cup {"right"} \cup {"up"} \cup {"down"})
      BY FS_Singleton, FS_Union
  <2>2. {"left", "right", "up", "down"} = {"left"} \cup {"right"} \cup {"up"} \cup {"down"}
      OBVIOUS
  <2>3. IsFiniteSet(D)
      BY <2>1, <2>2, FS_EmptySet
  <2>4. build_pt_buttons(turns) = {e[d] : d \in D}
      BY DEF build_pt_buttons
  <2> HIDE DEF D
  <2>5. DOMAIN e = D
      OBVIOUS
  <2> HIDE DEF e
  <2> QED
      BY <2>3, <2>4, <2>5, FiniteImage
<1>4. IsFiniteSet(build_floodlight_light \cup build_floodlight_tasks_switch)
    BY <1>1, FS_Union
<1>5. f \in {"Floodlight", "Camera", "Motion", "Led", "Ir", "Reboot", "Pt", "PtPreset",
             "Battery", "Siren", "Pir"}
    BY DEF Items, Feature
<1>6. \/ f = "Floodlight" /\ build(f, turns, ps) =
            build_floodlight_light \cup build_floodlight_tasks_switch
      \/ f = "Pt" /\ build(f, turns, ps) = build_pt_buttons(turns)
      \/ f = "PtPreset" /\ build(f, turns, ps) = build_ptz_presets(turns, ps)
      \/ build(f, turns, ps) \in
           {build_camera, build_motion, build_led, build_ir,
            build_reboot, build_battery, build_siren,
            build_pir}
    BY <1>5 DEF build
<1> QED
    BY <1>1, <1>2, <1>3, <1>4, <1>6

\* So a camera has finitely many discovery topics at any time.
TopicsOf(c, ps) == {config_topic(<<"cam">>, e) :
                      e \in compute_payloads(features, flags, c = "ptz", ps)}
\* They are an image of the finitely many payloads of the features allowed.
LEMMA TopicsFinite ==
    ASSUME NEW h, NEW ps
    PROVE  IsFiniteSet(TopicsOf(h, ps))
<1> DEFINE F == {g \in features : allows(flags, g)}
           turns == h = "ptz"
           b == [f \in F |-> build(f, turns, ps)]
           E == UNION {b[f] : f \in F}
           c == [e \in E |-> config_topic(<<"cam">>, e)]
<1>1. IsFiniteSet(Items(Feature))
  <2> DEFINE w == Feature
             g == [i \in 1..Len(w) |-> w[i]]
  <2>1. Len(w) = 11
      BY DEF Feature
  <2>2. IsFiniteSet(1..Len(w))
    <3> HIDE DEF w
    <3>1. Len(w) \in Int
        BY <2>1
    <3> QED
        BY <3>1, FS_Interval
  <2>3. Items(w) = {g[i] : i \in 1..Len(w)}
      BY DEF Items
  <2>4. DOMAIN g = 1..Len(w)
      OBVIOUS
  <2> HIDE DEF w, g
  <2> QED
      BY <2>2, <2>3, <2>4, FiniteImage DEF w
<1>2. F \in SUBSET Items(Feature)
    BY RetainedAssumption DEF Items
<1>3. IsFiniteSet(F)
    BY <1>1, <1>2, FS_Subset
<1>4. turns \in BOOLEAN
    BY Zenon
<1> HIDE DEF F, turns
<1>5. DOMAIN b = F /\ \A f \in F : IsFiniteSet(b[f])
    BY <1>2, <1>4, BuildFinite
<1> HIDE DEF b
<1>6. IsFiniteSet({b[f] : f \in F})
    BY <1>3, <1>5, FiniteImage
<1>7. IsFiniteSet(E)
    BY <1>5, <1>6, FS_UNION
<1>8. E = compute_payloads(features, flags, h = "ptz", ps)
    BY DEF compute_payloads, F, b, turns
<1> HIDE DEF E
<1>9. DOMAIN c = E /\ TopicsOf(h, ps) = {c[e] : e \in E}
    BY <1>8 DEF TopicsOf
<1> HIDE DEF c
<1> QED
    BY <1>7, <1>9, FiniteImage

\* The writes a publish leaves to be made: a put for each topic, a clear for each that
\* is gone.
LEMMA PublishItems ==
    ASSUME NEW T, IsFiniteSet(T), NEW L, IsFiniteSet(L)
    PROVE  LET puts == {Put(x) : x \in T}
               clears == {Clear(x) : x \in L}
           IN  /\ SetToSeq(puts) \in Seq(puts)
               /\ Items(SetToSeq(puts)) = puts
               /\ SetToSeq(clears) \in Seq(clears)
               /\ Items(SetToSeq(clears)) = clears
<1> DEFINE p == [x \in T |-> Put(x)]
           q == [x \in L |-> Clear(x)]
<1>1. DOMAIN p = T /\ {Put(x) : x \in T} = {p[x] : x \in T}
    OBVIOUS
<1>2. DOMAIN q = L /\ {Clear(x) : x \in L} = {q[x] : x \in L}
    OBVIOUS
<1> HIDE DEF p, q
<1>3. IsFiniteSet({p[x] : x \in T}) /\ IsFiniteSet({q[x] : x \in L})
    BY <1>1, <1>2, FiniteImage
<1> QED
    BY <1>1, <1>2, <1>3, SetToSeqItems

\* What is still to be written, by whichever task.
Unwritten == UNION {Items(writes[t]) : t \in Tasks}

IsWrite(x) == x = [op |-> x.op, topic |-> x.topic]

\* The state of the tasks, also when they race: only the session probes, nothing is
\* published before the first probe or after the shutdown.
TasksInv ==
    /\ writes = [t \in Tasks |-> writes[t]]
    /\ \A t \in Tasks : writes[t] \in Seq(Items(writes[t]))
    /\ \A t \in Tasks : \A x \in Items(writes[t]) : IsWrite(x)
    /\ \A t \in Tasks :
         Probing \in Items(writes[t]) => t = "session" /\ writes[t] = <<Probing>>
    /\ IsFiniteSet(last)
    /\ caps = "unknown" => last = {} /\ Probing \notin Unwritten
    /\ stopped => last = {} /\ Idle("session")
    /\ ~stopped => Idle("shutdown")

\* The broker after the writes that are still to be made holds what was published last.
BrokerInv ==
    \A x : /\ x \in last <=> (x \in retained \/ Put(x) \in Unwritten)
                                /\ Clear(x) \notin Unwritten
           /\ ~(Put(x) \in Unwritten /\ Clear(x) \in Unwritten)

\* The status to be written is the last reported, and without one it is shown already.
StatusInv ==
    /\ \A v : Status(v) \in Unwritten => v = seen
    /\ (\A v : Status(v) \notin Unwritten) =>
         cached = seen /\ (seen # "none" => shown = seen)

\* A preset to be shown is one of the camera's or none, and without one to be shown so is
\* the one that is shown, once the presets have been asked for.
PresetInv ==
    /\ \A p : Shows(p) \in Unwritten => p \in presets \cup {"none"}
    /\ (caps # "unknown" /\ Probing \notin Unwritten /\ \A p : Shows(p) \notin Unwritten)
         => preset \in presets \cup {"none"}

\* What holds as long as no two tasks have written at the same time.
OneWriterInv ==
    /\ \A t, u \in Tasks : Idle(t) \/ Idle(u) \/ t = u
    /\ BrokerInv
    /\ (~stopped /\ caps # "unknown" /\ Probing \notin Unwritten) => last = Topics
    /\ StatusInv
    /\ PresetInv

RetainedInv == TasksInv /\ (~raced => OneWriterInv)

\* A sequence is one of its own elements.
LEMMA SeqOfItems == ASSUME NEW S, NEW w \in Seq(S) PROVE w \in Seq(Items(w))
<1>1. \A i \in 1..Len(w) : w[i] \in Items(w)
    BY DEF Items
<1> QED
    BY <1>1

\* The five kinds of write are told apart, and each by what it is about.
LEMMA WritesDiffer ==
    ASSUME NEW x, NEW y
    PROVE  /\ Put(x) # Clear(y) /\ Put(x) # Status(y)
           /\ Put(x) # Probing /\ Clear(x) # Status(y)
           /\ Clear(x) # Probing /\ Status(x) # Probing
           /\ Put(x) = Put(y) => x = y
           /\ Clear(x) = Clear(y) => x = y
           /\ Status(x) = Status(y) => x = y
           /\ IsWrite(Put(x)) /\ IsWrite(Clear(x))
           /\ IsWrite(Status(x)) /\ IsWrite(Probing)
           /\ Shows(x) # Put(y) /\ Shows(x) # Clear(y) /\ Shows(x) # Status(y)
           /\ Shows(x) # Probing /\ (Shows(x) = Shows(y) => x = y) /\ IsWrite(Shows(x))
BY DEF Put, Clear, Status, Shows, Probing, IsWrite

\* What the writes of every task are when only one of them has any.
LEMMA OnlyWriter ==
    ASSUME TasksInv, NEW t \in Tasks, NEW w, w \in Seq(Items(w)),
           \A u \in Tasks \ {t} : Idle(u),
           writes' = [writes EXCEPT ![t] = w]
    PROVE  /\ writes'[t] = w /\ \A u \in Tasks \ {t} : writes'[u] = <<>>
           /\ Unwritten' = Items(w) /\ Unwritten = Items(writes[t])
           /\ \A u, v \in Tasks : Idle(u)' \/ Idle(v)' \/ u = v
<1>1. writes'[t] = w /\ \A u \in Tasks \ {t} : writes'[u] = writes[u] /\ writes[u] = <<>>
    BY DEF TasksInv, Idle
<1>2. \A u \in Tasks \ {t} : Items(writes'[u]) = {} /\ Items(writes[u]) = {}
    BY <1>1, ItemsEmpty
<1>3. Unwritten' = UNION {Items(writes'[u]) : u \in Tasks}
    BY DEF Unwritten, Items, Tasks
<1>4. Unwritten' = Items(w)
  <2>1. Items(writes'[t]) = Items(w)
      BY <1>1
  <2> QED
      BY <1>2, <1>3, <2>1
<1>5. Unwritten = Items(writes[t])
    BY <1>2 DEF Unwritten
<1> QED
    BY <1>1, <1>4, <1>5 DEF Idle

\* The state of the tasks after one of them got new work or did some of it.
LEMMA TasksKept ==
    ASSUME TasksInv, NEW t \in Tasks, NEW w, w \in Seq(Items(w)),
           writes' = [writes EXCEPT ![t] = w],
           \A x \in Items(w) : IsWrite(x),
           Probing \in Items(w) =>
               t = "session" /\ w = <<Probing>> /\ caps' # "unknown",
           IsFiniteSet(last'),
           caps' = "unknown" => caps = "unknown" /\ last' = {},
           stopped' => last' = {} /\ writes'["session"] = <<>>,
           ~stopped' => ~stopped /\ (t = "shutdown" => w = <<>>)
    PROVE  TasksInv'
<1>1. writes'[t] = w /\ \A u \in Tasks \ {t} : writes'[u] = writes[u]
    BY DEF TasksInv
<1>2. writes' = [u \in Tasks |-> writes'[u]]
    BY DEF TasksInv
<1>3. \A u \in Tasks :
        /\ writes'[u] \in Seq(Items(writes'[u]))
        /\ \A x \in Items(writes'[u]) : IsWrite(x)
        /\ Probing \in Items(writes'[u]) =>
             u = "session" /\ writes'[u] = <<Probing>>
    BY <1>1 DEF TasksInv
<1>4. Unwritten' = UNION {Items(writes'[u]) : u \in Tasks}
    BY DEF Unwritten, Items, Tasks
<1>5. caps' = "unknown" => last' = {} /\ Probing \notin Unwritten'
    BY <1>1, <1>4 DEF TasksInv, Unwritten
<1>6. stopped' => last' = {} /\ Idle("session")'
    BY DEF Idle
<1>8. ~stopped' => Idle("shutdown")'
    BY <1>1 DEF TasksInv, Idle, Tasks
<1>7. Tasks' = Tasks /\ Probing' = Probing
    BY DEF Tasks, Probing
<1> QED
    BY <1>2, <1>3, <1>5, <1>6, <1>7, <1>8 DEF TasksInv, Items, IsWrite

\* A task that begins, all being idle: what the broker and the status are then.
LEMMA Idles ==
    ASSUME TasksInv, OneWriterInv, \A t \in Tasks : Idle(t)
    PROVE  /\ Unwritten = {} /\ retained = last
           /\ cached = seen /\ (seen # "none" => shown = seen)
           /\ (~stopped /\ caps # "unknown") => last = Topics
           /\ caps # "unknown" => preset \in presets \cup {"none"}
<1>1. Unwritten = {}
    BY ItemsEmpty DEF Unwritten, Idle
<1>2. \A x : x \in last <=> x \in retained
    BY <1>1 DEF OneWriterInv, BrokerInv
<1>3. retained = last
    BY <1>2
<1> QED
    BY <1>1, <1>3 DEF OneWriterInv, StatusInv, PresetInv

\* The session probes the camera.
LEMMA ProbeKept ==
    ASSUME RetainedInv, NEW c \in {"ptz", "fixed"}, Probe(c)
    PROVE  RetainedInv'
<1> DEFINE w == <<Probing>>
<1>1. /\ writes' = [writes EXCEPT !["session"] = w] /\ ~stopped /\ Idle("session")
      /\ caps' = c /\ UNCHANGED <<presets, last, retained, cached, shown, seen, stopped>>
      /\ ~raced' => ~raced /\ \A u \in Tasks \ {"session"} : Idle(u)
    BY DEF Probe, Started, statusVars
<1>2. "session" \in Tasks /\ Items(w) = {Probing} /\ w \in Seq(Items(w))
    BY ItemsOne DEF Tasks
<1> HIDE DEF w
<1>3. TasksInv'
    BY <1>1, <1>2, TasksKept, WritesDiffer DEF RetainedInv, TasksInv, w
<1>4. ASSUME ~raced' PROVE OneWriterInv'
  <2>1. /\ Unwritten' = {Probing}
        /\ \A u, v \in Tasks : Idle(u)' \/ Idle(v)' \/ u = v
      BY <1>1, <1>2, <1>4, OnlyWriter DEF RetainedInv
  <2>2. /\ retained = last /\ cached = seen /\ (seen # "none" => shown = seen)
      BY <1>1, <1>4, Idles DEF RetainedInv
  <2>3. BrokerInv'
      BY <1>1, <2>1, <2>2, WritesDiffer DEF BrokerInv, Put, Clear
  <2>4. StatusInv'
      BY <1>1, <2>1, <2>2, WritesDiffer DEF StatusInv, Status
  <2>5. PresetInv'
      BY <2>1, WritesDiffer DEF PresetInv, Shows, Probing
  <2> QED
      BY <2>1, <2>3, <2>4, <2>5 DEF OneWriterInv, Probing, Tasks
<1> QED
    BY <1>3, <1>4 DEF RetainedInv

\* The camera reports a status.
LEMMA ReportKept ==
    ASSUME RetainedInv, NEW s, ReportStatus(s)
    PROVE  RetainedInv'
<1> DEFINE w == <<Status(s)>>
<1>1. /\ writes' = [writes EXCEPT !["session"] = w] /\ ~stopped /\ Idle("session")
      /\ seen' = s /\ UNCHANGED <<caps, presets, preset, last, retained, cached, shown, stopped>>
      /\ ~raced' => ~raced /\ \A u \in Tasks \ {"session"} : Idle(u)
    BY DEF ReportStatus, Started, discoveryVars
<1>2. "session" \in Tasks /\ Items(w) = {Status(s)} /\ w \in Seq(Items(w))
    BY ItemsOne DEF Tasks
<1> HIDE DEF w
<1>3. TasksInv'
    BY <1>1, <1>2, TasksKept, WritesDiffer DEF RetainedInv, TasksInv
<1>4. ASSUME ~raced' PROVE OneWriterInv'
  <2>1. /\ Unwritten' = {Status(s)}
        /\ \A u, v \in Tasks : Idle(u)' \/ Idle(v)' \/ u = v
      BY <1>1, <1>2, <1>4, OnlyWriter DEF RetainedInv
  <2>2. /\ retained = last /\ (caps # "unknown" => last = Topics)
        /\ caps # "unknown" => preset \in presets \cup {"none"}
      BY <1>1, <1>4, Idles DEF RetainedInv
  <2>3. BrokerInv'
      BY <1>1, <2>1, <2>2, WritesDiffer DEF BrokerInv, Put, Clear
  <2>4. StatusInv'
      BY <1>1, <2>1, WritesDiffer DEF StatusInv, Status
  <2>5. Topics' = Topics
      BY <1>1 DEF Topics
  <2>6. PresetInv'
      BY <1>1, <2>1, <2>2, WritesDiffer DEF PresetInv, Shows
  <2> QED
      BY <1>1, <2>1, <2>2, <2>3, <2>4, <2>5, <2>6 DEF OneWriterInv, Probing, Tasks
<1> QED
    BY <1>3, <1>4 DEF RetainedInv

\* A command has moved the camera to one of its presets.
LEMMA MovetoKept ==
    ASSUME RetainedInv, NEW p \in presets, MovetoPreset(p)
    PROVE  RetainedInv'
<1> DEFINE w == <<Shows(p)>>
<1>1. /\ writes' = [writes EXCEPT !["query"] = w] /\ ~stopped /\ Idle("query")
      /\ UNCHANGED <<caps, presets, preset, last, retained, cached, shown, seen, stopped>>
      /\ ~raced' => ~raced /\ \A u \in Tasks \ {"query"} : Idle(u)
    BY DEF MovetoPreset, Started, discoveryVars, statusVars
<1>2. "query" \in Tasks /\ Items(w) = {Shows(p)} /\ w \in Seq(Items(w))
    BY ItemsOne DEF Tasks
<1> HIDE DEF w
<1>3. TasksInv'
  <2>1. Probing \notin Items(w) /\ \A x \in Items(w) : IsWrite(x)
      BY <1>2, WritesDiffer
  <2>2. /\ TasksInv /\ IsFiniteSet(last') /\ "query" # "shutdown" /\ ~stopped'
        /\ caps' = "unknown" => caps = "unknown" /\ last' = {}
      BY <1>1 DEF RetainedInv, TasksInv
  <2> QED
      BY <1>1, <1>2, <2>1, <2>2, TasksKept
<1>4. ASSUME ~raced' PROVE OneWriterInv'
  <2>1. /\ Unwritten' = {Shows(p)}
        /\ \A u, v \in Tasks : Idle(u)' \/ Idle(v)' \/ u = v
      BY <1>1, <1>2, <1>4, OnlyWriter DEF RetainedInv
  <2>2. /\ retained = last /\ (caps # "unknown" => last = Topics)
        /\ cached = seen /\ (seen # "none" => shown = seen)
      BY <1>1, <1>4, Idles DEF RetainedInv
  <2>3. BrokerInv'
      BY <1>1, <2>1, <2>2, WritesDiffer DEF BrokerInv, Put, Clear
  <2>4. StatusInv'
      BY <1>1, <2>1, <2>2, WritesDiffer DEF StatusInv, Status
  <2>5. Topics' = Topics
      BY <1>1 DEF Topics
  <2>6. PresetInv'
      BY <1>1, <2>1, WritesDiffer DEF PresetInv, Shows
  <2> QED
      BY <1>1, <2>1, <2>2, <2>3, <2>4, <2>5, <2>6 DEF OneWriterInv, Probing, Tasks
<1> QED
    BY <1>3, <1>4 DEF RetainedInv

\* The status read from the cache before the first write.
LEMMA CachedSeq ==
    /\ CachedStatus \in Seq(Items(CachedStatus))
    /\ Items(CachedStatus) = IF cached = "none" THEN {} ELSE {Status(cached)}
<1>1. CASE cached = "none"
  <2>1. CachedStatus = <<>>
      BY <1>1 DEF CachedStatus
  <2> QED
      BY <1>1, <2>1, ItemsEmpty
<1>2. CASE cached # "none"
  <2>1. CachedStatus = <<Status(cached)>>
      BY <1>2 DEF CachedStatus
  <2> QED
      BY <1>2, <2>1, ItemsOne
<1> QED
    BY <1>1, <1>2

\* The last writes of a publish: no preset is shown; with one to all on a reconnect, the
\* cached status follows.
PresetUnknown == <<Shows("none")>>
Trailing == IF caps = "unknown" THEN CachedStatus ELSE PresetUnknown \o CachedStatus
\* I holds the writes that publish T, clear L and end with those of C.
Publishes(I, T, L, C) ==
    I = {Put(x) : x \in T} \cup {Clear(x) : x \in L} \cup C

\* The writes of two sequences, one after the other.
LEMMA Concat ==
    ASSUME NEW v, v \in Seq(Items(v)), NEW w, w \in Seq(Items(w))
    PROVE  v \o w \in Seq(Items(v \o w)) /\ Items(v \o w) = Items(v) \cup Items(w)
<1> DEFINE S == Items(v) \cup Items(w)
<1>1. v \in Seq(S) /\ w \in Seq(S)
    OBVIOUS
<1> HIDE DEF S
<1>2. v \o w \in Seq(S) /\ Items(v \o w) = Items(v) \cup Items(w)
    BY <1>1, ItemsConcat
<1> QED
    BY <1>2, SeqOfItems

\* The sequences of writes with a put for each of T, a clear for each of L, and r.
Puts(T) == SetToSeq({Put(x) : x \in T})
Clears(L) == SetToSeq({Clear(x) : x \in L})
\* What publish writes is such a sequence, with or without the status behind it.
LEMMA PublishSeq ==
    ASSUME NEW T, IsFiniteSet(T), NEW L, IsFiniteSet(L), NEW r, r \in Seq(Items(r))
    PROVE  /\ LET w == Puts(T) \o Clears(L)
              IN  w \in Seq(Items(w)) /\ Publishes(Items(w), T, L, {})
           /\ LET w == (Puts(T) \o Clears(L)) \o r
              IN  w \in Seq(Items(w)) /\ Publishes(Items(w), T, L, Items(r))
           /\ LET w == Puts(T) \o r
              IN  w \in Seq(Items(w)) /\ Publishes(Items(w), T, {}, Items(r))
           /\ Clears(L) \in Seq(Items(Clears(L))) /\ Publishes(Items(Clears(L)), {}, L, {})
<1> DEFINE P == {Put(x) : x \in T}
           Q == {Clear(x) : x \in L}
           p == Puts(T)
           q == Clears(L)
<1>1. p \in Seq(P) /\ Items(p) = P /\ q \in Seq(Q) /\ Items(q) = Q
    BY PublishItems DEF Puts, Clears
<1> HIDE DEF p, q
<1>2. p \in Seq(Items(p)) /\ q \in Seq(Items(q))
    BY <1>1
<1>3. p \o q \in Seq(Items(p \o q)) /\ Items(p \o q) = P \cup Q
    BY <1>1, <1>2, Concat
<1>4. (p \o q) \o r \in Seq(Items((p \o q) \o r)) /\ Items((p \o q) \o r) = P \cup Q \cup Items(r)
    BY <1>3, Concat
<1>5. p \o r \in Seq(Items(p \o r)) /\ Items(p \o r) = P \cup Items(r)
    BY <1>1, <1>2, Concat
<1>6. Publishes(Items(p \o q), T, L, {}) /\ Publishes(Items((p \o q) \o r), T, L, Items(r))
    BY <1>3, <1>4 DEF Publishes
<1>7. Publishes(Items(p \o r), T, {}, Items(r)) /\ Publishes(Items(q), {}, L, {})
    BY <1>1, <1>5 DEF Publishes
<1> QED
    BY <1>2, <1>3, <1>4, <1>5, <1>6, <1>7 DEF p, q

\* What trails a publish, for the session and for the loop.
LEMMA TrailingSeq ==
    /\ PresetUnknown \in Seq(Items(PresetUnknown)) /\ Items(PresetUnknown) = {Shows("none")}
    /\ Trailing \in Seq(Items(Trailing))
    /\ Items(Trailing) \subseteq {Status(cached), Shows("none")}
    /\ Status(cached) \notin Items(Trailing) => cached = "none"
    /\ caps # "unknown" => Shows("none") \in Items(Trailing)
<1>1. PresetUnknown \in Seq(Items(PresetUnknown)) /\ Items(PresetUnknown) = {Shows("none")}
    BY ItemsOne DEF PresetUnknown
<1>2. CASE caps = "unknown"
  <2>1. Trailing = CachedStatus
      BY <1>2 DEF Trailing
  <2> QED
      BY <1>1, <1>2, <2>1, CachedSeq
<1>3. CASE caps # "unknown"
  <2>1. Trailing = PresetUnknown \o CachedStatus
      BY <1>3 DEF Trailing
  <2>2. /\ Trailing \in Seq(Items(Trailing))
        /\ Items(Trailing) = {Shows("none")} \cup Items(CachedStatus)
      BY <1>1, <2>1, CachedSeq, Concat
  <2> QED
      BY <1>1, <1>3, <2>2, CachedSeq
<1> QED
    BY <1>2, <1>3

\* The writes of a publish, by their kinds.
Told(I, T, L, C) ==
    /\ \A x : /\ Put(x) \in I <=> x \in T
              /\ Clear(x) \in I <=> x \in L
    /\ \A v : /\ Status(v) \in I <=> Status(v) \in C
              /\ Shows(v) \in I <=> Shows(v) \in C
    /\ Probing \notin I
    /\ \A x \in I : IsWrite(x)
\* Such a sequence puts and clears exactly those topics.
LEMMA PublishWrites ==
    ASSUME NEW T, NEW L, NEW s, NEW C, C \subseteq {Status(s), Shows("none")}, NEW I,
           Publishes(I, T, L, C)
    PROVE  Told(I, T, L, C)
<1> DEFINE P == {Put(x) : x \in T}
           Q == {Clear(x) : x \in L}
<1>1. \A x : /\ (Put(x) \in P <=> x \in T) /\ Clear(x) \notin P
             /\ Status(x) \notin P /\ Shows(x) \notin P
    BY WritesDiffer
<1>2. \A x : /\ (Clear(x) \in Q <=> x \in L) /\ Put(x) \notin Q
             /\ Status(x) \notin Q /\ Shows(x) \notin Q
  <2>1. \A x, y : /\ Clear(y) # Put(x) /\ Clear(y) # Status(x) /\ Clear(y) # Shows(x)
                  /\ Clear(x) = Clear(y) => x = y
      BY WritesDiffer
  <2> QED
      BY <2>1
<1>3. ASSUME NEW x PROVE Put(x) \notin C /\ Clear(x) \notin C
  <2>1. /\ Put(x) # Status(s) /\ Clear(x) # Status(s)
        /\ Put(x) # Shows("none") /\ Clear(x) # Shows("none")
      BY WritesDiffer
  <2> QED
      BY <2>1
<1>4. /\ Probing \notin P /\ Probing \notin Q /\ Probing \notin C
      /\ \A x \in P : IsWrite(x)
    BY WritesDiffer
<1>5. (\A x \in Q : IsWrite(x)) /\ (\A x \in C : IsWrite(x))
    BY WritesDiffer
<1>6. I = P \cup Q \cup C
    BY DEF Publishes
<1> HIDE DEF P, Q
<1> QED
    BY <1>1, <1>2, <1>3, <1>4, <1>5, <1>6 DEF Told

\* A task sets out to publish T and to clear L, with or without the cached status and an
\* unknown preset: what the broker holds of neither is nothing, and of T it will hold all.
LEMMA DiscoveryKept ==
    ASSUME RetainedInv, NEW t \in Tasks, NEW w, w \in Seq(Items(w)),
           NEW T, IsFiniteSet(T), NEW L, T \cap L = {},
           NEW C, C \subseteq {Status(cached), Shows("none")},
           Publishes(Items(w), T, L, C),
           writes' = [writes EXCEPT ![t] = w], last' = T, UNCHANGED <<cached, seen>>,
           caps' = "unknown" => caps = "unknown" /\ T = {},
           stopped' => T = {} /\ writes'["session"] = <<>>,
           ~stopped' => ~stopped /\ t # "shutdown",
           ~raced' => /\ ~raced /\ \A u \in Tasks \ {t} : Idle(u)
                      /\ \A x \in retained' : x \in T \/ x \in L
                      /\ ~stopped' /\ caps' # "unknown" => T = Topics'
                      /\ cached = seen
                      /\ Status(cached) \notin C /\ seen # "none" => shown' = seen
                      /\ \/ Shows("none") \in C \/ caps' = "unknown"
                         \/ preset' \in presets' \cup {"none"}
    PROVE  RetainedInv'
<1>1. Told(Items(w), T, L, C)
    BY PublishWrites
<1>2. TasksInv'
  <2>1. TasksInv /\ IsFiniteSet(last')
      BY DEF RetainedInv
  <2> QED
      BY <1>1, <2>1, TasksKept DEF Told
<1>3. ASSUME ~raced' PROVE OneWriterInv'
  <2>1. /\ Unwritten' = Items(w)
        /\ \A u, v \in Tasks : Idle(u)' \/ Idle(v)' \/ u = v
      BY <1>3, OnlyWriter DEF RetainedInv
  <2>2. BrokerInv'
    <3>1. \A x : /\ x \in T <=> (x \in retained' \/ Put(x) \in Items(w))
                                   /\ Clear(x) \notin Items(w)
                 /\ ~(Put(x) \in Items(w) /\ Clear(x) \in Items(w))
        BY <1>1, <1>3 DEF Told
    <3> QED
        BY <2>1, <3>1 DEF BrokerInv, Put, Clear
  <2>3. StatusInv'
    <3>3. \A v : Status(v) # Shows("none") /\ (Status(v) = Status(cached) => v = cached)
        BY WritesDiffer
    <3>1. \A v : Status(v) \in Items(w) => v = seen
        BY <1>1, <1>3, <3>3 DEF Told
    <3>2. (\A v : Status(v) \notin Items(w)) =>
            cached = seen /\ (seen # "none" => shown' = seen)
        BY <1>1, <1>3 DEF Told
    <3> QED
        BY <2>1, <3>1, <3>2 DEF StatusInv, Status
  <2>4. PresetInv'
    <3>3. \A p : Shows(p) # Status(cached) /\ (Shows(p) = Shows("none") => p = "none")
        BY WritesDiffer
    <3>1. \A p : Shows(p) \in Items(w) => p = "none"
        BY <1>1, <3>3 DEF Told
    <3>2. (caps' # "unknown" /\ \A p : Shows(p) \notin Items(w)) =>
            preset' \in presets' \cup {"none"}
        BY <1>1, <1>3 DEF Told
    <3> QED
        BY <2>1, <3>1, <3>2 DEF PresetInv, Shows
  <2> QED
      BY <1>1, <1>3, <2>1, <2>2, <2>3, <2>4 DEF OneWriterInv, Told, Probing, Tasks
<1> QED
    BY <1>2, <1>3 DEF RetainedInv
\* What is to be written when only the probe of the session is under way.
LEMMA ProbingOnly ==
    ASSUME TasksInv, OneWriterInv, writes["session"] = <<Probing>>
    PROVE  /\ \A u \in Tasks \ {"session"} : Idle(u)
           /\ retained = last /\ cached = seen /\ (seen # "none" => shown = seen)
<1>1. \A u \in Tasks \ {"session"} : writes[u] = <<>>
  <2>1. "session" \in Tasks /\ writes["session"] # <<>>
      BY DEF Tasks
  <2>2. \A t, u \in Tasks : Idle(t) \/ Idle(u) \/ t = u
      BY DEF OneWriterInv
  <2> QED
      BY <2>1, <2>2 DEF Idle
<1>2. Unwritten = {Probing}
  <2>1. Items(writes["session"]) = {Probing} /\ "session" \in Tasks
      BY ItemsOne DEF Tasks
  <2>2. \A u \in Tasks \ {"session"} : Items(writes[u]) = {}
      BY <1>1, ItemsEmpty
  <2> QED
      BY <2>1, <2>2 DEF Unwritten
<1>3. \A x : x \in last <=> x \in retained
    BY <1>2, WritesDiffer DEF OneWriterInv, BrokerInv
<1>4. retained = last
    BY <1>3
<1>5. \A v : Status(v) \notin Unwritten
    BY <1>2, WritesDiffer
<1> QED
    BY <1>1, <1>4, <1>5 DEF OneWriterInv, StatusInv, Idle

\* The session publishes once it has the presets.
LEMMA ProbePresetsKept ==
    ASSUME RetainedInv, ProbePresets
    PROVE  RetainedInv'
<1> DEFINE T == Topics'
           L == last \ T
           w == (Puts(T) \o Clears(L)) \o PresetUnknown
<1>1. /\ writes' = [writes EXCEPT !["session"] = w] /\ ~Idle("session")
      /\ Head(writes["session"]) = Probing /\ last' = T
      /\ UNCHANGED <<caps, retained, cached, shown, seen, raced, stopped>>
    BY DEF ProbePresets, Publish, Removed, statusVars,
           Puts, Clears, PresetUnknown
<1>2. T = TopicsOf(caps', presets')
    BY DEF Topics, TopicsOf
<1>3. IsFiniteSet(T) /\ IsFiniteSet(L)
    BY <1>2, TopicsFinite, FS_Subset DEF RetainedInv, TasksInv
<1>4. "session" \in Tasks /\ "shutdown" # "session" /\ TasksInv
    BY DEF Tasks, RetainedInv
<1>5. writes["session"] = <<Probing>> /\ ~stopped /\ caps # "unknown"
  <2> DEFINE v == writes["session"]
  <2>1. v \in Seq(Items(v)) /\ v # <<>>
      BY <1>1, <1>4 DEF TasksInv, Idle
  <2>2. Probing \in Items(v)
      BY <1>1, <2>1, ItemsTail
  <2> QED
      BY <1>1, <1>4, <2>2 DEF TasksInv, Unwritten
<1>6. w \in Seq(Items(w)) /\ Publishes(Items(w), T, L, Items(PresetUnknown))
  <2> HIDE DEF T, L
  <2> QED
      BY <1>3, TrailingSeq, PublishSeq
<1> HIDE DEF w, T
<1>7. ~raced' => /\ ~raced /\ \A u \in Tasks \ {"session"} : Idle(u)
                 /\ \A x \in retained' : x \in T \/ x \in L
                 /\ cached = seen /\ (seen # "none" => shown' = seen)
    BY <1>1, <1>5, ProbingOnly DEF RetainedInv
<1>8. T = Topics'
    BY DEF T
<1> DEFINE C == {Shows("none")}
<1>9. /\ T \cap L = {} /\ C \subseteq {Status(cached), Shows("none")} /\ Shows("none") \in C
      /\ Publishes(Items(w), T, L, C) /\ UNCHANGED <<cached, seen>>
      /\ caps' # "unknown" /\ ~stopped'
    BY <1>1, <1>5, <1>6, TrailingSeq
<1> HIDE DEF C, L
<1> QED
    BY <1>1, <1>3, <1>4, <1>5, <1>6, <1>7, <1>8, <1>9, DiscoveryKept
\* The handler of query/turns/preset publishes with the new presets.
LEMMA QueryKept ==
    ASSUME RetainedInv, NEW ps, QueryPtzPreset(ps)
    PROVE  RetainedInv'
<1> DEFINE T == Topics'
           L == last \ T
           w == (Puts(T) \o Clears(L)) \o PresetUnknown
<1>1. /\ writes' = [writes EXCEPT !["query"] = w] /\ Idle("query")
      /\ last' = T /\ ~stopped /\ caps # "unknown"
      /\ UNCHANGED <<caps, retained, cached, shown, seen, stopped>>
      /\ ~raced' => ~raced /\ \A u \in Tasks \ {"query"} : Idle(u)
    BY DEF QueryPtzPreset, Publish, Removed, statusVars,
           Started, Puts, Clears, PresetUnknown
<1>2. T = TopicsOf(caps', presets')
    BY DEF Topics, TopicsOf
<1>3. IsFiniteSet(T) /\ IsFiniteSet(L)
    BY <1>2, TopicsFinite, FS_Subset DEF RetainedInv, TasksInv
<1>4. "query" \in Tasks /\ "shutdown" # "query"
    BY DEF Tasks
<1>5. w \in Seq(Items(w)) /\ Publishes(Items(w), T, L, Items(PresetUnknown))
  <2> HIDE DEF T, L
  <2> QED
      BY <1>3, TrailingSeq, PublishSeq
<1> HIDE DEF w, T
<1>6. ~raced' => /\ ~raced /\ \A u \in Tasks \ {"query"} : Idle(u)
                 /\ \A x \in retained' : x \in T \/ x \in L
                 /\ cached = seen /\ (seen # "none" => shown' = seen)
    BY <1>1, Idles DEF RetainedInv
<1>7. T = Topics'
    BY DEF T
<1> DEFINE C == {Shows("none")}
<1>8. /\ T \cap L = {} /\ C \subseteq {Status(cached), Shows("none")} /\ Shows("none") \in C
      /\ Publishes(Items(w), T, L, C) /\ UNCHANGED <<cached, seen>>
      /\ caps' # "unknown" /\ ~stopped'
    BY <1>1, <1>5, TrailingSeq
<1> HIDE DEF C, L
<1> QED
    BY <1>1, <1>3, <1>4, <1>5, <1>6, <1>7, <1>8, DiscoveryKept

\* The MQTT loop publishes after a reconnect, to a broker that kept everything or nothing.
LEMMA ConnackKept ==
    ASSUME RetainedInv, HandleConnack \/ BrokerRestart
    PROVE  RetainedInv'
<1> DEFINE r == Trailing
           C == Items(r)
           T == IF caps = "unknown" THEN {} ELSE Topics
<1>1. /\ Idle("connack") /\ ~stopped
      /\ UNCHANGED <<caps, presets, cached, seen, stopped>>
      /\ ~raced' => ~raced /\ \A u \in Tasks \ {"connack"} : Idle(u)
    BY DEF HandleConnack, BrokerRestart, Started,
           statusVars
<1>2. caps = "unknown" => last = {}
    BY DEF RetainedInv, TasksInv
<1>3. last' = T
    BY <1>2 DEF HandleConnack, BrokerRestart
<1>4. Topics = TopicsOf(caps, presets) /\ Topics' = Topics
    BY <1>1 DEF Topics, TopicsOf
<1>5. IsFiniteSet(T) /\ IsFiniteSet({}) /\ IsFiniteSet(last \ T)
    BY <1>4, TopicsFinite, FS_EmptySet, FS_Subset DEF RetainedInv, TasksInv
<1>6. "connack" \in Tasks /\ "shutdown" # "connack"
    BY DEF Tasks
<1>7. /\ r \in Seq(Items(r)) /\ C \subseteq {Status(cached), Shows("none")}
      /\ Status(cached) \notin C => cached = "none"
      /\ Shows("none") \in C \/ caps' = "unknown"
    BY <1>1, TrailingSeq
<1>8. ~raced' => /\ ~raced /\ \A u \in Tasks \ {"connack"} : Idle(u)
                 /\ retained = last /\ cached = seen
                 /\ (Status(cached) \notin C /\ seen # "none" => shown' = seen)
    BY <1>1, <1>7, Idles DEF RetainedInv
<1>9. /\ caps' = "unknown" => caps = "unknown" /\ T = {}
      /\ ~stopped' /\ caps' # "unknown" => T = Topics'
    BY <1>1, <1>4
<1>10. \E w, L : /\ writes' = [writes EXCEPT !["connack"] = w] /\ w \in Seq(Items(w))
                 /\ Publishes(Items(w), T, L, C) /\ T \cap L = {}
                 /\ retained' = last => \A x \in retained' : x \in T \/ x \in L
                 /\ (retained' = {} \/ retained' = retained)
  <2>1. CASE caps = "unknown"
    <3>1. /\ writes' = [writes EXCEPT !["connack"] = r]
          /\ retained' = retained \/ retained' = {}
        BY <2>1 DEF HandleConnack, BrokerRestart, Trailing
    <3>2. Publishes(Items(r), T, {}, C)
        BY <2>1 DEF Publishes
    <3> QED
        BY <1>2, <1>7, <2>1, <3>1, <3>2
  <2>2. CASE HandleConnack /\ caps # "unknown"
    <3> DEFINE L == last \ T
               w == (Puts(T) \o Clears(L)) \o r
    <3>1. writes' = [writes EXCEPT !["connack"] = w] /\ retained' = retained
        BY <2>2 DEF HandleConnack, Removed, Puts, Clears, Trailing, PresetUnknown
    <3>2. w \in Seq(Items(w)) /\ Publishes(Items(w), T, L, C)
      <4> HIDE DEF T, r
      <4> QED
          BY <1>5, <1>7, PublishSeq
    <3>3. T \cap L = {} /\ (retained' = last => \A x \in retained' : x \in T \/ x \in L)
        OBVIOUS
    <3> HIDE DEF w, L
    <3> WITNESS w, L
    <3> QED
        BY <3>1, <3>2, <3>3
  <2>3. CASE BrokerRestart /\ caps # "unknown"
    <3> DEFINE w == Puts(T) \o r
    <3>1. writes' = [writes EXCEPT !["connack"] = w] /\ retained' = {}
        BY <2>3 DEF BrokerRestart, Puts, Trailing, PresetUnknown
    <3>2. w \in Seq(Items(w)) /\ Publishes(Items(w), T, {}, C)
      <4> HIDE DEF T, r
      <4> QED
          BY <1>5, <1>7, PublishSeq
    <3> HIDE DEF w
    <3> WITNESS w, {}
    <3> QED
        BY <3>1, <3>2
  <2> QED
      BY <2>1, <2>2, <2>3
<1> HIDE DEF C, T, r
<1>11. PICK w, L : /\ writes' = [writes EXCEPT !["connack"] = w] /\ w \in Seq(Items(w))
                   /\ Publishes(Items(w), T, L, C) /\ T \cap L = {}
                   /\ retained' = last => \A x \in retained' : x \in T \/ x \in L
                   /\ (retained' = {} \/ retained' = retained)
    BY <1>10
<1>12. ~raced' => \A x \in retained' : x \in T \/ x \in L
    BY <1>8, <1>11
<1> QED
    BY <1>1, <1>3, <1>5, <1>6, <1>7, <1>8, <1>9, <1>11, <1>12, DiscoveryKept
\* The shutdown clears whatever may be retained.
LEMMA UnpublishKept ==
    ASSUME RetainedInv, Unpublish
    PROVE  RetainedInv'
<1> DEFINE T == {}
           C == {}
           L == IF caps = "unknown" THEN {} ELSE Topics \cup last
           w == IF caps = "unknown" THEN <<>> ELSE Clears(L)
<1>1. /\ writes' = [writes EXCEPT !["shutdown"] = w] /\ last' = T
      /\ Idle("session") /\ Idle("connack") /\ ~stopped /\ stopped'
      /\ UNCHANGED <<caps, presets, preset, retained, cached, shown, seen>>
      /\ ~raced' => ~raced /\ Idle("query")
    BY DEF Unpublish, statusVars, Clears
<1>2. TasksInv /\ Idle("shutdown")
    BY <1>1 DEF RetainedInv, TasksInv
<1>3. writes'["session"] = <<>> /\ "shutdown" \in Tasks
    BY <1>1, <1>2 DEF TasksInv, Tasks, Idle
<1>4. ~raced' => \A u \in Tasks : Idle(u)
    BY <1>1, <1>2 DEF Tasks
<1>5. w \in Seq(Items(w)) /\ Publishes(Items(w), T, L, C)
  <2>1. <<>> \in Seq(Items(<<>>)) /\ Items(<<>>) = {}
      BY ItemsEmpty
  <2>2. CASE caps = "unknown"
    <3>1. w = <<>> /\ L = {}
        BY <2>2
    <3> QED
        BY <2>1, <3>1 DEF Publishes
  <2>3. CASE caps # "unknown"
    <3>1. Topics = TopicsOf(caps, presets)
        BY DEF Topics, TopicsOf
    <3>2. IsFiniteSet(Topics) /\ IsFiniteSet(last)
        BY <1>2, <3>1, TopicsFinite DEF TasksInv
    <3>3. IsFiniteSet(L) /\ IsFiniteSet({}) /\ w = Clears(L)
        BY <2>3, <3>2, FS_Union, FS_EmptySet
    <3> HIDE DEF L
    <3> QED
        BY <2>1, <3>3, PublishSeq
  <2> QED
      BY <2>2, <2>3
<1> HIDE DEF w
<1>6. ~raced' => /\ ~raced /\ \A u \in Tasks \ {"shutdown"} : Idle(u)
                 /\ \A x \in retained' : x \in T \/ x \in L
                 /\ cached = seen /\ (seen # "none" => shown' = seen)
                 /\ caps' = "unknown" \/ preset' \in presets' \cup {"none"}
    BY <1>1, <1>2, <1>4, Idles DEF RetainedInv, TasksInv
<1>7. IsFiniteSet(T) /\ T \cap L = {} /\ C \subseteq {Status(cached), Shows("none")} /\ T = {}
    BY FS_EmptySet
<1> HIDE DEF C, L, T
<1> QED
    BY <1>1, <1>3, <1>5, <1>6, <1>7, DiscoveryKept

\* A task writes the first of what it has to write.
LEMMA WriteKept ==
    ASSUME RetainedInv, NEW t \in Tasks, Write(t)
    PROVE  RetainedInv'
<1> DEFINE v == writes[t]
           w == Tail(v)
           x == Head(v)
<1>1. /\ v # <<>> /\ x # Probing /\ writes' = [writes EXCEPT ![t] = w]
      /\ UNCHANGED <<caps, presets, last, seen, raced, stopped>>
    BY DEF Write, Idle
<1>2. TasksInv /\ v \in Seq(Items(v))
    BY DEF RetainedInv, TasksInv
<1>3. w \in Seq(Items(w)) /\ Items(v) = {x} \cup Items(w)
    BY <1>1, <1>2, ItemsTail, SeqOfItems
<1>4. /\ \A y \in Items(w) : IsWrite(y)
      /\ Probing \notin Items(v)
  <2>1. Probing \in Items(v) => v = <<Probing>>
      BY <1>2 DEF TasksInv
  <2> QED
      BY <1>1, <1>2, <1>3, <2>1 DEF TasksInv
<1>5. (stopped => t # "session" /\ last = {}) /\ (~stopped => t # "shutdown")
    BY <1>1, <1>2 DEF TasksInv, Idle
<1> HIDE DEF w, x
<1>6. TasksInv'
  <2>1. stopped' => last' = {} /\ writes'["session"] = <<>>
      BY <1>1, <1>2, <1>5 DEF TasksInv, Idle, Tasks
  <2>2. caps' = "unknown" => caps = "unknown" /\ last' = {}
      BY <1>1, <1>2 DEF TasksInv
  <2> QED
      BY <1>1, <1>2, <1>3, <1>4, <1>5, <2>1, <2>2, TasksKept DEF TasksInv
<1>7. ASSUME ~raced PROVE OneWriterInv'
  <2>1. OneWriterInv /\ \A u \in Tasks \ {t} : Idle(u)
      BY <1>1, <1>7 DEF RetainedInv, OneWriterInv, Idle
  <2>2. /\ Unwritten' = Items(w) /\ Unwritten = Items(v)
        /\ \A u, z \in Tasks : Idle(u)' \/ Idle(z)' \/ u = z
      BY <1>1, <1>2, <1>3, <2>1, OnlyWriter
  <2>3. PICK a, b : x = [op |-> a, topic |-> b]
      BY <1>2, <1>3 DEF TasksInv, IsWrite
  <2>4. /\ \A y : Put(y) # x =>
             (Put(y) \in Items(w) <=> Put(y) \in Unwritten)
        /\ \A y : Clear(y) # x =>
             (Clear(y) \in Items(w) <=> Clear(y) \in Unwritten)
        /\ \A y : Status(y) # x =>
             (Status(y) \in Items(w) <=> Status(y) \in Unwritten)
        /\ \A y : Shows(y) # x =>
             (Shows(y) \in Items(w) <=> Shows(y) \in Unwritten)
        /\ Items(w) \subseteq Unwritten /\ x \in Unwritten
      BY <1>3, <2>2
  <2>5. Topics' = Topics
      BY <1>1 DEF Topics
  <2>6. BrokerInv' /\ StatusInv'
    <3>1. CASE a = "put"
      <4>1. x = Put(b) /\ retained' = retained \cup {b} /\ UNCHANGED <<cached, shown>>
          BY <2>3, <3>1 DEF Write, Put, x
      <4>2. \A y : (Clear(y) # x) /\ (Status(y) # x)
                   /\ (Put(y) = x => y = b)
          BY <4>1, WritesDiffer
      <4>3. BrokerInv'
        <5>1. \A y : /\ y \in last <=> (y \in retained' \/ Put(y) \in Items(w))
                                         /\ Clear(y) \notin Items(w)
                     /\ ~(Put(y) \in Items(w) /\ Clear(y) \in Items(w))
            BY <2>1, <2>4, <4>1, <4>2 DEF OneWriterInv, BrokerInv
        <5> QED
            BY <1>1, <2>2, <5>1 DEF BrokerInv, Put, Clear
      <4>4. StatusInv'
        <5>1. \A y : Status(y) \in Items(w) <=> Status(y) \in Unwritten
            BY <2>4, <4>2
        <5> QED
            BY <1>1, <2>1, <2>2, <4>1, <5>1 DEF OneWriterInv, StatusInv, Status
      <4> QED
          BY <4>3, <4>4
    <3>2. CASE a = "clear"
      <4>1. x = Clear(b) /\ retained' = retained \ {b} /\ UNCHANGED <<cached, shown>>
          BY <2>3, <3>2 DEF Write, Clear, x
      <4>2. \A y : (Put(y) # x) /\ (Status(y) # x)
                   /\ (Clear(y) = x => y = b)
          BY <4>1, WritesDiffer
      <4>3. BrokerInv'
        <5>1. \A y : /\ y \in last <=> (y \in retained' \/ Put(y) \in Items(w))
                                         /\ Clear(y) \notin Items(w)
                     /\ ~(Put(y) \in Items(w) /\ Clear(y) \in Items(w))
            BY <2>1, <2>4, <4>1, <4>2 DEF OneWriterInv, BrokerInv
        <5> QED
            BY <1>1, <2>2, <5>1 DEF BrokerInv, Put, Clear
      <4>4. StatusInv'
        <5>1. \A y : Status(y) \in Items(w) <=> Status(y) \in Unwritten
            BY <2>4, <4>2
        <5> QED
            BY <1>1, <2>1, <2>2, <4>1, <5>1 DEF OneWriterInv, StatusInv, Status
      <4> QED
          BY <4>3, <4>4
    <3>3. CASE a = "status"
      <4>1. x = Status(b) /\ shown' = b /\ cached' = b /\ retained' = retained
          BY <2>3, <3>3 DEF Write, Status, x
      <4>2. \A y : Put(y) # x /\ Clear(y) # x
          BY <4>1, WritesDiffer
      <4>3. BrokerInv'
        <5>1. \A y : /\ Put(y) \in Items(w) <=> Put(y) \in Unwritten
                     /\ Clear(y) \in Items(w) <=> Clear(y) \in Unwritten
            BY <2>4, <4>2
        <5> QED
            BY <1>1, <2>1, <2>2, <4>1, <5>1
               DEF OneWriterInv, BrokerInv, Put, Clear
      <4>4. StatusInv'
        <5>1. b = seen /\ \A y : Status(y) \in Items(w) => y = seen
            BY <2>1, <2>4, <4>1 DEF OneWriterInv, StatusInv
        <5> QED
            BY <1>1, <2>2, <4>1, <5>1 DEF StatusInv, Status
      <4> QED
          BY <4>3, <4>4
    <3>4. CASE a = "preset"
      <4>1. x = Shows(b) /\ UNCHANGED <<retained, cached, shown>>
          BY <2>3, <3>4 DEF Write, Shows, x
      <4>2. \A y : Put(y) # x /\ Clear(y) # x /\ Status(y) # x
          BY <4>1, WritesDiffer
      <4>3. \A y : /\ Put(y) \in Items(w) <=> Put(y) \in Unwritten
                   /\ Clear(y) \in Items(w) <=> Clear(y) \in Unwritten
                   /\ Status(y) \in Items(w) <=> Status(y) \in Unwritten
          BY <2>4, <4>2
      <4>4. BrokerInv'
          BY <1>1, <2>1, <2>2, <4>1, <4>3 DEF OneWriterInv, BrokerInv, Put, Clear
      <4>5. StatusInv'
          BY <1>1, <2>1, <2>2, <4>1, <4>3 DEF OneWriterInv, StatusInv, Status
      <4> QED
          BY <4>4, <4>5
    <3> QED
        BY <2>3, <3>1, <3>2, <3>3, <3>4 DEF Write, x
  <2>7. PresetInv'
    <3>1. Probing \notin Unwritten /\ Probing \notin Items(w)
        BY <1>3, <1>4, <2>2
    <3>2. CASE a = "preset"
      <4>1. x = Shows(b) /\ preset' = b
          BY <2>3, <3>2 DEF Write, Shows, x
      <4>2. b \in presets \cup {"none"} /\ \A y : Shows(y) \in Items(w) => y \in presets \cup {"none"}
          BY <2>1, <2>4, <4>1 DEF OneWriterInv, PresetInv
      <4> QED
          BY <1>1, <2>2, <4>1, <4>2 DEF PresetInv, Shows
    <3>3. CASE a # "preset"
      <4>1. preset' = preset /\ \A y : Shows(y) # x
          BY <2>3, <3>3 DEF Write, Shows, x
      <4>2. \A y : Shows(y) \in Items(w) <=> Shows(y) \in Unwritten
          BY <2>4, <4>1
      <4> QED
          BY <1>1, <2>1, <2>2, <3>1, <4>1, <4>2 DEF OneWriterInv, PresetInv, Shows
    <3> QED
        BY <3>2, <3>3
  <2> QED
      BY <1>1, <1>3, <1>4, <2>1, <2>2, <2>5, <2>6, <2>7 DEF OneWriterInv, Probing, Tasks
<1> QED
    BY <1>1, <1>6, <1>7 DEF RetainedInv
\* The rest of a task's writes is given up.
LEMMA GiveUpKept ==
    ASSUME RetainedInv, NEW t \in Tasks, GiveUp(t)
    PROVE  RetainedInv'
<1>1. /\ writes' = [writes EXCEPT ![t] = <<>>] /\ stopped /\ raced'
      /\ UNCHANGED <<caps, last, stopped>>
    BY DEF GiveUp, discoveryVars
<1>2. <<>> \in Seq(Items(<<>>)) /\ Items(<<>>) = {} /\ TasksInv
    BY ItemsEmpty DEF RetainedInv
<1>3. /\ stopped' => last' = {} /\ writes'["session"] = <<>>
      /\ caps' = "unknown" => caps = "unknown" /\ last' = {}
    BY <1>1, <1>2 DEF TasksInv, Idle, Tasks
<1>4. IsFiniteSet(last')
    BY <1>1, <1>2 DEF TasksInv
<1>5. TasksInv'
  <2> DEFINE w == <<>>
  <2>1. w \in Seq(Items(w)) /\ Items(w) = {} /\ writes' = [writes EXCEPT ![t] = w]
      BY <1>1, <1>2
  <2> HIDE DEF w
  <2> QED
      BY <1>1, <1>2, <1>3, <1>4, <2>1, TasksKept
<1> QED
    BY <1>1, <1>5 DEF RetainedInv

\* The invariant holds at first.
LEMMA RetainedStarts == ASSUME RetainedInit PROVE RetainedInv
<1>1. /\ \A t \in Tasks : writes[t] = <<>> /\ Items(writes[t]) = {}
      /\ writes = [t \in Tasks |-> writes[t]]
    BY ItemsEmpty DEF RetainedInit
<1>2. Unwritten = {}
    BY <1>1 DEF Unwritten
<1>3. TasksInv
    BY <1>1, <1>2, FS_EmptySet DEF TasksInv, RetainedInit, Idle, Tasks
<1>4. OneWriterInv
    BY <1>1, <1>2 DEF OneWriterInv, BrokerInv, StatusInv, PresetInv, RetainedInit, Idle
<1> QED
    BY <1>3, <1>4 DEF RetainedInv

\* Every step keeps it.
LEMMA RetainedStepKept ==
    ASSUME RetainedInv, [RetainedNext]_retainedVars
    PROVE  RetainedInv'
<1>1. CASE RetainedNext
    BY <1>1, ProbeKept, ProbePresetsKept, ConnackKept, UnpublishKept, QueryKept, ReportKept,
       MovetoKept, WriteKept, GiveUpKept
       DEF RetainedNext
<1>2. CASE UNCHANGED retainedVars
  <2>1. UNCHANGED <<caps, presets, preset, last, writes, retained, cached, shown, seen, raced,
                    stopped>>
      BY <1>2 DEF retainedVars
  <2>2. Unwritten' = Unwritten /\ Topics' = Topics
        /\ \A t \in Tasks : Idle(t)' <=> Idle(t)
      BY <2>1 DEF Unwritten, Items, Topics, Idle, Tasks
  <2>3. TasksInv <=> TasksInv'
      BY <2>1, <2>2 DEF TasksInv, Items, IsWrite, Tasks, Probing, Idle
  <2>4. (BrokerInv <=> BrokerInv') /\ (StatusInv <=> StatusInv')
      BY <2>1, <2>2 DEF BrokerInv, StatusInv, Put, Clear, Status
  <2>6. PresetInv <=> PresetInv'
      BY <2>1, <2>2 DEF PresetInv, Shows, Probing
  <2>5. OneWriterInv <=> OneWriterInv'
      BY <2>1, <2>2, <2>4, <2>6 DEF OneWriterInv, Tasks, Probing
  <2> QED
      BY <2>1, <2>3, <2>5 DEF RetainedInv
<1> QED
    BY <1>1, <1>2

\* With nothing left to write, what is retained is current.
LEMMA RetainedAtRest == ASSUME RetainedInv PROVE RetainedIsCurrent
<1> SUFFICES ASSUME ~raced, \A t \in Tasks : Idle(t)
             PROVE  /\ retained = IF stopped \/ caps = "unknown" THEN {} ELSE Topics
                    /\ seen # "none" => shown = seen
                    /\ caps # "unknown" => preset \in presets \union {"none"}
    BY DEF RetainedIsCurrent
<1>1. /\ retained = last /\ (seen # "none" => shown = seen)
      /\ caps # "unknown" => preset \in presets \cup {"none"}
      /\ (~stopped /\ caps # "unknown") => last = Topics
    BY Idles DEF RetainedInv
<1>2. stopped \/ caps = "unknown" => last = {}
    BY DEF RetainedInv, TasksInv
<1> QED
    BY <1>1, <1>2

\* publisher.rs and camera.rs: whatever features, switches, presets and probes a camera has,
\* and in whatever order its tasks publish, what the broker retains at rest is current
\* unless two tasks wrote at the same time or a write was given up.
THEOREM RetainedStaysCurrent == RetainedSpec => []RetainedIsCurrent
<1>1. RetainedInit => RetainedInv
    BY RetainedStarts
<1>2. RetainedInv /\ [RetainedNext]_retainedVars => RetainedInv'
    BY RetainedStepKept
<1>3. RetainedInv => RetainedIsCurrent
    BY RetainedAtRest
<1> QED
    BY <1>1, <1>2, <1>3, PTL DEF RetainedSpec
=============================================================================
