--------------------------- MODULE CameraLifecycle ---------------------------
(***************************************************************************)
(* The connection life cycle of one camera (CameraHandle in                *)
(* src/camera.rs): the run loop with its park, connect, keepalive,         *)
(* teardown and backoff phases; the session tasks that act on it (the      *)
(* grace watcher of src/grace_period.rs and the preview aggregator); the   *)
(* watchdog of src/watchdog.rs; the clients of the wake lock; and the      *)
(* global cancellation token.                                              *)
(*                                                                         *)
(* The wake lock is used through the atomic interface WakeGate, which      *)
(* WakeLock implements.  Time is abstracted: a sleep or a timeout may end  *)
(* at any moment, and idle_since only tells a release that is at least the *)
(* grace period old from a recent one.  Stream sources are in              *)
(* StreamRegistry.                                                         *)
(***************************************************************************)
EXTENDS Integers

CONSTANTS
    Clients,         \* holders of the wake lock
    IdleDisconnect,  \* config.idle_disconnect: a battery camera
    MaxFailures,     \* KEEPALIVE_MAX_FAILURES
    MaxSessions      \* bound on the number of successful connects

ASSUME ConfigAssumption ==
    /\ IdleDisconnect \in BOOLEAN
    /\ MaxFailures \in Nat \ {0}
    /\ MaxSessions \in Nat

VARIABLES
    pc,              \* where the run loop is
    state,           \* CameraHandle.state
    slot,            \* CameraHandle.camera: the driver's number, NoDriver for None
    driver,          \* number of drivers connected so far; the last one is current
    failures,        \* consecutive_failures of keepalive_loop
    cancel,          \* the camera's cancellation token
    session_cancel,  \* the current session's cancellation token
    disconnect,      \* the stored permit of disconnect_signal
    holders,         \* clients that hold the wake lock
    release,         \* the stored permit of the lock's notify_release
    idle_since,      \* the lock's idle_since, measured against the grace period
    grace,           \* where the session's grace watcher is
    preview,         \* the preview state channel
    agg,             \* where the preview aggregator is; a value it will write
    last_write,      \* the aggregator's last own write
    wd,              \* where the watchdog is in its sweep
    asked,           \* history: the driver connected at the last disconnect request
    heldThroughout   \* history: the lock was held since the driver connected

wakeVars == <<holders, release, idle_since>>
sessionVars == <<state, slot, driver>>
previewVars == <<preview, agg, last_write>>
histVars == <<asked, heldThroughout>>
vars == <<pc, state, slot, driver, failures, cancel, session_cancel, disconnect,
          holders, release, idle_since, grace, preview, agg, last_write, wd,
          asked, heldThroughout>>

NoDriver == 0

PC == {"start", "top", "parked", "connecting", "announce", "probe", "spawn",
       "live", "probing", "ended", "drain", "stopSources", "logout", "clear",
       "offline", "retire", "backoff", "exit", "done"}
States == {"Disconnected", "Connecting", "Connected"}
Previews == {"Sleeping", "Connecting", "Live"}
GracePC == {"off", "check", "await", "sleep"}
AggPC == {"off", "idle"} \cup Previews

Idle == holders = {}

\* CameraHandle::new, before its run loop starts.
Init ==
    /\ pc = "start"
    /\ state = "Disconnected"
    /\ slot = NoDriver
    /\ driver = 0
    /\ failures = 0
    /\ cancel = FALSE
    /\ session_cancel = FALSE
    /\ disconnect = FALSE
    /\ holders = {}
    /\ release = FALSE
    /\ idle_since = "None"
    /\ grace = "off"
    /\ preview = "Sleeping"
    /\ agg = "off"
    /\ last_write = "None"
    /\ wd = "idle"
    /\ asked = NoDriver
    /\ heldThroughout = FALSE

-----------------------------------------------------------------------------
(* run: from the top of the loop to a connected driver. *)

\* The initial status reports have been handed to MQTT.
Started ==
    /\ pc = "start"
    /\ pc' = "top"
    /\ UNCHANGED <<sessionVars, failures, cancel, session_cancel, disconnect,
                   wakeVars, grace, previewVars, wd, histVars>>

LeaveLoop == pc' = "exit" /\
    UNCHANGED <<sessionVars, failures, cancel, session_cancel, disconnect,
                wakeVars, grace, previewVars, wd, histVars>>

\* Every wait of the loop that is raced against the cancellation token.
Cancelled ==
    /\ pc \in {"top", "parked", "connecting", "backoff"}
    /\ cancel
    /\ LeaveLoop

\* Defect: the preview state is not set.
StartConnectSilent ==
    /\ pc' = "connecting"
    /\ state' = "Connecting"
    /\ UNCHANGED <<slot, driver, failures, cancel, session_cancel, disconnect,
                   wakeVars, grace, previewVars, wd, histVars>>

StartConnect ==
    /\ pc' = "connecting"
    /\ state' = "Connecting"
    /\ preview' = "Connecting"
    /\ UNCHANGED <<slot, driver, failures, cancel, session_cancel, disconnect,
                   wakeVars, grace, agg, last_write, wd, histVars>>

TopConnect ==
    /\ pc = "top"
    /\ ~cancel
    /\ ~(IdleDisconnect /\ Idle)
    /\ StartConnect

TopPark ==
    /\ pc = "top"
    /\ ~cancel
    /\ IdleDisconnect /\ Idle
    /\ pc' = "parked"
    /\ preview' = "Sleeping"
    /\ UNCHANGED <<sessionVars, failures, cancel, session_cancel, disconnect,
                   wakeVars, grace, agg, last_write, wd, histVars>>

\* Defect: the run loop waits on the wrong Notify.
WokenByRelease ==
    /\ pc = "parked"
    /\ release
    /\ StartConnect

\* wait_for_acquire returns: Wake of WakeGate.
Woken ==
    /\ pc = "parked"
    /\ ~Idle
    /\ StartConnect

\* connect succeeds, backoff.reset, and run_connected_session begins.
ConnectOk ==
    /\ pc = "connecting"
    /\ driver < MaxSessions
    /\ pc' = "announce"
    /\ state' = "Connected"
    /\ preview' = "Live"
    /\ driver' = driver + 1
    /\ heldThroughout' = ~Idle
    /\ UNCHANGED <<slot, failures, cancel, session_cancel, disconnect, wakeVars,
                   grace, agg, last_write, wd, asked>>

\* connect fails or its timeout fires; an authentication error ends the loop.
ConnectFailed(auth) ==
    /\ pc = "connecting"
    /\ state' = "Disconnected"
    /\ pc' = IF auth THEN "exit" ELSE "backoff"
    /\ UNCHANGED <<slot, driver, failures, cancel, session_cancel, disconnect,
                   wakeVars, grace, previewVars, wd, histVars>>

-----------------------------------------------------------------------------
(* run_connected_session. *)

\* The connected status is handed to MQTT; then the driver is published.
Announced ==
    /\ pc = "announce"
    /\ pc' = "probe"
    /\ slot' = driver
    /\ UNCHANGED <<state, driver, failures, cancel, session_cancel, disconnect,
                   wakeVars, grace, previewVars, wd, histVars>>

\* The capability and preset queries return, discovery is handed to MQTT, and
\* spawn_session_tasks makes a new cancellation token and starts the aggregator.
TasksSpawned ==
    /\ pc = "probe"
    /\ pc' = "spawn"
    /\ session_cancel' = FALSE
    /\ agg' = "idle"
    /\ last_write' = "None"
    /\ UNCHANGED <<sessionVars, failures, cancel, disconnect, wakeVars, grace,
                   preview, wd, histVars>>

\* The PIR state is handed to MQTT; the grace watcher is the last task to start.
SessionSpawned ==
    /\ pc = "spawn"
    /\ pc' = "live"
    /\ failures' = 0
    /\ grace' = IF IdleDisconnect THEN "check" ELSE "off"
    /\ UNCHANGED <<sessionVars, cancel, session_cancel, disconnect, wakeVars,
                   previewVars, wd, histVars>>

\* keepalive_loop: the interval ticks and a probe is sent.
ProbeStart ==
    /\ pc = "live"
    /\ pc' = "probing"
    /\ UNCHANGED <<sessionVars, failures, cancel, session_cancel, disconnect,
                   wakeVars, grace, previewVars, wd, histVars>>

\* classify_keepalive_tick and advance_keepalive_counter.
advance_keepalive_counter(ok) == IF ok THEN 0 ELSE failures + 1

\* Defect: one failure too many is tolerated.
ProbeResultLate(ok) ==
    /\ pc = "probing"
    /\ failures' = advance_keepalive_counter(ok)
    /\ pc' = IF failures' > MaxFailures THEN "ended" ELSE "live"
    /\ UNCHANGED <<sessionVars, cancel, session_cancel, disconnect, wakeVars,
                   grace, previewVars, wd, histVars>>

ProbeResult(ok) ==
    /\ pc = "probing"
    /\ failures' = advance_keepalive_counter(ok)
    /\ pc' = IF failures' >= MaxFailures THEN "ended" ELSE "live"
    /\ UNCHANGED <<sessionVars, cancel, session_cancel, disconnect, wakeVars,
                   grace, previewVars, wd, histVars>>

\* Defect: the keepalive loop watches the session's token only.
SessionCancelledOnly ==
    /\ pc \in {"live", "probing"}
    /\ session_cancel
    /\ pc' = "ended"
    /\ UNCHANGED <<sessionVars, failures, cancel, session_cancel, disconnect,
                   wakeVars, grace, previewVars, wd, histVars>>

\* keepalive_loop, and its probe, are raced against three signals; the
\* disconnect request is used up by the branch that takes it.
SessionCancelled ==
    /\ pc \in {"live", "probing"}
    /\ cancel \/ session_cancel
    /\ pc' = "ended"
    /\ UNCHANGED <<sessionVars, failures, cancel, session_cancel, disconnect,
                   wakeVars, grace, previewVars, wd, histVars>>

DisconnectRequested ==
    /\ pc \in {"live", "probing"}
    /\ disconnect
    /\ disconnect' = FALSE
    /\ pc' = "ended"
    /\ UNCHANGED <<sessionVars, failures, cancel, session_cancel, wakeVars,
                   grace, previewVars, wd, histVars>>

post_keepalive_preview_state ==
    IF IdleDisconnect /\ Idle THEN "Sleeping" ELSE "Connecting"

SessionEnded ==
    /\ pc = "ended"
    /\ pc' = "drain"
    /\ preview' = post_keepalive_preview_state
    /\ session_cancel' = TRUE
    /\ UNCHANGED <<sessionVars, failures, cancel, disconnect, wakeVars, grace,
                   agg, last_write, wd, histVars>>

-----------------------------------------------------------------------------
(* teardown_session_tasks, and the rest of the loop. *)

\* Defect: the drain window ends without abort_all.
DrainedDetached(aborted) ==
    /\ pc = "drain"
    /\ aborted \/ (agg = "off" /\ grace = "off")
    /\ pc' = "stopSources"
    /\ UNCHANGED <<sessionVars, failures, cancel, session_cancel, disconnect,
                   wakeVars, grace, previewVars, wd, histVars>>

\* Every session task has exited, or the 2 s window is over and they are
\* aborted at their next await: a task between two awaits runs on to it.
Drained(aborted) ==
    /\ pc = "drain"
    /\ agg \in {"off", "idle"}
    /\ aborted \/ (agg = "off" /\ grace = "off")
    /\ pc' = "stopSources"
    /\ agg' = "off"
    /\ grace' = "off"
    /\ UNCHANGED <<sessionVars, failures, cancel, session_cancel, disconnect,
                   wakeVars, preview, last_write, wd, histVars>>

\* Defect: the driver is dropped before the stream sources that use it.
SourcesStoppedLate ==
    /\ pc = "stopSources"
    /\ pc' = "logout"
    /\ slot' = NoDriver
    /\ UNCHANGED <<state, driver, failures, cancel, session_cancel, disconnect,
                   wakeVars, grace, previewVars, wd, histVars>>

\* stop_all_stream_sources takes every source out of the registry; StreamRegistry
\* has the capped wait for their readers.
SourcesStopped ==
    /\ pc = "stopSources"
    /\ pc' = "logout"
    /\ UNCHANGED <<sessionVars, failures, cancel, session_cancel, disconnect,
                   wakeVars, grace, previewVars, wd, histVars>>

\* The readers are gone or timed out; end_session returns or its timeout fires.
LoggedOut ==
    /\ pc = "logout"
    /\ pc' = "clear"
    /\ UNCHANGED <<sessionVars, failures, cancel, session_cancel, disconnect,
                   wakeVars, grace, previewVars, wd, histVars>>

\* Defect: the driver stays in the slot.
SlotKept ==
    /\ pc = "clear"
    /\ pc' = "offline"
    /\ UNCHANGED <<sessionVars, failures, cancel, session_cancel, disconnect,
                   wakeVars, grace, previewVars, wd, histVars>>

SlotCleared ==
    /\ pc = "clear"
    /\ pc' = "offline"
    /\ slot' = NoDriver
    /\ UNCHANGED <<state, driver, failures, cancel, session_cancel, disconnect,
                   wakeVars, grace, previewVars, wd, histVars>>

WentOffline ==
    /\ pc = "offline"
    /\ pc' = "retire"
    /\ state' = "Disconnected"
    /\ UNCHANGED <<slot, driver, failures, cancel, session_cancel, disconnect,
                   wakeVars, grace, previewVars, wd, histVars>>

\* The disconnected status is handed to MQTT.
Retired ==
    /\ pc = "retire"
    /\ pc' = "backoff"
    /\ UNCHANGED <<sessionVars, failures, cancel, session_cancel, disconnect,
                   wakeVars, grace, previewVars, wd, histVars>>

BackedOff ==
    /\ pc = "backoff"
    /\ pc' = "top"
    /\ UNCHANGED <<sessionVars, failures, cancel, session_cancel, disconnect,
                   wakeVars, grace, previewVars, wd, histVars>>

\* After the loop: state, stream sources, preview publisher.
Finished ==
    /\ pc = "exit"
    /\ pc' = "done"
    /\ state' = "Disconnected"
    /\ UNCHANGED <<slot, driver, failures, cancel, session_cancel, disconnect,
                   wakeVars, grace, previewVars, wd, histVars>>

-----------------------------------------------------------------------------
(* The session's grace watcher: GracePeriod::run, then session_cancel. *)

GraceCheck ==
    /\ grace = "check"
    /\ grace' = IF Idle THEN "sleep" ELSE "await"
    /\ UNCHANGED <<pc, sessionVars, failures, cancel, session_cancel, disconnect,
                   wakeVars, previewVars, wd, histVars>>

GraceNotified ==
    /\ grace = "await"
    /\ release
    /\ release' = FALSE
    /\ grace' = "sleep"
    /\ UNCHANGED <<pc, sessionVars, failures, cancel, session_cancel, disconnect,
                   holders, idle_since, previewVars, wd, histVars>>

\* Defect: no look at the lock when the countdown ends.
GraceDeadlineBlind ==
    /\ grace = "sleep"
    /\ grace' = "off"
    /\ session_cancel' = TRUE
    /\ UNCHANGED <<pc, sessionVars, failures, cancel, disconnect, wakeVars,
                   previewVars, wd, histVars>>

\* Defect: the watcher gives up when the lock is held at the deadline.
GraceDeadlineOnce ==
    /\ grace = "sleep"
    /\ grace' = "off"
    /\ session_cancel' = (session_cancel \/ Idle)
    /\ UNCHANGED <<pc, sessionVars, failures, cancel, disconnect, wakeVars,
                   previewVars, wd, histVars>>

GraceDeadline ==
    /\ grace = "sleep"
    /\ grace' = IF Idle THEN "off" ELSE "check"
    /\ session_cancel' = (session_cancel \/ Idle)
    /\ UNCHANGED <<pc, sessionVars, failures, cancel, disconnect, wakeVars,
                   previewVars, wd, histVars>>

(* The preview aggregator: a tick samples, decides and writes. *)

aggregate_preview_state(current, bridging, own) ==
    CASE current = "Live" /\ bridging -> "Connecting"
      [] current = "Connecting" /\ ~bridging /\ own = "Connecting" -> "Live"
      [] OTHER -> current

\* Read the channel and the sources, and decide; nothing to write leaves only
\* the bookkeeping of who owns a Connecting state.
AggSample(bridging) ==
    LET next == aggregate_preview_state(preview, bridging, last_write)
    IN  /\ agg = "idle"
        /\ agg' = IF next # preview THEN next ELSE "idle"
        /\ last_write' =
               IF next = preview
                  /\ \/ preview = "Sleeping"
                     \/ preview = "Connecting" /\ last_write # "Connecting"
               THEN "None" ELSE last_write
        /\ UNCHANGED <<pc, sessionVars, failures, cancel, session_cancel,
                       disconnect, wakeVars, grace, preview, wd, histVars>>

AggWrite ==
    /\ agg \in Previews
    /\ preview' = agg
    /\ last_write' = agg
    /\ agg' = "idle"
    /\ UNCHANGED <<pc, sessionVars, failures, cancel, session_cancel, disconnect,
                   wakeVars, grace, wd, histVars>>

AggExit ==
    /\ agg = "idle"
    /\ session_cancel
    /\ agg' = "off"
    /\ UNCHANGED <<pc, sessionVars, failures, cancel, session_cancel, disconnect,
                   wakeVars, grace, preview, last_write, wd, histVars>>

-----------------------------------------------------------------------------
(* The watchdog's sweep of this camera: sample idle_since, then decide. *)

WatchdogSample ==
    /\ wd = "idle"
    /\ Idle /\ idle_since = "aged"
    /\ wd' = "sampled"
    /\ UNCHANGED <<pc, sessionVars, failures, cancel, session_cancel, disconnect,
                   wakeVars, grace, previewVars, histVars>>

\* should_disconnect, then request_disconnect.
WatchdogDecide ==
    /\ wd = "sampled"
    /\ wd' = "idle"
    /\ LET fire == IdleDisconnect /\ state = "Connected"
       IN  /\ disconnect' = (disconnect \/ fire)
           /\ asked' = IF fire THEN driver ELSE asked
    /\ UNCHANGED <<pc, sessionVars, failures, cancel, session_cancel, wakeVars,
                   grace, previewVars, heldThroughout>>

(* The environment: clients of the wake lock, time, shutdown. *)

Acquire(c) ==
    /\ c \notin holders
    /\ holders' = holders \cup {c}
    /\ idle_since' = "None"
    /\ UNCHANGED <<pc, sessionVars, failures, cancel, session_cancel, disconnect,
                   release, grace, previewVars, wd, histVars>>

Release(c) ==
    /\ c \in holders
    /\ holders' = holders \ {c}
    /\ release' = (release \/ holders' = {})
    /\ idle_since' = IF holders' = {} THEN "recent" ELSE idle_since
    /\ heldThroughout' = (heldThroughout /\ holders' # {})
    /\ UNCHANGED <<pc, sessionVars, failures, cancel, session_cancel, disconnect,
                   grace, previewVars, wd, asked>>

IdleAges ==
    /\ idle_since = "recent"
    /\ idle_since' = "aged"
    /\ UNCHANGED <<pc, sessionVars, failures, cancel, session_cancel, disconnect,
                   holders, release, grace, previewVars, wd, histVars>>

Shutdown ==
    /\ ~cancel
    /\ cancel' = TRUE
    /\ UNCHANGED <<pc, sessionVars, failures, session_cancel, disconnect,
                   wakeVars, grace, previewVars, wd, histVars>>

-----------------------------------------------------------------------------

\* Steps of the run loop that end by themselves or by a timeout of the code.
RunBounded ==
    \/ Cancelled \/ TopConnect \/ TopPark \/ Woken
    \/ ConnectOk \/ (\E auth \in BOOLEAN : ConnectFailed(auth))
    \/ ProbeStart \/ (\E ok \in BOOLEAN : ProbeResult(ok))
    \/ SessionCancelled \/ DisconnectRequested \/ SessionEnded
    \/ (\E aborted \in BOOLEAN : Drained(aborted))
    \/ SourcesStopped \/ LoggedOut \/ SlotCleared \/ WentOffline
    \/ BackedOff \/ Finished

\* Steps that wait for MQTT to take a report, or for the camera to answer the
\* capability query: nothing in the code bounds these waits.
RunUnbounded == Started \/ Announced \/ TasksSpawned \/ SessionSpawned \/ Retired

GraceStep == GraceCheck \/ GraceNotified \/ GraceDeadline
AggStep == (\E bridging \in BOOLEAN : AggSample(bridging)) \/ AggWrite \/ AggExit
WatchdogStep == WatchdogSample \/ WatchdogDecide
Environment == (\E c \in Clients : Acquire(c) \/ Release(c)) \/ IdleAges \/ Shutdown

Next == RunBounded \/ RunUnbounded \/ GraceStep \/ AggStep \/ WatchdogStep
        \/ Environment

\* tokio polls a task whose await is ready; a select! that is ready on a signal
\* at every poll does not ignore it for ever; the aggregator's write follows its
\* sample without an await; the drain deadline fires, and an aborted task stops
\* at its next await.
Fairness ==
    /\ WF_vars(RunBounded)
    /\ SF_vars(SessionCancelled)
    /\ SF_vars(Cancelled)
    /\ SF_vars(Drained(TRUE))
    /\ WF_vars(GraceStep)
    /\ WF_vars(AggWrite)

SafetySpec == Init /\ [][Next]_vars
Spec == SafetySpec /\ Fairness

-----------------------------------------------------------------------------
(* Properties *)

\* The state of the camera handle, of its run loop and of its tasks is well
\* formed.
TypeOK ==
    /\ pc \in PC
    /\ state \in States
    /\ slot \in Nat
    /\ driver \in Nat
    /\ failures \in 0..MaxFailures
    /\ cancel \in BOOLEAN
    /\ session_cancel \in BOOLEAN
    /\ disconnect \in BOOLEAN
    /\ holders \in SUBSET Clients
    /\ release \in BOOLEAN
    /\ idle_since \in {"None", "recent", "aged"}
    /\ grace \in GracePC
    /\ preview \in Previews
    /\ agg \in AggPC
    /\ last_write \in Previews \cup {"None"}
    /\ wd \in {"idle", "sampled"}
    /\ asked \in Nat
    /\ heldThroughout \in BOOLEAN

\* Whoever finds a driver in the slot finds the current one, and a camera that
\* says Connected: no command is sent to a driver of an earlier session
\* (run_connected_session and teardown_session_tasks order the two writes).
DriverOnlyWhileConnected ==
    slot # NoDriver => state = "Connected" /\ slot = driver

\* The phases of a session in which its spawned tasks may run.
SessionPCs == {"spawn", "live", "probing", "ended", "drain"}

\* No session task outlives its session: once teardown has drained the task set
\* nothing of the old session can cancel, or caption, the next one.
TasksDieWithSession == pc \notin SessionPCs => grace = "off" /\ agg = "off"

\* A parked camera is captioned SLEEPING and a connecting one CONNECTING: no
\* late write of the old session's aggregator survives into these states.
CaptionMatchesPhase ==
    /\ pc = "parked" => preview = "Sleeping"
    /\ pc = "connecting" => preview = "Connecting"

\* A session whose lock is held from its first moment ends only on shutdown, on
\* MaxFailures failed probes in a row or on a watchdog request: never because of
\* the grace watcher, whatever release permits earlier sessions left behind.
HeldSessionEndsForCause ==
    [][pc' = "ended" /\ pc # "ended" /\ heldThroughout
          => cancel \/ disconnect \/ failures' = MaxFailures]_vars

\* After shutdown the run loop finishes, unless it waits for MQTT to take a
\* report or for the camera to answer the capability query.
CancelStops ==
    cancel ~> pc \in {"done", "start", "announce", "probe", "spawn", "retire"}

\* A battery camera that nobody wants any more goes to sleep: if the wake lock
\* stays idle the camera does not stay connected (unless the capability query
\* or a report is stuck), so no release is lost between the lock, the grace
\* watcher and the session's end.
IdleCameraSleeps ==
    IdleDisconnect /\ <>[]Idle
        => <>[](state # "Connected" \/ pc \in {"announce", "probe", "spawn"})

\* A camera that stays wanted is not left parked.
WantedCameraLeavesPark == <>[](~Idle) => <>[](pc # "parked")

\* What the order of run, teardown and drain keeps: a driver in the slot is the current
\* session's, no session task outlives its session, and the caption follows the loop.
CameraSafety == TypeOK /\ DriverOnlyWhileConnected /\ TasksDieWithSession /\ CaptionMatchesPhase

\* What the run loop owes its users: it stops on shutdown, sleeps when nobody wants the
\* camera, and wakes when somebody does.
CameraProgress == CancelStops /\ IdleCameraSleeps /\ WantedCameraLeavesPark

\* What a session looks like to the rest of the program: CameraSession.
phase ==
    CASE pc = "announce" -> "opening"
      [] pc \in SessionPCs \cup {"probe", "stopSources"} -> "open"
      [] pc \in {"logout", "clear"} -> "emptied"
      [] pc = "offline" -> "cleared"
      [] OTHER -> "none"

Session == INSTANCE CameraSession

\* The run loop implements CameraSession: for readers of the state, the driver
\* slot and the stream registry a session opens and closes in that order.
SessionSpec == Session!Spec

(* What the repository's comments and documents say and TLC refutes (README, 3). *)

\* docs/architecture.md: "Cancelling the global token shuts down everything."
CancelShutsDown == cancel ~> pc = "done"

\* src/watchdog.rs: "only fire when the camera has been wake-lock-idle for longer
\* than its grace period": a request made of one session does not end a later
\* one that has been held from its first moment.
RequestEndsItsOwnSession ==
    [][disconnect /\ ~disconnect'
          => ~heldThroughout \/ asked = driver]_vars

\* src/camera.rs, after keepalive_loop: "Close the PreviewState gap: the Live arm
\* is over."
PreviewGapClosed == pc = "backoff" => preview # "Live"
=============================================================================
