------------------------ MODULE CameraLifecycleProofs ------------------------
(***************************************************************************)
(* Proofs about CameraLifecycle, for every set of clients, every number of *)
(* sessions and of tolerated probe failures, battery camera or not.        *)
(*                                                                         *)
(* The inductive invariant ties what the rest of the program reads (state, *)
(* slot, preview, the tasks) to the position of the run loop.              *)
(***************************************************************************)
EXTENDS CameraLifecycle, TLAPS

\* The phases in which the driver is in the slot.
Published == SessionPCs \cup {"probe", "stopSources", "logout", "clear"}

\* state and slot are functions of the run loop's position, but for a loop that
\* was left in the middle of a connect.
PhaseShape ==
    /\ pc \in Published \cup {"announce", "offline"} => state = "Connected"
    /\ pc = "connecting" => state = "Connecting"
    /\ pc \in {"start", "top", "parked", "retire", "backoff", "done"}
           => state = "Disconnected"
    /\ pc = "exit" => state # "Connected"
    /\ pc \in Published => slot = driver
    /\ pc \notin Published => slot = NoDriver

\* A running keepalive loop has not yet counted MaxFailures failures.
FailuresBelowLimit == pc \in {"live", "probing"} => failures < MaxFailures

\* The grace watcher has not cancelled a session that was held all along.
HeldNotCancelled ==
    /\ heldThroughout => ~Idle
    /\ heldThroughout /\ pc \in {"spawn", "live", "probing"} => ~session_cancel

IndInv ==
    /\ TypeOK
    /\ PhaseShape
    /\ FailuresBelowLimit
    /\ TasksDieWithSession
    /\ CaptionMatchesPhase
    /\ HeldNotCancelled

\* The initial state satisfies the invariant.
LEMMA InitInv == Init => IndInv
<1> SUFFICES ASSUME Init PROVE IndInv
    OBVIOUS
<1> USE DEF Init
<1>1. pc \in PC /\ state \in States
    BY DEF PC, States
<1>2. failures \in 0..MaxFailures
    BY ConfigAssumption
<1>3. slot \in Nat /\ driver \in Nat /\ asked \in Nat
    BY DEF NoDriver
<1>4. /\ cancel \in BOOLEAN /\ session_cancel \in BOOLEAN /\ disconnect \in BOOLEAN
      /\ release \in BOOLEAN /\ heldThroughout \in BOOLEAN
    OBVIOUS
<1>5. holders \in SUBSET Clients /\ idle_since \in {"None", "recent", "aged"}
    OBVIOUS
<1>6. grace \in GracePC /\ preview \in Previews /\ agg \in AggPC
    BY DEF GracePC, AggPC, Previews
<1>7. last_write \in Previews \cup {"None"} /\ wd \in {"idle", "sampled"}
    OBVIOUS
<1>8. TypeOK
    BY <1>1, <1>2, <1>3, <1>4, <1>5, <1>6, <1>7, Zenon DEF TypeOK
<1>9. PhaseShape /\ FailuresBelowLimit /\ TasksDieWithSession /\ CaptionMatchesPhase
    BY DEF PhaseShape, FailuresBelowLimit, TasksDieWithSession, CaptionMatchesPhase,
           Published, SessionPCs, NoDriver
<1> QED
    BY <1>8, <1>9 DEF IndInv, HeldNotCancelled

\* Every step of the run loop keeps the invariant.
LEMMA RunInv ==
    ASSUME IndInv, RunBounded \/ RunUnbounded PROVE IndInv'
<1> USE DEF IndInv, PhaseShape, TasksDieWithSession, Published, SessionPCs,
            NoDriver, wakeVars, sessionVars, previewVars, histVars
<1>1. ASSUME Started PROVE IndInv'
  <2>1. TypeOK'
      BY <1>1, ConfigAssumption DEF TypeOK, Started, FailuresBelowLimit, PC,
         States, Previews, GracePC, AggPC, Idle
  <2>2. PhaseShape' /\ TasksDieWithSession' /\ CaptionMatchesPhase'
      BY <1>1 DEF TypeOK, Started, CaptionMatchesPhase, Idle
  <2>3. FailuresBelowLimit' /\ HeldNotCancelled'
      BY <1>1, ConfigAssumption DEF TypeOK, Started, FailuresBelowLimit,
         HeldNotCancelled, Idle
  <2> QED
      BY <2>1, <2>2, <2>3
<1>2. ASSUME Cancelled PROVE IndInv'
  <2>1. TypeOK'
      BY <1>2, ConfigAssumption DEF TypeOK, Cancelled, LeaveLoop,
         FailuresBelowLimit, PC, States, Previews, GracePC, AggPC, Idle
  <2>2. PhaseShape' /\ TasksDieWithSession' /\ CaptionMatchesPhase'
      BY <1>2 DEF TypeOK, Cancelled, LeaveLoop, CaptionMatchesPhase, Idle
  <2>3. FailuresBelowLimit' /\ HeldNotCancelled'
      BY <1>2, ConfigAssumption DEF TypeOK, Cancelled, LeaveLoop,
         FailuresBelowLimit, HeldNotCancelled, Idle
  <2> QED
      BY <2>1, <2>2, <2>3
<1>3. ASSUME TopConnect PROVE IndInv'
  <2>1. TypeOK'
      BY <1>3, ConfigAssumption DEF TypeOK, TopConnect, StartConnect,
         FailuresBelowLimit, PC, States, Previews, GracePC, AggPC, Idle
  <2>2. PhaseShape' /\ TasksDieWithSession' /\ CaptionMatchesPhase'
      BY <1>3 DEF TypeOK, TopConnect, StartConnect, CaptionMatchesPhase, Idle
  <2>3. FailuresBelowLimit' /\ HeldNotCancelled'
      BY <1>3, ConfigAssumption DEF TypeOK, TopConnect, StartConnect,
         FailuresBelowLimit, HeldNotCancelled, Idle
  <2> QED
      BY <2>1, <2>2, <2>3
<1>4. ASSUME TopPark PROVE IndInv'
  <2>1. TypeOK'
      BY <1>4, ConfigAssumption DEF TypeOK, TopPark, FailuresBelowLimit, PC,
         States, Previews, GracePC, AggPC, Idle
  <2>2. PhaseShape' /\ TasksDieWithSession' /\ CaptionMatchesPhase'
      BY <1>4 DEF TypeOK, TopPark, CaptionMatchesPhase, Idle
  <2>3. FailuresBelowLimit' /\ HeldNotCancelled'
      BY <1>4, ConfigAssumption DEF TypeOK, TopPark, FailuresBelowLimit,
         HeldNotCancelled, Idle
  <2> QED
      BY <2>1, <2>2, <2>3
<1>5. ASSUME Woken PROVE IndInv'
  <2>1. TypeOK'
      BY <1>5, ConfigAssumption DEF TypeOK, Woken, StartConnect,
         FailuresBelowLimit, PC, States, Previews, GracePC, AggPC, Idle
  <2>2. PhaseShape' /\ TasksDieWithSession' /\ CaptionMatchesPhase'
      BY <1>5 DEF TypeOK, Woken, StartConnect, CaptionMatchesPhase, Idle
  <2>3. FailuresBelowLimit' /\ HeldNotCancelled'
      BY <1>5, ConfigAssumption DEF TypeOK, Woken, StartConnect,
         FailuresBelowLimit, HeldNotCancelled, Idle
  <2> QED
      BY <2>1, <2>2, <2>3
<1>6. ASSUME ConnectOk PROVE IndInv'
  <2>1. TypeOK'
      BY <1>6, ConfigAssumption DEF TypeOK, ConnectOk, FailuresBelowLimit, PC,
         States, Previews, GracePC, AggPC, Idle
  <2>2. PhaseShape' /\ TasksDieWithSession' /\ CaptionMatchesPhase'
      BY <1>6 DEF TypeOK, ConnectOk, CaptionMatchesPhase, Idle
  <2>3. FailuresBelowLimit' /\ HeldNotCancelled'
      BY <1>6, ConfigAssumption DEF TypeOK, ConnectOk, FailuresBelowLimit,
         HeldNotCancelled, Idle
  <2> QED
      BY <2>1, <2>2, <2>3
<1>7. ASSUME NEW auth \in BOOLEAN, ConnectFailed(auth) PROVE IndInv'
  <2>1. TypeOK'
      BY <1>7, ConfigAssumption DEF TypeOK, ConnectFailed, FailuresBelowLimit,
         PC, States, Previews, GracePC, AggPC, Idle
  <2>2. PhaseShape' /\ TasksDieWithSession' /\ CaptionMatchesPhase'
      BY <1>7 DEF TypeOK, ConnectFailed, CaptionMatchesPhase, Idle
  <2>3. FailuresBelowLimit' /\ HeldNotCancelled'
      BY <1>7, ConfigAssumption DEF TypeOK, ConnectFailed, FailuresBelowLimit,
         HeldNotCancelled, Idle
  <2> QED
      BY <2>1, <2>2, <2>3
<1>8. ASSUME Announced PROVE IndInv'
  <2>1. TypeOK'
      BY <1>8, ConfigAssumption DEF TypeOK, Announced, FailuresBelowLimit, PC,
         States, Previews, GracePC, AggPC, Idle
  <2>2. PhaseShape' /\ TasksDieWithSession' /\ CaptionMatchesPhase'
      BY <1>8 DEF TypeOK, Announced, CaptionMatchesPhase, Idle
  <2>3. FailuresBelowLimit' /\ HeldNotCancelled'
      BY <1>8, ConfigAssumption DEF TypeOK, Announced, FailuresBelowLimit,
         HeldNotCancelled, Idle
  <2> QED
      BY <2>1, <2>2, <2>3
<1>9. ASSUME TasksSpawned \/ SessionSpawned PROVE IndInv'
  <2> USE <1>9 DEF TasksSpawned, SessionSpawned
  <2>1. session_cancel' \in BOOLEAN
    <3>1. CASE TasksSpawned
      <4>1. session_cancel' = FALSE
          BY <3>1
      <4> QED
          BY ONLY <4>1, Zenon
    <3>2. CASE SessionSpawned
        BY <3>2 DEF TypeOK
    <3> QED
        BY <3>1, <3>2
  <2>2. TypeOK'
      BY <2>1, ConfigAssumption DEF TypeOK, FailuresBelowLimit, PC, States,
         Previews, GracePC, AggPC, Idle
  <2>3. PhaseShape' /\ TasksDieWithSession' /\ CaptionMatchesPhase'
      BY DEF TypeOK, CaptionMatchesPhase, Idle
  <2>4. FailuresBelowLimit' /\ HeldNotCancelled'
      BY ConfigAssumption DEF TypeOK, FailuresBelowLimit, HeldNotCancelled, Idle
  <2> QED
      BY <2>2, <2>3, <2>4
<1>10. ASSUME ProbeStart PROVE IndInv'
  <2>1. TypeOK'
      BY <1>10, ConfigAssumption DEF TypeOK, ProbeStart, FailuresBelowLimit, PC,
         States, Previews, GracePC, AggPC, Idle
  <2>2. PhaseShape' /\ TasksDieWithSession' /\ CaptionMatchesPhase'
      BY <1>10 DEF TypeOK, ProbeStart, CaptionMatchesPhase, Idle
  <2>3. FailuresBelowLimit' /\ HeldNotCancelled'
      BY <1>10, ConfigAssumption DEF TypeOK, ProbeStart, FailuresBelowLimit,
         HeldNotCancelled, Idle
  <2> QED
      BY <2>1, <2>2, <2>3
<1>11. ASSUME NEW ok \in BOOLEAN, ProbeResult(ok) PROVE IndInv'
  <2>1. TypeOK'
      BY <1>11, ConfigAssumption DEF TypeOK, ProbeResult,
         advance_keepalive_counter, FailuresBelowLimit, PC, States, Previews,
         GracePC, AggPC, Idle
  <2>2. PhaseShape' /\ TasksDieWithSession' /\ CaptionMatchesPhase'
      BY <1>11 DEF TypeOK, ProbeResult, advance_keepalive_counter,
         CaptionMatchesPhase, Idle
  <2>3. FailuresBelowLimit' /\ HeldNotCancelled'
      BY <1>11, ConfigAssumption DEF TypeOK, ProbeResult,
         advance_keepalive_counter, FailuresBelowLimit, HeldNotCancelled, Idle
  <2> QED
      BY <2>1, <2>2, <2>3
<1>12. ASSUME SessionCancelled PROVE IndInv'
  <2>1. TypeOK'
      BY <1>12, ConfigAssumption DEF TypeOK, SessionCancelled,
         FailuresBelowLimit, PC, States, Previews, GracePC, AggPC, Idle
  <2>2. PhaseShape' /\ TasksDieWithSession' /\ CaptionMatchesPhase'
      BY <1>12 DEF TypeOK, SessionCancelled, CaptionMatchesPhase, Idle
  <2>3. FailuresBelowLimit' /\ HeldNotCancelled'
      BY <1>12, ConfigAssumption DEF TypeOK, SessionCancelled,
         FailuresBelowLimit, HeldNotCancelled, Idle
  <2> QED
      BY <2>1, <2>2, <2>3
<1>13. ASSUME DisconnectRequested PROVE IndInv'
  <2>1. disconnect' \in BOOLEAN
      BY <1>13, Zenon DEF DisconnectRequested
  <2>2. TypeOK'
      BY <1>13, <2>1, ConfigAssumption DEF TypeOK, DisconnectRequested,
         FailuresBelowLimit, PC, States, Previews, GracePC, AggPC, Idle
  <2>3. PhaseShape' /\ TasksDieWithSession' /\ CaptionMatchesPhase'
      BY <1>13 DEF TypeOK, DisconnectRequested, CaptionMatchesPhase, Idle
  <2>4. FailuresBelowLimit' /\ HeldNotCancelled'
      BY <1>13, ConfigAssumption DEF TypeOK, DisconnectRequested,
         FailuresBelowLimit, HeldNotCancelled, Idle
  <2> QED
      BY <2>2, <2>3, <2>4
<1>14. ASSUME SessionEnded PROVE IndInv'
  <2>1. TypeOK'
      BY <1>14, ConfigAssumption DEF TypeOK, SessionEnded,
         post_keepalive_preview_state, FailuresBelowLimit, PC, States, Previews,
         GracePC, AggPC, Idle
  <2>2. PhaseShape' /\ TasksDieWithSession' /\ CaptionMatchesPhase'
      BY <1>14 DEF TypeOK, SessionEnded, post_keepalive_preview_state,
         CaptionMatchesPhase, Idle
  <2>3. FailuresBelowLimit' /\ HeldNotCancelled'
      BY <1>14, ConfigAssumption DEF TypeOK, SessionEnded,
         post_keepalive_preview_state, FailuresBelowLimit, HeldNotCancelled,
         Idle
  <2> QED
      BY <2>1, <2>2, <2>3
<1>15. ASSUME NEW aborted \in BOOLEAN, Drained(aborted) PROVE IndInv'
  <2>1. TypeOK'
      BY <1>15, ConfigAssumption DEF TypeOK, Drained, FailuresBelowLimit, PC,
         States, Previews, GracePC, AggPC, Idle
  <2>2. PhaseShape' /\ TasksDieWithSession' /\ CaptionMatchesPhase'
      BY <1>15 DEF TypeOK, Drained, CaptionMatchesPhase, Idle
  <2>3. FailuresBelowLimit' /\ HeldNotCancelled'
      BY <1>15, ConfigAssumption DEF TypeOK, Drained, FailuresBelowLimit,
         HeldNotCancelled, Idle
  <2> QED
      BY <2>1, <2>2, <2>3
<1>16. ASSUME SourcesStopped PROVE IndInv'
  <2>1. TypeOK'
      BY <1>16, ConfigAssumption DEF TypeOK, SourcesStopped, FailuresBelowLimit,
         PC, States, Previews, GracePC, AggPC, Idle
  <2>2. PhaseShape' /\ TasksDieWithSession' /\ CaptionMatchesPhase'
      BY <1>16 DEF TypeOK, SourcesStopped, CaptionMatchesPhase, Idle
  <2>3. FailuresBelowLimit' /\ HeldNotCancelled'
      BY <1>16, ConfigAssumption DEF TypeOK, SourcesStopped, FailuresBelowLimit,
         HeldNotCancelled, Idle
  <2> QED
      BY <2>1, <2>2, <2>3
<1>17. ASSUME LoggedOut PROVE IndInv'
  <2>1. TypeOK'
      BY <1>17, ConfigAssumption DEF TypeOK, LoggedOut, FailuresBelowLimit, PC,
         States, Previews, GracePC, AggPC, Idle
  <2>2. PhaseShape' /\ TasksDieWithSession' /\ CaptionMatchesPhase'
      BY <1>17 DEF TypeOK, LoggedOut, CaptionMatchesPhase, Idle
  <2>3. FailuresBelowLimit' /\ HeldNotCancelled'
      BY <1>17, ConfigAssumption DEF TypeOK, LoggedOut, FailuresBelowLimit,
         HeldNotCancelled, Idle
  <2> QED
      BY <2>1, <2>2, <2>3
<1>18. ASSUME SlotCleared PROVE IndInv'
  <2>1. TypeOK'
      BY <1>18, ConfigAssumption DEF TypeOK, SlotCleared, FailuresBelowLimit,
         PC, States, Previews, GracePC, AggPC, Idle
  <2>2. PhaseShape' /\ TasksDieWithSession' /\ CaptionMatchesPhase'
      BY <1>18 DEF TypeOK, SlotCleared, CaptionMatchesPhase, Idle
  <2>3. FailuresBelowLimit' /\ HeldNotCancelled'
      BY <1>18, ConfigAssumption DEF TypeOK, SlotCleared, FailuresBelowLimit,
         HeldNotCancelled, Idle
  <2> QED
      BY <2>1, <2>2, <2>3
<1>19. ASSUME WentOffline PROVE IndInv'
  <2>1. TypeOK'
      BY <1>19, ConfigAssumption DEF TypeOK, WentOffline, FailuresBelowLimit,
         PC, States, Previews, GracePC, AggPC, Idle
  <2>2. PhaseShape' /\ TasksDieWithSession' /\ CaptionMatchesPhase'
      BY <1>19 DEF TypeOK, WentOffline, CaptionMatchesPhase, Idle
  <2>3. FailuresBelowLimit' /\ HeldNotCancelled'
      BY <1>19, ConfigAssumption DEF TypeOK, WentOffline, FailuresBelowLimit,
         HeldNotCancelled, Idle
  <2> QED
      BY <2>1, <2>2, <2>3
<1>20. ASSUME Retired PROVE IndInv'
  <2>1. TypeOK'
      BY <1>20, ConfigAssumption DEF TypeOK, Retired, FailuresBelowLimit, PC,
         States, Previews, GracePC, AggPC, Idle
  <2>2. PhaseShape' /\ TasksDieWithSession' /\ CaptionMatchesPhase'
      BY <1>20 DEF TypeOK, Retired, CaptionMatchesPhase, Idle
  <2>3. FailuresBelowLimit' /\ HeldNotCancelled'
      BY <1>20, ConfigAssumption DEF TypeOK, Retired, FailuresBelowLimit,
         HeldNotCancelled, Idle
  <2> QED
      BY <2>1, <2>2, <2>3
<1>21. ASSUME BackedOff PROVE IndInv'
  <2>1. TypeOK'
      BY <1>21, ConfigAssumption DEF TypeOK, BackedOff, FailuresBelowLimit, PC,
         States, Previews, GracePC, AggPC, Idle
  <2>2. PhaseShape' /\ TasksDieWithSession' /\ CaptionMatchesPhase'
      BY <1>21 DEF TypeOK, BackedOff, CaptionMatchesPhase, Idle
  <2>3. FailuresBelowLimit' /\ HeldNotCancelled'
      BY <1>21, ConfigAssumption DEF TypeOK, BackedOff, FailuresBelowLimit,
         HeldNotCancelled, Idle
  <2> QED
      BY <2>1, <2>2, <2>3
<1>22. ASSUME Finished PROVE IndInv'
  <2>1. TypeOK'
      BY <1>22, ConfigAssumption DEF TypeOK, Finished, FailuresBelowLimit, PC,
         States, Previews, GracePC, AggPC, Idle
  <2>2. PhaseShape' /\ TasksDieWithSession' /\ CaptionMatchesPhase'
      BY <1>22 DEF TypeOK, Finished, CaptionMatchesPhase, Idle
  <2>3. FailuresBelowLimit' /\ HeldNotCancelled'
      BY <1>22, ConfigAssumption DEF TypeOK, Finished, FailuresBelowLimit,
         HeldNotCancelled, Idle
  <2> QED
      BY <2>1, <2>2, <2>3
<1> QED
    BY <1>1, <1>2, <1>3, <1>4, <1>5, <1>6, <1>7, <1>8, <1>9, <1>10, <1>11,
       <1>12, <1>13, <1>14, <1>15, <1>16, <1>17, <1>18, <1>19, <1>20, <1>21,
       <1>22 DEF RunBounded, RunUnbounded

\* Every step of another task, or of the environment, keeps the invariant.
LEMMA OtherInv ==
    ASSUME IndInv, GraceStep \/ AggStep \/ WatchdogStep \/ Environment
    PROVE  IndInv'
<1> USE DEF IndInv, PhaseShape, TasksDieWithSession, Published, SessionPCs,
            NoDriver, wakeVars, sessionVars, previewVars, histVars
<1>1. ASSUME GraceCheck PROVE IndInv'
  <2>1. TypeOK'
      BY <1>1, ConfigAssumption DEF TypeOK, GraceCheck, FailuresBelowLimit, PC,
         States, Previews, GracePC, AggPC, Idle
  <2>2. PhaseShape' /\ TasksDieWithSession' /\ CaptionMatchesPhase'
      BY <1>1 DEF TypeOK, GraceCheck, CaptionMatchesPhase, Idle
  <2>3. FailuresBelowLimit' /\ HeldNotCancelled'
      BY <1>1, ConfigAssumption DEF TypeOK, GraceCheck, FailuresBelowLimit,
         HeldNotCancelled, Idle
  <2> QED
      BY <2>1, <2>2, <2>3
<1>2. ASSUME GraceNotified PROVE IndInv'
  <2>1. release' \in BOOLEAN
      BY <1>2, Zenon DEF GraceNotified
  <2>2. TypeOK'
      BY <1>2, <2>1, ConfigAssumption DEF TypeOK, GraceNotified,
         FailuresBelowLimit, PC, States, Previews, GracePC, AggPC, Idle
  <2>3. PhaseShape' /\ TasksDieWithSession' /\ CaptionMatchesPhase'
      BY <1>2 DEF TypeOK, GraceNotified, CaptionMatchesPhase, Idle
  <2>4. FailuresBelowLimit' /\ HeldNotCancelled'
      BY <1>2, ConfigAssumption DEF TypeOK, GraceNotified, FailuresBelowLimit,
         HeldNotCancelled, Idle
  <2> QED
      BY <2>2, <2>3, <2>4
<1>3. ASSUME GraceDeadline PROVE IndInv'
  <2>1. TypeOK'
      BY <1>3, ConfigAssumption DEF TypeOK, GraceDeadline, FailuresBelowLimit,
         PC, States, Previews, GracePC, AggPC, Idle
  <2>2. PhaseShape' /\ TasksDieWithSession' /\ CaptionMatchesPhase'
      BY <1>3 DEF TypeOK, GraceDeadline, CaptionMatchesPhase, Idle
  <2>3. FailuresBelowLimit' /\ HeldNotCancelled'
      BY <1>3, ConfigAssumption DEF TypeOK, GraceDeadline, FailuresBelowLimit,
         HeldNotCancelled, Idle
  <2> QED
      BY <2>1, <2>2, <2>3
<1>4. ASSUME NEW bridging \in BOOLEAN, AggSample(bridging) PROVE IndInv'
  <2>1. TypeOK'
      BY <1>4, ConfigAssumption DEF TypeOK, AggSample, aggregate_preview_state,
         FailuresBelowLimit, PC, States, Previews, GracePC, AggPC, Idle
  <2>2. PhaseShape' /\ TasksDieWithSession' /\ CaptionMatchesPhase'
      BY <1>4 DEF TypeOK, AggSample, aggregate_preview_state,
         CaptionMatchesPhase, Idle
  <2>3. FailuresBelowLimit' /\ HeldNotCancelled'
      BY <1>4, ConfigAssumption DEF TypeOK, AggSample, aggregate_preview_state,
         FailuresBelowLimit, HeldNotCancelled, Idle
  <2> QED
      BY <2>1, <2>2, <2>3
<1>5. ASSUME AggWrite PROVE IndInv'
  <2>1. TypeOK'
      BY <1>5, ConfigAssumption DEF TypeOK, AggWrite, FailuresBelowLimit, PC,
         States, Previews, GracePC, AggPC, Idle
  <2>2. PhaseShape' /\ TasksDieWithSession' /\ CaptionMatchesPhase'
      BY <1>5 DEF TypeOK, AggWrite, CaptionMatchesPhase, Idle, Previews
  <2>3. FailuresBelowLimit' /\ HeldNotCancelled'
      BY <1>5, ConfigAssumption DEF TypeOK, AggWrite, FailuresBelowLimit,
         HeldNotCancelled, Idle
  <2> QED
      BY <2>1, <2>2, <2>3
<1>6. ASSUME AggExit PROVE IndInv'
  <2>1. TypeOK'
      BY <1>6, ConfigAssumption DEF TypeOK, AggExit, FailuresBelowLimit, PC,
         States, Previews, GracePC, AggPC, Idle
  <2>2. PhaseShape' /\ TasksDieWithSession' /\ CaptionMatchesPhase'
      BY <1>6 DEF TypeOK, AggExit, CaptionMatchesPhase, Idle
  <2>3. FailuresBelowLimit' /\ HeldNotCancelled'
      BY <1>6, ConfigAssumption DEF TypeOK, AggExit, FailuresBelowLimit,
         HeldNotCancelled, Idle
  <2> QED
      BY <2>1, <2>2, <2>3
<1>7. ASSUME WatchdogSample PROVE IndInv'
  <2>1. TypeOK'
      BY <1>7, ConfigAssumption DEF TypeOK, WatchdogSample, FailuresBelowLimit,
         PC, States, Previews, GracePC, AggPC, Idle
  <2>2. PhaseShape' /\ TasksDieWithSession' /\ CaptionMatchesPhase'
      BY <1>7 DEF TypeOK, WatchdogSample, CaptionMatchesPhase, Idle
  <2>3. FailuresBelowLimit' /\ HeldNotCancelled'
      BY <1>7, ConfigAssumption DEF TypeOK, WatchdogSample, FailuresBelowLimit,
         HeldNotCancelled, Idle
  <2> QED
      BY <2>1, <2>2, <2>3
<1>8. ASSUME WatchdogDecide PROVE IndInv'
  <2>1. TypeOK'
      BY <1>8, ConfigAssumption DEF TypeOK, WatchdogDecide, FailuresBelowLimit,
         PC, States, Previews, GracePC, AggPC, Idle
  <2>2. PhaseShape' /\ TasksDieWithSession' /\ CaptionMatchesPhase'
      BY <1>8 DEF TypeOK, WatchdogDecide, CaptionMatchesPhase, Idle
  <2>3. FailuresBelowLimit' /\ HeldNotCancelled'
      BY <1>8, ConfigAssumption DEF TypeOK, WatchdogDecide, FailuresBelowLimit,
         HeldNotCancelled, Idle
  <2> QED
      BY <2>1, <2>2, <2>3
<1>9. ASSUME NEW c \in Clients, Acquire(c) PROVE IndInv'
  <2>1. TypeOK'
      BY <1>9, ConfigAssumption DEF TypeOK, Acquire, FailuresBelowLimit, PC,
         States, Previews, GracePC, AggPC, Idle
  <2>2. PhaseShape' /\ TasksDieWithSession' /\ CaptionMatchesPhase'
      BY <1>9 DEF TypeOK, Acquire, CaptionMatchesPhase, Idle
  <2>3. FailuresBelowLimit' /\ HeldNotCancelled'
      BY <1>9, ConfigAssumption DEF TypeOK, Acquire, FailuresBelowLimit,
         HeldNotCancelled, Idle
  <2> QED
      BY <2>1, <2>2, <2>3
<1>10. ASSUME NEW c \in Clients, Release(c) PROVE IndInv'
  <2>1. TypeOK'
      BY <1>10, ConfigAssumption DEF TypeOK, Release, FailuresBelowLimit, PC,
         States, Previews, GracePC, AggPC, Idle
  <2>2. PhaseShape' /\ TasksDieWithSession' /\ CaptionMatchesPhase'
      BY <1>10 DEF TypeOK, Release, CaptionMatchesPhase, Idle
  <2>3. FailuresBelowLimit' /\ HeldNotCancelled'
      BY <1>10, ConfigAssumption DEF TypeOK, Release, FailuresBelowLimit,
         HeldNotCancelled, Idle
  <2> QED
      BY <2>1, <2>2, <2>3
<1>11. ASSUME IdleAges PROVE IndInv'
  <2>1. TypeOK'
      BY <1>11, ConfigAssumption DEF TypeOK, IdleAges, FailuresBelowLimit, PC,
         States, Previews, GracePC, AggPC, Idle
  <2>2. PhaseShape' /\ TasksDieWithSession' /\ CaptionMatchesPhase'
      BY <1>11 DEF TypeOK, IdleAges, CaptionMatchesPhase, Idle
  <2>3. FailuresBelowLimit' /\ HeldNotCancelled'
      BY <1>11, ConfigAssumption DEF TypeOK, IdleAges, FailuresBelowLimit,
         HeldNotCancelled, Idle
  <2> QED
      BY <2>1, <2>2, <2>3
<1>12. ASSUME Shutdown PROVE IndInv'
  <2>1. TypeOK'
      BY <1>12, ConfigAssumption DEF TypeOK, Shutdown, FailuresBelowLimit, PC,
         States, Previews, GracePC, AggPC, Idle
  <2>2. PhaseShape' /\ TasksDieWithSession' /\ CaptionMatchesPhase'
      BY <1>12 DEF TypeOK, Shutdown, CaptionMatchesPhase, Idle
  <2>3. FailuresBelowLimit' /\ HeldNotCancelled'
      BY <1>12, ConfigAssumption DEF TypeOK, Shutdown, FailuresBelowLimit,
         HeldNotCancelled, Idle
  <2> QED
      BY <2>1, <2>2, <2>3
<1> QED
    BY <1>1, <1>2, <1>3, <1>4, <1>5, <1>6, <1>7, <1>8, <1>9, <1>10, <1>11, <1>12
       DEF GraceStep, AggStep, WatchdogStep, Environment

\* The invariant is inductive.
LEMMA NextInv == IndInv /\ [Next]_vars => IndInv'
<1> SUFFICES ASSUME IndInv, [Next]_vars PROVE IndInv'
    OBVIOUS
<1>1. CASE UNCHANGED vars
    BY <1>1 DEF vars, IndInv, TypeOK, PhaseShape, FailuresBelowLimit,
                TasksDieWithSession, CaptionMatchesPhase, HeldNotCancelled, Idle
<1>2. CASE Next
    BY <1>2, RunInv, OtherInv DEF Next
<1> QED
    BY <1>1, <1>2

-----------------------------------------------------------------------------
(* Theorems *)

\* The inductive invariant holds in every reachable state.
THEOREM IndInvHolds == SafetySpec => []IndInv
BY InitInv, NextInv, PTL DEF SafetySpec

\* The camera handle and its tasks are always well formed.
THEOREM TypeCorrect == SafetySpec => []TypeOK
<1>1. IndInv => TypeOK
    BY DEF IndInv
<1> QED
    BY <1>1, IndInvHolds, PTL

\* A driver found in the slot is the current one, of a connected camera.
THEOREM SlotIsCurrent == SafetySpec => []DriverOnlyWhileConnected
<1>1. IndInv => DriverOnlyWhileConnected
    BY DEF IndInv, PhaseShape, DriverOnlyWhileConnected, Published
<1> QED
    BY <1>1, IndInvHolds, PTL

\* No session task outlives its session.
THEOREM TasksEnd == SafetySpec => []TasksDieWithSession
<1>1. IndInv => TasksDieWithSession
    BY DEF IndInv
<1> QED
    BY <1>1, IndInvHolds, PTL

\* A parked camera is captioned SLEEPING, a connecting one CONNECTING.
THEOREM CaptionIsRight == SafetySpec => []CaptionMatchesPhase
<1>1. IndInv => CaptionMatchesPhase
    BY DEF IndInv
<1> QED
    BY <1>1, IndInvHolds, PTL

\* A session held from its first moment ends only for cause: the grace watcher
\* of this or of an earlier session cannot end it.
THEOREM HeldSessionLasts == SafetySpec => HeldSessionEndsForCause
<1> DEFINE Cause == pc' = "ended" /\ pc # "ended" /\ heldThroughout
                       => cancel \/ disconnect \/ failures' = MaxFailures
<1>1. IndInv /\ [Next]_vars => Cause
  <2> SUFFICES ASSUME IndInv, Next, pc' = "ended", pc # "ended", heldThroughout
               PROVE  cancel \/ disconnect \/ failures' = MaxFailures
      BY DEF vars
  <2>1. CASE \E ok \in BOOLEAN : ProbeResult(ok)
      BY <2>1, ConfigAssumption
         DEF ProbeResult, advance_keepalive_counter, IndInv, TypeOK,
             FailuresBelowLimit
  <2>2. CASE SessionCancelled
      BY <2>2 DEF SessionCancelled, IndInv, HeldNotCancelled
  <2>3. CASE DisconnectRequested
      BY <2>3 DEF DisconnectRequested
  <2>4. ASSUME RunUnbounded PROVE FALSE
      BY <2>4 DEF RunUnbounded, Started, Announced, TasksSpawned, SessionSpawned, Retired
  <2>5. ASSUME \/ Cancelled \/ TopConnect \/ TopPark \/ Woken
               \/ ConnectOk \/ (\E auth \in BOOLEAN : ConnectFailed(auth))
               \/ ProbeStart \/ SessionEnded
               \/ (\E aborted \in BOOLEAN : Drained(aborted))
               \/ SourcesStopped \/ LoggedOut \/ SlotCleared \/ WentOffline
               \/ BackedOff \/ Finished
        PROVE  FALSE
      BY <2>5 DEF Cancelled, LeaveLoop, TopConnect, TopPark, Woken, StartConnect,
                  ConnectOk, ConnectFailed, ProbeStart, SessionEnded, Drained,
                  SourcesStopped, LoggedOut, SlotCleared, WentOffline, BackedOff,
                  Finished
  <2>6. ASSUME GraceStep \/ AggStep \/ WatchdogStep \/ Environment
        PROVE  FALSE
      BY <2>6 DEF GraceStep, GraceCheck, GraceNotified, GraceDeadline, AggStep,
                  AggSample, AggWrite, AggExit, WatchdogStep, WatchdogSample,
                  WatchdogDecide, Environment, Acquire, Release, IdleAges, Shutdown
  <2> QED
      BY <2>1, <2>2, <2>3, <2>4, <2>5, <2>6 DEF Next, RunBounded
<1> QED
    BY <1>1, IndInvHolds, PTL DEF SafetySpec, HeldSessionEndsForCause

-----------------------------------------------------------------------------
(* The run loop implements CameraSession. *)

\* Steps that change neither the camera's state, its slot nor its phase.
LEMMA StutterSteps ==
    ASSUME IndInv,
           \/ Started \/ Cancelled \/ TopPark \/ TasksSpawned \/ SessionSpawned \/ ProbeStart
           \/ (\E ok \in BOOLEAN : ProbeResult(ok))
           \/ SessionCancelled \/ DisconnectRequested \/ SessionEnded
           \/ (\E aborted \in BOOLEAN : Drained(aborted))
           \/ LoggedOut \/ Retired \/ BackedOff
           \/ GraceStep \/ AggStep \/ WatchdogStep \/ Environment
    PROVE  UNCHANGED Session!vars
<1> USE DEF Session!vars, phase, SessionPCs, sessionVars
<1>1. CASE \/ Started \/ Cancelled \/ TopPark \/ TasksSpawned \/ SessionSpawned \/ ProbeStart
           \/ (\E ok \in BOOLEAN : ProbeResult(ok))
    BY <1>1 DEF Started, Cancelled, LeaveLoop, TopPark, TasksSpawned, SessionSpawned,
                ProbeStart, ProbeResult
<1>2. CASE \/ SessionCancelled \/ DisconnectRequested \/ SessionEnded
           \/ (\E aborted \in BOOLEAN : Drained(aborted))
           \/ LoggedOut \/ Retired \/ BackedOff
    BY <1>2 DEF SessionCancelled, DisconnectRequested, SessionEnded, Drained,
                LoggedOut, Retired, BackedOff
<1>3. CASE GraceStep \/ AggStep \/ WatchdogStep \/ Environment
    BY <1>3 DEF GraceStep, GraceCheck, GraceNotified, GraceDeadline, AggStep,
                AggSample, AggWrite, AggExit, WatchdogStep, WatchdogSample,
                WatchdogDecide, Environment, Acquire, Release, IdleAges, Shutdown
<1> QED
    BY <1>1, <1>2, <1>3

\* The steps of the run loop that the rest of the program sees, each a step of
\* CameraSession.
LEMMA SessionSteps ==
    ASSUME IndInv,
           \/ TopConnect \/ Woken \/ ConnectOk
           \/ (\E auth \in BOOLEAN : ConnectFailed(auth))
           \/ Announced \/ SourcesStopped \/ SlotCleared \/ WentOffline \/ Finished
    PROVE  [Session!Next]_(Session!vars)
<1> USE DEF IndInv, PhaseShape, Published, SessionPCs, phase, sessionVars, NoDriver,
            Session!Next, Session!vars, Session!NoDriver
<1>1. CASE TopConnect \/ Woken
    BY <1>1 DEF TopConnect, Woken, StartConnect, Session!BeginConnect
<1>2. CASE ConnectOk
    BY <1>2 DEF ConnectOk, Session!Open
<1>3. CASE \E auth \in BOOLEAN : ConnectFailed(auth)
    BY <1>3 DEF ConnectFailed, Session!FailConnect
<1>4. CASE Announced
    BY <1>4 DEF Announced, Session!PublishDriver
<1>5. CASE SourcesStopped
    BY <1>5 DEF SourcesStopped, Session!EmptyRegistry
<1>6. CASE SlotCleared
    BY <1>6 DEF SlotCleared, Session!ClearSlot
<1>7. CASE WentOffline
    BY <1>7 DEF WentOffline, Session!GoOffline
<1>8. CASE Finished
    BY <1>8 DEF Finished, Session!FailConnect, TypeOK, States
<1> QED
    BY <1>1, <1>2, <1>3, <1>4, <1>5, <1>6, <1>7, <1>8

\* Readers of the state, the slot and the stream registry may rely on
\* CameraSession: every run of the camera is one of its behaviours.
THEOREM ImplementsSession == SafetySpec => SessionSpec
<1>1. Init => Session!Init
    BY DEF Init, Session!Init, phase, SessionPCs, NoDriver, Session!NoDriver
<1>2. IndInv /\ [Next]_vars => [Session!Next]_(Session!vars)
  <2> SUFFICES ASSUME IndInv, [Next]_vars PROVE [Session!Next]_(Session!vars)
      OBVIOUS
  <2>1. CASE UNCHANGED vars
      BY <2>1 DEF vars, Session!vars, phase
  <2>2. CASE Next
      BY <2>2, StutterSteps, SessionSteps DEF Next, RunBounded, RunUnbounded
  <2> QED
      BY <2>1, <2>2
<1> QED
    BY <1>1, <1>2, IndInvHolds, PTL DEF SafetySpec, SessionSpec, Session!Spec

\* What the run checks of the order of run, teardown and drain, for any clients, battery
\* camera or not, and any failure limit.
THEOREM SafetyHolds == SafetySpec => []CameraSafety
<1>1. TypeOK /\ DriverOnlyWhileConnected /\ TasksDieWithSession /\ CaptionMatchesPhase => CameraSafety
    BY DEF CameraSafety
<1> QED
    BY <1>1, TypeCorrect, SlotIsCurrent, TasksEnd, CaptionIsRight, PTL
=============================================================================
