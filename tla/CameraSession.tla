---------------------------- MODULE CameraSession ----------------------------
(***************************************************************************)
(* What the run loop of a camera shows the rest of the program: the        *)
(* connection state, the driver slot, and the order in which a session     *)
(* opens, empties the stream registry and closes.  CameraLifecycle         *)
(* implements this specification; StreamRegistry is built on it.           *)
(***************************************************************************)
EXTENDS Integers

CONSTANT MaxSessions  \* bound on the number of successful connects

VARIABLES
    state,   \* CameraHandle.state
    slot,    \* CameraHandle.camera: the driver's number, NoDriver for None
    driver,  \* number of drivers connected so far
    phase    \* how far the current session is

vars == <<state, slot, driver, phase>>

NoDriver == 0
States == {"Disconnected", "Connecting", "Connected"}
Phases == {"none", "opening", "open", "emptied", "cleared"}

Init ==
    /\ state = "Disconnected"
    /\ slot = NoDriver
    /\ driver = 0
    /\ phase = "none"

BeginConnect ==
    /\ state = "Disconnected" /\ phase = "none"
    /\ state' = "Connecting"
    /\ UNCHANGED <<slot, driver, phase>>

\* The attempt failed, timed out or was cancelled.
FailConnect ==
    /\ state = "Connecting"
    /\ state' = "Disconnected"
    /\ UNCHANGED <<slot, driver, phase>>

\* Connected is visible before the driver is.
Open ==
    /\ state = "Connecting"
    /\ driver < MaxSessions
    /\ state' = "Connected"
    /\ driver' = driver + 1
    /\ phase' = "opening"
    /\ UNCHANGED slot

PublishDriver ==
    /\ phase = "opening"
    /\ slot' = driver
    /\ phase' = "open"
    /\ UNCHANGED <<state, driver>>

\* stop_all_stream_sources: the registry is emptied while the camera still
\* looks connected; the logout follows.
EmptyRegistry ==
    /\ phase = "open"
    /\ phase' = "emptied"
    /\ UNCHANGED <<state, slot, driver>>

ClearSlot ==
    /\ phase = "emptied"
    /\ slot' = NoDriver
    /\ phase' = "cleared"
    /\ UNCHANGED <<state, driver>>

GoOffline ==
    /\ phase = "cleared"
    /\ state' = "Disconnected"
    /\ phase' = "none"
    /\ UNCHANGED <<slot, driver>>

Next == BeginConnect \/ FailConnect \/ Open \/ PublishDriver \/ EmptyRegistry
        \/ ClearSlot \/ GoOffline

Spec == Init /\ [][Next]_vars
=============================================================================
