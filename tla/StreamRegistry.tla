--------------------------- MODULE StreamRegistry ---------------------------
(***************************************************************************)
(* The stream sources of one camera: the callers of                        *)
(* CameraHandle::stream_source (RTSP subscriptions through                 *)
(* CameraProvider::subscribe, and the startup wake), the reader task of    *)
(* each StreamSource, the watchdog's prune sweep, and the teardown that    *)
(* empties the registry (stop_all_stream_sources).                         *)
(*                                                                         *)
(* The camera's session is the abstract one of CameraSession, which        *)
(* CameraLifecycle implements.  Every read of the camera's state, of its   *)
(* driver slot or of the registry is a step of its own, as no lock spans   *)
(* them; the create lock excludes other callers only.                      *)
(***************************************************************************)
EXTENDS Integers, FiniteSets

CONSTANTS
    Callers,      \* tasks that ask for a stream
    Kinds,        \* RtspStreamKind
    PruneAtOnce,  \* the prune grace is zero
    MaxSessions,  \* bound on the number of successful connects
    MaxSources    \* bound on the number of sources started

ASSUME RegistryAssumption ==
    /\ 0 \notin Callers /\ 0 \notin Kinds
    /\ PruneAtOnce \in BOOLEAN
    /\ MaxSessions \in Nat
    /\ MaxSources \in Nat

VARIABLES
    state, slot, driver, phase,  \* the camera's session, as in CameraSession
    cancel,    \* the camera's cancellation token
    over,      \* run has left its loop
    registry,  \* stream_sources: a source or None for each kind
    created,   \* number of sources started so far
    src,       \* the sources
    lock,      \* the holder of stream_source_create_lock, or None
    caller,    \* where each caller is
    kind,      \* the kind each caller asks for, or None
    got,       \* the source each caller was given, or None
    stopping,  \* drained sources stop_all_stream_sources has yet to see off
    waiting    \* the one it is waiting for, or None

sessionVars == <<state, slot, driver, phase>>
callerVars == <<caller, kind, got, lock>>
stopVars == <<stopping, waiting>>
vars == <<state, slot, driver, phase, cancel, over, registry, created, src,
          lock, caller, kind, got, stopping, waiting>>

Session == INSTANCE CameraSession

None == 0
Sources == 1..MaxSources
CallerPC == {"idle", "poll", "fast", "lock", "checked", "camera", "insert",
             "have", "subscribed"}
InFlight == CallerPC \ {"idle", "subscribed"}

\* A StreamSource: mark is last_idle_since, none, younger than the prune grace
\* or at least as old.
Source == [kind : Kinds, driver : Nat, cancelled : BOOLEAN,
           reader : {"start", "stream", "stop", "gone"}, ready : BOOLEAN,
           mark : {"none", "young", "expired"}]

Live == 1..created
Registered(s) == registry[src[s].kind] = s
Subscribers(s) == {c \in Callers : caller[c] = "subscribed" /\ got[c] = s}

Init ==
    /\ Session!Init
    /\ cancel = FALSE
    /\ over = FALSE
    /\ registry = [k \in Kinds |-> None]
    /\ created = 0
    /\ src = [s \in {} |-> None]
    /\ lock = None
    /\ caller = [c \in Callers |-> "idle"]
    /\ kind = [c \in Callers |-> None]
    /\ got = [c \in Callers |-> None]
    /\ stopping = {}
    /\ waiting = None

-----------------------------------------------------------------------------
(* stream_source, and the rest of CameraProvider::subscribe. *)

\* The bound MaxSources is kept here so that no caller is stopped half-way.
Ask(c, k) ==
    /\ caller[c] = "idle"
    /\ created + Cardinality({d \in Callers : caller[d] \in InFlight}) < MaxSources
    /\ caller' = [caller EXCEPT ![c] = "poll"]
    /\ kind' = [kind EXCEPT ![c] = k]
    /\ UNCHANGED <<sessionVars, cancel, over, registry, created, src, lock, got,
                   stopVars>>

\* The caller goes on to step p with source s.
Proceed(c, p, s) ==
    /\ caller' = [caller EXCEPT ![c] = p]
    /\ got' = [got EXCEPT ![c] = s]
    /\ kind' = [kind EXCEPT ![c] = IF p = "idle" THEN None ELSE @]

Polled(c) ==
    /\ caller[c] = "poll"
    /\ ~cancel /\ state = "Connected"
    /\ Proceed(c, "fast", None)
    /\ UNCHANGED <<sessionVars, cancel, over, registry, created, src, lock, stopVars>>

\* Shutdown, or the 30 s deadline while the camera is not connected.
PollFailed(c) ==
    /\ caller[c] = "poll"
    /\ cancel \/ state # "Connected"
    /\ Proceed(c, "idle", None)
    /\ UNCHANGED <<sessionVars, cancel, over, registry, created, src, lock, stopVars>>

FastPath(c) ==
    /\ caller[c] = "fast"
    /\ LET s == registry[kind[c]]
       IN  Proceed(c, IF s # None THEN "have" ELSE "lock", s)
    /\ UNCHANGED <<sessionVars, cancel, over, registry, created, src, lock, stopVars>>

\* Defect: no second look under the create lock.
TakeLockBlind(c) ==
    /\ caller[c] = "lock"
    /\ lock = None
    /\ Proceed(c, "checked", None)
    /\ lock' = c
    /\ UNCHANGED <<sessionVars, cancel, over, registry, created, src, stopVars>>

\* Take the create lock and look again; a hit releases it.
TakeLock(c) ==
    /\ caller[c] = "lock"
    /\ lock = None
    /\ LET s == registry[kind[c]]
       IN  /\ Proceed(c, IF s # None THEN "have" ELSE "checked", s)
           /\ lock' = IF s # None THEN None ELSE c
    /\ UNCHANGED <<sessionVars, cancel, over, registry, created, src, stopVars>>

\* The state again, under the create lock.
RecheckState(c) ==
    /\ caller[c] = "checked"
    /\ LET fine == ~cancel /\ state = "Connected"
       IN  /\ Proceed(c, IF fine THEN "camera" ELSE "idle", None)
           /\ lock' = IF fine THEN c ELSE None
    /\ UNCHANGED <<sessionVars, cancel, over, registry, created, src, stopVars>>

NewSource(k) ==
    [kind |-> k, driver |-> slot, cancelled |-> FALSE, reader |-> "start",
     ready |-> FALSE, mark |-> "none"]

\* Defect: the caller's handle is one ahead of the source it started.
StartSourceAhead(c) ==
    /\ caller[c] = "camera"
    /\ slot # Session!NoDriver
    /\ created' = created + 1
    /\ src' = [s \in 1..created' |->
                  IF s = created' THEN NewSource(kind[c]) ELSE src[s]]
    /\ Proceed(c, "insert", created' + 1)
    /\ UNCHANGED <<sessionVars, cancel, over, registry, lock, stopVars>>

\* Clone the driver out of the slot and start the source's reader on it.
StartSource(c) ==
    /\ caller[c] = "camera"
    /\ slot # Session!NoDriver
    /\ created' = created + 1
    /\ src' = [s \in 1..created' |->
                  IF s = created' THEN NewSource(kind[c]) ELSE src[s]]
    /\ Proceed(c, "insert", created')
    /\ UNCHANGED <<sessionVars, cancel, over, registry, lock, stopVars>>

\* Defect: the error path keeps the create lock.
NoCameraLocked(c) ==
    /\ caller[c] = "camera"
    /\ slot = Session!NoDriver
    /\ Proceed(c, "idle", None)
    /\ UNCHANGED <<sessionVars, cancel, over, registry, created, src, lock, stopVars>>

NoCamera(c) ==
    /\ caller[c] = "camera"
    /\ slot = Session!NoDriver
    /\ lock' = None
    /\ Proceed(c, "idle", None)
    /\ UNCHANGED <<sessionVars, cancel, over, registry, created, src, stopVars>>

Insert(c) ==
    /\ caller[c] = "insert"
    /\ registry' = [registry EXCEPT ![kind[c]] = got[c]]
    /\ lock' = None
    /\ Proceed(c, "have", got[c])
    /\ UNCHANGED <<sessionVars, cancel, over, created, src, stopVars>>

\* await_sdp_ready returns, and the caller subscribes to the frames.
Subscribe(c) ==
    /\ caller[c] = "have"
    /\ src[got[c]].ready
    /\ Proceed(c, "subscribed", got[c])
    /\ UNCHANGED <<sessionVars, cancel, over, registry, created, src, lock, stopVars>>

SdpTimeout(c) ==
    /\ caller[c] = "have"
    /\ ~src[got[c]].ready
    /\ Proceed(c, "idle", None)
    /\ UNCHANGED <<sessionVars, cancel, over, registry, created, src, lock, stopVars>>

\* The RTSP session ends and drops its subscription.
Unsubscribe(c) ==
    /\ caller[c] = "subscribed"
    /\ Proceed(c, "idle", None)
    /\ UNCHANGED <<sessionVars, cancel, over, registry, created, src, lock, stopVars>>

-----------------------------------------------------------------------------
(* reader_task of a source. *)

ReaderGoes(s, r) ==
    /\ src' = [src EXCEPT ![s].reader = r]
    /\ UNCHANGED <<sessionVars, cancel, over, registry, created, callerVars, stopVars>>

StartVideoOk(s) == src[s].reader = "start" /\ ReaderGoes(s, "stream")

\* Cancelled first, refused, or timed out: no stop_video is due.
StartVideoFailed(s) == src[s].reader = "start" /\ ReaderGoes(s, "gone")

\* The first I-frame fills in the SDP parameters.
FirstKeyframe(s) ==
    /\ src[s].reader = "stream"
    /\ ~src[s].ready
    /\ src' = [src EXCEPT ![s].ready = TRUE]
    /\ UNCHANGED <<sessionVars, cancel, over, registry, created, callerVars, stopVars>>

\* drive_translator_loop ends, on cancel or because the stream did.
StreamEnded(s) == src[s].reader = "stream" /\ ReaderGoes(s, "stop")

\* stop_video returns or times out.
StopVideoDone(s) == src[s].reader = "stop" /\ ReaderGoes(s, "gone")

-----------------------------------------------------------------------------
(* prune_idle_stream_sources_at, the watchdog's sweep. *)

Expired(s) ==
    /\ Registered(s)
    /\ Subscribers(s) = {}
    /\ src[s].mark = "expired" \/ (src[s].mark = "none" /\ PruneAtOnce)

\* Defect: an expired source is dropped without being stopped.
SweptRunning(s) ==
    IF ~Registered(s) THEN src[s]
    ELSE IF Subscribers(s) # {} THEN [src[s] EXCEPT !.mark = "none"]
    ELSE IF src[s].mark = "none" THEN [src[s] EXCEPT !.mark = "young"]
    ELSE src[s]

\* Defect: a sweep that finds a young mark takes it off again.
SweptAgain(s) ==
    IF ~Registered(s) THEN src[s]
    ELSE IF Expired(s) THEN [src[s] EXCEPT !.cancelled = TRUE]
    ELSE [src[s] EXCEPT !.mark = IF @ = "none" THEN "young" ELSE "none"]

Swept(s) ==
    IF ~Registered(s) THEN src[s]
    ELSE IF Subscribers(s) # {} THEN [src[s] EXCEPT !.mark = "none"]
    ELSE IF Expired(s) THEN [src[s] EXCEPT !.cancelled = TRUE]
    ELSE IF src[s].mark = "none" THEN [src[s] EXCEPT !.mark = "young"]
    ELSE src[s]

\* Defect: the expired source is stopped but stays in the registry.
PruneKeeps ==
    /\ src' = [s \in Live |-> Swept(s)]
    /\ UNCHANGED <<sessionVars, cancel, over, registry, created, callerVars, stopVars>>

\* A sweep under way when the token is cancelled, or chosen by the same poll, is
\* carried out.
Prune ==
    /\ src' = [s \in Live |-> Swept(s)]
    /\ registry' = [k \in Kinds |->
                       IF registry[k] \in Live /\ Expired(registry[k])
                       THEN None ELSE registry[k]]
    /\ UNCHANGED <<sessionVars, cancel, over, created, callerVars, stopVars>>

MarkAges(s) ==
    /\ Registered(s)
    /\ src[s].mark = "young"
    /\ src' = [src EXCEPT ![s].mark = "expired"]
    /\ UNCHANGED <<sessionVars, cancel, over, registry, created, callerVars, stopVars>>

-----------------------------------------------------------------------------
(* The camera's session, and stop_all_stream_sources. *)

\* Session steps that leave the registry alone; the slot is cleared only after
\* stop_all_stream_sources has returned.
SessionStep ==
    /\ ~over
    /\ \/ Session!BeginConnect \/ Session!FailConnect \/ Session!Open
       \/ Session!PublishDriver \/ Session!GoOffline
       \/ stopping = {} /\ Session!ClearSlot
    /\ UNCHANGED <<cancel, over, registry, created, src, callerVars, stopVars>>

\* Drain the registry under its write lock.
Drain ==
    /\ stopping' = {registry[k] : k \in Kinds} \ {None}
    /\ registry' = [k \in Kinds |-> None]
    /\ UNCHANGED <<cancel, created, src, callerVars, waiting>>

TearDown ==
    /\ Session!EmptyRegistry
    /\ Drain
    /\ UNCHANGED over

\* run leaves its loop (shutdown, or an authentication failure) and drains too.
RunEnds ==
    /\ ~over
    /\ state = "Disconnected" /\ phase = "none"
    /\ over' = TRUE
    /\ Drain
    /\ UNCHANGED sessionVars

\* stop_and_wait on the next drained source: cancel it ...
StopSource(s) ==
    /\ s \in stopping
    /\ waiting = None
    /\ waiting' = s
    /\ src' = [src EXCEPT ![s].cancelled = TRUE]
    /\ UNCHANGED <<sessionVars, cancel, over, registry, created, callerVars, stopping>>

\* ... and wait for its reader, or for the timeout that detaches it.
StopWaited ==
    /\ waiting # None
    /\ stopping' = stopping \ {waiting}
    /\ waiting' = None
    /\ UNCHANGED <<sessionVars, cancel, over, registry, created, src, callerVars>>

Shutdown ==
    /\ ~cancel
    /\ cancel' = TRUE
    /\ UNCHANGED <<sessionVars, over, registry, created, src, callerVars, stopVars>>

-----------------------------------------------------------------------------

\* What a caller does without anybody's help.
CallerSteps(c) ==
    \/ Polled(c) \/ PollFailed(c) \/ FastPath(c) \/ RecheckState(c)
    \/ StartSource(c) \/ NoCamera(c) \/ Insert(c) \/ Subscribe(c) \/ SdpTimeout(c)

ReaderSteps(s) ==
    \/ StartVideoOk(s) \/ StartVideoFailed(s) \/ FirstKeyframe(s)
    \/ StreamEnded(s) \/ StopVideoDone(s)

Next ==
    \/ \E c \in Callers :
           \/ \E k \in Kinds : Ask(c, k)
           \/ CallerSteps(c) \/ TakeLock(c) \/ Unsubscribe(c)
    \/ \E s \in Live : ReaderSteps(s) \/ MarkAges(s) \/ StopSource(s)
    \/ Prune \/ SessionStep \/ TearDown \/ RunEnds \/ StopWaited \/ Shutdown

\* Callers run; tokio's mutex is first come, first served; the watchdog sweeps
\* until the shutdown, and the clock runs.
Fairness ==
    /\ \A c \in Callers : WF_vars(CallerSteps(c)) /\ SF_vars(TakeLock(c))
    /\ WF_vars(~cancel /\ Prune)
    /\ \A s \in Sources : WF_vars(s \in Live /\ MarkAges(s))

SafetySpec == Init /\ [][Next]_vars
Spec == SafetySpec /\ Fairness

-----------------------------------------------------------------------------
(* Properties *)

\* The session, the registry, the sources and the callers are well formed.
TypeOK ==
    /\ state \in Session!States
    /\ slot \in Nat /\ driver \in Nat
    /\ phase \in Session!Phases
    /\ cancel \in BOOLEAN /\ over \in BOOLEAN
    /\ created \in Nat
    /\ src \in [Live -> Source]
    /\ registry \in [Kinds -> Live \cup {None}]
    /\ lock \in Callers \cup {None}
    /\ caller \in [Callers -> CallerPC]
    /\ kind \in [Callers -> Kinds \cup {None}]
    /\ got \in [Callers -> Live \cup {None}]
    /\ stopping \subseteq Live
    /\ waiting \in Live \cup {None}

\* Source s has been started by a caller that has yet to insert it.
BeingInserted(s) == \E c \in Callers : caller[c] = "insert" /\ got[c] = s

\* No reader is orphaned: one that nobody has told to stop is in the registry,
\* in the hands of the caller about to insert it, or in the list teardown is
\* working through.  Otherwise the camera would stream, on its battery, with
\* nobody left to call stop_video.
\* (Drop for StreamSource cancels too; this says that it is never needed.)
NoOrphanReader ==
    \A s \in Live :
        ~src[s].cancelled => Registered(s) \/ BeingInserted(s) \/ s \in stopping

\* "No duplicate start_video is ever issued": of one kind there is at most one
\* source that is neither cancelled nor drained, however many callers race.
OneSourcePerKind ==
    \A s, t \in Live :
        /\ src[s].kind = src[t].kind
        /\ ~src[s].cancelled /\ s \notin stopping
        /\ ~src[t].cancelled /\ t \notin stopping
        => s = t

\* No caller is handed a source that has been told to stop: the sweep and the
\* teardown take a source out of the registry no later than they cancel it, and
\* nothing cancels a source between its start and its insertion.
RegistryNotCancelled ==
    \A k \in Kinds : registry[k] # None => ~src[registry[k]].cancelled

\* Every request for a stream is answered: no path through the create lock
\* leaves it locked, and no race makes a caller start over for ever.
CallerAnswered ==
    \A c \in Callers :
        caller[c] \in InFlight \ {"poll"} ~> caller[c] \in {"idle", "subscribed"}

\* A source that nobody subscribes to any more, dead or alive, does not stay in
\* the registry while the watchdog runs.
IdleSourceEvicted ==
    \A s \in Sources :
        <>[](s \in Live /\ Subscribers(s) = {})
            => <>cancel \/ <>[](s \in Live /\ ~Registered(s))

\* What the registry keeps under racing callers, sweeps and teardown: every running reader
\* is in reach, no kind has two, and nobody is handed a stopped one.
RegistrySafety == TypeOK /\ NoOrphanReader /\ OneSourcePerKind /\ RegistryNotCancelled

\* What the registry owes its callers and the battery: an answer, and the end of a
\* source nobody uses.
RegistryProgress == CallerAnswered /\ IdleSourceEvicted

(* What the repository's comments and documents say and TLC refutes (README, 3). *)

\* docs/architecture.md: "a cached `StreamSource` can never outlive the Baichuan
\* session that feeds it".
RegistryIsCurrent ==
    \A k \in Kinds :
        registry[k] # None /\ phase = "open" => src[registry[k]].driver = driver
=============================================================================
