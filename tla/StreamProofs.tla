---------------------------- MODULE StreamProofs ----------------------------
(***************************************************************************)
(* Proofs about StreamRegistry, for any set of callers and of stream kinds *)
(* and any number of sessions and sources: no reader is orphaned, callers  *)
(* that race start one source per kind, and nobody is handed a source that *)
(* was told to stop.  Below them, proofs about Media, for any capacities   *)
(* and latencies: what a session sends is an unbroken run of frames, the   *)
(* audio clock has counted every sample, and presence follows the SDP.     *)
(***************************************************************************)
EXTENDS StreamRegistry, Media, TLAPS

Creating == {"checked", "camera", "insert"}

\* The create lock is held by exactly the caller that is creating a source.
LockShape ==
    \A c \in Callers : caller[c] \in Creating <=> lock = c

\* What a caller has in hand fits the step it is at.
CallerShape ==
    \A c \in Callers :
        /\ caller[c] # "idle" => kind[c] \in Kinds
        /\ caller[c] \in {"insert", "have", "subscribed"} => got[c] \in Live
        /\ caller[c] \in Creating => registry[kind[c]] = None
        /\ caller[c] = "insert" =>
               /\ src[got[c]].kind = kind[c]
               /\ ~src[got[c]].cancelled
               /\ got[c] \notin stopping

\* A registered source is filed under its own kind and is not being stopped.
RegistryShape ==
    \A k \in Kinds : registry[k] # None =>
        /\ src[registry[k]].kind = k
        /\ ~src[registry[k]].cancelled
        /\ registry[k] \notin stopping

\* stop_all_stream_sources runs in teardown and after the loop, never during an
\* attempt, and waits only for a source it has cancelled.
StopShape ==
    /\ state = "Connecting" \/ over => phase = "none"
    /\ ~over /\ phase # "emptied" => stopping = {} /\ waiting = None
    /\ waiting # None => waiting \in stopping /\ src[waiting].cancelled

IndInv ==
    /\ TypeOK
    /\ LockShape
    /\ CallerShape
    /\ RegistryShape
    /\ StopShape
    /\ NoOrphanReader

\* The initial state satisfies the invariant.
LEMMA InitInv == Init => IndInv
<1> SUFFICES ASSUME Init PROVE IndInv
    OBVIOUS
<1> USE RegistryAssumption DEF Init, Session!Init, None
<1>1. Live = {}
    BY DEF Live
<1>2. cancel \in BOOLEAN /\ over \in BOOLEAN
    OBVIOUS
<1>3. TypeOK
    BY <1>1, <1>2 DEF TypeOK, Session!States, Session!Phases, Session!NoDriver, CallerPC
<1>4. LockShape /\ CallerShape /\ RegistryShape /\ StopShape
    BY DEF LockShape, CallerShape, RegistryShape, StopShape, Creating
<1>5. NoOrphanReader
    BY <1>1 DEF NoOrphanReader
<1> QED
    BY <1>3, <1>4, <1>5 DEF IndInv

\* A caller that is not creating a source, and does not begin to, moves on with a
\* source of the registry, or with none.
LEMMA CallerMoves ==
    ASSUME IndInv, NEW c \in Callers, NEW p \in CallerPC \ Creating,
           NEW s \in Live \cup {None},
           caller[c] \notin Creating \cup {"idle"},
           p \in {"have", "subscribed"} => s \in Live,
           Proceed(c, p, s),
           UNCHANGED <<sessionVars, cancel, over, registry, created, src, lock, stopVars>>
    PROVE  IndInv'
<1> USE DEF IndInv, Proceed, sessionVars, stopVars
<1>1. TypeOK'
    BY DEF TypeOK, None, Live, CallerPC
<1>2. LockShape'
    BY DEF LockShape, TypeOK
<1>3. CallerShape'
  <2> SUFFICES ASSUME NEW d \in Callers PROVE CallerShape!(d)'
      BY DEF CallerShape
  <2> QED
      BY DEF TypeOK, CallerShape, Creating, Live, CallerPC, None
<1>4. RegistryShape' /\ StopShape'
    BY DEF RegistryShape, StopShape
<1>5. NoOrphanReader'
    BY DEF NoOrphanReader, Registered, BeingInserted, TypeOK, Creating, Live
<1> QED
    BY <1>1, <1>2, <1>3, <1>4, <1>5

\* A new request keeps the invariant.
LEMMA AskInv ==
    ASSUME IndInv, NEW c \in Callers, NEW k \in Kinds, Ask(c, k) PROVE IndInv'
<1> USE DEF IndInv, Ask, sessionVars, stopVars
<1>1. TypeOK'
    BY DEF TypeOK, Live, CallerPC
<1>2. LockShape'
    BY DEF LockShape, TypeOK, Creating
<1>3. CallerShape'
  <2> SUFFICES ASSUME NEW d \in Callers PROVE CallerShape!(d)'
      BY DEF CallerShape
  <2> QED
      BY DEF TypeOK, CallerShape, Creating, Live
<1>4. RegistryShape' /\ StopShape'
    BY DEF RegistryShape, StopShape
<1>5. NoOrphanReader'
    BY DEF NoOrphanReader, Registered, BeingInserted, TypeOK, Live
<1> QED
    BY <1>1, <1>2, <1>3, <1>4, <1>5

\* The answers a caller waits for, and its departure, leave the registry alone.
LEMMA WaitInv ==
    ASSUME IndInv, NEW c \in Callers,
           \/ Polled(c) \/ PollFailed(c) \/ FastPath(c) \/ SdpTimeout(c)
           \/ Subscribe(c) \/ Unsubscribe(c)
    PROVE  IndInv'
<1>1. /\ None \in Live \cup {None}
      /\ {"fast", "idle", "have", "lock", "subscribed"} \subseteq CallerPC \ Creating
    BY DEF CallerPC, Creating
<1>2. CASE Polled(c)
    BY <1>1, <1>2, CallerMoves DEF Polled, Creating
<1>3. CASE PollFailed(c)
    BY <1>1, <1>3, CallerMoves DEF PollFailed, Creating
<1>4. CASE FastPath(c)
  <2> DEFINE s == registry[kind[c]]
  <2>1. s \in Live \cup {None}
      BY <1>4 DEF FastPath, IndInv, CallerShape, TypeOK
  <2>2. CASE s # None
      BY <1>1, <1>4, <2>1, <2>2, CallerMoves DEF FastPath, Creating
  <2>3. CASE s = None
      BY <1>1, <1>4, <2>1, <2>3, CallerMoves DEF FastPath, Creating
  <2> QED
      BY <2>2, <2>3
<1>5. CASE SdpTimeout(c)
    BY <1>1, <1>5, CallerMoves DEF SdpTimeout, Creating
<1>6. CASE Unsubscribe(c)
    BY <1>1, <1>6, CallerMoves DEF Unsubscribe, Creating
<1>7. CASE Subscribe(c)
  <2>1. got[c] \in Live
      BY <1>7 DEF Subscribe, IndInv, CallerShape
  <2> QED
      BY <1>1, <1>7, <2>1, CallerMoves DEF Subscribe, Creating
<1> QED
    BY <1>2, <1>3, <1>4, <1>5, <1>6, <1>7

\* Taking the create lock: a hit releases it, a miss finds no entry to clash with.
LEMMA TakeLockInv ==
    ASSUME IndInv, NEW c \in Callers, TakeLock(c) PROVE IndInv'
<1> DEFINE s == registry[kind[c]]
<1>1. s \in Live \cup {None}
    BY DEF TakeLock, IndInv, CallerShape, TypeOK
<1>2. CASE s # None
  <2>1. "have" \in CallerPC \ Creating
      BY DEF CallerPC, Creating
  <2> QED
      BY <1>1, <1>2, <2>1, CallerMoves DEF TakeLock, Creating
<1>3. CASE s = None
  <2> USE <1>3 DEF IndInv, TakeLock, Proceed, sessionVars, stopVars
  <2>1. TypeOK'
      BY DEF TypeOK, Live, CallerPC, None
  <2>2. LockShape'
      BY RegistryAssumption DEF LockShape, TypeOK, Creating, None
  <2>3. CallerShape'
    <3> SUFFICES ASSUME NEW d \in Callers PROVE CallerShape!(d)'
        BY DEF CallerShape
    <3> QED
        BY DEF TypeOK, CallerShape, Creating, Live
  <2>4. RegistryShape' /\ StopShape'
      BY DEF RegistryShape, StopShape
  <2>5. NoOrphanReader'
      BY DEF NoOrphanReader, Registered, BeingInserted, TypeOK, Live
  <2> QED
      BY <2>1, <2>2, <2>3, <2>4, <2>5
<1> QED
    BY <1>2, <1>3

\* The second look at the state, and the look at the slot, keep the lock or give
\* it back.
LEMMA RecheckInv ==
    ASSUME IndInv, NEW c \in Callers, RecheckState(c) \/ NoCamera(c) PROVE IndInv'
<1> USE DEF IndInv, RecheckState, NoCamera, Proceed, sessionVars, stopVars
<1>1. TypeOK'
    BY DEF TypeOK, Live, CallerPC, None
<1>2. LockShape'
    BY RegistryAssumption DEF LockShape, TypeOK, Creating, None
<1>3. CallerShape'
  <2> SUFFICES ASSUME NEW d \in Callers PROVE CallerShape!(d)'
      BY DEF CallerShape
  <2> QED
      BY DEF TypeOK, CallerShape, Creating, Live
<1>4. RegistryShape' /\ StopShape'
    BY DEF RegistryShape, StopShape
<1>5. NoOrphanReader'
    BY DEF NoOrphanReader, Registered, BeingInserted, TypeOK, Live
<1> QED
    BY <1>1, <1>2, <1>3, <1>4, <1>5

\* A new source is in the hands of its creator until it is registered.
LEMMA StartSourceInv ==
    ASSUME IndInv, NEW c \in Callers, StartSource(c) PROVE IndInv'
<1> USE DEF IndInv, StartSource, Proceed, sessionVars, stopVars
<1>1. /\ created \in Nat /\ created' = created + 1 /\ kind[c] \in Kinds
      /\ Live' = Live \cup {created'} /\ created' \notin Live
      /\ None \notin Live'
    BY DEF TypeOK, CallerShape, Live, None
<1>2. /\ \A s \in Live : src'[s] = src[s]
      /\ src'[created'] = NewSource(kind[c])
    BY <1>1 DEF Live
<1>3. TypeOK'
  <2>1. NewSource(kind[c]) \in Source
      BY <1>1 DEF NewSource, Source, TypeOK
  <2>2. src' \in [Live' -> Source]
      BY <1>1, <1>2, <2>1 DEF TypeOK, Live
  <2> QED
      BY <1>1, <2>2 DEF TypeOK, CallerPC
<1>4. LockShape'
    BY DEF LockShape, TypeOK, Creating
<1>5. CallerShape'
  <2>1. src'[created'].kind = kind[c] /\ ~src'[created'].cancelled
      BY <1>2 DEF NewSource
  <2>2. created' \notin stopping
      BY <1>1 DEF TypeOK
  <2> SUFFICES ASSUME NEW d \in Callers PROVE CallerShape!(d)'
      BY DEF CallerShape
  <2>3. CASE d = c
      BY <1>1, <2>1, <2>2, <2>3 DEF TypeOK, CallerShape, Creating
  <2>4. CASE d # c
      BY <1>1, <1>2, <2>4 DEF TypeOK, CallerShape, Creating
  <2> QED
      BY <2>3, <2>4
<1>6. RegistryShape' /\ StopShape'
  <2>1. \A k \in Kinds : registry[k] # None => registry[k] \in Live
      BY DEF TypeOK
  <2>2. RegistryShape'
    <3>1. registry' = registry /\ stopping' = stopping /\ RegistryShape
        OBVIOUS
    <3>2. ASSUME NEW k \in Kinds, registry[k] # None
          PROVE  /\ src'[registry[k]].kind = k
                 /\ ~src'[registry[k]].cancelled
                 /\ registry[k] \notin stopping
      <4>1. src'[registry[k]] = src[registry[k]]
          BY ONLY <1>2, <2>1, <3>2
      <4>2. /\ src[registry[k]].kind = k
            /\ ~src[registry[k]].cancelled
            /\ registry[k] \notin stopping
          BY ONLY <3>1, <3>2 DEF RegistryShape
      <4> QED
          BY ONLY <4>1, <4>2
    <3> QED
        BY ONLY <3>1, <3>2 DEF RegistryShape
  <2>3. StopShape'
      BY <1>2 DEF StopShape, TypeOK
  <2> QED
      BY <2>2, <2>3
<1>7. NoOrphanReader'
  <2> SUFFICES ASSUME NEW s \in Live', ~src'[s].cancelled
               PROVE  Registered(s)' \/ BeingInserted(s)' \/ s \in stopping'
      BY DEF NoOrphanReader
  <2>1. CASE s = created'
      BY <2>1 DEF BeingInserted, TypeOK
  <2>2. CASE s \in Live
      BY <1>2, <2>2 DEF NoOrphanReader, Registered, BeingInserted, TypeOK
  <2> QED
      BY <1>1, <2>1, <2>2
<1> QED
    BY <1>3, <1>4, <1>5, <1>6, <1>7

\* Filing the new source hands it from its creator to the registry, where its
\* kind had no entry.
LEMMA InsertInv ==
    ASSUME IndInv, NEW c \in Callers, Insert(c) PROVE IndInv'
<1> USE DEF IndInv, Insert, Proceed, sessionVars, stopVars
<1>1. /\ kind[c] \in Kinds /\ got[c] \in Live /\ registry[kind[c]] = None
      /\ src[got[c]].kind = kind[c] /\ ~src[got[c]].cancelled
      /\ got[c] \notin stopping
    BY DEF CallerShape, Creating
<1>2. TypeOK'
    BY <1>1 DEF TypeOK, Live, CallerPC, None
<1>3. LockShape'
    BY RegistryAssumption DEF LockShape, TypeOK, Creating, None
<1>4. CallerShape'
  <2>1. \A d \in Callers \ {c} : caller[d] \notin Creating
      BY DEF LockShape, TypeOK, Creating
  <2> SUFFICES ASSUME NEW d \in Callers PROVE CallerShape!(d)'
      BY DEF CallerShape
  <2>2. CASE d = c
      BY <1>1, <2>2 DEF TypeOK, CallerShape, Creating, Live
  <2>3. CASE d # c
      BY <2>1, <2>3 DEF TypeOK, CallerShape, Creating, Live
  <2> QED
      BY <2>2, <2>3
<1>5. RegistryShape' /\ StopShape'
    BY <1>1 DEF RegistryShape, StopShape, TypeOK
<1>6. NoOrphanReader'
  <2> SUFFICES ASSUME NEW s \in Live, ~src[s].cancelled
               PROVE  Registered(s)' \/ BeingInserted(s)' \/ s \in stopping
      BY DEF NoOrphanReader, Live
  <2>1. CASE s = got[c]
      BY <1>1, <2>1 DEF Registered, TypeOK
  <2>2. CASE Registered(s)
      BY <1>1, <2>2 DEF Registered, TypeOK, None, Live
  <2>3. CASE BeingInserted(s) /\ s # got[c]
      BY <2>3 DEF BeingInserted, TypeOK
  <2> QED
      BY <2>1, <2>2, <2>3 DEF NoOrphanReader
<1> QED
    BY <1>2, <1>3, <1>4, <1>5, <1>6

\* Fields of a source that the invariant does not look at.
LEMMA FieldUpdates ==
    ASSUME NEW r \in Source
    PROVE  /\ \A x \in {"start", "stream", "stop", "gone"} :
                  [r EXCEPT !.reader = x] \in Source
           /\ \A x \in {"none", "young", "expired"} : [r EXCEPT !.mark = x] \in Source
           /\ \A x \in BOOLEAN : /\ [r EXCEPT !.ready = x] \in Source
                                 /\ [r EXCEPT !.cancelled = x] \in Source
BY DEF Source

\* A step that changes neither the kind of a source nor whether it is cancelled.
LEMMA SourceInv ==
    ASSUME IndInv, NEW s \in Live, ReaderSteps(s) \/ MarkAges(s) PROVE IndInv'
<1> USE DEF IndInv, ReaderSteps, StartVideoOk, StartVideoFailed, FirstKeyframe,
            StreamEnded, StopVideoDone, ReaderGoes, MarkAges, sessionVars,
            stopVars, callerVars
<1>1. /\ src' \in [Live -> Source] /\ Live' = Live
      /\ \A t \in Live : src'[t].kind = src[t].kind /\ src'[t].cancelled = src[t].cancelled
  <2>1. src[s] \in Source /\ TRUE \in BOOLEAN
      BY DEF TypeOK
  <2>2. \E r \in Source : /\ src' = [src EXCEPT ![s] = r]
                          /\ r.kind = src[s].kind /\ r.cancelled = src[s].cancelled
    <3>1. CASE FirstKeyframe(s)
      <4> DEFINE q == [src[s] EXCEPT !.ready = TRUE]
      <4>1. q \in Source
          BY <2>1, FieldUpdates
      <4>2. q.kind = src[s].kind /\ q.cancelled = src[s].cancelled
          BY <2>1 DEF Source
      <4>3. src' = [src EXCEPT ![s] = q]
          BY <3>1
      <4> QED
          BY <4>1, <4>2, <4>3
    <3>2. CASE MarkAges(s)
      <4> DEFINE q == [src[s] EXCEPT !.mark = "expired"]
      <4>1. q \in Source
          BY <2>1, FieldUpdates
      <4>2. q.kind = src[s].kind /\ q.cancelled = src[s].cancelled
          BY <2>1 DEF Source
      <4>3. src' = [src EXCEPT ![s] = q]
          BY <3>2
      <4> QED
          BY <4>1, <4>2, <4>3
    <3>3. ASSUME NEW x \in {"stream", "gone", "stop"}, ReaderGoes(s, x)
          PROVE  \E r \in Source : /\ src' = [src EXCEPT ![s] = r]
                                   /\ r.kind = src[s].kind
                                   /\ r.cancelled = src[s].cancelled
      <4> DEFINE q == [src[s] EXCEPT !.reader = x]
      <4>1. q \in Source
          BY <2>1, FieldUpdates
      <4>2. q.kind = src[s].kind /\ q.cancelled = src[s].cancelled
          BY <2>1 DEF Source
      <4>3. src' = [src EXCEPT ![s] = q]
          BY <3>3
      <4> QED
          BY <4>1, <4>2, <4>3
    <3> QED
        BY <3>1, <3>2, <3>3
  <2> QED
      BY <2>2 DEF TypeOK, Live
<1>2. TypeOK' /\ LockShape'
    BY <1>1 DEF TypeOK, LockShape
<1>3. CallerShape'
    BY <1>1 DEF TypeOK, CallerShape, Creating
<1>4. RegistryShape' /\ StopShape'
    BY <1>1 DEF RegistryShape, StopShape, TypeOK
<1>5. NoOrphanReader'
    BY <1>1 DEF NoOrphanReader, Registered, BeingInserted, TypeOK
<1> QED
    BY <1>2, <1>3, <1>4, <1>5

\* The sweep takes exactly the sources that it stops out of the registry.
LEMMA PruneInv == ASSUME IndInv, Prune PROVE IndInv'
<1> USE DEF IndInv, Prune, sessionVars, stopVars, callerVars
<1>1. \A s \in Live : src[s] \in Source /\ TRUE \in BOOLEAN /\ FALSE \in BOOLEAN
    BY DEF TypeOK
<1>2. \A s \in Live : Swept(s) \in Source
    BY <1>1, FieldUpdates DEF Swept
<1>3. /\ src' \in [Live -> Source] /\ Live' = Live
      /\ \A s \in Live : src'[s] = Swept(s)
    BY <1>2 DEF Live
<1>4. \A s \in Live : /\ src'[s].kind = src[s].kind
                      /\ (src'[s].cancelled <=> src[s].cancelled \/ Expired(s))
  <2> SUFFICES ASSUME NEW s \in Live
               PROVE  /\ src'[s].kind = src[s].kind
                      /\ (src'[s].cancelled <=> src[s].cancelled \/ Expired(s))
      OBVIOUS
  <2>1. CASE Expired(s)
    <3>1. src'[s] = [src[s] EXCEPT !.cancelled = TRUE]
        BY <1>3, <2>1 DEF Swept, Expired
    <3> QED
        BY <1>1, <2>1, <3>1 DEF Source
  <2>2. CASE ~Expired(s)
    <3>1. \/ src'[s] = src[s]
          \/ src'[s] = [src[s] EXCEPT !.mark = "none"]
          \/ src'[s] = [src[s] EXCEPT !.mark = "young"]
        BY <1>3, <2>2 DEF Swept
    <3>2. src'[s].kind = src[s].kind /\ src'[s].cancelled = src[s].cancelled
        BY <1>1, <3>1 DEF Source
    <3> QED
        BY <2>2, <3>2
  <2> QED
      BY <2>1, <2>2
<1>5. \A k \in Kinds : registry[k] # None =>
          /\ registry[k] \in Live
          /\ registry'[k] = IF Expired(registry[k]) THEN None ELSE registry[k]
    BY DEF TypeOK
<1>6. \A k \in Kinds : registry[k] = None => registry'[k] = None
    BY DEF Live, None, TypeOK
<1>7. TypeOK' /\ LockShape'
  <2>1. registry' \in [Kinds -> Live \cup {None}]
      BY DEF TypeOK
  <2> QED
      BY <1>3, <2>1 DEF TypeOK, LockShape
<1>8. CallerShape'
  <2> SUFFICES ASSUME NEW d \in Callers PROVE CallerShape!(d)'
      BY DEF CallerShape
  <2>1. caller[d] = "insert" => ~Expired(got[d])
    <3> SUFFICES ASSUME caller[d] = "insert", Registered(got[d]) PROVE FALSE
        BY DEF Expired
    <3>1. got[d] \in Live /\ registry[kind[d]] = None /\ src[got[d]].kind = kind[d]
        BY DEF CallerShape, Creating
    <3> QED
        BY <3>1 DEF Registered, Live, None
  <2> QED
      BY <1>3, <1>4, <1>6, <2>1 DEF CallerShape, Creating, TypeOK
<1>9. RegistryShape'
    BY <1>4, <1>5, <1>6 DEF RegistryShape
<1>10. StopShape'
    BY <1>4 DEF StopShape, TypeOK
<1>11. NoOrphanReader'
  <2> SUFFICES ASSUME NEW s \in Live, ~src'[s].cancelled
               PROVE  Registered(s)' \/ BeingInserted(s)' \/ s \in stopping
      BY <1>3 DEF NoOrphanReader
  <2>1. ~src[s].cancelled /\ ~Expired(s) /\ src'[s].kind = src[s].kind /\ src[s].kind \in Kinds
      BY <1>1, <1>4 DEF Source
  <2>2. CASE Registered(s)
      BY <1>5, <2>1, <2>2 DEF Registered, Live, None
  <2>3. CASE ~Registered(s)
      BY <2>1, <2>3 DEF NoOrphanReader, BeingInserted
  <2> QED
      BY <2>2, <2>3
<1> QED
    BY <1>7, <1>8, <1>9, <1>10, <1>11

\* Session steps do not touch the registry; the slot is cleared when nothing is
\* left to stop.
LEMMA SessionInv == ASSUME IndInv, SessionStep PROVE IndInv'
<1> USE DEF IndInv, SessionStep, stopVars, callerVars
<1>1. /\ state' \in Session!States /\ phase' \in Session!Phases
      /\ slot' \in Nat /\ driver' \in Nat
      /\ state' = "Connecting" => phase' = "none"
      /\ phase' # "emptied" => stopping = {}
  <2> USE DEF TypeOK, StopShape, Session!States, Session!Phases, Session!NoDriver
  <2>1. CASE Session!BeginConnect \/ Session!FailConnect
      BY <2>1 DEF Session!BeginConnect, Session!FailConnect
  <2>2. CASE Session!Open
      BY <2>2 DEF Session!Open
  <2>3. CASE Session!PublishDriver
      BY <2>3 DEF Session!PublishDriver
  <2>4. CASE Session!GoOffline
      BY <2>4 DEF Session!GoOffline
  <2>5. CASE stopping = {} /\ Session!ClearSlot
      BY <2>5 DEF Session!ClearSlot
  <2> QED
      BY <2>1, <2>2, <2>3, <2>4, <2>5
<1>2. TypeOK' /\ LockShape'
    BY <1>1 DEF TypeOK, LockShape, Live
<1>3. CallerShape' /\ RegistryShape'
    BY DEF CallerShape, RegistryShape, Live
<1>4. StopShape'
    BY <1>1 DEF StopShape
<1>5. NoOrphanReader'
    BY DEF NoOrphanReader, Registered, BeingInserted, Live
<1> QED
    BY <1>2, <1>3, <1>4, <1>5

\* Draining moves every registered source to the list of those to stop; a source
\* that is being inserted is not among them.
LEMMA DrainInv == ASSUME IndInv, TearDown \/ RunEnds PROVE IndInv'
<1> USE DEF IndInv, TearDown, RunEnds, Drain, callerVars, sessionVars
<1>1. /\ state' \in Session!States /\ phase' \in Session!Phases
      /\ slot' \in Nat /\ driver' \in Nat
      /\ stopping = {} /\ waiting = None
      /\ state' = "Connecting" \/ over' => phase' = "none"
      /\ ~over' => phase' = "emptied"
    BY DEF TypeOK, StopShape, Session!EmptyRegistry, Session!Phases
<1>2. over' \in BOOLEAN
  <2>1. CASE TearDown
      BY <2>1 DEF TypeOK
  <2>2. CASE RunEnds
    <3>1. over' = TRUE
        BY <2>2
    <3> QED
        BY ONLY <3>1, Zenon
  <2> QED
      BY <2>1, <2>2
<1>3. /\ Live' = Live /\ \A k \in Kinds : registry'[k] = None
      /\ \A k \in Kinds : registry[k] # None => registry[k] \in stopping'
      /\ \A s \in stopping' : \E k \in Kinds : s = registry[k] /\ s # None
    BY DEF Live
<1>4. TypeOK' /\ LockShape'
  <2>1. stopping' \subseteq Live
      BY <1>3 DEF TypeOK
  <2> QED
      BY <1>1, <1>2, <1>3, <2>1 DEF TypeOK, LockShape
<1>5. CallerShape'
  <2> SUFFICES ASSUME NEW d \in Callers PROVE CallerShape!(d)'
      BY DEF CallerShape
  <2>1. ASSUME caller[d] = "insert", got[d] \in stopping' PROVE FALSE
    <3>1. PICK k \in Kinds : got[d] = registry[k] /\ registry[k] # None
        BY <1>3, <2>1
    <3>2. k = kind[d]
        BY <2>1, <3>1 DEF CallerShape, RegistryShape
    <3> QED
        BY <2>1, <3>1, <3>2 DEF CallerShape, Creating
  <2> QED
      BY <1>3, <2>1 DEF CallerShape, Creating
<1>6. RegistryShape' /\ StopShape'
    BY <1>1, <1>3 DEF RegistryShape, StopShape
<1>7. NoOrphanReader'
  <2> SUFFICES ASSUME NEW s \in Live, ~src[s].cancelled
               PROVE  BeingInserted(s)' \/ s \in stopping'
      BY <1>3 DEF NoOrphanReader
  <2>1. src[s].kind \in Kinds /\ s # None
      BY DEF TypeOK, Source, Live, None
  <2> QED
      BY <1>1, <1>3, <2>1 DEF NoOrphanReader, Registered, BeingInserted
<1> QED
    BY <1>4, <1>5, <1>6, <1>7

\* A drained source is cancelled before it is waited for, and leaves the list
\* afterwards.
LEMMA StopInv ==
    ASSUME IndInv, (\E s \in Live : StopSource(s)) \/ StopWaited
    PROVE  IndInv'
<1> USE DEF IndInv, callerVars, sessionVars
<1>1. ASSUME NEW s \in Live, StopSource(s) PROVE IndInv'
  <2> USE <1>1 DEF StopSource
  <2> DEFINE q == [src[s] EXCEPT !.cancelled = TRUE]
  <2>1. src[s] \in Source /\ TRUE \in BOOLEAN
      BY DEF TypeOK
  <2>2. q \in Source
      BY <2>1, FieldUpdates
  <2>3. q.kind = src[s].kind /\ q.cancelled
      BY <2>1 DEF Source
  <2>4. src' = [src EXCEPT ![s] = q]
      OBVIOUS
  <2> HIDE DEF q
  <2>5. /\ src' \in [Live -> Source] /\ Live' = Live /\ src'[s].cancelled
        /\ \A t \in Live : /\ src'[t].kind = src[t].kind
                           /\ t # s => src'[t] = src[t]
      BY <2>2, <2>3, <2>4 DEF TypeOK, Live
  <2>6. TypeOK' /\ LockShape'
      BY <2>5 DEF TypeOK, LockShape
  <2>7. CallerShape'
      BY <2>5 DEF CallerShape, Creating
  <2>8. RegistryShape'
      BY <2>5 DEF RegistryShape, TypeOK
  <2>9. StopShape'
      BY <2>5 DEF StopShape
  <2>10. NoOrphanReader'
      BY <2>5 DEF NoOrphanReader, Registered, BeingInserted
  <2> QED
      BY <2>6, <2>7, <2>8, <2>9, <2>10
<1>2. ASSUME StopWaited PROVE IndInv'
  <2> USE <1>2 DEF StopWaited
  <2>1. TypeOK' /\ LockShape'
      BY DEF TypeOK, LockShape, Live
  <2>2. CallerShape' /\ RegistryShape'
      BY DEF CallerShape, RegistryShape, Live
  <2>3. StopShape'
      BY DEF StopShape
  <2>4. NoOrphanReader'
      BY DEF NoOrphanReader, Registered, BeingInserted, StopShape, Live
  <2> QED
      BY <2>1, <2>2, <2>3, <2>4
<1> QED
    BY <1>1, <1>2

\* Every step of the specification keeps the invariant.
LEMMA NextInv == ASSUME IndInv, [Next]_vars PROVE IndInv'
<1>1. CASE \E c \in Callers : \/ \E k \in Kinds : Ask(c, k)
                              \/ CallerSteps(c) \/ TakeLock(c) \/ Unsubscribe(c)
    BY <1>1, AskInv, WaitInv, TakeLockInv, RecheckInv, StartSourceInv, InsertInv
    DEF CallerSteps
<1>2. CASE \E s \in Live : ReaderSteps(s) \/ MarkAges(s) \/ StopSource(s)
    BY <1>2, SourceInv, StopInv
<1>3. CASE Prune \/ SessionStep \/ TearDown \/ RunEnds \/ StopWaited
    BY <1>3, PruneInv, SessionInv, DrainInv, StopInv
<1>4. CASE Shutdown
  <2> USE <1>4 DEF Shutdown, IndInv, sessionVars, callerVars, stopVars
  <2>1. cancel' \in BOOLEAN
    <3>1. cancel' = TRUE
        OBVIOUS
    <3> QED
        BY ONLY <3>1, Zenon
  <2>2. TypeOK' /\ LockShape'
      BY <2>1 DEF TypeOK, LockShape, Live
  <2>3. CallerShape' /\ RegistryShape' /\ StopShape'
      BY DEF CallerShape, RegistryShape, StopShape, Live
  <2>4. NoOrphanReader'
      BY DEF NoOrphanReader, Registered, BeingInserted, Live
  <2> QED
      BY <2>2, <2>3, <2>4
<1>5. CASE UNCHANGED vars
    BY <1>5 DEF vars, IndInv, TypeOK, LockShape, CallerShape, RegistryShape, StopShape,
       NoOrphanReader, Registered, BeingInserted, Live
<1> QED
    BY <1>1, <1>2, <1>3, <1>4, <1>5 DEF Next

\* The invariant holds in every behaviour.
THEOREM IndInvHolds == SafetySpec => []IndInv
BY InitInv, NextInv, PTL DEF SafetySpec

\* Every variable keeps its type, for any callers, kinds and bounds.
THEOREM TypeCorrect == SafetySpec => []TypeOK
<1>1. IndInv => TypeOK
    BY DEF IndInv
<1> QED
    BY <1>1, IndInvHolds, PTL

\* A source that nobody has cancelled is reachable by whoever has to stop it:
\* through the registry, its creator, or teardown's list.
THEOREM NoOrphans == SafetySpec => []NoOrphanReader
<1>1. IndInv => NoOrphanReader
    BY DEF IndInv
<1> QED
    BY <1>1, IndInvHolds, PTL

\* However many callers race through the fast path and the create lock, one kind
\* has one running source, teardown's left-overs aside.
THEOREM OneSource == SafetySpec => []OneSourcePerKind
<1>1. IndInv => OneSourcePerKind
  <2> SUFFICES ASSUME IndInv, NEW s \in Live, NEW t \in Live,
                      src[s].kind = src[t].kind,
                      ~src[s].cancelled, s \notin stopping,
                      ~src[t].cancelled, t \notin stopping
               PROVE  s = t
      BY DEF OneSourcePerKind
  <2> USE DEF IndInv
  <2>1. /\ Registered(s) \/ BeingInserted(s)
        /\ Registered(t) \/ BeingInserted(t)
      BY DEF NoOrphanReader
  <2>2. \A x \in Live : BeingInserted(x) => registry[src[x].kind] = None
      BY DEF BeingInserted, CallerShape, Creating
  <2>3. s # None /\ t # None
      BY DEF Live, None
  <2>4. CASE Registered(s) /\ Registered(t)
      BY <2>4 DEF Registered
  <2>5. CASE BeingInserted(s) /\ BeingInserted(t)
      BY <2>5 DEF BeingInserted, LockShape, Creating
  <2> QED
      BY <2>1, <2>2, <2>3, <2>4, <2>5 DEF Registered
<1> QED
    BY <1>1, IndInvHolds, PTL

\* No caller finds a source in the registry that was told to stop.
THEOREM NotCancelled == SafetySpec => []RegistryNotCancelled
<1>1. IndInv => RegistryNotCancelled
    BY DEF IndInv, RegistryShape, RegistryNotCancelled
<1> QED
    BY <1>1, IndInvHolds, PTL

\* What the run checks of the registry, for any callers, kinds, sessions and sources.
THEOREM SafetyHolds == SafetySpec => []RegistrySafety
<1>1. TypeOK /\ NoOrphanReader /\ OneSourcePerKind /\ RegistryNotCancelled => RegistrySafety
    BY DEF RegistrySafety
<1> QED
    BY <1>1, TypeCorrect, NoOrphans, OneSource, NotCancelled, PTL

-----------------------------------------------------------------------------
(* The path of the media.  Media shares no state with the registry.         *)

\* The values the variables take.
Codecs == {"Aac", "G711"}
VideoFrame == [kind : {"video"}, id : Int, key : BOOLEAN, live : BOOLEAN, pts : Int]
AudioFrame == [kind : {"audio"}, codec : Codecs, pts : Int, due : Int]
\* A frame on its way to the session: the timestamp of an audio frame is its due.
Frame == VideoFrame \union {f \in AudioFrame : f.pts = f.due}
Item == [frame : Frame, duration : Int]

CamType == [packets : Int, frames : Int]
TranslatorType == [codec : BOOLEAN, lastPts : Int, sdpAudio : BOOLEAN, pts : [Codecs -> Int]]
GapType == [state : {"Live", "Bridging"}, upstream : Int, pts : Int, at : Int]
BurstType == [id : Int, nals : SUBSET {"idr"}, pts : Int, pframes : Seq(Int)]
SdpType == [video : BOOLEAN, audio : {"none"} \union Codecs]
QueueType == [MediaKinds -> Seq(Item)]
PacerType == [MediaKinds -> [item : Item \union {NoFrame}, target : Int, cursor : Int]]
PendingType == [on : BOOLEAN, frames : Seq(Frame), lagged : BOOLEAN]
PendType == [MediaKinds -> PendingType]
SentType == [MediaKinds -> Frame \union {NoFrame}]
SessType == [phase : {"none", "waiting", "setup", "playing", "live", "ended"}, wait : BOOLEAN,
             awaiting : BOOLEAN,
             tracks : SUBSET MediaKinds, info : BOOLEAN]
HistType == [samples : [Codecs -> Int], overflow : BOOLEAN, hole : BOOLEAN,
             back : BOOLEAN, late : BOOLEAN, known : BOOLEAN]

MediaType ==
    /\ now \in Int
    /\ cam \in CamType
    /\ xl \in TranslatorType
    /\ gap \in GapType
    /\ burst \in BurstType
    /\ sdp \in SdpType
    /\ presence \in {"Unknown", "Absent", "Present"}
    /\ warm \in {"idle", "Absent", "Present"}
    /\ queue \in QueueType
    /\ pacer \in PacerType
    /\ pend \in PendType
    /\ sess \in SessType
    /\ sent \in SentType
    /\ hist \in HistType

\* The clock of each codec has counted every sample of the camera; the SDP
\* describes audio before this source says that there is audio; and what is
\* known of the camera stays known, to a client that waits too, unless the
\* warm-up wrote over it.
AudioInv ==
    /\ xl.pts = hist.samples
    /\ xl.sdpAudio => sdp.audio # "none"
    /\ PresenceHasSdp
    /\ hist.known /\ warm # "Absent" =>
         presence = "Present" /\ (sess.phase = "waiting" => sess.wait)
    /\ sent["audio"] # NoFrame => sent["audio"].kind = "audio"

MediaInv == MediaType /\ AudioInv

\* The initial state.
LEMMA MediaInitInv == MediaInit => MediaInv
<1> SUFFICES ASSUME MediaInit PROVE MediaInv
    OBVIOUS
<1> USE DEF MediaInit, Codecs
<1>1. /\ now \in Int /\ cam \in CamType
    BY DEF CamType
<1>2. xl \in TranslatorType
    BY DEF Unset, TranslatorType
<1>3. gap \in GapType
    BY DEF NewPolicy, Unset, GapType
<1>4. burst \in BurstType
    BY DEF NoBurst, Unset, BurstType
<1>5. /\ sdp \in SdpType
      /\ presence \in {"Unknown", "Absent", "Present"} /\ warm = "idle"
    BY DEF SdpType
<1>6. queue \in QueueType
    BY DEF QueueType
<1>7. pacer \in PacerType
    BY DEF Unset, PacerType
<1>8. pend \in PendType
    BY DEF PendType, PendingType
<1>9. sess \in SessType /\ sent \in SentType
    BY DEF SessType, SentType
<1>10. hist \in HistType
    BY DEF HistType
<1>11. AudioInv
    BY DEF AudioInv, PresenceHasSdp, MediaKinds
<1> QED
    BY <1>1, <1>2, <1>3, <1>4, <1>5, <1>6, <1>7, <1>8, <1>9, <1>10, <1>11 DEF MediaInv, MediaType

-----------------------------------------------------------------------------
\* A broadcast leaves the pending frames of both loops well formed.
LEMMA BroadcastType ==
    ASSUME pend \in PendType, NEW f \in Frame, Broadcast(f)
    PROVE  pend' \in PendType
<1>1. ASSUME NEW p \in PendingType
      PROVE  BroadcastTo(p, f) \in PendingType
  <2>0. p.frames \in Seq(Frame)
      BY DEF PendingType
  <2>1. CASE ~p.on
      BY <2>1 DEF BroadcastTo
  <2>2. CASE p.on /\ Len(p.frames) = BroadcastCapacity
    <3>1. p.frames # <<>>
        BY <2>2, MediaBounds
    <3>2. Append(Tail(p.frames), f) \in Seq(Frame)
        BY <2>0, <3>1
    <3> QED
        BY <2>2, <3>2 DEF BroadcastTo, PendingType
  <2>3. CASE p.on /\ Len(p.frames) # BroadcastCapacity
    <3>1. Append(p.frames, f) \in Seq(Frame)
        BY <2>0
    <3> QED
        BY <2>3, <3>1 DEF BroadcastTo, PendingType
  <2> QED
      BY <2>1, <2>2, <2>3
<1> QED
    BY <1>1 DEF Broadcast, PendType

\* A frame handed to a pacer is queued, or dropped and the drop remembered.
LEMMA DispatchType ==
    ASSUME queue \in QueueType, hist \in HistType,
           NEW k \in MediaKinds, NEW f \in Frame, NEW d \in Int,
           DispatchPaced(k, f, d)
    PROVE  /\ queue' \in QueueType
           /\ hist' \in HistType
           /\ hist'.samples = hist.samples /\ hist'.known = hist.known
<1>1. CASE Len(queue[k]) = PacerQueue
    BY <1>1 DEF HistType, DispatchPaced
<1>2. CASE Len(queue[k]) # PacerQueue
  <2>1. [frame |-> f, duration |-> d] \in Item
      BY DEF Item
  <2>2. Append(queue[k], [frame |-> f, duration |-> d]) \in Seq(Item)
      BY <2>1 DEF QueueType
  <2>3. queue' = [queue EXCEPT ![k] = Append(@, [frame |-> f, duration |-> d])] /\ hist' = hist
      BY <1>2 DEF DispatchPaced
  <2> QED
      BY <2>2, <2>3 DEF QueueType
<1> QED
    BY <1>1, <1>2

\* The conversions of timestamps and durations stay integers.
LEMMA PtsType == ASSUME NEW t \in Int PROVE Pts(t) \in Int
BY DEF Pts, micros_to_90khz

\* The distance between two frames is an integer.
LEMMA DurationType ==
    ASSUME xl \in TranslatorType, NEW pts \in Int PROVE video_frame_duration(pts) \in Int
<1>1. xl.lastPts \in Int
    BY DEF TranslatorType
<1>2. (pts - xl.lastPts) \div 9 \in Int
    BY <1>1
<1> QED
    BY <1>2 DEF video_frame_duration

\* When the pacer is to send a frame.
LEMMA TargetType ==
    ASSUME now \in Int, NEW c \in Int, NEW s \in BOOLEAN,
           NEW lead \in Nat, NEW latency \in Nat
    PROVE  next_target(c, lead, latency, s) \in Int
BY DEF next_target

-----------------------------------------------------------------------------
\* A step that changes nothing.
LEMMA MediaStutter == ASSUME MediaInv, UNCHANGED mediaVars PROVE MediaInv'
BY DEF MediaInv, MediaType, AudioInv, mediaVars, PresenceHasSdp

\* The pacer takes a frame from its queue.
LEMMA PacerTakesInv ==
    ASSUME MediaInv, NEW k \in MediaKinds, PacerTakes(k) PROVE MediaInv'
<1> USE DEF MediaInv, MediaType
<1>1. queue[k] \in Seq(Item) /\ queue[k] # <<>>
    BY DEF PacerTakes, QueueType
<1>2. Head(queue[k]) \in Item /\ Tail(queue[k]) \in Seq(Item)
    BY <1>1
<1>3. queue' \in QueueType
    BY <1>2 DEF PacerTakes, QueueType
<1>4. Target(k) \in Int
  <2>1. pacer[k].cursor \in Int
      BY DEF PacerType
  <2>2. {VideoMaxLead, VideoLatency, AudioMaxLead, AudioLatency} \subseteq Nat
      BY MediaBounds
  <2> QED
      BY <2>1, <2>2, TargetType DEF Target
<1>5. pacer' \in PacerType
    BY <1>2, <1>4 DEF PacerTakes, PacerType
<1>6. AudioInv'
    BY DEF PacerTakes, AudioInv, PresenceHasSdp
<1> QED
    BY <1>3, <1>5, <1>6 DEF PacerTakes

\* The pacer sends the frame it holds.
LEMMA PacerSendsInv ==
    ASSUME MediaInv, NEW k \in MediaKinds, PacerSends(k) PROVE MediaInv'
<1> USE DEF MediaInv, MediaType
<1>1. pacer[k] \in [item : Item \union {NoFrame}, target : Int, cursor : Int]
    BY DEF PacerType
<1>2. pacer[k].item \in Item
    BY <1>1 DEF PacerSends
<1>3. pacer[k].item.frame \in Frame /\ pacer[k].item.duration \in Int
    BY <1>2 DEF Item
<1>4. pend' \in PendType
    BY <1>3, BroadcastType DEF PacerSends
<1>5. pacer' \in PacerType
    BY <1>1, <1>3 DEF PacerType, PacerSends
<1>6. AudioInv'
    BY DEF PacerSends, AudioInv, PresenceHasSdp
<1> QED
    BY <1>4, <1>5, <1>6 DEF PacerSends

\* A key frame of the camera.
LEMMA IframeInv ==
    ASSUME MediaInv, NEW unit, Iframe(unit),
           UNCHANGED <<feed, now, warm, pacer, pend, sess, sent>>
    PROVE  MediaInv'
<1> DEFINE id    == cam.frames + 1
           pts   == Pts(now)
           f     == [kind |-> "video", id |-> id, key |-> TRUE, live |-> TRUE, pts |-> pts]
           nals  == {n \in unit : is_decodable_nal(n)}
           slices == {n \in nals : ~is_parameter_set_nal(n)}
<1>1. id \in Int /\ pts \in Int /\ now \in Int
    BY PtsType DEF MediaInv, MediaType, CamType
<1>2. f \in Frame
    BY <1>1 DEF Frame, VideoFrame
<1>3. cam' \in CamType
    BY <1>1 DEF Iframe, MediaInv, MediaType, CamType
<1>4. sdp' \in SdpType /\ sdp'.audio = sdp.audio
    BY DEF Iframe, MediaInv, MediaType, SdpType
<1>5. burst' \in BurstType
    BY <1>1 DEF Iframe, BurstType, extract_iframe_parts
<1>6. /\ queue' \in QueueType /\ hist' \in HistType
      /\ hist'.samples = hist.samples /\ hist'.known = hist.known
      /\ xl' \in TranslatorType /\ xl'.pts = xl.pts /\ xl'.sdpAudio = xl.sdpAudio
      /\ gap' \in GapType
  <2>1. /\ queue \in QueueType /\ hist \in HistType /\ xl \in TranslatorType /\ gap \in GapType
      BY DEF MediaInv, MediaType
  <2>2. CASE slices # {}
    <3>1. /\ DispatchPaced("video", f, video_frame_duration(pts))
          /\ xl' = [xl EXCEPT !.codec = TRUE, !.lastPts = pts]
          /\ gap' = on_broadcast(on_upstream_packet(gap), pts)
        BY <2>2 DEF Iframe
    <3>2. video_frame_duration(pts) \in Int
        BY <1>1, <2>1, DurationType
    <3>3. /\ queue' \in QueueType /\ hist' \in HistType
          /\ hist'.samples = hist.samples /\ hist'.known = hist.known
        BY <1>2, <2>1, <3>1, <3>2, DispatchType DEF MediaKinds
    <3>4. xl' \in TranslatorType /\ xl'.pts = xl.pts /\ xl'.sdpAudio = xl.sdpAudio
        BY <1>1, <2>1, <3>1 DEF TranslatorType
    <3>5. gap' \in GapType
        BY <1>1, <2>1, <3>1 DEF GapType, on_broadcast, on_upstream_packet
    <3> QED
        BY <3>3, <3>4, <3>5
  <2>3. CASE slices = {}
    <3>1. /\ xl' = [xl EXCEPT !.codec = TRUE]
          /\ gap' = on_upstream_packet(gap)
          /\ queue' = queue /\ hist' = hist
        BY <2>3 DEF Iframe
    <3>2. xl' \in TranslatorType /\ xl'.pts = xl.pts /\ xl'.sdpAudio = xl.sdpAudio
        BY <2>1, <3>1 DEF TranslatorType
    <3>3. gap' \in GapType
        BY <1>1, <2>1, <3>1 DEF GapType, on_upstream_packet
    <3> QED
        BY <2>1, <3>1, <3>2, <3>3
  <2> QED
      BY <2>2, <2>3
<1>7. presence' = presence
    BY DEF Iframe
<1>8. AudioInv'
    BY <1>4, <1>6, <1>7 DEF AudioInv, MediaInv, PresenceHasSdp
<1> QED
    BY <1>3, <1>4, <1>5, <1>6, <1>7, <1>8 DEF MediaInv, MediaType

\* The burst keeps a bounded tail of the frames that depend on its key frame.
LEMMA AppendPframeType ==
    ASSUME burst \in BurstType, NEW id \in Int
    PROVE  append_pframe(id) \in BurstType
<1> DEFINE all == Append(burst.pframes, id)
<1>1. all \in Seq(Int) /\ Len(all) \in Nat /\ MaxPframes \in Nat
    BY MediaBounds DEF BurstType
<1>2. SubSeq(all, Len(all) - MaxPframes + 1, Len(all)) \in Seq(Int) \/ ~(Len(all) > MaxPframes)
    BY <1>1
<1> QED
    BY <1>1, <1>2 DEF append_pframe, BurstType

\* Any other frame of the camera.
LEMMA PframeInv ==
    ASSUME MediaInv, NEW unit, Pframe(unit),
           UNCHANGED <<feed, now, warm, pacer, pend, sess, sent>>
    PROVE  MediaInv'
<1> DEFINE id    == cam.frames + 1
           pts   == Pts(now)
           f     == [kind |-> "video", id |-> id, key |-> FALSE, live |-> TRUE, pts |-> pts]
           nals  == {n \in unit : is_decodable_nal(n)}
<1>1. id \in Int /\ pts \in Int /\ now \in Int
    BY PtsType DEF MediaInv, MediaType, CamType
<1>2. f \in Frame
    BY <1>1 DEF Frame, VideoFrame
<1>3. cam' \in CamType
    BY <1>1 DEF Pframe, MediaInv, MediaType, CamType
<1>4. /\ queue' \in QueueType /\ hist' \in HistType
      /\ hist'.samples = hist.samples /\ hist'.known = hist.known
      /\ xl' \in TranslatorType /\ xl'.pts = xl.pts /\ xl'.sdpAudio = xl.sdpAudio
      /\ gap' \in GapType /\ burst' \in BurstType
  <2>1. /\ queue \in QueueType /\ hist \in HistType /\ xl \in TranslatorType /\ gap \in GapType
        /\ burst \in BurstType
      BY DEF MediaInv, MediaType
  <2>2. CASE ~xl.codec \/ nals = {}
    <3>1. gap' = on_upstream_packet(gap) /\ UNCHANGED <<xl, burst, queue, hist>>
        BY <2>2 DEF Pframe
    <3>2. gap' \in GapType
        BY <1>1, <2>1, <3>1 DEF GapType, on_upstream_packet
    <3> QED
        BY <2>1, <3>1, <3>2
  <2>3. CASE ~(~xl.codec \/ nals = {})
    <3>1. /\ burst' = append_pframe(id)
          /\ DispatchPaced("video", f, video_frame_duration(pts))
          /\ xl' = [xl EXCEPT !.lastPts = pts]
          /\ gap' = on_broadcast(on_upstream_packet(gap), pts)
        BY <2>3 DEF Pframe
    <3>2. video_frame_duration(pts) \in Int
        BY <1>1, <2>1, DurationType
    <3>3. /\ queue' \in QueueType /\ hist' \in HistType
          /\ hist'.samples = hist.samples /\ hist'.known = hist.known
        BY <1>2, <2>1, <3>1, <3>2, DispatchType DEF MediaKinds
    <3>4. xl' \in TranslatorType /\ xl'.pts = xl.pts /\ xl'.sdpAudio = xl.sdpAudio
        BY <1>1, <2>1, <3>1 DEF TranslatorType
    <3>5. gap' \in GapType
        BY <1>1, <2>1, <3>1 DEF GapType, on_broadcast, on_upstream_packet
    <3>6. burst' \in BurstType
        BY <1>1, <2>1, <3>1, AppendPframeType
    <3> QED
        BY <3>3, <3>4, <3>5, <3>6
  <2> QED
      BY <2>2, <2>3
<1>5. sdp' = sdp /\ presence' = presence
    BY DEF Pframe
<1>6. AudioInv'
    BY <1>4, <1>5 DEF AudioInv, MediaInv, PresenceHasSdp
<1> QED
    BY <1>3, <1>4, <1>5, <1>6 DEF MediaInv, MediaType

\* An audio packet: its frame carries the clock of its codec, which has counted
\* every sample of the camera, and the SDP describes audio before presence does.
LEMMA AudioPacketInv ==
    ASSUME MediaInv, NEW p \in AudioUnits(feed), AudioPacket(p),
           UNCHANGED <<feed, now, warm, pacer, pend, sess, sent>>
    PROVE  MediaInv'
<1> DEFINE a == AudioOf(p)
           f == [kind |-> "audio", codec |-> a.codec, pts |-> xl.pts[a.codec],
                 due |-> hist.samples[a.codec]]
<1>1. /\ a.codec \in Codecs /\ a.parses \in BOOLEAN /\ a.step \in Int
      /\ ~a.parses => a.step = 0
  <2>1. p \in {"aac", "aac_aot", "aac_bad", "adpcm"}
      BY DEF AudioUnits
  <2>2. \/ a = [codec |-> "Aac", parses |-> TRUE, step |-> 1]
        \/ a = [codec |-> "Aac", parses |-> TRUE, step |-> 0]
        \/ a = [codec |-> "Aac", parses |-> FALSE, step |-> 0]
        \/ a = [codec |-> "G711", parses |-> TRUE, step |-> 2]
      BY <2>1 DEF AudioOf, Adpcm
  <2> HIDE DEF a
  <2>3. a.codec \in Codecs /\ a.step \in Int
      BY <2>2 DEF Codecs
  <2>4. a.parses = TRUE \/ (a.parses = FALSE /\ a.step = 0)
      BY <2>2
  <2> QED
      BY <2>3, <2>4
<1>2. /\ xl \in TranslatorType /\ hist \in HistType /\ sdp \in SdpType /\ cam \in CamType
      /\ queue \in QueueType /\ xl.pts = hist.samples
    BY DEF MediaInv, MediaType, AudioInv
<1>3. f \in Frame
    BY <1>1, <1>2 DEF Frame, AudioFrame, TranslatorType, HistType
<1>4. cam' \in CamType
    BY <1>2 DEF AudioPacket, CamType
<1>5. /\ hist' \in HistType
      /\ hist'.samples = [hist.samples EXCEPT ![a.codec] = @ + a.step]
      /\ hist'.known = hist.known
  <2>1. hist' = [hist EXCEPT !.samples = [hist.samples EXCEPT ![a.codec] = @ + a.step]]
      BY <1>1, <1>2 DEF AudioPacket, HistType
  <2>2. [hist.samples EXCEPT ![a.codec] = @ + a.step] \in [Codecs -> Int]
      BY <1>1, <1>2 DEF HistType
  <2> HIDE DEF a
  <2> QED
      BY <1>2, <2>1, <2>2 DEF HistType
<1>6. /\ xl' \in TranslatorType
      /\ xl'.pts = [xl.pts EXCEPT ![a.codec] = @ + a.step]
      /\ xl'.sdpAudio = (xl.sdpAudio \/ a.parses)
  <2>1. CASE a.parses
    <3>1. xl' = [xl EXCEPT !.sdpAudio = TRUE, !.pts[a.codec] = @ + a.step]
        BY <2>1 DEF AudioPacket, AudioState
    <3>2. xl' = [xl EXCEPT !.sdpAudio = TRUE, !.pts = [xl.pts EXCEPT ![a.codec] = @ + a.step]]
        BY <1>2, <3>1 DEF TranslatorType
    <3>3. [xl.pts EXCEPT ![a.codec] = @ + a.step] \in [Codecs -> Int]
        BY <1>1, <1>2 DEF TranslatorType
    <3> HIDE DEF a
    <3> QED
        BY <1>2, <2>1, <3>2, <3>3 DEF TranslatorType
  <2>2. CASE ~a.parses
    <3>1. xl' = xl /\ a.step = 0
        BY <1>1, <2>2 DEF AudioPacket
    <3> QED
        BY <1>1, <1>2, <2>2, <3>1 DEF TranslatorType
  <2> QED
      BY <1>1, <2>1, <2>2
<1>7. /\ sdp' \in SdpType
      /\ sdp.audio # "none" => sdp'.audio # "none"
      /\ a.parses /\ ~xl.sdpAudio => sdp'.audio # "none"
  <2>1. sdp' = IF a.parses /\ ~xl.sdpAudio /\ sdp.audio = "none"
               THEN [sdp EXCEPT !.audio = a.codec] ELSE sdp
      BY DEF AudioPacket
  <2>2. a.codec # "none"
      BY <1>1 DEF Codecs
  <2> QED
      BY <1>1, <1>2, <2>1, <2>2 DEF SdpType
<1>8. /\ presence' \in {"Unknown", "Absent", "Present"}
      /\ presence' = "Present" => presence = "Present" \/ a.parses
      /\ presence = "Present" => presence' = "Present"
    BY DEF AudioPacket, AudioSeen, observed, MediaInv, MediaType
<1>9. queue' \in QueueType
  <2>1. [frame |-> f, duration |-> a.step] \in Item
      BY <1>1, <1>3 DEF Item
  <2>2. Append(queue["audio"], [frame |-> f, duration |-> a.step]) \in Seq(Item)
      BY <1>2, <2>1 DEF QueueType, MediaKinds
  <2>3. \/ queue' = queue
        \/ queue' = [queue EXCEPT !["audio"] = Append(@, [frame |-> f, duration |-> a.step])]
      BY DEF AudioPacket
  <2> QED
      BY <1>2, <2>2, <2>3 DEF QueueType
<1>10. gap' = gap /\ burst' = burst
    BY DEF AudioPacket
<1>11. AudioInv'
    BY <1>2, <1>5, <1>6, <1>7, <1>8 DEF AudioInv, MediaInv, PresenceHasSdp
<1> QED
    BY <1>4, <1>5, <1>6, <1>7, <1>8, <1>9, <1>10, <1>11 DEF MediaInv, MediaType

\* The clock advances; while a gap is bridged the key frame is broadcast again.
LEMMA TickInv == ASSUME MediaInv, Tick PROVE MediaInv'
<1> DEFINE t == now + 1
           g == on_tick(gap, t)
           synth == advance_replay_pts(g, burst.pts, t)
           f == [kind |-> "video", id |-> burst.id, key |-> TRUE, live |-> FALSE, pts |-> synth]
<1>1. /\ now \in Int /\ gap \in GapType /\ pend \in PendType
      /\ burst.id \in Int /\ burst.pts \in Int
    BY DEF MediaInv, MediaType, BurstType
<1>2. g \in GapType /\ t \in Int
    BY <1>1 DEF GapType, on_tick
<1>3. synth \in Int
  <2>1. g.pts \in Int /\ g.at \in Int
      BY <1>2 DEF GapType
  <2>2. Pts(t - g.at) \in Int
      BY <1>2, <2>1, PtsType
  <2> HIDE DEF g, t
  <2> QED
      BY <1>1, <2>1, <2>2 DEF advance_replay_pts
<1>4. f \in Frame
    BY <1>1, <1>3 DEF Frame, VideoFrame
<1>5. /\ now' = t
      /\ \/ gap' = [g EXCEPT !.pts = synth, !.at = t] /\ Broadcast(f)
         \/ gap' = g /\ pend' = pend
    BY DEF Tick
<1>6. UNCHANGED <<cam, xl, burst, sdp, presence, warm, queue, pacer, sess, sent, hist>>
    BY DEF Tick
<1> HIDE DEF g, t, synth, f
<1>7. gap' \in GapType
    BY <1>2, <1>3, <1>5 DEF GapType
<1>8. pend' \in PendType
    BY <1>1, <1>4, <1>5, BroadcastType
<1>9. AudioInv'
    BY <1>6 DEF AudioInv, MediaInv, PresenceHasSdp
<1> QED
    BY <1>2, <1>5, <1>6, <1>7, <1>8, <1>9 DEF MediaInv, MediaType

\* The requests of the client: SETUP, a further SETUP, PLAY.
LEMMA SetupInv ==
    ASSUME MediaInv, NEW k \in MediaKinds, Setup(k) \/ append_track(k) \/ Play
    PROVE  MediaInv'
<1>1. sess \in SessType /\ pend \in PendType /\ "video" \in MediaKinds /\ "audio" \in MediaKinds
    BY DEF MediaInv, MediaType, MediaKinds
<1>2. ASSUME NEW j \in MediaKinds
      PROVE  [pend EXCEPT ![j].on = TRUE] \in PendType
  <2>1. [pend[j] EXCEPT !.on = TRUE] \in PendingType
      BY <1>1 DEF PendType, PendingType
  <2> QED
      BY <1>1, <2>1 DEF PendType
<1>3. pend' \in PendType
    BY <1>1, <1>2 DEF Setup, append_track, Play
<1>4. sess' \in SessType
  <2>1. CASE Setup(k)
      BY <1>1, <2>1 DEF Setup, SessType
  <2>2. CASE append_track(k)
    <3>1. sess.tracks \union {k} \in SUBSET MediaKinds
        BY <1>1 DEF SessType
    <3> QED
        BY <1>1, <2>2, <3>1 DEF append_track, SessType
  <2>3. CASE Play
      BY <1>1, <2>3 DEF Play, SessType
  <2> QED
      BY <2>1, <2>2, <2>3
<1>5. UNCHANGED <<now, cam, xl, gap, burst, sdp, presence, warm, queue, pacer, sent, hist>>
    BY DEF Setup, append_track, Play
<1>6. AudioInv'
  <2>1. CASE Setup(k)
    <3>1. sess.phase = "waiting" /\ sess'.phase = "setup" /\ SdpReady
        BY <1>1, <2>1 DEF Setup, SessType
    <3>2. hist.known /\ warm # "Absent" => sdp.audio # "none"
        BY <3>1 DEF SdpReady, MediaInv, AudioInv
    <3> QED
        BY <1>5, <3>1, <3>2 DEF AudioInv, MediaInv, PresenceHasSdp
  <2>2. CASE append_track(k) \/ Play
    <3>1. sess.phase \notin {"none", "waiting"} /\ sess'.phase \notin {"none", "waiting"}
        BY <1>1, <2>2 DEF append_track, Play, SessType
    <3> QED
        BY <1>5, <3>1 DEF AudioInv, MediaInv, PresenceHasSdp
  <2> QED
      BY <2>1, <2>2
<1> QED
    BY <1>3, <1>4, <1>5, <1>6 DEF MediaInv, MediaType

\* The client asks for the stream and may be told that it is not there; the
\* warm-up writes what it saw of the camera's audio.
LEMMA WaitsInv ==
    ASSUME MediaInv, classify_presence \/ SdpTimesOut \/ WarmCommits
    PROVE  MediaInv'
<1>1. sess \in SessType /\ sdp \in SdpType
    BY DEF MediaInv, MediaType
<1>2. CASE classify_presence \/ SdpTimesOut
  <2>1. UNCHANGED <<now, cam, xl, gap, burst, sdp, presence, warm, queue, pacer, pend, sent, hist>>
      BY <1>2 DEF classify_presence, SdpTimesOut
  <2>2. /\ sess' \in SessType
        /\ \/ sess'.phase = "none"
           \/ sess'.phase = "waiting" /\ (presence = "Present" => sess'.wait)
      BY <1>1, <1>2 DEF classify_presence, SdpTimesOut, SessType
  <2>3. AudioInv'
      BY <2>1, <2>2 DEF AudioInv, MediaInv, PresenceHasSdp
  <2> QED
      BY <2>1, <2>2, <2>3 DEF MediaInv, MediaType
<1>3. CASE WarmCommits
  <2>1. UNCHANGED <<now, cam, xl, gap, burst, sdp, queue, pacer, pend, sess, sent, hist>>
      BY <1>3 DEF WarmCommits
  <2>2. /\ warm = "idle" /\ presence' = warm'
        /\ warm' = "Absent" \/ (warm' = "Present" /\ sdp.audio # "none")
      BY <1>3 DEF WarmCommits
  <2>3. AudioInv'
      BY <2>1, <2>2 DEF AudioInv, MediaInv, PresenceHasSdp
  <2> QED
      BY <2>1, <2>2, <2>3 DEF MediaInv, MediaType
<1> QED
    BY <1>2, <1>3

\* The replay of the burst when the session starts to play.
LEMMA ReplayInv ==
    ASSUME MediaInv, NEW goes \in BOOLEAN, ReplayBurst(goes) PROVE MediaInv'
<1> DEFINE f == [kind |-> "video", id |-> burst.id, key |-> TRUE, live |-> FALSE,
                 pts |-> burst.pts]
<1>1. sess \in SessType /\ sent \in SentType /\ burst.id \in Int /\ burst.pts \in Int
    BY DEF MediaInv, MediaType, BurstType
<1>2. f \in Frame
    BY <1>1 DEF Frame, VideoFrame
<1>3. sess' \in SessType /\ sess.phase = "playing" /\ sess'.phase = "live"
    BY <1>1 DEF ReplayBurst, SessType
<1>4. sent' = sent \/ sent' = [sent EXCEPT !["video"] = f]
    BY DEF ReplayBurst
<1> HIDE DEF f
<1>5. sent' \in SentType /\ sent'["audio"] = sent["audio"]
    BY <1>1, <1>2, <1>4 DEF SentType, MediaKinds
<1>6. UNCHANGED <<now, cam, xl, gap, burst, sdp, presence, warm, queue, pacer, pend, hist>>
    BY DEF ReplayBurst
<1>7. AudioInv'
    BY <1>3, <1>5, <1>6 DEF AudioInv, MediaInv, PresenceHasSdp
<1> QED
    BY <1>3, <1>5, <1>6, <1>7 DEF MediaInv, MediaType

\* What a dispatch loop takes is a frame of its own kind.
LEMMA TakesType ==
    ASSUME pend \in PendType, NEW k \in MediaKinds, Takes(k) # NoFrame
    PROVE  Takes(k) \in Frame /\ Takes(k).kind = k
<1>1. pend[k].frames \in Seq(Frame)
    BY DEF PendType, PendingType
<1>2. /\ pend[k].frames # <<>> /\ Head(pend[k].frames).kind = k
      /\ Takes(k) = Head(pend[k].frames)
    BY DEF Takes
<1> QED
    BY <1>1, <1>2

\* A loop drops the first of its frames.
LEMMA PendTail ==
    ASSUME pend \in PendType, NEW k \in MediaKinds, pend[k].frames # <<>>
    PROVE  [pend EXCEPT ![k].frames = Tail(@)] \in PendType
<1>1. Tail(pend[k].frames) \in Seq(Frame)
    BY DEF PendType, PendingType
<1>2. [pend[k] EXCEPT !.frames = Tail(@)] \in PendingType
    BY <1>1 DEF PendType, PendingType
<1> QED
    BY <1>2 DEF PendType

\* The video loop sends a frame or drops it.
LEMMA VideoLoopInv == ASSUME MediaInv, VideoLoop PROVE MediaInv'
<1> DEFINE f == Takes("video")
<1>1. /\ sess \in SessType /\ sent \in SentType /\ pend \in PendType /\ hist \in HistType
      /\ "video" \in MediaKinds
    BY DEF MediaInv, MediaType, MediaKinds
<1>2. pend' \in PendType
    BY <1>1, PendTail DEF VideoLoop
<1>3. /\ sess' \in SessType /\ sent' \in SentType /\ hist' \in HistType
      /\ sent'["audio"] = sent["audio"] /\ sess'.phase = sess.phase
      /\ hist'.samples = hist.samples /\ hist'.known = hist.known
  <2>1. CASE f = NoFrame
      BY <1>1, <2>1 DEF VideoLoop
  <2>2. CASE f # NoFrame
    <3>1. f \in Frame
        BY <1>1, <2>2, TakesType
    <3>2. sent' = [sent EXCEPT !["video"] = f]
        BY <2>2 DEF VideoLoop
    <3>3. sess' = [sess EXCEPT !.info = TRUE, !.awaiting = FALSE]
      <4>1. sess' = [dispatch_one("video") EXCEPT !.awaiting = FALSE]
          BY <2>2 DEF VideoLoop
      <4> QED
          BY <1>1, <4>1 DEF dispatch_one, SessType
    <3>4. PICK h \in BOOLEAN, b \in BOOLEAN, l \in BOOLEAN :
             hist' = [hist EXCEPT !.hole = h, !.back = b, !.late = l]
      <4> DEFINE h == hist.hole \/ Hole(f)
                 b == hist.back \/ (sent["video"] # NoFrame /\ f.pts < sent["video"].pts)
                 l == hist.late \/ (~sess.info /\ sent["video"] # NoFrame)
      <4>1. hist' = [hist EXCEPT !.hole = h, !.back = b, !.late = l]
          BY <2>2 DEF VideoLoop
      <4>2. h \in BOOLEAN /\ b \in BOOLEAN /\ l \in BOOLEAN
          BY Zenon
      <4> HIDE DEF h, b, l
      <4> QED
          BY <4>1, <4>2
    <3> HIDE DEF f
    <3>5. sent' \in SentType /\ sent'["audio"] = sent["audio"]
        BY <1>1, <3>1, <3>2 DEF SentType, MediaKinds
    <3>6. sess' \in SessType /\ sess'.phase = sess.phase
        BY <1>1, <3>3 DEF SessType
    <3>7. /\ hist' \in HistType
          /\ hist'.samples = hist.samples /\ hist'.known = hist.known
        BY <1>1, <3>4 DEF HistType
    <3> QED
        BY <3>5, <3>6, <3>7
  <2> QED
      BY <2>1, <2>2
<1>4. UNCHANGED <<now, cam, xl, gap, burst, sdp, presence, warm, queue, pacer>>
    BY DEF VideoLoop
<1>5. sess.phase = "live"
    BY DEF VideoLoop
<1>6. AudioInv'
    BY <1>3, <1>4, <1>5 DEF AudioInv, MediaInv, PresenceHasSdp
<1> QED
    BY <1>2, <1>3, <1>4, <1>6 DEF MediaInv, MediaType

\* The audio loop sends audio frames only.
LEMMA AudioLoopInv == ASSUME MediaInv, AudioLoop PROVE MediaInv'
<1> DEFINE f == Takes("audio")
<1>1. sent \in SentType /\ pend \in PendType /\ "audio" \in MediaKinds
    BY DEF MediaInv, MediaType, MediaKinds
<1>2. pend' \in PendType
    BY <1>1, PendTail DEF AudioLoop
<1>3. \/ sent' = sent
      \/ sent' = [sent EXCEPT !["audio"] = f] /\ f \in Frame /\ f.kind = "audio"
    BY <1>1, TakesType DEF AudioLoop
<1>4. UNCHANGED <<now, cam, xl, gap, burst, sdp, presence, warm, queue, pacer, sess, hist>>
    BY DEF AudioLoop
<1> HIDE DEF f
<1>5. sent' \in SentType
    BY <1>1, <1>3 DEF SentType
<1>6. AudioInv'
    BY <1>1, <1>3, <1>4 DEF AudioInv, MediaInv, PresenceHasSdp, SentType
<1> QED
    BY <1>2, <1>4, <1>5, <1>6 DEF MediaInv, MediaType

\* The session ends.
LEMMA EndInv == ASSUME MediaInv, NEW k \in MediaKinds, End(k) PROVE MediaInv'
<1>1. sess \in SessType
    BY DEF MediaInv, MediaType
<1>2. sess' \in SessType /\ sess.phase = "live" /\ sess'.phase = "ended"
    BY <1>1 DEF End, close_all, SessType
<1>3. [on |-> FALSE, frames |-> <<>>, lagged |-> FALSE] \in PendingType
    BY DEF PendingType
<1>4. pend' \in PendType
    BY <1>3 DEF End, PendType
<1>5. UNCHANGED <<now, cam, xl, gap, burst, sdp, presence, warm, queue, pacer, sent, hist>>
    BY DEF End
<1>6. AudioInv'
    BY <1>2, <1>5 DEF AudioInv, MediaInv, PresenceHasSdp
<1> QED
    BY <1>2, <1>4, <1>5, <1>6 DEF MediaInv, MediaType

\* Every step keeps the invariant.
LEMMA MediaNextInv == ASSUME MediaInv, [MediaNext]_mediaVars PROVE MediaInv'
<1>1. CASE Packet
    BY <1>1, IframeInv, PframeInv, AudioPacketInv DEF Packet
<1>2. CASE Tick
    BY <1>2, TickInv
<1>3. CASE \E k \in MediaKinds : PacerTakes(k) \/ PacerSends(k)
    BY <1>3, PacerTakesInv, PacerSendsInv
<1>4. CASE Play \/ \E k \in MediaKinds : Setup(k) \/ append_track(k)
  <2>1. "video" \in MediaKinds
      BY DEF MediaKinds
  <2> QED
      BY <1>4, <2>1, SetupInv
<1>5. CASE \E goes \in BOOLEAN : ReplayBurst(goes)
    BY <1>5, ReplayInv
<1>6. CASE VideoLoop \/ AudioLoop
    BY <1>6, VideoLoopInv, AudioLoopInv
<1>7. CASE \E k \in MediaKinds : End(k)
    BY <1>7, EndInv
<1>8. CASE classify_presence \/ SdpTimesOut \/ WarmCommits
    BY <1>8, WaitsInv
<1>9. CASE UNCHANGED mediaVars
    BY <1>9, MediaStutter
<1> QED
    BY <1>1, <1>2, <1>3, <1>4, <1>5, <1>6, <1>7, <1>8, <1>9 DEF MediaNext

\* The invariant of types and of the audio clock holds.
LEMMA MediaInvHolds == MediaSpec => []MediaInv
<1>1. MediaInit => MediaInv
    BY MediaInitInv
<1>2. MediaInv /\ [MediaNext]_mediaVars => MediaInv'
    BY MediaNextInv
<1> QED
    BY <1>1, <1>2, PTL DEF MediaSpec

\* The timestamp of every audio frame sent counts the samples the camera produced
\* before it, those of packets dropped in a gap included (stream_translate.rs,
\* translate_aac), for any latencies, queue sizes and feeds.
THEOREM AudioInStep == MediaSpec => []AudioClock
<1>1. MediaInv => AudioClock
  <2> SUFFICES ASSUME MediaInv, sent["audio"] # NoFrame
               PROVE  sent["audio"].pts = sent["audio"].due
      BY DEF AudioClock
  <2>1. sent["audio"] \in Frame /\ sent["audio"].kind = "audio"
      BY DEF MediaInv, MediaType, AudioInv, SentType, MediaKinds
  <2> QED
      BY <2>1 DEF Frame, VideoFrame, AudioFrame
<1> QED
    BY <1>1, MediaInvHolds, PTL

\* A source marks its camera as having audio only when its SDP describes it, and
\* a client of a camera known to have audio gets no SDP without it
\* (stream_source.rs, apply_bcmedia_packet; camera_provider.rs, subscribe),
\* whatever was known when the source started.
THEOREM PresenceMeansSdp == MediaSpec => []PresenceHasSdp
<1>1. MediaInv => PresenceHasSdp
    BY DEF MediaInv, AudioInv
<1> QED
    BY <1>1, MediaInvHolds, PTL

-----------------------------------------------------------------------------
(* The run of frames.  Of a camera whose gaps are not bridged, and while no *)
(* queue has overflowed, what is pending, what the pacer holds and what is  *)
(* queued for it are together an unbroken run of the camera's last frames.  *)

\* f is frame n of the camera.
LiveFrame(f, n) == f.kind = "video" /\ f.live /\ f.id = n

\* s is a run of live frames, the last with number n.
FrameRun(s, n) == \A i \in 1..Len(s) : LiveFrame(s[i], n - Len(s) + i)
ItemRun(s, n) == \A i \in 1..Len(s) : LiveFrame(s[i].frame, n - Len(s) + i)

Held == IF pacer["video"].item = NoFrame THEN 0 ELSE 1
Queued == Len(queue["video"])
Pending == Len(pend["video"].frames)

\* Nothing but the camera's live video is on its way.
RunQuiet ==
    /\ gap.state = "Live"
    /\ queue["audio"] = <<>>
    /\ pacer["audio"].item = NoFrame

RunPipe ==
    /\ ItemRun(queue["video"], cam.frames)
    /\ Held = 1 => LiveFrame(pacer["video"].item.frame, cam.frames - Queued)
    /\ FrameRun(pend["video"].frames, cam.frames - Queued - Held)

\* Frames before the first key frame are not taken.
RunStart ==
    ~xl.codec => /\ Queued = 0 /\ Held = 0 /\ Pending = 0
                 /\ burst.nals = {}
                 /\ sent["video"] = NoFrame

\* The session receives from its first SETUP on, and sends nothing before PLAY.
RunSession ==
    /\ ~pend["video"].on => Pending = 0
    /\ sess.phase \in {"setup", "playing", "live"} => pend["video"].on
    /\ sess.phase \in {"none", "waiting", "setup", "playing"} => sent["video"] = NoFrame

\* What the session sent last comes right before what is pending for it; after
\* a replay it waits for a key frame.
RunSent ==
    (sess.phase = "live" /\ sent["video"] # NoFrame) =>
        /\ "video" \in sess.tracks
        /\ ~sent["video"].live => sess.awaiting
        /\ sent["video"].live =>
              /\ ~sess.awaiting
              /\ ~pend["video"].lagged => sent["video"].id = cam.frames - Queued - Held - Pending

\* The cameras and times StreamWhole speaks of, and what holds then.
Unbroken == feed = "plain" /\ ~hist.overflow
RunInv == RunQuiet /\ RunPipe /\ RunStart /\ RunSession /\ RunSent /\ ~hist.hole

\* A run is continued by the next frame, and stays one without its first.
LEMMA FrameRunAppend ==
    ASSUME NEW s \in Seq(Frame), NEW f \in Frame, NEW n \in Int,
           FrameRun(s, n), LiveFrame(f, n + 1)
    PROVE  FrameRun(Append(s, f), n + 1) /\ Len(Append(s, f)) = Len(s) + 1
<1>1. ASSUME NEW i \in 1..Len(s)
      PROVE  LiveFrame(Append(s, f)[i], n + 1 - (Len(s) + 1) + i)
  <2>1. Append(s, f)[i] = s[i] /\ n + 1 - (Len(s) + 1) + i = n - Len(s) + i
      OBVIOUS
  <2> QED
      BY <2>1 DEF FrameRun
<1>2. Append(s, f)[Len(s) + 1] = f /\ n + 1 - (Len(s) + 1) + (Len(s) + 1) = n + 1
    OBVIOUS
<1>3. Len(Append(s, f)) = Len(s) + 1
    OBVIOUS
<1>4. ASSUME NEW i \in 1..(Len(s) + 1)
      PROVE  LiveFrame(Append(s, f)[i], n + 1 - (Len(s) + 1) + i)
  <2>1. i \in 1..Len(s) \/ i = Len(s) + 1
      OBVIOUS
  <2> QED
      BY <1>1, <1>2, <2>1
<1> QED
    BY <1>3, <1>4 DEF FrameRun

\* The first frame of a run, and the rest of it.
LEMMA FrameRunTail ==
    ASSUME NEW s \in Seq(Frame), NEW n \in Int, FrameRun(s, n), s # <<>>
    PROVE  /\ FrameRun(Tail(s), n) /\ Len(Tail(s)) = Len(s) - 1
           /\ LiveFrame(Head(s), n - Len(s) + 1)
<1>1. Len(Tail(s)) = Len(s) - 1 /\ Len(s) \in Nat /\ Len(s) >= 1 /\ Head(s) = s[1]
    OBVIOUS
<1>2. ASSUME NEW i \in 1..(Len(s) - 1)
      PROVE  LiveFrame(Tail(s)[i], n - (Len(s) - 1) + i)
  <2>1. Tail(s)[i] = s[i + 1] /\ n - (Len(s) - 1) + i = n - Len(s) + (i + 1) /\ i + 1 \in 1..Len(s)
      BY <1>1
  <2> QED
      BY <2>1 DEF FrameRun
<1>3. LiveFrame(s[1], n - Len(s) + 1)
    BY <1>1 DEF FrameRun
<1> QED
    BY <1>1, <1>2, <1>3 DEF FrameRun

\* The same of the items queued for a pacer.
LEMMA ItemRunAppend ==
    ASSUME NEW s \in Seq(Item), NEW f \in Item, NEW n \in Int,
           ItemRun(s, n), LiveFrame(f.frame, n + 1)
    PROVE  ItemRun(Append(s, f), n + 1) /\ Len(Append(s, f)) = Len(s) + 1
<1>1. ASSUME NEW i \in 1..Len(s)
      PROVE  LiveFrame(Append(s, f)[i].frame, n + 1 - (Len(s) + 1) + i)
  <2>1. Append(s, f)[i] = s[i] /\ n + 1 - (Len(s) + 1) + i = n - Len(s) + i
      OBVIOUS
  <2> QED
      BY <2>1 DEF ItemRun
<1>2. Append(s, f)[Len(s) + 1] = f /\ n + 1 - (Len(s) + 1) + (Len(s) + 1) = n + 1
    OBVIOUS
<1>3. Len(Append(s, f)) = Len(s) + 1
    OBVIOUS
<1>4. ASSUME NEW i \in 1..(Len(s) + 1)
      PROVE  LiveFrame(Append(s, f)[i].frame, n + 1 - (Len(s) + 1) + i)
  <2>1. i \in 1..Len(s) \/ i = Len(s) + 1
      OBVIOUS
  <2> QED
      BY <1>1, <1>2, <2>1
<1> QED
    BY <1>3, <1>4 DEF ItemRun

\* The first item of a run, and the rest of it.
LEMMA ItemRunTail ==
    ASSUME NEW s \in Seq(Item), NEW n \in Int, ItemRun(s, n), s # <<>>
    PROVE  /\ ItemRun(Tail(s), n) /\ Len(Tail(s)) = Len(s) - 1
           /\ LiveFrame(Head(s).frame, n - Len(s) + 1)
<1>1. Len(Tail(s)) = Len(s) - 1 /\ Len(s) \in Nat /\ Len(s) >= 1 /\ Head(s) = s[1]
    OBVIOUS
<1>2. ASSUME NEW i \in 1..(Len(s) - 1)
      PROVE  LiveFrame(Tail(s)[i].frame, n - (Len(s) - 1) + i)
  <2>1. Tail(s)[i] = s[i + 1] /\ n - (Len(s) - 1) + i = n - Len(s) + (i + 1) /\ i + 1 \in 1..Len(s)
      BY <1>1
  <2> QED
      BY <2>1 DEF ItemRun
<1>3. LiveFrame(s[1].frame, n - Len(s) + 1)
    BY <1>1 DEF ItemRun
<1> QED
    BY <1>1, <1>2, <1>3 DEF ItemRun

\* The numbers the run is counted with.
LEMMA RunNumbers ==
    ASSUME MediaInv
    PROVE  /\ cam.frames \in Int /\ Queued \in Nat /\ Pending \in Nat /\ Held \in {0, 1}
           /\ queue["video"] \in Seq(Item) /\ pend["video"].frames \in Seq(Frame)
           /\ pacer["video"].item \in Item \union {NoFrame}
           /\ "video" \in MediaKinds /\ "audio" \in MediaKinds
<1>1. "video" \in MediaKinds /\ "audio" \in MediaKinds
    BY DEF MediaKinds
<1>2. cam.frames \in Int
    BY DEF MediaInv, MediaType, CamType
<1>3. queue["video"] \in Seq(Item)
    BY <1>1 DEF MediaInv, MediaType, QueueType
<1>4. pend["video"].frames \in Seq(Frame)
    BY <1>1 DEF MediaInv, MediaType, PendType, PendingType
<1>5. pacer["video"].item \in Item \union {NoFrame}
    BY <1>1 DEF MediaInv, MediaType, PacerType
<1> QED
    BY <1>1, <1>2, <1>3, <1>4, <1>5 DEF Queued, Pending, Held

\* The empty run.
LEMMA RunInit == ASSUME MediaInit PROVE RunInv
<1>1. /\ queue["video"] = <<>> /\ queue["audio"] = <<>>
      /\ pacer["video"].item = NoFrame /\ pacer["audio"].item = NoFrame
      /\ pend["video"].frames = <<>> /\ sent["video"] = NoFrame
    BY DEF MediaInit, MediaKinds
<1>2. Queued = 0 /\ Held = 0 /\ Pending = 0
    BY <1>1 DEF Queued, Held, Pending
<1>3. ItemRun(<<>>, cam.frames) /\ FrameRun(<<>>, cam.frames - Queued - Held)
    BY DEF ItemRun, FrameRun
<1>4. /\ gap.state = "Live" /\ burst.nals = {} /\ sess.phase = "none" /\ ~hist.hole
    BY DEF MediaInit, NewPolicy, NoBurst
<1> QED
    BY <1>1, <1>2, <1>3, <1>4 DEF RunInv, RunQuiet, RunPipe, RunStart, RunSession, RunSent

\* A frame reaches the pacer: the run is longer by one.  Both kinds of frame of
\* a camera whose gaps are not bridged take this step.
LEMMA RunGrows ==
    ASSUME MediaInv, RunInv, Unbroken', NEW f \in Frame, NEW d \in Int,
           LiveFrame(f, cam.frames + 1), DispatchPaced("video", f, d),
           cam'.frames = cam.frames + 1, xl'.codec, gap'.state = "Live",
           UNCHANGED <<pacer, pend, sess, sent>>
    PROVE  RunInv'
<1> DEFINE it == [frame |-> f, duration |-> d]
<1>0. hist \in HistType /\ queue \in QueueType
    BY DEF MediaInv, MediaType
<1>1. queue' = [queue EXCEPT !["video"] = Append(@, it)] /\ hist' = hist
  <2>1. CASE Len(queue["video"]) = PacerQueue
      BY <1>0, <2>1 DEF DispatchPaced, Unbroken, HistType
  <2> QED
      BY <2>1 DEF DispatchPaced
<1>2. it \in Item /\ it.frame = f
    BY DEF Item
<1> HIDE DEF it
<1>3. /\ queue'["video"] = Append(queue["video"], it) /\ queue'["audio"] = queue["audio"]
    BY <1>0, <1>1, RunNumbers DEF QueueType
<1>4. /\ ItemRun(queue'["video"], cam'.frames) /\ Queued' = Queued + 1
    BY <1>2, <1>3, RunNumbers, ItemRunAppend DEF RunInv, RunPipe, Queued
<1>5. Held' = Held /\ Pending' = Pending
    BY DEF Held, Pending
<1>6. cam'.frames - Queued' = cam.frames - Queued
  <2>1. cam.frames \in Int /\ Queued \in Nat
      BY RunNumbers
  <2> QED
      BY <1>4, <2>1
<1>7. RunPipe'
    BY <1>4, <1>5, <1>6 DEF RunInv, RunPipe
<1>8. RunSent'
    BY <1>5, <1>6 DEF RunInv, RunSent
<1> QED
    BY <1>1, <1>3, <1>5, <1>7, <1>8 DEF RunInv, RunQuiet, RunStart, RunSession

\* A key frame, any other frame, and no audio.
LEMMA RunPacket == ASSUME MediaInv, RunInv, Unbroken, Unbroken', Packet PROVE RunInv'
<1> DEFINE pts == Pts(now)
           id == cam.frames + 1
<1>1. /\ now \in Int /\ pts \in Int /\ id \in Int /\ gap \in GapType /\ xl \in TranslatorType
      /\ video_frame_duration(pts) \in Int /\ cam \in CamType
    BY PtsType, DurationType DEF MediaInv, MediaType, CamType
<1>2. UNCHANGED <<pacer, pend, sess, sent>>
    BY DEF Packet
<1>3. ASSUME NEW unit \in VideoUnits(feed), Iframe(unit) PROVE RunInv'
  <2> DEFINE f == [kind |-> "video", id |-> id, key |-> TRUE, live |-> TRUE, pts |-> pts]
             nals == {n \in unit : is_decodable_nal(n)}
             slices == {n \in nals : ~is_parameter_set_nal(n)}
  <2>1. unit = {"sps", "pps", "idr"}
      BY <1>3 DEF VideoUnits, Unbroken, Iframe
  <2>2. "idr" \in slices
      BY <2>1 DEF is_decodable_nal, is_parameter_set_nal
  <2>3. /\ DispatchPaced("video", f, video_frame_duration(pts))
        /\ xl' = [xl EXCEPT !.codec = TRUE, !.lastPts = pts]
        /\ gap' = on_broadcast(on_upstream_packet(gap), pts)
        /\ cam' = [packets |-> cam.packets + 1, frames |-> id]
      BY <1>3, <2>1, <2>2 DEF Iframe
  <2>4. f \in Frame /\ LiveFrame(f, id)
      BY <1>1 DEF Frame, VideoFrame, LiveFrame
  <2>5. xl'.codec
      BY <1>1, <2>3 DEF TranslatorType
  <2>6. gap'.state = "Live"
      BY <1>1, <2>3 DEF GapType, on_broadcast, on_upstream_packet
  <2>7. cam'.frames = cam.frames + 1
      BY <2>3
  <2> HIDE DEF f
  <2> QED
      BY <1>1, <1>2, <2>3, <2>4, <2>5, <2>6, <2>7, RunGrows
<1>4. ASSUME NEW unit \in VideoUnits(feed), Pframe(unit) PROVE RunInv'
  <2> DEFINE f == [kind |-> "video", id |-> id, key |-> FALSE, live |-> TRUE, pts |-> pts]
             nals == {n \in unit : is_decodable_nal(n)}
  <2>1. unit = {"slice"}
      BY <1>4 DEF VideoUnits, Unbroken, Pframe
  <2>2. "slice" \in nals
      BY <2>1 DEF is_decodable_nal
  <2>3. cam' = [packets |-> cam.packets + 1, frames |-> id]
      BY <1>4, <2>1 DEF Pframe
  <2>4. CASE ~xl.codec
    <3>1. gap' = on_upstream_packet(gap) /\ UNCHANGED <<xl, burst, queue, hist>>
        BY <1>4, <2>4 DEF Pframe
    <3>2. gap'.state = "Live"
        BY <1>1, <3>1 DEF RunInv, RunQuiet, GapType, on_upstream_packet
    <3>3. /\ Queued = 0 /\ Held = 0 /\ Pending = 0 /\ sent["video"] = NoFrame
          /\ Queued' = Queued /\ Held' = Held /\ Pending' = Pending
        BY <1>2, <2>4, <3>1 DEF RunInv, RunStart, Queued, Held, Pending
    <3>4. RunPipe'
        BY <1>2, <3>1, <3>3 DEF RunPipe, ItemRun, FrameRun, Queued, Pending
    <3> QED
        BY <1>2, <3>1, <3>2, <3>3, <3>4 DEF RunInv, RunQuiet, RunStart, RunSession, RunSent
  <2>5. CASE xl.codec
    <3>1. /\ DispatchPaced("video", f, video_frame_duration(pts))
          /\ xl' = [xl EXCEPT !.lastPts = pts]
          /\ gap' = on_broadcast(on_upstream_packet(gap), pts)
        BY <1>4, <2>2, <2>5 DEF Pframe
    <3>2. f \in Frame /\ LiveFrame(f, id)
        BY <1>1 DEF Frame, VideoFrame, LiveFrame
    <3>3. xl'.codec
        BY <1>1, <2>5, <3>1 DEF TranslatorType
    <3>4. gap'.state = "Live"
        BY <1>1, <3>1 DEF GapType, on_broadcast, on_upstream_packet
    <3>5. cam'.frames = cam.frames + 1
        BY <2>3
    <3> HIDE DEF f
    <3> QED
        BY <1>1, <1>2, <3>1, <3>2, <3>3, <3>4, <3>5, RunGrows
  <2> QED
      BY <2>4, <2>5
<1>5. AudioUnits(feed) = {}
    BY DEF Unbroken, AudioUnits
<1> QED
    BY <1>3, <1>4, <1>5 DEF Packet

\* Without bridging a tick only moves the clock.
LEMMA RunTick == ASSUME MediaInv, RunInv, Unbroken, Tick PROVE RunInv'
<1>1. on_tick(gap, now + 1) = gap
    BY DEF on_tick, Bridges, Unbroken
<1>2. gap' = gap /\ pend' = pend
    BY <1>1 DEF Tick, RunInv, RunQuiet
<1>3. UNCHANGED <<cam, xl, burst, queue, pacer, sess, sent, hist>>
    BY DEF Tick
<1> QED
    BY <1>2, <1>3 DEF RunInv, RunQuiet, RunPipe, RunStart, RunSession, RunSent, Queued, Held, Pending

\* The pacer takes the next frame of the run.
LEMMA RunPacerTakes ==
    ASSUME MediaInv, RunInv, NEW k \in MediaKinds, PacerTakes(k) PROVE RunInv'
<1>0. queue \in QueueType /\ pacer \in PacerType
    BY DEF MediaInv, MediaType
<1>1. k = "video"
    BY DEF PacerTakes, MediaKinds, RunInv, RunQuiet
<1>2. /\ pacer["video"].item = NoFrame /\ queue["video"] # <<>>
      /\ pacer' = [pacer EXCEPT !["video"].item = Head(queue["video"]),
                                !["video"].target = Target("video")]
      /\ queue' = [queue EXCEPT !["video"] = Tail(@)]
      /\ UNCHANGED <<cam, xl, gap, burst, pend, sess, sent, hist>>
    BY <1>1 DEF PacerTakes
<1>3. /\ pacer'["video"].item = Head(queue["video"])
      /\ pacer'["audio"] = pacer["audio"]
      /\ queue'["video"] = Tail(queue["video"])
      /\ queue'["audio"] = queue["audio"]
    BY <1>0, <1>2, RunNumbers DEF PacerType, QueueType
<1>4. Head(queue["video"]) \in Item
    BY <1>2, RunNumbers
<1>5. Head(queue["video"]) # NoFrame
    BY <1>4 DEF Item, NoFrame
<1>6. /\ ItemRun(queue'["video"], cam.frames) /\ Queued' = Queued - 1
      /\ LiveFrame(Head(queue["video"]).frame, cam.frames - Queued + 1)
    BY <1>2, <1>3, RunNumbers, ItemRunTail DEF RunInv, RunPipe, Queued
<1>7. Held = 0 /\ Held' = 1 /\ Pending' = Pending
    BY <1>2, <1>3, <1>5 DEF Held, Pending
<1>8. /\ cam.frames - Queued' = cam.frames - Queued + 1
      /\ cam.frames - Queued' - Held' = cam.frames - Queued - Held
  <2>1. cam.frames \in Int /\ Queued \in Nat
      BY RunNumbers
  <2> QED
      BY <1>6, <1>7, <2>1
<1>9. RunPipe'
    BY <1>2, <1>3, <1>6, <1>7, <1>8 DEF RunInv, RunPipe
<1>10. xl.codec
    BY <1>2, RunNumbers DEF RunInv, RunStart, Queued
<1>11. RunSent'
    BY <1>2, <1>7, <1>8 DEF RunInv, RunSent
<1> QED
    BY <1>2, <1>3, <1>7, <1>9, <1>10, <1>11 DEF RunInv, RunQuiet, RunStart, RunSession

\* The pacer broadcasts the frame it holds; a receiver that is a whole buffer
\* behind loses its oldest frame and is marked.
LEMMA RunPacerSends ==
    ASSUME MediaInv, RunInv, NEW k \in MediaKinds, PacerSends(k)
    PROVE  RunInv'
<1> DEFINE f == pacer["video"].item.frame
           p == pend["video"]
<1>0. pacer \in PacerType /\ pend \in PendType
    BY DEF MediaInv, MediaType
<1>1. k = "video"
    BY DEF PacerSends, MediaKinds, RunInv, RunQuiet
<1>2. /\ pacer["video"].item # NoFrame
      /\ pend' = [j \in MediaKinds |-> BroadcastTo(pend[j], f)]
      /\ UNCHANGED <<cam, xl, gap, burst, queue, sess, sent, hist>>
    BY <1>1 DEF PacerSends, Broadcast
<1>3. pacer'["video"].item = NoFrame /\ pacer'["audio"] = pacer["audio"]
    BY <1>0, <1>1, RunNumbers DEF PacerSends, PacerType
<1>4. f \in Frame
    BY <1>2, RunNumbers DEF Item
<1>5. LiveFrame(f, cam.frames - Queued)
    BY <1>2 DEF RunInv, RunPipe, Held
<1>6. Held = 1 /\ Held' = 0 /\ Queued' = Queued
    BY <1>2, <1>3 DEF Held, Queued
<1>7. pend'["video"] = BroadcastTo(p, f)
    BY <1>2, RunNumbers
<1>8. p \in PendingType /\ p.frames \in Seq(Frame) /\ FrameRun(p.frames, cam.frames - Queued - 1)
    BY <1>0, <1>6, RunNumbers DEF PendType, PendingType, RunInv, RunPipe
<1> HIDE DEF f, p
<1>9. cam.frames - Queued - 1 \in Int /\ (cam.frames - Queued - 1) + 1 = cam.frames - Queued
    BY RunNumbers
<1>10. FrameRun(Append(p.frames, f), cam.frames - Queued) /\ Len(Append(p.frames, f)) = Len(p.frames) + 1
    BY <1>4, <1>5, <1>8, <1>9, FrameRunAppend
<1>11. /\ pend'["video"].on = p.on
       /\ FrameRun(pend'["video"].frames, cam.frames - Queued)
       /\ ~p.on => Pending' = Pending
       /\ p.on => pend'["video"].lagged \/ (Pending' = Pending + 1 /\ ~p.lagged)
  <2>1. CASE ~p.on
    <3>1. pend'["video"] = p /\ p.frames = <<>>
        BY <1>7, <1>8, <2>1 DEF BroadcastTo, RunInv, RunSession, Pending, p
    <3>2. FrameRun(<<>>, cam.frames - Queued)
        BY DEF FrameRun
    <3> QED
        BY <2>1, <3>1, <3>2 DEF Pending, p
  <2>2. CASE p.on /\ Len(p.frames) = BroadcastCapacity
    <3>1. pend'["video"] = [p EXCEPT !.frames = Append(Tail(@), f), !.lagged = TRUE]
        BY <1>7, <2>2 DEF BroadcastTo
    <3>2. /\ pend'["video"].on = p.on /\ pend'["video"].lagged
          /\ pend'["video"].frames = Append(Tail(p.frames), f)
        BY <1>8, <3>1 DEF PendingType
    <3>3. p.frames # <<>>
        BY <2>2, MediaBounds
    <3>4. FrameRun(Tail(p.frames), cam.frames - Queued - 1) /\ Tail(p.frames) \in Seq(Frame)
        BY <1>8, <1>9, <3>3, FrameRunTail
    <3>5. FrameRun(Append(Tail(p.frames), f), cam.frames - Queued)
        BY <1>4, <1>5, <1>9, <3>4, FrameRunAppend
    <3> QED
        BY <2>2, <3>2, <3>5
  <2>3. CASE p.on /\ Len(p.frames) # BroadcastCapacity
    <3>1. pend'["video"] = [p EXCEPT !.frames = Append(@, f)]
        BY <1>7, <2>3 DEF BroadcastTo
    <3>2. /\ pend'["video"].on = p.on /\ pend'["video"].lagged = p.lagged
          /\ pend'["video"].frames = Append(p.frames, f)
        BY <1>8, <3>1 DEF PendingType
    <3>3. Pending' = Pending + 1
        BY <1>10, <3>2 DEF Pending, p
    <3> QED
        BY <1>10, <2>3, <3>2, <3>3
  <2> QED
      BY <2>1, <2>2, <2>3
<1>12. cam.frames - Queued - 0 = cam.frames - Queued
    BY RunNumbers
<1>13. RunPipe'
    BY <1>2, <1>6, <1>11, <1>12 DEF RunInv, RunPipe, Queued
<1>14. xl.codec
    BY <1>6 DEF RunInv, RunStart
<1>15. RunSession'
    BY <1>2, <1>11 DEF RunInv, RunSession, p
<1>16. RunSent'
  <2> SUFFICES ASSUME sess.phase = "live", sent["video"] # NoFrame
               PROVE  /\ "video" \in sess.tracks
                      /\ ~sent["video"].live => sess.awaiting
                      /\ sent["video"].live =>
                            /\ ~sess.awaiting
                            /\ ~pend'["video"].lagged =>
                                 sent["video"].id = cam.frames - Queued' - Held' - Pending'
      BY <1>2 DEF RunSent
  <2>1. p.on
      BY DEF RunInv, RunSession, p
  <2>2. ~pend'["video"].lagged => Pending' = Pending + 1 /\ ~p.lagged
      BY <1>11, <2>1
  <2>3. cam.frames - Queued - Held - Pending = cam.frames - Queued - Held' - (Pending + 1)
    <3>1. cam.frames \in Int /\ Queued \in Nat /\ Pending \in Nat
        BY RunNumbers
    <3> QED
        BY <1>6, <3>1
  <2> QED
      BY <1>6, <2>2, <2>3 DEF RunInv, RunSent, p
<1> QED
    BY <1>2, <1>3, <1>13, <1>14, <1>15, <1>16 DEF RunInv, RunQuiet, RunStart

\* The requests of the client.
LEMMA RunSetup ==
    ASSUME MediaInv, RunInv, NEW k \in MediaKinds,
           Setup(k) \/ append_track(k) \/ Play
    PROVE  RunInv'
<1>1. UNCHANGED <<cam, xl, gap, burst, queue, pacer, sent, hist>>
    BY DEF Setup, append_track, Play
<1>2. pend \in PendType /\ sess \in SessType
    BY DEF MediaInv, MediaType
<1>3. /\ pend'["video"].frames = pend["video"].frames
      /\ pend'["video"].lagged = pend["video"].lagged
      /\ pend'["video"].on \/ pend'["video"] = pend["video"]
    BY <1>2, RunNumbers DEF Setup, append_track, Play, PendType, PendingType
<1>4. Queued' = Queued /\ Held' = Held /\ Pending' = Pending
    BY <1>1, <1>3 DEF Queued, Held, Pending
<1>5. RunPipe' /\ RunQuiet' /\ RunStart'
    BY <1>1, <1>3, <1>4 DEF RunInv, RunPipe, RunQuiet, RunStart
<1>6. CASE Setup(k)
  <2>1. sess.phase = "waiting" /\ sess'.phase = "setup" /\ pend'["video"].on
      BY <1>2, <1>6, RunNumbers DEF Setup, SessType, PendType, PendingType
  <2> QED
      BY <1>1, <1>4, <1>5, <2>1 DEF RunInv, RunSession, RunSent
<1>7. CASE append_track(k)
  <2>1. /\ sess'.phase = sess.phase /\ sess'.awaiting = sess.awaiting
        /\ sess'.tracks = sess.tracks \union {k} /\ pend' = pend
      BY <1>2, <1>7 DEF append_track, SessType
  <2> QED
      BY <1>1, <1>4, <1>5, <2>1 DEF RunInv, RunSession, RunSent
<1>8. CASE Play
  <2>1. sess.phase = "setup" /\ sess'.phase = "playing"
      BY <1>2, <1>8 DEF Play, SessType
  <2>2. pend["video"].on
      BY <2>1 DEF RunInv, RunSession
  <2> QED
      BY <1>1, <1>3, <1>4, <1>5, <2>1, <2>2 DEF RunInv, RunSession, RunSent
<1> QED
    BY <1>6, <1>7, <1>8

\* What comes before the session is set up.
LEMMA RunWaits ==
    ASSUME MediaInv, RunInv, classify_presence \/ SdpTimesOut \/ WarmCommits PROVE RunInv'
<1>1. UNCHANGED <<cam, xl, gap, burst, queue, pacer, pend, sent, hist>>
    BY DEF classify_presence, SdpTimesOut, WarmCommits
<1>2. Queued' = Queued /\ Held' = Held /\ Pending' = Pending
    BY <1>1 DEF Queued, Held, Pending
<1>3. \/ sess' = sess
      \/ sess.phase \in {"none", "waiting"} /\ sess'.phase \in {"none", "waiting"}
    BY DEF classify_presence, SdpTimesOut, WarmCommits, MediaInv, MediaType, SessType
<1> QED
    BY <1>1, <1>2, <1>3 DEF RunInv, RunQuiet, RunPipe, RunStart, RunSession, RunSent

\* The replay is the session's first frame, and not a live one.
LEMMA RunReplay ==
    ASSUME MediaInv, RunInv, NEW goes \in BOOLEAN, ReplayBurst(goes) PROVE RunInv'
<1> DEFINE f == [kind |-> "video", id |-> burst.id, key |-> TRUE, live |-> FALSE,
                 pts |-> burst.pts]
<1>1. /\ sess.phase = "playing" /\ UNCHANGED <<cam, xl, gap, burst, queue, pacer, pend, hist>>
      /\ sess' = [sess EXCEPT !.phase = "live", !.awaiting = goes]
    BY DEF ReplayBurst
<1>2. sess \in SessType /\ sent \in SentType
    BY DEF MediaInv, MediaType
<1>3. /\ sess'.phase = "live" /\ sess'.awaiting = goes /\ sess'.tracks = sess.tracks
    BY <1>1, <1>2 DEF SessType
<1>4. Queued' = Queued /\ Held' = Held /\ Pending' = Pending
    BY <1>1 DEF Queued, Held, Pending
<1>5. pend["video"].on /\ sent["video"] = NoFrame
    BY <1>1 DEF RunInv, RunSession
<1>6. CASE goes
  <2>1. /\ sent' = [sent EXCEPT !["video"] = f] /\ "video" \in sess.tracks /\ burst.nals # {}
      BY <1>6 DEF ReplayBurst, build_runtime_for_kind
  <2>2. sent'["video"] = f /\ ~f.live
      BY <1>2, <2>1, RunNumbers DEF SentType
  <2> HIDE DEF f
  <2>3. RunSent'
      BY <1>3, <1>6, <2>1, <2>2 DEF RunSent
  <2> QED
      BY <1>1, <1>3, <1>4, <1>5, <2>1, <2>3 DEF RunInv, RunQuiet, RunPipe, RunStart, RunSession
<1>7. CASE ~goes
  <2>1. sent' = sent
      BY <1>7 DEF ReplayBurst
  <2> QED
      BY <1>1, <1>3, <1>4, <1>5, <2>1
         DEF RunInv, RunQuiet, RunPipe, RunStart, RunSession, RunSent
<1> QED
    BY <1>6, <1>7

\* The video loop sends the next frame of the run, drops those before a track
\* or a key frame is there, and does not go on after a lag.
LEMMA RunVideoLoop == ASSUME MediaInv, RunInv, VideoLoop PROVE RunInv'
<1> DEFINE f == Takes("video")
           h == Head(pend["video"].frames)
<1>0. pend \in PendType /\ sess \in SessType /\ sent \in SentType /\ hist \in HistType
    BY DEF MediaInv, MediaType
<1>1. /\ sess.phase = "live" /\ pend["video"].frames # <<>> /\ ~pend["video"].lagged
      /\ pend' = [pend EXCEPT !["video"].frames = Tail(@)]
      /\ UNCHANGED <<cam, xl, gap, burst, queue, pacer>>
    BY DEF VideoLoop, LagEnds
<1>2. /\ pend'["video"].frames = Tail(pend["video"].frames)
      /\ pend'["video"].on = pend["video"].on /\ pend'["video"].lagged = pend["video"].lagged
    BY <1>0, <1>1, RunNumbers DEF PendType, PendingType
<1>3. cam.frames - Queued - Held \in Int
    BY RunNumbers
<1>4. /\ FrameRun(Tail(pend["video"].frames), cam.frames - Queued - Held)
      /\ Pending' = Pending - 1
      /\ LiveFrame(h, cam.frames - Queued - Held - Pending + 1)
    BY <1>1, <1>2, <1>3, RunNumbers, FrameRunTail DEF RunInv, RunPipe, Pending
<1>5. Queued' = Queued /\ Held' = Held
    BY <1>1 DEF Queued, Held
<1>6. RunPipe' /\ RunQuiet'
    BY <1>1, <1>2, <1>4, <1>5 DEF RunInv, RunPipe, RunQuiet
<1>7. xl.codec
    BY <1>1, RunNumbers DEF RunInv, RunStart, Pending
<1>8. pend["video"].on
    BY <1>1 DEF RunInv, RunSession
<1>9. f = IF ~("video" \in sess.tracks) \/ (sess.awaiting /\ ~h.key) THEN NoFrame ELSE h
    BY <1>1, <1>4 DEF Takes, LagEnds, build_runtime_for_kind, Suppressed,
                      LiveFrame
<1>10. h # NoFrame
    BY <1>4 DEF LiveFrame, NoFrame
<1>11. CASE f = NoFrame
  <2>1. UNCHANGED <<sess, sent, hist>>
      BY <1>11 DEF VideoLoop
  <2>2. ~("video" \in sess.tracks) \/ sess.awaiting
      BY <1>9, <1>10, <1>11
  <2>3. RunSent'
      BY <1>1, <1>2, <2>1, <2>2 DEF RunInv, RunSent
  <2> QED
      BY <1>1, <1>2, <1>6, <1>7, <1>8, <2>1, <2>3 DEF RunInv, RunStart, RunSession
<1>12. CASE f # NoFrame
  <2>1. f = h /\ "video" \in sess.tracks /\ (sess.awaiting => h.key)
      BY <1>9, <1>12
  <2>2. /\ sess' = [dispatch_one("video") EXCEPT !.awaiting = FALSE]
        /\ sent' = [sent EXCEPT !["video"] = h]
      BY <1>12, <2>1 DEF VideoLoop
  <2>3. sess'.phase = "live" /\ ~sess'.awaiting /\ sess'.tracks = sess.tracks
      BY <1>0, <1>1, <2>2 DEF SessType, dispatch_one
  <2>4. sent'["video"] = h
      BY <1>0, <2>2, RunNumbers DEF SentType
  <2>5. ~Hole(h)
    <3>1. CASE sent["video"] = NoFrame
        BY <3>1 DEF Hole
    <3>2. CASE sent["video"] # NoFrame /\ ~sent["video"].live
      <4>1. h.key
          BY <1>1, <2>1, <3>2 DEF RunInv, RunSent
      <4> QED
          BY <3>2, <4>1 DEF Hole
    <3>3. CASE sent["video"] # NoFrame /\ sent["video"].live
      <4>1. sent["video"].id = cam.frames - Queued - Held - Pending
          BY <1>1, <3>3 DEF RunInv, RunSent
      <4>2. h.id = cam.frames - Queued - Held - Pending + 1
          BY <1>4 DEF LiveFrame
      <4> HIDE DEF h
      <4> QED
          BY <4>1, <4>2 DEF Hole
    <3> QED
        BY <3>1, <3>2, <3>3
  <2>6. ~hist'.hole
    <3> DEFINE x == hist.hole \/ Hole(h)
               b == hist.back \/ (sent["video"] # NoFrame /\ f.pts < sent["video"].pts)
               l == hist.late \/ (~sess.info /\ sent["video"] # NoFrame)
    <3>1. hist' = [hist EXCEPT !.hole = x, !.back = b, !.late = l]
        BY <1>12, <2>1 DEF VideoLoop
    <3>2. x = FALSE
        BY <2>5, Zenon DEF RunInv
    <3> HIDE DEF x, b, l
    <3> QED
        BY <1>0, <3>1, <3>2 DEF HistType
  <2>7. cam.frames - Queued - Held - Pending + 1 = cam.frames - Queued' - Held' - Pending'
    <3>1. cam.frames \in Int /\ Queued \in Nat /\ Pending \in Nat /\ Held \in {0, 1}
        BY RunNumbers
    <3> QED
        BY <1>4, <1>5, <3>1
  <2>8. h.live /\ h.id = cam.frames - Queued' - Held' - Pending'
      BY <1>4, <2>7 DEF LiveFrame
  <2> HIDE DEF h
  <2>9. RunSent'
      BY <1>1, <2>1, <2>3, <2>4, <2>8 DEF RunSent
  <2> QED
      BY <1>1, <1>2, <1>6, <1>7, <1>8, <2>3, <2>6, <2>9 DEF RunInv, RunStart, RunSession
<1> QED
    BY <1>11, <1>12

\* The audio loop leaves the run alone.
LEMMA RunAudioLoop == ASSUME MediaInv, RunInv, AudioLoop PROVE RunInv'
<1>1. pend \in PendType /\ sent \in SentType
    BY DEF MediaInv, MediaType
<1>2. UNCHANGED <<cam, xl, gap, burst, queue, pacer, sess, hist>>
    BY DEF AudioLoop
<1>3. pend'["video"] = pend["video"] /\ sent'["video"] = sent["video"]
    BY <1>1, RunNumbers DEF AudioLoop, PendType, SentType
<1>4. Queued' = Queued /\ Held' = Held /\ Pending' = Pending
    BY <1>2, <1>3 DEF Queued, Held, Pending
<1> QED
    BY <1>2, <1>3, <1>4 DEF RunInv, RunQuiet, RunPipe, RunStart, RunSession, RunSent

\* The end of the session.
LEMMA RunEnd == ASSUME MediaInv, RunInv, NEW k \in MediaKinds, End(k) PROVE RunInv'
<1>1. UNCHANGED <<cam, xl, gap, burst, queue, pacer, sent, hist>>
    BY DEF End
<1>2. sess'.phase = "ended"
    BY DEF End, close_all, MediaInv, MediaType, SessType
<1>3. pend'["video"].frames = <<>> /\ ~pend'["video"].on
    BY RunNumbers DEF End
<1>4. Queued' = Queued /\ Held' = Held /\ Pending' = 0
    BY <1>1, <1>3 DEF Queued, Held, Pending
<1>5. FrameRun(pend'["video"].frames, cam'.frames - Queued' - Held')
    BY <1>3 DEF FrameRun
<1> QED
    BY <1>1, <1>2, <1>3, <1>4, <1>5 DEF RunInv, RunQuiet, RunPipe, RunStart, RunSession, RunSent

\* An overflow is not forgotten, and the camera stays what it is.
LEMMA UnbrokenBefore ==
    ASSUME MediaInv, [MediaNext]_mediaVars, Unbroken' PROVE Unbroken
<1>1. feed' = feed
    BY DEF MediaNext, mediaVars, Packet, Tick, PacerTakes, PacerSends,
           Setup, append_track, Play, ReplayBurst, VideoLoop,
           AudioLoop, End, classify_presence, SdpTimesOut, WarmCommits
<1>2. hist \in HistType
    BY DEF MediaInv, MediaType
<1>3. hist' = hist \/ Packet \/ VideoLoop
    BY DEF MediaNext, mediaVars, Tick, PacerTakes, PacerSends, Setup,
           append_track, Play, ReplayBurst, AudioLoop, End,
           classify_presence, SdpTimesOut, WarmCommits
<1>4. CASE VideoLoop
  <2>1. hist' = hist \/ hist'.overflow = hist.overflow
      BY <1>2, <1>4 DEF VideoLoop, HistType
  <2> QED
      BY <1>1, <2>1 DEF Unbroken
<1>5. CASE Packet
  <2>1. feed = "plain"
      BY <1>1 DEF Unbroken
  <2>2. AudioUnits(feed) = {}
      BY <2>1 DEF AudioUnits
  <2>3. ASSUME NEW f, NEW d, DispatchPaced("video", f, d) PROVE hist' = hist \/ hist'.overflow
      BY <1>2, <2>3 DEF DispatchPaced, HistType
  <2>4. hist' = hist \/ hist'.overflow
      BY <1>5, <2>2, <2>3 DEF Packet, Iframe, Pframe
  <2> QED
      BY <1>1, <2>4 DEF Unbroken
<1> QED
    BY <1>1, <1>3, <1>4, <1>5 DEF Unbroken

\* Every step keeps the run.
LEMMA RunNext ==
    ASSUME MediaInv, Unbroken => RunInv, [MediaNext]_mediaVars
    PROVE  (Unbroken => RunInv)'
<1> SUFFICES ASSUME Unbroken' PROVE RunInv'
    OBVIOUS
<1>0. Unbroken /\ RunInv
    BY UnbrokenBefore
<1>1. CASE Packet
    BY <1>0, <1>1, RunPacket
<1>2. CASE Tick
    BY <1>0, <1>2, RunTick
<1>3. CASE \E k \in MediaKinds : PacerTakes(k) \/ PacerSends(k)
    BY <1>0, <1>3, RunPacerTakes, RunPacerSends
<1>4. CASE Play \/ \E k \in MediaKinds : Setup(k) \/ append_track(k)
    BY <1>0, <1>4, RunNumbers, RunSetup
<1>5. CASE \E goes \in BOOLEAN : ReplayBurst(goes)
    BY <1>0, <1>5, RunReplay
<1>6. CASE VideoLoop \/ AudioLoop
    BY <1>0, <1>6, RunVideoLoop, RunAudioLoop
<1>7. CASE \E k \in MediaKinds : End(k)
    BY <1>0, <1>7, RunEnd
<1>8. CASE classify_presence \/ SdpTimesOut \/ WarmCommits
    BY <1>0, <1>8, RunWaits
<1>9. CASE UNCHANGED mediaVars
    BY <1>0, <1>9 DEF mediaVars, RunInv, RunQuiet, RunPipe, RunStart, RunSession, RunSent,
                      Queued, Held, Pending
<1> QED
    BY <1>1, <1>2, <1>3, <1>4, <1>5, <1>6, <1>7, <1>8, <1>9 DEF MediaNext

\* A session of a camera whose gaps are not bridged sends no live frame without
\* the one before it: not after a replayed burst, not with frames buffered before
\* PLAY, not behind a lagging receiver (session_task.rs, video_dispatch_loop), for
\* any queue and broadcast capacity.
THEOREM StreamUnbroken == MediaSpec => []StreamWhole
<1>1. MediaInit => (Unbroken => RunInv)
    BY RunInit
<1>2. MediaInv /\ (Unbroken => RunInv) /\ [MediaNext]_mediaVars => (Unbroken => RunInv)'
    BY RunNext
<1>3. (Unbroken => RunInv) => StreamWhole
    BY DEF Unbroken, RunInv, StreamWhole
<1> QED
    BY <1>1, <1>2, <1>3, MediaInvHolds, PTL DEF MediaSpec
=============================================================================
