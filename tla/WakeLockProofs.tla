--------------------------- MODULE WakeLockProofs ---------------------------
(***************************************************************************)
(* Theorems about WakeLock and the GracePeriod task on it, for any finite  *)
(* set of clients, any clock and any grace duration.                       *)
(*                                                                         *)
(* IndInv is the inductive invariant: CountIsHolders turns the test        *)
(* "count = 0" of the code into a statement about the clients, which is    *)
(* what NoLostWakeup and StampFreshAtRest need at every clear and release; *)
(* PastRelease says that no release lies in the future, so a stamp taken   *)
(* late is still fresh.                                                    *)
(***************************************************************************)
EXTENDS GracePeriod, FiniteSetTheorems, TLAPS

PastRelease == idleFrom <= now

IndInv ==
    /\ TypeOK
    /\ CountIsHolders
    /\ NoLostWakeup
    /\ StampFreshAtRest
    /\ PastRelease

-----------------------------------------------------------------------------
(* The set of holders and its cardinality. *)

\* The clients that hold a guard are finitely many.
LEMMA HoldersFinite ==
    ASSUME NEW cs PROVE IsFiniteSet(Holding(cs))
BY FS_Subset, ClientsFinite DEF Holding

\* The count is 0 exactly when nobody is between fetch_add and fetch_sub.
LEMMA IdleIffNoHolder ==
    ASSUME CountIsHolders PROVE count = 0 <=> Holders = {}
<1>1. IsFiniteSet(Holders)
    BY HoldersFinite DEF Holders
<1> QED
    BY <1>1, FS_EmptySet DEF CountIsHolders

\* A client that starts to hold adds one to the number of holders.
LEMMA StartHolding ==
    ASSUME NEW c \in Clients, client \in [Clients -> ClientPC],
           client[c] \notin {"clear", "notifyAcq", "held"},
           NEW pc \in {"clear", "notifyAcq", "held"},
           client' = [client EXCEPT ![c] = pc]
    PROVE  /\ Holders' = Holders \cup {c}
           /\ c \notin Holders
           /\ Cardinality(Holders') = Cardinality(Holders) + 1
<1>1. Holders' = Holders \cup {c} /\ c \notin Holders
    BY DEF Holders, Holding, ClientPC
<1>2. IsFiniteSet(Holders)
    BY HoldersFinite DEF Holders
<1> QED
    BY <1>1, <1>2, FS_AddElement

\* A client that stops holding takes one from the number of holders.
LEMMA StopHolding ==
    ASSUME NEW c \in Clients, client \in [Clients -> ClientPC],
           client[c] \in {"clear", "notifyAcq", "held"},
           NEW pc \in {"out", "stamp", "notifyRel"},
           client' = [client EXCEPT ![c] = pc]
    PROVE  /\ Holders' = Holders \ {c}
           /\ c \in Holders
           /\ Cardinality(Holders') = Cardinality(Holders) - 1
<1>1. Holders' = Holders \ {c} /\ c \in Holders
    BY DEF Holders, Holding, ClientPC
<1>2. IsFiniteSet(Holders)
    BY HoldersFinite DEF Holders
<1> QED
    BY <1>1, <1>2, FS_RemoveElement

\* A client that keeps holding, or keeps not holding, changes no holder.
LEMMA KeepHolding ==
    ASSUME NEW c \in Clients, client \in [Clients -> ClientPC],
           NEW pc \in ClientPC,
           client[c] \in {"clear", "notifyAcq", "held"}
               <=> pc \in {"clear", "notifyAcq", "held"},
           client' = [client EXCEPT ![c] = pc]
    PROVE  Holders' = Holders
BY DEF Holders, Holding, ClientPC

-----------------------------------------------------------------------------
(* Every step preserves the inductive invariant. *)

\* acquire keeps IndInv: the edge step leaves a client that will notify.
LEMMA FetchAddInv ==
    ASSUME IndInv, NEW c \in Clients, FetchAdd(c) PROVE IndInv'
<1> USE DEF IndInv, FetchAdd
<1>1. TypeOK'
    BY DEF TypeOK, ClientPC, Instants
<1>2. /\ CountIsHolders'
      /\ count' > 0
  <2> DEFINE pc == IF count = 0 THEN "clear" ELSE "held"
  <2>1. pc \in {"clear", "notifyAcq", "held"}
      OBVIOUS
  <2>2. Cardinality(Holders') = Cardinality(Holders) + 1
      BY <2>1, StartHolding DEF TypeOK
  <2> QED
      BY <2>2 DEF TypeOK, CountIsHolders
<1>3. NoLostWakeup'
  <2>1. CASE count = 0
      BY <2>1 DEF TypeOK, NoLostWakeup
  <2>2. CASE count # 0
    <3>1. \A d \in Clients : client[d] \in {"clear", "notifyAcq"}
              => client'[d] \in {"clear", "notifyAcq"}
        BY DEF TypeOK
    <3> QED
        BY <2>2, <3>1 DEF TypeOK, NoLostWakeup
  <2> QED
      BY <2>1, <2>2
<1>4. StampFreshAtRest' /\ PastRelease'
    BY <1>2 DEF TypeOK, StampFreshAtRest, PastRelease
<1> QED
    BY <1>1, <1>2, <1>3, <1>4

\* Clearing the stamp keeps IndInv: the client that clears it is a holder, so
\* the lock is not idle.
LEMMA ClearStampInv ==
    ASSUME IndInv, NEW c \in Clients, ClearStamp(c) PROVE IndInv'
<1> USE DEF IndInv, ClearStamp
<1>1. TypeOK'
    BY DEF TypeOK, ClientPC, Instants
<1>2. Holders' = Holders
    BY KeepHolding DEF TypeOK, ClientPC
<1>3. CountIsHolders'
    BY <1>2 DEF CountIsHolders
<1>4. NoLostWakeup'
    BY DEF TypeOK, NoLostWakeup
<1>5. count # 0
    BY IdleIffNoHolder DEF Holders, Holding
<1>6. StampFreshAtRest' /\ PastRelease'
    BY <1>5 DEF TypeOK, StampFreshAtRest, PastRelease
<1> QED
    BY <1>1, <1>3, <1>4, <1>6

\* Notifying keeps IndInv: the permit replaces the promise of the client.
LEMMA NotifyAcquireInv ==
    ASSUME IndInv, NEW c \in Clients, NotifyAcquire(c) PROVE IndInv'
<1> USE DEF IndInv, NotifyAcquire
<1>1. TypeOK'
    BY DEF TypeOK, ClientPC, Instants
<1>2. Holders' = Holders
    BY KeepHolding DEF TypeOK, ClientPC
<1>3. CountIsHolders' /\ NoLostWakeup'
    BY <1>2 DEF CountIsHolders, NoLostWakeup
<1>4. StampFreshAtRest' /\ PastRelease'
    BY DEF TypeOK, StampFreshAtRest, PastRelease
<1> QED
    BY <1>1, <1>3, <1>4

\* Dropping a guard keeps IndInv: the last one leaves a client that will stamp.
LEMMA FetchSubInv ==
    ASSUME IndInv, NEW c \in Clients, FetchSub(c) PROVE IndInv'
<1> USE DEF IndInv, FetchSub
<1>1. count # 0
    BY IdleIffNoHolder DEF Holders, Holding
<1>2. TypeOK'
    BY <1>1 DEF TypeOK, ClientPC, Instants
<1>3. CountIsHolders'
    BY StopHolding DEF TypeOK, CountIsHolders
<1>4. NoLostWakeup'
  <2>1. \A d \in Clients : client[d] \in {"clear", "notifyAcq"}
            => client'[d] \in {"clear", "notifyAcq"}
      BY DEF TypeOK
  <2> QED
      BY <1>1, <2>1 DEF TypeOK, NoLostWakeup
<1>5. StampFreshAtRest' /\ PastRelease'
    BY <1>1 DEF TypeOK, StampFreshAtRest, PastRelease, Instants, Never
<1> QED
    BY <1>2, <1>3, <1>4, <1>5

\* Stamping keeps IndInv: the stamp is now, and no release is later than now.
LEMMA StampReleaseInv ==
    ASSUME IndInv, NEW c \in Clients, StampRelease(c) PROVE IndInv'
<1> USE DEF IndInv, StampRelease
<1>1. TypeOK'
    BY DEF TypeOK, ClientPC, Instants
<1>2. Holders' = Holders
    BY KeepHolding DEF TypeOK, ClientPC
<1>3. CountIsHolders'
    BY <1>2 DEF CountIsHolders
<1>4. NoLostWakeup'
    BY DEF TypeOK, NoLostWakeup
<1>5. StampFreshAtRest' /\ PastRelease'
    BY DEF TypeOK, StampFreshAtRest, PastRelease, Instants
<1> QED
    BY <1>1, <1>3, <1>4, <1>5

\* Signalling the release keeps IndInv.
LEMMA NotifyReleaseInv ==
    ASSUME IndInv, NEW c \in Clients, NotifyRelease(c) PROVE IndInv'
<1> USE DEF IndInv, NotifyRelease
<1>1. TypeOK'
    BY DEF TypeOK, ClientPC, Instants
<1>2. Holders' = Holders
    BY KeepHolding DEF TypeOK, ClientPC
<1>3. CountIsHolders'
    BY <1>2 DEF CountIsHolders
<1>4. NoLostWakeup'
    BY DEF TypeOK, NoLostWakeup
<1>5. StampFreshAtRest' /\ PastRelease'
    BY DEF TypeOK, StampFreshAtRest, PastRelease
<1> QED
    BY <1>1, <1>3, <1>4, <1>5

\* The run loop keeps IndInv: it starts to await only when it saw the lock idle,
\* and it uses up a permit only as it leaves the await.
LEMMA WaiterInv ==
    ASSUME IndInv, WaiterStep PROVE IndInv'
<1> USE DEF IndInv, WaiterStep, Park, WaitCheck, WaitNotified, WaitRecheck,
            lockVars
<1>1. TypeOK'
    BY DEF TypeOK, WaiterPC, Instants
<1>2. CountIsHolders'
    BY DEF CountIsHolders, Holders
<1>3. NoLostWakeup'
    BY DEF TypeOK, NoLostWakeup
<1>4. StampFreshAtRest' /\ PastRelease'
    BY DEF StampFreshAtRest, PastRelease
<1> QED
    BY <1>1, <1>2, <1>3, <1>4

\* The watchdog's reads, the clock and whoever takes the release permit keep
\* IndInv.
LEMMA ReaderTickInv ==
    ASSUME IndInv, ReaderStep \/ Tick \/ ReleaseTaken PROVE IndInv'
<1> USE DEF IndInv, ReaderStep, IdleSinceCount, IdleSinceStamp,
            IdleSinceUsed, Tick, ReleaseTaken, lockVars
<1>1. TypeOK'
  <2>1. notify_release' \in BOOLEAN
    <3>1. CASE ReleaseTaken
      <4>1. notify_release' = FALSE
          BY <3>1
      <4> QED
          BY ONLY <4>1, Zenon
    <3>2. CASE ReaderStep \/ Tick
        BY <3>2 DEF TypeOK
    <3> QED
        BY <3>1, <3>2
  <2> QED
      BY <2>1 DEF TypeOK, ReaderPC, Instants
<1>2. CountIsHolders'
    BY DEF CountIsHolders, Holders
<1>3. NoLostWakeup' /\ StampFreshAtRest'
    BY DEF NoLostWakeup, StampFreshAtRest
<1>4. PastRelease'
    BY DEF TypeOK, PastRelease, Instants, Never
<1> QED
    BY <1>1, <1>2, <1>3, <1>4

\* WakeLockCounter::new establishes IndInv.
LEMMA InitInv == Init => IndInv
<1> SUFFICES ASSUME Init PROVE IndInv
    OBVIOUS
<1>1. Holders = {}
    BY DEF Init, Holders, Holding
<1>2. CountIsHolders
    BY <1>1, FS_EmptySet DEF Init, CountIsHolders
<1>3. TypeOK
    BY DEF Init, TypeOK, ClientPC, WaiterPC, ReaderPC, Instants, Never
<1>4. NoLostWakeup /\ StampFreshAtRest /\ PastRelease
    BY DEF Init, NoLostWakeup, StampFreshAtRest, PastRelease, Never
<1> QED
    BY <1>2, <1>3, <1>4 DEF IndInv

\* Every step of the lock, its clients, the run loop and the watchdog, and every
\* stuttering step, preserves IndInv.
LEMMA NextInv == IndInv /\ [Next]_vars => IndInv'
<1> SUFFICES ASSUME IndInv, [Next]_vars PROVE IndInv'
    OBVIOUS
<1>1. ASSUME NEW c \in Clients, ClientStep(c) PROVE IndInv'
    BY <1>1, FetchAddInv, ClearStampInv, NotifyAcquireInv, FetchSubInv,
       StampReleaseInv, NotifyReleaseInv DEF ClientStep
<1>2. CASE UNCHANGED vars
    BY <1>2 DEF vars, IndInv, TypeOK, CountIsHolders, Holders, NoLostWakeup,
              StampFreshAtRest, PastRelease
<1> QED
    BY <1>1, <1>2, WaiterInv, ReaderTickInv DEF Next, LockStep

\* IndInv holds in every reachable state.
THEOREM IndInvHolds == SafetySpec => []IndInv
BY InitInv, NextInv, PTL DEF SafetySpec

-----------------------------------------------------------------------------
(* The properties, for every finite set of clients. *)

\* The counter never underflows and its state stays well formed.
THEOREM TypeCorrect == SafetySpec => []TypeOK
<1>1. IndInv => TypeOK
    BY DEF IndInv
<1> QED
    BY <1>1, IndInvHolds, PTL

\* The count is exact under every interleaving of acquire and drop.
THEOREM CountExact == SafetySpec => []CountIsHolders
<1>1. IndInv => CountIsHolders
    BY DEF IndInv
<1> QED
    BY <1>1, IndInvHolds, PTL

\* The wakeup of a parked run loop is never lost.
THEOREM WakeupNotLost == SafetySpec => []NoLostWakeup
<1>1. IndInv => NoLostWakeup
    BY DEF IndInv
<1> QED
    BY <1>1, IndInvHolds, PTL

\* At rest the release stamp is there and belongs to the present idle window.
THEOREM StampFresh == SafetySpec => []StampFreshAtRest
<1>1. IndInv => StampFreshAtRest
    BY DEF IndInv
<1> QED
    BY <1>1, IndInvHolds, PTL

-----------------------------------------------------------------------------
(* The interleaved lock implements the atomic one. *)

\* A step of a client maps to an atomic acquire (fetch_add), to an atomic
\* release (fetch_sub) or to a stutter (everything the edges do afterwards).
LEMMA ClientMapsToGate ==
    ASSUME IndInv, NEW c \in Clients, ClientStep(c) PROVE [Gate!Next]_Gate!vars
<1> USE DEF IndInv, Gate!vars
<1>1. CASE FetchAdd(c)
  <2> DEFINE pc == IF count = 0 THEN "clear" ELSE "held"
  <2>1. pc \in {"clear", "notifyAcq", "held"}
      OBVIOUS
  <2>2. Holders' = Holders \cup {c} /\ c \notin Holders
      BY <1>1, <2>1, StartHolding DEF TypeOK, FetchAdd
  <2> QED
      BY <1>1, <2>2 DEF FetchAdd, Gate!Next, Gate!Acquire
<1>2. CASE FetchSub(c)
  <2> DEFINE pc == IF count = 1 THEN "stamp" ELSE "out"
  <2>1. pc \in {"out", "stamp", "notifyRel"}
      OBVIOUS
  <2>2. Holders' = Holders \ {c} /\ c \in Holders
      BY <1>2, <2>1, StopHolding DEF TypeOK, FetchSub
  <2> QED
      BY <1>2, <2>2 DEF FetchSub, Gate!Next, Gate!Release
<1>3. CASE ClearStamp(c) \/ NotifyAcquire(c) \/ StampRelease(c)
           \/ NotifyRelease(c)
  <2>1. Holders' = Holders
      BY <1>3, KeepHolding DEF TypeOK, ClientPC, ClearStamp, NotifyAcquire,
         StampRelease, NotifyRelease
  <2> QED
      BY <1>3, <2>1 DEF ClearStamp, NotifyAcquire, StampRelease, NotifyRelease
<1> QED
    BY <1>1, <1>2, <1>3 DEF ClientStep

\* A step of the run loop maps to Park, to Wake with a holder present, or to a
\* stutter (the re-checks that drop a stale permit).
LEMMA WaiterMapsToGate ==
    ASSUME IndInv, WaiterStep PROVE [Gate!Next]_Gate!vars
<1>1. Holders' = Holders
    BY DEF WaiterStep, Park, WaitCheck, WaitNotified, WaitRecheck, lockVars,
           Holders
<1>2. count = 0 <=> Holders = {}
    BY IdleIffNoHolder DEF IndInv
<1> QED
    BY <1>1, <1>2 DEF WaiterStep, Park, WaitCheck, WaitNotified, WaitRecheck,
           Gate!Next, Gate!Park, Gate!Wake, Gate!vars

\* WakeLock implements WakeGate: acquire and release look atomic, and
\* wait_for_acquire returns only while somebody holds the lock, whatever stale
\* permits are stored.
THEOREM ImplementsGate == SafetySpec => GateSafety
<1>1. Init => Gate!Init
    BY DEF Init, Gate!Init, Holders, Holding
<1>2. IndInv /\ [Next]_vars => [Gate!Next]_Gate!vars
  <2> SUFFICES ASSUME IndInv, [Next]_vars PROVE [Gate!Next]_Gate!vars
      OBVIOUS
  <2>1. CASE ReaderStep \/ Tick \/ ReleaseTaken \/ UNCHANGED vars
      BY <2>1 DEF ReaderStep, IdleSinceCount, IdleSinceStamp, IdleSinceUsed,
         Tick, ReleaseTaken, lockVars, vars, Holders, Gate!vars
  <2> QED
      BY <2>1, ClientMapsToGate, WaiterMapsToGate DEF Next, LockStep
<1> QED
    BY <1>1, <1>2, IndInvHolds, PTL DEF SafetySpec, GateSafety, Gate!SafetySpec

-----------------------------------------------------------------------------
(* The grace task. *)

\* With the grace task beside it the lock is still the lock: the task's only
\* effect on it is to take the release permit.
THEOREM GraceKeepsLock == GraceSafetySpec => SafetySpec
<1>1. GraceInit => Init
    BY DEF GraceInit
<1>2. [GraceNext]_allVars => [Next]_vars
    BY DEF GraceNext, GraceStep, GraceSpawn, GraceCheck, GraceNotified,
           GraceDeadline, GraceAborted, Next, allVars
<1> QED
    BY <1>1, <1>2, PTL DEF GraceSafetySpec, SafetySpec

GraceInv == GraceTypeOK /\ NoLostRelease

\* The steps of the task keep its invariant: it awaits only after it saw the lock
\* held, and takes the permit only as it leaves the await.
LEMMA GraceStepInv ==
    ASSUME TypeOK, GraceInv, GraceStep PROVE GraceInv'
<1> USE DEF GraceInv, GraceStep, GraceSpawn, GraceCheck, GraceNotified,
            GraceDeadline, GraceAborted, ReleaseTaken, vars
<1>1. GraceTypeOK'
    BY DurationPositive DEF GraceTypeOK, GracePC, TypeOK
<1>2. NoLostRelease'
    BY DEF NoLostRelease, GraceTypeOK, GracePC
<1> QED
    BY <1>1, <1>2

\* The steps of the lock keep it: the drop that makes the lock idle owes a
\* notify_one until it has stored the permit.
LEMMA LockStepGraceInv ==
    ASSUME TypeOK, GraceInv, LockStep, UNCHANGED graceVars PROVE GraceInv'
<1> USE DEF GraceInv, graceVars
<1>1. GraceTypeOK'
    BY DEF GraceTypeOK
<1>2. ASSUME NEW c \in Clients, ClientStep(c) PROVE NoLostRelease'
  <2>1. CASE FetchAdd(c)
      BY <2>1 DEF FetchAdd, NoLostRelease, TypeOK
  <2>2. CASE FetchSub(c)
      BY <2>2 DEF FetchSub, NoLostRelease, TypeOK
  <2>3. CASE ClearStamp(c) \/ NotifyAcquire(c)
      BY <2>3 DEF ClearStamp, NotifyAcquire, NoLostRelease, TypeOK
  <2>4. CASE StampRelease(c) \/ NotifyRelease(c)
      BY <2>4 DEF StampRelease, NotifyRelease, NoLostRelease, TypeOK
  <2> QED
      BY <1>2, <2>1, <2>2, <2>3, <2>4 DEF ClientStep
<1>3. ASSUME WaiterStep \/ ReaderStep \/ Tick PROVE NoLostRelease'
    BY <1>3 DEF WaiterStep, Park, WaitCheck, WaitNotified, WaitRecheck, ReaderStep,
       IdleSinceCount, IdleSinceStamp, IdleSinceUsed, Tick, lockVars, NoLostRelease
<1>4. NoLostRelease'
    BY <1>2, <1>3 DEF LockStep
<1> QED
    BY <1>1, <1>4

\* The grace task keeps its own invariant on every lock it runs beside.
LEMMA GraceInvHolds == GraceSafetySpec => []GraceInv
<1>1. GraceInit => GraceInv
    BY DEF GraceInit, GraceInv, GraceTypeOK, GracePC, NoLostRelease
<1>2. TypeOK /\ GraceInv /\ [GraceNext]_allVars => GraceInv'
  <2> SUFFICES ASSUME TypeOK, GraceInv, [GraceNext]_allVars PROVE GraceInv'
      OBVIOUS
  <2>1. CASE UNCHANGED allVars
      BY <2>1 DEF allVars, vars, GraceInv, GraceTypeOK, NoLostRelease
  <2> QED
      BY <2>1, GraceStepInv, LockStepGraceInv DEF GraceNext
<1> QED
    BY <1>1, <1>2, GraceKeepsLock, TypeCorrect, PTL DEF GraceSafetySpec

\* A release is never lost between the lock and the grace task, whatever the
\* number of clients and however their drops interleave with the task's check.
THEOREM ReleaseNotLost == GraceSafetySpec => []NoLostRelease
<1>1. GraceInv => NoLostRelease
    BY DEF GraceInv
<1> QED
    BY <1>1, GraceInvHolds, PTL

\* Everything the run checks of the lock and the grace task, for any finite set of
\* clients: exact counts, no wakeup and no release lost, a fresh stamp at rest.
THEOREM SafetyHolds == GraceSafetySpec => []LockSafety
<1>1. IndInv /\ GraceInv => LockSafety
    BY DEF IndInv, GraceInv, LockSafety
<1> QED
    BY <1>1, IndInvHolds, GraceInvHolds, GraceKeepsLock, PTL
=============================================================================
