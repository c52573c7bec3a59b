------------------------------ MODULE WakeLock ------------------------------
(***************************************************************************)
(* WakeLockCounter (src/wake_lock.rs): the reference count that keeps a    *)
(* battery camera awake.  Clients (RTSP subscriptions, the MQTT wakeup     *)
(* handler, the motion listener, push events) acquire and drop guards on   *)
(* any thread; one run loop parks in wait_for_acquire; one watchdog reads  *)
(* idle_since.                                                             *)
(*                                                                         *)
(* acquire and the guard's Drop are not atomic: each is an atomic          *)
(* read-modify-write of count followed, on the 0 -> 1 and 1 -> 0 edges     *)
(* only, by a separate update of last_release_at under its mutex and then  *)
(* by a notify_one.  Every one of those is a step here, so the steps of    *)
(* several clients interleave.                                             *)
(*                                                                         *)
(* tokio's Notify is external: notify_one stores at most one permit, and a *)
(* Notified future completes by consuming it.  A Notified that was created *)
(* but never polled consumes nothing, so creating it is not a step.        *)
(***************************************************************************)
EXTENDS Integers, FiniteSets

CONSTANTS Clients,   \* the callers of acquire, each with one guard at a time
          MaxTime    \* bound on the clock

ASSUME ClientsFinite == IsFiniteSet(Clients)
ASSUME MaxTimeNat == MaxTime \in Nat

VARIABLES
    count,            \* WakeLockInner.count
    last_release_at,  \* WakeLockInner.last_release_at, Never for None
    notify_acquire,   \* the stored permit of WakeLockInner.notify_acquire
    notify_release,   \* the stored permit of WakeLockInner.notify_release
    client,           \* where each client is in acquire / hold / drop
    waiter,           \* where the run loop is in wait_for_acquire
    reader,           \* where the watchdog is in idle_since
    seen,             \* what idle_since last returned
    now,              \* Instant::now(), in ticks
    idleFrom          \* history: when count last went 1 -> 0, Never before

lockVars == <<count, last_release_at, notify_acquire, notify_release, client>>
vars == <<count, last_release_at, notify_acquire, notify_release, client,
          waiter, reader, seen, now, idleFrom>>

Never == -1
Instants == Nat \cup {Never}

ClientPC == {"out", "clear", "notifyAcq", "held", "stamp", "notifyRel"}
WaiterPC == {"out", "check", "await", "recheck"}
ReaderPC == {"out", "read", "returned"}

\* The clients whose increment is in count: from fetch_add to fetch_sub.
Holding(cs) == {c \in Clients : cs[c] \in {"clear", "notifyAcq", "held"}}
Holders == Holding(client)

\* WakeLockCounter::new.
Init ==
    /\ count = 0
    /\ last_release_at = Never
    /\ notify_acquire = FALSE
    /\ notify_release = FALSE
    /\ client = [c \in Clients |-> "out"]
    /\ waiter = "out"
    /\ reader = "out"
    /\ seen = Never
    /\ now = 0
    /\ idleFrom = Never

-----------------------------------------------------------------------------
(* acquire: fetch_add, and on the 0 -> 1 edge clear the stamp, then notify. *)

\* Defect: a store instead of fetch_add.
FetchAddStore(c) ==
    /\ client[c] = "out"
    /\ count' = 1
    /\ client' = [client EXCEPT ![c] = IF count = 0 THEN "clear" ELSE "held"]
    /\ UNCHANGED <<last_release_at, notify_acquire, notify_release,
                   waiter, reader, seen, now, idleFrom>>

\* Defect: the edge is taken from the new count, not from the previous one.
FetchAddEdge(c) ==
    /\ client[c] = "out"
    /\ count' = count + 1
    /\ client' = [client EXCEPT ![c] = IF count = 1 THEN "clear" ELSE "held"]
    /\ UNCHANGED <<last_release_at, notify_acquire, notify_release,
                   waiter, reader, seen, now, idleFrom>>

FetchAdd(c) ==
    /\ client[c] = "out"
    /\ count' = count + 1
    /\ client' = [client EXCEPT ![c] = IF count = 0 THEN "clear" ELSE "held"]
    /\ UNCHANGED <<last_release_at, notify_acquire, notify_release,
                   waiter, reader, seen, now, idleFrom>>

ClearStamp(c) ==
    /\ client[c] = "clear"
    /\ last_release_at' = Never
    /\ client' = [client EXCEPT ![c] = "notifyAcq"]
    /\ UNCHANGED <<count, notify_acquire, notify_release,
                   waiter, reader, seen, now, idleFrom>>

\* Defect: the notify_one is missing.
NotifyAcquireMissing(c) ==
    /\ client[c] = "notifyAcq"
    /\ client' = [client EXCEPT ![c] = "held"]
    /\ UNCHANGED <<count, last_release_at, notify_acquire, notify_release,
                   waiter, reader, seen, now, idleFrom>>

NotifyAcquire(c) ==
    /\ client[c] = "notifyAcq"
    /\ notify_acquire' = TRUE
    /\ client' = [client EXCEPT ![c] = "held"]
    /\ UNCHANGED <<count, last_release_at, notify_release,
                   waiter, reader, seen, now, idleFrom>>

(* Drop of the guard: fetch_sub, and on the 1 -> 0 edge stamp, then notify. *)

\* Defect: a guard that can be dropped twice.
FetchSubTwice(c) ==
    /\ client[c] = "held"
    /\ count' = count - 1
    /\ client' = [client EXCEPT ![c] = IF count = 1 THEN "stamp" ELSE "held"]
    /\ idleFrom' = IF count = 1 THEN now ELSE idleFrom
    /\ UNCHANGED <<last_release_at, notify_acquire, notify_release,
                   waiter, reader, seen, now>>

FetchSub(c) ==
    /\ client[c] = "held"
    /\ count' = count - 1
    /\ client' = [client EXCEPT ![c] = IF count = 1 THEN "stamp" ELSE "out"]
    /\ idleFrom' = IF count = 1 THEN now ELSE idleFrom
    /\ UNCHANGED <<last_release_at, notify_acquire, notify_release,
                   waiter, reader, seen, now>>

\* Defect: get_or_insert keeps an older stamp.
StampReleaseOnce(c) ==
    /\ client[c] = "stamp"
    /\ last_release_at' = IF last_release_at = Never THEN now ELSE last_release_at
    /\ client' = [client EXCEPT ![c] = "notifyRel"]
    /\ UNCHANGED <<count, notify_acquire, notify_release,
                   waiter, reader, seen, now, idleFrom>>

StampRelease(c) ==
    /\ client[c] = "stamp"
    /\ last_release_at' = now
    /\ client' = [client EXCEPT ![c] = "notifyRel"]
    /\ UNCHANGED <<count, notify_acquire, notify_release,
                   waiter, reader, seen, now, idleFrom>>

NotifyRelease(c) ==
    /\ client[c] = "notifyRel"
    /\ notify_release' = TRUE
    /\ client' = [client EXCEPT ![c] = "out"]
    /\ UNCHANGED <<count, last_release_at, notify_acquire,
                   waiter, reader, seen, now, idleFrom>>

-----------------------------------------------------------------------------
(* wait_for_acquire: create the Notified, return if not idle, otherwise    *)
(* await a permit, return if not idle now, else drop it and start over.    *)

\* CameraHandle::run calls wait_for_acquire after it saw is_idle.
Park ==
    /\ waiter = "out"
    /\ count = 0
    /\ waiter' = "check"
    /\ UNCHANGED <<lockVars, reader, seen, now, idleFrom>>

WaitCheck ==
    /\ waiter = "check"
    /\ waiter' = IF count # 0 THEN "out" ELSE "await"
    /\ UNCHANGED <<lockVars, reader, seen, now, idleFrom>>

WaitNotified ==
    /\ waiter = "await"
    /\ notify_acquire
    /\ notify_acquire' = FALSE
    /\ waiter' = "recheck"
    /\ UNCHANGED <<count, last_release_at, notify_release, client,
                   reader, seen, now, idleFrom>>

\* Defect: any permit, a stale one included, ends the wait.
WaitRecheckMissing ==
    /\ waiter = "recheck"
    /\ waiter' = "out"
    /\ UNCHANGED <<lockVars, reader, seen, now, idleFrom>>

WaitRecheck ==
    /\ waiter = "recheck"
    /\ waiter' = IF count # 0 THEN "out" ELSE "check"
    /\ UNCHANGED <<lockVars, reader, seen, now, idleFrom>>

(* idle_since: None when count is not 0, else the stamp read afterwards.   *)

IdleSinceCount ==
    /\ reader # "read"
    /\ reader' = IF count = 0 THEN "read" ELSE "returned"
    /\ seen' = Never
    /\ UNCHANGED <<lockVars, waiter, now, idleFrom>>

IdleSinceStamp ==
    /\ reader = "read"
    /\ reader' = "returned"
    /\ seen' = last_release_at
    /\ UNCHANGED <<lockVars, waiter, now, idleFrom>>

\* The caller is done with what idle_since returned.
IdleSinceUsed ==
    /\ reader = "returned"
    /\ reader' = "out"
    /\ seen' = Never
    /\ UNCHANGED <<lockVars, waiter, now, idleFrom>>

Tick ==
    /\ now < MaxTime
    /\ now' = now + 1
    /\ UNCHANGED <<lockVars, waiter, reader, seen, idleFrom>>

\* notified().await returns: whoever waits for a release takes the stored permit.
ReleaseTaken ==
    /\ notify_release
    /\ notify_release' = FALSE
    /\ UNCHANGED <<count, last_release_at, notify_acquire, client,
                   waiter, reader, seen, now, idleFrom>>

-----------------------------------------------------------------------------

ClientStep(c) ==
    \/ FetchAdd(c) \/ ClearStamp(c) \/ NotifyAcquire(c)
    \/ FetchSub(c) \/ StampRelease(c) \/ NotifyRelease(c)

WaiterStep == Park \/ WaitCheck \/ WaitNotified \/ WaitRecheck
ReaderStep == IdleSinceCount \/ IdleSinceStamp \/ IdleSinceUsed

LockStep == (\E c \in Clients : ClientStep(c)) \/ WaiterStep \/ ReaderStep \/ Tick

Next == LockStep \/ ReleaseTaken

\* A thread inside acquire, Drop or a polled future is not descheduled for
\* ever; nothing makes a client acquire or release, or the clock advance.
Fairness ==
    /\ \A c \in Clients :
           WF_vars(ClearStamp(c) \/ NotifyAcquire(c)
                   \/ StampRelease(c) \/ NotifyRelease(c))
    /\ WF_vars(WaitCheck \/ WaitNotified \/ WaitRecheck)

SafetySpec == Init /\ [][Next]_vars
Spec == SafetySpec /\ Fairness

-----------------------------------------------------------------------------
(* Properties *)

\* The state of the counter, of its two permits and of its callers is well
\* formed; count never underflows (fetch_sub on 0 would wrap the usize).
TypeOK ==
    /\ count \in Nat
    /\ last_release_at \in Instants
    /\ notify_acquire \in BOOLEAN
    /\ notify_release \in BOOLEAN
    /\ client \in [Clients -> ClientPC]
    /\ waiter \in WaiterPC
    /\ reader \in ReaderPC
    /\ seen \in Instants
    /\ now \in Nat
    /\ idleFrom \in Instants

\* count is the number of clients between fetch_add and fetch_sub, whatever
\* the interleaving of acquire and drop.
CountIsHolders == count = Cardinality(Holders)

\* No lost wakeup: while the run loop is parked on notify_acquire and the lock
\* is held, a permit is stored or the client that took it from 0 to 1 has yet
\* to call notify_one (the comment in acquire: "would leave an idle-disconnect
\* camera parked forever").
NoLostWakeup ==
    waiter = "await" /\ count > 0 =>
        \/ notify_acquire
        \/ \E c \in Clients : client[c] \in {"clear", "notifyAcq"}

\* Once every drop has run to its end, an idle lock that was ever held has a
\* stamp, and the stamp is not older than the release that made it idle: no
\* interleaving of stamps and clears leaves a stale or a missing one, so a
\* watchdog tick never measures a longer idle time than the real one then.
StampFreshAtRest ==
    count = 0 /\ idleFrom # Never
              /\ (\A c \in Clients : client[c] # "stamp")
        => last_release_at >= idleFrom

\* A run loop parked while a client holds the lock leaves wait_for_acquire,
\* unless the client gives the lock up first.
HeldWakesWaiter ==
    (waiter = "await" /\ count > 0) ~> (waiter = "out" \/ count = 0)

\* The detailed lock implements the atomic one that the run loop is written
\* against: a client holds from its fetch_add to its fetch_sub, and the run loop
\* is parked from its call of wait_for_acquire to its return.
Gate == INSTANCE WakeGate WITH holders <- Holders, parked <- (waiter # "out")
GateSafety == Gate!SafetySpec
GateSpec == Gate!Spec

\* What the comment in idle_since says: "A racing acquire would have cleared
\* the timestamp first; we re-check count to avoid handing back a stale
\* `Some(_)` from a prior idle window".  When idle_since returns a stamp, the
\* lock is idle and the stamp belongs to the present idle window.  It fails (README, 3).
IdleSinceIsCurrent ==
    [][reader = "read" /\ reader' = "returned" /\ seen' # Never
          => count = 0 /\ seen' >= idleFrom]_vars
=============================================================================
