----------------------------- MODULE GracePeriod -----------------------------
(***************************************************************************)
(* GracePeriod::run (src/grace_period.rs) on top of the wake lock: wait    *)
(* for the lock to be idle or for a release permit, sleep the grace        *)
(* duration, and return if the lock is idle at the deadline; the caller    *)
(* then cancels the camera session.                                        *)
(***************************************************************************)
EXTENDS WakeLock

CONSTANT Duration  \* the grace duration, in ticks

ASSUME DurationPositive == Duration \in Nat \ {0}

VARIABLES grace,     \* where the task is
          deadline   \* when the sleep ends

graceVars == <<grace, deadline>>
allVars == <<vars, grace, deadline>>

GracePC == {"off", "check", "await", "sleep", "returned"}

GraceInit == Init /\ grace = "off" /\ deadline = 0

\* A connected session spawns the task; release permits of earlier sessions may
\* still be stored.
GraceSpawn ==
    /\ grace \in {"off", "returned"}
    /\ grace' = "check"
    /\ UNCHANGED <<vars, deadline>>

\* Defect: wait for a release although the lock is idle already.
GraceCheckMissing ==
    /\ grace = "check"
    /\ grace' = "await"
    /\ UNCHANGED <<vars, deadline>>

\* Create the Notified, then read is_idle: idle goes straight to the sleep.
GraceCheck ==
    /\ grace = "check"
    /\ grace' = IF count = 0 THEN "sleep" ELSE "await"
    /\ deadline' = IF count = 0 THEN now + Duration ELSE deadline
    /\ UNCHANGED vars

\* Defect: the deadline is put before the release.
GraceNotifiedBefore ==
    /\ grace = "await"
    /\ ReleaseTaken
    /\ grace' = "sleep"
    /\ deadline' = now - Duration

\* notification.await returns: the release permit, fresh or stored, is used.
GraceNotified ==
    /\ grace = "await"
    /\ ReleaseTaken
    /\ grace' = "sleep"
    /\ deadline' = now + Duration

\* The sleep is over: return when idle at this moment, otherwise start over.
GraceDeadline ==
    /\ grace = "sleep"
    /\ now >= deadline
    /\ grace' = IF count = 0 THEN "returned" ELSE "check"
    /\ UNCHANGED <<vars, deadline>>

\* The session ends for another reason: teardown aborts the task.
GraceAborted ==
    /\ grace \in {"check", "await", "sleep"}
    /\ grace' = "off"
    /\ UNCHANGED <<vars, deadline>>

GraceStep == GraceSpawn \/ GraceCheck \/ GraceNotified \/ GraceDeadline
             \/ GraceAborted

GraceNext == GraceStep \/ (LockStep /\ UNCHANGED graceVars)

GraceSafetySpec == GraceInit /\ [][GraceNext]_allVars
GraceSpec == GraceSafetySpec /\ Fairness

-----------------------------------------------------------------------------
(* Properties *)

\* The grace task's own state is well formed.
GraceTypeOK == grace \in GracePC /\ deadline \in Nat

\* No lost release: while the grace task waits for a release and the lock is
\* idle, a permit is stored or the releasing client has yet to call notify_one.
\* Otherwise a battery camera would stay awake for ever with nobody using it
\* (the comment in Drop: "a release that races a just-spawned grace task still
\* fires").
NoLostRelease ==
    grace = "await" /\ count = 0 =>
        \/ notify_release
        \/ \E c \in Clients : client[c] \in {"stamp", "notifyRel"}

\* What the lock and the grace task promise together: exact counts, no wakeup and no
\* release lost between the atomic operations and the two Notify permits, and a
\* stamp that is fresh once every drop has ended.
LockSafety ==
    /\ TypeOK /\ GraceTypeOK
    /\ CountIsHolders /\ NoLostWakeup /\ StampFreshAtRest
    /\ NoLostRelease

\* What docs/architecture.md says of the countdown: "any new `acquire()` before
\* the countdown expires resets it", so the task returns only when the lock has
\* been idle for the whole grace duration.  It fails (README, 3).
CountdownRestarts ==
    [][grace = "sleep" /\ grace' = "returned"
          => idleFrom = Never \/ now - idleFrom >= Duration]_allVars
=============================================================================
