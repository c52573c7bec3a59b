------------------------------ MODULE WakeGate ------------------------------
(***************************************************************************)
(* What the wake lock promises the camera run loop: acquire and release    *)
(* are atomic, a parked run loop leaves only while somebody holds the      *)
(* lock, and it does leave when the lock stays held.  WakeLock implements  *)
(* this specification; CameraLifecycle is written against it.              *)
(***************************************************************************)
CONSTANT Clients

VARIABLES holders,  \* the clients that hold a guard
          parked    \* the run loop is inside wait_for_acquire

vars == <<holders, parked>>

Init == holders = {} /\ parked = FALSE

Acquire(c) == c \notin holders /\ holders' = holders \cup {c} /\ UNCHANGED parked
Release(c) == c \in holders /\ holders' = holders \ {c} /\ UNCHANGED parked
Park == ~parked /\ holders = {} /\ parked' = TRUE /\ UNCHANGED holders
Wake == parked /\ holders # {} /\ parked' = FALSE /\ UNCHANGED holders

Next == (\E c \in Clients : Acquire(c) \/ Release(c)) \/ Park \/ Wake

SafetySpec == Init /\ [][Next]_vars
Spec == SafetySpec /\ WF_vars(Wake)
=============================================================================
