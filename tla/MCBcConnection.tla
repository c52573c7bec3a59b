----------------------------- MODULE MCBcConnection -----------------------------
(* A small instance: two clients, one that sets, takes a snapshot or streams,   *)
(* and one that sounds the siren, which the first may do as well.                *)
EXTENDS BcConnection

CONSTANTS c1, c2

MCConfigs == {[is_cloud |-> FALSE, password |-> TRUE, handshake |-> FALSE],
              [is_cloud |-> TRUE, password |-> FALSE, handshake |-> FALSE]}
MCCommandsOf(c) == IF c = c1 THEN {led_light_set, siren, get_snapshot, start_video} ELSE {siren}

\* Every command of BcCamera meets ConnectionAssumption, not only those of this instance.
ASSUME CommandsPlanned == \A plan \in Commands : Planned(plan) /\ plan[1].sub = "new"
\* Nor is this one a property of the instance: of all commands only the snapshot takes
\* replies under a number that is not its request's.
ASSUME CommandsDirect == \A plan \in Commands \ {get_snapshot} : Direct(plan)
===================================================================================
