----------------------------- MODULE MCCameraActivity -----------------------------
(* One camera in four situations: two commands at once, motion with a push, battery *)
(* polls over two sessions, and a little of everything.                             *)
EXTENDS CameraActivity

None == [enable_motion |-> FALSE, warm |-> FALSE, sessions |-> 1, cancels |-> 0,
         alarms |-> 0, pushes |-> 0, polls |-> 0, commands |-> 0]
MCBudgets ==
    {[None EXCEPT !.commands = 2, !.cancels = 1, !.sessions = 2],
     [None EXCEPT !.enable_motion = TRUE, !.alarms = 4, !.pushes = 1],
     [None EXCEPT !.sessions = 2, !.polls = 4],
     [None EXCEPT !.enable_motion = TRUE, !.alarms = 1, !.pushes = 1, !.commands = 1,
                  !.warm = TRUE]}
====================================================================================
