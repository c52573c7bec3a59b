------------------------------- MODULE OneShot ------------------------------
(***************************************************************************)
(* A one-shot command (src/run_support.rs, oneshot/, cli.rs,               *)
(* cli_convert.rs and connect_with_phase_timeouts of bc_camera.rs): what   *)
(* it does before it touches a camera, the session it opens, the requests  *)
(* of its body, and the exit code it ends with.  Ctrl+C can come between   *)
(* any two steps.                                                          *)
(***************************************************************************)
EXTENDS CommandLine

VARIABLES
    cmd,          \* the command and its action
    phase,        \* "start", "connect", "login", "op", "logout" or "exited"
    todo,         \* the requests the body has yet to make
    outcome,      \* the exit code it will end with
    preview,      \* a preview is running on the camera
    session,      \* "none", "open", "unsure" (the login failed and the camera may have
                  \* taken it), "ended" (the logout was sent) or "unended" (it failed)
    touched       \* why a preview may be left: "no", "cancel", "timeout", "start", "stop"

oneShotVars == <<cmd, phase, todo, outcome, preview, session, touched>>

\* is_check_config, is_cloud_authorise: never reach a camera
NoCamera(c) == Route(c) # "camera"

\* classify: what each step's failures end in.  An elapsed connect, login or
\* body budget carries no camera error and is "unexpected".
Classified(errors) == {classify_core(e) : e \in errors} \union {EXIT_UNEXPECTED}
classify(step) ==
    CASE step = "connect" -> Classified(Errors \ (Refused \union Unsupported))
      [] step = "login" -> Classified(Errors \ Unsupported)
      [] step \in {"password", "check"} -> {EXIT_USAGE, EXIT_UNEXPECTED}
      [] step = "refuse" -> {EXIT_USAGE}
      [] step \in {"probe", "window"} -> {}
      [] OTHER -> Classified(Errors \ Refused)

Exit(code) == phase' = "exited" /\ outcome' = code

-----------------------------------------------------------------------------
\* run_oneshot_to up to the connection: snapshot_json_preflight, load_config
\* (a missing file is a usage error) and find_camera_config
Start ==
    /\ phase = "start"
    /\ \/ \E code \in {EXIT_USAGE, EXIT_CONFIG} : Exit(code)
       \/ cmd.name = "cloud-authorise" /\ Exit(EXIT_CONNECTION)
       \/ NoCamera(cmd) /\ Exit(EXIT_OK)
       \/ ~NoCamera(cmd) /\ phase' = "connect" /\ UNCHANGED outcome
    /\ UNCHANGED <<cmd, todo, preview, session, touched>>

\* connect_with_phase_timeouts: a failure or a budget that elapses ends it
Connect ==
    /\ phase = "connect"
    /\ \/ phase' = "login" /\ UNCHANGED outcome
       \/ \E code \in classify("connect") : Exit(code)
    /\ UNCHANGED <<cmd, todo, preview, session, touched>>

\* A login that fails or runs out of time may have been taken by the camera
Login ==
    /\ phase = "login"
    /\ \/ phase' = "op" /\ session' = "open" /\ UNCHANGED outcome
       \/ \E code \in classify("login") : Exit(code) /\ session' \in {"none", "unsure"}
    /\ UNCHANGED <<cmd, todo, preview, touched>>

\* A request of the body is answered
Succeeds ==
    /\ phase = "op" /\ todo # <<>> /\ Head(todo) # "refuse"
    /\ todo' = Tail(todo)
    /\ preview' = CASE Head(todo) = "start" -> TRUE
                    [] Head(todo) = "stop" -> FALSE
                    [] OTHER -> preview
    /\ UNCHANGED <<cmd, phase, outcome, session, touched>>

\* What is still done after a request has failed: the stop after a drain
AfterFailure(step) == IF step = "drain" THEN <<"stop">> ELSE <<>>

\* A request of the body fails.  The answer of stop_video is not looked at; a
\* start_video that fails may have reached the camera.
Failing ==
    /\ phase = "op" /\ todo # <<>>
    /\ \E code \in IF Head(todo) = "stop" THEN {outcome} ELSE classify(Head(todo)) :
         outcome' = code
    /\ todo' = IF Head(todo) = "stop" THEN IF outcome = EXIT_OK THEN Tail(todo) ELSE <<>>
               ELSE AfterFailure(Head(todo))
    /\ preview' \in IF Head(todo) = "start" THEN BOOLEAN ELSE {preview}
    /\ touched' = IF Head(todo) \in {"start", "stop"} THEN Head(todo) ELSE touched
    /\ UNCHANGED <<cmd, phase, session>>

\* Defect: an elapsed budget leaves by `?', before the logout.
OpTimeoutLeaves ==
    /\ phase = "op" /\ todo # <<>>
    /\ Exit(EXIT_UNEXPECTED)
    /\ touched' = "timeout"
    /\ UNCHANGED <<cmd, todo, preview, session>>

\* op_budget_for elapses and the body is dropped where it is
OpTimeout ==
    /\ phase = "op" /\ todo # <<>>
    /\ todo' = <<>>
    /\ outcome' = EXIT_UNEXPECTED
    /\ touched' = "timeout"
    /\ UNCHANGED <<cmd, phase, preview, session>>

OpEnds ==
    /\ phase = "op" /\ todo = <<>>
    /\ phase' = "logout"
    /\ UNCHANGED <<cmd, todo, outcome, preview, session, touched>>

\* end_session within LOGOUT_TIMEOUT: it may fail or run out of time, and what
\* becomes of it is not looked at
Logout ==
    /\ phase = "logout"
    /\ session' \in {"ended", "unended"}
    /\ Exit(outcome)
    /\ UNCHANGED <<cmd, todo, preview, touched>>

\* Ctrl+C: the whole future is dropped
Cancel ==
    /\ phase \in {"connect", "login", "op", "logout"}
    /\ Exit(EXIT_INTERRUPTED)
    /\ touched' = "cancel"
    /\ UNCHANGED <<cmd, todo, preview, session>>

OneShotInit ==
    /\ cmd \in {c \in CommandLines : Route(c) \in {"camera", "config", "cloud"}}
    /\ phase = "start"
    /\ todo = IF NoCamera(cmd) THEN <<>> ELSE Body(cmd)
    /\ outcome = EXIT_OK
    /\ preview = FALSE
    /\ session = "none"
    /\ touched = "no"

OneShotNext ==
    Start \/ Connect \/ Login \/ Succeeds \/ Failing \/ OpTimeout \/ OpEnds \/ Logout \/ Cancel

-----------------------------------------------------------------------------
\* A command that exits with 0 has made every request and tried to end its
\* session; one that was not interrupted has tried to end the session it
\* opened, whatever failed or ran out of time before (the logout itself may
\* fail, and a login that failed may have left a session: nothing is claimed
\* of those, and the first can go with exit code 0); and a preview is left running only by Ctrl+C, by a body that ran out
\* of time or by a start_video or a stop_video that failed (runner.rs,
\* capture.rs, snapshot.rs).
LeavesNothing ==
    phase = "exited" =>
      /\ outcome = EXIT_OK =>
           todo = <<>> /\ (~NoCamera(cmd) => session \in {"ended", "unended"})
      /\ session = "open" => outcome = EXIT_INTERRUPTED
      /\ preview => touched # "no"
      /\ NoCamera(cmd) => session = "none"

=============================================================================
