--------------------------- MODULE OperatorStation ---------------------------
(***************************************************************************)
(* The operator's desktop from login to the end of an operation: the login *)
(* window and the session, MainWindow's routes, the list of operations, the*)
(* release gate, the WorkSession that the gate starts and the camera that  *)
(* watches it (2identify_operador: ApplicationController,                  *)
(* OperatorSessionContext, WorkSessionService, MainWindow).                *)
(*                                                                         *)
(* The main window and its controllers live from login to logout, the login*)
(* window and its controllers as long as the process.                      *)
(***************************************************************************)
EXTENDS OperatorLogin, OperationsList, ReleaseGate, ActiveCamera

CONSTANT MaxEvents          \* bound: worker signals waiting for the UI thread

\* The list offers every operation that can be opened.
ASSUME StationAssumption == Operations \subseteq Offered

VARIABLES
    route,                  \* the page MainWindow shows
    workSession             \* operation of the current WorkSession

stationVars == <<route, workSession>>
vars == <<loginVars, listVars, releaseVars, activeVars, stationVars>>

loggedIn == session # NoSession

NoWorkSession == workSession = NoOperation

Init ==
    /\ LoginInit /\ ListInit /\ ReleaseInit /\ ActiveInit
    /\ route = "login" /\ workSession = NoOperation

-----------------------------------------------------------------------------
\* What the operator does at the login window, and what its workers answer:
\* _open_session_and_main_window loads the list of operations, and an answer that
\* comes while a session is open changes nothing but the hidden window.
AtLogin == ~loggedIn /\ LoginClick /\ UNCHANGED <<listVars, releaseVars, activeVars, stationVars>>

HandleLoginSignal ==
    /\ HandleLogin
    /\ IF session' # session
       THEN route' = "operations" /\ LoadOperations
       ELSE UNCHANGED <<route, listVars>>
    /\ UNCHANGED <<releaseVars, activeVars, workSession>>

\* handle_logout waits for every worker of the main window; what they still had
\* to say is lost with it.  The wait is taken to end before its timeout, and the
\* clock not to be set back before the start of the WorkSession.
Logout ==
    /\ loggedIn
    /\ ResetLogin
    /\ route' = "login" /\ workSession' = NoOperation
    /\ ListGone /\ ReleaseGone /\ ActiveGone

\* Bound: the operator goes on after a login by face that was not cancelled and of
\* which nothing is under way any more.
PlainLogin ==
    /\ session = "face" /\ form = "ready" /\ faceState = "recognized"
    /\ LoginRests /\ ~faceStop

\* Bound: pictures are asked for before the first verification of a session.
AtList ==
    /\ route = "operations"
    /\ PlainLogin
    /\ \/ \E op \in Operations : ShowDetails(op)
       \/ operation = NoOperation /\ RequestArea
    /\ UNCHANGED <<loginVars, releaseVars, activeVars, stationVars>>

\* Bound: the picture that was asked for is taken, and its camera closed.
PlainPages == PlainLogin /\ PictureRests /\ preview = "hidden"

\* Bound: the UI thread has caught up with the session before; its camera worker
\* may still be running.
SelectOperation(op) ==
    /\ route = "operations" /\ selected = op
    /\ PlainPages
    /\ captureSignals = <<>> /\ restartTimers = 0
    /\ route' = "safety"
    /\ OpenVerification(op)
    /\ UNCHANGED <<loginVars, listVars, activeVars, workSession>>

\* show_operations, from the button or the sidebar.
Back ==
    /\ route = "safety"
    /\ route' = "operations"
    /\ Deactivate
    /\ UNCHANGED <<loginVars, listVars, operation, activeVars, workSession>>

Retry ==
    /\ \/ RetryCamera /\ UNCHANGED activeVars
       \/ RetryCapture /\ UNCHANGED releaseVars
    /\ UNCHANGED <<loginVars, listVars, stationVars>>

\* handle_operation_start_authorized runs inside the click: the WorkSession, then
\* show_active_operation.
StartWorkSession ==
    /\ NoWorkSession
    /\ workSession' = operation
    /\ route' = "active"
    /\ Deactivate
    /\ ActivateMonitoring
    /\ UNCHANGED operation

\* INICIAR OPERAÇÃO.  A clock set back in between makes the authorization look
\* like one of the future.
RequestStart ==
    /\ startEnabled
    /\ \/ GateOpens /\ StartWorkSession
       \/ GateOpens /\ LoseAuthorization /\ UNCHANGED <<activeVars, stationVars>>
       \/ ~GateOpens /\ RejectStart /\ UNCHANGED <<activeVars, stationVars>>
    /\ UNCHANGED <<loginVars, listVars>>

\* handle_work_session_finish_requested, then close_active_operation.
FinishWorkSession ==
    /\ ~NoWorkSession
    /\ workSession' = NoOperation
    /\ route' = "operations"
    /\ ClearPage
    /\ UNCHANGED <<loginVars, listVars, releaseVars>>

\* Timers and signals of the main window, in the UI thread.
Handle ==
    /\ \/ /\ HandleLoad \/ HandlePicture
          /\ UNCHANGED <<releaseVars, activeVars>>
       \/ /\ GrowStale \/ ExpireAssessment \/ HandleCameraSignal \/ HandleDetectorSignal
          /\ UNCHANGED <<listVars, activeVars>>
       \/ /\ RestartTimer \/ HandleCaptureSignal
          /\ UNCHANGED <<listVars, releaseVars>>
    /\ UNCHANGED <<loginVars, stationVars>>

Bound == Len(cameraSignals) + Len(detections) + Len(captureSignals) <= MaxEvents

\* Bound: the camera worker of the active page takes its steps while the workers
\* of the verification page rest, with which it shares no variable.
ReleaseRests == ~Camera!isRunning /\ ~Detector!isRunning

\* The worker threads.
Work ==
    /\ \/ RunLogin /\ UNCHANGED <<listVars, releaseVars, activeVars>>
       \/ (RunLoader \/ RunPicture) /\ UNCHANGED <<loginVars, releaseVars, activeVars>>
       \/ (RunCamera \/ RunDetector) /\ UNCHANGED <<loginVars, listVars, activeVars>>
       \/ RunCapture /\ ReleaseRests /\ UNCHANGED <<loginVars, listVars, releaseVars>>
    /\ Bound'
    /\ UNCHANGED stationVars

Next ==
    \/ AtLogin \/ HandleLoginSignal \/ Logout
    \/ AtList
    \/ \E op \in Operations : SelectOperation(op)
    \/ Back \/ Retry \/ RequestStart \/ FinishWorkSession
    \/ Handle \/ Work

Spec == Init /\ [][Next]_vars

-----------------------------------------------------------------------------
\* The state has the shape the modules give it; a WorkSession is open exactly
\* while the active page is shown and monitored, and only for an operator.
TypeOK ==
    /\ LoginTypeOK /\ ListTypeOK /\ ReleaseTypeOK /\ ActiveTypeOK
    /\ route \in {"login", "operations", "safety", "active"}
    /\ loggedIn <=> route # "login"
    /\ cameraActive <=> route = "safety"
    /\ monitoring <=> route = "active"
    /\ monitoring <=> workSession \in Operations

Starts == NoWorkSession /\ workSession' # NoOperation

Verified(class) ==
    /\ class \in ModelClasses
    /\ 100 * ObservedFrames(class, window) >= PresentPercent * Len(window)

\* A WorkSession starts only for the operation on the page, in front of a camera
\* that is shown to work, on evidence that is recent, long enough, in a window
\* begun since the page was last left, and in which each required class is visible
\* in the required share of the frames
\* (ppe_inference_controller.py _handle_operation_start_requested, stop).
AuthorizedOnlyWhenVerified ==
    [][Starts => /\ workSession' = operation /\ cameraState = "active" /\ ~stale
                 /\ Len(window) >= MinimumSamples /\ ~carriedOver
                 /\ Requires[operation] # {}
                 /\ \A c \in Requires[operation] : Verified(c)]_vars

\* Evidence from before an interruption of the camera never starts a WorkSession
\* (README.md of the operator: interrupting the camera discards it).
AuthorizedOnUninterruptedEvidence == [][Starts => ~interrupted]_vars

\* The start button is enabled only while the newest result the controller holds
\* is compliant, for this operation and not yet used: whatever revokes the result
\* takes the button away (safety_verification_page.py _set_operation_start_enabled).
ButtonFollowsEvidence ==
    startEnabled => /\ cameraActive /\ ~startAuthorized
                    /\ latest = [operation |-> operation, status |-> "compliant"]

\* Nobody waits for nothing: in front of the login window, of the list of
\* operations or of a risk area, what is announced as under way is under way
\* (face_login_controller.py, credential_login_controller.py,
\* operations_controller.py, risk_area_snapshot_controller.py).
NoPageWaitsForNothing == LoginIsAnswered /\ PageIsAnswered

\* A camera worker that nobody asked to stop belongs to the page on display, so
\* never do two of them hold the camera on purpose (camera controllers' stop and
\* start, MainWindow's routes).
CameraBelongsToItsPage ==
    /\ Camera!isRunning /\ ~cameraStop => route = "safety"
    /\ Capture!isRunning /\ ~captureStop => route = "active"

\* While a WorkSession is monitored its camera works or is being started, or a
\* restart is on its way, or the operator is shown the failure with a button; a
\* retry asked of a worker that is still ending is the exception
\* (active_camera_controller.py start, _handle_camera_failure, _handle_finished).
MonitoringIsNeverBlind ==
    monitoring =>
        \/ Capture!isRunning /\ ~captureStop /\ capture # "leaving"
        \/ retryVisible
        \/ \E i \in DOMAIN captureSignals : captureSignals[i] \in FailureKinds
        \/ restartAfterFinish /\ (Capture!isRunning
                \/ \E i \in DOMAIN captureSignals : captureSignals[i] = "finished")
        \/ restartTimers > 0
        \/ lostRetry
=============================================================================
