---------------------------- MODULE ActiveCamera ----------------------------
(***************************************************************************)
(* The camera of an active operation: ActiveCameraController               *)
(* (2identify_operador/app/controllers/active_camera_controller.py), its   *)
(* camera worker, and what ActiveOperationPage shows of it.                *)
(*                                                                         *)
(* The frames that go on to the PPE and pose controllers belong to         *)
(* ActiveMonitoring; here only the preview matters.                        *)
(***************************************************************************)
EXTENDS Integers, Sequences

CONSTANTS
    MaxRetries,             \* automatic restarts after a failure; 3 in the code
    MaxTimers,              \* bound: restarts waiting for their 300 ms
    MaxCaptureSignals       \* bound: signals waiting for the UI thread

ASSUME RetriesAssumption == MaxRetries \in Nat /\ MaxTimers \in Nat

VARIABLES
    monitoring,             \* _monitoring_active of the page
    retryVisible,           \* the button "TENTAR CÂMERA NOVAMENTE"
    capture, captureStop, captureSignals,   \* the camera worker
    retriesRemaining, restartAfterFinish,
    restartTimers,          \* QTimer.singleShot(300, start) not yet fired
    lostRetry               \* a retry was asked of a worker that was ending

captureVars == <<capture, captureStop, captureSignals>>
activeVars == <<monitoring, retryVisible, captureVars, retriesRemaining,
                restartAfterFinish, restartTimers, lostRetry>>

FailureKinds == {"unavailable", "error"}

Capture == INSTANCE CameraWorker WITH
    phase <- capture, stopRequested <- captureStop, signals <- captureSignals,
    MaxSignals <- MaxCaptureSignals, Emissions <- {<<"preview">>},
    Failures <- FailureKinds

ActiveInit ==
    /\ monitoring = FALSE /\ retryVisible = FALSE
    /\ capture = "none" /\ captureStop = FALSE /\ captureSignals = <<>>
    /\ retriesRemaining = MaxRetries /\ restartAfterFinish = FALSE
    /\ restartTimers = 0 /\ lostRetry = FALSE

\* The window is closed and its controllers with it; no worker runs any more.
ActiveGone ==
    /\ monitoring' = FALSE /\ retryVisible' = FALSE
    /\ capture' = "none" /\ captureStop' = FALSE /\ captureSignals' = <<>>
    /\ retriesRemaining' = MaxRetries /\ restartAfterFinish' = FALSE
    /\ restartTimers' = 0 /\ lostRetry' = FALSE

\* start, while the page is monitored.
BugStartMonitored ==
    IF Capture!isRunning
    THEN UNCHANGED <<captureVars, restartAfterFinish>>
    ELSE /\ Capture!Launch
         /\ UNCHANGED <<captureSignals, restartAfterFinish>>

StartMonitored ==
    IF Capture!isRunning
    THEN /\ restartAfterFinish' = (restartAfterFinish \/ captureStop)
         /\ UNCHANGED captureVars
    ELSE /\ Capture!Launch
         /\ UNCHANGED <<captureSignals, restartAfterFinish>>

\* activate_monitoring, on a page that is not monitored.
ActivateMonitoring ==
    /\ monitoring' = TRUE
    /\ StartMonitored
    /\ UNCHANGED <<retryVisible, retriesRemaining, restartTimers, lostRetry>>

\* clear, after the session ended: deactivate_monitoring, hence stop.
ClearPage ==
    /\ monitoring' = FALSE /\ retryVisible' = FALSE
    /\ restartAfterFinish' = FALSE /\ retriesRemaining' = MaxRetries
    /\ lostRetry' = FALSE
    /\ Capture!request_stop
    /\ UNCHANGED <<captureSignals, restartTimers>>

\* _request_camera_retry.  Asked while the failed worker is still releasing the
\* camera, start finds it running and does nothing.
RetryCapture ==
    /\ monitoring /\ retryVisible
    /\ retryVisible' = FALSE
    /\ StartMonitored
    /\ lostRetry' = (capture = "leaving" /\ ~captureStop /\ ~restartAfterFinish)
    /\ UNCHANGED <<monitoring, retriesRemaining, restartTimers>>

RestartTimer ==
    /\ restartTimers > 0
    /\ restartTimers' = restartTimers - 1
    /\ IF monitoring THEN StartMonitored
                     ELSE UNCHANGED <<captureVars, restartAfterFinish>>
    /\ UNCHANGED <<monitoring, retryVisible, retriesRemaining, lostRetry>>

-----------------------------------------------------------------------------
\* Signals of the camera worker.  A first frame shows the camera as ready, too.
HandleReady ==
    /\ retriesRemaining' = MaxRetries
    /\ retryVisible' = (retryVisible /\ ~monitoring)
    /\ UNCHANGED <<capture, restartAfterFinish, restartTimers>>

HandlePreview ==
    /\ retryVisible' = (retryVisible /\ ~monitoring)
    /\ UNCHANGED <<capture, retriesRemaining, restartAfterFinish, restartTimers>>

BugHandleFailure(failure) ==
    /\ retryVisible' = (retryVisible \/ monitoring)
    /\ IF failure = "unavailable"
       THEN retriesRemaining' = retriesRemaining - 1 /\ restartAfterFinish' = TRUE
       ELSE UNCHANGED <<retriesRemaining, restartAfterFinish>>
    /\ UNCHANGED <<capture, restartTimers>>

\* _handle_camera_failure
HandleFailure(failure) ==
    /\ retryVisible' = (retryVisible \/ monitoring)
    /\ IF failure = "unavailable" /\ retriesRemaining > 0
       THEN retriesRemaining' = retriesRemaining - 1 /\ restartAfterFinish' = TRUE
       ELSE UNCHANGED <<retriesRemaining, restartAfterFinish>>
    /\ UNCHANGED <<capture, restartTimers>>

\* _handle_finished
HandleFinished ==
    /\ Capture!Dispose
    /\ IF restartAfterFinish /\ monitoring
       THEN /\ restartTimers < MaxTimers
            /\ restartAfterFinish' = FALSE /\ restartTimers' = restartTimers + 1
       ELSE UNCHANGED <<restartAfterFinish, restartTimers>>
    /\ UNCHANGED <<retryVisible, retriesRemaining>>

HandleCaptureSignal ==
    /\ captureSignals # <<>>
    /\ captureSignals' = Tail(captureSignals)
    /\ LET signal == Head(captureSignals) IN
       \/ signal = "ready" /\ HandleReady
       \/ signal = "preview" /\ HandlePreview
       \/ signal \in FailureKinds /\ HandleFailure(signal)
       \/ signal = "finished" /\ HandleFinished
    /\ UNCHANGED <<monitoring, captureStop, lostRetry>>

RunCapture ==
    /\ Capture!Run
    /\ UNCHANGED <<monitoring, retryVisible, retriesRemaining, restartAfterFinish,
                   restartTimers, lostRetry>>

ActiveTypeOK ==
    /\ monitoring \in BOOLEAN /\ retryVisible \in BOOLEAN
    /\ Capture!CameraTypeOK
    /\ retriesRemaining \in 0..MaxRetries
    /\ restartAfterFinish \in BOOLEAN /\ lostRetry \in BOOLEAN
    /\ restartTimers \in 0..MaxTimers
=============================================================================
