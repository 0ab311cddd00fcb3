----------------------------- MODULE ReleaseGate -----------------------------
(***************************************************************************)
(* The release of an operation: SafetyVerificationPage,                    *)
(* SafetyCameraController with its camera worker and PpeInferenceController*)
(* with its inference worker (2identify_operador).  Everything here runs in*)
(* the UI thread except the Run steps of the two workers, whose signals    *)
(* wait in per-thread queues until the UI thread handles them.             *)
(*                                                                         *)
(* Time enters only through stale: the newest assessment is older than     *)
(* PPE_RELEASE_ASSESSMENT_MAX_AGE_SECONDS.  What a window of frames says of*)
(* the equipment is PpeStabilityEngine and PpeSafetyEngine; the two ratios *)
(* are percentages, so that the comparisons stay in the integers.          *)
(***************************************************************************)
EXTENDS Integers, FiniteSets, Sequences

CONSTANTS
    WindowSize, MinimumSamples, PresentPercent, AbsentPercent,
    Operations,             \* active ones: others never reach this page
    NoOperation,
    Requires,               \* detection classes each operation requires
    ModelClasses,           \* classes the model knows
    Frames,                 \* what may be detected in a frame
    MaxSignals

ASSUME EvidenceAssumption ==
    /\ WindowSize \in Nat /\ MinimumSamples \in 1..WindowSize
    /\ PresentPercent \in 1..100
    /\ AbsentPercent \in 0..(PresentPercent - 1)
    /\ NoOperation \notin Operations

VARIABLES
    cameraActive, operation, cameraState, startEnabled,     \* the page
    camera, cameraStop, cameraSignals,                      \* its camera worker
    detector, detectorStop, detections, frame,              \* its PPE worker
    modelReady, tracked, window,
    latest, stale,          \* newest assessment; older than it may be
    startAuthorized,
    carriedOver,            \* the window was begun before the page was last left,
    interrupted             \* or before its camera was interrupted

pageVars == <<cameraActive, operation, cameraState, startEnabled>>
cameraVars == <<camera, cameraStop, cameraSignals>>
detectorVars == <<detector, detectorStop, detections, frame>>
windowVars == <<tracked, window, carriedOver, interrupted>>
gateVars == <<modelReady, latest, stale, startAuthorized>>
releaseVars == <<pageVars, cameraVars, detectorVars, windowVars, gateVars>>

NoAssessment == [operation |-> NoOperation, status |-> "none"]
\* UNAVAILABLE and ERROR differ in their wording only: one "error" stands for both.
CameraStates == {"not_initialized", "starting", "active", "error"}

Camera == INSTANCE CameraWorker WITH
    phase <- camera, stopRequested <- cameraStop, signals <- cameraSignals,
    Failures <- {"error"},
    Emissions <- {<<"preview">>, <<"analysis">>, <<"preview", "analysis">>}

Detector == INSTANCE InferenceWorker WITH
    phase <- detector, stopRequested <- detectorStop, signals <- detections,
    Results <- Frames

ReleaseInit ==
    /\ cameraActive = FALSE /\ operation = NoOperation
    /\ cameraState = "not_initialized" /\ startEnabled = FALSE
    /\ camera = "none" /\ cameraStop = FALSE /\ cameraSignals = <<>>
    /\ detector = "none" /\ detectorStop = FALSE /\ detections = <<>>
    /\ frame = FALSE
    /\ modelReady = FALSE /\ tracked = {} /\ window = <<>>
    /\ latest = NoAssessment /\ stale = FALSE /\ startAuthorized = FALSE
    /\ carriedOver = FALSE /\ interrupted = FALSE

\* The window is closed and its controllers with it; no worker runs any more.
ReleaseGone ==
    /\ cameraActive' = FALSE /\ operation' = NoOperation
    /\ cameraState' = "not_initialized" /\ startEnabled' = FALSE
    /\ camera' = "none" /\ cameraStop' = FALSE /\ cameraSignals' = <<>>
    /\ detector' = "none" /\ detectorStop' = FALSE /\ detections' = <<>>
    /\ frame' = FALSE
    /\ modelReady' = FALSE /\ tracked' = {} /\ window' = <<>>
    /\ latest' = NoAssessment /\ stale' = FALSE /\ startAuthorized' = FALSE
    /\ carriedOver' = FALSE /\ interrupted' = FALSE

-----------------------------------------------------------------------------
\* deque(maxlen = window_size).append: a sample is what was detected in one frame.
Observe(samples, observed) ==
    IF Len(samples) < WindowSize THEN Append(samples, observed)
                                 ELSE Append(Tail(samples), observed)

ObservedFrames(class, samples) ==
    Cardinality({i \in DOMAIN samples : class \in samples[i]})

Decide(class, samples) ==
    LET hundredfold == 100 * ObservedFrames(class, samples) IN
    IF Len(samples) < MinimumSamples THEN "collecting"
    ELSE IF hundredfold >= PresentPercent * Len(samples) THEN "confirmed"
    ELSE IF hundredfold <= AbsentPercent * Len(samples) THEN "absent"
    ELSE "unstable"

\* One requirement: its class may be unknown to the model, and the window may
\* have been opened for the requirements of another operation.
Requirement(class, followed, samples) ==
    IF class \notin ModelClasses THEN "unmapped"
    ELSE IF class \notin followed THEN "collecting"
    ELSE Decide(class, samples)

\* The status of an active operation that requires these classes.
Status(required, followed, samples) ==
    LET states == {Requirement(c, followed, samples) : c \in required} IN
    IF required = {} \/ states \cap {"absent", "unmapped"} # {} THEN "blocked"
    ELSE IF states = {"confirmed"} THEN "compliant"
    ELSE "pending"

-----------------------------------------------------------------------------
\* Parts of handlers.

\* PpeStabilityEngine.reset.
BeginWindow(classes) ==
    /\ tracked' = classes /\ window' = <<>>
    /\ carriedOver' = FALSE /\ interrupted' = FALSE

\* What start, stop and a failure of the inference all do first.
ForgetEvidence ==
    /\ modelReady' = FALSE /\ startAuthorized' = FALSE
    /\ latest' = NoAssessment /\ stale' = FALSE
    /\ BeginWindow({})

\* PpeInferenceController.start.
StartDetector ==
    IF Detector!isRunning
    THEN UNCHANGED <<detectorVars, gateVars, windowVars>>
    ELSE /\ Detector!Launch
         /\ frame' = FALSE
         /\ ForgetEvidence
         /\ UNCHANGED detections

\* SafetyCameraController.start, on a page that is active and shows STARTING.
StartCamera ==
    IF Camera!isRunning
    THEN cameraState' = "error" /\ UNCHANGED cameraVars
    ELSE cameraState' = "starting" /\ Camera!Launch /\ UNCHANGED cameraSignals

BugDiscardEvidence ==
    /\ UNCHANGED <<gateVars, tracked, window>>
    /\ carriedOver' = (window # <<>>) /\ interrupted' = (window # <<>>)

DiscardEvidence == ForgetEvidence

\* camera_stop_requested: SafetyCameraController.stop, PpeInferenceController.stop.
BugStopWorkers ==
    /\ Detector!request_stop
    /\ frame' = FALSE
    /\ DiscardEvidence
    /\ UNCHANGED <<cameraVars, detections>>

StopWorkers ==
    /\ Camera!request_stop
    /\ Detector!request_stop
    /\ frame' = FALSE
    /\ DiscardEvidence
    /\ UNCHANGED <<cameraSignals, detections>>

\* SafetyVerificationPage.deactivate.  It is left only while active.
Deactivate ==
    /\ StopWorkers
    /\ cameraActive' = FALSE /\ cameraState' = "not_initialized"
    /\ startEnabled' = FALSE

-----------------------------------------------------------------------------
\* The operator.

\* set_operation, then activate: STARTING, and camera_start_requested, which
\* reaches the camera controller before the inference controller.
OpenVerification(op) ==
    /\ operation' = op
    /\ cameraActive' = TRUE
    /\ startEnabled' = FALSE
    /\ StartCamera
    /\ StartDetector

\* _request_camera_retry: the button is there after a failure.  A
\* capture that is still ending and a model that is loaded again are shown.
RetryCamera ==
    /\ cameraState = "error"
    /\ startEnabled' = (startEnabled /\ ~Camera!isRunning /\ Detector!isRunning)
    /\ StartCamera
    /\ StartDetector
    /\ UNCHANGED <<cameraActive, operation>>

\* _handle_operation_start_requested: the conditions under which it goes on.
GateOpens ==
    /\ modelReady /\ ~startAuthorized
    /\ cameraState = "active"
    /\ latest.operation = operation /\ latest.status = "compliant"
    /\ ~stale

RejectStart ==
    /\ startEnabled' = FALSE
    /\ UNCHANGED <<cameraActive, operation, cameraState, cameraVars, detectorVars,
                   windowVars, gateVars>>

\* The session could not be started: the authorization is used up all the same.
LoseAuthorization ==
    /\ startAuthorized' = TRUE
    /\ latest' = NoAssessment /\ stale' = FALSE
    /\ startEnabled' = FALSE
    /\ UNCHANGED <<cameraActive, operation, cameraState, cameraVars, detectorVars,
                   windowVars, modelReady>>

-----------------------------------------------------------------------------
\* Timers.
GrowStale ==
    /\ latest # NoAssessment /\ ~stale
    /\ stale' = TRUE
    /\ UNCHANGED <<pageVars, cameraVars, detectorVars, windowVars, modelReady,
                   latest, startAuthorized>>

\* _expire_assessment: the timer runs exactly while the newest assessment is
\* compliant; Qt may fire it somewhat early or late.
ExpireAssessment ==
    /\ latest.status = "compliant"
    /\ latest' = NoAssessment /\ stale' = FALSE
    /\ startEnabled' = FALSE
    /\ UNCHANGED <<cameraActive, operation, cameraState, cameraVars, detectorVars,
                   windowVars, modelReady, startAuthorized>>

-----------------------------------------------------------------------------
\* Signals of the camera worker.
SubmitFrame ==
    frame' = (frame \/ (Detector!isRunning /\ ~detectorStop))

ShowCameraFailure ==
    IF cameraActive
    THEN cameraState' = "error" /\ startEnabled' = FALSE /\ interrupted' = (window # <<>>)
    ELSE UNCHANGED <<cameraState, startEnabled, interrupted>>

ShowCameraReady ==
    cameraState' = IF cameraActive THEN "active" ELSE cameraState

HandleCameraSignal ==
    /\ cameraSignals # <<>>
    /\ cameraSignals' = Tail(cameraSignals)
    /\ LET signal == Head(cameraSignals) IN
       \/ /\ signal \in {"ready", "preview"}
          /\ ShowCameraReady
          /\ UNCHANGED <<camera, frame, startEnabled, interrupted>>
       \/ /\ signal = "analysis"
          /\ SubmitFrame
          /\ UNCHANGED <<camera, cameraState, startEnabled, interrupted>>
       \/ /\ signal = "error"
          /\ ShowCameraFailure
          /\ UNCHANGED <<camera, frame>>
       \/ /\ signal = "finished"
          /\ Camera!Dispose
          /\ UNCHANGED <<frame, cameraState, startEnabled, interrupted>>
    /\ UNCHANGED <<cameraActive, operation, cameraStop, detector, detectorStop,
                   detections, tracked, window, carriedOver, gateVars>>

-----------------------------------------------------------------------------
\* Signals of the inference worker.
HandleModelReady ==
    /\ modelReady' = TRUE /\ startAuthorized' = FALSE
    /\ latest' = NoAssessment /\ stale' = FALSE
    /\ BeginWindow(IF operation = NoOperation THEN {}
                   ELSE Requires[operation] \cap ModelClasses)
    /\ startEnabled' = (startEnabled /\ ~cameraActive)
    /\ UNCHANGED detector

\* An observation counts only between the model's readiness and an authorization.
HandleDetections(observed) ==
    IF ~modelReady \/ startAuthorized \/ operation = NoOperation
    THEN UNCHANGED <<detector, windowVars, gateVars, startEnabled>>
    ELSE /\ window' = Observe(window, observed)
         /\ latest' = [operation |-> operation,
                       status |-> Status(Requires[operation], tracked, window')]
         /\ stale' = FALSE
         /\ startEnabled' = IF cameraActive THEN latest'.status = "compliant"
                            ELSE startEnabled
         /\ UNCHANGED <<detector, tracked, carriedOver, interrupted, modelReady,
                        startAuthorized>>

BugHandleInferenceFailure ==
    /\ ForgetEvidence
    /\ UNCHANGED <<startEnabled, detector>>

HandleInferenceFailure ==
    /\ ForgetEvidence
    /\ startEnabled' = (startEnabled /\ ~cameraActive)
    /\ UNCHANGED detector

HandleDetectorFinished ==
    /\ detector' = IF detector = "finished" THEN "none" ELSE detector
    /\ UNCHANGED <<windowVars, gateVars, startEnabled>>

HandleDetectorSignal ==
    /\ detections # <<>>
    /\ detections' = Tail(detections)
    /\ LET signal == Head(detections) IN
       \/ signal.kind = "ready" /\ HandleModelReady
       \/ signal.kind = "result" /\ HandleDetections(signal.value)
       \/ signal.kind = "failed" /\ HandleInferenceFailure
       \/ signal.kind = "finished" /\ HandleDetectorFinished
    /\ UNCHANGED <<cameraActive, operation, cameraState, cameraVars, detectorStop, frame>>

-----------------------------------------------------------------------------
\* The worker threads.
RunCamera ==
    /\ Camera!Run
    /\ UNCHANGED <<pageVars, detectorVars, windowVars, gateVars>>

\* The frame slot is emptied when the frame is taken and when the thread ends.
RunDetector ==
    /\ \/ Detector!TakeLatestFrame /\ frame /\ frame' = FALSE
       \/ (Detector!LoadModel \/ Detector!EmitResult \/ Detector!Fail)
          /\ UNCHANGED frame
       \/ Detector!Finish /\ frame' = FALSE
    /\ UNCHANGED <<pageVars, cameraVars, windowVars, gateVars>>

ReleaseTypeOK ==
    /\ cameraActive \in BOOLEAN /\ operation \in Operations \cup {NoOperation}
    /\ cameraState \in CameraStates /\ startEnabled \in BOOLEAN
    /\ Camera!CameraTypeOK /\ Detector!WorkerTypeOK /\ frame \in BOOLEAN
    /\ modelReady \in BOOLEAN /\ tracked \subseteq ModelClasses
    /\ window \in Seq(Frames) /\ Len(window) <= WindowSize
    /\ latest.operation \in Operations \cup {NoOperation}
    /\ latest.status \in {"none", "blocked", "pending", "compliant"}
    /\ stale \in BOOLEAN /\ startAuthorized \in BOOLEAN
    /\ carriedOver \in BOOLEAN /\ interrupted \in BOOLEAN
=============================================================================
