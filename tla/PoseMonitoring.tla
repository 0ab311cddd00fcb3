--------------------------- MODULE PoseMonitoring ---------------------------
(***************************************************************************)
(* The pose of whoever works, in an active operation:                      *)
(* ActiveErgonomicsMonitoringController, its PoseInferenceWorker with the  *)
(* slot for the newest frame, and the frames of the camera                 *)
(* (2identify_operador/app/controllers/active_ergonomics_monitoring_       *)
(* controller.py and app/workers/pose_inference_worker.py).                *)
(*                                                                         *)
(* InferenceWorker has the same thread without its frames; here each frame *)
(* is the session in which it was captured, followed from the camera to    *)
(* the assessment.  signals is the queue of the UI thread, in the order of *)
(* posting, whoever posts.  The test for a stop and the signal after it    *)
(* are one step.  The shutdown with the process is left out.               *)
(***************************************************************************)
EXTENDS Naturals, Sequences

CONSTANTS Sessions, NoSession, NoFrame

SessionAssumption == NoSession \notin Sessions /\ NoFrame \notin Sessions \cup {NoSession}

VARIABLES
    session, used,                     \* monitored by the page; ever so
    phase, stopRequested, latest, analysed,        \* the worker
    modelReady, restartAfterFinish, startQueued,   \* the controller
    signals

workerVars == <<phase, stopRequested, latest, analysed>>
vars == <<session, used, workerVars, modelReady, restartAfterFinish, startQueued, signals>>

isRunning == phase \in {"loading", "idle", "estimating", "leaving"}
Post(signal) == signals' = Append(signals, signal)
Waits(kind) == \E i \in 1..Len(signals) : signals[i].kind = kind

-----------------------------------------------------------------------------
Launch ==
    /\ restartAfterFinish' = FALSE /\ modelReady' = FALSE
    /\ phase' = "loading" /\ stopRequested' = FALSE
    /\ latest' = NoFrame /\ analysed' = NoFrame

\* start(), while the page monitors
start ==
    IF isRunning
    THEN /\ restartAfterFinish' = (restartAfterFinish \/ stopRequested)
         /\ UNCHANGED <<workerVars, modelReady>>
    ELSE Launch

\* A WorkSession starts on evidence that came through this same queue, posted
\* after any ready of the worker of the session before.
ActivateMonitoring ==
    /\ session = NoSession /\ ~Waits("ready")
    /\ \E s \in Sessions \ used : session' = s /\ used' = used \cup {s}
    /\ start
    /\ UNCHANGED <<startQueued, signals>>

\* The operator retries the camera: monitoring_start_requested again.
Retry ==
    /\ session # NoSession
    /\ start
    /\ UNCHANGED <<session, used, startQueued, signals>>

\* stop(), once the page is cleared
ClearPage ==
    /\ session # NoSession
    /\ session' = NoSession
    /\ restartAfterFinish' = FALSE /\ modelReady' = FALSE
    /\ stopRequested' = (stopRequested \/ isRunning)
    /\ latest' = NoFrame
    /\ UNCHANGED <<used, phase, analysed, startQueued, signals>>

QueuedStart ==
    /\ startQueued /\ startQueued' = FALSE
    /\ IF session # NoSession THEN start
       ELSE UNCHANGED <<workerVars, modelReady, restartAfterFinish>>
    /\ UNCHANGED <<session, used, signals>>

-----------------------------------------------------------------------------
Handling(kind) ==
    /\ signals # <<>> /\ Head(signals).kind = kind
    /\ signals' = Tail(signals)

\* submit_frame of the controller and of the worker
SubmitFrame ==
    /\ Handling("frame")
    /\ latest' = IF modelReady /\ isRunning /\ ~stopRequested THEN Head(signals).of ELSE latest
    /\ UNCHANGED <<session, used, phase, stopRequested, analysed, modelReady,
                   restartAfterFinish, startQueued>>

HandleModelReady ==
    /\ Handling("ready")
    /\ modelReady' = TRUE
    /\ UNCHANGED <<session, used, workerVars, restartAfterFinish, startQueued>>

\* Assessed if modelReady, dropped if not.
HandlePoses ==
    /\ Handling("result")
    /\ UNCHANGED <<session, used, workerVars, modelReady, restartAfterFinish, startQueued>>

HandleFailure ==
    /\ Handling("failed")
    /\ modelReady' = FALSE
    /\ UNCHANGED <<session, used, workerVars, restartAfterFinish, startQueued>>

HandleFinished ==
    /\ Handling("finished")
    /\ phase' = IF isRunning THEN phase ELSE "none"
    /\ startQueued' = (startQueued \/ (restartAfterFinish /\ session # NoSession))
    /\ restartAfterFinish' = (restartAfterFinish /\ session = NoSession)
    /\ UNCHANGED <<session, used, stopRequested, latest, analysed, modelReady>>

-----------------------------------------------------------------------------
\* The thread of the camera, which may outlive the session for a while.
Capture ==
    /\ Post([kind |-> "frame", of |-> session])
    /\ UNCHANGED <<session, used, workerVars, modelReady, restartAfterFinish, startQueued>>

LoadModel ==
    /\ phase = "loading" /\ ~stopRequested
    /\ phase' = "idle" /\ Post([kind |-> "ready", of |-> NoFrame])
    /\ UNCHANGED <<stopRequested, latest, analysed>>

TakeLatestFrame ==
    /\ phase = "idle" /\ ~stopRequested /\ latest # NoFrame
    /\ phase' = "estimating" /\ analysed' = latest /\ latest' = NoFrame
    /\ UNCHANGED <<stopRequested, signals>>

EmitResult ==
    /\ phase = "estimating"
    /\ phase' = "idle" /\ Post([kind |-> "result", of |-> analysed])
    /\ UNCHANGED <<stopRequested, latest, analysed>>

Fail ==
    /\ phase \in {"loading", "estimating"}
    /\ phase' = "leaving" /\ Post([kind |-> "failed", of |-> NoFrame])
    /\ UNCHANGED <<stopRequested, latest, analysed>>

Finish ==
    /\ phase = "leaving" \/ (phase \in {"loading", "idle"} /\ stopRequested)
    /\ phase' = "finished" /\ latest' = NoFrame
    /\ Post([kind |-> "finished", of |-> NoFrame])
    /\ UNCHANGED <<stopRequested, analysed>>

RunWorker ==
    /\ LoadModel \/ TakeLatestFrame \/ EmitResult \/ Fail \/ Finish
    /\ UNCHANGED <<session, used, modelReady, restartAfterFinish, startQueued>>

-----------------------------------------------------------------------------
Init ==
    /\ session = NoSession /\ used = {}
    /\ phase = "none" /\ stopRequested = FALSE /\ latest = NoFrame /\ analysed = NoFrame
    /\ modelReady = FALSE /\ restartAfterFinish = FALSE /\ startQueued = FALSE
    /\ signals = <<>>

Next ==
    \/ ActivateMonitoring \/ Retry \/ ClearPage \/ QueuedStart
    \/ SubmitFrame \/ HandleModelReady \/ HandlePoses \/ HandleFailure \/ HandleFinished
    \/ Capture \/ RunWorker

Spec == Init /\ [][Next]_vars

-----------------------------------------------------------------------------
\* What is assessed is a frame of the WorkSession that is monitored: never one
\* of an earlier session or of the time between two, however late the worker
\* that analysed it was, and never with no session at all.
AssessmentsAreOfTheSession ==
    signals # <<>> /\ Head(signals).kind = "result" /\ modelReady =>
        session # NoSession /\ Head(signals).of = session

\* A session that starts while the worker of the last one is still stopping
\* gets a worker of its own: whatever the order of stop, start and finished,
\* the restart is still to come.
RestartIsPending ==
    session # NoSession /\ stopRequested =>
        startQueued \/ (restartAfterFinish /\ (isRunning \/ Waits("finished")))
=============================================================================
