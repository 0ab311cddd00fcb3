---------------------------- MODULE CameraWorker ----------------------------
(***************************************************************************)
(* The QThread that captures from the operational camera:                  *)
(* 2identify_operador/app/workers/safety_camera_worker.py, owned by the    *)
(* pre-operation page as well as by the active operation.                  *)
(*                                                                         *)
(* Frames are not told apart; which reads are due for the preview or for   *)
(* the analysis is a matter of time, so each read may emit either signal,  *)
(* both or none: Emissions says which of these the owner has use for.      *)
(* Failures says which failures it tells apart.  MaxSignals bounds the      *)
(* signals waiting for the UI thread.                                      *)
(***************************************************************************)
EXTENDS Naturals, Sequences

CONSTANTS Emissions, Failures, MaxSignals

VARIABLES
    phase,          \* "none": the controller holds no worker
    stopRequested,  \* _stop_requested, and the thread's interruption flag
    signals         \* signals of this and earlier workers not yet handled

cameraVars == <<phase, stopRequested, signals>>

Phases == {"none", "starting", "opening", "reading", "leaving", "finished"}
Signals == {"ready", "preview", "analysis", "finished"} \cup Failures

isRunning == phase \notin {"none", "finished"}

Emit(emitted) ==
    /\ Len(signals) + Len(emitted) <= MaxSignals
    /\ signals' = signals \o emitted

\* The controller constructs the worker and starts its thread.
Launch ==
    /\ phase' = "starting"
    /\ stopRequested' = FALSE

request_stop ==
    /\ stopRequested' = (stopRequested \/ isRunning)
    /\ UNCHANGED phase

\* _dispose_finished_worker of the owning controller.
Dispose == phase' = IF phase = "finished" THEN "none" ELSE phase

-----------------------------------------------------------------------------
\* Steps of run(), in the worker's thread.
Begin ==
    /\ phase = "starting"
    /\ phase' = IF stopRequested THEN "leaving" ELSE "opening"
    /\ UNCHANGED <<stopRequested, signals>>

\* The stop flag is not looked at between opening and announcing the camera.
Open ==
    /\ phase = "opening"
    /\ phase' = "reading"
    /\ Emit(<<"ready">>)
    /\ UNCHANGED stopRequested

\* A frame read is emitted even when a stop was requested since.
Read ==
    /\ phase = "reading"
    /\ phase' = IF stopRequested THEN "leaving" ELSE "reading"
    /\ \E emitted \in Emissions : Emit(emitted)
    /\ UNCHANGED stopRequested

LeaveLoop ==
    /\ phase = "reading" /\ stopRequested
    /\ phase' = "leaving"
    /\ UNCHANGED <<stopRequested, signals>>

\* The camera does not open, too many reads fail, or anything is raised.
Fail ==
    /\ phase \in {"opening", "reading"}
    /\ phase' = "leaving"
    /\ \E failure \in Failures : Emit(<<failure>>)
    /\ UNCHANGED stopRequested

\* finally: the camera is released, which takes time, and the thread ends.
Finish ==
    /\ phase = "leaving"
    /\ phase' = "finished"
    /\ Emit(<<"finished">>)
    /\ UNCHANGED stopRequested

Run == Begin \/ Open \/ Read \/ LeaveLoop \/ Fail \/ Finish

CameraTypeOK ==
    /\ phase \in Phases
    /\ stopRequested \in BOOLEAN
    /\ signals \in Seq(Signals)
=============================================================================
