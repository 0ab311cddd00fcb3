--------------------------- MODULE InferenceWorker ---------------------------
(***************************************************************************)
(* The QThread that loads a model and analyses the newest frame:           *)
(* 2identify_operador/app/workers/ppe_inference_worker.py, and             *)
(* pose_inference_worker.py, which has the same protocol.                  *)
(*                                                                         *)
(* The single frame slot is data: while no stop is requested there may be  *)
(* a frame in it at any time, and the result of analysing it is any member *)
(* of Results.  Signals are posted to the UI thread, which handles them    *)
(* later, in order; MaxSignals bounds how many wait there.                 *)
(***************************************************************************)
EXTENDS Naturals, Sequences

CONSTANTS Results, MaxSignals

VARIABLES
    phase,          \* "none": the controller holds no worker
    stopRequested,  \* _stop_requested, and the thread's interruption flag
    signals         \* signals of this and earlier workers not yet handled

workerVars == <<phase, stopRequested, signals>>

Phases == {"none", "loading", "idle", "detecting", "leaving", "finished"}
Signal == [kind : {"ready", "failed", "finished"}]
          \cup [kind : {"result"}, value : Results]

isRunning == phase \notin {"none", "finished"}

Post(signal) ==
    /\ Len(signals) < MaxSignals
    /\ signals' = Append(signals, signal)

\* The controller constructs the worker and starts its thread.
Launch ==
    /\ phase' = "loading"
    /\ stopRequested' = FALSE

request_stop ==
    /\ stopRequested' = (stopRequested \/ isRunning)
    /\ UNCHANGED phase

-----------------------------------------------------------------------------
\* Steps of run(), in the worker's thread.
LoadModel ==
    /\ phase = "loading" /\ ~stopRequested
    /\ phase' = "idle"
    /\ Post([kind |-> "ready"])
    /\ UNCHANGED stopRequested

TakeLatestFrame ==
    /\ phase = "idle" /\ ~stopRequested
    /\ phase' = "detecting"
    /\ UNCHANGED <<stopRequested, signals>>

\* A detection in progress is emitted even when a stop was requested since.
EmitResult ==
    /\ phase = "detecting"
    /\ phase' = "idle"
    /\ \E r \in Results : Post([kind |-> "result", value |-> r])
    /\ UNCHANGED stopRequested

Fail ==
    /\ phase \in {"loading", "detecting"}
    /\ phase' = "leaving"
    /\ Post([kind |-> "failed"])
    /\ UNCHANGED stopRequested

Finish ==
    /\ \/ phase \in {"loading", "idle"} /\ stopRequested
       \/ phase = "leaving"
    /\ phase' = "finished"
    /\ Post([kind |-> "finished"])
    /\ UNCHANGED stopRequested

Run == LoadModel \/ TakeLatestFrame \/ EmitResult \/ Fail \/ Finish

WorkerTypeOK ==
    /\ phase \in Phases
    /\ stopRequested \in BOOLEAN
    /\ signals \in Seq(Signal)
=============================================================================
