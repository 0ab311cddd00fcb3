---------------------------- MODULE AdminWorkers ----------------------------
(***************************************************************************)
(* The request threads of the administrator's desktop                      *)
(* (2identify_admin/app/workers/admin_workers.py).  Each is a QThread that *)
(* posts one answer and then, when it has ended, its finished signal; the  *)
(* controller that owns it handles both in the UI thread and lets go of it *)
(* at the second.                                                          *)
(*                                                                         *)
(* Answers are told apart only where a controller does: "done" is a result *)
(* or an error that the page shows, "expired" is SessionExpiredError.      *)
(***************************************************************************)
EXTENDS FiniteSets

VARIABLES
    phase,          \* of each thread; "none": its controller holds none
    answer,         \* posted and not yet handled
    interrupted     \* requestInterruption was called

workerVars == <<phase, answer, interrupted>>

Results == [login |-> {"done", "failed"},
            dashboard |-> {"done", "expired"},
            load |-> {"done", "expired"},
            save |-> {"done", "expired"},
            camera |-> {"image", "failed"},
            validation |-> {"valid", "expired"}]

Workers == DOMAIN Results
SessionWorkers == Workers \ {"login"}       \* owned by a session's controllers
OperationsWorkers == {"load", "save", "camera"}

IsRunning(phases, w) == phases[w] \in {"running", "answered"}

NoPhase == [w \in Workers |-> "none"]
NoAnswer == [w \in Workers |-> "none"]

WorkersInit ==
    /\ phase = NoPhase /\ answer = NoAnswer
    /\ interrupted = [w \in Workers |-> FALSE]

-----------------------------------------------------------------------------
\* Steps of run().  CameraFrameWorker never looks at the interruption.
Respond(w) ==
    /\ phase[w] = "running"
    /\ ~interrupted[w] \/ w = "camera"
    /\ phase' = [phase EXCEPT ![w] = "answered"]
    /\ \E result \in Results[w] : answer' = [answer EXCEPT ![w] = result]
    /\ UNCHANGED interrupted

\* An interrupted request ends without an answer.
EndThread(w) ==
    /\ \/ phase[w] = "answered"
       \/ phase[w] = "running" /\ interrupted[w] /\ w # "camera"
    /\ phase' = [phase EXCEPT ![w] = "ended"]
    /\ UNCHANGED <<answer, interrupted>>

WorkersTypeOK ==
    /\ phase \in [Workers -> {"none", "running", "answered", "ended"}]
    /\ interrupted \in [Workers -> BOOLEAN]
    /\ \A w \in Workers : answer[w] \in Results[w] \cup {"none"}
=============================================================================
