---------------------------- MODULE AlertDelivery ----------------------------
(***************************************************************************)
(* Alert delivery at the operator station: one AlertDeliveryWorker per     *)
(* alert, with retries, and one slot for the escalation of an alert whose  *)
(* worker is still there.                                                  *)
(***************************************************************************)
EXTENDS AlertEvents

CONSTANT MaxAttempts        \* the largest setting considered

ASSUME AttemptsAssumption == MaxAttempts \in Nat \ {0}

VARIABLES
    maxAttempts,            \* settings.alert_delivery_max_attempts
    session,                \* "none", "local" (no token) or "api"
    alert,                  \* severity the local engine gave each alert
    active,                 \* alerts of the session still open
    worker, carried, attempt, interrupted,   \* per event_id
    pendingAlert,           \* _pending_alert_deliveries
    tried                   \* severity last handed to a worker

workerVars  == <<worker, carried, attempt, interrupted>>
stationVars == <<maxAttempts, session, alert, active, workerVars, pendingAlert, tried>>

Phases == {"none", "ready", "waiting", "ended"}
Known(e) == worker[e] # "none"          \* in _alert_delivery_workers

StationInit ==
    /\ maxAttempts \in 1..MaxAttempts
    /\ session = "none"
    /\ alert = [e \in Events |-> "none"]
    /\ active = {}
    /\ worker = [e \in Events |-> "none"]
    /\ carried = [e \in Events |-> "none"]
    /\ attempt = [e \in Events |-> 0]
    /\ interrupted = [e \in Events |-> FALSE]
    /\ pendingAlert = [e \in Events |-> "none"]
    /\ tried = [e \in Events |-> "none"]

-----------------------------------------------------------------------------
\* _start_alert_delivery.
StartDelivery(e, s) ==
    /\ worker' = [worker EXCEPT ![e] = "ready"]
    /\ carried' = [carried EXCEPT ![e] = s]
    /\ attempt' = [attempt EXCEPT ![e] = 0]
    /\ interrupted' = [interrupted EXCEPT ![e] = FALSE]
    /\ tried' = [tried EXCEPT ![e] = s]

NoDelivery == UNCHANGED <<workerVars, tried>>

Login ==
    /\ session = "none"
    /\ session' \in {"local", "api"}
    /\ UNCHANGED <<maxAttempts, alert, active, workerVars, pendingAlert, tried>>

\* handle_logout, as far as alerts go: what waits is dropped, every worker is
\* interrupted.  It waits 5 s for each; a worker that ends later is disposed
\* of by its finished signal, with the same effect, since nothing waits.
Logout ==
    /\ session # "none"
    /\ session' = "none"
    /\ active' = {}
    /\ pendingAlert' = [e \in Events |-> "none"]
    /\ interrupted' = [e \in Events |-> Known(e)]
    /\ UNCHANGED <<maxAttempts, alert, worker, carried, attempt, tried>>

\* _handle_local_alert_update for a raised alert: its event_id is new.
RaiseAlert(e, s) ==
    /\ session # "none" /\ alert[e] = "none"
    /\ alert' = [alert EXCEPT ![e] = s]
    /\ active' = active \cup {e}
    /\ IF session = "api" THEN StartDelivery(e, s) ELSE NoDelivery
    /\ UNCHANGED <<maxAttempts, session, pendingAlert>>

BugForgetsEscalation(e) ==
    /\ e \in active /\ alert[e] = "warning"
    /\ alert' = [alert EXCEPT ![e] = "critical"]
    /\ IF session = "api" /\ ~Known(e)
       THEN StartDelivery(e, "critical")
       ELSE NoDelivery
    /\ UNCHANGED <<maxAttempts, session, active, pendingAlert>>

\* ... and for an escalated one, which keeps its event_id.
EscalateAlert(e) ==
    /\ e \in active /\ alert[e] = "warning"
    /\ alert' = [alert EXCEPT ![e] = "critical"]
    /\ IF session = "api" /\ Known(e)
       THEN pendingAlert' = [pendingAlert EXCEPT ![e] = "critical"]
       ELSE UNCHANGED pendingAlert
    /\ IF session = "api" /\ ~Known(e)
       THEN StartDelivery(e, "critical")
       ELSE NoDelivery
    /\ UNCHANGED <<maxAttempts, session, active>>

\* _dispose_alert_delivery_worker, the slot of finished.
DisposeWorker(e) ==
    /\ worker[e] = "ended"
    /\ pendingAlert' = [pendingAlert EXCEPT ![e] = "none"]
    /\ IF pendingAlert[e] # "none" /\ session = "api"
       THEN StartDelivery(e, pendingAlert[e])
       ELSE /\ worker' = [worker EXCEPT ![e] = "none"]
            /\ interrupted' = [interrupted EXCEPT ![e] = FALSE]
            /\ UNCHANGED <<carried, attempt, tried>>
    /\ UNCHANGED <<maxAttempts, session, alert, active>>

-----------------------------------------------------------------------------
\* AlertDeliveryWorker.run, one attempt after another.
Send(e) ==
    /\ worker[e] = "ready" /\ ~interrupted[e]
    /\ worker' = [worker EXCEPT ![e] = "waiting"]
    /\ attempt' = [attempt EXCEPT ![e] = @ + 1]
    /\ UNCHANGED <<maxAttempts, session, alert, active, carried, interrupted,
                   pendingAlert, tried>>

\* The thread ends: interrupted before an attempt, rejected, or delivered.
End(e) ==
    /\ worker' = [worker EXCEPT ![e] = "ended"]
    /\ carried' = [carried EXCEPT ![e] = "none"]
    /\ attempt' = [attempt EXCEPT ![e] = 0]
    /\ UNCHANGED <<maxAttempts, session, alert, active, interrupted, pendingAlert,
                   tried>>

Interrupted(e) == worker[e] = "ready" /\ interrupted[e] /\ End(e)

BugOneAttemptMore(e) ==
    /\ worker[e] = "waiting"
    /\ IF attempt[e] > maxAttempts
       THEN End(e)
       ELSE /\ worker' = [worker EXCEPT ![e] = "ready"]
            /\ UNCHANGED <<maxAttempts, session, alert, active, carried, attempt,
                           interrupted, pendingAlert, tried>>

\* No answer in time, a lost one, or one that confirms nothing: the next
\* attempt follows after a delay, if there is one.
Unavailable(e) ==
    /\ worker[e] = "waiting"
    /\ IF attempt[e] = maxAttempts
       THEN End(e)
       ELSE /\ worker' = [worker EXCEPT ![e] = "ready"]
            /\ UNCHANGED <<maxAttempts, session, alert, active, carried, attempt,
                           interrupted, pendingAlert, tried>>

Awaits(e, s, n) == worker[e] = "waiting" /\ carried[e] = s /\ attempt[e] = n
=============================================================================
