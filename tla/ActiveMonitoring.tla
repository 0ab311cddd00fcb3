-------------------------- MODULE ActiveMonitoring --------------------------
(***************************************************************************)
(* Continuous monitoring of one active operation:                          *)
(* ActivePpeMonitoringController with its PPE inference worker, the part of*)
(* ActiveOperationPage it depends on, and its two alert engines, Local     *)
(* (alerts for people, with a cooldown) and Hardware (the stack light,     *)
(* without one).  The pose controller is the environment: it delivers      *)
(* ergonomic and risk-area assessments through slots of this controller.   *)
(***************************************************************************)
EXTENDS Integers, Sequences, FiniteSets

CONSTANTS
    PpeKeys, ErgonomicKeys, RiskAreaKeys,   \* deduplication keys per source
    Sessions, NoSession,
    MinimumConsecutive, MinimumPersistence, ResolutionConsecutive,
    LocalCooldown, CriticalAfter, SyncInterval,
    MaxTime, MaxStreak, MaxSignals

\* Identifiers are never null; a negative cooldown is a ValueError.
ASSUME MonitoringAssumption ==
    /\ NoSession \notin Sessions
    /\ LocalCooldown \in Nat
    /\ MaxTime \in Nat

VARIABLES
    monitoring, workSession, used,         \* the page; sessions opened so far
    phase, stopRequested, signals,         \* the PPE worker
    modelReady, restartAfterFinish, startQueued,
    violations,                            \* per source, as last reported
    lastSync,
    local, localSession, localLast,        \* _alert_engine
    hardware, hardwareSession, hardwareLast,  \* _safety_state_engine
    snapshot                               \* colour last emitted per session

pageVars     == <<monitoring, workSession, used>>
workerVars   == <<phase, stopRequested, signals>>
localVars    == <<local, localSession, localLast>>
hardwareVars == <<hardware, hardwareSession, hardwareLast>>
engineVars   == <<localVars, hardwareVars>>
vars == <<pageVars, workerVars, modelReady, restartAfterFinish, startQueued,
          violations, lastSync, engineVars, snapshot>>

Keys == PpeKeys \cup ErgonomicKeys \cup RiskAreaKeys
Sources == {"ppe", "ergonomic", "riskArea"}
KeysOf(source) == CASE source = "ppe"       -> PpeKeys
                    [] source = "ergonomic" -> ErgonomicKeys
                    [] OTHER                -> RiskAreaKeys
StartedAt == [s \in Sessions |-> 0]
Colours == {"none", "GREEN", "YELLOW", "RED"}

Worker == INSTANCE InferenceWorker WITH Results <- SUBSET PpeKeys

Local == INSTANCE AlertEngine WITH
    Cooldown <- LocalCooldown, conditions <- local,
    workSession <- localSession, lastObservedAt <- localLast

Hardware == INSTANCE AlertEngine WITH
    Cooldown <- 0, conditions <- hardware,
    workSession <- hardwareSession, lastObservedAt <- hardwareLast

Times == 0..MaxTime
NoTime == -1
NoViolations == [source \in Sources |-> {}]

-----------------------------------------------------------------------------
\* Operators named Bug... are mistakes this code does not make: each one stands
\* in for the definition after it when a property is shown to be able to fail.
BugReportsLevel(conditions) ==
    IF \E k \in Keys : conditions[k].severity = "critical" THEN "critical"
    ELSE IF \E k \in Keys : conditions[k].severity = "warning" THEN "medium"
    ELSE "GREEN"

\* SafetyStateSnapshot.from_alerts, reduced to the colour the API derives.
Colour(conditions) ==
    IF \E k \in Keys : conditions[k].severity = "critical" THEN "RED"
    ELSE IF \E k \in Keys : conditions[k].severity = "warning" THEN "YELLOW"
    ELSE "GREEN"

Severities(conditions) == [k \in Keys |-> conditions[k].severity]

resetRuntime ==
    /\ modelReady' = FALSE
    /\ violations' = NoViolations
    /\ lastSync' = NoTime

BugOnlyPeriodic(t) == lastSync = NoTime \/ t - lastSync >= SyncInterval

\* A snapshot is due when the hardware alerts changed, or periodically.
snapshotDue(t) ==
    \/ Severities(hardware') # Severities(hardware)
    \/ lastSync = NoTime
    \/ t - lastSync >= SyncInterval

\* _observe_alerts at instant t, once the caches hold reported.  An instant
\* before the last one is refused by the first engine and the slot is left.
Observed(reported, t) ==
    LET violated == UNION {reported[source] : source \in Sources}
    IN  /\ Local!Observe(workSession, violated, t)
        /\ Hardware!Observe(workSession, violated, t)
        /\ IF snapshotDue(t)
           THEN /\ lastSync' = t
                /\ snapshot' = [snapshot EXCEPT ![workSession] = Colour(hardware')]
           ELSE UNCHANGED <<lastSync, snapshot>>

observeAlerts(reported) ==
    IF ~monitoring
    THEN UNCHANGED <<engineVars, lastSync, snapshot>>
    ELSE \E t \in Times :
            IF Local!Accepts(workSession, t)
            THEN Observed(reported, t)
            ELSE UNCHANGED <<engineVars, lastSync, snapshot>>

BugSessionAlreadyForgotten == UNCHANGED snapshot

\* _emit_safe_snapshot, emitted while the page still has its WorkSession.
emitSafeSnapshot ==
    snapshot' = IF workSession = NoSession THEN snapshot
                ELSE [snapshot EXCEPT ![workSession] = "GREEN"]

BugHardwareKept == Local!Reset /\ UNCHANGED hardwareVars

BugLocalKept == Hardware!Reset /\ UNCHANGED localVars

resetEngines == Local!Reset /\ Hardware!Reset

-----------------------------------------------------------------------------
BugNoRestart ==
    IF Worker!isRunning
    THEN UNCHANGED <<restartAfterFinish, phase, stopRequested, modelReady,
                     violations, lastSync>>
    ELSE /\ restartAfterFinish' = FALSE
         /\ resetRuntime
         /\ Worker!Launch

\* start(): also runs queued after a restart, hence its own condition.
start ==
    IF Worker!isRunning
    THEN /\ restartAfterFinish' = (restartAfterFinish \/ stopRequested)
         /\ UNCHANGED <<phase, stopRequested, modelReady, violations, lastSync>>
    ELSE /\ restartAfterFinish' = FALSE
         /\ resetRuntime
         /\ Worker!Launch

\* The identifier of a new WorkSession is fresh, and nothing else about it counts.
freshSession == CHOOSE s \in Sessions : s \notin used

\* The page enters the active operation: set_work_session and then
\* activate_monitoring, whose signal the controller handles at once.
ActivateMonitoring ==
    /\ workSession = NoSession /\ Sessions \ used # {}
    /\ workSession' = freshSession
    /\ used' = used \cup {freshSession}
    /\ monitoring' = TRUE
    /\ start
    /\ UNCHANGED <<signals, startQueued, engineVars, snapshot>>

\* The WorkSession ends and the page is cleared: stop() while the session is
\* still set, then the page forgets the session.
ClearPage ==
    /\ workSession # NoSession
    /\ restartAfterFinish' = FALSE
    /\ emitSafeSnapshot
    /\ resetRuntime
    /\ resetEngines
    /\ Worker!request_stop
    /\ monitoring' = FALSE
    /\ workSession' = NoSession
    /\ UNCHANGED <<used, signals, startQueued>>

\* The operator retries the camera, which emits monitoring_start_requested of a
\* page that monitors.  The camera is not part of this module: at any moment.
Retry ==
    /\ monitoring
    /\ start
    /\ UNCHANGED <<pageVars, signals, startQueued, engineVars, snapshot>>

\* handle_logout: shutdown() reports the safe state, resets what stop() resets,
\* waits for the worker and disposes of it.  Page, controller and the signals
\* still posted to them go with the window; the next login constructs them
\* anew.  The wait is taken to end before its timeout.
Logout ==
    /\ emitSafeSnapshot
    /\ resetRuntime
    /\ resetEngines
    /\ monitoring' = FALSE /\ workSession' = NoSession
    /\ phase' = "none" /\ stopRequested' = FALSE /\ signals' = <<>>
    /\ restartAfterFinish' = FALSE /\ startQueued' = FALSE
    /\ UNCHANGED used

QueuedStart ==
    /\ startQueued
    /\ startQueued' = FALSE
    /\ IF monitoring
       THEN start
       ELSE UNCHANGED <<phase, stopRequested, restartAfterFinish, modelReady,
                        violations, lastSync>>
    /\ UNCHANGED <<pageVars, signals, engineVars, snapshot>>

-----------------------------------------------------------------------------
\* Slots for the worker's signals, in the order they were posted.
Handling(kind) ==
    /\ signals # <<>>
    /\ Head(signals).kind = kind
    /\ signals' = Tail(signals)

HandleModelReady ==
    /\ Handling("ready")
    /\ IF workSession = NoSession
       THEN resetRuntime               \* no operation: handled as a failure
       ELSE /\ modelReady' = TRUE
            /\ UNCHANGED <<violations, lastSync>>
    /\ UNCHANGED <<pageVars, phase, stopRequested, restartAfterFinish,
                   startQueued, engineVars, snapshot>>

HandleDetections ==
    /\ Handling("result")
    /\ IF modelReady /\ workSession # NoSession
       THEN /\ violations' = [violations EXCEPT !["ppe"] = Head(signals).value]
            /\ observeAlerts(violations')
       ELSE UNCHANGED <<violations, engineVars, lastSync, snapshot>>
    /\ UNCHANGED <<pageVars, phase, stopRequested, modelReady,
                   restartAfterFinish, startQueued>>

HandleFailure ==
    /\ Handling("failed")
    /\ resetRuntime
    /\ UNCHANGED <<pageVars, phase, stopRequested, restartAfterFinish,
                   startQueued, engineVars, snapshot>>

BugRestartForgotten ==
    /\ Handling("finished")
    /\ phase' = IF Worker!isRunning THEN phase ELSE "none"
    /\ restartAfterFinish' = FALSE
    /\ UNCHANGED <<pageVars, stopRequested, startQueued, modelReady, violations,
                   lastSync, engineVars, snapshot>>

HandleFinished ==
    /\ Handling("finished")
    /\ phase' = IF Worker!isRunning THEN phase ELSE "none"
    /\ startQueued' = (startQueued \/ (restartAfterFinish /\ monitoring))
    /\ restartAfterFinish' = (restartAfterFinish /\ ~monitoring)
    /\ UNCHANGED <<pageVars, stopRequested, modelReady, violations, lastSync,
                   engineVars, snapshot>>

\* Assessments delivered by the pose controller.
HandleAssessment(source) ==
    /\ \E found \in SUBSET KeysOf(source) :
          violations' = [violations EXCEPT ![source] = found]
    /\ observeAlerts(violations')
    /\ UNCHANGED <<pageVars, workerVars, modelReady, restartAfterFinish,
                   startQueued>>

HandleErgonomicAssessment == HandleAssessment("ergonomic")
HandleRiskAreaAssessment  == HandleAssessment("riskArea")

RunWorker ==
    /\ Worker!Run
    /\ UNCHANGED <<pageVars, modelReady, restartAfterFinish, startQueued,
                   violations, lastSync, engineVars, snapshot>>

-----------------------------------------------------------------------------
Init ==
    /\ monitoring = FALSE /\ workSession = NoSession /\ used = {}
    /\ phase = "none" /\ stopRequested = FALSE /\ signals = <<>>
    /\ modelReady = FALSE /\ restartAfterFinish = FALSE /\ startQueued = FALSE
    /\ violations = NoViolations
    /\ lastSync = NoTime
    /\ Local!Init
    /\ Hardware!Init
    /\ snapshot = [s \in Sessions |-> "none"]

Next ==
    \/ ActivateMonitoring \/ Retry \/ ClearPage \/ Logout \/ QueuedStart
    \/ HandleModelReady \/ HandleDetections \/ HandleFailure \/ HandleFinished
    \/ HandleErgonomicAssessment \/ HandleRiskAreaAssessment
    \/ RunWorker

UiThread == HandleModelReady \/ HandleDetections \/ HandleFailure
            \/ HandleFinished

FinishWorker ==
    /\ Worker!EmitResult \/ Worker!Finish
    /\ UNCHANGED <<pageVars, modelReady, restartAfterFinish, startQueued,
                   violations, lastSync, engineVars, snapshot>>

\* The event loop handles what was posted to it, and a detection or a thread
\* asked to stop comes to its end, from the loading of its model too.  Neither
\* the user, nor the pose controller, nor a load not asked to stop is assumed
\* to do anything.
Fairness == WF_vars(UiThread) /\ WF_vars(QueuedStart) /\ WF_vars(FinishWorker)

Spec == Init /\ [][Next]_vars /\ Fairness

-----------------------------------------------------------------------------
TypeOK ==
    /\ monitoring \in BOOLEAN
    /\ workSession \in Sessions \cup {NoSession}
    /\ used \subseteq Sessions
    /\ Worker!WorkerTypeOK
    /\ {modelReady, restartAfterFinish, startQueued} \subseteq BOOLEAN
    /\ violations \in [Sources -> SUBSET Keys]
    /\ lastSync \in Times \cup {NoTime}
    /\ Local!TypeOK
    /\ Hardware!TypeOK
    /\ snapshot \in [Sessions -> Colours]

\* Every alert shown to the operator is also on the stack light, at no lower
\* severity: the engine without cooldown is never behind the one with it,
\* although the two count, raise and resolve separately.
LocalAlertsAreSignalled ==
    \A k \in Keys :
        /\ local[k].severity # "none" => hardware[k].severity # "none"
        /\ local[k].severity = "critical" => hardware[k].severity = "critical"

\* The last snapshot emitted for the monitored session shows the colour its
\* hardware engine holds, across failures, refused instants and restarts.
SnapshotIsCurrent ==
    monitoring => snapshot[workSession] \in {"none", Colour(hardware)}

\* A session that ended, by its own end or by a logout, was last reported GREEN,
\* and nothing handled since (late detections, restarts) reported otherwise.
EndedSessionsAreSafe ==
    \A s \in used \ {workSession} : snapshot[s] = "GREEN"

\* The engines never hold another session than the page does: each would
\* then refuse every observation of the new one.
EnginesFollowTheSession ==
    {localSession, hardwareSession} \subseteq {NoSession, workSession}

\* While monitoring, a worker asked to stop for an earlier session is always
\* followed by a restart: no interleaving of stop, finished and the three calls
\* of start (activation, camera retry, the start queued before) loses it.
RestartIsPending ==
    monitoring /\ stopRequested =>
        \/ startQueued
        \/ /\ restartAfterFinish
           /\ \/ Worker!isRunning
              \/ \E n \in 1..Len(signals) : signals[n].kind = "finished"

\* While an operation is monitored, a PPE alert is resolved only on evidence
\* of the PPE model: "A ausencia da condicao precisa persistir por ciclos
\* configuraveis para resolver a ocorrencia" (docs/architecture.md:300).  The
\* code violates it: _handle_failure empties the caches but keeps the engines,
\* so each later pose assessment counts as a cycle without the violation.
PpeAlertResolvedOnPpeEvidence ==
    [][\A k \in PpeKeys :
          /\ monitoring'
          /\ local[k].severity # "none" /\ local'[k].severity = "none"
          => modelReady]_vars

\* A session that starts while the old worker is still stopping gets a worker
\* of its own, unless it is over before.
RestartHappens ==
    (monitoring /\ stopRequested) ~> (~monitoring \/ ~stopRequested)
=============================================================================
