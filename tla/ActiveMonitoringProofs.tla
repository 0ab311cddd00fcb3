----------------------- MODULE ActiveMonitoringProofs -----------------------
(***************************************************************************)
(* The monitoring of an operation for all keys, sessions and thresholds.   *)
(*                                                                         *)
(* Two engines see the same observations and differ in their cooldown only.*)
(* They agree on the run of each violation; when the local engine holds an *)
(* alert the other one holds it too and has seen as many clear observations*)
(* since, so both resolve it at once (Twins).  A snapshot names the session*)
(* that is monitored; one that ended was told GREEN and is not named again.*)
(***************************************************************************)
EXTENDS ActiveMonitoring, TLAPS

\* c of the engine with a cooldown and d of the one without, for one key.
Twin(c, d) ==
    /\ c.first = d.first /\ c.consecutive = d.consecutive
    /\ c.severity # "none" => d.severity # "none" /\ c.clear = d.clear
    /\ c.severity = "critical" => d.severity = "critical"

Twins ==
    /\ localSession = hardwareSession /\ localLast = hardwareLast
    /\ \A k \in Keys : Twin(local[k], hardware[k]) /\ hardware[k].notBefore <= hardwareLast

EngineTypes ==
    /\ monitoring \in BOOLEAN
    /\ workSession \in Sessions \cup {NoSession} /\ used \subseteq Sessions
    /\ violations \in [Sources -> SUBSET Keys]
    /\ lastSync \in Times \cup {NoTime}
    /\ Local!TypeOK /\ Hardware!TypeOK
    /\ snapshot \in [Sessions -> Colours]

\* Only sessions that were opened have a snapshot; the page shows one of them.
OpenedSessions ==
    /\ monitoring => workSession \in used
    /\ ~monitoring => workSession = NoSession
    /\ \A s \in Sessions \ used : snapshot[s] = "none"

EngineInv ==
    /\ EngineTypes /\ OpenedSessions /\ Twins
    /\ SnapshotIsCurrent /\ EndedSessionsAreSafe /\ EnginesFollowTheSession

WorkerTypes ==
    /\ monitoring \in BOOLEAN
    /\ Worker!WorkerTypeOK
    /\ modelReady \in BOOLEAN /\ restartAfterFinish \in BOOLEAN /\ startQueued \in BOOLEAN

WorkerInv == WorkerTypes /\ RestartIsPending

-----------------------------------------------------------------------------
\* What an observation does to a condition, in each engine.
LEMMA LocalViolation ==
    ASSUME NEW c \in Local!Condition, NEW t \in Times
    PROVE  Local!AfterViolation(c, t) \in Local!Condition
<1>1. Local!Counted(c, t) \in Local!Condition
  <2>1. c.first \in Local!Times \cup {Local!NoTime} /\ c.consecutive \in Nat
        /\ t \in Local!Times
    BY DEF Local!Condition, Times, Local!Times
  <2>2. (IF c.first = Local!NoTime THEN t ELSE c.first) \in Local!Times \cup {Local!NoTime}
    BY <2>1
  <2>3. (IF c.first = Local!NoTime THEN 1
         ELSE IF c.consecutive < MaxStreak THEN c.consecutive + 1
         ELSE c.consecutive) \in Nat
    BY <2>1
  <2>. QED  BY <2>2, <2>3 DEF Local!Counted, Local!Condition
<1>2. Local!SeverityAt(Local!Counted(c, t), t) \in Local!Severities
  BY <1>1 DEF Local!SeverityAt, Local!TemporalSeverity, Local!Condition, Local!Severities
<1>. QED  BY <1>1, <1>2 DEF Local!AfterViolation, Local!Condition

LEMMA HardwareViolation ==
    ASSUME NEW c \in Hardware!Condition, NEW t \in Times
    PROVE  Hardware!AfterViolation(c, t) \in Hardware!Condition
<1>1. Hardware!Counted(c, t) \in Hardware!Condition
  <2>1. c.first \in Hardware!Times \cup {Hardware!NoTime} /\ c.consecutive \in Nat
        /\ t \in Hardware!Times
    BY DEF Hardware!Condition, Times, Hardware!Times
  <2>2. (IF c.first = Hardware!NoTime THEN t ELSE c.first)
            \in Hardware!Times \cup {Hardware!NoTime}
    BY <2>1
  <2>3. (IF c.first = Hardware!NoTime THEN 1
         ELSE IF c.consecutive < MaxStreak THEN c.consecutive + 1
         ELSE c.consecutive) \in Nat
    BY <2>1
  <2>. QED  BY <2>2, <2>3 DEF Hardware!Counted, Hardware!Condition
<1>2. Hardware!SeverityAt(Hardware!Counted(c, t), t) \in Hardware!Severities
  BY <1>1 DEF Hardware!SeverityAt, Hardware!TemporalSeverity, Hardware!Condition,
              Hardware!Severities
<1>. QED  BY <1>1, <1>2 DEF Hardware!AfterViolation, Hardware!Condition

LEMMA ClearTyped ==
    ASSUME NEW t \in Times
    PROVE  /\ \A c \in Local!Condition : Local!AfterClear(c, t) \in Local!Condition
           /\ \A c \in Hardware!Condition : Hardware!AfterClear(c, t) \in Hardware!Condition
<1>1. t \in Nat /\ t + LocalCooldown \in Nat /\ t + 0 \in Nat
  BY MonitoringAssumption DEF Times
<1>2. \A c \in Local!Condition : Local!AfterClear(c, t) \in Local!Condition
  BY <1>1 DEF Local!AfterClear, Local!Resolves, Local!Condition, Local!Severities, Local!NoTime
<1>3. \A c \in Hardware!Condition : Hardware!AfterClear(c, t) \in Hardware!Condition
  BY <1>1 DEF Hardware!AfterClear, Hardware!Resolves, Hardware!Condition, Hardware!Severities,
              Hardware!NoTime
<1>. QED  BY <1>2, <1>3

\* A violation: the engine without a cooldown raises no later than the other.
LEMMA ViolationKeepsTwins ==
    ASSUME NEW c \in Local!Condition, NEW d \in Hardware!Condition, NEW t \in Times,
           Twin(c, d), d.notBefore <= t
    PROVE  /\ Twin(Local!AfterViolation(c, t), Hardware!AfterViolation(d, t))
           /\ Hardware!AfterViolation(d, t).notBefore <= t
<1>. DEFINE cc == Local!Counted(c, t)
            dd == Hardware!Counted(d, t)
<1>1. /\ cc.first = dd.first /\ cc.consecutive = dd.consecutive
      /\ cc.clear = 0 /\ dd.clear = 0 /\ dd.notBefore = d.notBefore
      /\ cc.severity = c.severity /\ dd.severity = d.severity
  BY DEF Twin, Local!Counted, Hardware!Counted, Local!Condition, Hardware!Condition,
         Local!NoTime, Hardware!NoTime
<1>2. /\ Local!AfterViolation(c, t).first = cc.first
      /\ Local!AfterViolation(c, t).consecutive = cc.consecutive
      /\ Local!AfterViolation(c, t).clear = cc.clear
      /\ Local!AfterViolation(c, t).severity = Local!SeverityAt(cc, t)
      /\ Hardware!AfterViolation(d, t).first = dd.first
      /\ Hardware!AfterViolation(d, t).consecutive = dd.consecutive
      /\ Hardware!AfterViolation(d, t).clear = dd.clear
      /\ Hardware!AfterViolation(d, t).notBefore = dd.notBefore
      /\ Hardware!AfterViolation(d, t).severity = Hardware!SeverityAt(dd, t)
  BY DEF Local!AfterViolation, Hardware!AfterViolation, Local!Counted, Hardware!Counted,
         Local!Condition, Hardware!Condition
<1>3. /\ c.severity \in {"none", "warning", "critical"}
      /\ d.severity \in {"none", "warning", "critical"}
      /\ t >= d.notBefore
  BY MonitoringAssumption DEF Local!Condition, Hardware!Condition, Local!Severities,
         Hardware!Severities, Times, Hardware!NoTime
<1>4. Local!CanRaise(cc, t) => Hardware!CanRaise(dd, t)
  BY <1>1, <1>3 DEF Local!CanRaise, Hardware!CanRaise
<1>5. Local!TemporalSeverity(cc, t) = Hardware!TemporalSeverity(dd, t)
      /\ Hardware!TemporalSeverity(dd, t) \in {"warning", "critical"}
  BY <1>1 DEF Local!TemporalSeverity, Hardware!TemporalSeverity
<1>6. /\ Local!SeverityAt(cc, t) # "none" => Hardware!SeverityAt(dd, t) # "none"
      /\ Local!SeverityAt(cc, t) = "critical" => Hardware!SeverityAt(dd, t) = "critical"
  <2>1. CASE c.severity = "none" /\ ~Local!CanRaise(cc, t)
    BY <1>1, <2>1 DEF Local!SeverityAt
  <2>2. CASE ~(c.severity = "none" /\ ~Local!CanRaise(cc, t))
    <3>1. ~(d.severity = "none" /\ ~Hardware!CanRaise(dd, t))
      BY <1>4, <2>2 DEF Twin
    <3>2. Hardware!SeverityAt(dd, t) = IF d.severity = "critical" THEN "critical"
                                       ELSE Hardware!TemporalSeverity(dd, t)
      BY <1>1, <3>1 DEF Hardware!SeverityAt
    <3>3. Local!SeverityAt(cc, t) = IF c.severity = "critical" THEN "critical"
                                    ELSE Local!TemporalSeverity(cc, t)
      BY <1>1, <2>2 DEF Local!SeverityAt
    <3>. QED  BY <1>5, <3>2, <3>3 DEF Twin
  <2>. QED  BY <2>1, <2>2
<1>. QED  BY <1>1, <1>2, <1>3, <1>6 DEF Twin

\* No violation: while both hold an alert they have seen as many.
LEMMA ClearKeepsTwins ==
    ASSUME NEW c \in Local!Condition, NEW d \in Hardware!Condition, NEW t \in Times,
           Twin(c, d), d.notBefore <= t
    PROVE  /\ Twin(Local!AfterClear(c, t), Hardware!AfterClear(d, t))
           /\ Hardware!AfterClear(d, t).notBefore <= t
<1>1. t \in Nat /\ t + 0 = t
  BY MonitoringAssumption DEF Times
<1>2. Hardware!AfterClear(d, t).notBefore <= t
  BY <1>1 DEF Hardware!AfterClear
<1>3. c.severity # "none" => (Local!Resolves(c) <=> Hardware!Resolves(d))
  BY DEF Twin, Local!Resolves, Hardware!Resolves
<1>4. /\ Local!AfterClear(c, t).first = Hardware!AfterClear(d, t).first
      /\ Local!AfterClear(c, t).consecutive = Hardware!AfterClear(d, t).consecutive
  BY DEF Local!AfterClear, Hardware!AfterClear, Local!NoTime, Hardware!NoTime
<1>5. CASE c.severity = "none" \/ Local!Resolves(c)
  <2>1. Local!AfterClear(c, t).severity = "none"
    BY <1>5 DEF Local!AfterClear
  <2>. QED  BY <1>2, <1>4, <2>1 DEF Twin
<1>6. CASE c.severity # "none" /\ ~Local!Resolves(c)
  <2>1. d.severity # "none" /\ ~Hardware!Resolves(d) /\ c.clear = d.clear
    BY <1>3, <1>6 DEF Twin
  <2>2. /\ Local!AfterClear(c, t).severity = c.severity
        /\ Local!AfterClear(c, t).clear = c.clear + 1
        /\ Hardware!AfterClear(d, t).severity = d.severity
        /\ Hardware!AfterClear(d, t).clear = d.clear + 1
    BY <1>6, <2>1 DEF Local!AfterClear, Hardware!AfterClear
  <2>. QED  BY <1>2, <1>4, <2>1, <2>2 DEF Twin
<1>. QED  BY <1>5, <1>6

-----------------------------------------------------------------------------
\* The engines and the snapshots.
LEMMA QuietKeepsInv ==
    ASSUME EngineInv, UNCHANGED <<pageVars, engineVars, snapshot>>,
           violations' \in [Sources -> SUBSET Keys], lastSync' \in Times \cup {NoTime}
    PROVE  EngineInv'
BY DEF EngineInv, EngineTypes, OpenedSessions, Twins, SnapshotIsCurrent, EndedSessionsAreSafe,
       EnginesFollowTheSession, pageVars, engineVars, localVars, hardwareVars, Local!TypeOK,
       Hardware!TypeOK, Colour

LEMMA ObservedKeepsInv ==
    ASSUME EngineInv, monitoring, UNCHANGED pageVars, NEW t \in Times,
           NEW reported \in [Sources -> SUBSET Keys], violations' = reported,
           Local!Accepts(workSession, t), Observed(reported, t)
    PROVE  EngineInv'
<1>. DEFINE violated == UNION {reported[source] : source \in Sources}
<1>1. /\ EngineTypes /\ OpenedSessions /\ Twins
      /\ SnapshotIsCurrent /\ EndedSessionsAreSafe /\ EnginesFollowTheSession
  BY DEF EngineInv
<1>2. /\ localSession' = workSession /\ localLast' = t
      /\ local' = [k \in Keys |-> IF k \in violated THEN Local!AfterViolation(local[k], t)
                                                   ELSE Local!AfterClear(local[k], t)]
      /\ hardwareSession' = workSession /\ hardwareLast' = t
      /\ hardware' = [k \in Keys |-> IF k \in violated THEN Hardware!AfterViolation(hardware[k], t)
                                                      ELSE Hardware!AfterClear(hardware[k], t)]
  BY DEF Observed, Local!Observe, Hardware!Observe
<1>3. workSession \in Sessions /\ workSession \in used /\ UNCHANGED <<monitoring, workSession, used>>
  BY <1>1 DEF EngineTypes, OpenedSessions, pageVars
<1>4. hardwareLast <= t
  <2>1. hardwareLast \in Times \cup {-1} /\ t \in Nat
    BY <1>1, MonitoringAssumption DEF EngineTypes, Hardware!TypeOK, Hardware!Times,
       Hardware!NoTime, Times
  <2>2. localLast # -1 => t >= localLast
    BY DEF Local!Accepts, Local!NoTime
  <2>. QED  BY <1>1, <2>1, <2>2 DEF Twins, Times
<1>5. ASSUME NEW k \in Keys
      PROVE  /\ local'[k] \in Local!Condition /\ hardware'[k] \in Hardware!Condition
             /\ Twin(local'[k], hardware'[k]) /\ hardware'[k].notBefore <= t
  <2>1. local[k] \in Local!Condition /\ hardware[k] \in Hardware!Condition
    BY <1>1 DEF EngineTypes, Local!TypeOK, Hardware!TypeOK
  <2>2. Twin(local[k], hardware[k]) /\ hardware[k].notBefore <= t
    <3>1. hardware[k].notBefore \in Int /\ hardwareLast \in Int /\ t \in Int
      BY <1>1, <2>1, MonitoringAssumption DEF EngineTypes, Hardware!TypeOK, Hardware!Condition,
         Hardware!Times, Hardware!NoTime, Times
    <3>. QED  BY <1>1, <1>4, <3>1 DEF Twins
  <2>3. CASE k \in violated
    <3>1. local'[k] = Local!AfterViolation(local[k], t)
          /\ hardware'[k] = Hardware!AfterViolation(hardware[k], t)
      BY <1>2, <2>3
    <3>. QED  BY <2>1, <2>2, <3>1, ViolationKeepsTwins, LocalViolation, HardwareViolation
  <2>4. CASE k \notin violated
    <3>1. local'[k] = Local!AfterClear(local[k], t)
          /\ hardware'[k] = Hardware!AfterClear(hardware[k], t)
      BY <1>2, <2>4
    <3>. QED  BY <2>1, <2>2, <3>1, ClearKeepsTwins, ClearTyped
  <2>. QED  BY <2>3, <2>4
<1>6. Twins'
  BY <1>2, <1>5 DEF Twins
<1>7. \/ lastSync' = t /\ snapshot' = [snapshot EXCEPT ![workSession] = Colour(hardware')]
      \/ Severities(hardware') = Severities(hardware) /\ UNCHANGED <<lastSync, snapshot>>
  BY DEF Observed, snapshotDue
<1>8. EngineTypes'
  <2>1. Local!TypeOK' /\ Hardware!TypeOK'
    BY <1>2, <1>3, <1>5 DEF Local!TypeOK, Hardware!TypeOK, Times, Local!Times, Hardware!Times
  <2>2. snapshot' \in [Sessions -> Colours] /\ lastSync' \in Times \cup {NoTime}
    BY <1>1, <1>3, <1>7 DEF EngineTypes, Colours, Colour
  <2>. QED  BY <1>1, <1>3, <2>1, <2>2 DEF EngineTypes
<1>9. OpenedSessions' /\ EndedSessionsAreSafe'
  BY <1>1, <1>3, <1>7 DEF OpenedSessions, EndedSessionsAreSafe, EngineTypes
<1>10. SnapshotIsCurrent'
  <2>1. CASE snapshot' = [snapshot EXCEPT ![workSession] = Colour(hardware')]
    BY <1>1, <1>3, <2>1 DEF SnapshotIsCurrent, EngineTypes
  <2>2. CASE Severities(hardware') = Severities(hardware) /\ UNCHANGED snapshot
    <3>1. \A k \in Keys : hardware'[k].severity = hardware[k].severity
      <4>1. \A k \in Keys : /\ Severities(hardware')[k] = hardware'[k].severity
                            /\ Severities(hardware)[k] = hardware[k].severity
        BY DEF Severities
      <4>. QED  BY <2>2, <4>1
    <3>2. Colour(hardware') = Colour(hardware)
      BY <3>1 DEF Colour
    <3>. QED  BY <1>1, <1>3, <2>2, <3>2 DEF SnapshotIsCurrent
  <2>. QED  BY <1>7, <2>1, <2>2
<1>11. EnginesFollowTheSession'
  BY <1>2, <1>3 DEF EnginesFollowTheSession
<1>. QED  BY <1>6, <1>8, <1>9, <1>10, <1>11 DEF EngineInv

LEMMA ObserveKeepsInv ==
    ASSUME EngineInv, UNCHANGED pageVars, violations' \in [Sources -> SUBSET Keys],
           observeAlerts(violations')
    PROVE  EngineInv'
<1>1. lastSync \in Times \cup {NoTime}
  BY DEF EngineInv, EngineTypes
<1>2. CASE UNCHANGED <<engineVars, lastSync, snapshot>>
  BY <1>1, <1>2, QuietKeepsInv
<1>3. CASE monitoring /\ \E t \in Times : Local!Accepts(workSession, t) /\ Observed(violations', t)
  BY <1>3, ObservedKeepsInv
<1>. QED  BY <1>2, <1>3 DEF observeAlerts

LEMMA ActivateKeepsEngines ==
    ASSUME EngineInv, ActivateMonitoring PROVE EngineInv'
<1>1. /\ EngineTypes /\ OpenedSessions /\ Twins
      /\ SnapshotIsCurrent /\ EndedSessionsAreSafe /\ EnginesFollowTheSession
  BY DEF EngineInv
<1>2. PICK s \in Sessions \ used :
        /\ workSession = NoSession /\ workSession' = s /\ used' = used \cup {s}
        /\ monitoring' = TRUE /\ start /\ UNCHANGED <<signals, startQueued, engineVars, snapshot>>
  BY DEF ActivateMonitoring, freshSession
<1>3. violations' \in [Sources -> SUBSET Keys] /\ lastSync' \in Times \cup {NoTime}
  BY <1>1, <1>2 DEF start, resetRuntime, EngineTypes, NoViolations
<1>4. UNCHANGED <<local, localSession, localLast, hardware, hardwareSession, hardwareLast,
                  snapshot>>
  BY <1>2 DEF engineVars, localVars, hardwareVars
<1>5. EngineTypes'
  BY <1>1, <1>2, <1>3, <1>4 DEF EngineTypes, Local!TypeOK, Hardware!TypeOK
<1>6. snapshot[s] = "none"
  BY <1>1, <1>2 DEF OpenedSessions
<1>7. OpenedSessions' /\ Twins' /\ SnapshotIsCurrent' /\ EndedSessionsAreSafe'
  BY <1>1, <1>2, <1>4, <1>6, MonitoringAssumption
     DEF OpenedSessions, Twins, SnapshotIsCurrent, EndedSessionsAreSafe, EngineTypes
<1>8. EnginesFollowTheSession'
  BY <1>1, <1>2, <1>4 DEF EnginesFollowTheSession
<1>. QED  BY <1>5, <1>7, <1>8 DEF EngineInv

\* stop() and shutdown() report the safe state of the session, if one is open,
\* and reset both engines.
LEMMA ClearKeepsEngines ==
    ASSUME EngineInv, ClearPage \/ Logout PROVE EngineInv'
<1>1. EngineTypes /\ OpenedSessions /\ EndedSessionsAreSafe
  BY DEF EngineInv
<1>2. /\ workSession' = NoSession /\ monitoring' = FALSE /\ used' = used
      /\ snapshot' = IF workSession = NoSession THEN snapshot
                     ELSE [snapshot EXCEPT ![workSession] = "GREEN"]
      /\ local' = [k \in Keys |-> Local!Fresh] /\ hardware' = [k \in Keys |-> Hardware!Fresh]
      /\ localSession' = NoSession /\ hardwareSession' = NoSession
      /\ localLast' = -1 /\ hardwareLast' = -1
      /\ violations' = NoViolations /\ lastSync' = NoTime
  BY DEF ClearPage, Logout, emitSafeSnapshot, resetRuntime, resetEngines, Local!Reset,
         Hardware!Reset, Local!NoTime, Hardware!NoTime
<1>3. /\ workSession # NoSession => workSession \in used /\ workSession \in Sessions
      /\ NoSession \notin used
  BY <1>1, MonitoringAssumption DEF EngineTypes, OpenedSessions
<1>4. /\ Local!Fresh \in Local!Condition /\ Hardware!Fresh \in Hardware!Condition
      /\ Twin(Local!Fresh, Hardware!Fresh) /\ Hardware!Fresh.notBefore <= -1
  BY DEF Local!Fresh, Local!Condition, Local!NoTime, Local!Severities, Hardware!Fresh,
         Hardware!Condition, Hardware!NoTime, Hardware!Severities, Twin
<1>5. EngineTypes'
  <2>1. Local!TypeOK' /\ Hardware!TypeOK'
    BY <1>2, <1>4 DEF Local!TypeOK, Hardware!TypeOK, Local!NoTime, Hardware!NoTime
  <2>2. snapshot' \in [Sessions -> Colours] /\ violations' \in [Sources -> SUBSET Keys]
    BY <1>1, <1>2, <1>3 DEF EngineTypes, Colours, NoViolations
  <2>. QED  BY <1>1, <1>2, <2>1, <2>2 DEF EngineTypes
<1>6. OpenedSessions' /\ EndedSessionsAreSafe'
  BY <1>1, <1>2, <1>3 DEF OpenedSessions, EndedSessionsAreSafe, EngineTypes
<1>7. Twins' /\ SnapshotIsCurrent' /\ EnginesFollowTheSession'
  BY <1>2, <1>4 DEF Twins, SnapshotIsCurrent, EnginesFollowTheSession
<1>. QED  BY <1>5, <1>6, <1>7 DEF EngineInv

LEMMA StepKeepsEngines == ASSUME EngineInv, WorkerTypes, [Next]_vars PROVE EngineInv'
<1>1. EngineTypes /\ NoViolations \in [Sources -> SUBSET Keys]
      /\ violations \in [Sources -> SUBSET Keys] /\ lastSync \in Times \cup {NoTime}
  BY DEF EngineInv, EngineTypes, NoViolations
<1>2. CASE QueuedStart \/ Retry
  BY <1>1, <1>2, QuietKeepsInv DEF QueuedStart, Retry, start, resetRuntime
<1>3. CASE HandleModelReady \/ HandleFailure \/ HandleFinished \/ RunWorker
  BY <1>1, <1>3, QuietKeepsInv
     DEF HandleModelReady, HandleFailure, HandleFinished, RunWorker, resetRuntime
<1>4. CASE HandleDetections
  <2>1. UNCHANGED pageVars
    BY <1>4 DEF HandleDetections
  <2>2. CASE modelReady /\ workSession # NoSession
    <3>1. violations' = [violations EXCEPT !["ppe"] = Head(signals).value] /\ Handling("result")
          /\ observeAlerts(violations')
      BY <1>4, <2>2 DEF HandleDetections
    <3>2. Head(signals) \in Worker!Signal /\ Head(signals).kind = "result"
      BY <3>1 DEF Handling, WorkerTypes, Worker!WorkerTypeOK
    <3>3. Head(signals).value \in SUBSET Keys
      BY <3>2 DEF Worker!Signal, Keys
    <3>4. violations' \in [Sources -> SUBSET Keys]
      BY <1>1, <3>1, <3>3
    <3>. QED  BY <2>1, <3>1, <3>4, ObserveKeepsInv
  <2>3. CASE ~(modelReady /\ workSession # NoSession)
    BY <1>1, <1>4, <2>3, QuietKeepsInv DEF HandleDetections
  <2>. QED  BY <2>2, <2>3
<1>5. ASSUME NEW source \in {"ergonomic", "riskArea"}, HandleAssessment(source) PROVE EngineInv'
  <2>1. PICK found \in SUBSET KeysOf(source) : violations' = [violations EXCEPT ![source] = found]
    BY <1>5 DEF HandleAssessment
  <2>2. violations' \in [Sources -> SUBSET Keys]
    BY <1>1, <2>1 DEF KeysOf, Keys
  <2>. QED  BY <1>5, <2>2, ObserveKeepsInv DEF HandleAssessment
<1>6. CASE UNCHANGED vars
  BY <1>1, <1>6, QuietKeepsInv DEF vars
<1>. QED  BY <1>2, <1>3, <1>4, <1>5, <1>6, ActivateKeepsEngines, ClearKeepsEngines
     DEF Next, HandleErgonomicAssessment, HandleRiskAreaAssessment

-----------------------------------------------------------------------------
\* The worker, its signals and the restart after it.
FinishedWaits == \E n \in 1..Len(signals) : signals[n].kind = "finished"

LEMMA Popped ==
    ASSUME WorkerTypes, NEW kind, Handling(kind)
    PROVE  /\ Head(signals) \in Worker!Signal /\ signals' \in Seq(Worker!Signal)
           /\ (kind # "finished" /\ FinishedWaits) => FinishedWaits'
<1>1. /\ signals \in Seq(Worker!Signal) /\ signals # <<>> /\ signals' = Tail(signals)
      /\ Head(signals).kind = kind
  BY DEF Handling, WorkerTypes, Worker!WorkerTypeOK
<1>2. PICK m : m = Len(signals)
  OBVIOUS
<1>3. m \in Nat \ {0} /\ Head(signals) = signals[1] /\ Head(signals) \in Worker!Signal
      /\ signals' \in Seq(Worker!Signal) /\ Len(signals') = m - 1
      /\ \A i \in 1..m - 1 : signals'[i] = signals[i + 1]
  BY <1>1, <1>2
<1>4. ASSUME kind # "finished", FinishedWaits PROVE FinishedWaits'
  <2>1. PICK n \in 1..m : signals[n].kind = "finished"
    BY <1>2, <1>4 DEF FinishedWaits
  <2>2. n # 1
    BY <1>1, <1>3, <1>4, <2>1
  <2>3. n - 1 \in 1..m - 1 /\ signals'[n - 1] = signals[n]
    BY <1>3, <2>1, <2>2
  <2>. QED  BY <1>3, <2>1, <2>3 DEF FinishedWaits
<1>. QED  BY <1>3, <1>4

LEMMA Posted ==
    ASSUME WorkerTypes, NEW signal \in Worker!Signal, Worker!Post(signal)
    PROVE  /\ signals' \in Seq(Worker!Signal)
           /\ FinishedWaits \/ signal.kind = "finished" => FinishedWaits'
<1>1. signals \in Seq(Worker!Signal) /\ signals' = Append(signals, signal)
  BY DEF Worker!Post, WorkerTypes, Worker!WorkerTypeOK
<1>2. PICK m : m = Len(signals)
  OBVIOUS
<1>3. m \in Nat /\ signals' \in Seq(Worker!Signal) /\ Len(signals') = m + 1
      /\ signals'[m + 1] = signal /\ \A i \in 1..m : signals'[i] = signals[i]
  BY <1>1, <1>2
<1>4. ASSUME FinishedWaits PROVE FinishedWaits'
  <2>1. PICK n \in 1..m : signals[n].kind = "finished"
    BY <1>2, <1>4 DEF FinishedWaits
  <2>. QED  BY <1>3, <2>1 DEF FinishedWaits
<1>5. ASSUME signal.kind = "finished" PROVE FinishedWaits'
  <2>1. m + 1 \in 1..m + 1
    BY <1>3
  <2>. QED  BY <1>3, <1>5, <2>1 DEF FinishedWaits
<1>. QED  BY <1>3, <1>4, <1>5

LEMMA StartKeepsWorker ==
    ASSUME WorkerInv, start, monitoring' \in BOOLEAN, UNCHANGED signals,
           startQueued' \in BOOLEAN
    PROVE  WorkerInv'
<1>1. WorkerTypes
  BY DEF WorkerInv
<1>2. CASE Worker!isRunning
  <2>1. restartAfterFinish' = (restartAfterFinish \/ stopRequested)
        /\ UNCHANGED <<phase, stopRequested, modelReady>>
    BY <1>2 DEF start
  <2>2. WorkerTypes'
    BY <1>1, <2>1 DEF WorkerTypes, Worker!WorkerTypeOK
  <2>3. stopRequested' => restartAfterFinish' /\ Worker!isRunning'
    BY <1>1, <1>2, <2>1 DEF Worker!isRunning, WorkerTypes, Worker!WorkerTypeOK
  <2>. QED  BY <2>2, <2>3 DEF WorkerInv, RestartIsPending
<1>3. CASE ~Worker!isRunning
  <2>1. restartAfterFinish' = FALSE /\ modelReady' = FALSE /\ phase' = "loading"
        /\ stopRequested' = FALSE
    BY <1>3 DEF start, resetRuntime, Worker!Launch
  <2>2. WorkerTypes'
    BY <1>1, <2>1 DEF WorkerTypes, Worker!WorkerTypeOK, Worker!Phases
  <2>. QED  BY <2>1, <2>2 DEF WorkerInv, RestartIsPending
<1>. QED  BY <1>2, <1>3

LEMMA RunKeepsWorker == ASSUME WorkerInv, RunWorker PROVE WorkerInv'
<1>1. WorkerTypes /\ RestartIsPending
  BY DEF WorkerInv
<1>2. Worker!Run /\ UNCHANGED <<monitoring, modelReady, restartAfterFinish, startQueued>>
  BY DEF RunWorker, pageVars
<1>3. stopRequested' = stopRequested
  BY <1>2 DEF Worker!Run, Worker!LoadModel, Worker!TakeLatestFrame, Worker!EmitResult,
              Worker!Fail, Worker!Finish
<1>4. signals' \in Seq(Worker!Signal) /\ (FinishedWaits => FinishedWaits')
  <2>1. CASE UNCHANGED signals
    BY <1>1, <2>1 DEF WorkerTypes, Worker!WorkerTypeOK, FinishedWaits
  <2>2. CASE \E signal \in Worker!Signal : Worker!Post(signal)
    BY <1>1, <2>2, Posted
  <2>3. /\ [kind |-> "ready"] \in Worker!Signal /\ [kind |-> "failed"] \in Worker!Signal
        /\ [kind |-> "finished"] \in Worker!Signal
        /\ \A r \in SUBSET PpeKeys : [kind |-> "result", value |-> r] \in Worker!Signal
    BY DEF Worker!Signal
  <2>. QED  BY <1>2, <2>1, <2>2, <2>3
       DEF Worker!Run, Worker!LoadModel, Worker!TakeLatestFrame, Worker!EmitResult,
           Worker!Fail, Worker!Finish
<1>5. phase' \in Worker!Phases
  BY <1>2 DEF Worker!Run, Worker!LoadModel, Worker!TakeLatestFrame, Worker!EmitResult,
              Worker!Fail, Worker!Finish, Worker!Phases
<1>6. Worker!isRunning => Worker!isRunning' \/ FinishedWaits'
  <2>1. CASE Worker!Finish
    <3>1. [kind |-> "finished"] \in Worker!Signal /\ Worker!Post([kind |-> "finished"])
      BY <2>1 DEF Worker!Finish, Worker!Signal
    <3>. QED  BY <1>1, <3>1, Posted
  <2>2. CASE ~Worker!Finish
    BY <1>2, <2>2 DEF Worker!Run, Worker!LoadModel, Worker!TakeLatestFrame,
                      Worker!EmitResult, Worker!Fail, Worker!isRunning
  <2>. QED  BY <2>1, <2>2
<1>7. WorkerTypes'
  BY <1>1, <1>2, <1>3, <1>4, <1>5 DEF WorkerTypes, Worker!WorkerTypeOK
<1>8. RestartIsPending'
  BY <1>1, <1>2, <1>3, <1>4, <1>6 DEF RestartIsPending, FinishedWaits
<1>. QED  BY <1>7, <1>8 DEF WorkerInv

LEMMA StepKeepsWorker == ASSUME WorkerInv, [Next]_vars PROVE WorkerInv'
<1>1. WorkerTypes /\ RestartIsPending
  BY DEF WorkerInv
<1>2. CASE ActivateMonitoring \/ Retry
  BY <1>1, <1>2, StartKeepsWorker DEF ActivateMonitoring, Retry, WorkerTypes, pageVars
<1>3. CASE ClearPage
  <2>1. /\ monitoring' = FALSE /\ restartAfterFinish' = FALSE /\ modelReady' = FALSE
        /\ stopRequested' = (stopRequested \/ Worker!isRunning)
        /\ UNCHANGED <<phase, signals, startQueued>>
    BY <1>3 DEF ClearPage, resetRuntime, Worker!request_stop
  <2>2. WorkerTypes'
    BY <1>1, <2>1 DEF WorkerTypes, Worker!WorkerTypeOK, Worker!isRunning
  <2>. QED  BY <2>1, <2>2 DEF WorkerInv, RestartIsPending
<1>4. CASE QueuedStart
  <2>1. startQueued' = FALSE /\ UNCHANGED <<monitoring, signals>>
    BY <1>4 DEF QueuedStart, pageVars
  <2>2. CASE monitoring
    BY <1>1, <1>4, <2>1, <2>2, StartKeepsWorker DEF QueuedStart, WorkerTypes
  <2>3. CASE ~monitoring
    <3>1. WorkerTypes'
      BY <1>1, <1>4, <2>1, <2>3 DEF QueuedStart, WorkerTypes, Worker!WorkerTypeOK
    <3>. QED  BY <2>1, <2>3, <3>1 DEF WorkerInv, RestartIsPending
  <2>. QED  BY <2>2, <2>3
<1>5. ASSUME NEW kind \in {"ready", "result", "failed"}, Handling(kind), modelReady' \in BOOLEAN,
             UNCHANGED <<monitoring, phase, stopRequested, restartAfterFinish, startQueued>>
      PROVE  WorkerInv'
  <2>1. signals' \in Seq(Worker!Signal) /\ (FinishedWaits => FinishedWaits')
    BY <1>1, <1>5, Popped
  <2>2. WorkerTypes'
    BY <1>1, <1>5, <2>1 DEF WorkerTypes, Worker!WorkerTypeOK
  <2>3. RestartIsPending'
    BY <1>1, <1>5, <2>1 DEF RestartIsPending, FinishedWaits, Worker!isRunning
  <2>. QED  BY <2>2, <2>3 DEF WorkerInv
<1>6. CASE HandleModelReady \/ HandleDetections \/ HandleFailure
  <2>1. modelReady' \in BOOLEAN
        /\ UNCHANGED <<monitoring, phase, stopRequested, restartAfterFinish, startQueued>>
    BY <1>1, <1>6 DEF HandleModelReady, HandleDetections, HandleFailure, resetRuntime, pageVars,
                      WorkerTypes
  <2>. QED  BY <1>5, <1>6, <2>1 DEF HandleModelReady, HandleDetections, HandleFailure
<1>7. CASE HandleFinished
  <2>1. /\ phase' = IF Worker!isRunning THEN phase ELSE "none"
        /\ startQueued' = (startQueued \/ (restartAfterFinish /\ monitoring))
        /\ restartAfterFinish' = (restartAfterFinish /\ ~monitoring)
        /\ UNCHANGED <<monitoring, stopRequested, modelReady>>
    BY <1>7 DEF HandleFinished, pageVars
  <2>2. signals' \in Seq(Worker!Signal)
    BY <1>1, <1>7, Popped DEF HandleFinished
  <2>3. WorkerTypes'
    BY <1>1, <2>1, <2>2 DEF WorkerTypes, Worker!WorkerTypeOK, Worker!Phases
  <2>4. RestartIsPending'
    BY <1>1, <2>1 DEF RestartIsPending
  <2>. QED  BY <2>3, <2>4 DEF WorkerInv
<1>8. CASE HandleErgonomicAssessment \/ HandleRiskAreaAssessment \/ UNCHANGED vars
  <2>1. UNCHANGED <<monitoring, phase, stopRequested, signals, modelReady, restartAfterFinish,
                    startQueued>>
    BY <1>8 DEF HandleErgonomicAssessment, HandleRiskAreaAssessment, HandleAssessment, vars,
                pageVars, workerVars
  <2>. QED  BY <1>1, <2>1 DEF WorkerInv, WorkerTypes, Worker!WorkerTypeOK, RestartIsPending,
                              Worker!isRunning
<1>9. CASE Logout
  <2>1. /\ monitoring' = FALSE /\ restartAfterFinish' = FALSE /\ modelReady' = FALSE
        /\ phase' = "none" /\ stopRequested' = FALSE /\ signals' = <<>> /\ startQueued' = FALSE
    BY <1>9 DEF Logout, resetRuntime
  <2>2. <<>> \in Seq(Worker!Signal)
    OBVIOUS
  <2>3. WorkerTypes'
    BY <2>1, <2>2 DEF WorkerTypes, Worker!WorkerTypeOK, Worker!Phases
  <2>. QED  BY <2>1, <2>3 DEF WorkerInv, RestartIsPending
<1>. QED  BY <1>2, <1>3, <1>4, <1>6, <1>7, <1>8, <1>9, RunKeepsWorker DEF Next

-----------------------------------------------------------------------------
MonitoringInv == EngineInv /\ WorkerInv

LEMMA InitMonitoringInv == Init => MonitoringInv
<1>. SUFFICES ASSUME Init PROVE MonitoringInv
  OBVIOUS
<1>1. /\ Local!Fresh \in Local!Condition /\ Hardware!Fresh \in Hardware!Condition
      /\ Twin(Local!Fresh, Hardware!Fresh) /\ Hardware!Fresh.notBefore <= -1
  BY DEF Local!Fresh, Local!Condition, Local!NoTime, Local!Severities, Hardware!Fresh,
         Hardware!Condition, Hardware!NoTime, Hardware!Severities, Twin
<1>2. EngineTypes
  <2>1. Local!TypeOK /\ Hardware!TypeOK
    BY <1>1 DEF Init, Local!Init, Hardware!Init, Local!TypeOK, Hardware!TypeOK
  <2>. QED  BY <2>1 DEF Init, EngineTypes, NoViolations, Colours
<1>3. EngineInv
  BY <1>1, <1>2
     DEF Init, Local!Init, Hardware!Init, EngineInv, OpenedSessions, Twins, SnapshotIsCurrent,
         EndedSessionsAreSafe, EnginesFollowTheSession, Local!NoTime, Hardware!NoTime
<1>4. WorkerInv
  <2>1. <<>> \in Seq(Worker!Signal)
    OBVIOUS
  <2>. QED  BY <2>1 DEF Init, WorkerInv, WorkerTypes, Worker!WorkerTypeOK, Worker!Phases,
                        RestartIsPending
<1>. QED  BY <1>3, <1>4 DEF MonitoringInv

LEMMA AlwaysMonitoringInv == Spec => []MonitoringInv
<1>1. MonitoringInv /\ [Next]_vars => MonitoringInv'
  BY StepKeepsEngines, StepKeepsWorker DEF MonitoringInv, WorkerInv
<1>. QED  BY InitMonitoringInv, <1>1, PTL DEF Spec

LEMMA MonitoringInvSays ==
    ASSUME MonitoringInv
    PROVE  /\ TypeOK /\ LocalAlertsAreSignalled /\ SnapshotIsCurrent /\ EndedSessionsAreSafe
           /\ EnginesFollowTheSession /\ RestartIsPending
<1>1. TypeOK
  BY DEF MonitoringInv, EngineInv, EngineTypes, WorkerInv, WorkerTypes, TypeOK
<1>2. LocalAlertsAreSignalled
  BY DEF MonitoringInv, EngineInv, Twins, Twin, LocalAlertsAreSignalled
<1>. QED  BY <1>1, <1>2 DEF MonitoringInv, EngineInv, WorkerInv

\* Every variable of the controller, its worker and its engines keeps its type,
\* for any thresholds.
THEOREM MonitoringTypeCorrect == Spec => []TypeOK
<1>1. MonitoringInv => TypeOK
  BY MonitoringInvSays
<1>. QED  BY AlwaysMonitoringInv, <1>1, PTL

\* For any keys, cooldown and thresholds, what the operator is alerted to is on
\* the stack light, at no lower severity (_observe_alerts with its two engines).
THEOREM AlertsAreSignalled == Spec => []LocalAlertsAreSignalled
<1>1. MonitoringInv => LocalAlertsAreSignalled
  BY MonitoringInvSays
<1>. QED  BY AlwaysMonitoringInv, <1>1, PTL

\* The last snapshot of the monitored session shows what its engine holds,
\* although one is emitted only when it is due.
THEOREM SnapshotsAreCurrent == Spec => []SnapshotIsCurrent
<1>1. MonitoringInv => SnapshotIsCurrent
  BY MonitoringInvSays
<1>. QED  BY AlwaysMonitoringInv, <1>1, PTL

\* For any number of sessions: one that ended was last reported GREEN.
THEOREM EndedSessionsStaySafe == Spec => []EndedSessionsAreSafe
<1>1. MonitoringInv => EndedSessionsAreSafe
  BY MonitoringInvSays
<1>. QED  BY AlwaysMonitoringInv, <1>1, PTL

\* No engine holds a session that the page has left.
THEOREM EnginesAreOfTheSession == Spec => []EnginesFollowTheSession
<1>1. MonitoringInv => EnginesFollowTheSession
  BY MonitoringInvSays
<1>. QED  BY AlwaysMonitoringInv, <1>1, PTL

\* A worker that was asked to stop for an earlier session is followed by one for
\* the session monitored now, however many signals of it still wait and whoever
\* calls start() meanwhile: the page, the camera retry or an earlier restart.
THEOREM RestartsArePending == Spec => []RestartIsPending
<1>1. MonitoringInv => RestartIsPending
  BY MonitoringInvSays
<1>. QED  BY AlwaysMonitoringInv, <1>1, PTL
=============================================================================
