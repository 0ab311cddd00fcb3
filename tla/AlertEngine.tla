---------------------------- MODULE AlertEngine ----------------------------
(***************************************************************************)
(* The debounce, deduplication and cooldown engine for local safety        *)
(* alerts: 2identify_operador/app/engine/alert.py, class AlertEngine.      *)
(*                                                                         *)
(* A condition is identified by the deduplication key of its violation.    *)
(* One observation carries the complete set of keys violated right now and *)
(* the wall-clock instant at which the UI thread made it.  Identifiers and *)
(* texts of an alert are abstracted away: an active alert is the severity  *)
(* its condition holds.  MaxTime bounds the clock.  MaxStreak is where the *)
(* count of consecutive observations stops growing; the engine only asks   *)
(* whether it has reached MinimumConsecutive.                              *)
(***************************************************************************)
EXTENDS Integers

CONSTANTS
    Keys,                   \* deduplication keys of the violations
    Sessions, NoSession,    \* WorkSessions, and the absence of one
    StartedAt,              \* WorkSession.started_at of each session
    MinimumConsecutive, MinimumPersistence, ResolutionConsecutive,
    Cooldown, CriticalAfter,
    MaxTime, MaxStreak

\* The ValueErrors of AlertEngine.__init__.
ASSUME ParametersAssumption ==
    /\ MinimumConsecutive \in Nat \ {0}
    /\ MinimumPersistence \in Nat
    /\ ResolutionConsecutive \in Nat \ {0}
    /\ Cooldown \in Nat
    /\ CriticalAfter \in Nat \ {0}

ASSUME BoundsAssumption ==
    /\ MaxTime \in Nat
    /\ MaxStreak \in Nat /\ MaxStreak >= MinimumConsecutive
    /\ NoSession \notin Sessions
    /\ StartedAt \in [Sessions -> 0..MaxTime]

VARIABLES
    conditions,      \* _states: the condition kept for every key
    workSession,     \* _work_session_id
    lastObservedAt   \* _last_observed_at

engineVars == <<conditions, workSession, lastObservedAt>>

Times == 0..MaxTime
NoTime == -1
Severities == {"none", "warning", "critical"}   \* "none": no active alert

-----------------------------------------------------------------------------
\* _ConditionState.  A key the engine has never met has the fresh record; an
\* absent next_raise_allowed_at is NoTime, which no instant precedes.
Condition == [first : Times \cup {NoTime}, consecutive : Nat, clear : Nat,
              severity : Severities, notBefore : Nat \cup {NoTime}]

Fresh == [first |-> NoTime, consecutive |-> 0, clear |-> 0,
          severity |-> "none", notBefore |-> NoTime]

\* Operators named Bug... are mistakes this code does not make: each one stands
\* in for the definition after it when a property is shown to be able to fail.
BugReportsLevel(c, t) ==
    IF t - c.first >= CriticalAfter THEN "critical" ELSE "medium"

TemporalSeverity(c, t) ==
    IF t - c.first >= CriticalAfter THEN "critical" ELSE "warning"

BugNoCooldown(c, t) ==
    /\ c.consecutive >= MinimumConsecutive
    /\ t - c.first >= MinimumPersistence

CanRaise(c, t) ==
    /\ c.consecutive >= MinimumConsecutive
    /\ t - c.first >= MinimumPersistence
    /\ t >= c.notBefore

BugKeepsClear(c, t) ==
    [c EXCEPT !.first = IF c.first = NoTime THEN t ELSE c.first,
              !.consecutive = IF c.first = NoTime THEN 1
                              ELSE IF @ < MaxStreak THEN @ + 1 ELSE @]

\* The counters of a condition violated at t, before any alert is decided.
Counted(c, t) ==
    [c EXCEPT !.clear = 0,
              !.first = IF c.first = NoTime THEN t ELSE c.first,
              !.consecutive = IF c.first = NoTime THEN 1
                              ELSE IF @ < MaxStreak THEN @ + 1 ELSE @]

BugLowersSeverity(c, t) ==
    IF c.severity = "none" /\ ~CanRaise(c, t)
    THEN "none" ELSE TemporalSeverity(c, t)

\* The alert a counted condition holds at t: raised with the severity its
\* age gives it, and later escalated, never lowered.
SeverityAt(c, t) ==
    CASE c.severity = "none" /\ ~CanRaise(c, t) -> "none"
      [] c.severity = "critical"                -> "critical"
      [] OTHER                                  -> TemporalSeverity(c, t)

AfterViolation(c, t) ==
    LET counted == Counted(c, t)
    IN  [counted EXCEPT !.severity = SeverityAt(counted, t)]

Resolves(c) == c.severity # "none" /\ c.clear + 1 >= ResolutionConsecutive

BugKeepsFirst(c, t) ==
    [first |-> c.first,
     consecutive |-> 0,
     clear |-> IF c.severity = "none" \/ Resolves(c) THEN 0 ELSE c.clear + 1,
     severity |-> IF Resolves(c) THEN "none" ELSE c.severity,
     notBefore |-> IF Resolves(c) THEN t + Cooldown ELSE c.notBefore]

AfterClear(c, t) ==
    [first |-> NoTime,
     consecutive |-> 0,
     clear |-> IF c.severity = "none" \/ Resolves(c) THEN 0 ELSE c.clear + 1,
     severity |-> IF Resolves(c) THEN "none" ELSE c.severity,
     notBefore |-> IF Resolves(c) THEN t + Cooldown ELSE c.notBefore]

-----------------------------------------------------------------------------
\* What observe() checks before it changes anything; a ValueError otherwise.
Accepts(s, t) ==
    /\ t >= StartedAt[s]
    /\ lastObservedAt # NoTime => t >= lastObservedAt
    /\ workSession \in {NoSession, s}

Observe(s, violated, t) ==
    /\ Accepts(s, t)
    /\ workSession' = s
    /\ lastObservedAt' = t
    /\ conditions' = [k \in Keys |-> IF k \in violated
                                     THEN AfterViolation(conditions[k], t)
                                     ELSE AfterClear(conditions[k], t)]

Reset ==
    /\ conditions' = [k \in Keys |-> Fresh]
    /\ workSession' = NoSession
    /\ lastObservedAt' = NoTime

\* AlertEngineUpdate of the last step, and the active alerts it leaves.
Raised    == {k \in Keys : conditions[k].severity = "none"
                           /\ conditions'[k].severity # "none"}
Resolved  == {k \in Keys : conditions[k].severity # "none"
                           /\ conditions'[k].severity = "none"}
Escalated == {k \in Keys : conditions[k].severity = "warning"
                           /\ conditions'[k].severity = "critical"}
ActiveAlerts == {k \in Keys : conditions[k].severity # "none"}

Init ==
    /\ conditions = [k \in Keys |-> Fresh]
    /\ workSession = NoSession
    /\ lastObservedAt = NoTime

Next ==
    \/ \E s \in Sessions, violated \in SUBSET Keys, t \in Times :
          Observe(s, violated, t)
    \/ Reset

Spec == Init /\ [][Next]_engineVars

-----------------------------------------------------------------------------
TypeOK ==
    /\ conditions \in [Keys -> Condition]
    /\ workSession \in Sessions \cup {NoSession}
    /\ lastObservedAt \in Times \cup {NoTime}
=============================================================================
