-------------------------- MODULE AlertAuditProofs --------------------------
(***************************************************************************)
(* What the alert engine keeps for every set of keys and sessions and for  *)
(* every choice of its thresholds: its types; the lifecycle of an alert it *)
(* promises (AlertLifecycle); and that it raises, resolves and escalates an*)
(* alert exactly when the observations of the session call for it.         *)
(*                                                                         *)
(* The engine never looks back: it keeps four numbers per key.  The last   *)
(* three results rest on what each of them says about the whole log.       *)
(***************************************************************************)
EXTENDS AlertAudit, TLAPS

\* The times and counters of a condition stay in range through one violation.
LEMMA ViolationTyped ==
    ASSUME NEW c \in Condition, NEW t \in Times
    PROVE  AfterViolation(c, t) \in Condition
<1>1. Counted(c, t) \in Condition
  <2>1. c.first \in Times \cup {NoTime} /\ c.consecutive \in Nat
    BY DEF Condition
  <2>2. (IF c.first = NoTime THEN t ELSE c.first) \in Times \cup {NoTime}
    BY <2>1
  <2>3. (IF c.first = NoTime THEN 1
         ELSE IF c.consecutive < MaxStreak THEN c.consecutive + 1
         ELSE c.consecutive) \in Nat
    BY <2>1
  <2>. QED  BY <2>2, <2>3 DEF Counted, Condition
<1>2. SeverityAt(Counted(c, t), t) \in Severities
  BY <1>1 DEF SeverityAt, TemporalSeverity, Condition, Severities
<1>. QED  BY <1>1, <1>2 DEF AfterViolation, Condition

\* And through one observation without the violation.
LEMMA ClearTyped ==
    ASSUME NEW c \in Condition, NEW t \in Times
    PROVE  AfterClear(c, t) \in Condition
BY ParametersAssumption, BoundsAssumption
   DEF AfterClear, Resolves, Condition, Times, NoTime, Severities

LEMMA StepTyped == TypeOK /\ [Next]_engineVars => TypeOK'
<1>. SUFFICES ASSUME TypeOK, [Next]_engineVars PROVE TypeOK'
  OBVIOUS
<1>1. CASE \E s \in Sessions, violated \in SUBSET Keys, t \in Times :
              Observe(s, violated, t)
  <2>1. PICK s \in Sessions, violated \in SUBSET Keys, t \in Times :
              Observe(s, violated, t)
    BY <1>1
  <2>2. ASSUME NEW k \in Keys
        PROVE  (IF k \in violated THEN AfterViolation(conditions[k], t)
                                  ELSE AfterClear(conditions[k], t)) \in Condition
    BY <2>2, ViolationTyped, ClearTyped DEF TypeOK
  <2>3. conditions' \in [Keys -> Condition]
    BY <2>1, <2>2 DEF Observe
  <2>. QED  BY <2>1, <2>3 DEF Observe, TypeOK
<1>2. CASE Reset
  BY <1>2 DEF Reset, TypeOK, Condition, Fresh, NoTime, Severities
<1>3. CASE UNCHANGED engineVars
  BY <1>3 DEF engineVars, TypeOK
<1>. QED  BY <1>1, <1>2, <1>3 DEF Next

\* The state of the engine is well typed: in particular first_observed_at is an
\* instant of the clock or absent, whatever the order of violations, recoveries
\* and resets (observe, _raise_alert, reset).
THEOREM TypeCorrect == Spec => []TypeOK
<1>1. Init => TypeOK
  BY DEF Init, TypeOK, Condition, Fresh, NoTime, Severities
<1>. QED  BY <1>1, StepTyped, PTL DEF Spec

-----------------------------------------------------------------------------
LEMMA AuditRefinesSpec == AuditSpec => Spec
<1>1. AuditInit => Init
  BY DEF AuditInit
<1>2. [AuditNext]_auditVars => [Next]_engineVars
  BY DEF AuditNext, auditVars, engineVars, AuditedObserve, AuditedReset, Next
<1>. QED  BY <1>1, <1>2, PTL DEF AuditSpec, Spec

\* Type correctness of the engine under the audited specification.
THEOREM AuditTypeCorrect == AuditSpec => []TypeOK
BY AuditRefinesSpec, TypeCorrect, PTL

-----------------------------------------------------------------------------
\* One violation: kept, raised after the quiet period, or escalated.
LEMMA ViolationStep ==
    ASSUME NEW c \in Condition, NEW t \in Times
    PROVE  LET d == AfterViolation(c, t)
           IN  /\ d.notBefore = c.notBefore
               /\ \/ d.severity = c.severity
                  \/ /\ c.severity = "none" /\ t >= c.notBefore
                     /\ d.severity \in {"warning", "critical"}
                  \/ c.severity = "warning" /\ d.severity = "critical"
<1>. DEFINE counted == Counted(c, t)
<1>1. /\ counted.severity = c.severity /\ counted.notBefore = c.notBefore
      /\ AfterViolation(c, t).notBefore = counted.notBefore
      /\ AfterViolation(c, t).severity = SeverityAt(counted, t)
  BY DEF AfterViolation, Counted, Condition
<1>2. c.severity \in {"none", "warning", "critical"}
  BY DEF Condition, Severities
<1>3. TemporalSeverity(counted, t) \in {"warning", "critical"}
  BY DEF TemporalSeverity
<1>4. CASE c.severity = "none" /\ ~CanRaise(counted, t)
  BY <1>1, <1>4 DEF SeverityAt
<1>5. CASE c.severity = "none" /\ CanRaise(counted, t)
  <2>1. t >= c.notBefore
    BY <1>1, <1>5 DEF CanRaise
  <2>2. SeverityAt(counted, t) = TemporalSeverity(counted, t)
    BY <1>1, <1>5 DEF SeverityAt
  <2>. QED  BY <1>1, <1>3, <1>5, <2>1, <2>2
<1>6. CASE c.severity = "warning"
  <2>1. SeverityAt(counted, t) = TemporalSeverity(counted, t)
    BY <1>1, <1>6 DEF SeverityAt
  <2>. QED  BY <1>1, <1>3, <1>6, <2>1
<1>7. CASE c.severity = "critical"
  BY <1>1, <1>7 DEF SeverityAt
<1>. QED  BY <1>2, <1>4, <1>5, <1>6, <1>7

\* One observation without the violation: kept, or resolved with a cooldown.
LEMMA ClearStep ==
    ASSUME NEW c \in Condition, NEW t \in Times
    PROVE  LET d == AfterClear(c, t)
           IN  \/ d.severity = c.severity /\ d.notBefore = c.notBefore
               \/ /\ c.severity # "none" /\ d.severity = "none"
                  /\ d.notBefore = t + Cooldown
BY DEF AfterClear, Resolves

-----------------------------------------------------------------------------
LEMMA ObserveImplementsObservation ==
    ASSUME TypeOK, NEW s \in Sessions, NEW violated \in SUBSET Keys,
           NEW t \in Times, Observe(s, violated, t)
    PROVE  Lifecycle!Observation
<1>1. lastObservedAt' = t /\ t \in Int /\ t >= lastObservedAt
  BY BoundsAssumption DEF Observe, Accepts, TypeOK, Times, NoTime
<1>2. ASSUME NEW k \in Keys
      PROVE  \/ Lifecycle!Keep(k) \/ Lifecycle!Raise(k)
             \/ Lifecycle!Escalate(k) \/ Lifecycle!Resolve(k)
  <2>1. conditions[k] \in Condition
    BY <1>2 DEF TypeOK
  <2>2. CASE k \in violated
    <3>1. conditions'[k] = AfterViolation(conditions[k], t)
      BY <1>2, <2>2 DEF Observe
    <3>. QED  BY <1>1, <1>2, <2>1, <3>1, ViolationStep
              DEF Lifecycle!Keep, Lifecycle!Raise, Lifecycle!Escalate
  <2>3. CASE k \notin violated
    <3>1. conditions'[k] = AfterClear(conditions[k], t)
      BY <1>2, <2>3 DEF Observe
    <3>. QED  BY <1>1, <1>2, <2>1, <3>1, ClearStep
              DEF Lifecycle!Keep, Lifecycle!Resolve
  <2>. QED  BY <2>2, <2>3
<1>. QED  BY <1>1, <1>2 DEF Lifecycle!Observation

\* Every behaviour of the engine is one AlertLifecycle allows: a key is quiet,
\* raised, escalated at most once and resolved, never lowered and never raised
\* again during its cooldown (observe, reset).
THEOREM EngineImplementsLifecycle == AuditSpec => ImplementsLifecycle
<1>1. AuditInit => Lifecycle!Init
  BY DEF AuditInit, Init, Lifecycle!Init, Fresh
<1>2. TypeOK /\ [AuditNext]_auditVars => [Lifecycle!Next]_Lifecycle!lifecycleVars
  <2>. SUFFICES ASSUME TypeOK, [AuditNext]_auditVars
                PROVE  [Lifecycle!Next]_Lifecycle!lifecycleVars
    OBVIOUS
  <2>1. ASSUME NEW s \in Sessions, NEW violated \in SUBSET Keys,
               NEW t \in Times, AuditedObserve(s, violated, t)
        PROVE  Lifecycle!Next
    BY <2>1, ObserveImplementsObservation DEF AuditedObserve, Lifecycle!Next
  <2>2. CASE AuditedReset
    BY <2>2 DEF AuditedReset, Reset, Fresh, Lifecycle!Next, Lifecycle!EndSession
  <2>3. CASE UNCHANGED auditVars
    BY <2>3 DEF auditVars, Lifecycle!lifecycleVars
  <2>. QED  BY <2>1, <2>2, <2>3 DEF AuditNext
<1>. QED
  BY <1>1, <1>2, AuditTypeCorrect, PTL
  DEF AuditSpec, ImplementsLifecycle, Lifecycle!Spec

-----------------------------------------------------------------------------
(***************************************************************************)
(* The history of a key, as its condition sums it up.                      *)
(***************************************************************************)
Entry == [at : Times, violated : SUBSET Keys, raised : SUBSET Keys,
          resolved : SUBSET Keys, escalated : SUBSET Keys]

Chronicle ==
    /\ log \in Seq(Entry)
    /\ \A i, j \in 1..Len(log) : i <= j => log[i].at <= log[j].at
    /\ lastObservedAt = IF Len(log) = 0 THEN NoTime ELSE log[Len(log)].at

\* first and consecutive: the run of violations the last observation ends.
RunFrom(k, r) ==
    /\ ViolatedThroughout(k, r, Len(log))
    /\ r = 1 \/ k \notin log[r - 1].violated
    /\ conditions[k].first = log[r].at
    /\ IF Len(log) - r + 1 < MaxStreak
       THEN conditions[k].consecutive = Len(log) - r + 1
       ELSE conditions[k].consecutive = MaxStreak

RunIsCounted(k) ==
    /\ conditions[k].first = NoTime /\ Len(log) > 0 => k \notin log[Len(log)].violated
    /\ conditions[k].first # NoTime => \E r \in 1..Len(log) : RunFrom(k, r)

\* clear: the observations since the last violation of an active alert.
ClearIsCounted(k) ==
    conditions[k].severity # "none" =>
        /\ conditions[k].clear < Len(log) /\ conditions[k].clear < ResolutionConsecutive
        /\ ClearThroughout(k, Len(log) - conditions[k].clear + 1, Len(log))
        /\ k \in log[Len(log) - conditions[k].clear].violated

\* severity: raised and not resolved since.
ActiveIsLogged(k) == conditions[k].severity # "none" <=> ActiveBefore(k, Len(log) + 1)

\* notBefore: the end of the last cooldown.
CooldownIsLogged(k) ==
    /\ \A i \in 1..Len(log) :
          k \in log[i].resolved => log[i].at + Cooldown <= conditions[k].notBefore
    /\ conditions[k].notBefore # NoTime =>
          \E i \in 1..Len(log) : /\ k \in log[i].resolved
                                 /\ conditions[k].notBefore = log[i].at + Cooldown

KeyInv(k) == RunIsCounted(k) /\ ClearIsCounted(k) /\ ActiveIsLogged(k) /\ CooldownIsLogged(k)

AuditInv ==
    /\ TypeOK /\ Chronicle
    /\ \A k \in Keys : KeyInv(k)
    /\ RaisedExactlyWhenDue /\ ResolvedExactlyWhenRecovered /\ CriticalExactlyWhenOld

-----------------------------------------------------------------------------
\* One more entry: what it says, and that the others stay.
LEMMA EntryLogged ==
    ASSUME TypeOK, Chronicle, NEW s \in Sessions, NEW violated \in SUBSET Keys,
           NEW t \in Times, AuditedObserve(s, violated, t)
    PROVE  /\ Len(log) \in Nat /\ Len(log') = Len(log) + 1
           /\ \A i \in 1..Len(log) : log'[i] = log[i] /\ log[i] \in Entry
           /\ log'[Len(log) + 1] =
                 [at |-> t, violated |-> violated, raised |-> Raised,
                  resolved |-> Resolved, escalated |-> Escalated]
           /\ \A i \in 1..Len(log) : log[i].at <= t
<1>. DEFINE e == [at |-> t, violated |-> violated, raised |-> Raised,
                  resolved |-> Resolved, escalated |-> Escalated]
<1>1. log \in Seq(Entry) /\ log' = Append(log, e)
  BY DEF Chronicle, AuditedObserve
<1>2. e \in Entry
  BY DEF Entry, Raised, Resolved, Escalated
<1>3. Len(log) \in Nat /\ Len(log') = Len(log) + 1 /\ log'[Len(log) + 1] = e
  BY <1>1, <1>2
<1>4. \A i \in 1..Len(log) : log'[i] = log[i] /\ log[i] \in Entry
  BY <1>1, <1>2
<1>5. ASSUME NEW i \in 1..Len(log) PROVE log[i].at <= t
  <2>1. Len(log) # 0 /\ Len(log) \in 1..Len(log)
    BY <1>3, <1>5
  <2>2. lastObservedAt = log[Len(log)].at /\ log[i].at <= log[Len(log)].at
    BY <1>3, <1>5, <2>1 DEF Chronicle
  <2>3. log[i].at \in Times /\ log[Len(log)].at \in Times
    BY <1>4, <1>5, <2>1 DEF Entry
  <2>4. t >= log[Len(log)].at
    BY <2>2, <2>3 DEF AuditedObserve, Observe, Accepts, NoTime, Times
  <2>. QED  BY <2>2, <2>3, <2>4, BoundsAssumption DEF Times
<1>. QED  BY <1>3, <1>4, <1>5

LEMMA ChronicleKept ==
    ASSUME TypeOK, Chronicle, NEW s \in Sessions, NEW violated \in SUBSET Keys,
           NEW t \in Times, AuditedObserve(s, violated, t)
    PROVE  Chronicle'
<1>1. log' \in Seq(Entry)
  <2>1. [at |-> t, violated |-> violated, raised |-> Raised,
         resolved |-> Resolved, escalated |-> Escalated] \in Entry
    BY DEF Entry, Raised, Resolved, Escalated
  <2>. QED  BY <2>1 DEF Chronicle, AuditedObserve
<1>2. /\ Len(log) \in Nat /\ Len(log') = Len(log) + 1 /\ log'[Len(log) + 1].at = t
      /\ \A i \in 1..Len(log) : log'[i] = log[i] /\ log[i].at <= t
  <2>1. log'[Len(log) + 1].at = t
    <3>1. log'[Len(log) + 1] =
             [at |-> t, violated |-> violated, raised |-> Raised,
              resolved |-> Resolved, escalated |-> Escalated]
      BY EntryLogged
    <3>. QED  BY <3>1
  <2>. QED  BY <2>1, EntryLogged
<1>3. ASSUME NEW i \in 1..Len(log'), NEW j \in 1..Len(log'), i <= j
      PROVE  log'[i].at <= log'[j].at
  <2>1. t <= t
    BY BoundsAssumption DEF Times
  <2>2. CASE j = Len(log) + 1
    <3>1. i \in 1..Len(log) \/ i = Len(log) + 1
      BY <1>2
    <3>. QED  BY <1>2, <2>1, <2>2, <3>1
  <2>3. CASE j # Len(log) + 1
    <3>1. i \in 1..Len(log) /\ j \in 1..Len(log)
      BY <1>2, <1>3, <2>3
    <3>. QED  BY <1>2, <1>3, <3>1 DEF Chronicle
  <2>. QED  BY <2>2, <2>3
<1>4. lastObservedAt' = IF Len(log') = 0 THEN NoTime ELSE log'[Len(log')].at
  BY <1>2 DEF AuditedObserve, Observe
<1>. QED  BY <1>1, <1>3, <1>4 DEF Chronicle

\* What the reference definitions say of an observation never changes.
LEMMA PastIsKept ==
    ASSUME TypeOK, Chronicle, NEW s \in Sessions, NEW violated \in SUBSET Keys,
           NEW t \in Times, AuditedObserve(s, violated, t), NEW k \in Keys,
           NEW j \in 1..Len(log)
    PROVE  /\ Persistent(k, j)' <=> Persistent(k, j)
           /\ Critical(k, j)' <=> Critical(k, j)
           /\ Recovered(k, j)' <=> Recovered(k, j)
           /\ ActiveBefore(k, j)' <=> ActiveBefore(k, j)
           /\ CoolingDown(k, j)' <=> CoolingDown(k, j)
<1>1. /\ Len(log) \in Nat
      /\ \A i \in 1..Len(log) : log'[i] = log[i]
  BY EntryLogged
<1>2. ASSUME NEW i \in 1..j
      PROVE  /\ i \in 1..Len(log)
             /\ ViolatedThroughout(k, i, j)' <=> ViolatedThroughout(k, i, j)
  BY <1>1, <1>2 DEF ViolatedThroughout
<1>3. Persistent(k, j)' <=> Persistent(k, j)
  BY <1>1, <1>2 DEF Persistent
<1>4. Critical(k, j)' <=> Critical(k, j)
  BY <1>1, <1>2 DEF Critical
<1>5. Recovered(k, j)' <=> Recovered(k, j)
  <2>1. CASE j >= ResolutionConsecutive
    BY <1>1, <2>1, ParametersAssumption DEF Recovered, ClearThroughout
  <2>2. CASE ~(j >= ResolutionConsecutive)
    BY <2>2 DEF Recovered
  <2>. QED  BY <2>1, <2>2
<1>6. ActiveBefore(k, j)' <=> ActiveBefore(k, j)
  BY <1>1 DEF ActiveBefore, RaisedAt
<1>7. CoolingDown(k, j)' <=> CoolingDown(k, j)
  BY <1>1 DEF CoolingDown
<1>. QED  BY <1>3, <1>4, <1>5, <1>6, <1>7

\* The new condition of a key, and what the new entry says of it.
LEMMA KeyLogged ==
    ASSUME TypeOK, Chronicle, NEW s \in Sessions, NEW violated \in SUBSET Keys,
           NEW t \in Times, AuditedObserve(s, violated, t), NEW k \in Keys
    PROVE  LET new == log'[Len(log) + 1]
           IN  /\ new.at = t
               /\ k \in new.violated <=> k \in violated
               /\ k \in new.raised <=> /\ conditions[k].severity = "none"
                                       /\ conditions'[k].severity # "none"
               /\ k \in new.resolved <=> /\ conditions[k].severity # "none"
                                         /\ conditions'[k].severity = "none"
               /\ conditions'[k] = IF k \in violated
                                   THEN AfterViolation(conditions[k], t)
                                   ELSE AfterClear(conditions[k], t)
<1>1. log'[Len(log) + 1] =
         [at |-> t, violated |-> violated, raised |-> Raised,
          resolved |-> Resolved, escalated |-> Escalated]
  BY EntryLogged
<1>2. conditions'[k] = IF k \in violated THEN AfterViolation(conditions[k], t)
                                         ELSE AfterClear(conditions[k], t)
  BY DEF AuditedObserve, Observe
<1>. QED  BY <1>1, <1>2 DEF Raised, Resolved

LEMMA RunKept ==
    ASSUME TypeOK, Chronicle, NEW s \in Sessions, NEW violated \in SUBSET Keys,
           NEW t \in Times, AuditedObserve(s, violated, t), NEW k \in Keys,
           RunIsCounted(k)
    PROVE  RunIsCounted(k)'
<1>0. PICK n : n = Len(log)
  OBVIOUS
<1>. DEFINE c == conditions[k]
            d == conditions'[k]
<1>1. /\ n \in Nat /\ Len(log') = n + 1
      /\ \A i \in 1..n : log'[i] = log[i] /\ log[i] \in Entry
  BY <1>0, EntryLogged
<1>2. /\ log'[n + 1].at = t /\ (k \in log'[n + 1].violated <=> k \in violated)
      /\ d = IF k \in violated THEN AfterViolation(c, t) ELSE AfterClear(c, t)
  BY <1>0, KeyLogged
<1>3. MaxStreak \in Nat /\ MaxStreak >= 1
  BY ParametersAssumption, BoundsAssumption
<1>4. CASE k \notin violated
  <2>1. d.first = NoTime
    BY <1>2, <1>4 DEF AfterClear
  <2>. QED  BY <1>1, <1>2, <1>4, <2>1 DEF RunIsCounted
<1>5. CASE k \in violated
  <2>1. c \in Condition
    BY DEF TypeOK
  <2>2. /\ d.first = IF c.first = NoTime THEN t ELSE c.first
        /\ d.consecutive = IF c.first = NoTime THEN 1
                           ELSE IF c.consecutive < MaxStreak
                                THEN c.consecutive + 1 ELSE c.consecutive
    BY <1>2, <1>5, <2>1 DEF AfterViolation, Counted, Condition
  <2>3. CASE c.first = NoTime
    <3>1. n > 0 => k \notin log[n].violated
      BY <1>0, <2>3 DEF RunIsCounted
    <3>2. n + 1 = 1 \/ k \notin log'[n].violated
      BY <1>1, <3>1
    <3>3. RunFrom(k, n + 1)'
      BY <1>1, <1>2, <1>3, <1>5, <2>2, <2>3, <3>2 DEF RunFrom, ViolatedThroughout
    <3>4. d.first # NoTime
      BY <2>2, <2>3, BoundsAssumption DEF Times, NoTime
    <3>. QED  BY <1>1, <3>3, <3>4 DEF RunIsCounted
  <2>4. CASE c.first # NoTime
    <3>1. PICK r \in 1..n : RunFrom(k, r)
      BY <1>0, <2>4 DEF RunIsCounted
    <3>2. ViolatedThroughout(k, r, n + 1)'
      BY <1>0, <1>1, <1>2, <1>5, <3>1 DEF RunFrom, ViolatedThroughout
    <3>3. r = 1 \/ k \notin log'[r - 1].violated
      BY <1>0, <1>1, <3>1 DEF RunFrom
    <3>4. d.first = log'[r].at
      BY <1>1, <2>2, <2>4, <3>1 DEF RunFrom
    <3>5. IF n + 1 - r + 1 < MaxStreak
          THEN d.consecutive = n + 1 - r + 1 ELSE d.consecutive = MaxStreak
      <4>1. IF n - r + 1 < MaxStreak
            THEN c.consecutive = n - r + 1 ELSE c.consecutive = MaxStreak
        BY <1>0, <3>1 DEF RunFrom
      <4>2. d.consecutive = IF c.consecutive < MaxStreak
                            THEN c.consecutive + 1 ELSE c.consecutive
        BY <2>2, <2>4
      <4>. QED  BY <1>1, <1>3, <4>1, <4>2
    <3>6. RunFrom(k, r)'
      BY <1>1, <3>2, <3>3, <3>4, <3>5 DEF RunFrom
    <3>. QED  BY <1>1, <2>2, <2>4, <3>6 DEF RunIsCounted
  <2>. QED  BY <2>3, <2>4
<1>. QED  BY <1>4, <1>5

LEMMA ClearKept ==
    ASSUME TypeOK, Chronicle, NEW s \in Sessions, NEW violated \in SUBSET Keys,
           NEW t \in Times, AuditedObserve(s, violated, t), NEW k \in Keys,
           ClearIsCounted(k)
    PROVE  ClearIsCounted(k)'
<1>0. PICK n : n = Len(log)
  OBVIOUS
<1>. DEFINE c == conditions[k]
            d == conditions'[k]
<1>1. n \in Nat /\ Len(log') = n + 1 /\ \A i \in 1..n : log'[i] = log[i]
  BY <1>0, EntryLogged
<1>2. /\ (k \in log'[n + 1].violated <=> k \in violated)
      /\ d = IF k \in violated THEN AfterViolation(c, t) ELSE AfterClear(c, t)
  BY <1>0, KeyLogged
<1>3. c \in Condition /\ c.clear \in Nat
  BY DEF TypeOK, Condition
<1>4. CASE k \in violated
  <2>1. d.clear = 0
    BY <1>2, <1>3, <1>4 DEF AfterViolation, Counted, Condition
  <2>. QED  BY <1>1, <1>2, <1>4, <2>1, ParametersAssumption
            DEF ClearIsCounted, ClearThroughout
<1>5. CASE k \notin violated /\ d.severity # "none"
  <2>1. /\ c.severity # "none" /\ d.clear = c.clear + 1
        /\ ~(c.clear + 1 >= ResolutionConsecutive)
    BY <1>2, <1>5 DEF AfterClear, Resolves
  <2>2. /\ c.clear < n
        /\ \A i \in (n - c.clear + 1)..n : k \notin log[i].violated
        /\ k \in log[n - c.clear].violated
    BY <1>0, <2>1 DEF ClearIsCounted, ClearThroughout
  <2>3. n - c.clear \in 1..n /\ k \in log'[n - c.clear].violated
    BY <1>1, <1>3, <2>2
  <2>4. ASSUME NEW i \in (n - c.clear + 1)..(n + 1) PROVE k \notin log'[i].violated
    <3>1. CASE i = n + 1
      BY <1>2, <1>5, <3>1
    <3>2. CASE i # n + 1
      <4>1. i \in (n - c.clear + 1)..n /\ i \in 1..n
        BY <1>1, <1>3, <2>2, <3>2
      <4>. QED  BY <1>1, <2>2, <4>1
    <3>. QED  BY <3>1, <3>2
  <2>5. /\ d.clear < n + 1 /\ d.clear < ResolutionConsecutive
        /\ n + 1 - d.clear = n - c.clear
    <3>. DEFINE clear == c.clear
    <3>1. clear \in Nat /\ d.clear = clear + 1 /\ clear < n /\ ~(clear + 1 >= ResolutionConsecutive)
      BY <1>3, <2>1, <2>2
    <3>. HIDE DEF clear
    <3>2. c.clear = clear
      BY DEF clear
    <3>. QED  BY <1>1, <3>1, <3>2, ParametersAssumption
  <2>6. d.clear \in Nat
    BY <1>3, <2>1
  <2>7. Len(log') - d.clear + 1 = n - c.clear + 1 /\ Len(log') - d.clear = n - c.clear
    BY <1>1, <1>3, <2>5, <2>6
  <2>8. ClearThroughout(k, Len(log) - conditions[k].clear + 1, Len(log))'
    BY <1>1, <2>4, <2>7 DEF ClearThroughout
  <2>. QED  BY <1>1, <2>3, <2>5, <2>7, <2>8 DEF ClearIsCounted
<1>6. CASE d.severity = "none"
  BY <1>6 DEF ClearIsCounted
<1>. QED  BY <1>4, <1>5, <1>6

LEMMA ActiveKept ==
    ASSUME TypeOK, Chronicle, NEW s \in Sessions, NEW violated \in SUBSET Keys,
           NEW t \in Times, AuditedObserve(s, violated, t), NEW k \in Keys,
           ActiveIsLogged(k)
    PROVE  /\ ActiveIsLogged(k)'
           /\ ActiveBefore(k, Len(log))' <=> conditions[k].severity # "none"
<1>0. PICK n : n = Len(log)
  OBVIOUS
<1>. DEFINE new == log'[n + 1]
            before == conditions[k].severity # "none"
            after == conditions'[k].severity # "none"
<1>1. /\ n \in Nat /\ Len(log') = n + 1
      /\ \A i \in 1..n : log'[i] = log[i]
  BY <1>0, EntryLogged
<1>2. (k \in new.raised <=> ~before /\ after) /\ (k \in new.resolved <=> before /\ ~after)
  BY <1>0, KeyLogged
<1>3. before <=> ActiveBefore(k, n + 1)
  BY <1>0 DEF ActiveIsLogged
<1>4. ActiveBefore(k, n + 1)' <=> ActiveBefore(k, n + 1)
  BY <1>1 DEF ActiveBefore, RaisedAt
<1>5. ActiveBefore(k, n + 2)' <=> \/ k \in new.raised
                                  \/ ActiveBefore(k, n + 1)' /\ k \notin new.resolved
  <2>1. n + 2 - 1 = n + 1 /\ n + 1 - 1 = n
    BY <1>1
  <2>2. ASSUME NEW i \in 1..n
        PROVE  RaisedAt(k, i, n + 2)' <=> RaisedAt(k, i, n + 1)' /\ k \notin new.resolved
    <3>1. \A m : m \in (i + 1)..(n + 1) <=> m \in (i + 1)..n \/ m = n + 1
      BY <1>1
    <3>2. RaisedAt(k, i, n + 2)' <=> /\ k \in log'[i].raised
                                     /\ \A m \in (i + 1)..(n + 1) : k \notin log'[m].resolved
      BY <1>1, <2>1 DEF RaisedAt
    <3>3. RaisedAt(k, i, n + 1)' <=> /\ k \in log'[i].raised
                                     /\ \A m \in (i + 1)..n : k \notin log'[m].resolved
      BY <1>1, <2>1 DEF RaisedAt
    <3>. QED  BY <3>1, <3>2, <3>3
  <2>3. RaisedAt(k, n + 1, n + 2)' <=> k \in new.raised
    BY <1>1 DEF RaisedAt
  <2>4. ActiveBefore(k, n + 2)' <=> \E i \in 1..(n + 1) : RaisedAt(k, i, n + 2)'
    BY <1>1, <2>1 DEF ActiveBefore
  <2>5. ActiveBefore(k, n + 1)' <=> \E i \in 1..n : RaisedAt(k, i, n + 1)'
    BY <1>1, <2>1 DEF ActiveBefore
  <2>6. \A m : m \in 1..(n + 1) <=> m \in 1..n \/ m = n + 1
    BY <1>1
  <2>. QED  BY <2>2, <2>3, <2>4, <2>5, <2>6
<1>6. Len(log') + 1 = n + 2
  BY <1>1
<1>7. ActiveIsLogged(k)' <=> (after <=> ActiveBefore(k, n + 2)')
  BY <1>6 DEF ActiveIsLogged
<1>. QED  BY <1>1, <1>2, <1>3, <1>4, <1>5, <1>7

LEMMA CooldownKept ==
    ASSUME TypeOK, Chronicle, NEW s \in Sessions, NEW violated \in SUBSET Keys,
           NEW t \in Times, AuditedObserve(s, violated, t), NEW k \in Keys,
           CooldownIsLogged(k)
    PROVE  /\ CooldownIsLogged(k)'
           /\ CoolingDown(k, Len(log))' <=> t < conditions[k].notBefore
<1>0. PICK n : n = Len(log)
  OBVIOUS
<1>. DEFINE c == conditions[k]
            d == conditions'[k]
            new == log'[n + 1]
<1>1. /\ n \in Nat /\ Len(log') = n + 1
      /\ \A i \in 1..n : log'[i] = log[i] /\ log[i] \in Entry /\ log[i].at <= t
  BY <1>0, EntryLogged
<1>2. /\ new.at = t
      /\ (k \in new.resolved <=> c.severity # "none" /\ d.severity = "none")
      /\ d = IF k \in violated THEN AfterViolation(c, t) ELSE AfterClear(c, t)
  BY <1>0, KeyLogged
<1>3. /\ c \in Condition /\ c.notBefore \in Nat \cup {NoTime} /\ Cooldown \in Nat
      /\ t \in Nat /\ \A i \in 1..n : log[i].at \in Nat
  BY <1>1, ParametersAssumption, BoundsAssumption DEF TypeOK, Condition, Entry, Times
<1>4. /\ k \in new.resolved => d.notBefore = t + Cooldown
      /\ k \notin new.resolved => d.notBefore = c.notBefore
  <2>1. CASE k \in violated
    <3>1. d = AfterViolation(c, t)
      BY <1>2, <2>1
    <3>2. d.notBefore = c.notBefore /\ (c.severity # "none" => d.severity # "none")
      BY <1>3, <3>1, ViolationStep
    <3>. QED  BY <1>2, <3>2
  <2>2. CASE k \notin violated
    <3>1. d = AfterClear(c, t)
      BY <1>2, <2>2
    <3>. QED  BY <1>2, <3>1 DEF AfterClear, Resolves
  <2>. QED  BY <2>1, <2>2
<1>5. /\ \A i \in 1..n : k \in log[i].resolved => log[i].at + Cooldown <= c.notBefore
      /\ c.notBefore # NoTime =>
            \E i \in 1..n : k \in log[i].resolved /\ c.notBefore = log[i].at + Cooldown
  BY <1>0 DEF CooldownIsLogged
<1>6. \A i \in 1..(n + 1) : k \in log'[i].resolved => log'[i].at + Cooldown <= d.notBefore
  <2>. SUFFICES ASSUME NEW i \in 1..(n + 1), k \in log'[i].resolved
                PROVE  log'[i].at + Cooldown <= d.notBefore
    OBVIOUS
  <2>1. CASE i = n + 1
    BY <1>2, <1>3, <1>4, <2>1
  <2>2. CASE i # n + 1
    <3>1. i \in 1..n
      BY <1>1, <2>2
    <3>. QED  BY <1>1, <1>3, <1>4, <1>5, <3>1
  <2>. QED  BY <2>1, <2>2
<1>7. d.notBefore # NoTime =>
         \E i \in 1..(n + 1) : k \in log'[i].resolved /\ d.notBefore = log'[i].at + Cooldown
  <2>1. CASE k \in new.resolved
    BY <1>1, <1>2, <1>4, <2>1
  <2>2. CASE k \notin new.resolved
    BY <1>1, <1>4, <1>5, <2>2
  <2>. QED  BY <2>1, <2>2
<1>8. CooldownIsLogged(k)'
  BY <1>1, <1>6, <1>7 DEF CooldownIsLogged
<1>9. CoolingDown(k, n + 1)' <=> \E i \in 1..n : k \in log[i].resolved /\ t < log[i].at + Cooldown
  BY <1>1, <1>2 DEF CoolingDown
<1>10. ASSUME t < c.notBefore
       PROVE  \E i \in 1..n : k \in log[i].resolved /\ t < log[i].at + Cooldown
  BY <1>3, <1>5, <1>10 DEF NoTime
<1>11. ASSUME NEW i \in 1..n, k \in log[i].resolved, t < log[i].at + Cooldown
       PROVE  t < c.notBefore
  <2>1. log[i].at + Cooldown <= c.notBefore
    BY <1>5, <1>11
  <2>. QED  BY <1>3, <1>11, <2>1 DEF NoTime
<1>. QED  BY <1>1, <1>8, <1>9, <1>10, <1>11

-----------------------------------------------------------------------------
\* The run that first and consecutive describe decides what the log decides:
\* it is the longest that the last observation ends.
LEMMA RunDecides ==
    TypeOK /\ Chronicle /\ Len(log) > 0 =>
        \A k \in Keys : RunIsCounted(k) =>
            /\ Persistent(k, Len(log)) <=>
                  /\ conditions[k].first # NoTime
                  /\ conditions[k].consecutive >= MinimumConsecutive
                  /\ lastObservedAt - conditions[k].first >= MinimumPersistence
            /\ Critical(k, Len(log)) <=>
                  /\ conditions[k].first # NoTime
                  /\ lastObservedAt - conditions[k].first >= CriticalAfter
<1>. SUFFICES ASSUME TypeOK, Chronicle, Len(log) > 0, NEW k \in Keys, RunIsCounted(k)
              PROVE  /\ Persistent(k, Len(log)) <=>
                           /\ conditions[k].first # NoTime
                           /\ conditions[k].consecutive >= MinimumConsecutive
                           /\ lastObservedAt - conditions[k].first >= MinimumPersistence
                     /\ Critical(k, Len(log)) <=>
                           /\ conditions[k].first # NoTime
                           /\ lastObservedAt - conditions[k].first >= CriticalAfter
  OBVIOUS
<1>. DEFINE n == Len(log)
            c == conditions[k]
<1>1. /\ n \in Nat /\ n \in 1..n /\ lastObservedAt = log[n].at
      /\ \A i, j \in 1..n : i <= j => log[i].at <= log[j].at
  BY DEF Chronicle
<1>2. \A i \in 1..n : log[i].at \in Nat
  <2>1. \A i \in 1..n : log[i] \in Entry
    BY DEF Chronicle
  <2>. QED  BY <2>1, BoundsAssumption DEF Entry, Times
<1>3. /\ MinimumConsecutive \in Nat /\ MinimumConsecutive > 0 /\ MaxStreak \in Nat
      /\ MaxStreak >= MinimumConsecutive
      /\ MinimumPersistence \in Nat /\ CriticalAfter \in Nat
  BY ParametersAssumption, BoundsAssumption
<1>4. CASE c.first = NoTime
  <2>1. k \notin log[n].violated
    BY <1>1, <1>4 DEF RunIsCounted
  <2>2. \A i \in 1..n : ~ViolatedThroughout(k, i, n)
    BY <1>1, <2>1 DEF ViolatedThroughout
  <2>. QED  BY <1>4, <2>2 DEF Persistent, Critical
<1>5. CASE c.first # NoTime
  <2>1. PICK r \in 1..n : RunFrom(k, r)
    BY <1>5 DEF RunIsCounted
  <2>2. /\ ViolatedThroughout(k, r, n) /\ c.first = log[r].at
        /\ IF n - r + 1 < MaxStreak THEN c.consecutive = n - r + 1
                                    ELSE c.consecutive = MaxStreak
    BY <2>1 DEF RunFrom
  <2>3. ASSUME NEW i \in 1..n, ViolatedThroughout(k, i, n)
        PROVE  r <= i
    <3>1. r = 1 \/ k \notin log[r - 1].violated
      BY <2>1 DEF RunFrom
    <3>. QED  BY <1>1, <2>3, <3>1 DEF ViolatedThroughout
  <2>4. c.consecutive >= MinimumConsecutive <=> n - r + 1 >= MinimumConsecutive
    BY <1>1, <1>3, <2>2
  <2>5. ASSUME NEW i \in 1..n, ViolatedThroughout(k, i, n)
        PROVE  /\ n - i + 1 >= MinimumConsecutive => n - r + 1 >= MinimumConsecutive
               /\ log[r].at <= log[i].at
    BY <1>1, <1>3, <2>3, <2>5
  <2>6. ASSUME NEW d \in Nat
        PROVE  /\ log[n].at - log[r].at >= d <=>
                     \E i \in 1..n : ViolatedThroughout(k, i, n) /\ log[n].at - log[i].at >= d
               /\ \A i \in 1..n : /\ ViolatedThroughout(k, i, n)
                                  /\ log[n].at - log[i].at >= d
                                  => log[n].at - log[r].at >= d
    BY <1>1, <1>2, <2>2, <2>5
  <2>7. Persistent(k, n) <=> /\ n - r + 1 >= MinimumConsecutive
                             /\ log[n].at - log[r].at >= MinimumPersistence
    <3>1. ASSUME Persistent(k, n)
          PROVE  /\ n - r + 1 >= MinimumConsecutive
                 /\ log[n].at - log[r].at >= MinimumPersistence
      <4>1. PICK i \in 1..n : /\ ViolatedThroughout(k, i, n)
                              /\ n - i + 1 >= MinimumConsecutive
                              /\ log[n].at - log[i].at >= MinimumPersistence
        BY <3>1 DEF Persistent
      <4>. QED  BY <1>3, <2>5, <2>6, <4>1
    <3>. QED  BY <2>2, <3>1 DEF Persistent
  <2>8. Critical(k, n) <=> log[n].at - log[r].at >= CriticalAfter
    BY <1>3, <2>6 DEF Critical
  <2>. QED  BY <1>1, <1>5, <2>2, <2>4, <2>7, <2>8
<1>. QED  BY <1>4, <1>5

LEMMA NextRunDecides ==
    (TypeOK /\ Chronicle /\ Len(log) > 0 =>
        \A k \in Keys : RunIsCounted(k) =>
            /\ Persistent(k, Len(log)) <=>
                  /\ conditions[k].first # NoTime
                  /\ conditions[k].consecutive >= MinimumConsecutive
                  /\ lastObservedAt - conditions[k].first >= MinimumPersistence
            /\ Critical(k, Len(log)) <=>
                  /\ conditions[k].first # NoTime
                  /\ lastObservedAt - conditions[k].first >= CriticalAfter)'
BY RunDecides, PTL

LEMMA TypeKept ==
    TypeOK /\ [AuditNext]_auditVars => TypeOK'
<1>1. [AuditNext]_auditVars => [Next]_engineVars
  BY DEF AuditNext, auditVars, engineVars, AuditedObserve, AuditedReset, Next
<1>. QED  BY <1>1, StepTyped

\* The decisions of an observation, in the terms of the log it completes.
LEMMA ObservationDecides ==
    ASSUME AuditInv, NEW s \in Sessions, NEW violated \in SUBSET Keys,
           NEW t \in Times, AuditedObserve(s, violated, t), NEW k \in Keys
    PROVE  LET c == conditions[k]
               d == conditions'[k]
           IN  /\ k \in log'[Len(log')].raised <=>
                     c.severity = "none" /\ Persistent(k, Len(log))' /\ t >= c.notBefore
               /\ k \in log'[Len(log')].resolved <=> c.severity # "none" /\ Recovered(k, Len(log))'
               /\ d.severity # "none" =>
                     (d.severity = "critical" <=> c.severity = "critical" \/ Critical(k, Len(log))')
<1>. DEFINE c == conditions[k]
            d == conditions'[k]
<1>1. TypeOK /\ Chronicle /\ KeyInv(k)
  BY DEF AuditInv
<1>2. TypeOK'
  BY <1>1, TypeKept DEF AuditNext
<1>3. Chronicle' /\ RunIsCounted(k)'
  BY <1>1, ChronicleKept, RunKept DEF KeyInv
<1>0. PICK n : n = Len(log)
  OBVIOUS
<1>4. /\ n \in Nat /\ Len(log') = n + 1 /\ \A i \in 1..n : log'[i] = log[i]
  BY <1>0, <1>1, EntryLogged
<1>5. LET new == log'[n + 1]
      IN  /\ k \in new.violated <=> k \in violated
          /\ k \in new.raised <=> c.severity = "none" /\ d.severity # "none"
          /\ k \in new.resolved <=> c.severity # "none" /\ d.severity = "none"
          /\ d = IF k \in violated THEN AfterViolation(c, t) ELSE AfterClear(c, t)
  BY <1>0, <1>1, KeyLogged
<1>6. c \in Condition /\ lastObservedAt' = t /\ t \in Nat
  BY <1>1, BoundsAssumption DEF TypeOK, AuditedObserve, Observe, Times
<1>7. /\ Persistent(k, Len(log))' <=> /\ d.first # NoTime
                                      /\ d.consecutive >= MinimumConsecutive
                                      /\ t - d.first >= MinimumPersistence
      /\ Critical(k, Len(log))' <=> d.first # NoTime /\ t - d.first >= CriticalAfter
  BY <1>2, <1>3, <1>4, <1>6, NextRunDecides
<1>8. CASE k \in violated
  <2>. DEFINE counted == Counted(c, t)
  <2>1. /\ d.first = counted.first /\ d.consecutive = counted.consecutive
        /\ d.severity = SeverityAt(counted, t)
        /\ counted.severity = c.severity /\ counted.notBefore = c.notBefore
        /\ counted.first = IF c.first = NoTime THEN t ELSE c.first
    BY <1>5, <1>6, <1>8 DEF AfterViolation, Counted, Condition
  <2>2. d.first # NoTime
    BY <1>6, <2>1 DEF NoTime
  <2>3. CanRaise(counted, t) <=> Persistent(k, Len(log))' /\ t >= c.notBefore
    BY <1>7, <2>1, <2>2 DEF CanRaise
  <2>4. TemporalSeverity(counted, t) = IF Critical(k, Len(log))' THEN "critical" ELSE "warning"
    BY <1>7, <2>1, <2>2 DEF TemporalSeverity
  <2>5. c.severity \in {"none", "warning", "critical"}
    BY <1>6 DEF Condition, Severities
  <2>6. k \in log'[n + 1].raised <=>
           c.severity = "none" /\ Persistent(k, Len(log))' /\ t >= c.notBefore
    <3>1. CASE c.severity # "none"
      BY <1>5, <3>1
    <3>2. CASE c.severity = "none"
      <4>1. d.severity # "none" <=> CanRaise(counted, t)
        <5>1. CASE CanRaise(counted, t)
          BY <2>1, <2>4, <3>2, <5>1 DEF SeverityAt
        <5>2. CASE ~CanRaise(counted, t)
          BY <2>1, <3>2, <5>2 DEF SeverityAt
        <5>. QED  BY <5>1, <5>2
      <4>. QED  BY <1>5, <2>3, <3>2, <4>1
    <3>. QED  BY <3>1, <3>2
  <2>7. c.severity # "none" => d.severity # "none"
    <3>1. CASE c.severity = "critical"
      BY <2>1, <3>1 DEF SeverityAt
    <3>2. CASE c.severity = "warning"
      BY <2>1, <2>4, <3>2 DEF SeverityAt
    <3>. QED  BY <2>5, <3>1, <3>2
  <2>8. ~Recovered(k, Len(log))'
    BY <1>4, <1>5, <1>8, ParametersAssumption DEF Recovered, ClearThroughout
  <2>9. d.severity # "none" =>
           (d.severity = "critical" <=> c.severity = "critical" \/ Critical(k, Len(log))')
    <3>1. CASE c.severity = "critical"
      BY <2>1, <3>1 DEF SeverityAt
    <3>2. CASE c.severity = "warning"
      BY <2>1, <2>4, <3>2 DEF SeverityAt
    <3>3. CASE c.severity = "none" /\ CanRaise(counted, t)
      BY <2>1, <2>4, <3>3 DEF SeverityAt
    <3>4. CASE c.severity = "none" /\ ~CanRaise(counted, t)
      BY <2>1, <3>4 DEF SeverityAt
    <3>. QED  BY <2>5, <3>1, <3>2, <3>3, <3>4
  <2>. QED  BY <1>4, <1>5, <2>6, <2>7, <2>8, <2>9
<1>9. CASE k \notin violated
  <2>1. /\ d.first = NoTime
        /\ d.severity = IF Resolves(c) THEN "none" ELSE c.severity
    BY <1>5, <1>9 DEF AfterClear
  <2>2. k \notin log'[n + 1].raised /\ ~Persistent(k, Len(log))' /\ ~Critical(k, Len(log))'
    BY <1>5, <1>7, <2>1
  <2>3. ASSUME c.severity # "none"
        PROVE  Recovered(k, Len(log))' <=> c.clear + 1 >= ResolutionConsecutive
    <3>1. /\ c.clear < n /\ c.clear < ResolutionConsecutive /\ c.clear \in Nat
          /\ \A i \in (n - c.clear + 1)..n : k \notin log[i].violated
          /\ k \in log[n - c.clear].violated
      BY <1>0, <1>1, <1>6, <2>3 DEF KeyInv, ClearIsCounted, ClearThroughout, Condition
    <3>2. /\ n - c.clear \in 1..n /\ k \in log'[n - c.clear].violated
      BY <1>4, <3>1
    <3>3. ASSUME c.clear + 1 >= ResolutionConsecutive PROVE Recovered(k, Len(log))'
      <4>1. n + 1 >= ResolutionConsecutive /\ n + 1 - ResolutionConsecutive + 1 >= n - c.clear + 1
        BY <1>4, <3>1, <3>3, ParametersAssumption
      <4>2. ASSUME NEW i \in (n + 1 - ResolutionConsecutive + 1)..(n + 1)
            PROVE  k \notin log'[i].violated
        <5>1. CASE i = n + 1
          BY <1>5, <1>9, <5>1
        <5>2. CASE i # n + 1
          <6>1. i \in (n - c.clear + 1)..n /\ i \in 1..n
            BY <1>4, <3>1, <4>1, <4>2, <5>2, ParametersAssumption
          <6>. QED  BY <1>4, <3>1, <6>1
        <5>. QED  BY <5>1, <5>2
      <4>3. Len(log') - ResolutionConsecutive + 1 = n + 1 - ResolutionConsecutive + 1
        BY <1>4, ParametersAssumption
      <4>4. ClearThroughout(k, Len(log) - ResolutionConsecutive + 1, Len(log))'
        BY <1>4, <4>2, <4>3 DEF ClearThroughout
      <4>. QED  BY <1>4, <4>1, <4>4 DEF Recovered
    <3>4. ASSUME Recovered(k, Len(log))' PROVE c.clear + 1 >= ResolutionConsecutive
      <4>1. \A i \in (n + 1 - ResolutionConsecutive + 1)..(n + 1) : k \notin log'[i].violated
        <5>1. ClearThroughout(k, Len(log) - ResolutionConsecutive + 1, Len(log))'
          BY <3>4 DEF Recovered
        <5>2. Len(log') - ResolutionConsecutive + 1 = n + 1 - ResolutionConsecutive + 1
          BY <1>4, ParametersAssumption
        <5>. QED  BY <1>4, <5>1, <5>2 DEF ClearThroughout
      <4>2. n - c.clear \notin (n + 1 - ResolutionConsecutive + 1)..(n + 1)
        BY <3>2, <4>1
      <4>. QED  BY <1>4, <3>1, <4>2, ParametersAssumption
    <3>. QED  BY <3>3, <3>4
  <2>4. k \in log'[n + 1].resolved <=> c.severity # "none" /\ Recovered(k, Len(log))'
    BY <1>5, <2>1, <2>3 DEF Resolves
  <2>. QED  BY <1>4, <1>5, <2>1, <2>2, <2>4
<1>. QED  BY <1>8, <1>9

-----------------------------------------------------------------------------
LEMMA DecisionsAreRight ==
    ASSUME AuditInv, NEW s \in Sessions, NEW violated \in SUBSET Keys,
           NEW t \in Times, AuditedObserve(s, violated, t)
    PROVE  RaisedExactlyWhenDue' /\ ResolvedExactlyWhenRecovered'
<1>0. PICK n : n = Len(log)
  OBVIOUS
<1>1. TypeOK /\ Chronicle /\ \A k \in Keys : KeyInv(k)
  BY DEF AuditInv
<1>2. n \in Nat /\ Len(log') = n + 1 /\ \A j \in 1..n : log'[j] = log[j]
  BY <1>0, <1>1, EntryLogged
<1>3. ASSUME NEW j \in 1..(n + 1), NEW k \in Keys
      PROVE  /\ k \in log'[j].raised <=> /\ ~ActiveBefore(k, j)'
                                         /\ Persistent(k, j)'
                                         /\ ~CoolingDown(k, j)'
             /\ k \in log'[j].resolved <=> ActiveBefore(k, j)' /\ Recovered(k, j)'
  <2>1. CASE j = n + 1
    <3>1. conditions[k].notBefore \in Nat \cup {NoTime} /\ t \in Nat
      BY <1>1, <1>3, BoundsAssumption DEF TypeOK, Condition, Times
    <3>2. /\ ActiveBefore(k, Len(log))' <=> conditions[k].severity # "none"
          /\ CoolingDown(k, Len(log))' <=> t < conditions[k].notBefore
      BY <1>1, <1>3, ActiveKept, CooldownKept DEF KeyInv
    <3>3. t < conditions[k].notBefore <=> ~(t >= conditions[k].notBefore)
      BY <3>1 DEF NoTime
    <3>4. /\ k \in log'[Len(log')].raised <=> /\ conditions[k].severity = "none"
                                              /\ Persistent(k, Len(log))'
                                              /\ t >= conditions[k].notBefore
          /\ k \in log'[Len(log')].resolved <=> /\ conditions[k].severity # "none"
                                                /\ Recovered(k, Len(log))'
      BY <1>3, ObservationDecides
    <3>. QED  BY <1>2, <2>1, <3>2, <3>3, <3>4
  <2>2. CASE j # n + 1
    <3>1. j \in 1..n
      BY <1>2, <2>2
    <3>2. /\ Persistent(k, j)' <=> Persistent(k, j)
          /\ Recovered(k, j)' <=> Recovered(k, j)
          /\ ActiveBefore(k, j)' <=> ActiveBefore(k, j)
          /\ CoolingDown(k, j)' <=> CoolingDown(k, j)
      BY <1>0, <1>1, <1>3, <3>1, PastIsKept
    <3>3. /\ k \in log[j].raised <=> /\ ~ActiveBefore(k, j)
                                     /\ Persistent(k, j)
                                     /\ ~CoolingDown(k, j)
          /\ k \in log[j].resolved <=> ActiveBefore(k, j) /\ Recovered(k, j)
      BY <1>0, <1>3, <3>1 DEF AuditInv, RaisedExactlyWhenDue, ResolvedExactlyWhenRecovered
    <3>. QED  BY <1>2, <3>1, <3>2, <3>3
  <2>. QED  BY <2>1, <2>2
<1>. QED  BY <1>2, <1>3 DEF RaisedExactlyWhenDue, ResolvedExactlyWhenRecovered

LEMMA EscalationIsRight ==
    ASSUME AuditInv, NEW s \in Sessions, NEW violated \in SUBSET Keys,
           NEW t \in Times, AuditedObserve(s, violated, t)
    PROVE  CriticalExactlyWhenOld'
<1>0. PICK n : n = Len(log)
  OBVIOUS
<1>1. TypeOK /\ Chronicle /\ (\A k \in Keys : KeyInv(k)) /\ CriticalExactlyWhenOld
  BY DEF AuditInv
<1>2. n \in Nat /\ Len(log') = n + 1 /\ \A j \in 1..n : log'[j] = log[j]
  BY <1>0, <1>1, EntryLogged
<1>. SUFFICES ASSUME NEW k \in Keys, conditions'[k].severity # "none"
              PROVE  conditions'[k].severity = "critical" <=>
                        \E i, j \in 1..(n + 1) : /\ i <= j
                                                 /\ RaisedAt(k, i, n + 2)'
                                                 /\ Critical(k, j)'
  <2>1. Len(log') + 1 = n + 2
    BY <1>2
  <2>. QED  BY <1>2, <2>1 DEF CriticalExactlyWhenOld, ActiveAlerts
<1>. DEFINE c == conditions[k]
            d == conditions'[k]
            new == log'[n + 1]
<1>3. d.severity = "critical" <=> c.severity = "critical" \/ Critical(k, n + 1)'
  BY <1>2, ObservationDecides
<1>4. /\ k \in new.raised <=> c.severity = "none"
      /\ k \notin new.resolved
  BY <1>0, <1>1, KeyLogged
<1>5. ASSUME NEW i \in 1..n
      PROVE  RaisedAt(k, i, n + 2)' <=> RaisedAt(k, i, n + 1)
  BY <1>2, <1>4 DEF RaisedAt
<1>6. RaisedAt(k, n + 1, n + 2)' <=> c.severity = "none"
  BY <1>2, <1>4 DEF RaisedAt
<1>7. \A j \in 1..n : Critical(k, j)' <=> Critical(k, j)
  BY <1>0, <1>1, PastIsKept
<1>8. c.severity # "none" <=> \E i \in 1..n : RaisedAt(k, i, n + 1)
  <2>1. c.severity # "none" <=> ActiveBefore(k, Len(log) + 1)
    BY <1>1 DEF KeyInv, ActiveIsLogged
  <2>. QED  BY <1>0, <1>2, <2>1 DEF ActiveBefore
<1>9. CASE c.severity = "none"
  BY <1>2, <1>3, <1>5, <1>6, <1>8, <1>9
<1>10. CASE c.severity # "none"
  <2>1. c.severity = "critical" <=>
           \E i, j \in 1..n : i <= j /\ RaisedAt(k, i, n + 1) /\ Critical(k, j)
    BY <1>0, <1>1, <1>10 DEF CriticalExactlyWhenOld, ActiveAlerts
  <2>2. PICK i \in 1..n : RaisedAt(k, i, n + 1)
    BY <1>8, <1>10
  <2>3. ASSUME Critical(k, n + 1)'
        PROVE  \E a, b \in 1..(n + 1) : a <= b /\ RaisedAt(k, a, n + 2)' /\ Critical(k, b)'
    <3>1. i \in 1..(n + 1) /\ n + 1 \in 1..(n + 1) /\ i <= n + 1
      BY <1>2
    <3>. QED  BY <1>5, <2>2, <2>3, <3>1
  <2>4. ASSUME c.severity = "critical"
        PROVE  \E a, b \in 1..(n + 1) : a <= b /\ RaisedAt(k, a, n + 2)' /\ Critical(k, b)'
    <3>1. PICK a \in 1..n, b \in 1..n : a <= b /\ RaisedAt(k, a, n + 1) /\ Critical(k, b)
      BY <2>1, <2>4
    <3>2. a \in 1..(n + 1) /\ b \in 1..(n + 1)
      BY <1>2
    <3>. QED  BY <1>5, <1>7, <3>1, <3>2
  <2>5. ASSUME NEW a \in 1..(n + 1), NEW b \in 1..(n + 1), a <= b,
               RaisedAt(k, a, n + 2)', Critical(k, b)'
        PROVE  c.severity = "critical" \/ Critical(k, n + 1)'
    <3>1. CASE b = n + 1
      BY <2>5, <3>1
    <3>2. CASE b # n + 1
      <4>1. a \in 1..n /\ b \in 1..n
        BY <1>2, <2>5, <3>2
      <4>. QED  BY <1>5, <1>7, <2>1, <2>5, <4>1
    <3>. QED  BY <3>1, <3>2
  <2>. QED  BY <1>3, <2>3, <2>4, <2>5
<1>. QED  BY <1>9, <1>10

LEMMA InitAuditInv == AuditInit => AuditInv
<1>. SUFFICES ASSUME AuditInit PROVE AuditInv
  OBVIOUS
<1>1. conditions = [k \in Keys |-> Fresh] /\ lastObservedAt = NoTime /\ workSession = NoSession
  BY DEF AuditInit, Init
<1>2. log = <<>> /\ Len(log) = 0 /\ log \in Seq(Entry)
  BY DEF AuditInit
<1>3. TypeOK
  BY <1>1 DEF TypeOK, Condition, Fresh, NoTime, Severities
<1>4. Chronicle
  BY <1>1, <1>2 DEF Chronicle
<1>5. ASSUME NEW k \in Keys PROVE KeyInv(k)
  <2>1. conditions[k] = Fresh
    BY <1>1
  <2>2. ~ActiveBefore(k, Len(log) + 1)
    BY <1>2 DEF ActiveBefore
  <2>. QED  BY <1>2, <2>1, <2>2 DEF KeyInv, RunIsCounted, ClearIsCounted, ActiveIsLogged,
                                    CooldownIsLogged, Fresh
<1>6. RaisedExactlyWhenDue /\ ResolvedExactlyWhenRecovered
  BY <1>2 DEF RaisedExactlyWhenDue, ResolvedExactlyWhenRecovered
<1>7. CriticalExactlyWhenOld
  BY <1>1 DEF CriticalExactlyWhenOld, ActiveAlerts, Fresh
<1>. QED  BY <1>3, <1>4, <1>5, <1>6, <1>7 DEF AuditInv

LEMMA StepAuditInv == AuditInv /\ [AuditNext]_auditVars => AuditInv'
<1>. SUFFICES ASSUME AuditInv, [AuditNext]_auditVars PROVE AuditInv'
  OBVIOUS
<1>1. ASSUME NEW s \in Sessions, NEW violated \in SUBSET Keys, NEW t \in Times,
             AuditedObserve(s, violated, t)
      PROVE  AuditInv'
  <2>1. TypeOK /\ Chronicle /\ \A k \in Keys : KeyInv(k)
    BY DEF AuditInv
  <2>2. TypeOK'
    BY <2>1, TypeKept
  <2>3. Chronicle'
    BY <1>1, <2>1, ChronicleKept
  <2>4. ASSUME NEW k \in Keys PROVE KeyInv(k)'
    BY <1>1, <2>1, <2>4, RunKept, ClearKept, ActiveKept, CooldownKept DEF KeyInv
  <2>. QED  BY <1>1, <2>2, <2>3, <2>4, DecisionsAreRight, EscalationIsRight DEF AuditInv
<1>2. CASE AuditedReset
  <2>1. AuditInit'
    BY <1>2 DEF AuditedReset, Reset, AuditInit, Init
  <2>2. AuditInit' => AuditInv'
    BY InitAuditInv, PTL
  <2>. QED  BY <2>1, <2>2
<1>3. CASE UNCHANGED auditVars
  BY <1>3 DEF auditVars, AuditInv, TypeOK, Chronicle, KeyInv, RunIsCounted, RunFrom,
     ClearIsCounted, ActiveIsLogged, CooldownIsLogged, RaisedExactlyWhenDue,
     ResolvedExactlyWhenRecovered, CriticalExactlyWhenOld, ActiveAlerts, ActiveBefore,
     RaisedAt, Persistent, Critical, Recovered, CoolingDown, ViolatedThroughout,
     ClearThroughout
<1>. QED  BY <1>1, <1>2, <1>3 DEF AuditNext

\* An alert is raised at exactly the observations of a session at which one is
\* due: it is not active, its violation persists in count and in time, and no
\* cooldown runs (observe, _can_raise).
THEOREM RaisesWhenDue == AuditSpec => []RaisedExactlyWhenDue
<1>1. AuditInv => RaisedExactlyWhenDue
  BY DEF AuditInv
<1>. QED  BY <1>1, InitAuditInv, StepAuditInv, PTL DEF AuditSpec

\* It is resolved at exactly the observation that completes its recovery, for
\* every length the recovery must have (observe, the resolution branch).
THEOREM ResolvesWhenRecovered == AuditSpec => []ResolvedExactlyWhenRecovered
<1>1. AuditInv => ResolvedExactlyWhenRecovered
  BY DEF AuditInv
<1>. QED  BY <1>1, InitAuditInv, StepAuditInv, PTL DEF AuditSpec

\* It is critical if and only if one uninterrupted run of its violation was old
\* enough since it was raised (observe, _temporal_severity).
THEOREM CriticalWhenOld == AuditSpec => []CriticalExactlyWhenOld
<1>1. AuditInv => CriticalExactlyWhenOld
  BY DEF AuditInv
<1>. QED  BY <1>1, InitAuditInv, StepAuditInv, PTL DEF AuditSpec
=============================================================================
