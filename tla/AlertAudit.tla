----------------------------- MODULE AlertAudit -----------------------------
(***************************************************************************)
(* AlertEngine with a log of one session's observations and of the updates *)
(* observe() returned for them.  The log is a history variable: it is what *)
(* lets the properties say when an alert is DUE, from the observations     *)
(* alone, and compare that with what the counters of the engine decided.   *)
(***************************************************************************)
EXTENDS AlertEngine, Sequences

CONSTANT MaxObservations   \* bound on the length of the log

VARIABLE log

auditVars == <<conditions, workSession, lastObservedAt, log>>

AuditInit == Init /\ log = <<>>

AuditedObserve(s, violated, t) ==
    /\ Len(log) < MaxObservations
    /\ Observe(s, violated, t)
    /\ log' = Append(log, [at |-> t, violated |-> violated, raised |-> Raised,
                           resolved |-> Resolved, escalated |-> Escalated])

AuditedReset == Reset /\ log' = <<>>

AuditNext ==
    \/ \E s \in Sessions, violated \in SUBSET Keys, t \in Times :
          AuditedObserve(s, violated, t)
    \/ AuditedReset

AuditSpec == AuditInit /\ [][AuditNext]_auditVars

-----------------------------------------------------------------------------
\* Reference definitions, over the log only.  i..j is an interval of it.
ViolatedThroughout(k, i, j) == \A n \in i..j : k \in log[n].violated
ClearThroughout(k, i, j)    == \A n \in i..j : k \notin log[n].violated

\* Observation j completes a run long enough, in count and in time.
Persistent(k, j) ==
    \E i \in 1..j : /\ ViolatedThroughout(k, i, j)
                    /\ j - i + 1 >= MinimumConsecutive
                    /\ log[j].at - log[i].at >= MinimumPersistence

\* Observation j belongs to a run old enough to be critical.
Critical(k, j) ==
    \E i \in 1..j : /\ ViolatedThroughout(k, i, j)
                    /\ log[j].at - log[i].at >= CriticalAfter

Recovered(k, j) ==
    /\ j >= ResolutionConsecutive
    /\ ClearThroughout(k, j - ResolutionConsecutive + 1, j)

\* Observation i raised the alert that is still active just before j.
RaisedAt(k, i, j) ==
    /\ k \in log[i].raised
    /\ \A n \in (i + 1)..(j - 1) : k \notin log[n].resolved

ActiveBefore(k, j) == \E i \in 1..(j - 1) : RaisedAt(k, i, j)

CoolingDown(k, j) ==
    \E i \in 1..(j - 1) : /\ k \in log[i].resolved
                          /\ log[j].at < log[i].at + Cooldown

-----------------------------------------------------------------------------
\* An alert is raised at exactly the observations at which one is due: no
\* alert of the key is active, its run of violations is persistent and no
\* cooldown of an earlier alert is running (observe, _can_raise).
RaisedExactlyWhenDue ==
    \A j \in 1..Len(log), k \in Keys :
        k \in log[j].raised <=> /\ ~ActiveBefore(k, j)
                                /\ Persistent(k, j)
                                /\ ~CoolingDown(k, j)

\* An alert is resolved exactly at the observation that completes the stable
\* recovery of its key, however often it flickered before.
ResolvedExactlyWhenRecovered ==
    \A j \in 1..Len(log), k \in Keys :
        k \in log[j].resolved <=> ActiveBefore(k, j) /\ Recovered(k, j)

\* An active alert is critical if and only if, at some observation since it
\* was raised, one uninterrupted run of its violation was old enough: neither
\* a flicker nor a longer total exposure escalates it.
CriticalExactlyWhenOld ==
    \A k \in ActiveAlerts :
        conditions[k].severity = "critical" <=>
            \E i, j \in 1..Len(log) : /\ i <= j
                                      /\ RaisedAt(k, i, Len(log) + 1)
                                      /\ Critical(k, j)

\* The engine implements the lifecycle promised to its consumers.
Lifecycle == INSTANCE AlertLifecycle WITH
    severity <- [k \in Keys |-> conditions[k].severity],
    quietUntil <- [k \in Keys |-> conditions[k].notBefore],
    asOf <- lastObservedAt

ImplementsLifecycle == Lifecycle!Spec
=============================================================================
