--------------------------- MODULE AlertLifecycle ---------------------------
(***************************************************************************)
(* What the alert engine promises to the operator and to whoever receives  *)
(* its alerts, without saying how it debounces: per key an alert is raised,*)
(* may be escalated once, and is resolved; a severity is never lowered, and*)
(* a resolved alert is not raised again before its quiet period is over.   *)
(* Ending the WorkSession forgets everything.                              *)
(***************************************************************************)
EXTENDS Integers

CONSTANTS Keys, Cooldown, NoTime

VARIABLES severity, quietUntil, asOf

lifecycleVars == <<severity, quietUntil, asOf>>

Init ==
    /\ severity = [k \in Keys |-> "none"]
    /\ quietUntil = [k \in Keys |-> NoTime]
    /\ asOf = NoTime

Keep(k) == severity'[k] = severity[k] /\ quietUntil'[k] = quietUntil[k]

Raise(k) ==
    /\ severity[k] = "none" /\ severity'[k] \in {"warning", "critical"}
    /\ asOf' >= quietUntil[k] /\ quietUntil'[k] = quietUntil[k]

Escalate(k) ==
    /\ severity[k] = "warning" /\ severity'[k] = "critical"
    /\ quietUntil'[k] = quietUntil[k]

Resolve(k) ==
    /\ severity[k] # "none" /\ severity'[k] = "none"
    /\ quietUntil'[k] = asOf' + Cooldown

Observation ==
    /\ asOf' \in Int /\ asOf' >= asOf
    /\ DOMAIN severity' = Keys /\ DOMAIN quietUntil' = Keys
    /\ \A k \in Keys : Keep(k) \/ Raise(k) \/ Escalate(k) \/ Resolve(k)

EndSession ==
    /\ severity' = [k \in Keys |-> "none"]
    /\ quietUntil' = [k \in Keys |-> NoTime]
    /\ asOf' = NoTime

Next == Observation \/ EndSession

Spec == Init /\ [][Next]_lifecycleVars
=============================================================================
