----------------------------- MODULE Ergonomics -----------------------------
(***************************************************************************)
(* Screening of postures from one frame's poses: ErgonomicsEngine          *)
(* (2identify_operador/app/engine/ergonomics.py).                          *)
(*                                                                         *)
(* A pose is given by what the engine measures on it, in whole degrees:    *)
(* the inclination of the trunk, whether a wrist is above its shoulder,    *)
(* the angle of a knee; unseen where a keypoint it needs is not visible.   *)
(***************************************************************************)
EXTENDS Integers, Sequences

CONSTANTS Unseen, TrunkWarning, TrunkCritical, KneeWarning, KneeCritical,
          ReachEnabled, KneeEnabled

\* What the constructor accepts.
ThresholdsAreValid ==
    /\ 0 < TrunkWarning /\ TrunkWarning < TrunkCritical /\ TrunkCritical <= 90
    /\ 0 < KneeCritical /\ KneeCritical < KneeWarning /\ KneeWarning < 180

Sides == {"left", "right"}
NoRisk == "none"

Graded(warning, critical) ==
    IF critical THEN "critical" ELSE IF warning THEN "warning" ELSE NoRisk

TrunkRisk(pose) ==
    IF pose.trunk = Unseen THEN NoRisk
    ELSE Graded(pose.trunk >= TrunkWarning, pose.trunk >= TrunkCritical)

\* One raised arm is a warning, both are critical.
ReachRisk(pose) ==
    LET raised == {s \in Sides : pose.arm[s] = "raised"} IN
    IF ReachEnabled THEN Graded(raised # {}, raised = Sides) ELSE NoRisk

\* The more flexed of the visible knees decides.
KneeRisk(pose) ==
    LET angles == {pose.knee[s] : s \in Sides} \ {Unseen} IN
    IF KneeEnabled
    THEN Graded(\E a \in angles : a <= KneeWarning, \E a \in angles : a <= KneeCritical)
    ELSE NoRisk

IsEvaluated(pose) ==
    \/ pose.trunk # Unseen
    \/ ReachEnabled /\ \E s \in Sides : pose.arm[s] # "unseen"
    \/ KneeEnabled /\ \E s \in Sides : pose.knee[s] # Unseen

RisksOf(pose) ==
    [trunk |-> TrunkRisk(pose), reach |-> ReachRisk(pose), knee |-> KneeRisk(pose)]

Rank(risk) == CASE risk = "critical" -> 2 [] risk = "warning" -> 1 [] OTHER -> 0

\* evaluate: pose after pose, the first of the highest severity stays.
ErgonomicViolations(poses) ==
    LET kept[i \in 0..Len(poses)] ==
            IF i = 0 THEN [k \in {"trunk", "reach", "knee"} |-> NoRisk]
            ELSE [k \in {"trunk", "reach", "knee"} |->
                     IF Rank(RisksOf(poses[i])[k]) > Rank(kept[i - 1][k])
                     THEN RisksOf(poses[i])[k] ELSE kept[i - 1][k]]
    IN kept[Len(poses)]

IsCompliant(poses) ==
    /\ \E i \in DOMAIN poses : IsEvaluated(poses[i])
    /\ \A k \in {"trunk", "reach", "knee"} : ErgonomicViolations(poses)[k] = NoRisk
=============================================================================
