------------------------- MODULE MCActiveMonitoring -------------------------
(***************************************************************************)
(* One PPE and one posture condition; two sessions, so that one follows the*)
(* other while the worker of the first is still stopping.  Beside it the   *)
(* algorithms that find the conditions, compared with definitions of their *)
(* own over bounded inputs: TLC evaluates each ASSUME.                     *)
(***************************************************************************)
EXTENDS ActiveMonitoring, Integers, Sequences, FiniteSets

CONSTANTS ppe, posture, s1, s2

PpeKeysDef == {ppe}
ErgonomicKeysDef == {posture}
SessionsDef == {s1, s2}

-----------------------------------------------------------------------------
Area == INSTANCE RiskArea WITH ProductSlack <- 0
FineArea == INSTANCE RiskArea WITH ProductSlack <- 4
Posture == INSTANCE Ergonomics WITH
    Unseen <- -1, TrunkWarning <- 2, TrunkCritical <- 3,
    KneeWarning <- 2, KneeCritical <- 1, ReachEnabled <- TRUE, KneeEnabled <- TRUE
Tracker == INSTANCE PpeTracker WITH
    IouPercent <- 30, MaximumMissed <- 1, MinimumHits <- 2

-----------------------------------------------------------------------------
\* Risk areas on a grid of 3 x 3.
Grid == [x : 0..2, y : 0..2]
Polygons(n) == {v \in [1..n -> Grid] : Area!IsGeometry(v)}
Triangles == Polygons(3)
Quadrilaterals == Polygons(4)
PointsOf(v, relation) == {p \in Grid : Area!classify_point(v, p) = relation}
Absolute(n) == IF n < 0 THEN -n ELSE n

\* Pick's theorem ties three computations of the code together: for every
\* polygon that RiskAreaGeometry accepts, twice its area is twice the number of
\* grid points that classify_point finds inside, plus those on the boundary,
\* less two.  A crossing counted twice or an edge left out breaks it.
ASSUME PolygonsObeyPick ==
    \A v \in Triangles \cup Quadrilaterals :
        Absolute(Area!SignedDoubleArea(v))
            = 2 * Cardinality(PointsOf(v, "inside"))
              + Cardinality(PointsOf(v, "boundary")) - 2

\* A triangle's points are those on one side of its three edges.
ASSUME TrianglesAreHalfPlanes ==
    \A v \in Triangles, p \in Grid :
        LET side(i) == Area!Orientation(v[i], Area!After(i, v), p) IN
        Area!contains_point(v, p) <=>
            (\A i \in 1..3 : side(i) >= 0) \/ (\A i \in 1..3 : side(i) <= 0)

\* The relation of a point does not depend on the vertex a polygon starts with
\* nor on the direction it is drawn in.
ASSUME FirstVertexIsFree ==
    \A v \in Quadrilaterals, p \in Grid :
        LET turned == [i \in 1..4 |-> v[(i % 4) + 1]]
            mirrored == [i \in 1..4 |-> v[5 - i]]
        IN Area!classify_point(v, p) = Area!classify_point(turned, p)
           /\ Area!classify_point(v, p) = Area!classify_point(mirrored, p)

\* One tolerance serves areas and products of areas: on the 3 x 3 corner of a
\* grid of 256 a quadrilateral that crosses itself is accepted, which the same
\* points on a coarser grid are not (domain/risk_area.py:95).
ASSUME SmallCrossingsAreAccepted ==
    \E v \in [1..4 -> Grid] : FineArea!IsGeometry(v) /\ ~Area!IsGeometry(v)

-----------------------------------------------------------------------------
Angles == {-1, 1, 2, 3}
Poses == [trunk : Angles, arm : [Posture!Sides -> {"unseen", "raised", "lowered"}],
          knee : [Posture!Sides -> Angles]]
FewPoses == {p \in Poses : p.arm["left"] = "raised" /\ p.knee["left"] = -1}
Parts == {"trunk", "reach", "knee"}
ASSUME ThresholdsHold == Posture!ThresholdsAreValid

\* The alert of a body part is as severe as the worst of two people's postures,
\* in whatever order they are detected.
ASSUME WorstPoseDecides ==
    \A p, q \in FewPoses : \A k \in Parts :
        LET alert == Posture!ErgonomicViolations(<<p, q>>)[k]
            risks == {Posture!RisksOf(p)[k], Posture!RisksOf(q)[k]}
        IN alert = IF "critical" \in risks THEN "critical"
                   ELSE IF "warning" \in risks THEN "warning" ELSE "none"

\* Each body part can be graded in three ways, the least angles at their limit.
ASSUME EveryGradeOccurs ==
    \A k \in Parts, risk \in {"none", "warning", "critical"} :
        \E p \in Poses : Posture!RisksOf(p)[k] = risk

\* A frame counts as compliant only if somebody in it could be judged.
ASSUME ComplianceNeedsEvidence ==
    \A p \in Poses : Posture!IsCompliant(<<p>>) =>
        p.trunk = 1 \/ \E s \in Posture!Sides : p.arm[s] = "lowered" \/ p.knee[s] = 3

-----------------------------------------------------------------------------
\* Boxes of height 1 on a line, two classes, up to two detections per batch.
Boxes == {[x1 |-> a, x2 |-> b, y1 |-> 0, y2 |-> 1] : <<a, b>> \in {<<0, 2>>, <<1, 3>>, <<0, 3>>}}
Detections == [class : {"helmet", "glove"}, box : Boxes]
Helmets == {d \in Detections : d.class = "helmet"}
Batches(S) == {<<>>} \cup [1..1 -> S] \cup [1..2 -> S]
ASSUME ParametersHold == Tracker!ParametersAreValid

\* The association of a batch with the tracks is one-to-one, within a class and
\* above the threshold; a possible pair is left out only for one that overlaps at
\* least as much and shares its track or its detection.
ASSUME AssociationIsStable ==
    \A first, second \in Batches(Detections) :
        LET tracks == Tracker!Update(Tracker!EmptyTracker, first).tracks
            matches == Tracker!Associate(tracks, second)
            pairs == (DOMAIN tracks) \X (DOMAIN second)
            common(c) == Tracker!Intersection(tracks[c[1]].detection.box, second[c[2]].box)
            covered(c) == Tracker!Union(tracks[c[1]].detection.box, second[c[2]].box)
            possible == {c \in pairs : /\ tracks[c[1]].detection.class = second[c[2]].class
                                      /\ 10 * common(c) >= 3 * covered(c)}
            Shares(c, d) == c[1] = d[1] \/ c[2] = d[2]
        IN /\ matches \subseteq possible
           /\ \A c, d \in matches : Shares(c, d) => c = d
           /\ \A c \in possible \ matches :
                 \E d \in matches :
                     Shares(c, d) /\ common(d) * covered(c) >= common(c) * covered(d)

\* After any three batches every track satisfies what PpeTrackSnapshot demands,
\* no identity is used twice, and each helmet of the last batch has a track.
ASSUME TracksStayValid ==
    \A a, b, c \in Batches(Helmets) :
        LET before == Tracker!Update(Tracker!Update(Tracker!EmptyTracker, a), b)
            after == Tracker!Update(before, c)
        IN /\ \A t \in DOMAIN after.tracks :
                 LET track == after.tracks[t] IN
                 /\ track.hits >= 1 /\ track.age >= track.hits
                 /\ track.missed < track.age /\ track.missed <= 1
                 /\ t < after.next /\ (t \in DOMAIN before.tracks \/ t >= before.next)
           /\ Cardinality({t \in DOMAIN after.tracks : Tracker!IsVisible(after.tracks[t])})
                 = Len(c)
=============================================================================
