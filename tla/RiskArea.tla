------------------------------ MODULE RiskArea ------------------------------
(***************************************************************************)
(* Risk areas: which polygons are accepted (domain/risk_area.py) and where *)
(* a visible point of a person lies (engine/risk_area.py of                *)
(* 2identify_operador).                                                    *)
(*                                                                         *)
(* Coordinates are integers, a grid of 1/Scale on the normalized image, so *)
(* that a comparison of quotients is one of products.  The tolerance 1e-9  *)
(* is then zero wherever it is compared with an area (Scale < 30000); where*)
(* it is compared with the product of two it is ProductSlack, the integer  *)
(* part of 1e-9 * Scale^4: zero up to a grid of 177, 4 on one of 256.      *)
(***************************************************************************)
EXTENDS Integers, Sequences, FiniteSets

CONSTANT ProductSlack

Smaller(a, b) == IF a <= b THEN a ELSE b
Larger(a, b) == IF a >= b THEN a ELSE b

\* Twice the signed area of a triangle: on which side of start..end a point is.
Orientation(start, end, point) ==
    (end.x - start.x) * (point.y - start.y) - (end.y - start.y) * (point.x - start.x)

WithinBox(point, start, end) ==
    /\ point.x \in Smaller(start.x, end.x)..Larger(start.x, end.x)
    /\ point.y \in Smaller(start.y, end.y)..Larger(start.y, end.y)

OnSegment(point, start, end) ==
    Orientation(start, end, point) = 0 /\ WithinBox(point, start, end)

After(i, vertices) == vertices[(i % Len(vertices)) + 1]

-----------------------------------------------------------------------------
\* RiskAreaGeometry.
OppositeSides(start, end, p, q) ==
    Orientation(start, end, p) * Orientation(start, end, q) < -ProductSlack

SegmentsIntersect(s1, e1, s2, e2) ==
    \/ OppositeSides(s1, e1, s2, e2) /\ OppositeSides(s2, e2, s1, e1)
    \/ OnSegment(s2, s1, e1) \/ OnSegment(e2, s1, e1)
    \/ OnSegment(s1, s2, e2) \/ OnSegment(e1, s2, e2)

\* Edges that follow each other share a vertex and are not compared.
SelfIntersects(vertices) ==
    \E i, j \in DOMAIN vertices :
        /\ i + 1 < j /\ ~(i = 1 /\ j = Len(vertices))
        /\ SegmentsIntersect(vertices[i], After(i, vertices), vertices[j], After(j, vertices))

\* The fan of triangles at the origin, summed over the edges.
SignedDoubleArea(vertices) ==
    LET origin == [x |-> 0, y |-> 0]
        sum[i \in 0..Len(vertices)] ==
            IF i = 0 THEN 0
            ELSE sum[i - 1] + Orientation(origin, vertices[i], After(i, vertices))
    IN sum[Len(vertices)]

\* A first vertex that is repeated at the end closes the polygon and is dropped.
Opened(vertices) ==
    IF Len(vertices) >= 2 /\ vertices[1] = vertices[Len(vertices)]
    THEN SubSeq(vertices, 1, Len(vertices) - 1) ELSE vertices

IsGeometry(vertices) ==
    /\ Len(vertices) >= 3
    /\ \A i, j \in DOMAIN vertices : i # j => vertices[i] # vertices[j]
    /\ SignedDoubleArea(vertices) # 0
    /\ ~SelfIntersects(vertices)

-----------------------------------------------------------------------------
\* RiskAreaSpatialEngine: the ray to the right of the point crosses the edge.
Crosses(point, start, end) ==
    LET rise == end.y - start.y
        run == (point.y - start.y) * (end.x - start.x) IN
    /\ (start.y > point.y) # (end.y > point.y)
    /\ IF rise > 0 THEN run > (point.x - start.x) * rise
                   ELSE run < (point.x - start.x) * rise

classify_point(vertices, point) ==
    IF \E i \in DOMAIN vertices : OnSegment(point, vertices[i], After(i, vertices))
    THEN "boundary"
    ELSE IF Cardinality({i \in DOMAIN vertices : Crosses(point, vertices[i], After(i, vertices))})
               % 2 = 1
         THEN "inside" ELSE "outside"

contains_point(vertices, point) == classify_point(vertices, point) \in {"inside", "boundary"}

\* RiskAreaPoseEngine: a person is the set of its keypoints that are confident
\* enough and in the frame; one without any is not evaluated.
PresenceAssessment(people, vertices) ==
    LET evaluated == {i \in DOMAIN people : people[i] # {}}
        inside == {i \in evaluated : \E p \in people[i] : contains_point(vertices, p)}
    IN [evaluated |-> Cardinality(evaluated), inside |-> Cardinality(inside),
        violated |-> inside # {},
        clear |-> evaluated # {} /\ inside = {}]
=============================================================================
