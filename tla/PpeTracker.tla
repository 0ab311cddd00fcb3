----------------------------- MODULE PpeTracker -----------------------------
(***************************************************************************)
(* Identities of detected equipment over consecutive batches:              *)
(* PpeDetectionTracker (2identify_operador/app/vision/ppe/tracking.py).    *)
(*                                                                         *)
(* Boxes have integer coordinates; an overlap is a quotient, compared by   *)
(* cross-multiplication.  A tracker is a record of its tracks by identity  *)
(* and of the next identity.                                               *)
(***************************************************************************)
EXTENDS Integers, Sequences, FiniteSets

CONSTANTS IouPercent, MaximumMissed, MinimumHits

\* What the constructor accepts.
ParametersAreValid ==
    IouPercent \in 1..100 /\ MaximumMissed \in Nat /\ MinimumHits \in Nat \ {0}

Least(a, b) == IF a <= b THEN a ELSE b
Greatest(a, b) == IF a >= b THEN a ELSE b

Area(box) == (box.x2 - box.x1) * (box.y2 - box.y1)

Intersection(a, b) ==
    Greatest(0, Least(a.x2, b.x2) - Greatest(a.x1, b.x1))
    * Greatest(0, Least(a.y2, b.y2) - Greatest(a.y1, b.y1))

Union(a, b) == Area(a) + Area(b) - Intersection(a, b)

\* Boxes without any area do not overlap at all.
Overlaps(a, b) ==
    Union(a, b) > 0 /\ 100 * Intersection(a, b) >= IouPercent * Union(a, b)

\* Of the same class, and close enough.
Candidates(tracks, detections) ==
    {c \in (DOMAIN tracks) \X (DOMAIN detections) :
        LET old == tracks[c[1]].detection
            new == detections[c[2]]
        IN old.class = new.class /\ Overlaps(old.box, new.box)}

\* The order in which candidates are taken: overlap, then identity, then place.
Before(c, d, tracks, detections) ==
    LET quotient(e) == <<Intersection(tracks[e[1]].detection.box, detections[e[2]].box),
                         Union(tracks[e[1]].detection.box, detections[e[2]].box)>>
        more == quotient(c)[1] * quotient(d)[2]
        less == quotient(d)[1] * quotient(c)[2]
    IN \/ more > less
       \/ more = less /\ (c[1] < d[1] \/ (c[1] = d[1] /\ c[2] < d[2]))

\* _associate: the first candidate excludes the others of its track or detection.
Associate(tracks, detections) ==
    LET chosen[S \in SUBSET Candidates(tracks, detections)] ==
            IF S = {} THEN {}
            ELSE LET first == CHOOSE c \in S :
                                  \A d \in S \ {c} : Before(c, d, tracks, detections)
                 IN {first} \cup chosen[{d \in S : d[1] # first[1] /\ d[2] # first[2]}]
    IN chosen[Candidates(tracks, detections)]

-----------------------------------------------------------------------------
EmptyTracker == [tracks |-> <<>>, next |-> 1]

NewTrack(detection) == [detection |-> detection, hits |-> 1, age |-> 1, missed |-> 0]

Seen(track, detection) ==
    [detection |-> detection, hits |-> track.hits + 1, age |-> track.age + 1, missed |-> 0]

Missed(track) == [track EXCEPT !.age = @ + 1, !.missed = @ + 1]

\* The identities that detections without a track get, in their order.
NewIdentity(d, unmatched, next) == next + Cardinality({e \in unmatched : e < d})

\* What update makes of the tracks once it knows the matches.
Advance(tracker, detections, matches) ==
    LET tracks == tracker.tracks
        seen == {c[1] : c \in matches}
        unmatched == (DOMAIN detections) \ {c[2] : c \in matches}
        kept == {t \in DOMAIN tracks : t \in seen \/ tracks[t].missed < MaximumMissed}
        born == {NewIdentity(d, unmatched, tracker.next) : d \in unmatched}
    IN [tracks |-> [t \in kept \cup born |->
            IF t \in born
            THEN NewTrack(detections[CHOOSE d \in unmatched :
                                         t = NewIdentity(d, unmatched, tracker.next)])
            ELSE IF t \in seen
                 THEN Seen(tracks[t], detections[CHOOSE d \in DOMAIN detections : <<t, d>> \in matches])
                 ELSE Missed(tracks[t])],
        next |-> tracker.next + Cardinality(unmatched)]

Update(tracker, detections) ==
    Advance(tracker, detections, Associate(tracker.tracks, detections))

IsConfirmed(track) == track.hits >= MinimumHits
IsVisible(track) == track.missed = 0
=============================================================================
