--------------------------- MODULE FaceRecognition ---------------------------
(***************************************************************************)
(* What makes the scan of a face recognize an operator: the pipeline, its  *)
(* liveness verifier and its matcher                                       *)
(* (2identify_operador/app/vision/face_auth/pipeline.py, liveness.py and   *)
(* matcher.py).  A pipeline is made for each scan and the worker returns   *)
(* with the first recognition.                                             *)
(*                                                                         *)
(* A frame is how many faces were found in it and, if it is one, the size  *)
(* of its box, the position of the nose in the box and the similarity to   *)
(* each template.  Sizes and positions are in thousandths, similarities    *)
(* too, and shifted so that none is negative.                              *)
(* A face that is large enough has a box, so that the verifier never       *)
(* rejects it; an embedding without a direction resembles no template.     *)
(* frames and first are history: what was processed, and the first frame   *)
(* after the verifier was last reset.                                      *)
(***************************************************************************)
EXTENDS Integers, Sequences

CONSTANTS Templates,   \* how many operators are enrolled on the station
          MaxSimilarity, SimilarityThreshold, MinimumFaceRatio,
          MinimumConsecutiveMatches, MinimumDuration, MinimumMovement

FaceAssumption ==
    /\ Templates \in Nat \ {0}
    /\ MinimumConsecutiveMatches \in Nat \ {0}
    /\ MaxSimilarity \in Nat /\ SimilarityThreshold \in Int /\ MinimumFaceRatio \in Int
    /\ MinimumDuration \in Int /\ MinimumMovement \in Int

VARIABLES candidate, count,        \* _candidate_id and _candidate_count
          startedAt, positions,    \* of the liveness verifier
          status, frames, first

scanVars == <<candidate, count, startedAt, positions, status, frames, first>>

Nobody == 0
Operators == 1..Templates
NotStarted == -1
Similarities == 0..MaxSimilarity

Frame == [at : Nat, faces : Nat, size : Int, nose : Int \X Int,
          similarity : [Operators -> Similarities]]

\* CosineFaceMatcher.match: the most similar template, the first of several
Best(similarity) ==
    CHOOSE i \in Operators : \A j \in Operators :
        /\ similarity[j] <= similarity[i]
        /\ similarity[j] = similarity[i] => i <= j
Match(similarity) ==
    IF similarity[Best(similarity)] < SimilarityThreshold THEN Nobody ELSE Best(similarity)

\* MotionChallengeLivenessVerifier: how far two positions are apart on an axis
Moved(p, q) == p[1] - q[1] >= MinimumMovement \/ p[2] - q[2] >= MinimumMovement
Verified(frame, since, seen) ==
    frame.at - since >= MinimumDuration /\ \E p, q \in seen : Moved(p, q)

ResetMatch == candidate' = Nobody /\ count' = 0

-----------------------------------------------------------------------------
\* process: no face, or several, start everything over.
NotAlone(frame) ==
    /\ frame.faces # 1
    /\ ResetMatch /\ startedAt' = NotStarted /\ positions' = {}
    /\ first' = Len(frames) + 2
    /\ status' = IF frame.faces = 0 THEN "waiting_face" ELSE "multiple_faces"

TooFar(frame) ==
    /\ frame.faces = 1 /\ frame.size < MinimumFaceRatio
    /\ ResetMatch
    /\ status' = "move_closer"
    /\ UNCHANGED <<startedAt, positions, first>>

\* The verifier keeps every position since it was reset.
Observe(frame) ==
    /\ frame.faces = 1 /\ frame.size >= MinimumFaceRatio
    /\ startedAt' = IF startedAt = NotStarted THEN frame.at ELSE startedAt
    /\ positions' = positions \cup {frame.nose}
    /\ UNCHANGED first

NotYetLive(frame) ==
    /\ Observe(frame)
    /\ ~Verified(frame, startedAt', positions')
    /\ ResetMatch
    /\ status' = "verifying_liveness"

NotMatched(frame) ==
    /\ Observe(frame)
    /\ Verified(frame, startedAt', positions')
    /\ Match(frame.similarity) = Nobody
    /\ ResetMatch
    /\ status' = "not_recognized"

Matched(frame) ==
    /\ Observe(frame)
    /\ Verified(frame, startedAt', positions')
    /\ Match(frame.similarity) # Nobody
    /\ candidate' = Match(frame.similarity)
    /\ count' = IF candidate = candidate' THEN count + 1 ELSE 1
    /\ status' = IF count' < MinimumConsecutiveMatches THEN "matching" ELSE "recognized"

Process(frame) ==
    /\ status # "recognized"
    /\ frames' = Append(frames, frame)
    /\ \/ NotAlone(frame) \/ TooFar(frame) \/ NotYetLive(frame)
       \/ NotMatched(frame) \/ Matched(frame)

ScanInit ==
    /\ candidate = Nobody /\ count = 0
    /\ startedAt = NotStarted /\ positions = {}
    /\ status = "waiting_face" /\ frames = <<>> /\ first = 1

ScanNext == \E frame \in Frame : Process(frame)

ScanSpec == ScanInit /\ [][ScanNext]_scanVars

-----------------------------------------------------------------------------
IsNear(frame) == frame.faces = 1 /\ frame.size >= MinimumFaceRatio

\* One face alone in every frame seen from number a to number n moved, and was
\* near long before n.
LiveBetween(seen, a, n) ==
    /\ \A i \in a..n : seen[i].faces = 1
    /\ \E i, j \in a..n : /\ IsNear(seen[i]) /\ IsNear(seen[j])
                          /\ Moved(seen[i].nose, seen[j].nose)
    /\ \E i \in a..n : IsNear(seen[i]) /\ seen[n].at - seen[i].at >= MinimumDuration

\* Nobody is recognized on less than this: the last frames, as many as are
\* demanded, each showed one near face whose most similar template is of that
\* operator and similar enough, and a face alone had proven to be live before
\* the first of them was counted, without a frame in between that showed no
\* face or several.
RecognitionIsEarned ==
    status = "recognized" =>
        LET start == Len(frames) - MinimumConsecutiveMatches + 1 IN
        /\ start >= 1
        /\ \A i \in start..Len(frames) :
              /\ IsNear(frames[i])
              /\ frames[i].similarity[candidate] >= SimilarityThreshold
              /\ \A j \in Operators : frames[i].similarity[j] <= frames[i].similarity[candidate]
        /\ \E a \in 1..start :
              LiveBetween(frames, a, start) /\ \A i \in start..Len(frames) : frames[i].faces = 1
=============================================================================
