----------------------------- MODULE VisionProofs -----------------------------
(***************************************************************************)
(* What the operator's station makes of faces and poses: the scan that logs*)
(* an operator in, and the assessment of a working person's pose.  They share*)
(* no state; each has an invariant of its own.                             *)
(***************************************************************************)
EXTENDS FaceRecognition, PoseMonitoring, WellFoundedInduction, TLAPS

(***************************************************************************)
(* FaceRecognition, for any number of templates, thresholds and frames and *)
(* whatever the instants at which they are processed.                      *)
(***************************************************************************)
\* The most similar template exists: its distance to the maximum is least.
LEMMA LeastNatural ==
    ASSUME NEW T, T \subseteq Nat, T # {}
    PROVE  \E x \in T : \A y \in T : x <= y
<1> DEFINE R == OpToRel(<, Nat)
<1>1. IsWellFoundedOn(R, Nat)
  BY NatLessThanWellFounded
<1>2. \E x \in T : \A y \in T : ~ (<<y, x>> \in R)
  <2> HIDE DEF R
  <2> QED BY <1>1, WFMin
<1>3. \A x, y \in Nat : y < x => <<y, x>> \in R
  BY DEF OpToRel
<1>4. PICK x \in T : \A y \in T : ~ (<<y, x>> \in R)
  BY <1>2
<1>5. ASSUME NEW y \in T PROVE x <= y
  <2> HIDE DEF R
  <2>1. x \in Nat /\ y \in Nat /\ ~ (y < x)
    BY <1>3, <1>4
  <2> QED BY <2>1
<1> QED BY <1>5

LEMMA BestIsMostSimilar ==
    ASSUME FaceAssumption, NEW similarity \in [Operators -> Similarities]
    PROVE  /\ Best(similarity) \in Operators
           /\ \A j \in Operators : similarity[j] <= similarity[Best(similarity)]
<1> USE DEF FaceAssumption
<1> DEFINE T == {MaxSimilarity - similarity[j] : j \in Operators}
<1>1. T \subseteq Nat /\ T # {}
  <2>1. 1 \in Operators
    BY FaceAssumption DEF Operators
  <2>2. \A j \in Operators : similarity[j] \in Similarities
    OBVIOUS
  <2>3. \A j \in Operators : MaxSimilarity - similarity[j] \in Nat
    BY <2>2, FaceAssumption DEF Similarities
  <2> QED BY <2>1, <2>3
<1>2. PICK least \in T : \A y \in T : least <= y
  <2> HIDE DEF T
  <2> QED BY <1>1, LeastNatural
<1> DEFINE Most == {i \in Operators : MaxSimilarity - similarity[i] = least}
<1>3. Most \subseteq Nat /\ Most # {}
  BY <1>2, FaceAssumption DEF Operators
<1>4. PICK b \in Most : \A i \in Most : b <= i
  <2> HIDE DEF Most
  <2> QED BY <1>3, LeastNatural
<1>5. \A j \in Operators : /\ similarity[j] <= similarity[b]
                           /\ similarity[j] = similarity[b] => b <= j
  <2> SUFFICES ASSUME NEW j \in Operators
               PROVE  /\ similarity[j] <= similarity[b]
                      /\ similarity[j] = similarity[b] => b <= j
    OBVIOUS
  <2>1. similarity[j] \in Similarities /\ similarity[b] \in Similarities
    BY <1>4
  <2>2. least <= MaxSimilarity - similarity[j] /\ least = MaxSimilarity - similarity[b]
    BY <1>2, <1>4
  <2>3. similarity[j] <= similarity[b]
    BY <2>1, <2>2, FaceAssumption DEF Similarities
  <2>4. ASSUME similarity[j] = similarity[b] PROVE b <= j
    BY <2>2, <2>4, <1>4
  <2> QED BY <2>3, <2>4
<1>6. b \in Operators
  BY <1>4
<1> QED BY <1>5, <1>6 DEF Best

LEMMA MatchIsMostSimilar ==
    ASSUME FaceAssumption, NEW similarity \in [Operators -> Similarities],
           Match(similarity) # Nobody
    PROVE  /\ Match(similarity) \in Operators
           /\ similarity[Match(similarity)] >= SimilarityThreshold
           /\ \A j \in Operators : similarity[j] <= similarity[Match(similarity)]
<1> USE DEF FaceAssumption
<1>1. Match(similarity) = Best(similarity)
      /\ ~(similarity[Best(similarity)] < SimilarityThreshold)
  BY DEF Match
<1>2. similarity[Best(similarity)] \in Int
  BY BestIsMostSimilar, FaceAssumption DEF Similarities
<1> QED BY <1>1, <1>2, BestIsMostSimilar, FaceAssumption

-----------------------------------------------------------------------------
ScanTypes ==
    /\ candidate \in Operators \cup {Nobody} /\ count \in Nat
    /\ startedAt \in Int /\ positions \subseteq Int \X Int
    /\ frames \in Seq(Frame) /\ first \in 1..(Len(frames) + 1)

\* What the verifier holds was seen since its last reset, in frames that
\* showed one face.
Seen ==
    /\ \A i \in first..Len(frames) : frames[i].faces = 1
    /\ \A p \in positions : \E i \in first..Len(frames) : IsNear(frames[i]) /\ frames[i].nose = p
    /\ startedAt # NotStarted =>
          \E i \in first..Len(frames) : IsNear(frames[i]) /\ frames[i].at = startedAt

\* What is counted are the last frames, and the first of them was live.
Counted ==
    count > 0 =>
        /\ candidate \in Operators
        /\ first <= Len(frames) - count + 1
        /\ LiveBetween(frames, first, Len(frames) - count + 1)
        /\ \A i \in (Len(frames) - count + 1)..Len(frames) :
              IsNear(frames[i]) /\ Match(frames[i].similarity) = candidate

\* The scan ends with the frame that completes the count.
Complete ==
    /\ count <= MinimumConsecutiveMatches
    /\ status = "recognized" <=> count = MinimumConsecutiveMatches

ScanInv == ScanTypes /\ Seen /\ Counted /\ Complete

LEMMA InitScanInv == FaceAssumption /\ ScanInit => ScanInv
BY DEF FaceAssumption, ScanInit, ScanInv, ScanTypes, Seen, Counted, Complete, Frame, Nobody, NotStarted

LEMMA StepScanInv == ASSUME FaceAssumption, ScanInv, [ScanNext]_scanVars PROVE ScanInv'
<1> USE DEF ScanInv, FaceAssumption
<1>1. CASE UNCHANGED scanVars
  BY <1>1 DEF scanVars, ScanTypes, Seen, Counted, Complete, LiveBetween
<1>2. ASSUME NEW frame \in Frame, Process(frame) PROVE ScanInv'
  <2> DEFINE n == Len(frames)
  <2>1. /\ frames \in Seq(Frame) /\ n \in Nat
        /\ frames' \in Seq(Frame) /\ Len(frames') = n + 1
        /\ frames'[n + 1] = frame
        /\ \A i \in 1..n : frames'[i] = frames[i]
    BY <1>2 DEF ScanTypes, Process
  <2>2. /\ frame.at \in Nat /\ frame.nose \in Int \X Int
        /\ frame.similarity \in [Operators -> Similarities] /\ frame.size \in Int
    BY DEF Frame
  <2>3. status # "recognized" /\ count < MinimumConsecutiveMatches
    BY <1>2 DEF Process, ScanTypes, Complete
  <2>4. CASE NotAlone(frame)
    <3>1. /\ candidate' = Nobody /\ count' = 0 /\ startedAt' = NotStarted
          /\ positions' = {} /\ first' = n + 2
          /\ status' \in {"waiting_face", "multiple_faces"}
      BY <2>4 DEF NotAlone, ResetMatch
    <3>2. ScanTypes'
      BY <2>1, <3>1 DEF ScanTypes, NotStarted
    <3>3. Seen' /\ Counted' /\ Complete'
      BY <2>1, <3>1 DEF Seen, Counted, Complete
    <3> QED BY <3>2, <3>3
  <2>5. CASE TooFar(frame)
    <3>1. /\ candidate' = Nobody /\ count' = 0 /\ startedAt' = startedAt
          /\ positions' = positions /\ first' = first
          /\ frame.faces = 1 /\ status' = "move_closer"
      BY <2>5 DEF TooFar, ResetMatch
    <3>2. ScanTypes'
      BY <2>1, <3>1 DEF ScanTypes
    <3>3. Seen'
      BY <2>1, <3>1 DEF Seen, IsNear, ScanTypes
    <3> QED BY <2>1, <3>1, <3>2, <3>3 DEF Counted, Complete
  <2>6. CASE Observe(frame)
    <3>1. /\ frame.faces = 1 /\ IsNear(frame)
          /\ startedAt' = IF startedAt = NotStarted THEN frame.at ELSE startedAt
          /\ positions' = positions \cup {frame.nose} /\ first' = first
      BY <2>6, <2>2 DEF Observe, IsNear
    <3>2. Seen'
      <4>1. \A i \in first'..Len(frames') : frames'[i].faces = 1
        BY <2>1, <3>1 DEF Seen, ScanTypes
      <4>2. ASSUME NEW p \in positions'
            PROVE  \E i \in first'..Len(frames') : IsNear(frames'[i]) /\ frames'[i].nose = p
        <5>1. CASE p \in positions
          <6>1. PICK i \in first..n : IsNear(frames[i]) /\ frames[i].nose = p
            BY <5>1 DEF Seen
          <6>2. i \in 1..n /\ i \in first'..Len(frames') /\ frames'[i] = frames[i]
            BY <6>1, <2>1, <3>1 DEF ScanTypes
          <6> QED BY <6>1, <6>2
        <5>2. CASE p = frame.nose
          BY <5>2, <2>1, <3>1 DEF ScanTypes
        <5> QED BY <5>1, <5>2, <3>1
      <4>3. startedAt' # NotStarted =>
               \E i \in first'..Len(frames') : IsNear(frames'[i]) /\ frames'[i].at = startedAt'
        <5>1. CASE startedAt = NotStarted
          BY <5>1, <2>1, <3>1 DEF ScanTypes
        <5>2. CASE startedAt # NotStarted
          BY <5>2, <2>1, <3>1 DEF Seen, ScanTypes
        <5> QED BY <5>1, <5>2
      <4> QED BY <4>1, <4>2, <4>3 DEF Seen, IsNear
    <3>3. /\ startedAt' \in Int /\ startedAt' # NotStarted
          /\ positions' \subseteq Int \X Int
      BY <2>2, <3>1 DEF ScanTypes, NotStarted
    <3>4. CASE NotYetLive(frame) \/ NotMatched(frame)
      <4>1. candidate' = Nobody /\ count' = 0 /\ status' \in {"verifying_liveness", "not_recognized"}
        BY <3>4 DEF NotYetLive, NotMatched, ResetMatch
      <4> QED BY <2>1, <3>1, <3>2, <3>3, <4>1 DEF ScanTypes, Counted, Complete
    <3>5. CASE Matched(frame)
      <4>1. /\ Verified(frame, startedAt', positions')
            /\ Match(frame.similarity) # Nobody
            /\ candidate' = Match(frame.similarity)
            /\ count' = IF candidate = candidate' THEN count + 1 ELSE 1
            /\ status' = IF count' < MinimumConsecutiveMatches THEN "matching" ELSE "recognized"
        BY <3>5 DEF Matched
      <4>2. candidate' \in Operators /\ count' \in Nat \ {0}
            /\ count' <= MinimumConsecutiveMatches
        <5>1. Match(frame.similarity) \in Operators
          BY <2>2, <4>1, MatchIsMostSimilar
        <5> QED BY <2>3, <4>1, <5>1 DEF ScanTypes
      <4>3. ScanTypes'
        BY <2>1, <3>1, <3>3, <4>2 DEF ScanTypes
      <4>4. Complete'
        BY <4>1, <4>2 DEF Complete
      <4>5. LiveBetween(frames', first', n + 1)
        <5>1. PICK p \in positions', q \in positions' : Moved(p, q)
          BY <4>1 DEF Verified
        <5>2. PICK i \in first'..Len(frames') : IsNear(frames'[i]) /\ frames'[i].nose = p
          BY <3>2, <5>1 DEF Seen, IsNear
        <5>3. PICK j \in first'..Len(frames') : IsNear(frames'[j]) /\ frames'[j].nose = q
          BY <3>2, <5>1 DEF Seen, IsNear
        <5>4. PICK k \in first'..Len(frames') : IsNear(frames'[k]) /\ frames'[k].at = startedAt'
          BY <3>2, <3>3 DEF Seen, IsNear
        <5>5. frames'[n + 1].at - frames'[k].at >= MinimumDuration
          BY <2>1, <4>1, <5>4 DEF Verified
        <5>6. \A m \in first'..(n + 1) : frames'[m].faces = 1
          BY <2>1, <3>2 DEF Seen
        <5> QED BY <2>1, <5>1, <5>2, <5>3, <5>4, <5>5, <5>6 DEF LiveBetween, IsNear
      <4>6. Counted'
        <5>1. CASE count' = 1
          <6>1. first <= n + 1
            BY <2>1 DEF ScanTypes
          <6> QED BY <2>1, <3>1, <4>1, <4>2, <4>5, <5>1, <6>1 DEF Counted, IsNear
        <5>2. CASE count' # 1
          <6>1. count > 0 /\ candidate = candidate' /\ count' = count + 1
            BY <4>1, <5>2, <4>2 DEF ScanTypes
          <6> DEFINE s == n - count + 1
          <6>2. /\ s \in 1..n /\ first <= s /\ LiveBetween(frames, first, s)
                /\ \A i \in s..n : IsNear(frames[i]) /\ Match(frames[i].similarity) = candidate
            BY <6>1, <2>1 DEF Counted, ScanTypes
          <6>3. Len(frames') - count' + 1 = s
            <7>1. Len(frames') = n + 1 /\ n \in Nat /\ count \in Nat
              BY <2>1 DEF ScanTypes
            <7>2. PICK k : k = n
              OBVIOUS
            <7>3. (k + 1) - (count + 1) + 1 = k - count + 1
              BY <7>1, <7>2
            <7> QED BY <6>1, <7>1, <7>2, <7>3
          <6>4. \A i \in first..s : frames'[i] = frames[i]
            BY <2>1, <6>2 DEF ScanTypes
          <6>5. first \in Nat /\ first' = first
            BY <3>1 DEF ScanTypes
          <6>6. LiveBetween(frames', first', s)
            <7>1. s \in first..s
              BY <6>2, <6>5
            <7> HIDE DEF s
            <7> QED BY <6>2, <6>4, <6>5, <7>1 DEF LiveBetween, IsNear
          <6>7. \A i \in s..(n + 1) : IsNear(frames'[i]) /\ Match(frames'[i].similarity) = candidate'
            <7> SUFFICES ASSUME NEW i \in s..(n + 1)
                         PROVE  IsNear(frames'[i]) /\ Match(frames'[i].similarity) = candidate'
              OBVIOUS
            <7>1. CASE i = n + 1
              BY <7>1, <2>1, <3>1, <4>1
            <7>2. CASE i # n + 1
              BY <7>2, <2>1, <6>1, <6>2
            <7> QED BY <7>1, <7>2
          <6> QED BY <2>1, <4>2, <6>2, <6>3, <6>5, <6>6, <6>7 DEF Counted, IsNear
        <5> QED BY <5>1, <5>2
      <4> QED BY <3>2, <4>3, <4>4, <4>6
    <3>6. ~NotAlone(frame) /\ ~TooFar(frame)
      BY <2>6, <2>2, FaceAssumption DEF Observe, NotAlone, TooFar
    <3> QED BY <1>2, <3>4, <3>5, <3>6 DEF Process
  <2>7. NotAlone(frame) \/ TooFar(frame) \/ Observe(frame)
    BY <1>2 DEF Process, NotYetLive, NotMatched, Matched
  <2> QED BY <2>4, <2>5, <2>6, <2>7
<1> QED BY <1>1, <1>2 DEF ScanNext

LEMMA ScanInvIsEarned == FaceAssumption /\ ScanInv => RecognitionIsEarned
<1> USE DEF FaceAssumption
<1> SUFFICES ASSUME FaceAssumption, ScanInv, status = "recognized" PROVE RecognitionIsEarned
  BY DEF RecognitionIsEarned
<1> DEFINE streak == Len(frames) - MinimumConsecutiveMatches + 1
<1>1. /\ count = MinimumConsecutiveMatches /\ count > 0 /\ count \in Nat
      /\ candidate \in Operators /\ first <= streak
      /\ LiveBetween(frames, first, streak)
      /\ \A i \in streak..Len(frames) : IsNear(frames[i]) /\ Match(frames[i].similarity) = candidate
  BY FaceAssumption DEF ScanInv, ScanTypes, Counted, Complete
<1>2. first \in 1..streak /\ streak >= 1 /\ streak \in Nat /\ streak <= Len(frames)
  BY <1>1, FaceAssumption DEF ScanInv, ScanTypes
<1>3. ASSUME NEW i \in streak..Len(frames)
      PROVE  /\ IsNear(frames[i])
             /\ frames[i].similarity[candidate] >= SimilarityThreshold
             /\ \A j \in Operators : frames[i].similarity[j] <= frames[i].similarity[candidate]
  <2>1. frames[i] \in Frame
    BY <1>2 DEF ScanInv, ScanTypes
  <2>2. frames[i].similarity \in [Operators -> Similarities]
    BY <2>1 DEF Frame
  <2>3. Match(frames[i].similarity) = candidate /\ candidate # Nobody
    BY <1>1 DEF Operators, Nobody
  <2>4. Match(frames[i].similarity) # Nobody
    BY <2>3
  <2>5. /\ frames[i].similarity[Match(frames[i].similarity)] >= SimilarityThreshold
        /\ \A j \in Operators :
              frames[i].similarity[j] <= frames[i].similarity[Match(frames[i].similarity)]
    BY <2>2, <2>4, MatchIsMostSimilar
  <2> QED BY <1>1, <2>3, <2>5
<1>4. \A i \in streak..Len(frames) : frames[i].faces = 1
  BY <1>1 DEF IsNear
<1> HIDE DEF streak
<1> QED BY <1>1, <1>2, <1>3, <1>4 DEF RecognitionIsEarned, streak

\* A scan recognizes an operator only on enough frames in a row of one near
\* face that resembles this operator most, and enough, after a face alone had
\* moved for long enough (FaceAuthenticationPipeline.process).
THEOREM RecognitionEarned == FaceAssumption /\ ScanSpec => []RecognitionIsEarned
<1> SUFFICES ASSUME FaceAssumption PROVE ScanSpec => []RecognitionIsEarned
  OBVIOUS
<1>1. ScanSpec => []ScanInv
  BY InitScanInv, StepScanInv, PTL DEF ScanSpec
<1> QED BY <1>1, ScanInvIsEarned, PTL

(***************************************************************************)
(* PoseMonitoring, for any number of sessions, frames and signals.         *)
(***************************************************************************)
Captured == Sessions \cup {NoSession, NoFrame}
Signal == [kind : {"frame", "ready", "result", "failed", "finished"}, of : Captured]

PoseTypes ==
    /\ session \in Sessions \cup {NoSession}
    /\ phase \in {"none", "loading", "idle", "estimating", "leaving", "finished"}
    /\ stopRequested \in BOOLEAN /\ modelReady \in BOOLEAN
    /\ restartAfterFinish \in BOOLEAN /\ startQueued \in BOOLEAN
    /\ latest \in Captured /\ analysed \in Captured
    /\ signals \in Seq(Signal)

\* One ready waits at most, while its worker has not been given a frame; in a
\* session it is that of the worker that runs.
ReadyIsFirst ==
    /\ phase = "loading" => ~modelReady /\ ~Waits("ready")
    /\ Waits("ready") =>
          /\ ~modelReady /\ latest = NoFrame /\ phase \in {"idle", "finished", "none"}
          /\ session # NoSession => phase = "idle" /\ ~stopRequested
    /\ \A i, j \in 1..Len(signals) :
          signals[i].kind = "ready" /\ signals[j].kind = "ready" => i = j

\* A frame of another time comes before any ready that waits, and no worker
\* takes it until then.
OldFramesAreRefused ==
    session # NoSession =>
        \A i \in 1..Len(signals) :
            signals[i].kind = "frame" /\ signals[i].of # session =>
                /\ \A j \in 1..(i - 1) : signals[j].kind # "ready"
                /\ ~modelReady \/ stopRequested \/ ~isRunning

\* A result comes before any ready that waits; one of another session finds
\* the controller not ready.
OldResultsAreDropped ==
    \A i \in 1..Len(signals) :
        signals[i].kind = "result" =>
            /\ signals[i].of \notin {NoSession, NoFrame}
            /\ \A j \in 1..(i - 1) : signals[j].kind # "ready"
            /\ signals[i].of # session => ~modelReady

OldWorkIsDropped ==
    phase = "estimating" =>
        /\ analysed \notin {NoSession, NoFrame}
        /\ ~Waits("ready")
        /\ analysed # session => ~modelReady

LatestIsOfTheSession ==
    latest # NoFrame =>
        /\ session # NoSession /\ latest = session
        /\ phase \in {"idle", "estimating", "leaving"} /\ ~stopRequested

StoppedBetweenSessions ==
    session = NoSession => (isRunning => stopRequested) /\ ~restartAfterFinish

PoseInv ==
    /\ PoseTypes /\ ReadyIsFirst /\ OldFramesAreRefused /\ OldResultsAreDropped
    /\ OldWorkIsDropped /\ LatestIsOfTheSession /\ StoppedBetweenSessions
    /\ RestartIsPending

LEMMA InitPoseInv == Init => PoseInv
<1> SUFFICES ASSUME Init PROVE PoseInv
  OBVIOUS
<1>1. signals = <<>> /\ Len(signals) = 0 /\ \A k : ~Waits(k)
  BY DEF Init, Waits
<1>2. PoseTypes
  <2>1. signals \in Seq(Signal)
    BY <1>1
  <2> QED BY <2>1 DEF Init, PoseTypes, Captured
<1>3. ReadyIsFirst /\ OldFramesAreRefused /\ OldResultsAreDropped
  BY <1>1 DEF Init, ReadyIsFirst, OldFramesAreRefused, OldResultsAreDropped
<1>4. OldWorkIsDropped /\ LatestIsOfTheSession /\ StoppedBetweenSessions /\ RestartIsPending
  BY DEF Init, OldWorkIsDropped, LatestIsOfTheSession, StoppedBetweenSessions,
         RestartIsPending, isRunning
<1> QED BY <1>2, <1>3, <1>4 DEF PoseInv

\* Handling a signal moves the others one place forward.
LEMMA Popped ==
    ASSUME PoseTypes, NEW kind, Handling(kind)
    PROVE  /\ Len(signals) \in Nat \ {0} /\ signals[1].kind = kind
           /\ Head(signals) = signals[1] /\ signals[1] \in Signal
           /\ signals' \in Seq(Signal) /\ Len(signals') = Len(signals) - 1
           /\ \A i \in 1..Len(signals') : signals'[i] = signals[i + 1]
           /\ \A k : Waits(k)' => Waits(k)
           /\ \A k : k # kind /\ Waits(k) => Waits(k)'
<1>1. /\ signals \in Seq(Signal) /\ signals # <<>> /\ signals' = Tail(signals)
      /\ Head(signals).kind = kind
  BY DEF PoseTypes, Handling
<1>2. /\ Len(signals) \in Nat \ {0} /\ Head(signals) = signals[1] /\ signals[1] \in Signal
      /\ signals' \in Seq(Signal) /\ Len(signals') = Len(signals) - 1
      /\ \A i \in 1..Len(signals') : signals'[i] = signals[i + 1]
  BY <1>1
<1>3. ASSUME NEW k, Waits(k)' PROVE Waits(k)
  <2>1. PICK i \in 1..Len(signals') : signals'[i].kind = k
    BY <1>3 DEF Waits
  <2>2. i + 1 \in 1..Len(signals) /\ signals[i + 1].kind = k
    BY <1>2, <2>1
  <2> QED BY <2>2 DEF Waits
<1>4. ASSUME NEW k, k # kind, Waits(k) PROVE Waits(k)'
  <2>1. PICK i \in 1..Len(signals) : signals[i].kind = k
    BY <1>4 DEF Waits
  <2>2. i # 1
    BY <1>1, <1>2, <1>4, <2>1
  <2>3. i - 1 \in 1..Len(signals') /\ signals'[i - 1].kind = k
    BY <1>2, <2>1, <2>2
  <2> QED BY <2>3 DEF Waits
<1> QED BY <1>1, <1>2, <1>3, <1>4

LEMMA Posted ==
    ASSUME PoseTypes, NEW signal \in Signal, Post(signal)
    PROVE  /\ Len(signals) \in Nat
           /\ signals' \in Seq(Signal) /\ Len(signals') = Len(signals) + 1
           /\ \A i \in 1..Len(signals) : signals'[i] = signals[i]
           /\ signals'[Len(signals) + 1] = signal
           /\ \A k : Waits(k)' <=> Waits(k) \/ k = signal.kind
<1>1. /\ Len(signals) \in Nat
      /\ signals' \in Seq(Signal) /\ Len(signals') = Len(signals) + 1
      /\ \A i \in 1..Len(signals) : signals'[i] = signals[i]
      /\ signals'[Len(signals) + 1] = signal
  BY DEF PoseTypes, Post
<1>2. ASSUME NEW k, Waits(k) PROVE Waits(k)'
  BY <1>1, <1>2 DEF Waits
<1>3. ASSUME NEW k, k = signal.kind PROVE Waits(k)'
  BY <1>1, <1>3 DEF Waits
<1>4. ASSUME NEW k, Waits(k)' PROVE Waits(k) \/ k = signal.kind
  <2>1. PICK i \in 1..Len(signals') : signals'[i].kind = k
    BY <1>4 DEF Waits
  <2>2. CASE i = Len(signals) + 1
    BY <1>1, <2>1, <2>2
  <2>3. CASE i # Len(signals) + 1
    BY <1>1, <2>1, <2>3 DEF Waits
  <2> QED BY <2>2, <2>3
<1> QED BY <1>1, <1>2, <1>3, <1>4

\* The facts about what waits survive a handled signal, if no worker appears
\* and the controller does not become ready.
LEMMA PopKeepsQueue ==
    ASSUME PoseInv, NEW kind, Handling(kind), UNCHANGED <<session, stopRequested>>,
           isRunning' => isRunning, modelReady' => modelReady
    PROVE  /\ OldFramesAreRefused' /\ OldResultsAreDropped'
           /\ \A i, j \in 1..Len(signals') :
                 signals'[i].kind = "ready" /\ signals'[j].kind = "ready" => i = j
<1>1. /\ Len(signals) \in Nat \ {0}
      /\ signals' \in Seq(Signal) /\ Len(signals') = Len(signals) - 1
      /\ \A i \in 1..Len(signals') : signals'[i] = signals[i + 1]
  BY Popped DEF PoseInv
<1>2. ASSUME NEW i \in 1..Len(signals'),
             \A j \in 1..i : signals[j].kind # "ready"
      PROVE  \A j \in 1..(i - 1) : signals'[j].kind # "ready"
  BY <1>1, <1>2
<1>3. OldFramesAreRefused'
  <2> SUFFICES ASSUME session' # NoSession, NEW i \in 1..Len(signals'),
                      signals'[i].kind = "frame", signals'[i].of # session'
               PROVE  /\ \A j \in 1..(i - 1) : signals'[j].kind # "ready"
                      /\ ~modelReady' \/ stopRequested' \/ ~isRunning'
    BY DEF OldFramesAreRefused
  <2>1. i + 1 \in 1..Len(signals) /\ signals'[i] = signals[i + 1] /\ (i + 1) - 1 = i
    BY <1>1
  <2>2. /\ \A j \in 1..i : signals[j].kind # "ready"
        /\ ~modelReady \/ stopRequested \/ ~isRunning
    BY <2>1 DEF PoseInv, OldFramesAreRefused
  <2> QED BY <1>2, <2>2
<1>4. OldResultsAreDropped'
  <2> SUFFICES ASSUME NEW i \in 1..Len(signals'), signals'[i].kind = "result"
               PROVE  /\ signals'[i].of \notin {NoSession, NoFrame}
                      /\ \A j \in 1..(i - 1) : signals'[j].kind # "ready"
                      /\ signals'[i].of # session' => ~modelReady'
    BY DEF OldResultsAreDropped
  <2>1. i + 1 \in 1..Len(signals) /\ signals'[i] = signals[i + 1] /\ (i + 1) - 1 = i
    BY <1>1
  <2>2. /\ signals[i + 1].of \notin {NoSession, NoFrame}
        /\ \A j \in 1..i : signals[j].kind # "ready"
        /\ signals[i + 1].of # session => ~modelReady
    BY <2>1 DEF PoseInv, OldResultsAreDropped
  <2> QED BY <1>2, <2>1, <2>2
<1>5. ASSUME NEW i \in 1..Len(signals'), NEW j \in 1..Len(signals'),
             signals'[i].kind = "ready", signals'[j].kind = "ready"
      PROVE  i = j
  <2>1. i + 1 \in 1..Len(signals) /\ j + 1 \in 1..Len(signals)
        /\ signals[i + 1].kind = "ready" /\ signals[j + 1].kind = "ready"
    BY <1>1, <1>5
  <2>2. i + 1 = j + 1
    BY <2>1 DEF PoseInv, ReadyIsFirst
  <2> QED BY <1>1, <2>2
<1> QED BY <1>3, <1>4, <1>5

\* They survive a signal that is no ready, if it is neither a frame of another
\* time nor a result that the controller should not take.
LEMMA PostKeepsQueue ==
    ASSUME PoseInv, NEW signal \in Signal, Post(signal), signal.kind # "ready",
           UNCHANGED <<session, stopRequested, modelReady>>, isRunning' => isRunning,
           signal.kind = "frame" => signal.of = session,
           signal.kind = "result" =>
              /\ signal.of \notin {NoSession, NoFrame} /\ ~Waits("ready")
              /\ signal.of # session => ~modelReady
    PROVE  /\ OldFramesAreRefused' /\ OldResultsAreDropped'
           /\ \A i, j \in 1..Len(signals') :
                 signals'[i].kind = "ready" /\ signals'[j].kind = "ready" => i = j
<1>1. /\ Len(signals) \in Nat
      /\ signals' \in Seq(Signal) /\ Len(signals') = Len(signals) + 1
      /\ \A i \in 1..Len(signals) : signals'[i] = signals[i]
      /\ signals'[Len(signals) + 1] = signal
  BY Posted DEF PoseInv
<1>2. OldFramesAreRefused'
  <2> SUFFICES ASSUME session' # NoSession, NEW i \in 1..Len(signals'),
                      signals'[i].kind = "frame", signals'[i].of # session'
               PROVE  /\ \A j \in 1..(i - 1) : signals'[j].kind # "ready"
                      /\ ~modelReady' \/ stopRequested' \/ ~isRunning'
    BY DEF OldFramesAreRefused
  <2>1. i # Len(signals) + 1
    BY <1>1
  <2>2. i \in 1..Len(signals) /\ signals'[i] = signals[i]
    BY <1>1, <2>1
  <2>3. /\ \A j \in 1..(i - 1) : signals[j].kind # "ready"
        /\ ~modelReady \/ stopRequested \/ ~isRunning
    BY <2>2 DEF PoseInv, OldFramesAreRefused
  <2>4. \A j \in 1..(i - 1) : signals'[j] = signals[j]
    BY <1>1, <2>2
  <2> QED BY <2>3, <2>4
<1>3. OldResultsAreDropped'
  <2> SUFFICES ASSUME NEW i \in 1..Len(signals'), signals'[i].kind = "result"
               PROVE  /\ signals'[i].of \notin {NoSession, NoFrame}
                      /\ \A j \in 1..(i - 1) : signals'[j].kind # "ready"
                      /\ signals'[i].of # session' => ~modelReady'
    BY DEF OldResultsAreDropped
  <2>1. CASE i = Len(signals) + 1
    <3>1. \A j \in 1..Len(signals) : signals[j].kind # "ready"
      BY <1>1, <2>1 DEF Waits
    <3> QED BY <1>1, <2>1, <3>1
  <2>2. CASE i # Len(signals) + 1
    <3>1. i \in 1..Len(signals) /\ signals'[i] = signals[i]
      BY <1>1, <2>2
    <3>2. /\ signals[i].of \notin {NoSession, NoFrame}
          /\ \A j \in 1..(i - 1) : signals[j].kind # "ready"
          /\ signals[i].of # session => ~modelReady
      BY <3>1 DEF PoseInv, OldResultsAreDropped
    <3>3. \A j \in 1..(i - 1) : signals'[j] = signals[j]
      BY <1>1, <3>1
    <3> QED BY <3>1, <3>2, <3>3
  <2> QED BY <2>1, <2>2
<1>4. ASSUME NEW i \in 1..Len(signals'), NEW j \in 1..Len(signals'),
             signals'[i].kind = "ready", signals'[j].kind = "ready"
      PROVE  i = j
  <2>1. i \in 1..Len(signals) /\ j \in 1..Len(signals)
    BY <1>1, <1>4
  <2> QED BY <1>1, <1>4, <2>1 DEF PoseInv, ReadyIsFirst
<1> QED BY <1>2, <1>3, <1>4
-----------------------------------------------------------------------------
\* A start by the page that monitors: whatever waits in the queue then is of
\* no worker that starts here.
LEMMA StartKeepsIInv ==
    ASSUME PoseInv, start, session' \in Sessions, UNCHANGED signals,
           session' = session \/ (session = NoSession /\ ~Waits("ready")),
           NoSession \notin Sessions, startQueued' \in BOOLEAN
    PROVE  PoseInv'
<1> USE DEF PoseInv
<1>1. \A k : Waits(k)' <=> Waits(k)
  BY DEF Waits
<1>2. CASE isRunning
  <2>1. /\ restartAfterFinish' = (restartAfterFinish \/ stopRequested)
        /\ UNCHANGED <<phase, stopRequested, latest, analysed, modelReady>>
        /\ isRunning'
    BY <1>2 DEF start, workerVars, isRunning
  <2>2. session # session' => stopRequested /\ ~Waits("ready") /\ session = NoSession
    BY <1>2 DEF StoppedBetweenSessions
  <2>3. PoseTypes' /\ ReadyIsFirst'
    BY <1>1, <2>1, <2>2 DEF PoseTypes, ReadyIsFirst
  <2>4. OldFramesAreRefused'
    <3>1. CASE session' = session
      BY <1>2, <2>1, <3>1 DEF OldFramesAreRefused
    <3>2. CASE session' # session
      BY <2>1, <2>2, <3>2 DEF OldFramesAreRefused, Waits, PoseTypes
    <3> QED BY <3>1, <3>2
  <2>5. OldResultsAreDropped' /\ OldWorkIsDropped'
    BY <1>1, <2>1, <2>2 DEF OldResultsAreDropped, OldWorkIsDropped
  <2>6. LatestIsOfTheSession' /\ StoppedBetweenSessions' /\ RestartIsPending'
    BY <2>1, <2>2 DEF LatestIsOfTheSession, StoppedBetweenSessions, RestartIsPending
  <2> QED BY <2>3, <2>4, <2>5, <2>6
<1>3. CASE ~isRunning
  <2>1. /\ ~restartAfterFinish' /\ ~modelReady' /\ phase' = "loading" /\ ~stopRequested'
        /\ restartAfterFinish' \in BOOLEAN /\ modelReady' \in BOOLEAN
        /\ stopRequested' \in BOOLEAN
        /\ latest' = NoFrame /\ analysed' = NoFrame
    BY <1>3 DEF start, Launch
  <2>2. ~Waits("ready") /\ ~Waits("ready")'
    BY <1>1, <1>3 DEF ReadyIsFirst, isRunning
  <2>3. PoseTypes' /\ ReadyIsFirst'
    BY <2>1, <2>2 DEF PoseTypes, ReadyIsFirst, Captured
  <2>4. OldFramesAreRefused' /\ OldResultsAreDropped'
    BY <2>1, <2>2 DEF OldFramesAreRefused, OldResultsAreDropped, Waits
  <2>5. OldWorkIsDropped' /\ LatestIsOfTheSession' /\ StoppedBetweenSessions'
        /\ RestartIsPending'
    BY <2>1 DEF OldWorkIsDropped, LatestIsOfTheSession, StoppedBetweenSessions,
                RestartIsPending
  <2> QED BY <2>3, <2>4, <2>5
<1> QED BY <1>2, <1>3

\* The handlers of the UI thread.
LEMMA HandlersKeepIInv ==
    ASSUME SessionAssumption, PoseInv,
           SubmitFrame \/ HandleModelReady \/ HandlePoses \/ HandleFailure \/ HandleFinished
    PROVE  PoseInv'
<1> USE DEF PoseInv
<1>1. CASE SubmitFrame
  <2>1. /\ Handling("frame")
        /\ latest' = IF modelReady /\ isRunning /\ ~stopRequested
                     THEN Head(signals).of ELSE latest
        /\ UNCHANGED <<session, phase, stopRequested, analysed, modelReady,
                       restartAfterFinish, startQueued>>
        /\ isRunning' <=> isRunning
    BY <1>1 DEF SubmitFrame, isRunning
  <2>2. /\ Len(signals) \in Nat \ {0} /\ signals[1].kind = "frame"
        /\ Head(signals) = signals[1] /\ signals[1] \in Signal
        /\ signals' \in Seq(Signal)
        /\ (Waits("ready")' => Waits("ready"))
        /\ (Waits("finished") => Waits("finished")')
    BY <2>1, Popped
  <2>3. /\ OldFramesAreRefused' /\ OldResultsAreDropped'
        /\ \A i, j \in 1..Len(signals') :
              signals'[i].kind = "ready" /\ signals'[j].kind = "ready" => i = j
    BY <2>1, PopKeepsQueue
  <2>4. modelReady /\ isRunning /\ ~stopRequested =>
            /\ session # NoSession /\ signals[1].of = session
            /\ phase \in {"idle", "estimating", "leaving"}
    BY <2>2 DEF StoppedBetweenSessions, OldFramesAreRefused, ReadyIsFirst, isRunning
  <2>5. PoseTypes'
    BY <2>1, <2>2 DEF PoseTypes, Signal
  <2>6. ReadyIsFirst'
    BY <2>1, <2>2, <2>3 DEF ReadyIsFirst
  <2>7. OldWorkIsDropped' /\ StoppedBetweenSessions' /\ RestartIsPending'
    BY <2>1, <2>2 DEF OldWorkIsDropped, StoppedBetweenSessions, RestartIsPending
  <2>8. LatestIsOfTheSession'
    BY <2>1, <2>2, <2>4 DEF LatestIsOfTheSession
  <2> QED BY <2>3, <2>5, <2>6, <2>7, <2>8
<1>2. CASE HandleModelReady
  <2>1. /\ Handling("ready") /\ modelReady' = TRUE
        /\ UNCHANGED <<session, phase, stopRequested, latest, analysed,
                       restartAfterFinish, startQueued>>
        /\ isRunning' <=> isRunning
    BY <1>2 DEF HandleModelReady, workerVars, isRunning
  <2>2. /\ Len(signals) \in Nat \ {0} /\ signals[1].kind = "ready"
        /\ signals' \in Seq(Signal) /\ Len(signals') = Len(signals) - 1
        /\ \A i \in 1..Len(signals') : signals'[i] = signals[i + 1]
        /\ (Waits("finished") => Waits("finished")')
    BY <2>1, Popped
  <2>3. /\ Waits("ready")
        /\ \A i \in 2..Len(signals) : signals[i].kind # "ready"
    BY <2>2 DEF Waits, ReadyIsFirst
  <2>4. ~Waits("ready")'
    <3> SUFFICES ASSUME NEW i \in 1..Len(signals'), signals'[i].kind = "ready"
                 PROVE  FALSE
      BY DEF Waits
    <3>1. i + 1 \in 2..Len(signals)
      BY <2>2
    <3> QED BY <2>2, <2>3, <3>1
  <2>5. \A i \in 1..Len(signals') : signals'[i].kind # "result"
    <3> SUFFICES ASSUME NEW i \in 1..Len(signals'), signals'[i].kind = "result"
                 PROVE  FALSE
      OBVIOUS
    <3>1. i + 1 \in 1..Len(signals) /\ 1 \in 1..((i + 1) - 1) /\ signals[i + 1].kind = "result"
      BY <2>2
    <3> QED BY <2>2, <3>1 DEF OldResultsAreDropped
  <2>6. session # NoSession =>
            \A i \in 1..Len(signals') : signals'[i].kind = "frame" => signals'[i].of = session
    <3> SUFFICES ASSUME session # NoSession, NEW i \in 1..Len(signals'),
                        signals'[i].kind = "frame", signals'[i].of # session
                 PROVE  FALSE
      OBVIOUS
    <3>1. i + 1 \in 1..Len(signals) /\ 1 \in 1..((i + 1) - 1)
          /\ signals[i + 1].kind = "frame" /\ signals[i + 1].of # session
      BY <2>2
    <3> QED BY <2>2, <3>1 DEF OldFramesAreRefused
  <2>7. phase # "estimating" /\ phase # "loading"
    BY <2>3 DEF OldWorkIsDropped, ReadyIsFirst
  <2>8. PoseTypes'
    BY <2>1, <2>2 DEF PoseTypes
  <2>9. ReadyIsFirst'
    BY <2>1, <2>4, <2>7 DEF ReadyIsFirst, Waits
  <2>10. OldFramesAreRefused' /\ OldResultsAreDropped'
    BY <2>1, <2>5, <2>6 DEF OldFramesAreRefused, OldResultsAreDropped
  <2>11. OldWorkIsDropped' /\ LatestIsOfTheSession' /\ StoppedBetweenSessions'
         /\ RestartIsPending'
    BY <2>1, <2>2, <2>7 DEF OldWorkIsDropped, LatestIsOfTheSession,
                            StoppedBetweenSessions, RestartIsPending
  <2> QED BY <2>8, <2>9, <2>10, <2>11
<1>3. CASE HandlePoses \/ HandleFailure
  <2>0. modelReady \in BOOLEAN
    BY DEF PoseTypes
  <2>1. PICK kind \in {"result", "failed"} :
           /\ Handling(kind) /\ modelReady' \in BOOLEAN /\ (modelReady' => modelReady)
           /\ UNCHANGED <<session, phase, stopRequested, latest, analysed,
                          restartAfterFinish, startQueued>>
    <3>1. CASE HandlePoses
      BY <2>0, <3>1 DEF HandlePoses, workerVars
    <3>2. CASE HandleFailure
      BY <2>0, <3>2 DEF HandleFailure, workerVars
    <3> QED BY <1>3, <3>1, <3>2
  <2>2. isRunning' <=> isRunning
    BY <2>1 DEF isRunning
  <2>3. /\ signals' \in Seq(Signal)
        /\ (Waits("ready")' => Waits("ready"))
        /\ (Waits("finished") => Waits("finished")')
    BY <2>1, Popped
  <2>4. /\ OldFramesAreRefused' /\ OldResultsAreDropped'
        /\ \A i, j \in 1..Len(signals') :
              signals'[i].kind = "ready" /\ signals'[j].kind = "ready" => i = j
    BY <2>1, <2>2, PopKeepsQueue
  <2>5. PoseTypes'
    BY <2>1, <2>3 DEF PoseTypes
  <2>6. ReadyIsFirst'
    BY <2>1, <2>3, <2>4 DEF ReadyIsFirst
  <2>7. OldWorkIsDropped'
    BY <2>1, <2>3 DEF OldWorkIsDropped
  <2>8. LatestIsOfTheSession' /\ StoppedBetweenSessions' /\ RestartIsPending'
    BY <2>1, <2>2, <2>3 DEF LatestIsOfTheSession, StoppedBetweenSessions, RestartIsPending
  <2> QED BY <2>4, <2>5, <2>6, <2>7, <2>8
<1>4. CASE HandleFinished
  <2>1. /\ Handling("finished")
        /\ phase' = IF isRunning THEN phase ELSE "none"
        /\ startQueued' = (startQueued \/ (restartAfterFinish /\ session # NoSession))
        /\ restartAfterFinish' = (restartAfterFinish /\ session = NoSession)
        /\ UNCHANGED <<session, stopRequested, latest, analysed, modelReady>>
    BY <1>4 DEF HandleFinished
  <2>2. isRunning' <=> isRunning
    BY <2>1 DEF isRunning
  <2>3. /\ signals' \in Seq(Signal) /\ (Waits("ready")' => Waits("ready"))
    BY <2>1, Popped
  <2>4. /\ OldFramesAreRefused' /\ OldResultsAreDropped'
        /\ \A i, j \in 1..Len(signals') :
              signals'[i].kind = "ready" /\ signals'[j].kind = "ready" => i = j
    BY <2>1, <2>2, PopKeepsQueue
  <2>5. PoseTypes'
    BY <2>1, <2>3 DEF PoseTypes
  <2>6. ReadyIsFirst'
    BY <2>1, <2>3, <2>4 DEF ReadyIsFirst, isRunning
  <2>7. OldWorkIsDropped' /\ LatestIsOfTheSession'
    BY <2>1, <2>3 DEF OldWorkIsDropped, LatestIsOfTheSession, isRunning
  <2>8. StoppedBetweenSessions' /\ RestartIsPending'
    BY <2>1, <2>2 DEF StoppedBetweenSessions, RestartIsPending
  <2> QED BY <2>4, <2>5, <2>6, <2>7, <2>8
<1> QED BY <1>1, <1>2, <1>3, <1>4

\* The camera and the worker, which post.
LEMMA ThreadsKeepIInv ==
    ASSUME SessionAssumption, PoseInv, Capture \/ RunWorker
    PROVE  PoseInv'
<1> USE DEF PoseInv
<1>0. RunWorker => UNCHANGED <<session, modelReady, restartAfterFinish, startQueued>>
  BY DEF RunWorker
<1>1. CASE Capture
  <2>1. UNCHANGED <<session, phase, stopRequested, latest, analysed, modelReady,
                    restartAfterFinish, startQueued>>
    BY <1>1 DEF Capture, workerVars
  <2> DEFINE signal == [kind |-> "frame", of |-> session]
  <2>2. Post(signal) /\ signal \in Signal /\ signal.kind = "frame" /\ signal.of = session
    BY <1>1 DEF Capture, Signal, Captured, PoseTypes
  <2> HIDE DEF signal
  <2>3. isRunning' <=> isRunning
    BY <2>1 DEF isRunning
  <2>4. /\ signals' \in Seq(Signal) /\ (Waits("ready")' => Waits("ready"))
        /\ (Waits("finished") => Waits("finished")')
    BY <2>2, Posted
  <2>5. /\ OldFramesAreRefused' /\ OldResultsAreDropped'
        /\ \A i, j \in 1..Len(signals') :
              signals'[i].kind = "ready" /\ signals'[j].kind = "ready" => i = j
    BY <2>1, <2>2, <2>3, PostKeepsQueue
  <2>6. PoseTypes'
    BY <2>1, <2>4 DEF PoseTypes
  <2>7. ReadyIsFirst'
    BY <2>1, <2>4, <2>5 DEF ReadyIsFirst
  <2>8. OldWorkIsDropped'
    BY <2>1, <2>4 DEF OldWorkIsDropped
  <2>9. LatestIsOfTheSession' /\ StoppedBetweenSessions' /\ RestartIsPending'
    BY <2>1, <2>3, <2>4 DEF LatestIsOfTheSession, StoppedBetweenSessions, RestartIsPending
  <2> QED BY <2>5, <2>6, <2>7, <2>8, <2>9
<1>2. CASE RunWorker /\ LoadModel
  <2>1. /\ UNCHANGED <<session, modelReady, restartAfterFinish, startQueued>>
        /\ UNCHANGED <<stopRequested, latest, analysed>>
        /\ phase = "loading" /\ ~stopRequested /\ phase' = "idle"
    BY <1>0, <1>2 DEF LoadModel
  <2> DEFINE signal == [kind |-> "ready", of |-> NoFrame]
  <2>2. Post(signal) /\ signal \in Signal /\ signal.kind = "ready"
    BY <1>2 DEF LoadModel, Signal, Captured
  <2> HIDE DEF signal
  <2>3. /\ Len(signals) \in Nat
        /\ signals' \in Seq(Signal) /\ Len(signals') = Len(signals) + 1
        /\ \A i \in 1..Len(signals) : signals'[i] = signals[i]
        /\ signals'[Len(signals) + 1].kind = "ready"
    BY <2>2, Posted
  <2>4. ~modelReady /\ latest = NoFrame /\ session # NoSession
        /\ \A i \in 1..Len(signals) : signals[i].kind # "ready"
    BY <2>1 DEF ReadyIsFirst, LatestIsOfTheSession, StoppedBetweenSessions, isRunning, Waits
  <2>5. PoseTypes'
    BY <2>1, <2>3 DEF PoseTypes
  <2>6. ReadyIsFirst'
    <3>1. ASSUME NEW i \in 1..Len(signals'), signals'[i].kind = "ready"
          PROVE  i = Len(signals')
      <4>1. i \notin 1..Len(signals)
        BY <2>3, <2>4, <3>1
      <4> QED BY <2>3, <4>1
    <3> QED BY <2>1, <2>4, <3>1 DEF ReadyIsFirst
  <2>7. OldFramesAreRefused' /\ OldResultsAreDropped'
    <3>1. ASSUME NEW i \in 1..Len(signals'), signals'[i].kind \in {"frame", "result"}
          PROVE  /\ i \in 1..Len(signals) /\ signals'[i] = signals[i]
                 /\ \A j \in 1..(i - 1) : signals'[j].kind # "ready"
      <4>1. i # Len(signals) + 1
        BY <2>3, <3>1
      <4>2. i \in 1..Len(signals) /\ signals'[i] = signals[i]
        BY <2>3, <4>1
      <4>3. \A j \in 1..(i - 1) : j \in 1..Len(signals)
        BY <2>3, <4>2
      <4> QED BY <2>3, <2>4, <4>2, <4>3
    <3>2. OldFramesAreRefused'
      BY <2>1, <2>4, <3>1 DEF OldFramesAreRefused
    <3>3. OldResultsAreDropped'
      BY <2>1, <2>4, <3>1 DEF OldResultsAreDropped
    <3> QED BY <3>2, <3>3
  <2>8. OldWorkIsDropped' /\ LatestIsOfTheSession' /\ StoppedBetweenSessions'
        /\ RestartIsPending'
    BY <2>1, <2>4 DEF OldWorkIsDropped, LatestIsOfTheSession, StoppedBetweenSessions,
                      RestartIsPending
  <2> QED BY <2>5, <2>6, <2>7, <2>8
<1>3. CASE RunWorker /\ TakeLatestFrame
  <2>1. /\ UNCHANGED <<session, modelReady, restartAfterFinish, startQueued>>
        /\ phase = "idle" /\ ~stopRequested /\ latest # NoFrame
        /\ phase' = "estimating" /\ analysed' = latest /\ latest' = NoFrame
        /\ UNCHANGED <<stopRequested, signals>>
    BY <1>0, <1>3 DEF TakeLatestFrame
  <2>2. isRunning' /\ isRunning /\ \A k : Waits(k)' <=> Waits(k)
    BY <2>1 DEF isRunning, Waits
  <2>3. ~Waits("ready")
    BY <2>1 DEF ReadyIsFirst
  <2>4. session # NoSession /\ latest = session /\ latest \notin {NoSession, NoFrame}
    BY <2>1 DEF LatestIsOfTheSession, PoseTypes
  <2>5. PoseTypes'
    BY <2>1 DEF PoseTypes, Captured
  <2>6. ReadyIsFirst'
    BY <2>1, <2>2, <2>3 DEF ReadyIsFirst
  <2>7. OldFramesAreRefused' /\ OldResultsAreDropped'
    BY <2>1, <2>2 DEF OldFramesAreRefused, OldResultsAreDropped
  <2>8. OldWorkIsDropped' /\ LatestIsOfTheSession' /\ StoppedBetweenSessions'
        /\ RestartIsPending'
    BY <2>1, <2>2, <2>3, <2>4 DEF OldWorkIsDropped, LatestIsOfTheSession,
                                  StoppedBetweenSessions, RestartIsPending
  <2> QED BY <2>5, <2>6, <2>7, <2>8
<1>4. CASE RunWorker /\ EmitResult
  <2>1. /\ UNCHANGED <<session, modelReady, restartAfterFinish, startQueued>>
        /\ phase = "estimating" /\ phase' = "idle"
        /\ UNCHANGED <<stopRequested, latest, analysed>>
    BY <1>0, <1>4 DEF EmitResult
  <2> DEFINE signal == [kind |-> "result", of |-> analysed]
  <2>2. Post(signal) /\ signal \in Signal /\ signal.kind = "result" /\ signal.of = analysed
    BY <1>4 DEF EmitResult, Signal, PoseTypes
  <2> HIDE DEF signal
  <2>3. isRunning' /\ isRunning
    BY <2>1 DEF isRunning
  <2>4. analysed \notin {NoSession, NoFrame} /\ ~Waits("ready")
        /\ (analysed # session => ~modelReady)
    BY <2>1 DEF OldWorkIsDropped
  <2>5. /\ signals' \in Seq(Signal) /\ ~Waits("ready")'
    BY <2>2, <2>4, Posted
  <2>6. /\ OldFramesAreRefused' /\ OldResultsAreDropped'
        /\ \A i, j \in 1..Len(signals') :
              signals'[i].kind = "ready" /\ signals'[j].kind = "ready" => i = j
    BY <2>1, <2>2, <2>3, <2>4, PostKeepsQueue
  <2>7. PoseTypes'
    BY <2>1, <2>5 DEF PoseTypes
  <2>8. ReadyIsFirst'
    BY <2>1, <2>5, <2>6 DEF ReadyIsFirst
  <2>9. OldWorkIsDropped' /\ LatestIsOfTheSession' /\ StoppedBetweenSessions'
        /\ RestartIsPending'
    BY <2>1, <2>3 DEF OldWorkIsDropped, LatestIsOfTheSession, StoppedBetweenSessions,
                      RestartIsPending
  <2> QED BY <2>6, <2>7, <2>8, <2>9
<1>5. CASE RunWorker /\ Fail
  <2>1. /\ UNCHANGED <<session, modelReady, restartAfterFinish, startQueued>>
        /\ phase \in {"loading", "estimating"} /\ phase' = "leaving"
        /\ UNCHANGED <<stopRequested, latest, analysed>>
    BY <1>0, <1>5 DEF Fail
  <2> DEFINE signal == [kind |-> "failed", of |-> NoFrame]
  <2>2. Post(signal) /\ signal \in Signal /\ signal.kind = "failed"
    BY <1>5 DEF Fail, Signal, Captured
  <2> HIDE DEF signal
  <2>3. isRunning' /\ isRunning
    BY <2>1 DEF isRunning
  <2>4. ~Waits("ready")
    BY <2>1 DEF OldWorkIsDropped, ReadyIsFirst
  <2>5. /\ signals' \in Seq(Signal) /\ ~Waits("ready")'
    BY <2>2, <2>4, Posted
  <2>6. /\ OldFramesAreRefused' /\ OldResultsAreDropped'
        /\ \A i, j \in 1..Len(signals') :
              signals'[i].kind = "ready" /\ signals'[j].kind = "ready" => i = j
    BY <2>1, <2>2, <2>3, PostKeepsQueue
  <2>7. PoseTypes'
    BY <2>1, <2>5 DEF PoseTypes
  <2>8. ReadyIsFirst'
    BY <2>1, <2>5, <2>6 DEF ReadyIsFirst
  <2>9. OldWorkIsDropped' /\ LatestIsOfTheSession' /\ StoppedBetweenSessions'
        /\ RestartIsPending'
    BY <2>1, <2>3 DEF OldWorkIsDropped, LatestIsOfTheSession, StoppedBetweenSessions,
                      RestartIsPending
  <2> QED BY <2>6, <2>7, <2>8, <2>9
<1>6. CASE RunWorker /\ Finish
  <2>1. /\ UNCHANGED <<session, modelReady, restartAfterFinish, startQueued>>
        /\ phase = "leaving" \/ (phase \in {"loading", "idle"} /\ stopRequested)
        /\ phase' = "finished" /\ latest' = NoFrame
        /\ UNCHANGED <<stopRequested, analysed>>
    BY <1>0, <1>6 DEF Finish
  <2> DEFINE signal == [kind |-> "finished", of |-> NoFrame]
  <2>2. Post(signal) /\ signal \in Signal /\ signal.kind = "finished"
    BY <1>6 DEF Finish, Signal, Captured
  <2> HIDE DEF signal
  <2>3. ~isRunning' /\ isRunning
    BY <2>1 DEF isRunning
  <2>4. /\ signals' \in Seq(Signal) /\ (Waits("ready")' => Waits("ready"))
        /\ Waits("finished")'
    BY <2>2, Posted
  <2>5. /\ OldFramesAreRefused' /\ OldResultsAreDropped'
        /\ \A i, j \in 1..Len(signals') :
              signals'[i].kind = "ready" /\ signals'[j].kind = "ready" => i = j
    BY <2>1, <2>2, <2>3, PostKeepsQueue
  <2>6. PoseTypes'
    BY <2>1, <2>4 DEF PoseTypes, Captured
  <2>7. ReadyIsFirst'
    BY <2>1, <2>4, <2>5 DEF ReadyIsFirst
  <2>8. OldWorkIsDropped' /\ LatestIsOfTheSession' /\ StoppedBetweenSessions'
        /\ RestartIsPending'
    BY <2>1, <2>3, <2>4 DEF OldWorkIsDropped, LatestIsOfTheSession,
                            StoppedBetweenSessions, RestartIsPending
  <2> QED BY <2>5, <2>6, <2>7, <2>8
<1> QED BY <1>1, <1>2, <1>3, <1>4, <1>5, <1>6 DEF RunWorker

LEMMA StepPoseInv == SessionAssumption /\ PoseInv /\ [Next]_vars => PoseInv'
<1> SUFFICES ASSUME SessionAssumption, PoseInv, [Next]_vars PROVE PoseInv'
  OBVIOUS
<1>1. CASE ActivateMonitoring
  <2>1. /\ start /\ session' \in Sessions /\ UNCHANGED <<startQueued, signals>>
        /\ session = NoSession /\ ~Waits("ready")
    BY <1>1 DEF ActivateMonitoring
  <2> QED BY <2>1, StartKeepsIInv DEF SessionAssumption, PoseInv, PoseTypes
<1>2. CASE Retry
  <2>1. start /\ session' = session /\ session' \in Sessions
        /\ UNCHANGED <<startQueued, signals>>
    BY <1>2 DEF Retry, PoseInv, PoseTypes
  <2> QED BY <2>1, StartKeepsIInv DEF SessionAssumption, PoseInv, PoseTypes
<1>3. CASE ClearPage
  <2>1. /\ session' = NoSession /\ ~restartAfterFinish' /\ ~modelReady' /\ latest' = NoFrame
        /\ restartAfterFinish' \in BOOLEAN /\ modelReady' \in BOOLEAN
        /\ stopRequested' = (stopRequested \/ isRunning)
        /\ UNCHANGED <<phase, analysed, startQueued, signals>>
    BY <1>3 DEF ClearPage
  <2>2. (isRunning' <=> isRunning) /\ \A k : Waits(k)' <=> Waits(k)
    BY <2>1 DEF isRunning, Waits
  <2>3. PoseTypes'
    BY <2>1 DEF PoseInv, PoseTypes, Captured, isRunning
  <2>4. ReadyIsFirst'
    BY <2>1, <2>2 DEF PoseInv, ReadyIsFirst
  <2>5. OldFramesAreRefused' /\ OldResultsAreDropped'
    BY <2>1 DEF PoseInv, OldFramesAreRefused, OldResultsAreDropped
  <2>6. OldWorkIsDropped' /\ LatestIsOfTheSession' /\ StoppedBetweenSessions'
        /\ RestartIsPending'
    BY <2>1, <2>2 DEF PoseInv, OldWorkIsDropped, LatestIsOfTheSession,
                      StoppedBetweenSessions, RestartIsPending
  <2> QED BY <2>3, <2>4, <2>5, <2>6 DEF PoseInv
<1>4. CASE QueuedStart
  <2>1. CASE session # NoSession
    <3>1. start /\ session' = session /\ session' \in Sessions /\ startQueued' \in BOOLEAN
          /\ UNCHANGED signals
      BY <1>4, <2>1 DEF QueuedStart, PoseInv, PoseTypes
    <3> QED BY <3>1, StartKeepsIInv DEF SessionAssumption
  <2>2. CASE session = NoSession
    <3>1. /\ startQueued' \in BOOLEAN
          /\ UNCHANGED <<session, phase, stopRequested, latest, analysed, modelReady,
                         restartAfterFinish, signals>>
      BY <1>4, <2>2 DEF QueuedStart, workerVars
    <3>2. (isRunning' <=> isRunning) /\ \A k : Waits(k)' <=> Waits(k)
      BY <3>1 DEF isRunning, Waits
    <3>3. PoseTypes' /\ ReadyIsFirst'
      BY <3>1, <3>2 DEF PoseInv, PoseTypes, ReadyIsFirst
    <3>4. OldFramesAreRefused' /\ OldResultsAreDropped'
      BY <2>2, <3>1 DEF PoseInv, OldFramesAreRefused, OldResultsAreDropped
    <3>5. OldWorkIsDropped' /\ LatestIsOfTheSession' /\ StoppedBetweenSessions'
          /\ RestartIsPending'
      BY <2>2, <3>1, <3>2 DEF PoseInv, OldWorkIsDropped, LatestIsOfTheSession,
                              StoppedBetweenSessions, RestartIsPending
    <3> QED BY <3>3, <3>4, <3>5 DEF PoseInv
  <2> QED BY <2>1, <2>2
<1>5. CASE SubmitFrame \/ HandleModelReady \/ HandlePoses \/ HandleFailure \/ HandleFinished
  BY <1>5, HandlersKeepIInv
<1>6. CASE Capture \/ RunWorker
  BY <1>6, ThreadsKeepIInv
<1>7. CASE UNCHANGED vars
  <2>1. UNCHANGED <<session, phase, stopRequested, latest, analysed, modelReady,
                    restartAfterFinish, startQueued, signals>>
    BY <1>7 DEF vars, workerVars
  <2>2. (isRunning' <=> isRunning) /\ \A k : Waits(k)' <=> Waits(k)
    BY <2>1 DEF isRunning, Waits
  <2>3. PoseTypes' /\ ReadyIsFirst' /\ OldFramesAreRefused' /\ OldResultsAreDropped'
    BY <2>1, <2>2 DEF PoseInv, PoseTypes, ReadyIsFirst, OldFramesAreRefused, OldResultsAreDropped
  <2>4. OldWorkIsDropped' /\ LatestIsOfTheSession' /\ StoppedBetweenSessions'
        /\ RestartIsPending'
    BY <2>1, <2>2 DEF PoseInv, OldWorkIsDropped, LatestIsOfTheSession,
                      StoppedBetweenSessions, RestartIsPending
  <2> QED BY <2>3, <2>4 DEF PoseInv
<1> QED BY <1>1, <1>2, <1>3, <1>4, <1>5, <1>6, <1>7 DEF Next

LEMMA IInvSuffices == PoseInv => AssessmentsAreOfTheSession /\ RestartIsPending
<1> SUFFICES ASSUME PoseInv, signals # <<>>, Head(signals).kind = "result", modelReady
             PROVE  session # NoSession /\ Head(signals).of = session
  BY DEF PoseInv, AssessmentsAreOfTheSession
<1>1. signals \in Seq(Signal)
  BY DEF PoseInv, PoseTypes
<1>2. 1 \in 1..Len(signals) /\ Head(signals) = signals[1]
  BY <1>1
<1> QED BY <1>2 DEF PoseInv, OldResultsAreDropped

-----------------------------------------------------------------------------
\* Whatever the controller and the worker do, and however the camera, a stop
\* and a new session interleave, no pose of another session is assessed.
THEOREM PosesAreOfTheSession == SessionAssumption /\ Spec => []AssessmentsAreOfTheSession
<1> SUFFICES ASSUME SessionAssumption PROVE Spec => []AssessmentsAreOfTheSession
  OBVIOUS
<1>1. Spec => []PoseInv
  BY InitPoseInv, StepPoseInv, PTL DEF Spec
<1> QED BY <1>1, IInvSuffices, PTL

\* A session started on a worker that is stopping always gets its own.
THEOREM PoseRestartIsPending == SessionAssumption /\ Spec => []RestartIsPending
<1> SUFFICES ASSUME SessionAssumption PROVE Spec => []RestartIsPending
  OBVIOUS
<1>1. Spec => []PoseInv
  BY InitPoseInv, StepPoseInv, PTL DEF Spec
<1> QED BY <1>1, IInvSuffices, PTL
===============================================================================
