------------------------ MODULE OperatorStationProofs ------------------------
(***************************************************************************)
(* The operator's desktop for any number of operations and signals.        *)
(***************************************************************************)
EXTENDS OperatorStation, SequenceTheorems, TLAPS

\* The newest of the signals that wait.
Newest(signals) == signals[Len(signals)]

-----------------------------------------------------------------------------
\* What waits behind the first signal, and what is posted.
LEMMA Handled ==
    ASSUME NEW S, NEW s \in Seq(S), s # <<>>
    PROVE  /\ Tail(s) \in Seq(S) /\ Head(s) \in S /\ Head(s) = s[1]
           /\ Len(s) \in Nat \ {0} /\ Len(Tail(s)) = Len(s) - 1
           /\ \A i \in 1..Len(Tail(s)) : Tail(s)[i] = s[i + 1]
           /\ Tail(s) # <<>> => Newest(Tail(s)) = Newest(s)
           /\ Tail(s) = <<>> => Newest(s) = Head(s)
<1>1. /\ Tail(s) \in Seq(S) /\ Head(s) \in S /\ Head(s) = s[1]
      /\ Len(s) \in Nat \ {0} /\ Len(Tail(s)) = Len(s) - 1
      /\ \A i \in 1..Len(Tail(s)) : Tail(s)[i] = s[i + 1]
  BY HeadTailProperties, LenProperties, EmptySeq
<1>2. Tail(s) # <<>> => Len(Tail(s)) \in 1..Len(Tail(s))
  BY <1>1, LenProperties, EmptySeq
<1>3. Tail(s) # <<>> => Newest(Tail(s)) = Newest(s)
  BY <1>1, <1>2 DEF Newest
<1>4. Tail(s) = <<>> => Newest(s) = Head(s)
  <2>1. Len(Tail(s)) = Len(s) - 1 /\ Len(s) \in Nat
    BY <1>1
  <2>2. \A m \in Nat : \A n : n = m - 1 /\ n = 0 => m = 1
    OBVIOUS
  <2>3. Tail(s) = <<>> => Len(Tail(s)) = 0
    BY <1>1, EmptySeq
  <2>4. Tail(s) = <<>> => Len(s) = 1
    BY <2>1, <2>2, <2>3, Zenon
  <2>. QED  BY <1>1, <2>4 DEF Newest
<1>. QED  BY <1>1, <1>3, <1>4

LEMMA Posted ==
    ASSUME NEW S, NEW s \in Seq(S), NEW t \in Seq(S)
    PROVE  /\ s \o t \in Seq(S) /\ Len(s \o t) = Len(s) + Len(t)
           /\ \A i \in 1..Len(s) : (s \o t)[i] = s[i]
           /\ \A i \in Len(s) + 1..Len(s \o t) : (s \o t)[i] = t[i - Len(s)]
           /\ t # <<>> => s \o t # <<>> /\ Newest(s \o t) = Newest(t)
           /\ t = <<>> => s \o t = s
<1>1. /\ s \o t \in Seq(S) /\ Len(s \o t) = Len(s) + Len(t)
      /\ \A i \in 1..Len(s) + Len(t) :
            (s \o t)[i] = IF i <= Len(s) THEN s[i] ELSE t[i - Len(s)]
  BY ConcatProperties
<1>2. Len(s) \in Nat /\ Len(t) \in Nat
  BY LenProperties
<1>3. /\ \A i \in 1..Len(s) : (s \o t)[i] = s[i]
      /\ \A i \in Len(s) + 1..Len(s \o t) : (s \o t)[i] = t[i - Len(s)]
  BY <1>1, <1>2
<1>4. t = <<>> => s \o t = s
  BY ConcatEmptySeq
<1>5. t # <<>> => s \o t # <<>> /\ Newest(s \o t) = Newest(t)
  <2>. SUFFICES ASSUME t # <<>> PROVE s \o t # <<>> /\ Newest(s \o t) = Newest(t)
    OBVIOUS
  <2>1. Len(t) > 0
    BY <1>2, EmptySeq
  <2>2. s \o t # <<>>
    BY <2>1, <1>1, <1>2, EmptySeq
  <2>3. (s \o t)[Len(s \o t)] = t[Len(t)]
    BY <2>1, <1>1, <1>2, <1>3
  <2>. QED  BY <2>2, <2>3 DEF Newest
<1>. QED  BY <1>1, <1>3, <1>4, <1>5

-----------------------------------------------------------------------------
\* The login window.  A worker that tries says how it ended with its last signal.
Trying == {"starting", "opening", "scanning"}

AttemptEnded == faceSignals # <<>> /\ Newest(faceSignals) \in {"failed", "recognized"}

EndIsAnnounced ==
    face = "leaving" /\ ~faceStop /\ faceSignals # <<>> => AttemptEnded

\* What the hidden panel would show is answered, too.
AttemptIsShown ==
    session = NoSession =>
        /\ faceState # "recognized" /\ form # "authorized"
        /\ form = "busy" => credential # "none"
        /\ panel = "face" /\ faceState \in Busy /\ ~lateSignal =>
               IF face \in Trying THEN ~faceStop ELSE AttemptEnded

LoginInv == LoginTypeOK /\ EndIsAnnounced /\ AttemptIsShown

LEMMA LoginInvAnswers == LoginInv => LoginIsAnswered
BY DEF LoginInv, LoginTypeOK, AttemptIsShown, AttemptEnded, LoginIsAnswered, faceRunning,
       Trying

LEMMA LoginBegins == LoginInit => LoginInv
<1>. SUFFICES ASSUME LoginInit PROVE LoginInv
  OBVIOUS
<1>1. <<>> \in Seq({"frame", "status", "failed", "recognized"})
  BY EmptySeq
<1>2. LoginTypeOK
  BY <1>1 DEF LoginInit, LoginTypeOK, FaceStates, NoSession
<1>3. EndIsAnnounced /\ AttemptIsShown
  BY DEF LoginInit, EndIsAnnounced, AttemptIsShown, Busy
<1>. QED  BY <1>2, <1>3 DEF LoginInv

LEMMA LoginClickKeepsInv ==
    ASSUME LoginInv, LoginClick
    PROVE  LoginInv'
<1>1. CASE RequestScan
  BY <1>1 DEF LoginInv, LoginTypeOK, EndIsAnnounced, AttemptIsShown, AttemptEnded,
              RequestScan, Show, faceRunning, FaceStates, Busy, Trying
<1>2. CASE ShowCredentials
  BY <1>2 DEF LoginInv, LoginTypeOK, EndIsAnnounced, AttemptIsShown, AttemptEnded,
              ShowCredentials, CancelFace, faceRunning
<1>3. CASE ShowFace
  BY <1>3 DEF LoginInv, LoginTypeOK, EndIsAnnounced, AttemptIsShown, AttemptEnded,
              ShowFace, Show, FaceStates, Busy
<1>4. CASE Submit
  BY <1>4 DEF LoginInv, LoginTypeOK, EndIsAnnounced, AttemptIsShown, AttemptEnded, Submit
<1>. QED  BY <1>1, <1>2, <1>3, <1>4 DEF LoginClick

LEMMA ResetKeepsLoginInv ==
    ASSUME LoginInv, ResetLogin
    PROVE  LoginInv'
BY DEF LoginInv, LoginTypeOK, EndIsAnnounced, AttemptIsShown, AttemptEnded, ResetLogin,
       CancelFace, Show, faceRunning, FaceStates, Busy, NoSession

LEMMA FaceSignalKeepsInv ==
    ASSUME LoginInv, HandleFaceSignal
    PROVE  LoginInv'
<1>. DEFINE Kinds == {"frame", "status", "failed", "recognized"}
<1>1. /\ LoginTypeOK /\ EndIsAnnounced /\ AttemptIsShown
      /\ faceSignals \in Seq(Kinds) /\ faceSignals # <<>>
      /\ faceSignals' = Tail(faceSignals)
      /\ UNCHANGED <<form, face, faceStop, credential>>
  BY DEF LoginInv, LoginTypeOK, HandleFaceSignal
<1>2. /\ Tail(faceSignals) \in Seq(Kinds) /\ Head(faceSignals) \in Kinds
      /\ Tail(faceSignals) # <<>> => Newest(Tail(faceSignals)) = Newest(faceSignals)
      /\ Tail(faceSignals) = <<>> => Newest(faceSignals) = Head(faceSignals)
  BY <1>1, Handled
<1>3. /\ AttemptEnded /\ Head(faceSignals) \in {"frame", "status"} => AttemptEnded'
      /\ AttemptEnded /\ faceSignals' # <<>> => AttemptEnded'
  BY <1>1, <1>2 DEF AttemptEnded
<1>4. EndIsAnnounced'
  BY <1>1, <1>3 DEF EndIsAnnounced, AttemptEnded
<1>5. ASSUME LooksBusy, UNCHANGED <<panel, session>>,
             Head(faceSignals) \in {"frame", "status"}
      PROVE  LoginTypeOK' /\ AttemptIsShown'
  <2>1. LoginTypeOK'
    BY <1>1, <1>2, <1>5 DEF LoginTypeOK, LooksBusy, faceRunning, FaceStates
  <2>2. ~lateSignal' => faceRunning /\ ~faceStop
    BY <1>5 DEF LooksBusy
  <2>3. ~lateSignal' /\ face \notin Trying => AttemptEnded'
    BY <2>2, <1>1, <1>3, <1>5 DEF EndIsAnnounced, faceRunning, Trying, LoginTypeOK
  <2>. QED  BY <2>1, <2>2, <2>3, <1>1, <1>5
            DEF LooksBusy, AttemptIsShown
<1>6. ASSUME Head(faceSignals) = "frame", UNCHANGED <<faceState, lateSignal, panel, session>>
      PROVE  LoginTypeOK' /\ AttemptIsShown'
  BY <1>1, <1>2, <1>3, <1>6 DEF LoginTypeOK, AttemptIsShown
<1>7. ASSUME Show("error"), UNCHANGED <<panel, session>>
      PROVE  LoginTypeOK' /\ AttemptIsShown'
  BY <1>1, <1>2, <1>7 DEF LoginTypeOK, AttemptIsShown, Show, FaceStates, Busy
<1>8. ASSUME panel' = "face", Show("recognized"), OpenSession("face")
      PROVE  LoginTypeOK' /\ AttemptIsShown'
  BY <1>1, <1>2, <1>8 DEF LoginTypeOK, AttemptIsShown, Show, OpenSession, NoSession, FaceStates
<1>. QED  BY <1>4, <1>5, <1>6, <1>7, <1>8 DEF HandleFaceSignal, LoginInv

LEMMA HandleLoginKeepsInv ==
    ASSUME LoginInv, HandleLogin
    PROVE  LoginInv'
<1>1. CASE HandleCredentialAnswer
  BY <1>1 DEF LoginInv, LoginTypeOK, EndIsAnnounced, AttemptIsShown, AttemptEnded,
              HandleCredentialAnswer, OpenSession, NoSession
<1>. QED  BY <1>1, FaceSignalKeepsInv DEF HandleLogin

\* What the face worker says by a step of its thread.
LEMMA SayKeepsLoginInv ==
    ASSUME LoginInv, NEW said \in Seq({"frame", "status", "failed", "recognized"}),
           faceSignals' = faceSignals \o said,
           UNCHANGED <<panel, faceState, form, faceStop, session, lateSignal, credential>>,
           \/ face' \in Trying /\ face \in Trying
           \/ face' = "leaving" /\ face \in Trying /\ faceStop
           \/ /\ face' = "leaving" /\ face \in Trying
              /\ said # <<>> /\ Newest(said) \in {"failed", "recognized"}
           \/ face' = "finished" /\ face = "leaving" /\ said = <<>>
    PROVE  LoginInv'
<1>. DEFINE Kinds == {"frame", "status", "failed", "recognized"}
<1>1. LoginTypeOK /\ EndIsAnnounced /\ AttemptIsShown /\ faceSignals \in Seq(Kinds)
  BY DEF LoginInv, LoginTypeOK
<1>2. /\ faceSignals' \in Seq(Kinds)
      /\ said # <<>> => faceSignals' # <<>> /\ Newest(faceSignals') = Newest(said)
      /\ said = <<>> => faceSignals' = faceSignals
  BY <1>1, Posted
<1>3. LoginTypeOK'
  BY <1>1, <1>2 DEF LoginTypeOK, Trying
<1>4. CASE face' \in Trying /\ face \in Trying
  BY <1>1, <1>3, <1>4 DEF LoginInv, EndIsAnnounced, AttemptIsShown, Trying
<1>5. CASE face' = "leaving" /\ face \in Trying /\ faceStop
  BY <1>1, <1>3, <1>5 DEF LoginInv, EndIsAnnounced, AttemptIsShown, Trying
<1>6. CASE /\ face' = "leaving" /\ face \in Trying
           /\ said # <<>> /\ Newest(said) \in {"failed", "recognized"}
  <2>1. AttemptEnded'
    BY <1>2, <1>6 DEF AttemptEnded
  <2>. QED  BY <1>1, <1>3, <1>6, <2>1 DEF LoginInv, EndIsAnnounced, AttemptIsShown, Trying
<1>7. CASE face' = "finished" /\ face = "leaving" /\ said = <<>>
  BY <1>1, <1>2, <1>3, <1>7
     DEF LoginInv, EndIsAnnounced, AttemptIsShown, AttemptEnded, Trying
<1>. QED  BY <1>4, <1>5, <1>6, <1>7

LEMMA RunLoginKeepsInv ==
    ASSUME LoginInv, RunLogin
    PROVE  LoginInv'
<1>. DEFINE Kinds == {"frame", "status", "failed", "recognized"}
<1>1. CASE CallApi
  BY <1>1 DEF LoginInv, LoginTypeOK, EndIsAnnounced, AttemptIsShown, AttemptEnded, RunLogin,
              CallApi
<1>2. ASSUME NEW said \in Seq(Kinds), Say(said) PROVE faceSignals' = faceSignals \o said
  BY <1>2 DEF Say
<1>3. /\ UNCHANGED <<panel, faceState, form, faceStop, session, lateSignal>>
      /\ faceSignals \in Seq(Kinds)
      /\ faceSignals = faceSignals \o <<>> /\ <<>> \in Seq(Kinds)
  BY ConcatEmptySeq DEF RunLogin, LoginInv, LoginTypeOK
<1>4. /\ <<"failed">> \in Seq(Kinds) /\ <<"frame">> \in Seq(Kinds)
      /\ <<"status">> \in Seq(Kinds) /\ <<"status", "recognized">> \in Seq(Kinds)
      /\ Newest(<<"failed">>) = "failed" /\ Newest(<<"status", "recognized">>) = "recognized"
      /\ <<"failed">> # <<>> /\ <<"status", "recognized">> # <<>>
  BY DEF Newest
<1>5. CASE LoadModels /\ UNCHANGED credential
  BY <1>2, <1>3, <1>4, <1>5, SayKeepsLoginInv DEF LoadModels, Trying
<1>6. CASE OpenFaceCamera /\ UNCHANGED credential
  BY <1>2, <1>3, <1>4, <1>6, SayKeepsLoginInv DEF OpenFaceCamera, Trying
<1>7. CASE Scan /\ UNCHANGED credential
  BY <1>2, <1>3, <1>4, <1>7, SayKeepsLoginInv DEF Scan, Trying
<1>8. CASE FinishFace /\ UNCHANGED credential
  BY <1>2, <1>3, <1>4, <1>8, SayKeepsLoginInv DEF FinishFace, Trying
<1>. QED  BY <1>1, <1>5, <1>6, <1>7, <1>8 DEF RunLogin

-----------------------------------------------------------------------------
\* The list of operations.  The picture's worker ends with its last signal, and one
\* that gives up of its own accord has said so.
FinishedIsLast ==
    /\ \A i \in disposed + 1..Len(pictureSignals) - 1 : pictureSignals[i] # "finished"
    /\ "finished" \in CurrentSignals => ~Picture!isRunning

FailureIsSaid ==
    picture = "leaving" /\ ~pictureStop => delivered \/ "failed" \in CurrentSignals

AreaIsSelected == preview = "loading" => selected # NoArea

ListInv ==
    ListTypeOK /\ FinishedIsLast /\ FailureIsSaid /\ AreaIsSelected /\ PageIsAnswered

LEMMA ListBegins == ListInit => ListInv
<1>. SUFFICES ASSUME ListInit PROVE ListInv
  OBVIOUS
<1>1. <<>> \in Seq(Picture!Signals) /\ Len(<<>>) = 0
  BY EmptySeq
<1>2. ListTypeOK
  <2>1. Picture!CameraTypeOK
    BY <1>1 DEF ListInit, Picture!CameraTypeOK, Picture!Phases
  <2>2. disposed \in 0..Len(pictureSignals)
    BY <1>1 DEF ListInit
  <2>. QED  BY <2>1, <2>2 DEF ListInit, ListTypeOK
<1>3. FinishedIsLast
  <2>1. disposed = 0 /\ Len(pictureSignals) = 0 /\ picture = "none"
    BY <1>1 DEF ListInit
  <2>2. CurrentSignals = {}
    BY <2>1 DEF CurrentSignals
  <2>. QED  BY <2>1, <2>2 DEF FinishedIsLast
<1>. QED  BY <1>2, <1>3
          DEF ListInit, ListInv, FailureIsSaid, AreaIsSelected, PageIsAnswered

LEMMA ListGoneKeepsInv == ListGone => ListInv'
<1>. SUFFICES ASSUME ListGone PROVE ListInv'
  OBVIOUS
<1>1. <<>> \in Seq(Picture!Signals) /\ Len(<<>>) = 0
  BY EmptySeq
<1>2. ListTypeOK'
  <2>1. Picture!CameraTypeOK'
    BY <1>1 DEF ListGone, Picture!CameraTypeOK, Picture!Phases, Picture!Signals
  <2>2. disposed' \in 0..Len(pictureSignals')
    BY <1>1 DEF ListGone
  <2>. QED  BY <2>1, <2>2 DEF ListGone, ListTypeOK
<1>3. FinishedIsLast'
  <2>1. disposed' = 0 /\ Len(pictureSignals') = 0 /\ picture' = "none"
    BY <1>1 DEF ListGone
  <2>2. CurrentSignals' = {}
    BY <2>1 DEF CurrentSignals
  <2>. QED  BY <2>1, <2>2 DEF FinishedIsLast
<1>. QED  BY <1>2, <1>3
          DEF ListGone, ListInv, FailureIsSaid, AreaIsSelected, PageIsAnswered

\* Where the picture and its worker stay as they are.
LEMMA PictureStays ==
    ASSUME ListInv, UNCHANGED pictureVars
    PROVE  /\ FinishedIsLast' /\ FailureIsSaid' /\ CurrentSignals' = CurrentSignals
           /\ Picture!CameraTypeOK' /\ (disposed \in 0..Len(pictureSignals))'
           /\ (delivered \in BOOLEAN)'
BY DEF ListInv, pictureVars, FinishedIsLast, FailureIsSaid, CurrentSignals, ListTypeOK,
       Picture!CameraTypeOK, Picture!isRunning, Picture!Signals, Picture!Phases

LEMMA LoadOperationsKeepsInv ==
    ASSUME ListInv, LoadOperations
    PROVE  ListInv'
<1>1. UNCHANGED <<pictureVars, selected, preview, lostCapture>>
  BY DEF LoadOperations
<1>2. ListTypeOK'
  BY <1>1, PictureStays DEF ListInv, ListTypeOK, LoadOperations, pictureVars
<1>3. AreaIsSelected' /\ PageIsAnswered'
  BY <1>1, PictureStays DEF ListInv, AreaIsSelected, PageIsAnswered, LoadOperations,
                            pictureVars, Picture!isRunning
<1>. QED  BY <1>1, <1>2, <1>3, PictureStays DEF ListInv

LEMMA ShowDetailsKeepsInv ==
    ASSUME ListInv, NEW op \in Operations, ShowDetails(op)
    PROVE  ListInv'
<1>1. UNCHANGED pictureVars
  BY DEF ShowDetails
<1>2. ListTypeOK'
  BY <1>1, PictureStays, StationAssumption DEF ListInv, ListTypeOK, ShowDetails, pictureVars
<1>3. AreaIsSelected' /\ PageIsAnswered'
  BY DEF AreaIsSelected, PageIsAnswered, ShowDetails
<1>. QED  BY <1>1, <1>2, <1>3, PictureStays DEF ListInv

LEMMA HandleLoadKeepsInv ==
    ASSUME ListInv, HandleLoad
    PROVE  ListInv'
<1>1. UNCHANGED pictureVars
  BY DEF HandleLoad
<1>2. ListTypeOK'
  BY <1>1, PictureStays DEF ListInv, ListTypeOK, HandleLoad, pictureVars
<1>3. AreaIsSelected' /\ PageIsAnswered'
  BY DEF AreaIsSelected, PageIsAnswered, HandleLoad
<1>. QED  BY <1>1, <1>2, <1>3, PictureStays DEF ListInv

LEMMA RunLoaderKeepsInv ==
    ASSUME ListInv, RunLoader
    PROVE  ListInv'
<1>1. UNCHANGED <<pictureVars, list, selected, preview, lostCapture>>
  BY DEF RunLoader
<1>2. ListTypeOK'
  BY <1>1, PictureStays DEF ListInv, ListTypeOK, RunLoader, pictureVars
<1>3. AreaIsSelected' /\ PageIsAnswered'
  BY <1>1, PictureStays DEF ListInv, AreaIsSelected, PageIsAnswered, RunLoader,
                            pictureVars, Picture!isRunning
<1>. QED  BY <1>1, <1>2, <1>3, PictureStays DEF ListInv

LEMMA RequestAreaKeepsInv ==
    ASSUME ListInv, RequestArea
    PROVE  ListInv'
<1>1. /\ ListTypeOK /\ FinishedIsLast /\ FailureIsSaid /\ AreaIsSelected'
      /\ preview' = "loading" /\ UNCHANGED <<list, loader, selected, pictureSignals>>
      /\ list = "loading" => loader # "none"
      /\ pictureSignals \in Seq(Picture!Signals) /\ Len(pictureSignals) \in Nat
  BY LenProperties DEF ListInv, AreaIsSelected, RequestArea, CaptureArea, pictureVars,
     PageIsAnswered, ListTypeOK, Picture!CameraTypeOK
<1>2. CASE Picture!isRunning /\ capturing = selected
  <2>1. UNCHANGED pictureVars /\ lostCapture' = (delivered \/ pictureStop)
    BY <1>2 DEF RequestArea, CaptureArea
  <2>2. ListTypeOK'
    BY <1>1, <2>1, PictureStays DEF ListTypeOK, pictureVars, Picture!CameraTypeOK
  <2>3. PageIsAnswered'
    BY <1>1, <1>2, <2>1 DEF PageIsAnswered, pictureVars, Picture!isRunning, ListTypeOK
  <2>. QED  BY <1>1, <2>1, <2>2, <2>3, PictureStays DEF ListInv
<1>3. CASE Picture!isRunning /\ capturing # selected
  <2>1. /\ waiting' = selected /\ pictureStop' = TRUE /\ lostCapture' = FALSE
        /\ UNCHANGED <<picture, disposed, capturing, delivered>>
    BY <1>1, <1>3 DEF RequestArea, CaptureArea, Picture!request_stop, ListTypeOK,
       Picture!CameraTypeOK
  <2>2. ListTypeOK'
    BY <1>1, <2>1 DEF ListTypeOK, Picture!CameraTypeOK
  <2>3. CurrentSignals' = CurrentSignals
    BY <1>1, <2>1 DEF CurrentSignals
  <2>4. FinishedIsLast' /\ FailureIsSaid'
    BY <1>1, <2>1, <2>3 DEF FinishedIsLast, FailureIsSaid, Picture!isRunning
  <2>5. PageIsAnswered'
    BY <1>1, <1>3, <2>1 DEF PageIsAnswered, Picture!isRunning
  <2>. QED  BY <1>1, <2>2, <2>4, <2>5 DEF ListInv
<1>4. CASE ~Picture!isRunning
  <2>1. /\ picture' = "starting" /\ pictureStop' = FALSE /\ capturing' = selected
        /\ delivered' = FALSE /\ disposed' = Len(pictureSignals) /\ lostCapture' = FALSE
        /\ waiting' = waiting
    BY <1>4 DEF RequestArea, CaptureArea, StartCapture, Picture!Launch
  <2>2. ListTypeOK'
    <3>1. Picture!CameraTypeOK'
      BY <1>1, <2>1 DEF Picture!CameraTypeOK, Picture!Phases, Picture!Signals
    <3>2. disposed' \in 0..Len(pictureSignals')
      BY <1>1, <2>1
    <3>. QED  BY <1>1, <2>1, <3>1, <3>2 DEF ListTypeOK
  <2>3. CurrentSignals' = {}
    BY <1>1, <2>1 DEF CurrentSignals
  <2>4. FinishedIsLast' /\ FailureIsSaid'
    <3>1. disposed' + 1..Len(pictureSignals') - 1 = {}
      BY <1>1, <2>1
    <3>. QED  BY <2>1, <2>3, <3>1 DEF FinishedIsLast, FailureIsSaid
  <2>5. PageIsAnswered'
    BY <1>1, <2>1 DEF PageIsAnswered, Picture!isRunning
  <2>. QED  BY <1>1, <2>2, <2>4, <2>5 DEF ListInv
<1>. QED  BY <1>2, <1>3, <1>4

\* Taking the first signal takes it out of what the worker in charge has to say,
\* unless it is of a worker before it.
LEMMA PictureSignalTaken ==
    ASSUME ListInv, pictureSignals # <<>>, pictureSignals' = Tail(pictureSignals),
           disposed' = IF disposed > 0 THEN disposed - 1 ELSE 0
    PROVE  /\ pictureSignals' \in Seq(Picture!Signals)
           /\ Head(pictureSignals) \in Picture!Signals
           /\ disposed' \in 0..Len(pictureSignals')
           /\ disposed > 0 => CurrentSignals' = CurrentSignals
           /\ disposed = 0 => CurrentSignals = CurrentSignals' \cup {Head(pictureSignals)}
           /\ \A i \in disposed' + 1..Len(pictureSignals') - 1 :
                  pictureSignals'[i] # "finished"
           /\ disposed = 0 /\ Head(pictureSignals) = "finished" => CurrentSignals' = {}
<1>. DEFINE n == Len(pictureSignals)
<1>1. /\ pictureSignals \in Seq(Picture!Signals) /\ disposed \in 0..n
      /\ \A i \in disposed + 1..n - 1 : pictureSignals[i] # "finished"
  BY DEF ListInv, ListTypeOK, Picture!CameraTypeOK, FinishedIsLast
<1>2. /\ Tail(pictureSignals) \in Seq(Picture!Signals)
      /\ Head(pictureSignals) \in Picture!Signals /\ Head(pictureSignals) = pictureSignals[1]
      /\ n \in Nat \ {0} /\ Len(Tail(pictureSignals)) = n - 1
      /\ \A i \in 1..n - 1 : Tail(pictureSignals)[i] = pictureSignals[i + 1]
  <2>. HIDE DEF n
  <2>1. /\ Tail(pictureSignals) \in Seq(Picture!Signals)
        /\ Head(pictureSignals) \in Picture!Signals
        /\ Head(pictureSignals) = pictureSignals[1]
        /\ Len(pictureSignals) \in Nat \ {0}
        /\ Len(Tail(pictureSignals)) = Len(pictureSignals) - 1
        /\ \A i \in 1..Len(Tail(pictureSignals)) :
               Tail(pictureSignals)[i] = pictureSignals[i + 1]
    BY <1>1, Handled
  <2>. QED  BY <2>1 DEF n
<1>3. /\ pictureSignals' \in Seq(Picture!Signals) /\ Len(pictureSignals') = n - 1
      /\ \A i \in 1..n - 1 : pictureSignals'[i] = pictureSignals[i + 1]
  BY <1>2
<1>. HIDE DEF n
<1>4. disposed' \in 0..n - 1
  BY <1>1, <1>2
<1>5. CurrentSignals' = {pictureSignals'[i] : i \in disposed' + 1..n - 1}
  BY <1>3 DEF CurrentSignals
<1>6. CurrentSignals = {pictureSignals[i] : i \in disposed + 1..n}
  BY DEF CurrentSignals, n
<1>7. CurrentSignals' = {pictureSignals[i] : i \in disposed' + 2..n}
  <2>1. \A i \in disposed' + 1..n - 1 :
            i + 1 \in disposed' + 2..n /\ pictureSignals'[i] = pictureSignals[i + 1]
    BY <1>2, <1>3, <1>4
  <2>2. \A i \in disposed' + 2..n :
            i - 1 \in disposed' + 1..n - 1 /\ pictureSignals'[i - 1] = pictureSignals[i]
    BY <1>2, <1>3, <1>4
  <2>. DEFINE later == {pictureSignals[i] : i \in disposed' + 2..n}
  <2>3. ASSUME NEW x \in CurrentSignals' PROVE x \in later
    <3>1. PICK i \in disposed' + 1..n - 1 : x = pictureSignals'[i]
      BY <1>5, <2>3
    <3>. QED  BY <2>1, <3>1
  <2>4. ASSUME NEW x \in later PROVE x \in CurrentSignals'
    <3>1. PICK i \in disposed' + 2..n : x = pictureSignals[i]
      BY <2>4
    <3>2. i - 1 \in disposed' + 1..n - 1 /\ x = pictureSignals'[i - 1]
      BY <2>2, <3>1
    <3>. QED  BY <1>5, <3>2
  <2>. QED  BY <2>3, <2>4
<1>8. disposed > 0 => CurrentSignals' = CurrentSignals
  <2>1. disposed > 0 => disposed' + 2 = disposed + 1
    BY <1>1
  <2>. QED  BY <1>6, <1>7, <2>1
<1>9. disposed = 0 => CurrentSignals = CurrentSignals' \cup {Head(pictureSignals)}
  <2>. SUFFICES ASSUME disposed = 0
                PROVE  CurrentSignals = CurrentSignals' \cup {Head(pictureSignals)}
    OBVIOUS
  <2>1. \A i \in 1..n : i = 1 \/ i \in 2..n
    BY <1>2
  <2>2. \A i \in 2..n : i \in 1..n
    BY <1>2
  <2>3. 1 \in 1..n
    BY <1>2
  <2>. QED  BY <1>2, <1>6, <1>7, <2>1, <2>2, <2>3
<1>10. \A i \in disposed' + 1..n - 2 : pictureSignals'[i] # "finished"
  <2>1. \A i \in disposed' + 1..n - 2 :
            i \in 1..n - 1 /\ i + 1 \in disposed + 1..n - 1
    BY <1>1, <1>2, <1>4
  <2>. QED  BY <1>1, <1>3, <2>1 DEF n
<1>11. disposed = 0 /\ Head(pictureSignals) = "finished" => CurrentSignals' = {}
  <2>. SUFFICES ASSUME disposed = 0, Head(pictureSignals) = "finished"
                PROVE  CurrentSignals' = {}
    OBVIOUS
  <2>1. 1 \notin 1..n - 1
    BY <1>1, <1>2 DEF n
  <2>2. n = 1
    BY <1>2, <2>1
  <2>. QED  BY <1>7, <2>2
<1>12. Len(pictureSignals') - 1 = n - 2
  BY <1>2, <1>3
<1>. QED  BY <1>2, <1>3, <1>4, <1>8, <1>9, <1>10, <1>11, <1>12

LEMMA HandlePictureKeepsInv ==
    ASSUME ListInv, HandlePicture
    PROVE  ListInv'
<1>. DEFINE signal == Head(pictureSignals)
<1>1. /\ ListTypeOK /\ FinishedIsLast /\ FailureIsSaid /\ AreaIsSelected /\ PageIsAnswered
      /\ pictureSignals # <<>> /\ pictureSignals' = Tail(pictureSignals)
      /\ disposed' = (IF disposed > 0 THEN disposed - 1 ELSE 0)
      /\ UNCHANGED <<list, loader, selected>>
      /\ disposed \in Nat
  BY DEF ListInv, HandlePicture, ListTypeOK
<1>2. /\ pictureSignals' \in Seq(Picture!Signals) /\ signal \in Picture!Signals
      /\ disposed' \in 0..Len(pictureSignals')
      /\ disposed > 0 => CurrentSignals' = CurrentSignals
      /\ disposed = 0 => CurrentSignals = CurrentSignals' \cup {signal}
      /\ \A i \in disposed' + 1..Len(pictureSignals') - 1 : pictureSignals'[i] # "finished"
      /\ disposed = 0 /\ signal = "finished" => CurrentSignals' = {}
  BY <1>1, PictureSignalTaken
<1>. HIDE DEF signal
<1>3. CurrentSignals' \subseteq CurrentSignals
  BY <1>1, <1>2
<1>4. ASSUME UNCHANGED picture, pictureStop' \in BOOLEAN, pictureStop => pictureStop',
             UNCHANGED <<capturing, waiting>>, delivered' \in BOOLEAN,
             delivered => delivered',
             signal = "failed" /\ disposed = 0 => delivered',
             preview' = "loading" => preview = "loading",
             preview' \in {"hidden", "loading", "image", "failed"},
             lostCapture' \in BOOLEAN,
             PageIsAnswered'
      PROVE  ListInv'
  <2>1. ListTypeOK'
    <3>1. Picture!CameraTypeOK'
      BY <1>1, <1>2, <1>4 DEF ListTypeOK, Picture!CameraTypeOK, Picture!Signals, Picture!Phases
    <3>. QED  BY <1>1, <1>2, <1>4, <3>1 DEF ListTypeOK
  <2>2. FinishedIsLast'
    BY <1>1, <1>2, <1>3, <1>4 DEF FinishedIsLast, Picture!isRunning
  <2>3. FailureIsSaid'
    BY <1>1, <1>2, <1>4 DEF FailureIsSaid
  <2>4. AreaIsSelected'
    BY <1>1, <1>4 DEF AreaIsSelected
  <2>. QED  BY <1>4, <2>1, <2>2, <2>3, <2>4 DEF ListInv
<1>5. ASSUME NEW outcome \in {"image", "failed"}, Deliver(outcome), ~Settled,
             signal \in {"preview", "failed"},
             UNCHANGED <<picture, capturing, waiting>>
      PROVE  PageIsAnswered'
  <2>1. disposed = 0
    BY <1>1, <1>5 DEF Settled
  <2>2. "finished" \in CurrentSignals => "finished" \in CurrentSignals'
    BY <1>2, <1>5, <2>1
  <2>3. CASE selected = capturing
    BY <1>1, <1>5, <2>3 DEF Deliver, PageIsAnswered
  <2>4. CASE selected # capturing
    BY <1>1, <1>5, <2>2, <2>4 DEF Deliver, PageIsAnswered, Picture!isRunning
  <2>. QED  BY <2>3, <2>4
<1>6. CASE /\ signal = "preview" /\ ~Settled
           /\ Deliver("image")
           /\ Picture!request_stop
           /\ UNCHANGED <<capturing, waiting>>
  <2>1. UNCHANGED picture /\ pictureStop' \in BOOLEAN /\ (pictureStop => pictureStop')
    BY <1>1, <1>6 DEF Picture!request_stop, ListTypeOK, Picture!CameraTypeOK,
                      Picture!isRunning
  <2>2. PageIsAnswered'
    BY <1>5, <1>6, <2>1
  <2>. QED  BY <1>1, <1>4, <1>6, <2>1, <2>2 DEF Deliver, ListTypeOK
<1>7. CASE /\ signal = "failed" /\ ~Settled
           /\ Deliver("failed")
           /\ UNCHANGED <<picture, pictureStop, capturing, waiting>>
  <2>1. PageIsAnswered'
    BY <1>5, <1>7
  <2>2. pictureStop \in BOOLEAN
    BY <1>1 DEF ListTypeOK, Picture!CameraTypeOK
  <2>. QED  BY <1>1, <1>4, <1>7, <2>1, <2>2 DEF Deliver, ListTypeOK
<1>8. CASE signal = "finished" /\ disposed = 0 /\ HandlePictureEnd
  <2>1. /\ ~Picture!isRunning /\ CurrentSignals = {"finished"} /\ CurrentSignals' = {}
        /\ disposed' = 0
    BY <1>1, <1>2, <1>8 DEF FinishedIsLast
  <2>2. /\ picture' \in {"starting", "none"} /\ pictureStop' = FALSE /\ delivered' = FALSE
        /\ waiting' = NoArea /\ capturing' = (IF waiting # NoArea THEN waiting ELSE NoArea)
        /\ waiting # NoArea => picture' = "starting"
        /\ UNCHANGED <<preview, lostCapture>>
    BY <1>8 DEF HandlePictureEnd, StartCapture, Picture!Launch
  <2>3. ListTypeOK'
    <3>1. Picture!CameraTypeOK'
      BY <1>2, <2>2 DEF Picture!CameraTypeOK, Picture!Signals, Picture!Phases
    <3>. QED  BY <1>1, <1>2, <2>2, <3>1 DEF ListTypeOK
  <2>4. FinishedIsLast' /\ FailureIsSaid' /\ AreaIsSelected'
    BY <1>1, <1>2, <2>1, <2>2 DEF FinishedIsLast, FailureIsSaid, AreaIsSelected
  <2>5. PageIsAnswered'
    BY <1>1, <2>1, <2>2 DEF PageIsAnswered, AreaIsSelected, Picture!isRunning
  <2>. QED  BY <2>3, <2>4, <2>5 DEF ListInv
<1>9. CASE /\ \/ signal = "ready"
              \/ signal \in {"preview", "failed"} /\ Settled
              \/ signal = "finished" /\ disposed > 0
           /\ UNCHANGED <<preview, lostCapture, picture, pictureStop, capturing, waiting,
                          delivered>>
  <2>1. "finished" \in CurrentSignals => "finished" \in CurrentSignals'
    BY <1>1, <1>2, <1>9
  <2>2. /\ CurrentSignals \cap {"preview", "failed"} # {} /\ ~delivered
               => CurrentSignals' \cap {"preview", "failed"} # {}
        /\ signal = "failed" /\ disposed = 0 => delivered
    BY <1>1, <1>2, <1>9 DEF Settled
  <2>3. PageIsAnswered'
    BY <1>1, <1>9, <2>1, <2>2 DEF PageIsAnswered, Picture!isRunning
  <2>4. pictureStop \in BOOLEAN
    BY <1>1 DEF ListTypeOK, Picture!CameraTypeOK
  <2>. QED  BY <1>1, <1>4, <1>9, <2>2, <2>3, <2>4 DEF ListTypeOK
<1>10. \/ /\ signal = "preview" /\ ~Settled
          /\ Deliver("image")
          /\ Picture!request_stop
          /\ UNCHANGED <<capturing, waiting>>
       \/ /\ signal = "failed" /\ ~Settled
          /\ Deliver("failed")
          /\ UNCHANGED <<picture, pictureStop, capturing, waiting>>
       \/ signal = "finished" /\ disposed = 0 /\ HandlePictureEnd
       \/ /\ \/ signal = "ready"
             \/ signal \in {"preview", "failed"} /\ Settled
             \/ signal = "finished" /\ disposed > 0
          /\ UNCHANGED <<preview, lostCapture, picture, pictureStop, capturing, waiting,
                         delivered>>
  BY DEF HandlePicture, signal
<1>. QED  BY <1>6, <1>7, <1>8, <1>9, <1>10

\* A step of the picture's thread: what it posts, and in which phase.
LEMMA PictureRuns ==
    ASSUME Picture!Run, pictureSignals \in Seq(Picture!Signals)
    PROVE  \E said \in Seq(Picture!Signals) :
               /\ pictureSignals' = pictureSignals \o said
               /\ UNCHANGED pictureStop /\ Picture!isRunning
               /\ \/ picture = "leaving" /\ picture' = "finished" /\ said = <<"finished">>
                  \/ /\ picture # "leaving" /\ picture' \in {"opening", "reading", "leaving"}
                     /\ said \in {<<>>, <<"ready">>, <<"preview">>}
                     /\ picture' = "leaving" => pictureStop
                  \/ picture # "leaving" /\ picture' = "leaving" /\ said = <<"failed">>
<1>. DEFINE Kinds == {"ready", "preview", "analysis", "finished", "failed"}
<1>1. Picture!Signals = Kinds
  BY DEF Picture!Signals, PictureFailures
<1>2. /\ <<>> \in Seq(Kinds) /\ <<"ready">> \in Seq(Kinds) /\ <<"preview">> \in Seq(Kinds)
      /\ <<"finished">> \in Seq(Kinds) /\ <<"failed">> \in Seq(Kinds)
      /\ pictureSignals = pictureSignals \o <<>>
  BY ConcatEmptySeq, EmptySeq
<1>. HIDE DEF Kinds
<1>3. CASE Picture!Begin
  BY <1>1, <1>2, <1>3 DEF Picture!Begin, Picture!isRunning
<1>4. CASE Picture!Open
  BY <1>1, <1>2, <1>4 DEF Picture!Open, Picture!Emit, Picture!isRunning
<1>5. CASE Picture!Read
  BY <1>1, <1>2, <1>5 DEF Picture!Read, Picture!Emit, Picture!isRunning
<1>6. CASE Picture!LeaveLoop
  BY <1>1, <1>2, <1>6 DEF Picture!LeaveLoop, Picture!isRunning
<1>7. CASE Picture!Fail
  BY <1>1, <1>2, <1>7 DEF Picture!Fail, Picture!Emit, Picture!isRunning, PictureFailures
<1>8. CASE Picture!Finish
  BY <1>1, <1>2, <1>8 DEF Picture!Finish, Picture!Emit, Picture!isRunning
<1>. QED  BY <1>3, <1>4, <1>5, <1>6, <1>7, <1>8 DEF Picture!Run

LEMMA RunPictureKeepsInv ==
    ASSUME ListInv, RunPicture
    PROVE  ListInv'
<1>1. /\ ListTypeOK /\ FinishedIsLast /\ FailureIsSaid /\ AreaIsSelected /\ PageIsAnswered
      /\ pictureSignals \in Seq(Picture!Signals) /\ disposed \in 0..Len(pictureSignals)
      /\ Picture!Run
      /\ UNCHANGED <<list, loader, selected, preview, disposed, capturing, waiting, delivered,
                     lostCapture>>
  BY DEF ListInv, ListTypeOK, Picture!CameraTypeOK, RunPicture
<1>2. PICK said \in Seq(Picture!Signals) :
          /\ pictureSignals' = pictureSignals \o said
          /\ UNCHANGED pictureStop /\ Picture!isRunning
          /\ \/ picture = "leaving" /\ picture' = "finished" /\ said = <<"finished">>
             \/ /\ picture # "leaving" /\ picture' \in {"opening", "reading", "leaving"}
                /\ said \in {<<>>, <<"ready">>, <<"preview">>}
                /\ picture' = "leaving" => pictureStop
             \/ picture # "leaving" /\ picture' = "leaving" /\ said = <<"failed">>
  BY <1>1, PictureRuns
<1>. DEFINE n == Len(pictureSignals)
            m == Len(said)
<1>3. /\ pictureSignals' \in Seq(Picture!Signals) /\ Len(pictureSignals') = n + m
      /\ n \in Nat /\ m \in Nat
      /\ \A i \in 1..n : pictureSignals'[i] = pictureSignals[i]
      /\ \A i \in n + 1..n + m : pictureSignals'[i] = said[i - n]
  BY <1>1, <1>2, Posted, LenProperties
<1>4. m \in {0, 1}
  BY <1>2
<1>. HIDE DEF n, m
<1>5. CurrentSignals' = CurrentSignals \cup {said[i] : i \in 1..m}
  <2>1. CurrentSignals' = {pictureSignals'[i] : i \in disposed + 1..n + m}
    BY <1>1, <1>3 DEF CurrentSignals
  <2>2. CurrentSignals = {pictureSignals[i] : i \in disposed + 1..n}
    BY DEF CurrentSignals, n
  <2>3. /\ \A i \in disposed + 1..n : i \in disposed + 1..n + m /\ i \in 1..n
        /\ \A i \in disposed + 1..n + m : i \in disposed + 1..n \/ i \in n + 1..n + m
        /\ \A i \in n + 1..n + m : i - n \in 1..m
        /\ \A i \in 1..m : i + n \in n + 1..n + m /\ (i + n) - n = i
                           /\ i + n \in disposed + 1..n + m
    BY <1>1, <1>3 DEF n
  <2>4. ASSUME NEW x \in CurrentSignals'
        PROVE  x \in CurrentSignals \cup {said[i] : i \in 1..m}
    <3>1. PICK i \in disposed + 1..n + m : x = pictureSignals'[i]
      BY <2>1, <2>4
    <3>2. CASE i \in disposed + 1..n
      BY <1>3, <2>2, <2>3, <3>1, <3>2
    <3>3. CASE i \in n + 1..n + m
      BY <1>3, <2>3, <3>1, <3>3
    <3>. QED  BY <2>3, <3>2, <3>3
  <2>5. ASSUME NEW x \in CurrentSignals PROVE x \in CurrentSignals'
    <3>1. PICK i \in disposed + 1..n : x = pictureSignals[i]
      BY <2>2, <2>5
    <3>. QED  BY <1>3, <2>1, <2>3, <3>1
  <2>6. ASSUME NEW i \in 1..m PROVE said[i] \in CurrentSignals'
    <3>1. pictureSignals'[i + n] = said[i]
      BY <1>3, <2>3
    <3>. QED  BY <2>1, <2>3, <3>1
  <2>. QED  BY <2>4, <2>5, <2>6
<1>6. "finished" \notin CurrentSignals
  BY <1>1, <1>2 DEF FinishedIsLast
<1>7. \A i \in disposed + 1..n : pictureSignals[i] # "finished"
  BY <1>6 DEF CurrentSignals, n
<1>8. \A i \in disposed' + 1..Len(pictureSignals') - 1 : pictureSignals'[i] # "finished"
  <2>1. \A i \in disposed + 1..(n + m) - 1 : i \in disposed + 1..n /\ i \in 1..n
    BY <1>1, <1>3, <1>4 DEF n
  <2>. QED  BY <1>1, <1>3, <1>7, <2>1
<1>9. disposed' \in 0..Len(pictureSignals')
  BY <1>1, <1>3 DEF n
<1>10. ListTypeOK'
  <2>1. Picture!CameraTypeOK'
    BY <1>1, <1>2, <1>3 DEF ListTypeOK, Picture!CameraTypeOK, Picture!Phases, Picture!Signals
  <2>. QED  BY <1>1, <1>9, <2>1 DEF ListTypeOK
<1>11. AreaIsSelected'
  BY <1>1 DEF AreaIsSelected
<1>12. CASE picture = "leaving" /\ picture' = "finished" /\ said = <<"finished">>
  <2>1. CurrentSignals' = CurrentSignals \cup {"finished"}
    BY <1>5, <1>12 DEF m
  <2>2. FinishedIsLast' /\ FailureIsSaid'
    BY <1>8, <1>12 DEF FinishedIsLast, FailureIsSaid, Picture!isRunning
  <2>3. PageIsAnswered'
    BY <1>1, <1>12, <2>1 DEF PageIsAnswered, FailureIsSaid, Picture!isRunning
  <2>. QED  BY <1>10, <1>11, <2>2, <2>3 DEF ListInv
<1>13. CASE /\ picture # "leaving" /\ picture' \in {"opening", "reading", "leaving"}
            /\ said \in {<<>>, <<"ready">>, <<"preview">>}
            /\ picture' = "leaving" => pictureStop
  <2>1. {said[i] : i \in 1..m} \subseteq {"ready", "preview"}
    BY <1>13 DEF m
  <2>2. FinishedIsLast' /\ FailureIsSaid'
    BY <1>2, <1>5, <1>6, <1>8, <1>13, <2>1 DEF FinishedIsLast, FailureIsSaid
  <2>3. PageIsAnswered'
    BY <1>1, <1>2, <1>5, <1>13 DEF PageIsAnswered, Picture!isRunning
  <2>. QED  BY <1>10, <1>11, <2>2, <2>3 DEF ListInv
<1>14. CASE picture # "leaving" /\ picture' = "leaving" /\ said = <<"failed">>
  <2>1. CurrentSignals' = CurrentSignals \cup {"failed"}
    BY <1>5, <1>14 DEF m
  <2>2. FinishedIsLast' /\ FailureIsSaid'
    BY <1>2, <1>6, <1>8, <1>14, <2>1 DEF FinishedIsLast, FailureIsSaid
  <2>3. PageIsAnswered'
    BY <1>1, <1>2, <1>14, <2>1 DEF PageIsAnswered, Picture!isRunning
  <2>. QED  BY <1>10, <1>11, <2>2, <2>3 DEF ListInv
<1>. QED  BY <1>2, <1>12, <1>13, <1>14

-----------------------------------------------------------------------------
\* The release.  What the verification page shows belongs to an operation, and the
\* result the controller holds is what the window it holds says of that operation.
PageIsShown ==
    /\ ~cameraActive => cameraState = "not_initialized"
    /\ cameraActive => operation \in Operations
    /\ Camera!isRunning /\ ~cameraStop => cameraActive

EvidenceIsAssessed ==
    /\ latest \in [operation : Operations \cup {NoOperation},
                   status : {"none", "blocked", "pending", "compliant"}]
    /\ latest.status = "compliant" =>
           /\ latest.operation \in Operations
           /\ Status(Requires[latest.operation], tracked, window) = "compliant"
    /\ ~carriedOver

ReleaseInv ==
    ReleaseTypeOK /\ PageIsShown /\ EvidenceIsAssessed /\ ButtonFollowsEvidence

LEMMA StatusIsOne ==
    ASSUME NEW required, NEW followed, NEW samples
    PROVE  Status(required, followed, samples) \in {"none", "blocked", "pending", "compliant"}
BY DEF Status

\* A result that was taken back is no evidence.
LEMMA NothingIsAssessed ==
    ASSUME latest' = NoAssessment, ~carriedOver'
    PROVE  EvidenceIsAssessed' /\ (latest.operation \in Operations \cup {NoOperation})'
           /\ (latest.status \in {"none", "blocked", "pending", "compliant"})'
BY DEF EvidenceIsAssessed, NoAssessment

LEMMA EvidenceStays ==
    ASSUME EvidenceIsAssessed, UNCHANGED <<latest, tracked, window, carriedOver>>
    PROVE  EvidenceIsAssessed'
<1>1. Status(Requires[latest.operation], tracked, window)'
          = Status(Requires[latest.operation], tracked, window)
  BY DEF Status, Requirement, Decide, ObservedFrames
<1>. QED  BY <1>1 DEF EvidenceIsAssessed

LEMMA CameraStays ==
    ASSUME Camera!CameraTypeOK, UNCHANGED cameraVars
    PROVE  Camera!CameraTypeOK' /\ (Camera!isRunning' <=> Camera!isRunning)
           /\ UNCHANGED <<camera, cameraStop>>
BY DEF cameraVars, Camera!CameraTypeOK, Camera!isRunning, Camera!Phases, Camera!Signals

LEMMA DetectorStays ==
    ASSUME Detector!WorkerTypeOK, UNCHANGED <<detector, detectorStop, detections>>
    PROVE  Detector!WorkerTypeOK' /\ (Detector!isRunning' <=> Detector!isRunning)
BY DEF Detector!WorkerTypeOK, Detector!isRunning, Detector!Phases, Detector!Signal

LEMMA ReleaseIsEmpty ==
    /\ ReleaseInit => ReleaseInv
    /\ ReleaseGone => ReleaseInv'
<1>1. ASSUME ReleaseInit PROVE ReleaseInv
  <2>1. Camera!CameraTypeOK
    BY <1>1, EmptySeq DEF ReleaseInit, Camera!CameraTypeOK, Camera!Phases
  <2>2. Detector!WorkerTypeOK
    BY <1>1, EmptySeq DEF ReleaseInit, Detector!WorkerTypeOK, Detector!Phases
  <2>3. window \in Seq(Frames) /\ Len(window) <= WindowSize
    BY <1>1, EmptySeq, EvidenceAssumption DEF ReleaseInit
  <2>4. ReleaseTypeOK
    BY <1>1, <2>1, <2>2, <2>3 DEF ReleaseInit, ReleaseTypeOK, NoAssessment, CameraStates
  <2>. QED  BY <1>1, <2>4 DEF ReleaseInit, ReleaseInv, PageIsShown, EvidenceIsAssessed,
       ButtonFollowsEvidence, NoAssessment, Camera!isRunning
<1>2. ASSUME ReleaseGone PROVE ReleaseInv'
  <2>1. Camera!CameraTypeOK'
    BY <1>2, EmptySeq DEF ReleaseGone, Camera!CameraTypeOK, Camera!Phases, Camera!Signals
  <2>2. Detector!WorkerTypeOK'
    BY <1>2, EmptySeq DEF ReleaseGone, Detector!WorkerTypeOK, Detector!Phases,
                          Detector!Signal
  <2>3. window' \in Seq(Frames) /\ Len(window') <= WindowSize
    BY <1>2, EmptySeq, EvidenceAssumption DEF ReleaseGone
  <2>4. ReleaseTypeOK'
    BY <1>2, <2>1, <2>2, <2>3 DEF ReleaseGone, ReleaseTypeOK, NoAssessment, CameraStates
  <2>5. PageIsShown' /\ ButtonFollowsEvidence'
    BY <1>2 DEF ReleaseGone, PageIsShown, ButtonFollowsEvidence, Camera!isRunning
  <2>. QED  BY <1>2, <2>4, <2>5, NothingIsAssessed DEF ReleaseGone, ReleaseInv
<1>. QED  BY <1>1, <1>2

\* Where the camera, its worker, the inference worker and the window stay.
LEMMA ResultKeepsInv ==
    ASSUME ReleaseInv,
           UNCHANGED <<cameraActive, operation, cameraState, cameraVars, detectorVars,
                       windowVars, modelReady>>,
           startAuthorized' \in BOOLEAN, stale' \in BOOLEAN,
           startEnabled' \in BOOLEAN, ButtonFollowsEvidence',
           latest' = latest \/ latest' = NoAssessment
    PROVE  ReleaseInv'
<1>1. ReleaseTypeOK /\ PageIsShown /\ EvidenceIsAssessed
  BY DEF ReleaseInv
<1>2. Camera!CameraTypeOK /\ Detector!WorkerTypeOK
      /\ UNCHANGED <<tracked, window, carriedOver, interrupted, frame>>
  BY <1>1 DEF ReleaseTypeOK, windowVars, detectorVars
<1>3. Camera!CameraTypeOK' /\ (Camera!isRunning' <=> Camera!isRunning)
      /\ UNCHANGED <<camera, cameraStop>> /\ Detector!WorkerTypeOK'
  BY <1>2, CameraStays, DetectorStays DEF detectorVars
<1>4. EvidenceIsAssessed' /\ (latest.operation \in Operations \cup {NoOperation})'
      /\ (latest.status \in {"none", "blocked", "pending", "compliant"})'
  BY <1>1, <1>2, EvidenceStays, NothingIsAssessed DEF EvidenceIsAssessed, ReleaseTypeOK
<1>5. ReleaseTypeOK'
  BY <1>1, <1>2, <1>3, <1>4 DEF ReleaseTypeOK
<1>6. PageIsShown'
  BY <1>1, <1>3 DEF PageIsShown
<1>. QED  BY <1>4, <1>5, <1>6 DEF ReleaseInv

LEMMA ResultStepKeepsInv ==
    ASSUME ReleaseInv, RejectStart \/ LoseAuthorization \/ GrowStale \/ ExpireAssessment
    PROVE  ReleaseInv'
<1>1. startAuthorized \in BOOLEAN /\ stale \in BOOLEAN /\ ButtonFollowsEvidence
      /\ startEnabled \in BOOLEAN
  BY DEF ReleaseInv, ReleaseTypeOK
<1>2. CASE RejectStart
  BY <1>1, <1>2, ResultKeepsInv DEF RejectStart, gateVars, ButtonFollowsEvidence
<1>3. CASE LoseAuthorization
  BY <1>1, <1>3, ResultKeepsInv DEF LoseAuthorization, ButtonFollowsEvidence
<1>4. CASE GrowStale
  BY <1>1, <1>4, ResultKeepsInv DEF GrowStale, pageVars, ButtonFollowsEvidence
<1>5. CASE ExpireAssessment
  BY <1>1, <1>5, ResultKeepsInv DEF ExpireAssessment, ButtonFollowsEvidence
<1>. QED  BY <1>2, <1>3, <1>4, <1>5
\* The window begins anew, with everything that was concluded from the one before.
LEMMA ForgottenIsTyped ==
    ASSUME ForgetEvidence
    PROVE  /\ EvidenceIsAssessed' /\ latest' = NoAssessment /\ startAuthorized' = FALSE
           /\ (latest.operation \in Operations \cup {NoOperation})'
           /\ (latest.status \in {"none", "blocked", "pending", "compliant"})'
           /\ modelReady' \in BOOLEAN /\ tracked' \subseteq ModelClasses
           /\ window' \in Seq(Frames) /\ Len(window') <= WindowSize
           /\ stale' \in BOOLEAN /\ startAuthorized' \in BOOLEAN
           /\ carriedOver' \in BOOLEAN /\ interrupted' \in BOOLEAN
<1>1. <<>> \in Seq(Frames) /\ Len(<<>>) = 0 /\ 0 <= WindowSize
  BY EmptySeq, EvidenceAssumption
<1>2. /\ latest' = NoAssessment /\ ~carriedOver' /\ startAuthorized' = FALSE
      /\ modelReady' = FALSE /\ tracked' = {} /\ window' = <<>> /\ stale' = FALSE
      /\ carriedOver' = FALSE /\ interrupted' = FALSE
  BY DEF ForgetEvidence, BeginWindow
<1>3. window' \in Seq(Frames) /\ Len(window') <= WindowSize
  BY <1>1, <1>2
<1>. QED  BY <1>2, <1>3, NothingIsAssessed

LEMMA DeactivateKeepsInv ==
    ASSUME ReleaseInv, Deactivate, UNCHANGED operation
    PROVE  ReleaseInv' /\ cameraActive' = FALSE
<1>1. /\ ReleaseTypeOK /\ Camera!CameraTypeOK /\ Detector!WorkerTypeOK
      /\ ForgetEvidence /\ Camera!request_stop /\ Detector!request_stop
      /\ frame' = FALSE /\ cameraActive' = FALSE /\ cameraState' = "not_initialized"
      /\ startEnabled' = FALSE /\ UNCHANGED <<cameraSignals, detections>>
  BY DEF ReleaseInv, ReleaseTypeOK, Deactivate, StopWorkers, DiscardEvidence
<1>2. Camera!CameraTypeOK' /\ (Camera!isRunning' => cameraStop')
  BY <1>1 DEF Camera!CameraTypeOK, Camera!request_stop, Camera!Phases, Camera!Signals,
              Camera!isRunning
<1>3. Detector!WorkerTypeOK'
  BY <1>1 DEF Detector!WorkerTypeOK, Detector!request_stop, Detector!Phases,
              Detector!Signal, Detector!isRunning
<1>4. ReleaseTypeOK'
  BY <1>1, <1>2, <1>3, ForgottenIsTyped DEF ReleaseTypeOK, CameraStates
<1>5. PageIsShown' /\ ButtonFollowsEvidence'
  BY <1>1, <1>2 DEF PageIsShown, ButtonFollowsEvidence
<1>. QED  BY <1>1, <1>4, <1>5, ForgottenIsTyped DEF ReleaseInv

\* camera_start_requested, for a page that stays or becomes active.
LEMMA StartWorkersKeepsInv ==
    ASSUME ReleaseInv, StartCamera, StartDetector, cameraActive' = TRUE,
           operation' \in Operations, startEnabled' \in BOOLEAN,
           startEnabled' => startEnabled /\ Detector!isRunning /\ operation' = operation
    PROVE  ReleaseInv'
<1>1. /\ ReleaseTypeOK /\ PageIsShown /\ EvidenceIsAssessed /\ ButtonFollowsEvidence
      /\ Camera!CameraTypeOK /\ Detector!WorkerTypeOK
  BY DEF ReleaseInv, ReleaseTypeOK
<1>2. Camera!CameraTypeOK' /\ cameraState' \in {"error", "starting"}
  <2>1. CASE Camera!isRunning
    BY <1>1, <2>1, CameraStays DEF StartCamera
  <2>2. CASE ~Camera!isRunning
    BY <1>1, <2>2 DEF StartCamera, Camera!Launch, Camera!CameraTypeOK, Camera!Phases,
                      Camera!Signals
  <2>. QED  BY <2>1, <2>2
<1>3. CASE Detector!isRunning
  <2>1. UNCHANGED <<detector, detectorStop, detections, frame, modelReady, latest, stale,
                    startAuthorized, tracked, window, carriedOver, interrupted>>
    BY <1>3 DEF StartDetector, detectorVars, gateVars, windowVars
  <2>2. Detector!WorkerTypeOK' /\ EvidenceIsAssessed'
    BY <1>1, <2>1, DetectorStays, EvidenceStays
  <2>3. ReleaseTypeOK'
    BY <1>1, <1>2, <2>1, <2>2 DEF ReleaseTypeOK, CameraStates
  <2>4. PageIsShown'
    BY DEF PageIsShown
  <2>5. ButtonFollowsEvidence'
    BY <1>1, <2>1 DEF ButtonFollowsEvidence
  <2>. QED  BY <2>2, <2>3, <2>4, <2>5 DEF ReleaseInv
<1>4. CASE ~Detector!isRunning
  <2>1. ForgetEvidence /\ Detector!Launch /\ frame' = FALSE /\ UNCHANGED detections
    BY <1>4 DEF StartDetector
  <2>2. Detector!WorkerTypeOK'
    BY <1>1, <2>1 DEF Detector!WorkerTypeOK, Detector!Launch, Detector!Phases,
                      Detector!Signal
  <2>3. ReleaseTypeOK'
    BY <1>1, <1>2, <2>1, <2>2, ForgottenIsTyped DEF ReleaseTypeOK, CameraStates
  <2>4. PageIsShown' /\ ButtonFollowsEvidence'
    BY <1>4 DEF PageIsShown, ButtonFollowsEvidence
  <2>. QED  BY <2>1, <2>3, <2>4, ForgottenIsTyped DEF ReleaseInv
<1>. QED  BY <1>3, <1>4

LEMMA OpenVerificationKeepsInv ==
    ASSUME ReleaseInv, NEW op \in Operations, OpenVerification(op)
    PROVE  ReleaseInv' /\ cameraActive' = TRUE
BY StartWorkersKeepsInv DEF OpenVerification

LEMMA RetryCameraKeepsInv ==
    ASSUME ReleaseInv, RetryCamera
    PROVE  ReleaseInv' /\ UNCHANGED cameraActive
<1>1. cameraActive = TRUE /\ operation \in Operations /\ startEnabled \in BOOLEAN
  BY DEF ReleaseInv, ReleaseTypeOK, PageIsShown, RetryCamera
<1>. QED  BY <1>1, StartWorkersKeepsInv DEF RetryCamera, Detector!isRunning, Camera!isRunning

LEMMA CameraSignalKeepsInv ==
    ASSUME ReleaseInv, HandleCameraSignal
    PROVE  ReleaseInv' /\ UNCHANGED cameraActive
<1>1. /\ ReleaseTypeOK /\ PageIsShown /\ EvidenceIsAssessed /\ ButtonFollowsEvidence
      /\ Camera!CameraTypeOK /\ Detector!WorkerTypeOK
      /\ cameraActive \in BOOLEAN /\ frame \in BOOLEAN /\ interrupted \in BOOLEAN
      /\ startEnabled \in BOOLEAN /\ cameraState \in CameraStates
  BY DEF ReleaseInv, ReleaseTypeOK
<1>2. /\ cameraSignals # <<>> /\ cameraSignals' = Tail(cameraSignals)
      /\ UNCHANGED <<cameraActive, operation, cameraStop, detector, detectorStop, detections,
                     tracked, window, carriedOver, modelReady, latest, stale,
                     startAuthorized>>
  BY DEF HandleCameraSignal, gateVars
<1>3. \/ Camera!Dispose /\ UNCHANGED <<frame, cameraState, startEnabled, interrupted>>
      \/ SubmitFrame /\ UNCHANGED <<camera, cameraState, startEnabled, interrupted>>
      \/ ShowCameraFailure /\ UNCHANGED <<camera, frame>>
      \/ ShowCameraReady /\ UNCHANGED <<camera, frame, startEnabled, interrupted>>
  BY DEF HandleCameraSignal
<1>4. /\ camera' = camera \/ (camera = "finished" /\ camera' = "none")
      /\ frame' \in BOOLEAN /\ interrupted' \in BOOLEAN
      /\ startEnabled' \in BOOLEAN /\ (startEnabled' => startEnabled)
      /\ cameraState' \in CameraStates
      /\ ~cameraActive => cameraState' = cameraState
  <2>1. CASE Camera!Dispose /\ UNCHANGED <<frame, cameraState, startEnabled, interrupted>>
    BY <1>1, <2>1 DEF Camera!Dispose
  <2>2. CASE SubmitFrame /\ UNCHANGED <<camera, cameraState, startEnabled, interrupted>>
    BY <1>1, <2>2 DEF SubmitFrame, Detector!isRunning, Detector!WorkerTypeOK
  <2>3. CASE ShowCameraFailure /\ UNCHANGED <<camera, frame>>
    <3>1. interrupted' \in BOOLEAN
      BY <1>1, <2>3, ZenonT(20) DEF ShowCameraFailure
    <3>. QED  BY <1>1, <2>3, <3>1 DEF ShowCameraFailure, CameraStates
  <2>4. CASE ShowCameraReady /\ UNCHANGED <<camera, frame, startEnabled, interrupted>>
    BY <1>1, <2>4 DEF ShowCameraReady, CameraStates
  <2>. QED  BY <1>3, <2>1, <2>2, <2>3, <2>4
<1>5. Camera!CameraTypeOK' /\ (Camera!isRunning' => Camera!isRunning)
  <2>1. Tail(cameraSignals) \in Seq(Camera!Signals)
    BY <1>1, <1>2, Handled DEF Camera!CameraTypeOK
  <2>. QED  BY <1>1, <1>2, <1>4, <2>1 DEF Camera!CameraTypeOK, Camera!Phases,
                Camera!Signals, Camera!isRunning
<1>6. Detector!WorkerTypeOK' /\ EvidenceIsAssessed'
  BY <1>1, <1>2, DetectorStays, EvidenceStays
<1>7. ReleaseTypeOK'
  BY <1>1, <1>2, <1>4, <1>5, <1>6 DEF ReleaseTypeOK
<1>8. PageIsShown'
  BY <1>1, <1>2, <1>4, <1>5 DEF PageIsShown
<1>9. ButtonFollowsEvidence'
  BY <1>1, <1>2, <1>4 DEF ButtonFollowsEvidence
<1>. QED  BY <1>2, <1>6, <1>7, <1>8, <1>9 DEF ReleaseInv
LEMMA ObservedIsTyped ==
    ASSUME NEW samples \in Seq(Frames), Len(samples) <= WindowSize, NEW observed \in Frames,
           samples # <<>> \/ WindowSize > 0
    PROVE  Observe(samples, observed) \in Seq(Frames)
           /\ Len(Observe(samples, observed)) <= WindowSize
<1>1. Len(samples) \in Nat /\ WindowSize \in Nat
  BY LenProperties, EvidenceAssumption
<1>2. CASE Len(samples) < WindowSize
  BY <1>1, <1>2, AppendProperties DEF Observe
<1>3. CASE ~(Len(samples) < WindowSize)
  <2>1. samples # <<>> /\ Len(samples) = WindowSize
    BY <1>1, <1>3, EmptySeq
  <2>2. Tail(samples) \in Seq(Frames) /\ Len(Tail(samples)) = Len(samples) - 1
    BY <2>1, Handled
  <2>3. /\ Append(Tail(samples), observed) \in Seq(Frames)
        /\ Len(Append(Tail(samples), observed)) = Len(Tail(samples)) + 1
    BY <2>2, AppendProperties
  <2>. QED  BY <1>1, <1>3, <2>1, <2>2, <2>3 DEF Observe
<1>. QED  BY <1>2, <1>3

LEMMA DetectorSignalKeepsInv ==
    ASSUME ReleaseInv, HandleDetectorSignal
    PROVE  ReleaseInv' /\ UNCHANGED cameraActive
<1>. DEFINE signal == Head(detections)
<1>1. /\ ReleaseTypeOK /\ PageIsShown /\ EvidenceIsAssessed /\ ButtonFollowsEvidence
      /\ Camera!CameraTypeOK /\ Detector!WorkerTypeOK
      /\ detections # <<>> /\ detections \in Seq(Detector!Signal)
      /\ detections' = Tail(detections)
      /\ UNCHANGED <<cameraActive, operation, cameraState, cameraVars, detectorStop, frame>>
  BY DEF ReleaseInv, ReleaseTypeOK, HandleDetectorSignal, Detector!WorkerTypeOK
<1>2. Tail(detections) \in Seq(Detector!Signal) /\ signal \in Detector!Signal
  BY <1>1, Handled
<1>3. signal.kind = "result" => signal.value \in Frames
  BY <1>2 DEF Detector!Signal
<1>4. Camera!CameraTypeOK' /\ (Camera!isRunning' <=> Camera!isRunning)
      /\ UNCHANGED <<camera, cameraStop>> /\ PageIsShown'
  BY <1>1, CameraStays DEF PageIsShown
<1>5. ASSUME UNCHANGED detector \/ detector' = "none"
      PROVE  Detector!WorkerTypeOK'
  BY <1>1, <1>2, <1>5 DEF Detector!WorkerTypeOK, Detector!Phases, Detector!Signal
<1>. HIDE DEF signal
<1>6. CASE HandleModelReady
  <2>1. /\ EvidenceIsAssessed' /\ startEnabled' = FALSE /\ UNCHANGED detector
        /\ modelReady' = TRUE /\ startAuthorized' = FALSE /\ stale' = FALSE
        /\ window' = <<>> /\ carriedOver' = FALSE /\ interrupted' = FALSE
        /\ tracked' \subseteq ModelClasses
        /\ (latest.operation \in Operations \cup {NoOperation})'
        /\ (latest.status \in {"none", "blocked", "pending", "compliant"})'
    <3>1. startEnabled' = FALSE
      BY <1>1, <1>6 DEF HandleModelReady, ButtonFollowsEvidence, ReleaseTypeOK
    <3>. QED  BY <1>6, <3>1, NothingIsAssessed DEF HandleModelReady, BeginWindow
  <2>2. window' \in Seq(Frames) /\ Len(window') <= WindowSize
    BY <2>1, EmptySeq, EvidenceAssumption
  <2>3. ReleaseTypeOK'
    BY <1>1, <1>4, <1>5, <2>1, <2>2 DEF ReleaseTypeOK
  <2>. QED  BY <1>1, <1>4, <2>1, <2>3 DEF ReleaseInv, ButtonFollowsEvidence
<1>7. CASE signal.kind = "result" /\ HandleDetections(signal.value)
  <2>1. CASE ~modelReady \/ startAuthorized \/ operation = NoOperation
    <3>1. UNCHANGED <<detector, modelReady, latest, stale, startAuthorized, tracked, window,
                      carriedOver, interrupted, startEnabled>>
      BY <1>7, <2>1 DEF HandleDetections, gateVars, windowVars
    <3>2. EvidenceIsAssessed' /\ ButtonFollowsEvidence'
      BY <1>1, <3>1, EvidenceStays DEF ButtonFollowsEvidence
    <3>3. ReleaseTypeOK'
      BY <1>1, <1>4, <1>5, <3>1 DEF ReleaseTypeOK
    <3>. QED  BY <1>1, <1>4, <3>2, <3>3 DEF ReleaseInv
  <2>2. CASE ~(~modelReady \/ startAuthorized \/ operation = NoOperation)
    <3>1. /\ window' = Observe(window, signal.value)
          /\ latest' = [operation |-> operation,
                        status |-> Status(Requires[operation], tracked, window')]
          /\ stale' = FALSE
          /\ startEnabled' = (IF cameraActive THEN latest'.status = "compliant"
                                              ELSE startEnabled)
          /\ UNCHANGED <<detector, tracked, carriedOver, interrupted, modelReady,
                         startAuthorized>>
      BY <1>7, <2>2 DEF HandleDetections
    <3>2. operation \in Operations /\ startAuthorized = FALSE
      BY <1>1, <2>2 DEF ReleaseTypeOK
    <3>3. window' \in Seq(Frames) /\ Len(window') <= WindowSize
      BY <1>1, <1>3, <1>7, <3>1, ObservedIsTyped, EvidenceAssumption DEF ReleaseTypeOK
    <3>4. /\ latest'.operation = operation
          /\ latest'.status = Status(Requires[operation], tracked', window')
          /\ latest'.status \in {"none", "blocked", "pending", "compliant"}
          /\ latest' = [operation |-> operation, status |-> latest'.status]
      BY <3>1, StatusIsOne
    <3>5. EvidenceIsAssessed'
      <4>1. Status(Requires[latest.operation], tracked, window)'
                = Status(Requires[operation], tracked', window')
        BY <3>4 DEF Status, Requirement, Decide, ObservedFrames
      <4>. QED  BY <1>1, <3>1, <3>2, <3>4, <4>1 DEF EvidenceIsAssessed
    <3>6. startEnabled' \in BOOLEAN /\ ButtonFollowsEvidence'
      <4>1. CASE cameraActive
        BY <1>1, <3>1, <3>2, <3>4, <4>1 DEF ButtonFollowsEvidence
      <4>2. CASE ~cameraActive
        BY <1>1, <3>1, <4>2 DEF ButtonFollowsEvidence, ReleaseTypeOK
      <4>. QED  BY <4>1, <4>2
    <3>7. ReleaseTypeOK'
      BY <1>1, <1>4, <1>5, <3>1, <3>2, <3>3, <3>4, <3>6 DEF ReleaseTypeOK
    <3>. QED  BY <1>1, <1>4, <3>5, <3>6, <3>7 DEF ReleaseInv
  <2>. QED  BY <2>1, <2>2
<1>8. CASE HandleInferenceFailure
  <2>1. ForgetEvidence /\ startEnabled' = FALSE /\ UNCHANGED detector
    BY <1>1, <1>8 DEF HandleInferenceFailure, ButtonFollowsEvidence, ReleaseTypeOK
  <2>2. ReleaseTypeOK'
    BY <1>1, <1>4, <1>5, <2>1, ForgottenIsTyped DEF ReleaseTypeOK
  <2>. QED  BY <1>1, <1>4, <2>1, <2>2, ForgottenIsTyped DEF ReleaseInv, ButtonFollowsEvidence
<1>9. CASE HandleDetectorFinished
  <2>1. /\ UNCHANGED <<modelReady, latest, stale, startAuthorized, tracked, window,
                       carriedOver, interrupted, startEnabled>>
        /\ UNCHANGED detector \/ detector' = "none"
    BY <1>9 DEF HandleDetectorFinished, gateVars, windowVars
  <2>2. EvidenceIsAssessed' /\ ButtonFollowsEvidence'
    BY <1>1, <2>1, EvidenceStays DEF ButtonFollowsEvidence
  <2>3. ReleaseTypeOK'
    BY <1>1, <1>4, <1>5, <2>1 DEF ReleaseTypeOK
  <2>. QED  BY <1>1, <1>4, <2>2, <2>3 DEF ReleaseInv
<1>10. \/ HandleModelReady \/ HandleInferenceFailure \/ HandleDetectorFinished
       \/ signal.kind = "result" /\ HandleDetections(signal.value)
  BY DEF HandleDetectorSignal, signal
<1>. QED  BY <1>1, <1>6, <1>7, <1>8, <1>9, <1>10

\* Where a worker takes a step, the page and what is known of the window stay.
LEMMA ReleaseWorkerKeepsInv ==
    ASSUME ReleaseInv, UNCHANGED <<pageVars, windowVars, gateVars>>,
           Camera!CameraTypeOK', Detector!WorkerTypeOK', frame' \in BOOLEAN,
           Camera!isRunning' /\ ~cameraStop' => Camera!isRunning /\ ~cameraStop
    PROVE  ReleaseInv' /\ UNCHANGED cameraActive
<1>1. /\ ReleaseTypeOK /\ PageIsShown /\ EvidenceIsAssessed /\ ButtonFollowsEvidence
      /\ UNCHANGED <<cameraActive, operation, cameraState, startEnabled, modelReady, latest,
                     stale, startAuthorized, tracked, window, carriedOver, interrupted>>
  BY DEF ReleaseInv, pageVars, windowVars, gateVars
<1>2. EvidenceIsAssessed' /\ ButtonFollowsEvidence'
  BY <1>1, EvidenceStays DEF ButtonFollowsEvidence
<1>3. ReleaseTypeOK' /\ PageIsShown'
  BY <1>1 DEF ReleaseTypeOK, PageIsShown
<1>. QED  BY <1>1, <1>2, <1>3 DEF ReleaseInv

LEMMA RunCameraKeepsInv ==
    ASSUME ReleaseInv, RunCamera
    PROVE  ReleaseInv' /\ UNCHANGED cameraActive
<1>1. /\ Camera!CameraTypeOK /\ Detector!WorkerTypeOK /\ frame \in BOOLEAN
      /\ Camera!Run /\ UNCHANGED <<pageVars, detectorVars, windowVars, gateVars>>
      /\ cameraSignals \in Seq(Camera!Signals)
  BY DEF ReleaseInv, ReleaseTypeOK, RunCamera, Camera!CameraTypeOK
<1>2. UNCHANGED frame /\ Detector!WorkerTypeOK'
  BY <1>1, DetectorStays DEF detectorVars
<1>. DEFINE Kinds == {"ready", "preview", "analysis", "finished", "error"}
<1>3. Camera!Signals = Kinds
  BY DEF Camera!Signals
<1>4. /\ <<>> \in Seq(Kinds) /\ <<"ready">> \in Seq(Kinds) /\ <<"preview">> \in Seq(Kinds)
      /\ <<"analysis">> \in Seq(Kinds) /\ <<"preview", "analysis">> \in Seq(Kinds)
      /\ <<"finished">> \in Seq(Kinds) /\ <<"error">> \in Seq(Kinds)
      /\ cameraSignals = cameraSignals \o <<>>
  BY <1>1, ConcatEmptySeq, EmptySeq
<1>5. Camera!isRunning /\ UNCHANGED cameraStop /\ camera' \in Camera!Phases
      /\ \E said \in Seq(Kinds) : cameraSignals' = cameraSignals \o said
  <2>. HIDE DEF Kinds
  <2>1. CASE Camera!Begin
    BY <1>4, <2>1 DEF Camera!Begin, Camera!isRunning, Camera!Phases
  <2>2. CASE Camera!Open
    BY <1>4, <2>2 DEF Camera!Open, Camera!Emit, Camera!isRunning, Camera!Phases
  <2>3. CASE Camera!Read
    BY <1>4, <2>3 DEF Camera!Read, Camera!Emit, Camera!isRunning, Camera!Phases
  <2>4. CASE Camera!LeaveLoop
    BY <1>4, <2>4 DEF Camera!LeaveLoop, Camera!isRunning, Camera!Phases
  <2>5. CASE Camera!Fail
    BY <1>4, <2>5 DEF Camera!Fail, Camera!Emit, Camera!isRunning, Camera!Phases
  <2>6. CASE Camera!Finish
    BY <1>4, <2>6 DEF Camera!Finish, Camera!Emit, Camera!isRunning, Camera!Phases
  <2>. QED  BY <1>1, <2>1, <2>2, <2>3, <2>4, <2>5, <2>6 DEF Camera!Run
<1>6. cameraSignals' \in Seq(Camera!Signals)
  BY <1>1, <1>3, <1>5, Posted
<1>7. Camera!CameraTypeOK'
  BY <1>1, <1>5, <1>6 DEF Camera!CameraTypeOK, Camera!Phases, Camera!Signals
<1>. QED  BY <1>1, <1>2, <1>5, <1>7, ReleaseWorkerKeepsInv

LEMMA RunDetectorKeepsInv ==
    ASSUME ReleaseInv, RunDetector
    PROVE  ReleaseInv' /\ UNCHANGED cameraActive
<1>1. /\ Camera!CameraTypeOK /\ Detector!WorkerTypeOK /\ frame \in BOOLEAN
      /\ UNCHANGED <<pageVars, cameraVars, windowVars, gateVars>>
      /\ detections \in Seq(Detector!Signal)
  BY DEF ReleaseInv, ReleaseTypeOK, RunDetector, Detector!WorkerTypeOK
<1>2. Camera!CameraTypeOK' /\ (Camera!isRunning' <=> Camera!isRunning)
      /\ UNCHANGED cameraStop
  BY <1>1, CameraStays
<1>3. /\ frame' \in BOOLEAN
      /\ \/ Detector!TakeLatestFrame \/ Detector!LoadModel \/ Detector!EmitResult
         \/ Detector!Fail \/ Detector!Finish
  BY <1>1 DEF RunDetector
<1>4. /\ [kind |-> "ready"] \in Detector!Signal /\ [kind |-> "failed"] \in Detector!Signal
      /\ [kind |-> "finished"] \in Detector!Signal
      /\ \A r \in Frames : [kind |-> "result", value |-> r] \in Detector!Signal
  BY DEF Detector!Signal
<1>5. /\ UNCHANGED detectorStop /\ detector' \in Detector!Phases
      /\ \/ UNCHANGED detections
         \/ \E said \in Detector!Signal : detections' = Append(detections, said)
  BY <1>3, <1>4 DEF Detector!TakeLatestFrame, Detector!LoadModel, Detector!EmitResult,
     Detector!Fail, Detector!Finish, Detector!Post, Detector!Phases
<1>6. detections' \in Seq(Detector!Signal)
  BY <1>1, <1>5, AppendProperties
<1>7. Detector!WorkerTypeOK'
  BY <1>1, <1>5, <1>6 DEF Detector!WorkerTypeOK, Detector!Phases, Detector!Signal
<1>. QED  BY <1>1, <1>2, <1>3, <1>7, ReleaseWorkerKeepsInv
-----------------------------------------------------------------------------
\* The camera of an active operation.  Whoever waits for it waits for something:
\* a restart that is on its way, or a failure that the operator will be shown.
EndWaits == \E i \in DOMAIN captureSignals : captureSignals[i] = "finished"

FailureAfter(n) ==
    \E i \in DOMAIN captureSignals : i > n /\ captureSignals[i] \in FailureKinds

Restarting ==
    \/ restartTimers > 0
    \/ restartAfterFinish /\ (Capture!isRunning \/ EndWaits)

Healthy == Capture!isRunning /\ ~captureStop /\ capture # "leaving"

CaptureIsOwned == Capture!isRunning /\ ~captureStop => monitoring

GivingUpIsSaid ==
    capture = "leaving" /\ ~captureStop =>
        IF captureSignals = <<>> THEN retryVisible \/ restartAfterFinish \/ lostRetry
                                 ELSE Newest(captureSignals) \in FailureKinds

StopIsRestarted == monitoring /\ Capture!isRunning /\ captureStop => Restarting

EndIsAnswered ==
    monitoring /\ ~Capture!isRunning =>
        retryVisible \/ lostRetry \/ Restarting \/ FailureAfter(0)

\* A signal that takes the failure off the page is of a worker that still works, or
\* something follows it.
FreshOrFollowed ==
    monitoring =>
        \A i \in DOMAIN captureSignals :
            captureSignals[i] \in {"ready", "preview"} =>
                Healthy \/ Restarting \/ FailureAfter(i)

ActiveInv ==
    /\ ActiveTypeOK /\ CaptureIsOwned /\ GivingUpIsSaid /\ StopIsRestarted /\ EndIsAnswered
    /\ FreshOrFollowed

LEMMA ActiveInvSees == ActiveInv => MonitoringIsNeverBlind
<1>. SUFFICES ASSUME ActiveInv, monitoring PROVE MonitoringIsNeverBlind
  BY DEF MonitoringIsNeverBlind
<1>1. captureSignals \in Seq(Capture!Signals) /\ captureStop \in BOOLEAN
  BY DEF ActiveInv, ActiveTypeOK, Capture!CameraTypeOK
<1>2. captureSignals # <<>> => Len(captureSignals) \in DOMAIN captureSignals
  BY <1>1, LenProperties, EmptySeq
<1>3. CASE ~Capture!isRunning
  BY <1>3 DEF ActiveInv, EndIsAnswered, Restarting, EndWaits, FailureAfter,
              MonitoringIsNeverBlind
<1>4. CASE Capture!isRunning /\ captureStop
  BY <1>4 DEF ActiveInv, StopIsRestarted, Restarting, MonitoringIsNeverBlind
<1>5. CASE Capture!isRunning /\ ~captureStop
  BY <1>2, <1>5 DEF ActiveInv, GivingUpIsSaid, Newest, MonitoringIsNeverBlind
<1>. QED  BY <1>1, <1>3, <1>4, <1>5

LEMMA RetriesAreBounded == MaxRetries \in 0..MaxRetries /\ 0 \in 0..MaxTimers
BY RetriesAssumption

LEMMA ActiveIsEmpty ==
    /\ ActiveInit => ActiveInv
    /\ ActiveGone => ActiveInv'
<1>1. ASSUME ActiveInit PROVE ActiveInv
  <2>1. Capture!CameraTypeOK
    BY <1>1, EmptySeq DEF ActiveInit, Capture!CameraTypeOK, Capture!Phases
  <2>2. ActiveTypeOK
    BY <1>1, <2>1, RetriesAreBounded DEF ActiveInit, ActiveTypeOK
  <2>. QED  BY <1>1, <2>2 DEF ActiveInit, ActiveInv, CaptureIsOwned, GivingUpIsSaid,
       StopIsRestarted, EndIsAnswered, FreshOrFollowed, Capture!isRunning
<1>2. ASSUME ActiveGone PROVE ActiveInv'
  <2>1. Capture!CameraTypeOK'
    BY <1>2, EmptySeq DEF ActiveGone, Capture!CameraTypeOK, Capture!Phases, Capture!Signals
  <2>2. ActiveTypeOK'
    BY <1>2, <2>1, RetriesAreBounded DEF ActiveGone, ActiveTypeOK
  <2>. QED  BY <1>2, <2>2 DEF ActiveGone, ActiveInv, CaptureIsOwned, GivingUpIsSaid,
       StopIsRestarted, EndIsAnswered, FreshOrFollowed, Capture!isRunning
<1>. QED  BY <1>1, <1>2

\* A camera that is started anew, or is asked to start again when it has ended, is
\* all that the page waits for.
LEMMA StartMonitoredKeepsInv ==
    ASSUME ActiveInv, StartMonitored, monitoring',
           monitoring \/ ~Capture!isRunning \/ captureStop,
           retryVisible' \in BOOLEAN, lostRetry' \in BOOLEAN,
           UNCHANGED retriesRemaining, restartTimers' \in 0..MaxTimers,
           monitoring' \in BOOLEAN,
           capture = "leaving" /\ ~captureStop /\ ~restartAfterFinish
               => lostRetry' \/ UNCHANGED <<retryVisible, lostRetry>>
    PROVE  ActiveInv'
<1>1. /\ ActiveTypeOK /\ Capture!CameraTypeOK /\ captureStop \in BOOLEAN
      /\ restartAfterFinish \in BOOLEAN /\ captureSignals \in Seq(Capture!Signals)
  BY DEF ActiveInv, ActiveTypeOK, Capture!CameraTypeOK
<1>2. CASE Capture!isRunning
  <2>1. /\ restartAfterFinish' = (restartAfterFinish \/ captureStop)
        /\ UNCHANGED <<capture, captureStop, captureSignals>>
    BY <1>2 DEF StartMonitored, captureVars
  <2>2. Capture!CameraTypeOK' /\ Capture!isRunning'
    BY <1>1, <1>2, <2>1 DEF Capture!CameraTypeOK, Capture!isRunning, Capture!Phases,
                            Capture!Signals
  <2>3. ActiveTypeOK'
    BY <1>1, <2>1, <2>2 DEF ActiveTypeOK
  <2>4. captureStop => Restarting'
    BY <2>1, <2>2 DEF Restarting
  <2>5. GivingUpIsSaid'
    <3>1. CASE captureSignals = <<>>
      <4>1. restartAfterFinish => restartAfterFinish'
        BY <1>1, <2>1
      <4>2. capture = "leaving" /\ ~captureStop =>
                retryVisible \/ restartAfterFinish \/ lostRetry
        BY <3>1 DEF ActiveInv, GivingUpIsSaid
      <4>3. capture = "leaving" /\ ~captureStop =>
                retryVisible' \/ restartAfterFinish' \/ lostRetry'
        BY <4>1, <4>2
      <4>. QED  BY <2>1, <3>1, <4>3 DEF GivingUpIsSaid
    <3>2. CASE captureSignals # <<>>
      <4>1. Newest(captureSignals') = Newest(captureSignals) /\ captureSignals' # <<>>
        BY <2>1, <3>2
      <4>. QED  BY <2>1, <3>2, <4>1 DEF ActiveInv, GivingUpIsSaid, FailureKinds
    <3>. QED  BY <3>1, <3>2
  <2>6. CaptureIsOwned' /\ StopIsRestarted' /\ EndIsAnswered'
    BY <2>1, <2>2, <2>4 DEF CaptureIsOwned, StopIsRestarted, EndIsAnswered
  <2>7. FreshOrFollowed'
    <3>. SUFFICES ASSUME NEW i \in DOMAIN captureSignals, ~captureStop, capture = "leaving",
                         captureSignals[i] \in {"ready", "preview"}
                  PROVE  FailureAfter(i)'
      BY <1>2, <2>1, <2>2, <2>4 DEF FreshOrFollowed, Healthy
    <3>1. Len(captureSignals) \in DOMAIN captureSignals /\ i <= Len(captureSignals)
      BY <1>1, LenProperties, EmptySeq
    <3>2. captureSignals # <<>>
      BY <1>1, EmptySeq
    <3>3. captureSignals[Len(captureSignals)] \in FailureKinds
      BY <3>2 DEF ActiveInv, GivingUpIsSaid, Newest
    <3>4. i # Len(captureSignals)
      BY <3>3 DEF FailureKinds
    <3>5. Len(captureSignals) > i
      BY <1>1, <3>1, <3>4, LenProperties
    <3>. QED  BY <2>1, <3>1, <3>3, <3>5 DEF FailureAfter
  <2>. QED  BY <2>3, <2>5, <2>6, <2>7 DEF ActiveInv
<1>3. CASE ~Capture!isRunning
  <2>1. /\ capture' = "starting" /\ captureStop' = FALSE
        /\ UNCHANGED <<captureSignals, restartAfterFinish>>
    BY <1>3 DEF StartMonitored, Capture!Launch
  <2>2. Capture!CameraTypeOK' /\ Healthy'
    BY <1>1, <2>1 DEF Capture!CameraTypeOK, Capture!isRunning, Capture!Phases,
                      Capture!Signals, Healthy
  <2>3. ActiveTypeOK'
    BY <1>1, <2>1, <2>2 DEF ActiveTypeOK
  <2>. QED  BY <2>1, <2>2, <2>3 DEF ActiveInv, CaptureIsOwned, GivingUpIsSaid,
       StopIsRestarted, EndIsAnswered, FreshOrFollowed, Healthy
<1>. QED  BY <1>2, <1>3

LEMMA ActivateKeepsInv ==
    ASSUME ActiveInv, ActivateMonitoring, ~monitoring
    PROVE  ActiveInv' /\ monitoring' = TRUE
<1>1. /\ retryVisible \in BOOLEAN /\ lostRetry \in BOOLEAN /\ restartTimers \in 0..MaxTimers
      /\ ~Capture!isRunning \/ captureStop
  BY DEF ActiveInv, ActiveTypeOK, CaptureIsOwned
<1>. QED  BY <1>1, StartMonitoredKeepsInv DEF ActivateMonitoring

LEMMA RetryCaptureKeepsInv ==
    ASSUME ActiveInv, RetryCapture
    PROVE  ActiveInv' /\ UNCHANGED monitoring
<1>1. /\ monitoring = TRUE /\ restartTimers \in 0..MaxTimers
      /\ captureStop \in BOOLEAN /\ restartAfterFinish \in BOOLEAN
  BY DEF ActiveInv, ActiveTypeOK, RetryCapture, Capture!CameraTypeOK
<1>. QED  BY <1>1, StartMonitoredKeepsInv DEF RetryCapture

LEMMA ClearPageKeepsInv ==
    ASSUME ActiveInv, ClearPage
    PROVE  ActiveInv' /\ monitoring' = FALSE
<1>1. ActiveTypeOK /\ Capture!CameraTypeOK
  BY DEF ActiveInv, ActiveTypeOK
<1>2. /\ monitoring' = FALSE /\ retryVisible' = FALSE /\ restartAfterFinish' = FALSE
      /\ retriesRemaining' = MaxRetries /\ lostRetry' = FALSE
      /\ captureStop' = (captureStop \/ Capture!isRunning)
      /\ UNCHANGED <<capture, captureSignals, restartTimers>>
  BY DEF ClearPage, Capture!request_stop
<1>3. Capture!CameraTypeOK' /\ (Capture!isRunning' => captureStop')
  BY <1>1, <1>2 DEF Capture!CameraTypeOK, Capture!isRunning, Capture!Phases, Capture!Signals
<1>4. ActiveTypeOK'
  BY <1>1, <1>2, <1>3, RetriesAreBounded DEF ActiveTypeOK
<1>5. GivingUpIsSaid'
  BY <1>3 DEF GivingUpIsSaid, Capture!isRunning
<1>. QED  BY <1>2, <1>3, <1>4, <1>5 DEF ActiveInv, CaptureIsOwned,
     StopIsRestarted, EndIsAnswered, FreshOrFollowed

LEMMA RestartTimerKeepsInv ==
    ASSUME ActiveInv, RestartTimer
    PROVE  ActiveInv' /\ UNCHANGED monitoring
<1>1. /\ ActiveTypeOK /\ Capture!CameraTypeOK /\ CaptureIsOwned /\ captureStop \in BOOLEAN
      /\ restartTimers' \in 0..MaxTimers /\ monitoring \in BOOLEAN
      /\ UNCHANGED <<monitoring, retryVisible, retriesRemaining, lostRetry>>
  BY RetriesAssumption DEF ActiveInv, ActiveTypeOK, Capture!CameraTypeOK, RestartTimer
<1>2. CASE monitoring
  BY <1>1, <1>2, StartMonitoredKeepsInv DEF RestartTimer, ActiveTypeOK
<1>3. CASE ~monitoring
  <2>1. UNCHANGED <<capture, captureStop, captureSignals, restartAfterFinish>>
    BY <1>3 DEF RestartTimer, captureVars
  <2>2. Capture!CameraTypeOK' /\ (Capture!isRunning' => captureStop')
    BY <1>1, <1>3, <2>1 DEF Capture!CameraTypeOK, Capture!isRunning, Capture!Phases,
       Capture!Signals, CaptureIsOwned
  <2>3. ActiveTypeOK'
    BY <1>1, <2>1, <2>2 DEF ActiveTypeOK
  <2>4. GivingUpIsSaid'
    BY <2>2 DEF GivingUpIsSaid, Capture!isRunning
  <2>. QED  BY <1>1, <1>3, <2>2, <2>3, <2>4 DEF ActiveInv, CaptureIsOwned,
       StopIsRestarted, EndIsAnswered, FreshOrFollowed
<1>. QED  BY <1>2, <1>3
\* A step of the capture's thread: what it posts, and in which phase.
LEMMA CaptureRuns ==
    ASSUME Capture!Run, captureSignals \in Seq(Capture!Signals)
    PROVE  \E said \in Seq(Capture!Signals) :
               /\ captureSignals' = captureSignals \o said
               /\ UNCHANGED captureStop /\ Capture!isRunning
               /\ \/ capture = "leaving" /\ capture' = "finished" /\ said = <<"finished">>
                  \/ /\ capture # "leaving" /\ capture' \in {"opening", "reading", "leaving"}
                     /\ said \in {<<>>, <<"ready">>, <<"preview">>}
                     /\ capture' = "leaving" => captureStop
                  \/ /\ capture # "leaving" /\ capture' = "leaving"
                     /\ \E failure \in FailureKinds : said = <<failure>>
<1>. DEFINE Kinds == {"ready", "preview", "analysis", "finished", "unavailable", "error"}
<1>1. Capture!Signals = Kinds
  BY DEF Capture!Signals, FailureKinds
<1>2. /\ <<>> \in Seq(Kinds) /\ <<"ready">> \in Seq(Kinds) /\ <<"preview">> \in Seq(Kinds)
      /\ <<"finished">> \in Seq(Kinds)
      /\ \A failure \in FailureKinds : <<failure>> \in Seq(Kinds)
      /\ captureSignals = captureSignals \o <<>>
  BY ConcatEmptySeq, EmptySeq DEF FailureKinds
<1>. HIDE DEF Kinds
<1>3. CASE Capture!Begin
  BY <1>1, <1>2, <1>3 DEF Capture!Begin, Capture!isRunning
<1>4. CASE Capture!Open
  BY <1>1, <1>2, <1>4 DEF Capture!Open, Capture!Emit, Capture!isRunning
<1>5. CASE Capture!Read
  BY <1>1, <1>2, <1>5 DEF Capture!Read, Capture!Emit, Capture!isRunning
<1>6. CASE Capture!LeaveLoop
  BY <1>1, <1>2, <1>6 DEF Capture!LeaveLoop, Capture!isRunning
<1>7. CASE Capture!Fail
  BY <1>1, <1>2, <1>7 DEF Capture!Fail, Capture!Emit, Capture!isRunning
<1>8. CASE Capture!Finish
  BY <1>1, <1>2, <1>8 DEF Capture!Finish, Capture!Emit, Capture!isRunning
<1>. QED  BY <1>3, <1>4, <1>5, <1>6, <1>7, <1>8 DEF Capture!Run

LEMMA RunCaptureKeepsInv ==
    ASSUME ActiveInv, RunCapture
    PROVE  ActiveInv' /\ UNCHANGED monitoring
<1>1. /\ captureSignals \in Seq(Capture!Signals) /\ Capture!Run /\ captureStop \in BOOLEAN
      /\ monitoring \in BOOLEAN
      /\ UNCHANGED <<monitoring, retryVisible, retriesRemaining, restartAfterFinish,
                     restartTimers, lostRetry>>
  BY DEF ActiveInv, ActiveTypeOK, Capture!CameraTypeOK, RunCapture
<1>2. PICK said \in Seq(Capture!Signals) :
          /\ captureSignals' = captureSignals \o said
          /\ UNCHANGED captureStop /\ Capture!isRunning
          /\ \/ capture = "leaving" /\ capture' = "finished" /\ said = <<"finished">>
             \/ /\ capture # "leaving" /\ capture' \in {"opening", "reading", "leaving"}
                /\ said \in {<<>>, <<"ready">>, <<"preview">>}
                /\ capture' = "leaving" => captureStop
             \/ /\ capture # "leaving" /\ capture' = "leaving"
                /\ \E failure \in FailureKinds : said = <<failure>>
  BY <1>1, CaptureRuns
<1>. DEFINE n == Len(captureSignals)
            m == Len(said)
<1>3. /\ captureSignals' \in Seq(Capture!Signals) /\ Len(captureSignals') = n + m
      /\ n \in Nat /\ m \in Nat
      /\ \A i \in 1..n : captureSignals'[i] = captureSignals[i]
      /\ \A i \in n + 1..n + m : captureSignals'[i] = said[i - n]
      /\ said # <<>> => captureSignals' # <<>> /\ Newest(captureSignals') = Newest(said)
  BY <1>1, <1>2, Posted, LenProperties
<1>4. m \in {0, 1} /\ (m = 1 => said # <<>> /\ Newest(said) = said[1])
  BY <1>2 DEF Newest
<1>. HIDE DEF n, m
<1>5. DOMAIN captureSignals = 1..n /\ DOMAIN captureSignals' = 1..n + m
  BY <1>1, <1>3, LenProperties DEF n
<1>6. \A i \in 1..n : i \in 1..n + m /\ captureSignals'[i] = captureSignals[i]
  BY <1>3
<1>7. m = 1 => n + 1 \in 1..n + m /\ captureSignals'[n + 1] = said[1]
  BY <1>3
<1>8. \A i \in 1..n + m : i \in 1..n \/ (m = 1 /\ i = n + 1)
  BY <1>3, <1>4
<1>9. /\ \A i \in 1..n : FailureAfter(i) => FailureAfter(i)'
      /\ FailureAfter(0) => FailureAfter(0)'
      /\ EndWaits => EndWaits'
  BY <1>5, <1>6 DEF FailureAfter, EndWaits
<1>10. ActiveTypeOK'
  <2>1. Capture!CameraTypeOK'
    BY <1>1, <1>2, <1>3 DEF Capture!CameraTypeOK, Capture!Phases, Capture!Signals
  <2>. QED  BY <1>1, <2>1 DEF ActiveInv, ActiveTypeOK
<1>11. CaptureIsOwned'
  BY <1>1, <1>2 DEF ActiveInv, CaptureIsOwned
<1>12. CASE capture = "leaving" /\ capture' = "finished" /\ said = <<"finished">>
  <2>1. m = 1 /\ said[1] = "finished" /\ ~Capture!isRunning'
    BY <1>12 DEF m, Capture!isRunning
  <2>2. EndWaits'
    BY <1>5, <1>7, <2>1 DEF EndWaits
  <2>3. GivingUpIsSaid' /\ StopIsRestarted'
    BY <1>12, <2>1 DEF GivingUpIsSaid, StopIsRestarted
  <2>4. Restarting => Restarting'
    BY <1>1, <2>2 DEF Restarting
  <2>5. EndIsAnswered'
    <3>1. CASE ~monitoring
      BY <1>1, <3>1 DEF EndIsAnswered
    <3>2. CASE monitoring /\ captureStop
      BY <1>1, <1>2, <2>4, <3>2 DEF ActiveInv, StopIsRestarted, EndIsAnswered
    <3>3. CASE captureSignals = <<>> /\ ~captureStop
      BY <1>1, <1>12, <2>2, <3>3 DEF ActiveInv, GivingUpIsSaid, EndIsAnswered, Restarting
    <3>4. CASE captureSignals # <<>> /\ ~captureStop
      <4>1. Newest(captureSignals) \in FailureKinds
        BY <1>12, <3>4 DEF ActiveInv, GivingUpIsSaid
      <4>2. n \in 1..n /\ n > 0
        BY <1>1, <3>4, LenProperties, EmptySeq DEF n
      <4>3. FailureAfter(0)
        BY <1>5, <4>1, <4>2 DEF FailureAfter, Newest, n
      <4>. QED  BY <1>9, <4>3 DEF EndIsAnswered
    <3>. QED  BY <3>1, <3>2, <3>3, <3>4
  <2>6. FreshOrFollowed'
    <3>. SUFFICES ASSUME monitoring, NEW i \in 1..n + m,
                         captureSignals'[i] \in {"ready", "preview"}
                  PROVE  Restarting' \/ FailureAfter(i)'
      BY <1>1, <1>5 DEF FreshOrFollowed
    <3>1. i \in 1..n
      BY <1>7, <1>8, <2>1
    <3>2. Restarting \/ FailureAfter(i)
      BY <1>5, <1>6, <1>12, <3>1 DEF ActiveInv, FreshOrFollowed, Healthy
    <3>. QED  BY <1>9, <2>4, <3>1, <3>2
  <2>. QED  BY <1>1, <1>10, <1>11, <2>3, <2>5, <2>6 DEF ActiveInv
<1>13. ASSUME capture # "leaving", capture' \in {"opening", "reading", "leaving"}
       PROVE  /\ Capture!isRunning' /\ (Restarting => Restarting')
              /\ StopIsRestarted' /\ EndIsAnswered'
  <2>1. Capture!isRunning'
    BY <1>13 DEF Capture!isRunning
  <2>2. Restarting => Restarting'
    BY <1>1, <2>1 DEF Restarting
  <2>. QED  BY <1>1, <1>2, <2>1, <2>2 DEF ActiveInv, StopIsRestarted, EndIsAnswered
<1>14. CASE /\ capture # "leaving" /\ capture' \in {"opening", "reading", "leaving"}
            /\ said \in {<<>>, <<"ready">>, <<"preview">>}
            /\ capture' = "leaving" => captureStop
  <2>1. GivingUpIsSaid'
    BY <1>2, <1>14 DEF GivingUpIsSaid
  <2>2. FreshOrFollowed'
    <3>1. CASE ~captureStop
      BY <1>2, <1>13, <1>14, <3>1 DEF FreshOrFollowed, Healthy
    <3>2. CASE captureStop
      BY <1>1, <1>2, <1>13, <1>14, <3>2 DEF ActiveInv, StopIsRestarted, FreshOrFollowed
    <3>. QED  BY <3>1, <3>2
  <2>. QED  BY <1>1, <1>10, <1>11, <1>13, <1>14, <2>1, <2>2 DEF ActiveInv
<1>15. CASE /\ capture # "leaving" /\ capture' = "leaving"
            /\ \E failure \in FailureKinds : said = <<failure>>
  <2>1. m = 1 /\ said[1] \in FailureKinds
    BY <1>15 DEF m
  <2>2. GivingUpIsSaid'
    BY <1>3, <1>4, <2>1 DEF GivingUpIsSaid
  <2>3. FreshOrFollowed'
    <3>. SUFFICES ASSUME NEW i \in 1..n + m, captureSignals'[i] \in {"ready", "preview"}
                  PROVE  FailureAfter(i)'
      BY <1>5 DEF FreshOrFollowed
    <3>1. i # n + 1
      BY <1>7, <2>1 DEF FailureKinds
    <3>2. i \in 1..n /\ n \in Nat
      BY <1>3, <1>8, <3>1
    <3>3. n + 1 > i
      BY <3>2
    <3>. QED  BY <1>5, <1>7, <2>1, <3>3 DEF FailureAfter
  <2>. QED  BY <1>1, <1>10, <1>11, <1>13, <1>15, <2>2, <2>3 DEF ActiveInv
<1>. QED  BY <1>2, <1>12, <1>14, <1>15

\* Taking a signal: what follows it still follows, one place further to the front.
LEMMA CaptureSignalTaken ==
    ASSUME ActiveInv, captureSignals # <<>>, captureSignals' = Tail(captureSignals)
    PROVE  /\ captureSignals' \in Seq(Capture!Signals)
           /\ Head(captureSignals) \in Capture!Signals
           /\ Head(captureSignals) = captureSignals[1] /\ 1 \in DOMAIN captureSignals
           /\ \A i \in DOMAIN captureSignals' :
                  /\ i + 1 \in DOMAIN captureSignals
                  /\ captureSignals'[i] = captureSignals[i + 1]
                  /\ FailureAfter(i + 1) => FailureAfter(i)'
           /\ FailureAfter(1) => FailureAfter(0)'
           /\ Head(captureSignals) \notin FailureKinds /\ FailureAfter(0) => FailureAfter(0)'
           /\ Head(captureSignals) # "finished" /\ EndWaits => EndWaits'
           /\ captureSignals' # <<>> => Newest(captureSignals') = Newest(captureSignals)
           /\ captureSignals' = <<>> => Newest(captureSignals) = Head(captureSignals)
<1>1. captureSignals \in Seq(Capture!Signals)
  BY DEF ActiveInv, ActiveTypeOK, Capture!CameraTypeOK
<1>2. /\ captureSignals' \in Seq(Capture!Signals)
      /\ Head(captureSignals) \in Capture!Signals
      /\ Head(captureSignals) = captureSignals[1]
      /\ Len(captureSignals) \in Nat \ {0}
      /\ Len(captureSignals') = Len(captureSignals) - 1
      /\ \A i \in 1..Len(captureSignals') : captureSignals'[i] = captureSignals[i + 1]
      /\ captureSignals' # <<>> => Newest(captureSignals') = Newest(captureSignals)
      /\ captureSignals' = <<>> => Newest(captureSignals) = Head(captureSignals)
  BY <1>1, Handled
<1>. DEFINE n == Len(captureSignals)
<1>3. /\ n \in Nat \ {0} /\ DOMAIN captureSignals = 1..n
      /\ DOMAIN captureSignals' = 1..n - 1
      /\ \A i \in 1..n - 1 : captureSignals'[i] = captureSignals[i + 1]
  BY <1>1, <1>2, LenProperties
<1>. HIDE DEF n
<1>4. /\ 1 \in 1..n /\ \A i \in 1..n - 1 : i + 1 \in 1..n
      /\ \A i \in 1..n : i = 1 \/ (i - 1 \in 1..n - 1 /\ (i - 1) + 1 = i)
      /\ \A i \in 1..n - 1 : \A j \in 1..n : j > i + 1 => j - 1 > i
      /\ \A j \in 1..n : (j > 1 => j - 1 > 0) /\ (j > 0 => j = 1 \/ j - 1 > 0)
      /\ \A i \in 1..n - 1 : \A j \in 1..n : j > i + 1 => j # 1
      /\ \A j \in 1..n : j > 1 => j # 1
  BY <1>3
<1>5. \A i \in 1..n : i # 1 => i - 1 \in 1..n - 1 /\ captureSignals'[i - 1] = captureSignals[i]
  BY <1>3, <1>4
<1>6. ASSUME NEW i \in 1..n - 1, FailureAfter(i + 1) PROVE FailureAfter(i)'
  <2>1. PICK j \in 1..n : j > i + 1 /\ captureSignals[j] \in FailureKinds
    BY <1>3, <1>6 DEF FailureAfter
  <2>2. j - 1 > i /\ j - 1 \in 1..n - 1 /\ captureSignals'[j - 1] \in FailureKinds
    BY <1>4, <1>5, <2>1
  <2>. QED  BY <1>3, <2>2 DEF FailureAfter, FailureKinds
<1>7. ASSUME FailureAfter(1) \/ (captureSignals[1] \notin FailureKinds /\ FailureAfter(0))
      PROVE  FailureAfter(0)'
  <2>1. PICK j \in 1..n : j # 1 /\ j - 1 > 0 /\ captureSignals[j] \in FailureKinds
    BY <1>3, <1>4, <1>7 DEF FailureAfter
  <2>2. j - 1 \in 1..n - 1 /\ captureSignals'[j - 1] \in FailureKinds
    BY <1>5, <2>1
  <2>. QED  BY <1>3, <2>1, <2>2 DEF FailureAfter, FailureKinds
<1>8. ASSUME captureSignals[1] # "finished", EndWaits PROVE EndWaits'
  <2>1. PICK j \in 1..n : j # 1 /\ captureSignals[j] = "finished"
    BY <1>3, <1>8 DEF EndWaits
  <2>2. j - 1 \in 1..n - 1 /\ captureSignals'[j - 1] = "finished"
    BY <1>5, <2>1
  <2>. QED  BY <1>3, <2>2 DEF EndWaits
<1>. QED  BY <1>2, <1>3, <1>4, <1>6, <1>7, <1>8
\* Where a signal leaves the worker as it is, or only frees the one that has ended.
LEMMA CaptureSignalKeepsInv ==
    ASSUME ActiveInv, HandleCaptureSignal
    PROVE  ActiveInv' /\ UNCHANGED monitoring
<1>. DEFINE signal == Head(captureSignals)
<1>1. /\ captureSignals # <<>> /\ captureSignals' = Tail(captureSignals)
      /\ UNCHANGED <<monitoring, captureStop, lostRetry>>
      /\ ActiveTypeOK /\ Capture!CameraTypeOK /\ monitoring \in BOOLEAN
      /\ captureStop \in BOOLEAN /\ retryVisible \in BOOLEAN
      /\ restartAfterFinish \in BOOLEAN /\ lostRetry \in BOOLEAN
      /\ retriesRemaining \in 0..MaxRetries /\ restartTimers \in 0..MaxTimers
      /\ \/ signal \in {"ready", "preview"} /\ (HandleReady \/ HandlePreview)
         \/ signal \in FailureKinds /\ HandleFailure(signal)
         \/ signal = "finished" /\ HandleFinished
  BY DEF ActiveInv, ActiveTypeOK, Capture!CameraTypeOK, HandleCaptureSignal
<1>2. /\ captureSignals' \in Seq(Capture!Signals)
      /\ signal = captureSignals[1] /\ 1 \in DOMAIN captureSignals
      /\ \A i \in DOMAIN captureSignals' :
             /\ i + 1 \in DOMAIN captureSignals
             /\ captureSignals'[i] = captureSignals[i + 1]
             /\ FailureAfter(i + 1) => FailureAfter(i)'
      /\ FailureAfter(1) => FailureAfter(0)'
      /\ signal \notin FailureKinds /\ FailureAfter(0) => FailureAfter(0)'
      /\ signal # "finished" /\ EndWaits => EndWaits'
      /\ captureSignals' # <<>> => Newest(captureSignals') = Newest(captureSignals)
      /\ captureSignals' = <<>> => Newest(captureSignals) = signal
  BY <1>1, CaptureSignalTaken
<1>. HIDE DEF signal
<1>3. ASSUME capture' = capture \/ (capture = "finished" /\ capture' = "none")
      PROVE  /\ Capture!CameraTypeOK' /\ (Capture!isRunning' <=> Capture!isRunning)
             /\ (capture' = "leaving" <=> capture = "leaving") /\ (Healthy' <=> Healthy)
             /\ CaptureIsOwned'
  <2>1. (Capture!isRunning' <=> Capture!isRunning) /\ (capture' = "leaving" <=> capture = "leaving")
    BY <1>3 DEF Capture!isRunning
  <2>2. Capture!CameraTypeOK'
    BY <1>1, <1>2, <1>3 DEF Capture!CameraTypeOK, Capture!Phases, Capture!Signals
  <2>. QED  BY <1>1, <2>1, <2>2 DEF Healthy, ActiveInv, CaptureIsOwned
\* A worker that gave up has said so with its last signal.
<1>4. ASSUME capture = "leaving", ~captureStop
      PROVE  monitoring /\ Newest(captureSignals) \in FailureKinds
  BY <1>1, <1>4 DEF ActiveInv, CaptureIsOwned, GivingUpIsSaid, Capture!isRunning
\* A restart stays on its way, and what waited behind the signal still does.
<1>5. ASSUME Restarting => Restarting', Healthy => Healthy'
      PROVE  FreshOrFollowed'
  <2>. SUFFICES ASSUME monitoring', NEW i \in DOMAIN captureSignals',
                       captureSignals'[i] \in {"ready", "preview"}
                PROVE  Healthy' \/ Restarting' \/ FailureAfter(i)'
    BY DEF FreshOrFollowed
  <2>1. i + 1 \in DOMAIN captureSignals /\ captureSignals[i + 1] \in {"ready", "preview"}
    BY <1>2
  <2>2. Healthy \/ Restarting \/ FailureAfter(i + 1)
    BY <1>1, <2>1 DEF ActiveInv, FreshOrFollowed
  <2>. QED  BY <1>2, <1>5, <2>2
<1>6. CASE signal \in {"ready", "preview"} /\ (HandleReady \/ HandlePreview)
  <2>1. /\ retryVisible' = (retryVisible /\ ~monitoring)
        /\ UNCHANGED <<capture, restartAfterFinish, restartTimers>>
        /\ retriesRemaining' \in 0..MaxRetries
    BY <1>1, <1>6, RetriesAreBounded DEF HandleReady, HandlePreview
  <2>2. signal \notin FailureKinds /\ signal # "finished"
    BY <1>6 DEF FailureKinds
  <2>3. Restarting => Restarting'
    BY <1>2, <1>3, <2>1, <2>2 DEF Restarting
  <2>4. ActiveTypeOK'
    BY <1>1, <1>3, <2>1 DEF ActiveTypeOK
  <2>5. GivingUpIsSaid'
    BY <1>1, <1>2, <1>4, <2>1, <2>2 DEF GivingUpIsSaid, FailureKinds
  <2>6. StopIsRestarted'
    BY <1>1, <1>3, <2>1, <2>3 DEF ActiveInv, StopIsRestarted
  <2>7. EndIsAnswered'
    <3>. SUFFICES ASSUME monitoring, ~Capture!isRunning
                  PROVE  Restarting' \/ FailureAfter(0)'
      BY <1>1, <1>3, <2>1 DEF EndIsAnswered
    <3>1. Restarting \/ FailureAfter(1)
      BY <1>2, <1>6 DEF ActiveInv, FreshOrFollowed, Healthy
    <3>. QED  BY <1>2, <2>3, <3>1
  <2>. QED  BY <1>1, <1>3, <1>5, <2>1, <2>3, <2>4, <2>5, <2>6, <2>7 DEF ActiveInv
<1>7. CASE signal \in FailureKinds /\ HandleFailure(signal)
  <2>1. /\ retryVisible' = (retryVisible \/ monitoring)
        /\ UNCHANGED <<capture, restartTimers>>
        /\ restartAfterFinish' \in BOOLEAN /\ (restartAfterFinish => restartAfterFinish')
        /\ retriesRemaining' \in 0..MaxRetries
    <3>1. retryVisible' = (retryVisible \/ monitoring) /\ UNCHANGED <<capture, restartTimers>>
      BY <1>7 DEF HandleFailure
    <3>2. CASE signal = "unavailable" /\ retriesRemaining > 0
      BY <1>1, <1>7, <3>1, <3>2, RetriesAssumption DEF HandleFailure
    <3>3. CASE ~(signal = "unavailable" /\ retriesRemaining > 0)
      BY <1>1, <1>7, <3>1, <3>3 DEF HandleFailure
    <3>. QED  BY <3>2, <3>3
  <2>2. signal # "finished"
    BY <1>7 DEF FailureKinds
  <2>3. Restarting => Restarting'
    BY <1>2, <1>3, <2>1, <2>2 DEF Restarting
  <2>4. ActiveTypeOK'
    BY <1>1, <1>3, <2>1 DEF ActiveTypeOK
  <2>5. GivingUpIsSaid'
    BY <1>1, <1>2, <1>4, <2>1 DEF GivingUpIsSaid, FailureKinds
  <2>6. StopIsRestarted'
    BY <1>1, <1>3, <2>1, <2>3 DEF ActiveInv, StopIsRestarted
  <2>7. EndIsAnswered'
    BY <1>1, <2>1 DEF EndIsAnswered
  <2>. QED  BY <1>1, <1>3, <1>5, <2>1, <2>3, <2>4, <2>5, <2>6, <2>7 DEF ActiveInv
<1>8. CASE signal = "finished" /\ HandleFinished
  <2>1. /\ capture' = capture \/ (capture = "finished" /\ capture' = "none")
        /\ UNCHANGED <<retryVisible, retriesRemaining>>
    BY <1>8 DEF HandleFinished, Capture!Dispose
  <2>2. GivingUpIsSaid'
    BY <1>1, <1>2, <1>3, <1>4, <1>8, <2>1 DEF GivingUpIsSaid, FailureKinds
  <2>3. signal \notin FailureKinds
    BY <1>8 DEF FailureKinds
  <2>4. CASE restartAfterFinish /\ monitoring
    <3>1. restartAfterFinish' = FALSE /\ restartTimers' \in 0..MaxTimers /\ restartTimers' > 0
      BY <1>1, <1>8, <2>4, RetriesAssumption DEF HandleFinished
    <3>2. Restarting'
      BY <3>1 DEF Restarting
    <3>3. ActiveTypeOK'
      BY <1>1, <1>3, <2>1, <3>1 DEF ActiveTypeOK
    <3>4. StopIsRestarted' /\ EndIsAnswered'
      BY <3>2 DEF StopIsRestarted, EndIsAnswered
    <3>. QED  BY <1>1, <1>3, <1>5, <2>1, <2>2, <3>2, <3>3, <3>4 DEF ActiveInv
  <2>5. CASE ~(restartAfterFinish /\ monitoring)
    <3>1. UNCHANGED <<restartAfterFinish, restartTimers>>
      BY <1>8, <2>5 DEF HandleFinished
    <3>2. ActiveTypeOK'
      BY <1>1, <1>3, <2>1, <3>1 DEF ActiveTypeOK
    <3>3. CASE ~monitoring
      BY <1>1, <1>3, <2>1, <2>2, <3>2, <3>3
         DEF ActiveInv, StopIsRestarted, EndIsAnswered, FreshOrFollowed
    <3>4. CASE monitoring /\ ~restartAfterFinish
      <4>1. Restarting => Restarting'
        BY <3>1, <3>4 DEF Restarting
      <4>2. StopIsRestarted'
        BY <1>1, <1>3, <2>1, <4>1 DEF ActiveInv, StopIsRestarted
      <4>3. EndIsAnswered'
        BY <1>1, <1>2, <1>3, <2>1, <2>3, <4>1 DEF ActiveInv, EndIsAnswered
      <4>. QED  BY <1>1, <1>3, <1>5, <2>1, <2>2, <3>2, <4>1, <4>2, <4>3 DEF ActiveInv
    <3>. QED  BY <2>5, <3>3, <3>4
  <2>. QED  BY <2>4, <2>5
<1>. QED  BY <1>1, <1>6, <1>7, <1>8
-----------------------------------------------------------------------------
\* The desktop: the four components, and the page that belongs to what is going on.
Routes ==
    /\ route \in {"login", "operations", "safety", "active"}
    /\ loggedIn <=> route # "login"
    /\ cameraActive <=> route = "safety"
    /\ monitoring <=> route = "active"
    /\ monitoring <=> workSession \in Operations
    /\ workSession \in Operations \cup {NoOperation}

IInv == LoginInv /\ ListInv /\ ReleaseInv /\ ActiveInv /\ Routes

LEMMA LoginStays == LoginInv /\ UNCHANGED loginVars => LoginInv' /\ UNCHANGED session
BY DEF LoginInv, loginVars, LoginTypeOK, EndIsAnnounced, AttemptIsShown, AttemptEnded, Newest,
       FaceStates

LEMMA ListStays == ListInv /\ UNCHANGED listVars => ListInv'
<1>. SUFFICES ASSUME ListInv, UNCHANGED listVars PROVE ListInv'
  OBVIOUS
<1>1. UNCHANGED <<pictureVars, list, loader, selected, preview, lostCapture>>
  BY DEF listVars
<1>2. ListTypeOK'
  BY <1>1, PictureStays DEF ListInv, ListTypeOK, pictureVars
<1>3. AreaIsSelected' /\ PageIsAnswered'
  BY <1>1, PictureStays DEF ListInv, AreaIsSelected, PageIsAnswered, pictureVars,
                            Picture!isRunning
<1>. QED  BY <1>1, <1>2, <1>3, PictureStays DEF ListInv

LEMMA ReleaseStays ==
    ReleaseInv /\ UNCHANGED releaseVars => ReleaseInv' /\ UNCHANGED cameraActive
<1>. SUFFICES ASSUME ReleaseInv, UNCHANGED releaseVars
              PROVE  ReleaseInv' /\ UNCHANGED cameraActive
  OBVIOUS
<1>1. /\ Camera!CameraTypeOK /\ Detector!WorkerTypeOK /\ frame \in BOOLEAN
      /\ UNCHANGED <<pageVars, cameraVars, detectorVars, windowVars, gateVars>>
  BY DEF ReleaseInv, ReleaseTypeOK, releaseVars
<1>2. /\ Camera!CameraTypeOK' /\ (Camera!isRunning' <=> Camera!isRunning)
      /\ UNCHANGED cameraStop /\ Detector!WorkerTypeOK' /\ UNCHANGED frame
  BY <1>1, CameraStays, DetectorStays DEF detectorVars
<1>. QED  BY <1>1, <1>2, ReleaseWorkerKeepsInv

LEMMA ActiveStays ==
    ActiveInv /\ UNCHANGED activeVars => ActiveInv' /\ UNCHANGED monitoring
<1>. SUFFICES ASSUME ActiveInv, UNCHANGED activeVars PROVE ActiveInv' /\ UNCHANGED monitoring
  OBVIOUS
<1>1. UNCHANGED <<monitoring, retryVisible, capture, captureStop, captureSignals,
                  retriesRemaining, restartAfterFinish, restartTimers, lostRetry>>
  BY DEF activeVars, captureVars
<1>2. ActiveTypeOK'
  BY <1>1 DEF ActiveInv, ActiveTypeOK, Capture!CameraTypeOK, Capture!Phases, Capture!Signals
<1>3. /\ Restarting' <=> Restarting
      /\ \A i : FailureAfter(i)' <=> FailureAfter(i)
      /\ Healthy' <=> Healthy
      /\ Capture!isRunning' <=> Capture!isRunning
  BY <1>1 DEF Restarting, EndWaits, FailureAfter, Healthy, Capture!isRunning, FailureKinds
<1>4. GivingUpIsSaid'
  BY <1>1 DEF ActiveInv, GivingUpIsSaid, Newest, FailureKinds
<1>. QED  BY <1>1, <1>2, <1>3, <1>4 DEF ActiveInv, CaptureIsOwned, StopIsRestarted,
     EndIsAnswered, FreshOrFollowed

LEMMA SessionOpens ==
    /\ LoginClick => UNCHANGED session
    /\ RunLogin => UNCHANGED session
    /\ HandleLogin => UNCHANGED session \/ (session = NoSession /\ session' # NoSession)
<1>1. LoginClick => UNCHANGED session
  BY DEF LoginClick, RequestScan, ShowCredentials, ShowFace, Submit
<1>2. RunLogin => UNCHANGED session
  BY DEF RunLogin
<1>3. HandleLogin => UNCHANGED session \/ (session = NoSession /\ session' # NoSession)
  BY DEF HandleLogin, HandleFaceSignal, HandleCredentialAnswer, OpenSession, NoSession
<1>. QED  BY <1>1, <1>2, <1>3

LEMMA NothingIsNoOperation == NoOperation \notin Operations
BY EvidenceAssumption

\* Where no page changes.
LEMMA RoutesStay ==
    ASSUME Routes, UNCHANGED <<stationVars, session, cameraActive, monitoring>>
    PROVE  Routes'
BY DEF Routes, stationVars, loggedIn

LEMMA DesktopBegins == Init => IInv
<1>. SUFFICES ASSUME Init PROVE IInv
  OBVIOUS
<1>1. LoginInv /\ ListInv /\ ReleaseInv /\ ActiveInv
  BY LoginBegins, ListBegins, ReleaseIsEmpty, ActiveIsEmpty DEF Init
<1>2. Routes
  BY NothingIsNoOperation
     DEF Init, LoginInit, ReleaseInit, ActiveInit, Routes, loggedIn
<1>. QED  BY <1>1, <1>2 DEF IInv

LEMMA AtLoginKeepsIInv == ASSUME IInv, AtLogin PROVE IInv'
<1>1. /\ LoginInv' /\ UNCHANGED session
      /\ UNCHANGED <<listVars, releaseVars, activeVars, stationVars>>
  BY LoginClickKeepsInv, SessionOpens DEF IInv, AtLogin
<1>. QED  BY <1>1, ListStays, ReleaseStays, ActiveStays, RoutesStay DEF IInv

LEMMA HandleLoginSignalKeepsIInv == ASSUME IInv, HandleLoginSignal PROVE IInv'
<1>1. /\ LoginInv' /\ ReleaseInv' /\ ActiveInv' /\ UNCHANGED <<cameraActive, monitoring>>
      /\ UNCHANGED session \/ (session = NoSession /\ session' # NoSession)
      /\ UNCHANGED workSession
  BY HandleLoginKeepsInv, SessionOpens, ReleaseStays, ActiveStays DEF IInv, HandleLoginSignal
<1>2. CASE session' # session
  <2>1. ListInv' /\ route' = "operations"
    BY <1>2, LoadOperationsKeepsInv DEF IInv, HandleLoginSignal
  <2>2. Routes'
    BY <1>1, <1>2, <2>1 DEF IInv, Routes, loggedIn
  <2>. QED  BY <1>1, <2>1, <2>2 DEF IInv
<1>3. CASE session' = session
  <2>1. UNCHANGED <<listVars, route>>
    BY <1>3 DEF HandleLoginSignal
  <2>2. Routes'
    BY <1>1, <1>3, <2>1, RoutesStay DEF IInv, stationVars
  <2>. QED  BY <1>1, <2>1, <2>2, ListStays DEF IInv
<1>. QED  BY <1>2, <1>3

LEMMA LogoutKeepsIInv == ASSUME IInv, Logout PROVE IInv'
<1>1. LoginInv' /\ ListInv' /\ ReleaseInv' /\ ActiveInv'
  BY ResetKeepsLoginInv, ListGoneKeepsInv, ReleaseIsEmpty, ActiveIsEmpty DEF IInv, Logout
<1>2. Routes'
  BY NothingIsNoOperation DEF Logout, ResetLogin, ReleaseGone, ActiveGone, Routes, loggedIn
<1>. QED  BY <1>1, <1>2 DEF IInv

LEMMA AtListKeepsIInv == ASSUME IInv, AtList PROVE IInv'
<1>1. ListInv'
  BY ShowDetailsKeepsInv, RequestAreaKeepsInv DEF IInv, AtList
<1>2. UNCHANGED <<loginVars, releaseVars, activeVars, stationVars>>
  BY DEF AtList
<1>. QED  BY <1>1, <1>2, LoginStays, ReleaseStays, ActiveStays, RoutesStay DEF IInv

LEMMA SelectOperationKeepsIInv ==
    ASSUME IInv, NEW op \in Operations, SelectOperation(op)
    PROVE  IInv'
<1>1. ReleaseInv' /\ cameraActive' = TRUE
  BY OpenVerificationKeepsInv DEF IInv, SelectOperation
<1>2. /\ route = "operations" /\ route' = "safety"
      /\ UNCHANGED <<loginVars, listVars, activeVars, workSession>>
  BY DEF SelectOperation
<1>3. LoginInv' /\ UNCHANGED session /\ ListInv' /\ ActiveInv' /\ UNCHANGED monitoring
  BY <1>2, LoginStays, ListStays, ActiveStays DEF IInv
<1>4. Routes'
  BY <1>1, <1>2, <1>3 DEF IInv, Routes, loggedIn
<1>. QED  BY <1>1, <1>3, <1>4 DEF IInv

LEMMA BackKeepsIInv == ASSUME IInv, Back PROVE IInv'
<1>1. ReleaseInv' /\ cameraActive' = FALSE
  BY DeactivateKeepsInv DEF IInv, Back
<1>2. /\ route = "safety" /\ route' = "operations"
      /\ UNCHANGED <<loginVars, listVars, activeVars, workSession>>
  BY DEF Back
<1>3. LoginInv' /\ UNCHANGED session /\ ListInv' /\ ActiveInv' /\ UNCHANGED monitoring
  BY <1>2, LoginStays, ListStays, ActiveStays DEF IInv
<1>4. Routes'
  BY <1>1, <1>2, <1>3 DEF IInv, Routes, loggedIn
<1>. QED  BY <1>1, <1>3, <1>4 DEF IInv

LEMMA RetryKeepsIInv == ASSUME IInv, Retry PROVE IInv'
<1>1. /\ ReleaseInv' /\ ActiveInv' /\ UNCHANGED <<cameraActive, monitoring>>
  BY RetryCameraKeepsInv, RetryCaptureKeepsInv, ReleaseStays, ActiveStays DEF IInv, Retry
<1>2. UNCHANGED <<loginVars, listVars, stationVars>>
  BY DEF Retry
<1>. QED  BY <1>1, <1>2, LoginStays, ListStays, RoutesStay DEF IInv

\* What the gate requires is compliant evidence for the operation on the page.
LEMMA GateIsClosedToOthers ==
    ASSUME IInv, startEnabled, GateOpens
    PROVE  /\ operation \in Operations /\ route = "safety"
           /\ Status(Requires[operation], tracked, window) = "compliant"
BY DEF IInv, ReleaseInv, EvidenceIsAssessed, ButtonFollowsEvidence, GateOpens, Routes

LEMMA RequestStartKeepsIInv == ASSUME IInv, RequestStart PROVE IInv'
<1>1. startEnabled /\ UNCHANGED <<loginVars, listVars>>
  BY DEF RequestStart
<1>2. LoginInv' /\ UNCHANGED session /\ ListInv'
  BY <1>1, LoginStays, ListStays DEF IInv
<1>3. CASE GateOpens /\ StartWorkSession
  <2>1. operation \in Operations /\ route = "safety"
    BY <1>1, <1>3, GateIsClosedToOthers
  <2>2. /\ NoWorkSession /\ workSession' = operation /\ route' = "active"
        /\ Deactivate /\ ActivateMonitoring /\ UNCHANGED operation
    BY <1>3 DEF StartWorkSession
  <2>3. ~monitoring
    BY <2>2, NothingIsNoOperation DEF IInv, Routes, NoWorkSession
  <2>4. ReleaseInv' /\ cameraActive' = FALSE
    BY <2>2, DeactivateKeepsInv DEF IInv
  <2>5. ActiveInv' /\ monitoring' = TRUE
    BY <2>2, <2>3, ActivateKeepsInv DEF IInv
  <2>6. Routes'
    BY <1>2, <2>1, <2>2, <2>4, <2>5 DEF IInv, Routes, loggedIn
  <2>. QED  BY <1>2, <2>4, <2>5, <2>6 DEF IInv
<1>4. CASE (RejectStart \/ LoseAuthorization) /\ UNCHANGED <<activeVars, stationVars>>
  <2>1. ReleaseInv' /\ UNCHANGED cameraActive
    BY <1>4, ResultStepKeepsInv DEF IInv, RejectStart, LoseAuthorization
  <2>2. ActiveInv' /\ UNCHANGED monitoring
    BY <1>4, ActiveStays DEF IInv
  <2>. QED  BY <1>2, <1>4, <2>1, <2>2, RoutesStay DEF IInv
<1>. QED  BY <1>3, <1>4 DEF RequestStart

LEMMA FinishWorkSessionKeepsIInv == ASSUME IInv, FinishWorkSession PROVE IInv'
<1>1. /\ workSession # NoOperation /\ workSession' = NoOperation /\ route' = "operations"
      /\ ClearPage /\ UNCHANGED <<loginVars, listVars, releaseVars>>
  BY DEF FinishWorkSession, NoWorkSession
<1>2. /\ LoginInv' /\ UNCHANGED session /\ ListInv' /\ ReleaseInv'
      /\ UNCHANGED cameraActive /\ ActiveInv' /\ monitoring' = FALSE
  BY <1>1, LoginStays, ListStays, ReleaseStays, ClearPageKeepsInv DEF IInv
<1>3. route = "active"
  BY <1>1 DEF IInv, Routes
<1>4. Routes'
  BY <1>1, <1>2, <1>3, NothingIsNoOperation DEF IInv, Routes, loggedIn
<1>. QED  BY <1>2, <1>4 DEF IInv

LEMMA HandleKeepsIInv == ASSUME IInv, Handle PROVE IInv'
<1>1. LoginInv' /\ UNCHANGED session /\ UNCHANGED stationVars
  BY LoginStays DEF IInv, Handle
<1>2. CASE (HandleLoad \/ HandlePicture) /\ UNCHANGED <<releaseVars, activeVars>>
  BY <1>1, <1>2, HandleLoadKeepsInv, HandlePictureKeepsInv, ReleaseStays, ActiveStays,
     RoutesStay DEF IInv
<1>3. CASE /\ GrowStale \/ ExpireAssessment \/ HandleCameraSignal \/ HandleDetectorSignal
           /\ UNCHANGED <<listVars, activeVars>>
  <2>1. ReleaseInv' /\ UNCHANGED cameraActive
    BY <1>3, ResultStepKeepsInv, CameraSignalKeepsInv, DetectorSignalKeepsInv
       DEF IInv, GrowStale, ExpireAssessment, pageVars
  <2>. QED  BY <1>1, <1>3, <2>1, ListStays, ActiveStays, RoutesStay DEF IInv
<1>4. CASE (RestartTimer \/ HandleCaptureSignal) /\ UNCHANGED <<listVars, releaseVars>>
  BY <1>1, <1>4, RestartTimerKeepsInv, CaptureSignalKeepsInv, ListStays, ReleaseStays,
     RoutesStay DEF IInv
<1>. QED  BY <1>2, <1>3, <1>4 DEF Handle

LEMMA WorkKeepsIInv == ASSUME IInv, Work PROVE IInv'
<1>1. UNCHANGED stationVars
  BY DEF Work
<1>2. CASE RunLogin /\ UNCHANGED <<listVars, releaseVars, activeVars>>
  BY <1>1, <1>2, RunLoginKeepsInv, SessionOpens, ListStays, ReleaseStays, ActiveStays,
     RoutesStay DEF IInv
<1>3. CASE (RunLoader \/ RunPicture) /\ UNCHANGED <<loginVars, releaseVars, activeVars>>
  BY <1>1, <1>3, RunLoaderKeepsInv, RunPictureKeepsInv, LoginStays, ReleaseStays,
     ActiveStays, RoutesStay DEF IInv
<1>4. CASE (RunCamera \/ RunDetector) /\ UNCHANGED <<loginVars, listVars, activeVars>>
  BY <1>1, <1>4, RunCameraKeepsInv, RunDetectorKeepsInv, LoginStays, ListStays,
     ActiveStays, RoutesStay DEF IInv
<1>5. CASE RunCapture /\ UNCHANGED <<loginVars, listVars, releaseVars>>
  BY <1>1, <1>5, RunCaptureKeepsInv, LoginStays, ListStays, ReleaseStays, RoutesStay
     DEF IInv
<1>. QED  BY <1>2, <1>3, <1>4, <1>5 DEF Work

\* Every step of the desktop keeps what its four components rest on.
LEMMA NextKeepsIInv == IInv /\ [Next]_vars => IInv'
<1>. SUFFICES ASSUME IInv, [Next]_vars PROVE IInv'
  OBVIOUS
<1>1. CASE UNCHANGED vars
  BY <1>1, LoginStays, ListStays, ReleaseStays, ActiveStays, RoutesStay DEF IInv, vars
<1>2. CASE Next
  BY <1>2, AtLoginKeepsIInv, HandleLoginSignalKeepsIInv, LogoutKeepsIInv, AtListKeepsIInv,
     SelectOperationKeepsIInv, BackKeepsIInv, RetryKeepsIInv, RequestStartKeepsIInv,
     FinishWorkSessionKeepsIInv, HandleKeepsIInv, WorkKeepsIInv DEF Next
<1>. QED  BY <1>1, <1>2

LEMMA DesktopInvariant == Spec => []IInv
BY DesktopBegins, NextKeepsIInv, PTL DEF Spec

-----------------------------------------------------------------------------
\* The state has the shape the modules give it, and a WorkSession is open exactly while
\* the active page is shown and monitored, and only for an operator who is logged in
\* (MainWindow's routes, WorkSessionService).
THEOREM DesktopTyped == Spec => []TypeOK
<1>1. IInv => TypeOK
  BY DEF IInv, LoginInv, ListInv, ReleaseInv, ActiveInv, Routes, TypeOK
<1>. QED  BY <1>1, DesktopInvariant, PTL

\* The start button is enabled only on the newest result, compliant, of the operation on
\* the page, and not yet used (safety_verification_page.py, ppe_inference_controller.py).
THEOREM ButtonFollows == Spec => []ButtonFollowsEvidence
<1>1. IInv => ButtonFollowsEvidence
  BY DEF IInv, ReleaseInv
<1>. QED  BY <1>1, DesktopInvariant, PTL

\* In front of the login window, of the list or of a risk area nobody waits for what is
\* not under way (face_login_controller.py, credential_login_controller.py,
\* operations_controller.py, risk_area_snapshot_controller.py).
THEOREM NobodyWaitsForNothing == Spec => []NoPageWaitsForNothing
<1>1. IInv => NoPageWaitsForNothing
  BY LoginInvAnswers DEF IInv, ListInv, NoPageWaitsForNothing
<1>. QED  BY <1>1, DesktopInvariant, PTL

\* A camera worker that nobody asked to stop belongs to the page on display (the camera
\* controllers' start and stop, MainWindow's routes).
THEOREM CamerasBelong == Spec => []CameraBelongsToItsPage
<1>1. IInv => CameraBelongsToItsPage
  BY DEF IInv, ReleaseInv, ActiveInv, PageIsShown, CaptureIsOwned, Routes,
         CameraBelongsToItsPage
<1>. QED  BY <1>1, DesktopInvariant, PTL

\* While a WorkSession is monitored its camera works, is started, is restarted, or the
\* operator is shown the failure, a retry asked of an ending worker apart
\* (active_camera_controller.py).
THEOREM MonitoringSees == Spec => []MonitoringIsNeverBlind
<1>1. IInv => MonitoringIsNeverBlind
  BY ActiveInvSees DEF IInv
<1>. QED  BY <1>1, DesktopInvariant, PTL

\* What a compliant window says of each required class.
LEMMA CompliantIsVerified ==
    ASSUME NEW required, NEW followed, NEW samples \in Seq(Frames),
           Status(required, followed, samples) = "compliant"
    PROVE  /\ required # {} /\ Len(samples) >= MinimumSamples
           /\ \A c \in required :
                  /\ c \in ModelClasses
                  /\ 100 * ObservedFrames(c, samples) >= PresentPercent * Len(samples)
<1>1. /\ required # {}
      /\ \A c \in required : Requirement(c, followed, samples) = "confirmed"
  BY DEF Status
<1>2. \A c \in required : c \in ModelClasses /\ Decide(c, samples) = "confirmed"
  BY <1>1 DEF Requirement
<1>3. \A c \in required :
          /\ ~(Len(samples) < MinimumSamples)
          /\ 100 * ObservedFrames(c, samples) >= PresentPercent * Len(samples)
  BY <1>2 DEF Decide
<1>4. Len(samples) \in Nat /\ MinimumSamples \in Nat
  BY LenProperties, EvidenceAssumption
<1>. QED  BY <1>1, <1>2, <1>3, <1>4

\* A WorkSession starts only for the operation on the page, in front of a working camera,
\* on recent evidence of a window long enough and begun since the page was last left, in
\* which every required class is seen in the required share of the frames
\* (ppe_inference_controller.py _handle_operation_start_requested).
THEOREM StartsAreVerified == Spec => AuthorizedOnlyWhenVerified
<1>. DEFINE Verdict == Starts =>
         /\ workSession' = operation /\ cameraState = "active" /\ ~stale
         /\ Len(window) >= MinimumSamples /\ ~carriedOver
         /\ Requires[operation] # {}
         /\ \A c \in Requires[operation] : Verified(c)
<1>1. IInv /\ [Next]_vars => Verdict
  <2>. SUFFICES ASSUME IInv, [Next]_vars, Starts PROVE Verdict
    OBVIOUS
  <2>1. startEnabled /\ GateOpens /\ StartWorkSession
    BY DEF Starts, NoWorkSession, Next, AtLogin, HandleLoginSignal, Logout, AtList,
           SelectOperation, Back, Retry, RequestStart, FinishWorkSession, Handle, Work,
           stationVars, vars
  <2>2. /\ Status(Requires[operation], tracked, window) = "compliant"
        /\ window \in Seq(Frames) /\ ~carriedOver
    BY <2>1, GateIsClosedToOthers DEF IInv, ReleaseInv, ReleaseTypeOK, EvidenceIsAssessed
  <2>3. workSession' = operation /\ cameraState = "active" /\ ~stale
    BY <2>1 DEF StartWorkSession, GateOpens
  <2>. QED  BY <2>2, <2>3, CompliantIsVerified DEF Verified
<1>. QED  BY <1>1, DesktopInvariant, PTL DEF Spec, AuthorizedOnlyWhenVerified
=============================================================================
