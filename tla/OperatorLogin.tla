---------------------------- MODULE OperatorLogin ----------------------------
(***************************************************************************)
(* The login of the operator's desktop: LoginWindow with its two panels,   *)
(* FaceLoginController with its QThread, CredentialLoginController with    *)
(* its QThread, and OperatorSessionContext (2identify_operador).           *)
(*                                                                         *)
(* The window, the controllers and their threads live as long as the       *)
(* process: what a thread still has to say after a logout arrives at the   *)
(* next login.  FACE_AUTH_ENABLED is true; the panel's ERROR and           *)
(* UNAVAILABLE differ in their wording only.                               *)
(***************************************************************************)
EXTENDS Naturals, Sequences

CONSTANT MaxLoginSignals    \* bound: signals of the face worker not yet handled

VARIABLES
    panel,                  \* the panel that is shown
    faceState,              \* FaceLoginState of the face panel
    form,                   \* "ready", "busy" or "authorized": the credential form
    face, faceStop, faceSignals,    \* the face worker
    credential,             \* the credential worker, with the answer it has posted
    session,                \* how the operator of the session was authenticated
    lateSignal              \* the face panel looks busy because of a signal of a
                            \* worker that had been cancelled

loginVars == <<panel, faceState, form, face, faceStop, faceSignals, credential,
               session, lateSignal>>

FaceStates == {"ready", "starting", "scanning", "recognized", "error"}
Busy == {"starting", "scanning"}
NoSession == "none"

faceRunning == face \notin {"none", "finished"}
credentialRunning == credential = "calling"

LoginInit ==
    /\ panel = "face" /\ faceState = "ready" /\ form = "ready"
    /\ face = "none" /\ faceStop = FALSE /\ faceSignals = <<>>
    /\ credential = "none"
    /\ session = NoSession /\ lateSignal = FALSE

-----------------------------------------------------------------------------
\* Parts of handlers.

\* set_state of the face panel, called for the attempt that is on display.
Show(state) == faceState' = state /\ lateSignal' = FALSE

\* FaceLoginController.stop.
CancelFace ==
    /\ faceStop' = (faceStop \/ faceRunning)
    /\ UNCHANGED <<face, faceSignals>>

\* reset_for_authentication, and OperatorSessionContext.close: the credential
\* worker is not told.
ResetLogin ==
    /\ CancelFace
    /\ panel' = "face" /\ form' = "ready" /\ Show("ready")
    /\ session' = NoSession
    /\ UNCHANGED credential

\* OperatorSessionContext.open; an open session stays.
OpenSession(method) == session' = IF session = NoSession THEN method ELSE session

-----------------------------------------------------------------------------
\* The operator in front of the login window.

\* INICIAR RECONHECIMENTO FACIAL: STARTING, then start().
RequestScan ==
    /\ panel = "face" /\ faceState \in {"ready", "error"}
    /\ IF faceRunning
       THEN Show("error") /\ UNCHANGED <<face, faceStop>>
       ELSE Show("starting") /\ face' = "starting" /\ faceStop' = FALSE
    /\ UNCHANGED <<panel, form, faceSignals, credential, session>>

ShowCredentials ==
    /\ panel = "face"
    /\ panel' = "credentials"
    /\ CancelFace
    /\ UNCHANGED <<faceState, form, credential, session, lateSignal>>

\* The button is enabled with the form.
ShowFace ==
    /\ panel = "credentials" /\ form = "ready"
    /\ panel' = "face"
    /\ Show("ready")
    /\ UNCHANGED <<form, face, faceStop, faceSignals, credential, session>>

\* _submit, with both fields filled, and start(): while a call of before the
\* last logout still runs, the form shows an error.  An answer that is posted is
\* handled before the click.
Submit ==
    /\ panel = "credentials" /\ form = "ready"
    /\ credential \in {"none", "calling"}
    /\ IF credentialRunning
       THEN UNCHANGED <<form, credential>>
       ELSE form' = "busy" /\ credential' = "calling"
    /\ UNCHANGED <<panel, faceState, face, faceStop, faceSignals, session, lateSignal>>

LoginClick == RequestScan \/ ShowCredentials \/ ShowFace \/ Submit

-----------------------------------------------------------------------------
\* Signals, in the UI thread.

\* The panel follows any frame or status, whoever sent it.
LooksBusy ==
    /\ faceState' = "scanning"
    /\ lateSignal' = (lateSignal \/ ~faceRunning \/ faceStop)

HandleFaceSignal ==
    /\ faceSignals # <<>>
    /\ faceSignals' = Tail(faceSignals)
    /\ LET signal == Head(faceSignals) IN
       \/ /\ signal = "frame"
          /\ IF faceState \in {"ready", "starting"} THEN LooksBusy
             ELSE UNCHANGED <<faceState, lateSignal>>
          /\ UNCHANGED <<panel, session>>
       \/ /\ signal = "status"
          /\ LooksBusy
          /\ UNCHANGED <<panel, session>>
       \/ /\ signal = "failed"
          /\ Show("error")
          /\ UNCHANGED <<panel, session>>
       \/ /\ signal = "recognized"
          /\ panel' = "face" /\ Show("recognized")
          /\ OpenSession("face")
    /\ UNCHANGED <<form, face, faceStop, credential>>

HandleCredentialAnswer ==
    /\ \/ /\ credential = "accepted"
          /\ form' = "authorized"
          /\ OpenSession("credentials")
       \/ /\ credential = "refused"
          /\ form' = "ready"
          /\ UNCHANGED session
    /\ credential' = "none"
    /\ UNCHANGED <<panel, faceState, face, faceStop, faceSignals, lateSignal>>

HandleLogin == HandleFaceSignal \/ HandleCredentialAnswer

-----------------------------------------------------------------------------
\* The threads.
Say(said) ==
    /\ Len(faceSignals) + Len(said) <= MaxLoginSignals
    /\ faceSignals' = faceSignals \o said

\* The models are loaded and the stop flag is looked at before the camera opens.
LoadModels ==
    /\ face = "starting"
    /\ \/ /\ face' = (IF faceStop THEN "leaving" ELSE "opening")
          /\ UNCHANGED faceSignals
       \/ face' = "leaving" /\ Say(<<"failed">>)

OpenFaceCamera ==
    /\ face = "opening"
    /\ \/ face' = "scanning" /\ UNCHANGED faceSignals
       \/ face' = "leaving" /\ Say(<<"failed">>)

\* Once past the check at the head of the loop a round says what it has to say.
Scan ==
    /\ face = "scanning"
    /\ \/ face' = "scanning" /\ \E said \in {<<"frame">>, <<"status">>} : Say(said)
       \/ face' = "leaving" /\ Say(<<"status", "recognized">>)
       \/ face' = "leaving" /\ Say(<<"failed">>)
       \/ faceStop /\ face' = "leaving" /\ UNCHANGED faceSignals

\* finally: the camera is released.
FinishFace ==
    /\ face = "leaving"
    /\ face' = "finished"
    /\ UNCHANGED faceSignals

\* The request ends, at the latest when it times out.
CallApi ==
    /\ credentialRunning
    /\ credential' \in {"accepted", "refused"}
    /\ UNCHANGED <<face, faceSignals>>

RunLogin ==
    /\ \/ (LoadModels \/ OpenFaceCamera \/ Scan \/ FinishFace) /\ UNCHANGED credential
       \/ CallApi
    /\ UNCHANGED <<panel, faceState, form, faceStop, session, lateSignal>>

LoginRests == ~faceRunning /\ faceSignals = <<>> /\ credential = "none"

LoginTypeOK ==
    /\ panel \in {"face", "credentials"} /\ faceState \in FaceStates
    /\ form \in {"ready", "busy", "authorized"}
    /\ face \in {"none", "starting", "opening", "scanning", "leaving", "finished"}
    /\ faceStop \in BOOLEAN
    /\ faceSignals \in Seq({"frame", "status", "failed", "recognized"})
    /\ credential \in {"none", "calling", "accepted", "refused"}
    /\ session \in {NoSession, "face", "credentials"} /\ lateSignal \in BOOLEAN

-----------------------------------------------------------------------------
\* While the login window is shown, a panel that has taken its buttons away waits
\* for an attempt that is under way; a signal of a cancelled attempt is the
\* exception (face_login_controller.py, credential_login_controller.py).
LoginIsAnswered ==
    session = NoSession =>
        /\ panel = "face" =>
               /\ faceState # "recognized"
               /\ faceState \in Busy =>
                      (faceRunning /\ ~faceStop) \/ faceSignals # <<>> \/ lateSignal
        /\ panel = "credentials" =>
               /\ form # "authorized"
               /\ form = "busy" => credential # "none"
=============================================================================
