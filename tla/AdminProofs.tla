----------------------------- MODULE AdminProofs ------------------------------
(***************************************************************************)
(* The administrator's side: the desktop with its channel, and the two     *)
(* parts of the API behind it whose interleavings are proved, not run: the *)
(* administrative stream on the broker and the catalogue in its database.  *)
(* The three share no state; each has an invariant of its own.             *)
(***************************************************************************)
EXTENDS AdminStation, AdminStream, OperationCatalogue, TLAPS

(***************************************************************************)
(* The administrator's desktop leaves nothing of a session behind its      *)
(* login, and its channel always has a way back, for any number of request *)
(* threads at a time.                                                      *)
(*                                                                         *)
(* The invariant adds to the two properties what they rest on: behind the  *)
(* login no thread is even held (NothingLeft), a login that is under way   *)
(* keeps the login in front (LoginBeforeMain), and a connection excludes   *)
(* both a validation and a reported rejection (ChannelInv).                *)
(***************************************************************************)

Phases == {"none", "running", "answered", "ended"}
Answers == {"none", "done", "failed", "expired", "image", "valid"}

Types ==
    /\ phase \in [Workers -> Phases] /\ answer \in [Workers -> Answers]
    /\ socket \in {"unconnected", "connecting", "connected", "closing"}
    /\ timers \subseteq Timers
    /\ shown \in {"login", "main"}

LoginBeforeMain ==
    /\ phase["login"] = "running" \/ answer["login"] # "none" => shown = "login"
    /\ answer["login"] # "none" => phase["login"] \in {"answered", "ended"}

NothingLeft ==
    shown = "login" =>
        /\ session = "none" /\ ~pendingReturn /\ requested = {}
        /\ \A w \in SessionWorkers : phase[w] = "none" /\ answer[w] = "none"
        /\ ~running /\ socket = "unconnected" /\ timers = {} /\ loadTimers = {}
        /\ editor = "closed"

ChannelInv ==
    /\ socket \in {"connected", "closing"} => "watchdog" \in timers
    /\ socket = "connecting" => "connect" \in timers
    /\ socket # "unconnected" => ~Validating /\ ~notified
    /\ Validating => timers \subseteq {"refresh"}
    /\ running /\ socket = "unconnected" =>
           "reconnect" \in timers \/ Validating \/ (notified /\ session # "valid")

IInv == Types /\ LoginBeforeMain /\ NothingLeft /\ ChannelInv

-----------------------------------------------------------------------------
LEMMA WorkersAre ==
    /\ Workers = {"login", "dashboard", "load", "save", "camera", "validation"}
    /\ SessionWorkers = {"dashboard", "load", "save", "camera", "validation"}
    /\ \A w \in Workers : Results[w] \subseteq Answers \ {"none"}
<1>1. Workers = {"login", "dashboard", "load", "save", "camera", "validation"}
  BY DEF Workers, Results
<1>2. SessionWorkers = {"dashboard", "load", "save", "camera", "validation"}
  BY <1>1 DEF SessionWorkers
<1>3. \A w \in Workers : Results[w] \subseteq Answers \ {"none"}
  BY <1>1 DEF Results, Answers
<1>. QED  BY <1>1, <1>2, <1>3

LEMMA InitIInv == Init => IInv
BY WorkersAre DEF Init, WorkersInit, ChannelInit, IInv, Types, LoginBeforeMain, NothingLeft,
   ChannelInv, Validating, NoPhase, NoAnswer, Phases, Answers, Timers

\* Whatever the threads do, a return from the main window keeps the invariant: the
\* channel is stopped, and the login is shown only if no thread is late.
LEMMA ReturnKeeps ==
    ASSUME IInv, shown = "main",
           NEW phases \in [Workers -> Phases], NEW answers \in [Workers -> Answers],
           NEW asked, NEW dialog,
           phases["login"] = phase["login"], answers["login"] = answer["login"],
           ReturnToLogin(phases, answers, asked, dialog)
    PROVE  IInv'
<1>1. running' = FALSE /\ notified' = FALSE /\ socket' = "unconnected" /\ timers' = {}
      /\ loadTimers' = {}
  BY DEF ReturnToLogin, ChannelStopped
<1>2. ChannelInv'
  BY <1>1 DEF ChannelInv, Validating
<1>3. answer["login"] = "none" /\ phase["login"] # "running"
  BY DEF IInv, LoginBeforeMain
<1>4. PICK late \in SUBSET RunningOf(phases, SessionWorkers) :
          IF AllStopped(late) THEN CompleteReturn(phases, late)
          ELSE AwaitWorkers(phases, answers, asked, dialog, late)
  BY DEF ReturnToLogin
<1>5. CASE AllStopped(late)
  <2>1. CompleteReturn(phases, late) /\ late = {}
    BY <1>4, <1>5 DEF AllStopped
  <2>2. /\ phase' = [w \in Workers |-> IF w = "login" THEN phases[w] ELSE "none"]
        /\ answer' = [NoAnswer EXCEPT !["login"] = answer["login"]]
        /\ shown' = "login" /\ session' = "none" /\ pendingReturn' = FALSE
        /\ requested' = {} /\ editor' = "closed"
    BY <2>1 DEF CompleteReturn
  <2>3. answer' = [w \in Workers |-> "none"]
    BY <2>2, <1>3, WorkersAre DEF NoAnswer
  <2>4. Types'
    BY <1>1, <2>2, <2>3 DEF Types, Phases, Answers, Timers
  <2>. QED  BY <1>1, <1>2, <2>2, <2>3, <2>4, WorkersAre
            DEF IInv, LoginBeforeMain, NothingLeft
<1>6. CASE ~AllStopped(late)
  <2>. DEFINE active == RunningOf(phases, SessionWorkers)
  <2>1. AwaitWorkers(phases, answers, asked, dialog, late)
    BY <1>4, <1>6
  <2>2. shown' = "main"
    BY <2>1 DEF AwaitWorkers
  <2>3. phase' = [w \in Workers |-> IF w = "validation" /\ w \notin late THEN "none"
                                    ELSE IF w \in active \ late THEN "ended" ELSE phases[w]]
    BY <2>1 DEF AwaitWorkers
  <2>4. PICK image \in Answers :
            answer' = [w \in Workers |-> IF w = "validation" /\ w \notin late THEN "none"
                                         ELSE IF w = "camera" THEN image ELSE answers[w]]
    <3>1. Results["camera"] \subseteq Answers /\ answers["camera"] \in Answers
      BY WorkersAre
    <3>. QED  BY <2>1, <3>1 DEF AwaitWorkers
  <2>5. "login" \notin active
    BY WorkersAre DEF RunningOf
  <2>6. phase'["login"] = phase["login"] /\ answer'["login"] = "none"
    BY <2>3, <2>4, <2>5, <1>3, WorkersAre
  <2>7. Types'
    <3>1. phase' \in [Workers -> Phases]
      BY <2>3 DEF Phases
    <3>2. answer' \in [Workers -> Answers]
      BY <2>4 DEF Answers
    <3>. QED  BY <1>1, <2>2, <3>1, <3>2 DEF Types, Timers
  <2>. QED  BY <1>2, <1>3, <2>2, <2>6, <2>7 DEF IInv, LoginBeforeMain, NothingLeft
<1>. QED  BY <1>5, <1>6

LEMMA ReturnStepKeeps == ASSUME IInv, shown = "main", Return PROVE IInv'
<1>1. phase \in [Workers -> Phases] /\ answer \in [Workers -> Answers]
  BY DEF IInv, Types
<1>. QED  BY <1>1, ReturnKeeps DEF Return

\* What a return that follows the handling of one worker's signal passes on.
LEMMA HandledTypes ==
    ASSUME IInv, NEW w \in SessionWorkers
    PROVE  /\ Released(w) \in [Workers -> Phases] /\ Handled(w) \in [Workers -> Answers]
           /\ phase \in [Workers -> Phases] /\ answer \in [Workers -> Answers]
           /\ Released(w)["login"] = phase["login"] /\ Handled(w)["login"] = answer["login"]
BY WorkersAre DEF IInv, Types, Released, Handled, Phases, Answers

\* The main window is in front whenever a session's worker is held, a timer runs or
\* a dialog is open.
LEMMA SessionMeansMain ==
    ASSUME IInv,
           \/ \E w \in SessionWorkers : phase[w] # "none" \/ answer[w] # "none"
           \/ timers # {} \/ loadTimers # {} \/ socket # "unconnected"
           \/ editor # "closed" \/ pendingReturn \/ requested # {}
    PROVE  shown = "main"
BY DEF IInv, Types, NothingLeft

\* Steps that leave the channel, the session and the windows alone, start nothing
\* behind the login and do not take up or drop a validation.
LEMMA QuietStep ==
    ASSUME IInv,
           phase' \in [Workers -> Phases], answer' \in [Workers -> Answers],
           phase'["validation"] = "none" <=> phase["validation"] = "none",
           phase'["login"] = phase["login"], answer'["login"] = answer["login"],
           UNCHANGED <<running, notified, socket, shown, session, pendingReturn, requested>>,
           timers' = timers \/ timers' = timers \ {"refresh"},
           shown = "login" => UNCHANGED <<phase, answer, loadTimers, editor>>
    PROVE  IInv'
<1>1. Types' /\ LoginBeforeMain'
  BY DEF IInv, Types, LoginBeforeMain
<1>2. NothingLeft'
  BY DEF IInv, NothingLeft
<1>3. ChannelInv'
  BY DEF IInv, ChannelInv, Validating
<1>. QED  BY <1>1, <1>2, <1>3 DEF IInv

LEMMA RequestRefreshKeeps ==
    ASSUME IInv, shown = "main", NEW loads, NEW ts,
           ts = timers \/ ts = timers \ {"refresh"},
           RequestRefresh(loads, ts)
    PROVE  IInv'
<1>1. CASE /\ UNCHANGED <<workerVars, running, notified, socket, returnVars>>
           /\ timers' = ts
  BY <1>1, QuietStep DEF workerVars, returnVars, IInv, Types
<1>2. CASE Return
  BY <1>2, ReturnStepKeeps
<1>3. CASE /\ Launch("dashboard") /\ timers' = ts
           /\ UNCHANGED <<running, notified, socket, returnVars>>
  <2>1. phase' = [phase EXCEPT !["dashboard"] = "running"] /\ answer' = answer
    BY <1>3 DEF Launch
  <2>. QED  BY <1>3, <2>1, QuietStep, WorkersAre DEF returnVars, IInv, Types, Phases
<1>. QED  BY <1>1, <1>2, <1>3 DEF RequestRefresh

LEMMA RefreshOperationsKeeps ==
    ASSUME IInv, shown = "main", NEW loads, RefreshOperations(loads)
    PROVE  IInv'
<1>1. CASE UNCHANGED <<workerVars, channelVars, returnVars>>
  BY <1>1, QuietStep DEF workerVars, channelVars, returnVars, IInv, Types
<1>2. CASE Return
  BY <1>2, ReturnStepKeeps
<1>3. CASE Launch("load") /\ ShowLoading
  <2>1. /\ phase' = [phase EXCEPT !["load"] = "running"] /\ answer' = answer
        /\ UNCHANGED <<channelVars, returnVars>>
    BY <1>3 DEF Launch, ShowLoading
  <2>. QED  BY <2>1, QuietStep, WorkersAre DEF channelVars, returnVars, IInv, Types, Phases
<1>. QED  BY <1>1, <1>2, <1>3 DEF RefreshOperations

-----------------------------------------------------------------------------
\* The threads only go forward; their answers wait for the UI thread.
LEMMA ThreadStepKeeps == IInv /\ ThreadStep => IInv'
<1>. SUFFICES ASSUME IInv, ThreadStep PROVE IInv'
  OBVIOUS
<1>1. PICK w \in Workers : Respond(w) \/ EndThread(w)
  BY DEF ThreadStep
<1>2. PICK phase1 \in {"answered", "ended"}, answer1 \in Answers :
         /\ phase[w] \in {"running", "answered"}
         /\ phase' = [phase EXCEPT ![w] = phase1]
         /\ answer' = answer \/ answer' = [answer EXCEPT ![w] = answer1]
         /\ answer' # answer => phase[w] = "running" /\ answer1 # "none"
  <2>1. CASE Respond(w)
    BY <2>1, WorkersAre DEF Respond
  <2>2. CASE EndThread(w)
    BY <2>2 DEF EndThread, Answers
  <2>. QED  BY <1>1, <2>1, <2>2
<1>3. UNCHANGED <<channelVars, pageVars, returnVars>>
  BY DEF ThreadStep
<1>4. phase' \in [Workers -> Phases] /\ answer' \in [Workers -> Answers]
  BY <1>2 DEF IInv, Types, Phases
<1>5. CASE w = "login"
  <2>1. Types' /\ LoginBeforeMain'
    BY <1>2, <1>3, <1>4, <1>5 DEF IInv, Types, LoginBeforeMain, channelVars, returnVars
  <2>2. \A x \in SessionWorkers : phase'[x] = phase[x] /\ answer'[x] = answer[x]
    BY <1>2, <1>5, WorkersAre DEF IInv, Types
  <2>3. NothingLeft'
    BY <1>3, <2>2 DEF IInv, NothingLeft, channelVars, pageVars, returnVars
  <2>4. ChannelInv'
    BY <1>3, <2>2, WorkersAre DEF IInv, ChannelInv, Validating, channelVars, returnVars
  <2>. QED  BY <2>1, <2>3, <2>4 DEF IInv
<1>6. CASE w # "login"
  <2>1. shown = "main"
    BY <1>2, <1>6, SessionMeansMain, WorkersAre
  <2>2. phase'["validation"] = "none" <=> phase["validation"] = "none"
    BY <1>2, WorkersAre DEF IInv, Types
  <2>3. phase'["login"] = phase["login"] /\ answer'["login"] = answer["login"]
    BY <1>2, <1>6, WorkersAre DEF IInv, Types
  <2>. QED  BY <1>3, <1>4, <2>1, <2>2, <2>3, QuietStep DEF channelVars, returnVars
<1>. QED  BY <1>5, <1>6

\* The login: its answer opens the main window on a channel that was stopped.
LEMMA LoginKeeps ==
    IInv /\ (Authenticate \/ Authenticated \/ LoginFailed \/ LoginFinished) => IInv'
<1>. SUFFICES ASSUME IInv, Authenticate \/ Authenticated \/ LoginFailed \/ LoginFinished
              PROVE  IInv'
  OBVIOUS
<1>1. /\ phase \in [Workers -> Phases] /\ answer \in [Workers -> Answers]
      /\ "login" \in Workers /\ "none" \in Answers /\ {"none", "running"} \subseteq Phases
  BY WorkersAre DEF IInv, Types, Phases, Answers
<1>2. CASE Authenticated
  <2>1. /\ answer["login"] # "none" /\ answer' = [answer EXCEPT !["login"] = "none"]
        /\ phase' = phase /\ shown' = "main" /\ session' = "valid" /\ Open
    BY <1>2 DEF Authenticated, Handled
  <2>2. shown = "login" /\ phase["login"] \in {"answered", "ended"}
    BY <2>1 DEF IInv, LoginBeforeMain
  <2>3. socket = "unconnected" /\ ~Validating /\ timers = {}
    BY <2>2, WorkersAre DEF IInv, NothingLeft, Validating
  <2>4. running' = TRUE /\ timers' = {"connect"} /\ socket' = "connecting" /\ notified' = FALSE
    BY <2>1, <2>3 DEF Open
  <2>5. Types' /\ LoginBeforeMain'
    BY <1>1, <2>1, <2>2, <2>4 DEF IInv, Types, LoginBeforeMain, Timers
  <2>6. NothingLeft' /\ ChannelInv'
    BY <2>1, <2>3, <2>4 DEF NothingLeft, ChannelInv, Validating
  <2>. QED  BY <2>5, <2>6 DEF IInv
<1>3. CASE Authenticate \/ LoginFailed \/ LoginFinished
  <2>1. /\ UNCHANGED <<channelVars, pageVars, returnVars>>
        /\ \/ /\ phase' = [phase EXCEPT !["login"] = "running"]
              /\ answer' = answer /\ phase["login"] = "none" /\ shown = "login"
           \/ phase' = phase /\ answer' = [answer EXCEPT !["login"] = "none"]
           \/ /\ phase' = [phase EXCEPT !["login"] = "none"]
              /\ answer' = answer /\ answer["login"] = "none"
    BY <1>3 DEF Authenticate, LoginFailed, LoginFinished, Launch, Released, Handled
  <2>2. phase' \in [Workers -> Phases] /\ answer' \in [Workers -> Answers]
    BY <1>1, <2>1
  <2>3. Types' /\ LoginBeforeMain'
    BY <1>1, <2>1, <2>2 DEF IInv, Types, LoginBeforeMain, channelVars, returnVars
  <2>4. \A x \in SessionWorkers : phase'[x] = phase[x] /\ answer'[x] = answer[x]
    BY <1>1, <2>1, WorkersAre
  <2>5. NothingLeft'
    BY <2>1, <2>4 DEF IInv, NothingLeft, channelVars, pageVars, returnVars
  <2>6. ChannelInv'
    BY <2>1, <2>4, WorkersAre DEF IInv, ChannelInv, Validating, channelVars, returnVars
  <2>. QED  BY <2>3, <2>5, <2>6 DEF IInv
<1>. QED  BY <1>2, <1>3

LEMMA ExpireKeeps == IInv /\ Expire => IInv'
<1>. SUFFICES ASSUME IInv, Expire PROVE IInv'
  OBVIOUS
<1>1. shown = "main"
  BY DEF Expire, IInv, Types, NothingLeft
<1>2. session' = "expired" /\ UNCHANGED <<workerVars, channelVars, pageVars, shown>>
  BY DEF Expire
<1>. QED  BY <1>1, <1>2 DEF IInv, Types, LoginBeforeMain, NothingLeft, ChannelInv, Validating,
             workerVars, channelVars

-----------------------------------------------------------------------------
LEMMA DashboardKeeps ==
    IInv /\ (LoadDashboard \/ RefreshTimeout \/ ClickRefresh
             \/ DashboardAnswered \/ DashboardFinished) => IInv'
<1>. SUFFICES ASSUME IInv, \/ LoadDashboard \/ RefreshTimeout \/ ClickRefresh
                           \/ DashboardAnswered \/ DashboardFinished
              PROVE  IInv'
  OBVIOUS
<1>1. CASE LoadDashboard
  BY <1>1, SessionMeansMain, RequestRefreshKeeps DEF LoadDashboard
<1>2. CASE RefreshTimeout
  BY <1>2, SessionMeansMain, RequestRefreshKeeps DEF RefreshTimeout
<1>3. CASE ClickRefresh
  BY <1>3, RequestRefreshKeeps DEF ClickRefresh
<1>4. CASE DashboardAnswered
  <2>1. shown = "main" /\ "dashboard" \in SessionWorkers
    BY <1>4, SessionMeansMain, WorkersAre DEF DashboardAnswered
  <2>2. CASE answer' = Handled("dashboard") /\ phase' = phase
             /\ UNCHANGED <<channelVars, returnVars>>
    BY <2>1, <2>2, HandledTypes, QuietStep DEF channelVars, returnVars
  <2>3. CASE ReturnToLogin(phase, Handled("dashboard"), requested, editor)
    BY <2>1, <2>3, HandledTypes, ReturnKeeps
  <2>. QED  BY <1>4, <2>2, <2>3 DEF DashboardAnswered
<1>5. CASE DashboardFinished
  <2>1. shown = "main" /\ "dashboard" \in SessionWorkers
    BY <1>5, SessionMeansMain, WorkersAre DEF DashboardFinished
  <2>2. CASE Resume("dashboard", requested \ {"dashboard"})
    BY <2>1, <2>2, HandledTypes, ReturnKeeps DEF Resume
  <2>3. CASE phase' = Released("dashboard") /\ answer' = answer
             /\ UNCHANGED <<channelVars, returnVars>>
    <3>1. phase'["validation"] = phase["validation"]
      BY <2>3, WorkersAre DEF Released, IInv, Types
    <3>. QED  BY <2>1, <2>3, <3>1, HandledTypes, QuietStep DEF channelVars, returnVars
  <2>. QED  BY <1>5, <2>2, <2>3 DEF DashboardFinished
<1>. QED  BY <1>1, <1>2, <1>3, <1>4, <1>5

-----------------------------------------------------------------------------
LEMMA PageRequestsKeep ==
    IInv /\ (LoadOperations \/ ClickOperationsRefresh \/ ConfigureRiskArea \/ Save) => IInv'
<1>. SUFFICES ASSUME IInv, LoadOperations \/ ClickOperationsRefresh \/ ConfigureRiskArea \/ Save
              PROVE  IInv'
  OBVIOUS
<1>1. CASE LoadOperations
  BY <1>1, SessionMeansMain, RefreshOperationsKeeps DEF LoadOperations
<1>2. CASE ClickOperationsRefresh
  BY <1>2, RefreshOperationsKeeps DEF ClickOperationsRefresh, PageIsFree
<1>3. CASE shown = "main" /\ Return
  BY <1>3, ReturnStepKeeps
<1>4. ASSUME shown = "main", NEW w \in {"camera", "save"}, Launch(w), ShowLoading
      PROVE  IInv'
  <2>1. /\ phase' = [phase EXCEPT ![w] = "running"] /\ answer' = answer
        /\ UNCHANGED <<channelVars, returnVars>>
    BY <1>4 DEF Launch, ShowLoading
  <2>. QED  BY <1>4, <2>1, QuietStep, WorkersAre DEF channelVars, returnVars, IInv, Types, Phases
<1>5. CASE ConfigureRiskArea
  BY <1>4, <1>5 DEF ConfigureRiskArea, PageIsFree
<1>6. CASE Save
  BY <1>3, <1>4, <1>6 DEF Save, PageIsFree
<1>. QED  BY <1>1, <1>2, <1>5, <1>6

LEMMA OperationsAnswersKeep == IInv /\ (OperationsAnswered \/ CameraLoaded) => IInv'
<1>. SUFFICES ASSUME IInv, OperationsAnswered \/ CameraLoaded PROVE IInv'
  OBVIOUS
<1>1. PICK w \in OperationsWorkers :
         /\ answer[w] # "none"
         /\ \/ /\ answer' = Handled(w) /\ phase' = phase
               /\ UNCHANGED <<channelVars, returnVars>>
            \/ ReturnToLogin(phase, Handled(w), requested, editor)
  BY DEF OperationsAnswered, CameraLoaded, OperationsWorkers
<1>2. w \in SessionWorkers
  BY WorkersAre DEF OperationsWorkers
<1>3. shown = "main"
  BY <1>1, <1>2, SessionMeansMain
<1>4. CASE ReturnToLogin(phase, Handled(w), requested, editor)
  BY <1>2, <1>3, <1>4, HandledTypes, ReturnKeeps
<1>5. CASE answer' = Handled(w) /\ phase' = phase /\ UNCHANGED <<channelVars, returnVars>>
  BY <1>2, <1>3, <1>5, HandledTypes, QuietStep DEF channelVars, returnVars
<1>. QED  BY <1>1, <1>4, <1>5

LEMMA EditorKeeps == IInv /\ (CancelEdit \/ AcceptEdit) => IInv'
<1>. SUFFICES ASSUME IInv, CancelEdit \/ AcceptEdit PROVE IInv'
  OBVIOUS
<1>1. shown = "main"
  BY SessionMeansMain DEF CancelEdit, AcceptEdit
<1>2. phase \in [Workers -> Phases] /\ answer \in [Workers -> Answers]
  BY DEF IInv, Types
<1>3. CASE CancelEdit
  BY <1>1, <1>2, <1>3, QuietStep DEF CancelEdit, workerVars, channelVars, returnVars
<1>4. CASE ReturnToLogin(phase, answer, requested, "closed")
  BY <1>1, <1>2, <1>4, ReturnKeeps
<1>5. CASE Launch("save") /\ UNCHANGED <<channelVars, returnVars>>
  <2>1. phase' = [phase EXCEPT !["save"] = "running"] /\ answer' = answer
    BY <1>5 DEF Launch
  <2>. QED  BY <1>1, <1>2, <1>5, <2>1, QuietStep, WorkersAre DEF channelVars, returnVars, Phases
<1>. QED  BY <1>3, <1>4, <1>5 DEF AcceptEdit

LEMMA OperationsFinishedKeeps == IInv /\ OperationsFinished => IInv'
<1>. SUFFICES ASSUME IInv, OperationsFinished PROVE IInv'
  OBVIOUS
<1>1. PICK w \in OperationsWorkers :
         /\ phase[w] = "ended"
         /\ \/ Resume(w, requested \ {"operations"})
            \/ /\ phase' = Released(w) /\ answer' = answer
               /\ UNCHANGED <<channelVars, pageVars, returnVars>>
  BY DEF OperationsFinished
<1>2. w \in SessionWorkers /\ w # "validation"
  BY WorkersAre DEF OperationsWorkers
<1>3. shown = "main"
  BY <1>1, <1>2, SessionMeansMain
<1>4. CASE Resume(w, requested \ {"operations"})
  BY <1>2, <1>3, <1>4, HandledTypes, ReturnKeeps DEF Resume
<1>5. CASE phase' = Released(w) /\ answer' = answer /\ UNCHANGED <<channelVars, returnVars>>
  <2>1. phase'["validation"] = phase["validation"]
    BY <1>2, <1>5, WorkersAre DEF Released, IInv, Types
  <2>. QED  BY <1>2, <1>3, <1>5, <2>1, HandledTypes, QuietStep DEF channelVars, returnVars
<1>. QED  BY <1>1, <1>4, <1>5

-----------------------------------------------------------------------------
\* Events of the connection never change the session or its workers.
LEMMA ChannelEventKeeps == IInv /\ ChannelEvent => IInv'
<1>. SUFFICES ASSUME IInv, ChannelEvent PROVE IInv'
  OBVIOUS
<1>1. UNCHANGED <<workerVars, pageVars, returnVars>>
  BY DEF ChannelEvent
<1>2. shown = "main"
  <2>1. socket # "unconnected" \/ timers # {}
    BY DEF ChannelEvent, Connected, ConnectionLost, ReceiveReady, ReceiveAlert, ReceiveInvalid,
           WatchdogTimeout, ConnectTimeout
  <2>. QED  BY <2>1, SessionMeansMain
<1>3. /\ socket' \in {"unconnected", "connecting", "connected", "closing"}
      /\ timers' \subseteq Timers
  BY DEF ChannelEvent, Connected, ConnectionLost, OnDisconnected, ReceiveReady, ReceiveAlert,
         ReceiveInvalid, WatchdogTimeout, ConnectTimeout, Scheduled, IInv, Types, Timers
<1>4. ChannelInv'
  <2>1. Validating' = Validating /\ session' = session
    BY <1>1 DEF Validating, workerVars, returnVars
  <2>2. ChannelInv /\ socket \in {"unconnected", "connecting", "connected", "closing"}
        /\ timers \subseteq Timers
    BY DEF IInv, Types
  <2>3. CASE Connected
    BY <2>1, <2>2, <2>3 DEF Connected, ChannelInv
  <2>4. CASE ConnectionLost(Validating)
    BY <2>1, <2>2, <2>4 DEF ConnectionLost, OnDisconnected, Scheduled, ChannelInv
  <2>5. CASE ReceiveReady
    BY <2>1, <2>2, <2>5 DEF ReceiveReady, ChannelInv
  <2>6. CASE ReceiveAlert
    BY <2>1, <2>2, <2>6 DEF ReceiveAlert, ChannelInv
  <2>7. CASE ReceiveInvalid
    BY <2>1, <2>2, <2>7 DEF ReceiveInvalid, ChannelInv
  <2>8. CASE WatchdogTimeout
    BY <2>1, <2>2, <2>8 DEF WatchdogTimeout, Scheduled, ChannelInv
  <2>9. CASE ConnectTimeout
    BY <2>1, <2>2, <2>9 DEF ConnectTimeout, Scheduled, ChannelInv
  <2>. QED  BY <2>3, <2>4, <2>5, <2>6, <2>7, <2>8, <2>9 DEF ChannelEvent
<1>. QED  BY <1>1, <1>2, <1>3, <1>4
          DEF IInv, Types, LoginBeforeMain, NothingLeft, workerVars, pageVars, returnVars

LEMMA ReconnectKeeps == IInv /\ Reconnect => IInv'
<1>. SUFFICES ASSUME IInv, Reconnect PROVE IInv'
  OBVIOUS
<1>1. shown = "main" /\ ~Validating
  BY SessionMeansMain DEF Reconnect, IInv, ChannelInv
<1>2. CASE Return
  BY <1>1, <1>2, ReturnStepKeeps
<1>3. CASE Open /\ UNCHANGED <<workerVars, pageVars, returnVars>>
  <2>1. ~Validating'
    BY <1>1, <1>3 DEF Validating, workerVars
  <2>2. ChannelInv'
    BY <1>3, <2>1 DEF IInv, Types, ChannelInv, Open
  <2>3. Types'
    BY <1>3 DEF IInv, Types, Open, Timers, workerVars, returnVars
  <2>. QED  BY <1>1, <1>3, <2>2, <2>3
            DEF IInv, Types, LoginBeforeMain, NothingLeft, workerVars, returnVars
<1>4. CASE session # "valid" /\ OpenInVain /\ UNCHANGED <<workerVars, pageVars, returnVars>>
  <2>1. ~Validating' /\ session' = session
    BY <1>1, <1>4 DEF Validating, workerVars, returnVars
  <2>2. ChannelInv'
    BY <1>4, <2>1 DEF IInv, Types, ChannelInv, OpenInVain
  <2>3. Types'
    BY <1>4 DEF IInv, Types, OpenInVain, Timers, workerVars, returnVars
  <2>. QED  BY <1>1, <1>4, <2>2, <2>3
            DEF IInv, Types, LoginBeforeMain, NothingLeft, workerVars, returnVars
<1>. QED  BY <1>2, <1>3, <1>4 DEF Reconnect

LEMMA UnauthorizedKeeps == IInv /\ Unauthorized => IInv'
<1>. SUFFICES ASSUME IInv, Unauthorized PROVE IInv'
  OBVIOUS
<1>1. shown = "main"
  BY SessionMeansMain DEF Unauthorized
<1>2. CASE Return
  BY <1>1, <1>2, ReturnStepKeeps
<1>3. CASE /\ Launch("validation") /\ Rejected /\ socket' = "unconnected"
           /\ UNCHANGED <<pageVars, returnVars>>
  <2>1. phase' = [phase EXCEPT !["validation"] = "running"] /\ answer' = answer
    BY <1>3 DEF Launch
  <2>2. phase' \in [Workers -> Phases] /\ Validating' /\ phase'["login"] = phase["login"]
    BY <2>1, WorkersAre DEF IInv, Types, Phases, Validating
  <2>3. timers' \subseteq {"refresh"}
    BY <1>3 DEF Rejected, IInv, Types, Timers
  <2>4. Types' /\ LoginBeforeMain'
    BY <1>3, <2>1, <2>2, <2>3 DEF IInv, Types, LoginBeforeMain, Timers, returnVars
  <2>5. NothingLeft' /\ ChannelInv'
    BY <1>1, <1>3, <2>2, <2>3 DEF NothingLeft, ChannelInv, returnVars
  <2>. QED  BY <2>4, <2>5 DEF IInv
<1>. QED  BY <1>2, <1>3 DEF Unauthorized

LEMMA ValidationFinishedKeeps == IInv /\ ValidationFinished => IInv'
<1>. SUFFICES ASSUME IInv, ValidationFinished PROVE IInv'
  OBVIOUS
<1>1. shown = "main" /\ "validation" \in SessionWorkers /\ Validating
  BY SessionMeansMain, WorkersAre DEF ValidationFinished, Validating
<1>2. CASE Resume("validation", requested \ {"realtime"})
  BY <1>1, <1>2, HandledTypes, ReturnKeeps DEF Resume
<1>3. CASE ReturnToLogin(Released("validation"), Handled("validation"), requested, editor)
  BY <1>1, <1>3, HandledTypes, ReturnKeeps
<1>4. CASE /\ phase' = Released("validation") /\ answer' = Handled("validation")
           /\ timers' = IF running THEN Scheduled(timers) ELSE timers
           /\ UNCHANGED <<interrupted, running, notified, socket, ready, pageVars, returnVars>>
  <2>1. ~Validating'
    BY <1>4, WorkersAre DEF Validating, Released, IInv, Types
  <2>2. socket = "unconnected" /\ timers \subseteq {"refresh"}
    BY <1>1 DEF IInv, ChannelInv
  <2>3. ChannelInv'
    BY <1>4, <2>1, <2>2 DEF ChannelInv, Scheduled
  <2>4. Types' /\ LoginBeforeMain'
    BY <1>1, <1>4, HandledTypes DEF IInv, Types, LoginBeforeMain, Timers, Scheduled, returnVars
  <2>. QED  BY <1>1, <1>4, <2>3, <2>4 DEF IInv, NothingLeft, returnVars
<1>. QED  BY <1>2, <1>3, <1>4 DEF ValidationFinished

-----------------------------------------------------------------------------
LEMMA StepIInv == IInv /\ [Next]_vars => IInv'
<1>. SUFFICES ASSUME IInv, [Next]_vars PROVE IInv'
  OBVIOUS
<1>1. CASE Next
  <2>1. CASE Logout
    BY <2>1, ReturnStepKeeps DEF Logout
  <2>. QED  BY <1>1, <2>1, ThreadStepKeeps, LoginKeeps, ExpireKeeps, DashboardKeeps,
               PageRequestsKeep, OperationsAnswersKeep, EditorKeeps, OperationsFinishedKeeps,
               ChannelEventKeeps, ReconnectKeeps, UnauthorizedKeeps, ValidationFinishedKeeps
            DEF Next, Handler
<1>2. CASE UNCHANGED vars
  BY <1>2 DEF vars, workerVars, channelVars, pageVars, returnVars, IInv, Types,
              LoginBeforeMain, NothingLeft, ChannelInv, Validating
<1>. QED  BY <1>1, <1>2

LEMMA AlwaysIInv == Spec => []IInv
BY InitIInv, StepIInv, PTL DEF Spec

\* Behind the login nothing of the last session runs, waits or is connected, however
\* many threads outlasted the waits of the return (_complete_return_to_login).
THEOREM ReturnLeavesNothing == Spec => []LoginIsClean
<1>1. IInv => LoginIsClean
  BY DEF IInv, NothingLeft, LoginIsClean, IsRunning
<1>. QED  BY <1>1, AlwaysIInv, PTL

\* While the controller runs, something always brings the channel back, but in the one
\* case that RealtimeKeepsTrying names (the timers of RealtimeController).
THEOREM ChannelComesBack == Spec => []RealtimeKeepsTrying
<1>1. IInv => RealtimeKeepsTrying
  BY DEF IInv, Types, ChannelInv, RealtimeKeepsTrying
<1>. QED  BY <1>1, AlwaysIInv, PTL

-----------------------------------------------------------------------------

(***************************************************************************)
(* AdminStream, for every number of connections and accounts and every     *)
(* interval: a lost right closes the stream in time, and no subscription   *)
(* outlives its handler.                                                   *)
(*                                                                         *)
(* The right that matters to a connection is the one its last good check   *)
(* found, whose beginning is grantedAt; the deadline of what the connection*)
(* does next never runs further than a Window ahead of it.                 *)
(***************************************************************************)
\* At t or later the token was valid, and the account an administrator's.
RightHeld(c, t) ==
    /\ t <= now /\ t < token[c].expiresAt
    /\ ~Administrates(accounts[Owner[c]]) => t <= lostAt[Owner[c]]

StreamTypes ==
    /\ now \in Int
    /\ accounts \in [Accounts -> AccountStates] /\ lostAt \in [Accounts -> Int]
    /\ tokens \subseteq [subject : Accounts, profile : Profiles \cup {AdminProfile},
                         audience : {AdminAudience}, issuedAt : Int, expiresAt : Int]
    /\ stream \in [Conns -> StreamStates] /\ check \in [Conns -> CheckStates]
    /\ heartbeat \in [Conns -> TaskStates] /\ receiver \in [Conns -> TaskStates]
    /\ startedAt \in [Conns -> Int] /\ grantedAt \in [Conns -> Int] /\ due \in [Conns -> Int]
    /\ DOMAIN token = Conns
    /\ \A c \in Conns : stream[c] # "idle" => token[c] \in tokens /\ token[c].subject = Owner[c]

\* A check runs only for a handshake or a heartbeat, tasks only in _run_connection.
StreamPhases(c) ==
    /\ check[c] # "none" => stream[c] \in {"authorizing", "running", "ending"}
    /\ stream[c] = "authorizing" => check[c] # "none"
    /\ heartbeat[c] = "checking" => check[c] # "none"
    /\ stream[c] = "running" /\ check[c] # "none" => heartbeat[c] = "checking"
    /\ heartbeat[c] # "none" \/ receiver[c] # "none" => stream[c] = "running"
    /\ c \in subscribers => stream[c] \in {"subscribed", "running", "ending"}

CheckInv(c) ==
    /\ check[c] # "none" => startedAt[c] <= now /\ due[c] = startedAt[c] + CheckTime
    /\ check[c] = "reading" => startedAt[c] < token[c].expiresAt
    /\ check[c] = "granted" => RightHeld(c, startedAt[c])

Deadlines(c) ==
    /\ stream[c] \in {"authorizing", "accepting"} \/ c \in subscribers => now <= due[c]
    /\ stream[c] = "accepting" \/ c \in subscribers => RightHeld(c, grantedAt[c])
    /\ stream[c] = "accepting" \/ (stream[c] = "subscribed" /\ c \in subscribers) =>
          due[c] <= grantedAt[c] + CheckTime + AcceptTime
    /\ c \in subscribers =>
          due[c] <= grantedAt[c] + (IF check[c] = "none" THEN Window - CheckTime ELSE Window)

ConnInv(c) == StreamPhases(c) /\ CheckInv(c) /\ Deadlines(c)
StreamInv == StreamTypes /\ subscribers \subseteq Conns /\ \A c \in Conns : ConnInv(c)
-----------------------------------------------------------------------------
\* Whatever the broker does by itself or for somebody else only removes.
LEMMA BrokerOnlyRemoves ==
    ASSUME NEW c \in Conns, NEW m,
           \/ WriterStep(c) \/ ShutdownStep(c) \/ SocketDies(c) \/ close
           \/ send_to(c, m) \/ disconnect(c) \/ accept(c) \/ closeSink(c)
    PROVE  subscribers' \subseteq subscribers
<1>1. CASE WriterStep(c)
  BY <1>1 DEF WriterStep, WriterTakes, WriterSends, WriterFails, WriterStops
<1>2. CASE ShutdownStep(c)
  BY <1>2 DEF ShutdownStep, WriterAwaited, SinkCloses, CloseTimesOut
<1>3. CASE SocketDies(c) \/ accept(c) \/ closeSink(c)
  BY <1>3 DEF SocketDies, accept, closeSink
<1>4. CASE close \/ send_to(c, m) \/ disconnect(c)
  BY <1>4 DEF close, send_to, disconnect, beginShutdown
<1> QED BY <1>1, <1>2, <1>3, <1>4

\* A connection that a step does not touch, except perhaps by removing it from
\* the broker, keeps its invariant.
LEMMA Bystander ==
    ASSUME NEW c \in Conns, ConnInv(c),
           stream'[c] = stream[c], token'[c] = token[c], check'[c] = check[c],
           startedAt'[c] = startedAt[c], grantedAt'[c] = grantedAt[c], due'[c] = due[c],
           heartbeat'[c] = heartbeat[c], receiver'[c] = receiver[c],
           now' = now, accounts' = accounts, lostAt' = lostAt,
           c \in subscribers' => c \in subscribers
    PROVE  ConnInv(c)'
<1>1. StreamPhases(c)' BY DEF ConnInv, StreamPhases
<1>2. \A t, u : u = t /\ RightHeld(c, t) => RightHeld(c, u)'
  BY DEF RightHeld, Administrates
<1>3. CheckInv(c)' BY DEF ConnInv, CheckInv, RightHeld, Administrates
<1>4. Deadlines(c)' BY DEF ConnInv, Deadlines, RightHeld, Administrates, Window
<1> QED BY <1>1, <1>3, <1>4 DEF ConnInv

\* The invariant follows from its three parts for a step of one connection.
LEMMA OneConnection ==
    ASSUME StreamInv, NEW d \in Conns, StreamTypes', ConnInv(d)',
           subscribers' \subseteq subscribers \cup {d},
           \A c \in Conns \ {d} :
              /\ stream'[c] = stream[c] /\ token'[c] = token[c] /\ check'[c] = check[c]
              /\ startedAt'[c] = startedAt[c] /\ grantedAt'[c] = grantedAt[c]
              /\ due'[c] = due[c] /\ heartbeat'[c] = heartbeat[c]
              /\ receiver'[c] = receiver[c],
           now' = now, accounts' = accounts, lostAt' = lostAt
    PROVE  StreamInv'
<1>1. \A c \in Conns \ {d} : ConnInv(c)'
  <2> SUFFICES ASSUME NEW c \in Conns \ {d} PROVE ConnInv(c)'
    OBVIOUS
  <2>1. ConnInv(c) /\ (c \in subscribers' => c \in subscribers) BY DEF StreamInv
  <2> QED BY <2>1, Bystander
<1>2. subscribers' \subseteq Conns BY DEF StreamInv
<1> QED BY <1>1, <1>2 DEF StreamInv
-----------------------------------------------------------------------------
LEMMA InitStreamInv == ASSUME StreamAssumption PROVE StreamInit => StreamInv
<1> SUFFICES ASSUME StreamInit PROVE StreamInv
  OBVIOUS
<1>1. StreamTypes
  BY DEF StreamAssumption, StreamInit, StreamTypes, AccountStates, StreamStates, CheckStates, TaskStates
<1>2. subscribers = {} BY DEF StreamInit, BrokerInit
<1>3. ASSUME NEW c \in Conns PROVE ConnInv(c)
  BY <1>2 DEF StreamInit, ConnInv, StreamPhases, CheckInv, Deadlines
<1> QED BY <1>1, <1>2, <1>3 DEF StreamInv

\* Accounts and tokens: an edit that ends a right does so now.
LEMMA AccountStep ==
    ASSUME StreamAssumption, StreamInv, NEW a \in Accounts, LogIn(a) \/ EditAccount(a)
    PROVE  StreamInv'
<1> USE DEF streamVars, brokerVars
<1>1. CASE LogIn(a)
  <2>1. StreamTypes'
    <3>1. issue(a, accounts[a].profile, AdminAudience, now)
             \in [subject : Accounts, profile : Profiles \cup {AdminProfile},
                 audience : {AdminAudience}, issuedAt : Int, expiresAt : Int]
      BY <1>1 DEF LogIn, issue, StreamInv, StreamTypes, StreamAssumption, AccountStates
    <3> QED BY <1>1, <3>1 DEF LogIn, StreamInv, StreamTypes
  <2>2. ASSUME NEW c \in Conns PROVE ConnInv(c)'
    BY <1>1, Bystander DEF LogIn, StreamInv
  <2> QED BY <1>1, <2>1, <2>2 DEF LogIn, StreamInv
<1>2. CASE EditAccount(a)
  <2>1. StreamTypes'
    BY <1>2 DEF EditAccount, StreamInv, StreamTypes
  <2>2. ASSUME NEW c \in Conns, NEW t \in Int, RightHeld(c, t) PROVE RightHeld(c, t)'
    <3>1. ASSUME Owner[c] # a PROVE accounts'[Owner[c]] = accounts[Owner[c]]
                                    /\ lostAt'[Owner[c]] = lostAt[Owner[c]]
      BY <1>2, <3>1 DEF EditAccount, StreamInv, StreamTypes, StreamAssumption
    <3>2. CASE Owner[c] # a
      BY <1>2, <2>2, <3>1, <3>2 DEF EditAccount, RightHeld, Administrates
    <3>3. CASE Owner[c] = a /\ Administrates(accounts[a])
      BY <1>2, <2>2, <3>3 DEF EditAccount, RightHeld, StreamInv, StreamTypes
    <3>4. CASE Owner[c] = a /\ ~Administrates(accounts[a])
      BY <1>2, <2>2, <3>4 DEF EditAccount, RightHeld
    <3> QED BY <3>2, <3>3, <3>4
  <2>3. ASSUME NEW c \in Conns PROVE ConnInv(c)'
    <3>1. ConnInv(c) /\ startedAt[c] \in Int /\ grantedAt[c] \in Int
      BY DEF StreamInv, StreamTypes
    <3>2. StreamPhases(c)' /\ CheckInv(c)'
      BY <1>2, <2>2, <3>1 DEF EditAccount, ConnInv, StreamPhases, CheckInv
    <3>3. Deadlines(c)'
      BY <1>2, <2>2, <3>1 DEF EditAccount, ConnInv, Deadlines
    <3> QED BY <3>2, <3>3 DEF ConnInv
  <2> QED BY <1>2, <2>1, <2>3 DEF EditAccount, StreamInv
<1> QED BY <1>1, <1>2

\* Time does not run past a deadline that counts.
LEMMA TickStep == ASSUME StreamAssumption, StreamInv, Tick PROVE StreamInv'
<1> USE DEF streamVars, brokerVars, accountVars
<1>1. StreamTypes' BY DEF Tick, StreamInv, StreamTypes
<1>2. ASSUME NEW c \in Conns PROVE ConnInv(c)'
  <2>1. /\ ConnInv(c) /\ now \in Int /\ due[c] \in Int
        /\ c \in subscribers \/ stream[c] \in {"authorizing", "accepting"} => now < due[c]
    BY DEF StreamInv, StreamTypes, Tick
  <2>2. ASSUME NEW t, t <= now, t \in Int PROVE t <= now'
    BY <2>1, <2>2 DEF Tick
  <2>3. ASSUME NEW t \in Int, RightHeld(c, t) PROVE RightHeld(c, t)'
    BY <2>2, <2>3 DEF Tick, RightHeld
  <2>4. startedAt[c] \in Int /\ grantedAt[c] \in Int BY DEF StreamInv, StreamTypes
  <2>5. StreamPhases(c)' BY <2>1 DEF Tick, ConnInv, StreamPhases
  <2>6. CheckInv(c)' BY <2>1, <2>2, <2>3, <2>4 DEF Tick, ConnInv, CheckInv
  <2>7. Deadlines(c)' BY <2>1, <2>3, <2>4 DEF Tick, ConnInv, Deadlines
  <2> QED BY <2>5, <2>6, <2>7 DEF ConnInv
<1> QED BY <1>1, <1>2 DEF Tick, StreamInv
-----------------------------------------------------------------------------
\* A handshake begins a check.
LEMMA ConnectStep ==
    ASSUME StreamAssumption, StreamInv, NEW d \in Conns, Connect(d)
    PROVE  StreamInv'
<1> USE DEF streamVars, brokerVars, accountVars
<1>1. ConnInv(d) /\ StreamTypes BY DEF StreamInv
<1>2. StreamTypes'
  BY <1>1
  DEF Connect, BeginCheck, StreamTypes, StreamStates, CheckStates, TaskStates,
      StreamAssumption
<1>3. subscribers' \subseteq subscribers \cup {d}
  BY BrokerOnlyRemoves
  DEF Connect, BeginCheck
<1>4. StreamPhases(d)'
  BY <1>1, BrokerOnlyRemoves
  DEF Connect, BeginCheck, ConnInv, StreamTypes, StreamPhases
<1>5. CheckInv(d)'
  BY <1>1
  DEF Connect, BeginCheck, ConnInv, StreamTypes, StreamPhases, CheckInv, RightHeld
<1>6. Deadlines(d)'
  BY <1>1, BrokerOnlyRemoves
  DEF Connect, BeginCheck, ConnInv, StreamTypes, StreamPhases, CheckInv, Deadlines, RightHeld,
      Window,
      StreamAssumption
<1>7. ConnInv(d)' BY <1>4, <1>5, <1>6 DEF ConnInv
<1> QED BY <1>1, <1>2, <1>3, <1>7, OneConnection DEF Connect, BeginCheck, StreamTypes

\* The token was valid after the check began.
LEMMA VerifyTokenStep ==
    ASSUME StreamAssumption, StreamInv, NEW d \in Conns, VerifyToken(d)
    PROVE  StreamInv'
<1> USE DEF streamVars, brokerVars, accountVars
<1>1. ConnInv(d) /\ StreamTypes BY DEF StreamInv
<1>2. StreamTypes'
  BY <1>1
  DEF VerifyToken, verify, StreamTypes, StreamStates, CheckStates, TaskStates,
      StreamAssumption
<1>3. subscribers' \subseteq subscribers \cup {d}
  BY BrokerOnlyRemoves
  DEF VerifyToken, verify
<1>4. StreamPhases(d)'
  BY <1>1, BrokerOnlyRemoves
  DEF VerifyToken, verify, ConnInv, StreamTypes, StreamPhases
<1>5. CheckInv(d)'
  BY <1>1
  DEF VerifyToken, verify, ConnInv, StreamTypes, StreamPhases, CheckInv, RightHeld
<1>6. Deadlines(d)'
  BY <1>1, BrokerOnlyRemoves
  DEF VerifyToken, verify, ConnInv, StreamTypes, StreamPhases, CheckInv, Deadlines, RightHeld,
      Window,
      StreamAssumption
<1>7. ConnInv(d)' BY <1>4, <1>5, <1>6 DEF ConnInv
<1> QED BY <1>1, <1>2, <1>3, <1>7, OneConnection DEF VerifyToken, verify, StreamTypes

\* The account was an administrator's after the check began.
LEMMA ReadAccountStep ==
    ASSUME StreamAssumption, StreamInv, NEW d \in Conns, ReadAccount(d)
    PROVE  StreamInv'
<1> USE DEF streamVars, brokerVars, accountVars
<1>1. ConnInv(d) /\ StreamTypes BY DEF StreamInv
<1>2. StreamTypes'
  BY <1>1
  DEF ReadAccount, isAdministrator, StreamTypes, StreamStates, CheckStates, TaskStates,
      StreamAssumption
<1>3. subscribers' \subseteq subscribers \cup {d}
  BY BrokerOnlyRemoves
  DEF ReadAccount, isAdministrator
<1>4. StreamPhases(d)'
  BY <1>1, BrokerOnlyRemoves
  DEF ReadAccount, isAdministrator, ConnInv, StreamTypes, StreamPhases, Administrates
<1>5. CheckInv(d)'
  BY <1>1
  DEF ReadAccount, isAdministrator, ConnInv, StreamTypes, StreamPhases, CheckInv, RightHeld,
      Administrates
<1>6. Deadlines(d)'
  BY <1>1, BrokerOnlyRemoves
  DEF ReadAccount, isAdministrator, ConnInv, StreamTypes, StreamPhases, CheckInv, Deadlines,
      RightHeld, Window,
      StreamAssumption, Administrates
<1>7. ConnInv(d)' BY <1>4, <1>5, <1>6 DEF ConnInv
<1> QED BY <1>1, <1>2, <1>3, <1>7, OneConnection DEF ReadAccount, isAdministrator, StreamTypes

\* A refused handshake holds nothing.
LEMMA DenyStep ==
    ASSUME StreamAssumption, StreamInv, NEW d \in Conns, Deny(d)
    PROVE  StreamInv'
<1> USE DEF streamVars, brokerVars, accountVars
<1>1. ConnInv(d) /\ StreamTypes BY DEF StreamInv
<1>2. StreamTypes'
  BY <1>1
  DEF Deny, UseCheck, StreamTypes, StreamStates, CheckStates, TaskStates, StreamAssumption
<1>3. subscribers' \subseteq subscribers \cup {d}
  BY BrokerOnlyRemoves
  DEF Deny, UseCheck
<1>4. StreamPhases(d)' BY <1>1, BrokerOnlyRemoves DEF Deny, UseCheck, ConnInv, StreamTypes, StreamPhases
<1>5. CheckInv(d)'
  BY <1>1
  DEF Deny, UseCheck, ConnInv, StreamTypes, StreamPhases, CheckInv, RightHeld
<1>6. Deadlines(d)'
  BY <1>1, BrokerOnlyRemoves
  DEF Deny, UseCheck, ConnInv, StreamTypes, StreamPhases, CheckInv, Deadlines, RightHeld, Window,
      StreamAssumption
<1>7. ConnInv(d)' BY <1>4, <1>5, <1>6 DEF ConnInv
<1> QED BY <1>1, <1>2, <1>3, <1>7, OneConnection DEF Deny, UseCheck, StreamTypes

\* An accepted handshake has its right from its own check.
LEMMA AcceptStep ==
    ASSUME StreamAssumption, StreamInv, NEW d \in Conns, Accept(d)
    PROVE  StreamInv'
<1> USE DEF streamVars, brokerVars, accountVars
<1>1. ConnInv(d) /\ StreamTypes BY DEF StreamInv
<1>2. StreamTypes'
  BY <1>1
  DEF Accept, UseCheck, StreamTypes, StreamStates, CheckStates, TaskStates, StreamAssumption
<1>3. subscribers' \subseteq subscribers \cup {d}
  BY BrokerOnlyRemoves
  DEF Accept, UseCheck
<1>4. StreamPhases(d)' BY <1>1, BrokerOnlyRemoves DEF Accept, UseCheck, ConnInv, StreamTypes, StreamPhases
<1>5. CheckInv(d)'
  BY <1>1
  DEF Accept, UseCheck, ConnInv, StreamTypes, StreamPhases, CheckInv, RightHeld
<1>6. Deadlines(d)'
  BY <1>1, BrokerOnlyRemoves
  DEF Accept, UseCheck, ConnInv, StreamTypes, StreamPhases, CheckInv, Deadlines, RightHeld, Window,
      StreamAssumption
<1>7. ConnInv(d)' BY <1>4, <1>5, <1>6 DEF ConnInv
<1> QED BY <1>1, <1>2, <1>3, <1>7, OneConnection DEF Accept, UseCheck, StreamTypes

\* The only step that adds a subscription is that of its handler.
LEMMA SubscribeStep ==
    ASSUME StreamAssumption, StreamInv, NEW d \in Conns, Subscribe(d)
    PROVE  StreamInv'
<1> USE DEF streamVars, brokerVars, accountVars
<1>1. ConnInv(d) /\ StreamTypes BY DEF StreamInv
<1>2. StreamTypes'
  BY <1>1
  DEF Subscribe, subscribe, StreamTypes, StreamStates, CheckStates, TaskStates,
      StreamAssumption
<1>3. subscribers' \subseteq subscribers \cup {d}
  BY BrokerOnlyRemoves
  DEF Subscribe, subscribe
<1>4. StreamPhases(d)'
  BY <1>1, BrokerOnlyRemoves
  DEF Subscribe, subscribe, ConnInv, StreamTypes, StreamPhases
<1>5. CheckInv(d)'
  BY <1>1
  DEF Subscribe, subscribe, ConnInv, StreamTypes, StreamPhases, CheckInv, RightHeld
<1>6. Deadlines(d)'
  BY <1>1, BrokerOnlyRemoves
  DEF Subscribe, subscribe, ConnInv, StreamTypes, StreamPhases, CheckInv, Deadlines, RightHeld,
      Window,
      StreamAssumption
<1>7. ConnInv(d)' BY <1>4, <1>5, <1>6 DEF ConnInv
<1> QED BY <1>1, <1>2, <1>3, <1>7, OneConnection DEF Subscribe, subscribe, StreamTypes

\* A handshake that fails holds nothing.
LEMMA AcceptFailsStep ==
    ASSUME StreamAssumption, StreamInv, NEW d \in Conns, AcceptFails(d)
    PROVE  StreamInv'
<1> USE DEF streamVars, brokerVars, accountVars
<1>1. ConnInv(d) /\ StreamTypes BY DEF StreamInv
<1>2. StreamTypes'
  BY <1>1
  DEF AcceptFails, StreamTypes, StreamStates, CheckStates, TaskStates, StreamAssumption
<1>3. subscribers' \subseteq subscribers \cup {d} BY BrokerOnlyRemoves DEF AcceptFails
<1>4. StreamPhases(d)' BY <1>1, BrokerOnlyRemoves DEF AcceptFails, ConnInv, StreamTypes, StreamPhases
<1>5. CheckInv(d)' BY <1>1 DEF AcceptFails, ConnInv, StreamTypes, StreamPhases, CheckInv, RightHeld
<1>6. Deadlines(d)'
  BY <1>1, BrokerOnlyRemoves
  DEF AcceptFails, ConnInv, StreamTypes, StreamPhases, CheckInv, Deadlines, RightHeld, Window,
      StreamAssumption
<1>7. ConnInv(d)' BY <1>4, <1>5, <1>6 DEF ConnInv
<1> QED BY <1>1, <1>2, <1>3, <1>7, OneConnection DEF AcceptFails, StreamTypes

\* The first sleep begins, unless the connection was or is removed.
LEMMA GreetStep ==
    ASSUME StreamAssumption, StreamInv, NEW d \in Conns, Greet(d)
    PROVE  StreamInv'
<1> USE DEF streamVars, brokerVars, accountVars
<1>1. ConnInv(d) /\ StreamTypes BY DEF StreamInv
<1>2. StreamTypes' BY <1>1 DEF Greet, StreamTypes, StreamStates, TaskStates, StreamAssumption
<1>3. subscribers' \subseteq subscribers \cup {d} BY BrokerOnlyRemoves DEF Greet
<1>4. d \in subscribers' => d \in subscribers /\ ~IsFull(d)
  BY DEF Greet, send_to, beginShutdown
<1>5. StreamPhases(d)' BY <1>1, <1>4 DEF Greet, ConnInv, StreamTypes, StreamPhases
<1>6. CheckInv(d)' BY <1>1 DEF Greet, ConnInv, StreamTypes, StreamPhases, CheckInv
<1>7. Deadlines(d)'
  BY <1>1, <1>4
  DEF Greet, ConnInv, StreamTypes, StreamPhases, Deadlines, RightHeld, Window, StreamAssumption
<1>8. ConnInv(d)' BY <1>5, <1>6, <1>7 DEF ConnInv
<1> QED BY <1>1, <1>2, <1>3, <1>8, OneConnection DEF Greet, StreamTypes

\* A sleep ends at its deadline, if the connection is still registered.
LEMMA HeartbeatWakesStep ==
    ASSUME StreamAssumption, StreamInv, NEW d \in Conns, HeartbeatWakes(d)
    PROVE  StreamInv'
<1> USE DEF streamVars, brokerVars, accountVars
<1>1. ConnInv(d) /\ StreamTypes BY DEF StreamInv
<1>2. StreamTypes'
  BY <1>1
  DEF HeartbeatWakes, BeginCheck, StreamTypes, StreamStates, CheckStates, TaskStates,
      StreamAssumption
<1>3. subscribers' \subseteq subscribers \cup {d}
  BY BrokerOnlyRemoves
  DEF HeartbeatWakes, BeginCheck
<1>4. StreamPhases(d)'
  BY <1>1, BrokerOnlyRemoves
  DEF HeartbeatWakes, BeginCheck, ConnInv, StreamTypes, StreamPhases
<1>5. CheckInv(d)'
  BY <1>1
  DEF HeartbeatWakes, BeginCheck, ConnInv, StreamTypes, StreamPhases, CheckInv, RightHeld
<1>6. Deadlines(d)'
  BY <1>1, BrokerOnlyRemoves
  DEF HeartbeatWakes, BeginCheck, ConnInv, StreamTypes, StreamPhases, CheckInv, Deadlines,
      RightHeld, Window,
      StreamAssumption
<1>7. ConnInv(d)' BY <1>4, <1>5, <1>6 DEF ConnInv
<1> QED BY <1>1, <1>2, <1>3, <1>7, OneConnection DEF HeartbeatWakes, BeginCheck, StreamTypes

\* A good answer moves the deadline by an interval.
LEMMA HeartbeatSendsStep ==
    ASSUME StreamAssumption, StreamInv, NEW d \in Conns, HeartbeatSends(d)
    PROVE  StreamInv'
<1> USE DEF streamVars, brokerVars, accountVars
<1>1. ConnInv(d) /\ StreamTypes BY DEF StreamInv
<1>2. StreamTypes'
  <2>1. CASE d \notin subscribers
    BY <1>1, <2>1 DEF HeartbeatSends, UseCheck, EndTasks, StreamTypes, StreamStates, CheckStates,
                      TaskStates, ConnInv, StreamPhases
  <2>2. CASE d \in subscribers
    BY <1>1, <2>2 DEF HeartbeatSends, UseCheck, StreamTypes, CheckStates, TaskStates, StreamAssumption
  <2> QED BY <2>1, <2>2
<1>3. subscribers' \subseteq subscribers \cup {d}
  BY BrokerOnlyRemoves
  DEF HeartbeatSends, UseCheck, EndTasks
<1>4. StreamPhases(d)'
  BY <1>1, BrokerOnlyRemoves
  DEF HeartbeatSends, UseCheck, EndTasks, ConnInv, StreamTypes, StreamPhases
<1>5. CheckInv(d)'
  BY <1>1
  DEF HeartbeatSends, UseCheck, EndTasks, ConnInv, StreamTypes, StreamPhases, CheckInv, RightHeld
<1>6. Deadlines(d)'
  BY <1>1, BrokerOnlyRemoves
  DEF HeartbeatSends, UseCheck, EndTasks, ConnInv, StreamTypes, StreamPhases, CheckInv, Deadlines,
      RightHeld, Window,
      StreamAssumption
<1>7. ConnInv(d)' BY <1>4, <1>5, <1>6 DEF ConnInv
<1> QED
  BY <1>1, <1>2, <1>3, <1>7, OneConnection
  DEF HeartbeatSends, UseCheck, EndTasks, StreamTypes

\* A task that ends ends the other; one that disconnects removes the connection.
LEMMA TasksEnd ==
    ASSUME StreamTypes, NEW d \in Conns, NEW task,
           EndTasks(d, task) \/ Disconnects(d, task)
    PROVE  /\ subscribers' \subseteq subscribers
           /\ stream' \in [Conns -> StreamStates]
           /\ heartbeat' \in [Conns -> TaskStates] /\ receiver' \in [Conns -> TaskStates]
           /\ \A c \in Conns \ {d} : /\ stream'[c] = stream[c]
                                     /\ heartbeat'[c] = heartbeat[c]
                                     /\ receiver'[c] = receiver[c]
           /\ \/ stream'[d] = "ending" /\ heartbeat'[d] = "none" /\ receiver'[d] = "none"
              \/ /\ d \notin subscribers' /\ stream'[d] = stream[d]
                 /\ heartbeat'[d] = IF task = "heartbeat" THEN "disconnecting" ELSE heartbeat[d]
           /\ Disconnects(d, task) => d \notin subscribers'
<1> USE DEF StreamTypes, StreamStates, TaskStates
<1>1. CASE EndTasks(d, task) /\ ~(Disconnects(d, task) /\ d \in subscribers)
  <2>1. Disconnects(d, task) => d \notin subscribers' BY <1>1 DEF EndTasks
  <2> QED BY <1>1, <2>1 DEF EndTasks
<1>2. CASE Disconnects(d, task) /\ d \in subscribers
  <2>1. disconnect(d) /\ UNCHANGED stream BY <1>2 DEF Disconnects
  <2>2. d \notin subscribers' /\ subscribers' \subseteq subscribers
    BY <2>1, <1>2 DEF disconnect, beginShutdown
  <2> QED BY <1>2, <2>1, <2>2 DEF Disconnects
<1> QED BY <1>1, <1>2 DEF Disconnects

\* Any other answer ends the tasks or removes the connection.
LEMMA HeartbeatDisconnectsStep ==
    ASSUME StreamAssumption, StreamInv, NEW d \in Conns, HeartbeatDisconnects(d)
    PROVE  StreamInv'
<1> USE DEF accountVars, HeartbeatDisconnects, UseCheck
<1>1. ConnInv(d) /\ StreamTypes BY DEF StreamInv
<1> DEFINE Summary(task) ==
      /\ subscribers' \subseteq subscribers /\ d \notin subscribers'
      /\ \/ stream'[d] = "ending" /\ heartbeat'[d] = "none" /\ receiver'[d] = "none"
         \/ /\ stream'[d] = stream[d]
            /\ heartbeat'[d] = IF task = "heartbeat" THEN "disconnecting" ELSE heartbeat[d]
<1>2. Summary("heartbeat") BY <1>1, TasksEnd
<1>3. \A c \in Conns \ {d} : /\ stream'[c] = stream[c] /\ heartbeat'[c] = heartbeat[c]
                             /\ receiver'[c] = receiver[c]
  BY <1>1, TasksEnd
<1>4. stream' \in [Conns -> StreamStates] /\ heartbeat' \in [Conns -> TaskStates]
      /\ receiver' \in [Conns -> TaskStates]
  BY <1>1, TasksEnd
<1>5. \A c \in Conns : stream'[c] # "idle" => stream[c] # "idle"
  BY <1>1, <1>2, <1>3 DEF ConnInv, StreamPhases, StreamTypes
<1>6. StreamTypes'
  BY <1>1, <1>4, <1>5 DEF StreamTypes, CheckStates
<1>7. StreamPhases(d)' BY <1>1, <1>2 DEF ConnInv, StreamTypes, StreamPhases
<1>8. CheckInv(d)' BY <1>1 DEF StreamTypes, CheckInv
<1>9. Deadlines(d)'
  <2>1. stream[d] \in {"running", "ending"} BY <1>1 DEF ConnInv, StreamPhases
  <2>2. stream'[d] \in {"running", "ending"} BY <1>2, <2>1
  <2> QED BY <1>2, <2>2 DEF Deadlines
<1>10. ConnInv(d)' BY <1>7, <1>8, <1>9 DEF ConnInv
<1> QED BY <1>1, <1>2, <1>3, <1>6, <1>10, OneConnection DEF StreamTypes

\* The receiver, or the end of a shutdown, ends both tasks or removes the
\* connection; a check that is under way keeps its deadline.
LEMMA ReceiverStep ==
    ASSUME StreamAssumption, StreamInv, NEW d \in Conns,
           ReceiverDisconnects(d) \/ ReceiverEnds(d) \/ DisconnectEnds(d)
    PROVE  StreamInv'
<1>1. ConnInv(d) /\ StreamTypes BY DEF StreamInv
<1>2. /\ heartbeat[d] # "none" \/ receiver[d] # "none"
      /\ UNCHANGED <<now, accounts, lostAt, tokens, token, check, startedAt, grantedAt, due>>
  BY DEF ReceiverDisconnects, ReceiverEnds, DisconnectEnds, accountVars
<1>3. \/ EndTasks(d, "receiver") \/ Disconnects(d, "receiver")
      \/ EndTasks(d, "heartbeat")
  BY DEF ReceiverDisconnects, ReceiverEnds, DisconnectEnds
<1> DEFINE Summary ==
      /\ subscribers' \subseteq subscribers
      /\ \/ stream'[d] = "ending" /\ heartbeat'[d] = "none" /\ receiver'[d] = "none"
         \/ d \notin subscribers' /\ stream'[d] = stream[d] /\ heartbeat'[d] = heartbeat[d]
<1>4. Summary
  <2>1. CASE EndTasks(d, "heartbeat")
    BY <1>1, <2>1 DEF EndTasks, StreamTypes
  <2>2. CASE EndTasks(d, "receiver") \/ Disconnects(d, "receiver")
    BY <1>1, <2>2, TasksEnd
  <2> QED BY <1>3, <2>1, <2>2
<1>5. \A c \in Conns \ {d} : /\ stream'[c] = stream[c] /\ heartbeat'[c] = heartbeat[c]
                             /\ receiver'[c] = receiver[c]
  BY <1>1, <1>3, TasksEnd
<1>6. stream' \in [Conns -> StreamStates] /\ heartbeat' \in [Conns -> TaskStates]
      /\ receiver' \in [Conns -> TaskStates]
  BY <1>1, <1>3, TasksEnd
<1>7. stream[d] = "running" BY <1>1, <1>2 DEF ConnInv, StreamPhases
<1>8. StreamTypes'
  BY <1>1, <1>2, <1>4, <1>5, <1>6, <1>7 DEF StreamTypes
<1>9. StreamPhases(d)' BY <1>1, <1>2, <1>4, <1>7 DEF ConnInv, StreamTypes, StreamPhases
<1>10. CheckInv(d)' BY <1>1, <1>2 DEF ConnInv, CheckInv, RightHeld
<1>11. Deadlines(d)'
  BY <1>1, <1>2, <1>4, <1>7 DEF ConnInv, Deadlines, RightHeld, Window
<1>12. ConnInv(d)' BY <1>9, <1>10, <1>11 DEF ConnInv
<1> QED BY <1>1, <1>2, <1>4, <1>5, <1>8, <1>12, OneConnection

\* The end of a handler leaves no subscription.
LEMMA LeaveStep ==
    ASSUME StreamAssumption, StreamInv, NEW d \in Conns, Unsubscribe(d) \/ HandlerReturns(d)
    PROVE  StreamInv'
<1> USE DEF streamVars, brokerVars, accountVars
<1>1. ConnInv(d) /\ StreamTypes BY DEF StreamInv
<1>2. StreamTypes'
  <2>1. /\ check' = check \/ check' = [check EXCEPT ![d] = "none"]
        /\ stream' \in {[stream EXCEPT ![d] = "leaving"], [stream EXCEPT ![d] = "idle"]}
        /\ stream[d] # "idle"
        /\ UNCHANGED <<now, accounts, lostAt, tokens, token, startedAt, grantedAt,
                       heartbeat, receiver, due>>
    BY DEF Unsubscribe, HandlerReturns
  <2>2. check' \in [Conns -> CheckStates] /\ stream' \in [Conns -> StreamStates]
    BY <1>1, <2>1 DEF StreamTypes, StreamStates, CheckStates
  <2>3. \A c \in Conns : stream'[c] # "idle" => stream[c] # "idle"
    BY <1>1, <2>1 DEF StreamTypes
  <2> QED BY <1>1, <2>1, <2>2, <2>3 DEF StreamTypes
<1>3. subscribers' \subseteq subscribers \cup {d}
  BY BrokerOnlyRemoves
  DEF Unsubscribe, HandlerReturns, disconnect, beginShutdown
<1>4. StreamPhases(d)'
  BY <1>1, BrokerOnlyRemoves
  DEF Unsubscribe, HandlerReturns, disconnect, beginShutdown, ConnInv, StreamTypes, StreamPhases
<1>5. CheckInv(d)'
  BY <1>1
  DEF Unsubscribe, HandlerReturns, disconnect, beginShutdown, ConnInv, StreamTypes, StreamPhases,
      CheckInv, RightHeld
<1>6. Deadlines(d)'
  BY <1>1, BrokerOnlyRemoves
  DEF Unsubscribe, HandlerReturns, disconnect, beginShutdown, ConnInv, StreamTypes, StreamPhases,
      CheckInv, Deadlines, RightHeld, Window,
      StreamAssumption
<1>7. ConnInv(d)' BY <1>4, <1>5, <1>6 DEF ConnInv
<1> QED
  BY <1>1, <1>2, <1>3, <1>7, OneConnection
  DEF Unsubscribe, HandlerReturns, disconnect, beginShutdown, StreamTypes

\* The broker and the network touch no handler.
LEMMA BrokerSteps ==
    ASSUME StreamAssumption, StreamInv, NEW d \in Conns, Publish(d) \/ BrokerStep(d)
    PROVE  StreamInv'
<1> USE DEF streamVars, brokerVars, accountVars
<1>1. ConnInv(d) /\ StreamTypes BY DEF StreamInv
<1>2. StreamTypes'
  BY <1>1
  DEF Publish, BrokerStep, StreamTypes, StreamStates, CheckStates, TaskStates,
      StreamAssumption
<1>3. subscribers' \subseteq subscribers \cup {d}
  BY BrokerOnlyRemoves
  DEF Publish, BrokerStep
<1>4. StreamPhases(d)'
  BY <1>1, BrokerOnlyRemoves
  DEF Publish, BrokerStep, ConnInv, StreamTypes, StreamPhases
<1>5. CheckInv(d)'
  BY <1>1
  DEF Publish, BrokerStep, ConnInv, StreamTypes, StreamPhases, CheckInv, RightHeld
<1>6. Deadlines(d)'
  BY <1>1, BrokerOnlyRemoves
  DEF Publish, BrokerStep, ConnInv, StreamTypes, StreamPhases, CheckInv, Deadlines, RightHeld,
      Window,
      StreamAssumption
<1>7. ConnInv(d)' BY <1>4, <1>5, <1>6 DEF ConnInv
<1> QED BY <1>1, <1>2, <1>3, <1>7, OneConnection DEF Publish, BrokerStep, StreamTypes

-----------------------------------------------------------------------------
LEMMA StepStreamInv == ASSUME StreamAssumption PROVE StreamInv /\ [StreamNext]_adminStreamVars => StreamInv'
<1> SUFFICES ASSUME StreamInv, [StreamNext]_adminStreamVars PROVE StreamInv'
  OBVIOUS
<1>1. CASE UNCHANGED adminStreamVars
  <2>1. UNCHANGED <<now, accountVars, streamVars, subscribers>>
    BY <1>1 DEF adminStreamVars, brokerVars
  <2>2. StreamTypes' BY <2>1 DEF StreamInv, StreamTypes, accountVars, streamVars
  <2>3. ASSUME NEW c \in Conns PROVE ConnInv(c)'
    BY <2>1, Bystander DEF StreamInv, accountVars, streamVars
  <2> QED BY <2>1, <2>2, <2>3 DEF StreamInv
<1>2. CASE Tick BY <1>2, TickStep
<1>3. ASSUME NEW a \in Accounts, LogIn(a) \/ EditAccount(a) PROVE StreamInv'
  BY <1>3, AccountStep
<1>4. ASSUME NEW c \in Conns, HandlerStep(c) PROVE StreamInv'
  <2>1. CASE Connect(c) \/ VerifyToken(c) \/ ReadAccount(c)
    BY <2>1, ConnectStep, VerifyTokenStep, ReadAccountStep
  <2>2. CASE Deny(c) \/ Accept(c) \/ Subscribe(c) \/ AcceptFails(c) \/ Greet(c)
    BY <2>2, DenyStep, AcceptStep, SubscribeStep, AcceptFailsStep, GreetStep
  <2>3. CASE HeartbeatWakes(c) \/ HeartbeatSends(c) \/ HeartbeatDisconnects(c)
    BY <2>3, HeartbeatWakesStep, HeartbeatSendsStep, HeartbeatDisconnectsStep
  <2>4. CASE ReceiverDisconnects(c) \/ ReceiverEnds(c) \/ DisconnectEnds(c)
    BY <2>4, ReceiverStep
  <2>5. CASE Unsubscribe(c) \/ HandlerReturns(c)
    BY <2>5, LeaveStep
  <2> QED BY <1>4, <2>1, <2>2, <2>3, <2>4, <2>5 DEF HandlerStep
<1>5. ASSUME NEW c \in Conns, Publish(c) \/ BrokerStep(c) PROVE StreamInv'
  BY <1>5, BrokerSteps
<1> QED BY <1>1, <1>2, <1>3, <1>4, <1>5 DEF StreamNext

\* An expired token or an account that is no longer an administrator's is out of
\* the stream at most one heartbeat and two checks later: for every interval,
\* every number of connections and every interleaving of heartbeat, receiver,
\* publisher, writer and shutdown.
THEOREM LostRightsAreCutOff == StreamAssumption /\ StreamSpec => []CutOffInTime
<1> SUFFICES ASSUME StreamAssumption PROVE StreamSpec => []CutOffInTime
  OBVIOUS
<1>1. StreamInv => CutOffInTime
  <2> SUFFICES ASSUME StreamInv, NEW c \in subscribers
               PROVE  /\ now < token[c].expiresAt + Window
                      /\ ~Administrates(accounts[Owner[c]]) => now <= lostAt[Owner[c]] + Window
    BY DEF CutOffInTime
  <2>1. c \in Conns /\ StreamTypes /\ StreamPhases(c) /\ Deadlines(c) BY DEF StreamInv, ConnInv
  <2>2. /\ now \in Int /\ due[c] \in Int /\ grantedAt[c] \in Int
        /\ token[c].expiresAt \in Int /\ lostAt[Owner[c]] \in Int
    BY <2>1 DEF StreamTypes, StreamPhases, StreamAssumption
  <2>3. now <= due[c] /\ due[c] <= grantedAt[c] + Window /\ RightHeld(c, grantedAt[c])
    BY <2>1, <2>2 DEF Deadlines, Window, StreamAssumption
  <2>4. Window \in Int BY DEF Window, StreamAssumption
  <2> QED BY <2>2, <2>3, <2>4 DEF RightHeld
<1>2. StreamSpec => []StreamInv
  BY InitStreamInv, StepStreamInv, PTL DEF StreamSpec
<1> QED BY <1>1, <1>2, PTL

\* No subscription outlives the handler that must unsubscribe it.
THEOREM SubscriptionsAreHandled ==
    StreamAssumption /\ StreamSpec => []EverySubscriptionHasAHandler
<1> SUFFICES ASSUME StreamAssumption PROVE StreamSpec => []EverySubscriptionHasAHandler
  OBVIOUS
<1>1. StreamInv => EverySubscriptionHasAHandler
  BY DEF StreamInv, ConnInv, StreamPhases, EverySubscriptionHasAHandler
<1>2. StreamSpec => []StreamInv
  BY InitStreamInv, StepStreamInv, PTL DEF StreamSpec
<1> QED BY <1>1, <1>2, PTL

(***************************************************************************)
(* OperationCatalogue, for any number of administrators, operators, ids,   *)
(* names and PPE: no save is lost or mixed with another, and what a list   *)
(* shows was saved so.                                                     *)
(***************************************************************************)
CatalogueTypes ==
    /\ rows \in [Ids -> Rows \cup {Absent}]
    /\ epis \in [Operations -> SUBSET Epis]
    /\ history \in [Ids -> Seq(Contents)]
    /\ step \in [Requests -> Steps]
    /\ call \in [Requests -> Calls \cup {Absent}]
    /\ written \in [Requests -> BOOLEAN]
    /\ deleted \in [Requests -> SUBSET Epis]
    /\ inserted \in [Requests -> SUBSET Epis]
    /\ seen \in [Requests -> [Ids -> Rows \cup {Absent}]]
    /\ ppe \in [Requests -> [Operations -> SUBSET Epis]]
    /\ since \in [Requests -> Nat]

\* The tables hold the last save of each row; an operation has always had PPE.
Saved(i) ==
    /\ history[i] # <<>> <=> rows[i] # Absent
    /\ rows[i] # Absent =>
          /\ rows[i] = history[i][Len(history[i])].row
          /\ i \in Operations => epis[i] = history[i][Len(history[i])].epis
    /\ i \in Operations => \A n \in 1 .. Len(history[i]) : history[i][n].epis # {}

Saving(r) == step[r] \in {"exists", "reference", "epis", "name", "write", "replace", "commit"}

\* What a request has written is what it was asked to save.
Writes(r) ==
    /\ step[r] # "idle" => call[r] \in Calls /\ Valid(call[r])
    /\ Saving(r) => call[r].kind # "list"
    /\ written[r] => step[r] \in {"replace", "commit"}
    /\ step[r] \in {"replace", "commit"} => written[r]
    /\ step[r] = "replace" => id(r) \in Operations
    /\ step[r] = "commit" /\ id(r) \in Operations =>
          deleted[r] = epis[id(r)] /\ inserted[r] = save(r).epis

\* The locks: one writer of a row, and one of a key.
Locked(q, r) ==
    written[q] /\ written[r] /\ q # r =>
        id(q) # id(r) /\ ~SameKey(id(q), save(q).row, id(r), save(r).row)
NewKey(r) ==
    written[r] => \A j \in Ids : rows[j] # Absent => ~SameKey(id(r), save(r).row, j, rows[j])

\* The answer of a request, while it is put together
Shows(r) ==
    /\ step[r] \in {"rows", "ppe", "answered"} /\ call[r].kind # "list" =>
          since[r] <= Len(history[id(r)]) /\ history[id(r)] # <<>>
    /\ step[r] \in {"ppe", "answered"} => \A i \in Ids : seen[r][i] # Absent =>
          \E m \in 1 .. Len(history[i]) :
             /\ call[r].kind # "list" => since[r] <= m
             /\ seen[r][i] = history[i][m].row
             /\ step[r] = "answered" /\ i \in Operations =>
                   \E n \in m .. Len(history[i]) : ppe[r][i] = history[i][n].epis

CatalogueInv ==
    /\ CatalogueTypes
    /\ \A i \in Ids : Saved(i)
    /\ UniqueKeys
    /\ \A r \in Requests : Writes(r) /\ NewKey(r) /\ Shows(r)
    /\ \A q \in Requests, r \in Requests : Locked(q, r)

-----------------------------------------------------------------------------
LEMMA AppendedSequence ==
    ASSUME NEW S, NEW s \in Seq(S), NEW e \in S
    PROVE  /\ Append(s, e) \in Seq(S) /\ Len(Append(s, e)) = Len(s) + 1
           /\ Append(s, e) # <<>> /\ Append(s, e)[Len(s) + 1] = e
           /\ \A n \in 1 .. Len(s) : Append(s, e)[n] = s[n]
  OBVIOUS

\* History is only added to.
Grows ==
    /\ history' \in [Ids -> Seq(Contents)]
    /\ \A i \in Ids : Len(history[i]) <= Len(history'[i])
          /\ \A n \in 1 .. Len(history[i]) : history'[i][n] = history[i][n]

\* What a request has seen of the past stays true of it.
LEMMA PastStays ==
    ASSUME CatalogueAssumption, CatalogueInv, Grows, NEW r \in Requests,
           step'[r] = step[r], call'[r] = call[r],
           seen'[r] = seen[r], ppe'[r] = ppe[r], since'[r] = since[r]
    PROVE  Shows(r)'
  <1> DEFINE Sound(i, h, at, c, sn, pp, sc) ==
        \E m \in 1 .. Len(h) :
             /\ c.kind # "list" => sc <= m
             /\ sn[i] = h[m].row
             /\ at = "answered" /\ i \in Operations =>
                   \E n \in m .. Len(h) : pp[i] = h[n].epis
  <1>1. Shows(r) /\ CatalogueTypes /\ Writes(r)  BY DEF CatalogueInv
  <1>2. \A i \in Ids : /\ history[i] \in Seq(Contents) /\ history'[i] \in Seq(Contents)
                       /\ Len(history[i]) \in Nat /\ Len(history'[i]) \in Nat
                       /\ Len(history[i]) <= Len(history'[i])
    BY <1>1 DEF CatalogueTypes, Grows
  <1>3. step[r] \in {"rows", "ppe", "answered"} /\ call[r].kind # "list" =>
           since'[r] <= Len(history'[id(r)]) /\ history'[id(r)] # <<>>
    <2> SUFFICES ASSUME step[r] \in {"rows", "ppe", "answered"}, call[r].kind # "list"
                 PROVE  since'[r] <= Len(history'[id(r)]) /\ history'[id(r)] # <<>>
      OBVIOUS
    <2>1. id(r) \in Ids  BY <1>1 DEF Writes, Calls, id
    <2>2. since[r] <= Len(history[id(r)]) /\ history[id(r)] # <<>>  BY <1>1 DEF Shows
    <2>3. Len(history[id(r)]) > 0  BY <1>2, <2>1, <2>2
    <2>4. since[r] \in Nat  BY <1>1 DEF CatalogueTypes
    <2> QED  BY <1>2, <2>1, <2>2, <2>3, <2>4
  <1>4. step[r] \in {"ppe", "answered"} => \A i \in Ids : seen[r][i] # Absent =>
           Sound(i, history'[i], step[r], call[r], seen[r], ppe[r], since[r])
    <2> SUFFICES ASSUME step[r] \in {"ppe", "answered"}, NEW i \in Ids, seen[r][i] # Absent
                 PROVE  Sound(i, history'[i], step[r], call[r], seen[r], ppe[r], since[r])
      OBVIOUS
    <2>1. PICK m \in 1 .. Len(history[i]) :
             /\ call[r].kind # "list" => since[r] <= m
             /\ seen[r][i] = history[i][m].row
             /\ step[r] = "answered" /\ i \in Operations =>
                   \E n \in m .. Len(history[i]) : ppe[r][i] = history[i][n].epis
      BY <1>1 DEF Shows
    <2>2. m \in 1 .. Len(history'[i]) /\ history'[i][m] = history[i][m]
      BY <1>2 DEF Grows
    <2>3. step[r] = "answered" /\ i \in Operations =>
             \E n \in m .. Len(history'[i]) : ppe[r][i] = history'[i][n].epis
      <3> SUFFICES ASSUME step[r] = "answered", i \in Operations
                   PROVE  \E n \in m .. Len(history'[i]) : ppe[r][i] = history'[i][n].epis
        OBVIOUS
      <3>1. PICK n \in m .. Len(history[i]) : ppe[r][i] = history[i][n].epis  BY <2>1
      <3>2. n \in 1 .. Len(history[i]) /\ n \in m .. Len(history'[i])  BY <1>2
      <3>3. history'[i][n] = history[i][n]  BY <3>2 DEF Grows
      <3> QED  BY <3>1, <3>2, <3>3
    <2> QED  BY <2>1, <2>2, <2>3
  <1> QED  BY <1>3, <1>4 DEF Shows, id

\* A step that leaves the tables alone leaves alone what they hold.
LEMMA TablesStay ==
    ASSUME CatalogueInv, UNCHANGED tables
    PROVE  /\ \A i \in Ids : Saved(i)'
           /\ UniqueKeys' /\ Grows
  <1>1. \A i \in Ids : Saved(i)'  BY DEF CatalogueInv, Saved, tables
  <1>2. UniqueKeys'  BY DEF CatalogueInv, UniqueKeys, tables
  <1>3. Grows
    <2>1. \A i \in Ids : Len(history[i]) \in Nat  BY DEF CatalogueInv, CatalogueTypes
    <2> QED  BY <2>1 DEF CatalogueInv, CatalogueTypes, Grows, tables
  <1> QED  BY <1>1, <1>2, <1>3

\* A step of r that writes nothing, or stops having written
LEMMA OthersStay ==
    ASSUME CatalogueAssumption, CatalogueInv, UNCHANGED tables, NEW r \in Requests, CatalogueTypes',
           \A q \in Requests \ {r} :
              /\ step'[q] = step[q] /\ call'[q] = call[q] /\ written'[q] = written[q]
              /\ deleted'[q] = deleted[q] /\ inserted'[q] = inserted[q]
              /\ seen'[q] = seen[q] /\ ppe'[q] = ppe[q] /\ since'[q] = since[q],
           written'[r] => written[r] /\ call'[r] = call[r],
           Writes(r)', Shows(r)'
    PROVE  CatalogueInv'
  <1>1. (\A i \in Ids : Saved(i)') /\ UniqueKeys' /\ Grows  BY TablesStay
  <1>2. \A q \in Requests : Writes(q)' /\ NewKey(q)' /\ Shows(q)'
    <2> TAKE q \in Requests
    <2>1. CASE q = r
      <3>1. NewKey(q)'  BY <2>1 DEF CatalogueInv, NewKey, tables, id, save
      <3> QED  BY <2>1, <3>1
    <2>2. CASE q # r
      <3>1. Writes(q)'  BY <2>2 DEF CatalogueInv, Writes, tables, id, save, Saving
      <3>2. NewKey(q)'  BY <2>2 DEF CatalogueInv, NewKey, tables, id, save
      <3>3. Shows(q)'  BY <2>2, <1>1, PastStays
      <3> QED  BY <3>1, <3>2, <3>3
    <2> QED  BY <2>1, <2>2
  <1>3. \A p \in Requests, q \in Requests : Locked(p, q)'
    <2> TAKE p \in Requests, q \in Requests
    <2>1. Locked(p, q)  BY DEF CatalogueInv
    <2>2. written'[p] => written[p] /\ call'[p] = call[p]  OBVIOUS
    <2>3. written'[q] => written[q] /\ call'[q] = call[q]  OBVIOUS
    <2> QED  BY <2>1, <2>2, <2>3 DEF Locked, id, save
  <1> QED  BY <1>1, <1>2, <1>3 DEF CatalogueInv

-----------------------------------------------------------------------------
LEMMA InitCatalogueInv == CatalogueAssumption /\ CatalogueInit => CatalogueInv
  <1> SUFFICES ASSUME CatalogueAssumption, CatalogueInit PROVE CatalogueInv
    OBVIOUS
  <1>1. \A i \in Ids : rows[i] \in Rows \cup {Absent}
    BY DEF CatalogueAssumption, CatalogueInit, Ids
  <1>2. \A i \in Ids : history[i] \in Seq(Contents) /\ Len(history[i]) \in {0, 1}
                      /\ (history[i] # <<>> <=> rows[i] # Absent)
                      /\ (rows[i] # Absent => history[i] = <<[row |-> rows[i], epis |-> {}]>>)
    <2> SUFFICES ASSUME NEW i \in Ids
                 PROVE  /\ history[i] \in Seq(Contents) /\ Len(history[i]) \in {0, 1}
                        /\ (history[i] # <<>> <=> rows[i] # Absent)
                        /\ (rows[i] # Absent => history[i] = <<[row |-> rows[i], epis |-> {}]>>)
      OBVIOUS
    <2>1. rows[i] # Absent => [row |-> rows[i], epis |-> {}] \in Contents
      BY <1>1 DEF Contents
    <2>2. history[i] = IF rows[i] = Absent THEN <<>>
                       ELSE <<[row |-> rows[i], epis |-> {}]>>
      BY DEF CatalogueInit
    <2>3. CASE rows[i] = Absent  BY <2>2, <2>3
    <2>4. CASE rows[i] # Absent
      <3>1. history[i] = <<[row |-> rows[i], epis |-> {}]>>  BY <2>2, <2>4
      <3> QED  BY <3>1, <2>1, <2>4
    <2> QED  BY <2>3, <2>4
  <1>3. CatalogueTypes
    <2>1. history \in [Ids -> Seq(Contents)]  BY <1>2 DEF CatalogueInit
    <2>2. rows \in [Ids -> Rows \cup {Absent}]  BY <1>1 DEF CatalogueInit
    <2> QED  BY <2>1, <2>2 DEF CatalogueInit, CatalogueTypes, Steps, Nothing
  <1>4. \A i \in Operations \cup Areas : i \in Ids /\ rows[i] = Absent
    BY DEF CatalogueInit, Ids, CatalogueAssumption
  <1>5. \A i \in Ids : Saved(i)
    <2> TAKE i \in Ids
    <2>1. CASE i \in Operations
      <3>1. rows[i] = Absent /\ history[i] = <<>>  BY <1>2, <1>4, <2>1
      <3> QED  BY <3>1, <1>2 DEF Saved
    <2>2. CASE i \notin Operations
      <3>1. rows[i] # Absent => rows[i] = history[i][Len(history[i])].row
        <4>1. rows[i] # Absent => history[i] = <<[row |-> rows[i], epis |-> {}]>>  BY <1>2
        <4>2. Len(<<[row |-> rows[i], epis |-> {}]>>) = 1  OBVIOUS
        <4> QED  BY <4>1, <4>2
      <3> QED  BY <3>1, <1>2, <2>2 DEF Saved
    <2> QED  BY <2>1, <2>2
  <1>6. UniqueKeys  BY <1>4 DEF UniqueKeys, SameKey
  <1>7. \A r \in Requests : Writes(r) /\ NewKey(r) /\ Shows(r)
    BY DEF CatalogueInit, Writes, NewKey, Shows, Saving
  <1>8. \A q \in Requests, r \in Requests : Locked(q, r)
    BY DEF CatalogueInit, Locked
  <1> QED  BY <1>3, <1>5, <1>6, <1>7, <1>8 DEF CatalogueInv

LEMMA GivingUp ==
    ASSUME CatalogueAssumption, CatalogueInv, NEW r \in Requests, GiveUp(r)
    PROVE  CatalogueInv'
  <1>1. CatalogueTypes'  BY DEF CatalogueInv, CatalogueTypes, GiveUp, GoesTo, tables, given, Steps
  <1>2. Writes(r)'  BY DEF CatalogueInv, CatalogueTypes, GiveUp, GoesTo, Writes, Saving
  <1>3. Shows(r)'  BY DEF CatalogueInv, CatalogueTypes, GiveUp, GoesTo, Shows
  <1> QED  BY <1>1, <1>2, <1>3, OthersStay DEF CatalogueInv, CatalogueTypes, GiveUp, GoesTo, given

LEMMA Checking ==
    ASSUME CatalogueAssumption, CatalogueInv, NEW r \in Requests,
           NEW at \in {"exists", "reference", "epis", "name"}, NEW condition \in BOOLEAN,
           NEW next \in {"reference", "epis", "name", "write"}, Checks(r, at, condition, next)
    PROVE  CatalogueInv'
  <1>1. CASE ~condition  BY <1>1, GivingUp DEF Checks
  <1>2. CASE condition
    <2>1. /\ step[r] = at /\ step' = [step EXCEPT ![r] = next]
          /\ UNCHANGED <<tables, call, changes, given>>
      BY <1>2 DEF Checks, GoesTo
    <2>2. CatalogueTypes'  BY <2>1 DEF CatalogueInv, CatalogueTypes, tables, changes, given, Steps
    <2>3. Writes(r)'  BY <2>1 DEF CatalogueInv, CatalogueTypes, Writes, Saving, changes, id, save
    <2>4. Shows(r)'  BY <2>1 DEF CatalogueInv, CatalogueTypes, Shows
    <2> QED  BY <2>1, <2>2, <2>3, <2>4, OthersStay DEF CatalogueInv, CatalogueTypes, changes, given
  <1> QED  BY <1>1, <1>2

LEMMA Asking ==
    ASSUME CatalogueAssumption, CatalogueInv, NEW r \in Requests, Ask(r)
    PROVE  CatalogueInv'
  <1>1. PICK c \in Calls :
          /\ Valid(c)
          /\ call' = [call EXCEPT ![r] = c]
          /\ \/ c.kind = "create" /\ GoesTo(r, "reference")
             \/ c.kind = "update" /\ GoesTo(r, "exists")
             \/ c.kind = "list" /\ GoesTo(r, "rows")
    BY DEF Ask
  <1>3. \E s \in {"reference", "exists", "rows"} :
          step' = [step EXCEPT ![r] = s] /\ (s = "rows" <=> c.kind = "list")
    BY <1>1 DEF GoesTo
  <1>4. CatalogueTypes'
    <2>1. Nothing \in [Ids -> Rows \cup {Absent}]  BY DEF Nothing
    <2> QED  BY <1>1, <1>3, <2>1 DEF CatalogueInv, CatalogueTypes, Ask, tables, changes, Steps
  <1>5. ~written[r] /\ ~written'[r]
    BY DEF CatalogueInv, CatalogueTypes, Ask, changes, Writes
  <1>6. Writes(r)'  BY <1>1, <1>3, <1>5 DEF CatalogueInv, CatalogueTypes, Writes, Saving, Valid
  <1>7. Shows(r)'  BY <1>1, <1>3 DEF CatalogueInv, CatalogueTypes, Shows
  <1>8. UNCHANGED tables  BY DEF Ask
  <1>9. \A q \in Requests \ {r} :
              /\ step'[q] = step[q] /\ call'[q] = call[q] /\ written'[q] = written[q]
              /\ deleted'[q] = deleted[q] /\ inserted'[q] = inserted[q]
              /\ seen'[q] = seen[q] /\ ppe'[q] = ppe[q] /\ since'[q] = since[q]
    BY <1>1, <1>3 DEF CatalogueInv, CatalogueTypes, Ask, changes
  <1> QED  BY <1>4, <1>5, <1>6, <1>7, <1>8, <1>9, OthersStay

LEMMA Replacing ==
    ASSUME CatalogueAssumption, CatalogueInv, NEW r \in Requests, ReplaceEpis(r)
    PROVE  CatalogueInv'
  <1>1. /\ step[r] = "replace" /\ step' = [step EXCEPT ![r] = "commit"]
        /\ deleted' = [deleted EXCEPT ![r] = epis[id(r)]]
        /\ inserted' = [inserted EXCEPT ![r] = save(r).epis]
        /\ UNCHANGED <<tables, call, written, given>>
    BY DEF ReplaceEpis, GoesTo
  <1>2. Writes(r)  BY DEF CatalogueInv
  <1>3. call[r] \in Calls /\ Valid(call[r]) /\ written[r]  BY <1>1, <1>2 DEF Writes
  <1>4. save(r).epis \in SUBSET Epis /\ (id(r) \in Operations => epis[id(r)] \in SUBSET Epis)
    BY <1>3 DEF Calls, Contents, save, CatalogueInv, CatalogueTypes
  <1>5. id(r) \in Operations  BY <1>1, <1>2 DEF Writes
  <1>6. CatalogueTypes'  BY <1>1, <1>4, <1>5 DEF CatalogueInv, CatalogueTypes, tables, given, Steps
  <1>7. Writes(r)'  BY <1>1, <1>3, <1>5 DEF CatalogueInv, CatalogueTypes, Writes, Saving, tables, id, save
  <1>8. Shows(r)'  BY <1>1 DEF CatalogueInv, CatalogueTypes, Shows
  <1> QED  BY <1>1, <1>3, <1>6, <1>7, <1>8, OthersStay DEF CatalogueInv, CatalogueTypes, given

\* The rows of an answer are what their last saves left.
LEMMA ReadingRows ==
    ASSUME CatalogueAssumption, CatalogueInv, NEW r \in Requests, ReadRows(r)
    PROVE  CatalogueInv'
  <1>1. /\ step[r] = "rows"
        /\ seen' = [seen EXCEPT ![r] = [i \in Ids |-> IF i \in About(r) THEN rows[i] ELSE Absent]]
        /\ \E s \in {"ppe", "answered"} :
              /\ step' = [step EXCEPT ![r] = s]
              /\ s = "answered" => call[r].kind # "list" /\ id(r) \notin Operations
        /\ UNCHANGED <<tables, call, changes, ppe, since>>
    BY DEF ReadRows, GoesTo
  <1>2. CatalogueTypes'
    BY <1>1 DEF CatalogueInv, CatalogueTypes, tables, changes, Steps
  <1>3. call[r] \in Calls /\ Valid(call[r]) /\ ~written[r]
    BY <1>1 DEF CatalogueInv, Writes
  <1>4. Writes(r)'  BY <1>1, <1>3 DEF CatalogueInv, CatalogueTypes, Writes, Saving, changes
  <1>5. ASSUME NEW i \in Ids, seen'[r][i] # Absent
        PROVE  /\ i \in About(r) /\ seen'[r][i] = rows[i]
               /\ Len(history[i]) \in 1 .. Len(history[i])
               /\ seen'[r][i] = history[i][Len(history[i])].row
    <2>1. i \in About(r) /\ seen'[r][i] = rows[i]
      BY <1>1, <1>5 DEF CatalogueInv, CatalogueTypes
    <2>2. Saved(i) /\ rows[i] # Absent /\ history[i] \in Seq(Contents)
      BY <2>1, <1>5 DEF CatalogueInv, CatalogueTypes
    <2>3. history[i] # <<>>  BY <2>2 DEF Saved
    <2> QED  BY <2>1, <2>2, <2>3 DEF Saved
  <1>6. call[r].kind # "list" => since[r] <= Len(history[id(r)]) /\ history[id(r)] # <<>>
    BY <1>1 DEF CatalogueInv, Shows
  <1>7. call[r].kind # "list" => About(r) = {id(r)}  BY DEF About
  <1>8. step'[r] = "answered" => \A i \in Ids : seen'[r][i] # Absent => i \notin Operations
    BY <1>1, <1>5, <1>7 DEF CatalogueInv, CatalogueTypes
  <1>9. Shows(r)'
    <2>1. UNCHANGED <<history, call, since>>  BY <1>1 DEF tables
    <2>2. ASSUME NEW i \in Ids, seen'[r][i] # Absent
          PROVE  /\ Len(history[i]) \in 1 .. Len(history[i])
                 /\ call[r].kind # "list" => since[r] <= Len(history[i])
                 /\ seen'[r][i] = history[i][Len(history[i])].row
                 /\ step'[r] = "answered" => i \notin Operations
      BY <2>2, <1>5, <1>6, <1>7, <1>8
    <2> QED  BY <2>1, <2>2, <1>6 DEF Shows, id
  <1> QED  BY <1>1, <1>2, <1>3, <1>4, <1>9, OthersStay DEF CatalogueInv, CatalogueTypes, changes

LEMMA ReadingPpe ==
    ASSUME CatalogueAssumption, CatalogueInv, NEW r \in Requests, ReadPpe(r)
    PROVE  CatalogueInv'
  <1>1. /\ step[r] = "ppe" /\ step' = [step EXCEPT ![r] = "answered"]
        /\ ppe' = [ppe EXCEPT ![r] = epis]
        /\ UNCHANGED <<tables, call, changes, seen, since>>
    BY DEF ReadPpe, GoesTo
  <1>2. CatalogueTypes'  BY <1>1 DEF CatalogueInv, CatalogueTypes, tables, changes, Steps
  <1>3. Writes(r)'  BY <1>1 DEF CatalogueInv, CatalogueTypes, Writes, Saving, changes
  <1>4. ASSUME NEW i \in Ids, seen[r][i] # Absent
        PROVE  \E m \in 1 .. Len(history[i]) :
                  /\ call[r].kind # "list" => since[r] <= m
                  /\ seen[r][i] = history[i][m].row
                  /\ i \in Operations =>
                        \E n \in m .. Len(history[i]) : epis[i] = history[i][n].epis
    <2>1. PICK m \in 1 .. Len(history[i]) :
             /\ call[r].kind # "list" => since[r] <= m
             /\ seen[r][i] = history[i][m].row
      BY <1>1, <1>4 DEF CatalogueInv, Shows
    <2>2. Saved(i) /\ history[i] \in Seq(Contents)  BY DEF CatalogueInv, CatalogueTypes
    <2>3. history[i] # <<>> /\ Len(history[i]) \in m .. Len(history[i])  BY <2>2
    <2>4. i \in Operations => epis[i] = history[i][Len(history[i])].epis
      BY <2>2, <2>3 DEF Saved
    <2> QED  BY <2>1, <2>3, <2>4
  <1>5. call[r].kind # "list" => since[r] <= Len(history[id(r)]) /\ history[id(r)] # <<>>
    BY <1>1 DEF CatalogueInv, Shows
  <1>6. Shows(r)'
    <2>1. UNCHANGED <<history, call, since, seen>> /\ ppe'[r] = epis /\ step'[r] = "answered"
      BY <1>1 DEF tables, CatalogueInv, CatalogueTypes
    <2> QED  BY <2>1, <1>4, <1>5 DEF Shows, id
  <1> QED  BY <1>1, <1>2, <1>3, <1>6, OthersStay DEF CatalogueInv, CatalogueTypes, changes

-----------------------------------------------------------------------------
\* What a transaction writes is its own: nobody else holds the row or the key.
LEMMA Writing ==
    ASSUME CatalogueAssumption, CatalogueInv, NEW r \in Requests, Write(r)
    PROVE  CatalogueInv'
  <1> DEFINE Taken == \E j \in Ids : rows[j] # Absent /\ SameKey(id(r), save(r).row, j, rows[j])
  <1>1. CASE Taken  BY <1>1, GivingUp DEF Write
  <1>2. CASE ~Taken
    <2>1. /\ step[r] = "write"
          /\ \A q \in Requests \ {r} : ~Blocks(q, r)
          /\ written' = [written EXCEPT ![r] = TRUE]
          /\ \/ step' = [step EXCEPT ![r] = "replace"] /\ id(r) \in Operations
             \/ step' = [step EXCEPT ![r] = "commit"] /\ id(r) \notin Operations
          /\ UNCHANGED <<tables, call, deleted, inserted, given>>
      BY <1>2 DEF Write, GoesTo
    <2>2. CatalogueTypes'  BY <2>1 DEF CatalogueInv, CatalogueTypes, tables, given, Steps
    <2>3. (\A i \in Ids : Saved(i)') /\ UniqueKeys' /\ Grows  BY <2>1, TablesStay
    <2>4. \A q \in Requests : Writes(q)' /\ NewKey(q)' /\ Shows(q)'
      <3> TAKE q \in Requests
      <3>1. Writes(q)'  BY <2>1 DEF CatalogueInv, CatalogueTypes, Writes, Saving, tables, id, save
      <3>2. NewKey(q)'
        <4>1. CASE q = r  BY <4>1, <1>2, <2>1 DEF NewKey, tables, id, save
        <4>2. CASE q # r  BY <4>2, <2>1 DEF CatalogueInv, CatalogueTypes, NewKey, tables, id, save
        <4> QED  BY <4>1, <4>2
      <3>3. Shows(q)'
        <4>1. CASE q = r  BY <4>1, <2>1 DEF CatalogueInv, CatalogueTypes, Shows
        <4>2. CASE q # r
          <5>1. step'[q] = step[q] /\ call'[q] = call[q] /\ seen'[q] = seen[q]
                /\ ppe'[q] = ppe[q] /\ since'[q] = since[q]
            BY <4>2, <2>1 DEF CatalogueInv, CatalogueTypes, given
          <5> QED  BY <5>1, <2>3, PastStays
        <4> QED  BY <4>1, <4>2
      <3> QED  BY <3>1, <3>2, <3>3
    <2>5. \A p \in Requests, q \in Requests : Locked(p, q)'
      <3> TAKE p \in Requests, q \in Requests
      <3>1. CASE p # r /\ q # r  BY <3>1, <2>1 DEF CatalogueInv, CatalogueTypes, Locked, id, save
      <3>2. CASE p = q  BY <3>2 DEF Locked
      <3>3. CASE p = r /\ q # r
        <4>1. ~Blocks(q, r)  BY <3>3, <2>1
        <4>2. written'[q] = written[q]  BY <3>3, <2>1 DEF CatalogueInv, CatalogueTypes
        <4> QED  BY <3>3, <4>1, <4>2, <2>1 DEF Locked, Blocks, id, save
      <3>4. CASE q = r /\ p # r
        <4>1. ~Blocks(p, r)  BY <3>4, <2>1
        <4>2. written'[p] = written[p]  BY <3>4, <2>1 DEF CatalogueInv, CatalogueTypes
        <4>3. SameKey(id(p), save(p).row, id(r), save(r).row)
              <=> SameKey(id(r), save(r).row, id(p), save(p).row)
          BY DEF SameKey
        <4> QED  BY <3>4, <4>1, <4>2, <4>3, <2>1 DEF Locked, Blocks, id, save
      <3> QED  BY <3>1, <3>2, <3>3, <3>4
    <2> QED  BY <2>2, <2>3, <2>4, <2>5 DEF CatalogueInv
  <1> QED  BY <1>1, <1>2

\* History grows when one more content is appended to that of one row.
LEMMA OneMore ==
    ASSUME CatalogueTypes, NEW i \in Ids, NEW content \in Contents,
           history' = [history EXCEPT ![i] = Append(@, content)]
    PROVE  /\ Grows
           /\ history'[i] # <<>> /\ Len(history'[i]) = Len(history[i]) + 1
           /\ history'[i][Len(history'[i])] = content
           /\ \A n \in 1 .. Len(history[i]) : history'[i][n] = history[i][n]
           /\ \A j \in Ids \ {i} : history'[j] = history[j]
  <1>1. history[i] \in Seq(Contents)  BY DEF CatalogueTypes
  <1>2. /\ Append(history[i], content) \in Seq(Contents)
        /\ Len(Append(history[i], content)) = Len(history[i]) + 1
        /\ Append(history[i], content) # <<>>
        /\ Append(history[i], content)[Len(history[i]) + 1] = content
        /\ \A n \in 1 .. Len(history[i]) : Append(history[i], content)[n] = history[i][n]
    BY <1>1, AppendedSequence
  <1>3. history'[i] = Append(history[i], content) /\ \A j \in Ids \ {i} : history'[j] = history[j]
    BY DEF CatalogueTypes
  <1>4. history' \in [Ids -> Seq(Contents)]  BY <1>2 DEF CatalogueTypes
  <1>5. \A j \in Ids : Len(history[j]) \in Nat  BY DEF CatalogueTypes
  <1>6. Grows
    <2>1. ASSUME NEW j \in Ids
          PROVE  /\ Len(history[j]) <= Len(history'[j])
                 /\ \A n \in 1 .. Len(history[j]) : history'[j][n] = history[j][n]
      <3>1. CASE j = i  BY <3>1, <1>2, <1>3, <1>5
      <3>2. CASE j # i  BY <3>2, <1>3, <1>5
      <3> QED  BY <3>1, <3>2
    <2> QED  BY <1>4, <2>1 DEF Grows
  <1> QED  BY <1>2, <1>3, <1>6

\* The row, the PPE and the name that are committed together are of one payload,
\* because the row's lock was held since before the PPE were read.
LEMMA Committing ==
    ASSUME CatalogueAssumption, CatalogueInv, NEW r \in Requests, Commit(r)
    PROVE  CatalogueInv'
  <1> DEFINE i == id(r)
  <1>1. /\ step[r] = "commit" /\ step' = [step EXCEPT ![r] = "rows"]
        /\ rows' = [rows EXCEPT ![i] = save(r).row]
        /\ epis' = IF i \in Operations
                   THEN [epis EXCEPT ![i] = (@ \ deleted[r]) \cup inserted[r]] ELSE epis
        /\ history' = [history EXCEPT ![i] = Append(@, save(r))]
        /\ written' = [written EXCEPT ![r] = FALSE]
        /\ deleted' = [deleted EXCEPT ![r] = {}]
        /\ inserted' = [inserted EXCEPT ![r] = {}]
        /\ since' = [since EXCEPT ![r] = Len(history[i]) + 1]
        /\ UNCHANGED <<activeEpis, call, seen, ppe>>
    BY DEF Commit, GoesTo
  <1>2. /\ call[r] \in Calls /\ Valid(call[r]) /\ written[r] /\ call[r].kind # "list"
        /\ i \in Operations => deleted[r] = epis[i] /\ inserted[r] = save(r).epis
    BY <1>1 DEF CatalogueInv, Writes, Saving
  <1>3. /\ i \in Ids /\ save(r) \in Contents /\ save(r).row \in Rows /\ save(r).row # Absent
        /\ save(r).epis \in SUBSET Epis /\ (i \in Operations => save(r).epis # {})
    BY <1>2 DEF Calls, Contents, id, save, Valid, CatalogueAssumption
  <1>4. /\ Grows /\ history'[i] # <<>> /\ Len(history'[i]) = Len(history[i]) + 1
        /\ history'[i][Len(history'[i])] = save(r)
        /\ \A n \in 1 .. Len(history[i]) : history'[i][n] = history[i][n]
        /\ \A j \in Ids \ {i} : history'[j] = history[j]
    BY <1>1, <1>3, OneMore DEF CatalogueInv
  <1>5. \A j \in Ids : Len(history[j]) \in Nat  BY DEF CatalogueInv, CatalogueTypes
  <1>6. rows'[i] = save(r).row /\ \A j \in Ids \ {i} : rows'[j] = rows[j]
    BY <1>1, <1>3 DEF CatalogueInv, CatalogueTypes
  <1>7. /\ i \in Operations => epis'[i] = save(r).epis
        /\ \A j \in Operations \ {i} : epis'[j] = epis[j]
    BY <1>1, <1>2 DEF CatalogueInv, CatalogueTypes
  <1>8. CatalogueTypes'
    <2>1. epis' \in [Operations -> SUBSET Epis]  BY <1>1, <1>2, <1>3 DEF CatalogueInv, CatalogueTypes
    <2>2. history' \in [Ids -> Seq(Contents)]  BY <1>4 DEF Grows
    <2>3. rows' \in [Ids -> Rows \cup {Absent}]  BY <1>1, <1>3 DEF CatalogueInv, CatalogueTypes
    <2>4. since' \in [Requests -> Nat]  BY <1>1, <1>3, <1>5 DEF CatalogueInv, CatalogueTypes
    <2> QED  BY <1>1, <2>1, <2>2, <2>3, <2>4 DEF CatalogueInv, CatalogueTypes, Steps
  <1>9. \A j \in Ids : Saved(j)'
    <2> TAKE j \in Ids
    <2>1. CASE j = i
      <3>1. j \in Operations => \A n \in 1 .. Len(history'[j]) : history'[j][n].epis # {}
        <4> SUFFICES ASSUME j \in Operations, NEW n \in 1 .. Len(history'[j])
                     PROVE  history'[j][n].epis # {}
          OBVIOUS
        <4>1. CASE n = Len(history'[j])  BY <4>1, <2>1, <1>3, <1>4
        <4>2. CASE n # Len(history'[j])
          <5>1. n \in 1 .. Len(history[j])  BY <4>2, <2>1, <1>3, <1>4, <1>5
          <5> QED  BY <5>1, <2>1, <1>4 DEF CatalogueInv, Saved
        <4> QED  BY <4>1, <4>2
      <3> QED  BY <2>1, <3>1, <1>3, <1>4, <1>6, <1>7 DEF Saved
    <2>2. CASE j # i
      <3>1. rows'[j] = rows[j] /\ history'[j] = history[j] /\ (j \in Operations => epis'[j] = epis[j])
        BY <2>2, <1>4, <1>6, <1>7
      <3> QED  BY <3>1 DEF CatalogueInv, Saved
    <2> QED  BY <2>1, <2>2
  <1>10. UniqueKeys'
    <2> SUFFICES ASSUME NEW j \in Ids, NEW k \in Ids, rows'[j] # Absent, rows'[k] # Absent
                 PROVE  ~SameKey(j, rows'[j], k, rows'[k])
      BY DEF UniqueKeys, SameKey
    <2>1. NewKey(r)  BY DEF CatalogueInv
    <2>2. CASE j # i /\ k # i  BY <2>2, <1>6 DEF CatalogueInv, UniqueKeys
    <2>3. CASE j = k  BY <2>3 DEF SameKey
    <2>4. CASE j = i /\ k # i  BY <2>1, <2>4, <1>2, <1>6 DEF NewKey
    <2>5. CASE j # i /\ k = i
      <3>1. ~SameKey(k, rows'[k], j, rows'[j])  BY <2>1, <2>5, <1>2, <1>6 DEF NewKey
      <3> QED  BY <3>1 DEF SameKey
    <2> QED  BY <2>2, <2>3, <2>4, <2>5
  <1>11. \A q \in Requests : Writes(q)' /\ NewKey(q)' /\ Shows(q)'
    <2> TAKE q \in Requests
    <2>1. CASE q = r
      <3>1. step'[r] = "rows" /\ ~written'[r] /\ since'[r] = Len(history'[i])
        BY <1>1, <1>4 DEF CatalogueInv, CatalogueTypes
      <3>2. UNCHANGED call /\ Len(history'[i]) \in Nat  BY <1>1, <1>3, <1>4, <1>5
      <3>3. Writes(r)'  BY <3>1, <3>2, <1>2 DEF Writes, Saving
      <3>4. NewKey(r)'  BY <3>1 DEF NewKey
      <3>5. Shows(r)'  BY <3>1, <3>2, <1>4 DEF Shows, id
      <3> QED  BY <2>1, <3>3, <3>4, <3>5
    <2>2. CASE q # r
      <3>1. /\ step'[q] = step[q] /\ call'[q] = call[q] /\ written'[q] = written[q]
            /\ deleted'[q] = deleted[q] /\ inserted'[q] = inserted[q]
            /\ seen'[q] = seen[q] /\ ppe'[q] = ppe[q] /\ since'[q] = since[q]
        BY <2>2, <1>1 DEF CatalogueInv, CatalogueTypes
      <3>2. written[q] => id(q) # i /\ ~SameKey(id(q), save(q).row, i, save(r).row)
        BY <2>2, <1>2 DEF CatalogueInv, Locked
      <3>3. Writes(q)'
        <4>1. step[q] = "commit" /\ id(q) \in Operations => epis'[id(q)] = epis[id(q)]
          BY <3>2, <1>7 DEF CatalogueInv, Writes
        <4> QED  BY <3>1, <4>1 DEF CatalogueInv, Writes, Saving, id, save
      <3>4. NewKey(q)'
        <4> SUFFICES ASSUME written[q], NEW j \in Ids, rows'[j] # Absent
                     PROVE  ~SameKey(id(q), save(q).row, j, rows'[j])
          BY <3>1 DEF NewKey, id, save
        <4>1. CASE j = i  BY <4>1, <3>2, <1>6
        <4>2. CASE j # i  BY <4>2, <1>6 DEF CatalogueInv, NewKey
        <4> QED  BY <4>1, <4>2
      <3>5. Shows(q)'  BY <3>1, <1>4, PastStays
      <3> QED  BY <3>3, <3>4, <3>5
    <2> QED  BY <2>1, <2>2
  <1>12. \A p \in Requests, q \in Requests : Locked(p, q)'
    BY <1>1 DEF CatalogueInv, CatalogueTypes, Locked, id, save
  <1> QED  BY <1>8, <1>9, <1>10, <1>11, <1>12 DEF CatalogueInv

LEMMA Editing ==
    ASSUME CatalogueAssumption, CatalogueInv, EditCatalogue
    PROVE  CatalogueInv'
  <1>1. UNCHANGED <<epis, step, call, changes, given>>  BY DEF EditCatalogue
  <1>2. CASE UNCHANGED <<rows, history>>
    <2>1. CatalogueTypes'  BY <1>1, <1>2 DEF CatalogueInv, CatalogueTypes, changes, given
    <2>2. (\A i \in Ids : Saved(i)') /\ UniqueKeys'
      BY <1>1, <1>2 DEF CatalogueInv, Saved, UniqueKeys
    <2>3. \A q \in Requests : Writes(q)' /\ NewKey(q)' /\ Shows(q)'
      BY <1>1, <1>2 DEF CatalogueInv, Writes, NewKey, Shows, Saving, id, save, changes, given
    <2>4. \A p \in Requests, q \in Requests : Locked(p, q)'
      BY <1>1 DEF CatalogueInv, Locked, id, save, changes
    <2> QED  BY <2>1, <2>2, <2>3, <2>4 DEF CatalogueInv
  <1>3. ASSUME NEW i \in Sectors \cup Cameras, NEW on \in BOOLEAN, rows[i] # Absent,
               rows' = [rows EXCEPT ![i].active = on],
               history' = [history EXCEPT ![i] = Append(@, [row |-> rows'[i], epis |-> {}])]
        PROVE  CatalogueInv'
    <2>1. i \in Ids /\ i \notin Areas /\ i \notin Operations
      BY DEF Ids, CatalogueAssumption
    <2>2. rows[i] \in Rows  BY <1>3, <2>1 DEF CatalogueInv, CatalogueTypes
    <2>3. /\ rows'[i] = [rows[i] EXCEPT !.active = on]
          /\ \A j \in Ids \ {i} : rows'[j] = rows[j]
      BY <1>3, <2>1 DEF CatalogueInv, CatalogueTypes
    <2>4. rows'[i] \in Rows /\ rows'[i] # Absent
      BY <2>2, <2>3 DEF Rows, CatalogueAssumption
    <2>5. [row |-> rows'[i], epis |-> {}] \in Contents  BY <2>4 DEF Contents
    <2>6. /\ Grows /\ history'[i] # <<>>
          /\ history'[i][Len(history'[i])] = [row |-> rows'[i], epis |-> {}]
          /\ \A j \in Ids \ {i} : history'[j] = history[j]
      BY <1>3, <2>1, <2>5, OneMore DEF CatalogueInv
    <2>7. CatalogueTypes'
      <3>1. history' \in [Ids -> Seq(Contents)]  BY <2>6 DEF Grows
      <3>2. rows' \in [Ids -> Rows \cup {Absent}]
        BY <1>3, <2>1, <2>3, <2>4 DEF CatalogueInv, CatalogueTypes
      <3> QED  BY <1>1, <3>1, <3>2 DEF CatalogueInv, CatalogueTypes, changes, given
    <2>8. \A j \in Ids : Saved(j)'
      <3> TAKE j \in Ids
      <3>1. CASE j = i  BY <3>1, <2>1, <2>4, <2>6 DEF Saved
      <3>2. CASE j # i
        <4>1. rows'[j] = rows[j] /\ history'[j] = history[j] /\ epis' = epis
          BY <3>2, <2>3, <2>6, <1>1
        <4> QED  BY <4>1 DEF CatalogueInv, Saved
      <3> QED  BY <3>1, <3>2
    <2>9. UniqueKeys'
      <3> SUFFICES ASSUME NEW j \in Ids, NEW k \in Ids, rows'[j] # Absent, rows'[k] # Absent
                   PROVE  ~SameKey(j, rows'[j], k, rows'[k])
        BY DEF UniqueKeys, SameKey
      <3>1. CASE j # i /\ k # i  BY <3>1, <2>3 DEF CatalogueInv, UniqueKeys
      <3>2. CASE j = i \/ k = i  BY <3>2, <2>1 DEF SameKey
      <3> QED  BY <3>1, <3>2
    <2>10. \A q \in Requests : Writes(q)' /\ NewKey(q)' /\ Shows(q)'
      <3> TAKE q \in Requests
      <3>1. Writes(q)'  BY <1>1 DEF CatalogueInv, Writes, Saving, id, save, changes
      <3>2. NewKey(q)'
        <4> SUFFICES ASSUME written[q], NEW j \in Ids, rows'[j] # Absent
                     PROVE  ~SameKey(id(q), save(q).row, j, rows'[j])
          BY <1>1 DEF NewKey, id, save, changes
        <4>1. CASE j = i  BY <4>1, <2>1 DEF SameKey
        <4>2. CASE j # i  BY <4>2, <2>3 DEF CatalogueInv, NewKey
        <4> QED  BY <4>1, <4>2
      <3>3. Shows(q)'  BY <1>1, <2>6, PastStays DEF changes, given
      <3> QED  BY <3>1, <3>2, <3>3
    <2>11. \A p \in Requests, q \in Requests : Locked(p, q)'
      BY <1>1 DEF CatalogueInv, Locked, id, save, changes
    <2> QED  BY <2>7, <2>8, <2>9, <2>10, <2>11 DEF CatalogueInv
  <1> QED  BY <1>2, <1>3 DEF EditCatalogue

LEMMA StepCatalogueInv == CatalogueAssumption /\ CatalogueInv /\ [CatalogueNext]_catalogueVars => CatalogueInv'
  <1> SUFFICES ASSUME CatalogueAssumption, CatalogueInv, [CatalogueNext]_catalogueVars PROVE CatalogueInv'
    OBVIOUS
  <1>1. CASE EditCatalogue  BY <1>1, Editing
  <1>2. ASSUME NEW r \in Requests, RequestStep(r) PROVE CatalogueInv'
    <2>1. CASE Ask(r)  BY <2>1, Asking
    <2>2. CASE Fails(r)  BY <2>2, GivingUp DEF Fails
    <2>3. CASE CheckExists(r)  BY <2>3, Checking DEF CheckExists
    <2>4. CASE CheckReference(r)
      <3> DEFINE ref == rows[save(r).row.ref]
                 next == IF id(r) \in Operations THEN "epis" ELSE "name"
      <3>1. step[r] = "reference"  BY <2>4 DEF CheckReference, Checks
      <3>2. CASE ref # Absent /\ ref.active
        <4>1. Checks(r, "reference", TRUE, next)  BY <2>4, <3>2 DEF CheckReference, Checks
        <4> QED  BY <4>1, Checking
      <3>3. CASE ~(ref # Absent /\ ref.active)  BY <2>4, <3>3, GivingUp DEF CheckReference, Checks
      <3> QED  BY <3>2, <3>3
    <2>5. CASE CheckEpis(r)  BY <2>5, Checking DEF CheckEpis
    <2>6. CASE CheckName(r)  BY <2>6, Checking DEF CheckName
    <2>7. CASE Write(r)  BY <2>7, Writing
    <2>8. CASE ReplaceEpis(r)  BY <2>8, Replacing
    <2>9. CASE Commit(r)  BY <2>9, Committing
    <2>10. CASE ReadRows(r)  BY <2>10, ReadingRows
    <2>11. CASE ReadPpe(r)  BY <2>11, ReadingPpe
    <2> QED  BY <1>2, <2>1, <2>2, <2>3, <2>4, <2>5, <2>6, <2>7, <2>8, <2>9, <2>10, <2>11
             DEF RequestStep
  <1>3. CASE UNCHANGED catalogueVars
    <2>1. UNCHANGED <<tables, step, call, changes, given, rows, epis, history>>
      BY <1>3 DEF catalogueVars, tables
    <2>2. CatalogueTypes'  BY <2>1 DEF CatalogueInv, CatalogueTypes, changes, given
    <2>3. (\A i \in Ids : Saved(i)') /\ UniqueKeys'  BY <2>1, TablesStay
    <2>4. \A q \in Requests : Writes(q)' /\ NewKey(q)' /\ Shows(q)'
      BY <2>1 DEF CatalogueInv, Writes, NewKey, Shows, Saving, id, save, changes, given
    <2>5. \A p \in Requests, q \in Requests : Locked(p, q)'
      BY <2>1 DEF CatalogueInv, Locked, id, save, changes
    <2> QED  BY <2>2, <2>3, <2>4, <2>5 DEF CatalogueInv
  <1> QED  BY <1>1, <1>2, <1>3 DEF CatalogueNext

-----------------------------------------------------------------------------
\* What is committed of an operation, of a risk area or of a camera is always
\* one payload as it was sent, in spite of overlapping updates: update_operation
\* takes the row's lock before it replaces the PPE.
THEOREM SavesAreNotMixed == CatalogueAssumption /\ CatalogueSpec => []EveryRowIsOneSave
  <1> SUFFICES ASSUME CatalogueAssumption PROVE CatalogueSpec => []EveryRowIsOneSave
    OBVIOUS
  <1>1. CatalogueInv => EveryRowIsOneSave  BY DEF CatalogueInv, Saved, EveryRowIsOneSave
  <1>2. CatalogueSpec => []CatalogueInv  BY InitCatalogueInv, StepCatalogueInv, PTL DEF CatalogueSpec
  <1> QED  BY <1>1, <1>2, PTL

\* Two operations, or two areas of one camera, never have the same name, although
\* the name is checked by an earlier statement than the one that takes it.
THEOREM NamesAreUnique == CatalogueAssumption /\ CatalogueSpec => []UniqueKeys
  <1> SUFFICES ASSUME CatalogueAssumption PROVE CatalogueSpec => []UniqueKeys
    OBVIOUS
  <1>1. CatalogueInv => UniqueKeys  BY DEF CatalogueInv
  <1>2. CatalogueSpec => []CatalogueInv  BY InitCatalogueInv, StepCatalogueInv, PTL DEF CatalogueSpec
  <1> QED  BY <1>1, <1>2, PTL

\* An answer, read in one or two statements after the commit, shows saves that
\* were made, in their order, and never less than the save it confirms.
THEOREM AnswersAreInOrder == CatalogueAssumption /\ CatalogueSpec => []AnswersNeverGoBack
  <1> SUFFICES ASSUME CatalogueAssumption PROVE CatalogueSpec => []AnswersNeverGoBack
    OBVIOUS
  <1>1. CatalogueInv => AnswersNeverGoBack
    <2> SUFFICES ASSUME CatalogueInv, NEW r \in Requests, NEW i \in Ids, Answered(r, i)
                 PROVE  \E m, n \in 1 .. Len(history[i]) :
                          /\ m <= n
                          /\ call[r].kind # "list" => since[r] <= m
                          /\ seen[r][i] = history[i][m].row
                          /\ i \in Operations => ppe[r][i] = history[i][n].epis
      BY DEF AnswersNeverGoBack
    <2>1. PICK m \in 1 .. Len(history[i]) :
             /\ call[r].kind # "list" => since[r] <= m
             /\ seen[r][i] = history[i][m].row
             /\ i \in Operations =>
                   \E n \in m .. Len(history[i]) : ppe[r][i] = history[i][n].epis
      BY DEF CatalogueInv, Shows, Answered
    <2>2. Len(history[i]) \in Nat  BY DEF CatalogueInv, CatalogueTypes
    <2>3. CASE i \in Operations
      <3>1. PICK n \in m .. Len(history[i]) : ppe[r][i] = history[i][n].epis  BY <2>1, <2>3
      <3>2. n \in 1 .. Len(history[i]) /\ m <= n  BY <2>2
      <3> QED  BY <2>1, <3>1, <3>2
    <2>4. CASE i \notin Operations  BY <2>1, <2>4
    <2> QED  BY <2>3, <2>4
  <1>2. CatalogueSpec => []CatalogueInv  BY InitCatalogueInv, StepCatalogueInv, PTL DEF CatalogueSpec
  <1> QED  BY <1>1, <1>2, PTL

\* As long as nobody saves an operation with two PPE of one detection class, the
\* operator's client accepts every list: reading it in two statements while it
\* is being edited neither loses the PPE of an operation nor mixes them.
THEOREM ListsStayAcceptable == CatalogueAssumption /\ CatalogueSpec => []ListsAreAccepted
  <1> SUFFICES ASSUME CatalogueAssumption PROVE CatalogueSpec => []ListsAreAccepted
    OBVIOUS
  <1>1. CatalogueInv => ListsAreAccepted
    <2> SUFFICES ASSUME CatalogueInv, NEW r \in Requests,
                        \A i \in Operations : \A n \in 1 .. Len(history[i]) : Distinct(history[i][n].epis),
                        NEW i \in Operations, Answered(r, i)
                 PROVE  ppe[r][i] # {} /\ Distinct(ppe[r][i])
      BY DEF ListsAreAccepted
    <2>1. i \in Ids  BY DEF Ids
    <2>2. PICK m \in 1 .. Len(history[i]) :
             \E n \in m .. Len(history[i]) : ppe[r][i] = history[i][n].epis
      BY <2>1 DEF CatalogueInv, Shows, Answered
    <2>3. PICK n \in m .. Len(history[i]) : ppe[r][i] = history[i][n].epis  BY <2>2
    <2>4. Len(history[i]) \in Nat  BY <2>1 DEF CatalogueInv, CatalogueTypes
    <2>5. n \in 1 .. Len(history[i])  BY <2>4
    <2>6. history[i][n].epis # {}  BY <2>1, <2>5 DEF CatalogueInv, Saved
    <2> QED  BY <2>3, <2>5, <2>6
  <1>2. CatalogueSpec => []CatalogueInv  BY InitCatalogueInv, StepCatalogueInv, PTL DEF CatalogueSpec
  <1> QED  BY <1>1, <1>2, PTL
===============================================================================
