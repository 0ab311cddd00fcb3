---------------------------- MODULE AdminStation ----------------------------
(***************************************************************************)
(* The administrator's desktop: the cycle login, dashboard, logout         *)
(* (ApplicationController) with the controllers of the login, of the       *)
(* dashboard, of the operations page and of the realtime connection        *)
(* (2identify_admin/app/controllers).  Every action is a step of a request *)
(* thread, of the peer of the WebSocket, or one handler of the UI thread.  *)
(*                                                                         *)
(* A return to the login waits a bounded time for each request thread; the *)
(* ones that are late keep it pending, and the controllers resume it when  *)
(* theirs has finished.                                                    *)
(***************************************************************************)
EXTENDS AdminWorkers, RealtimeChannel, Naturals

CONSTANT MaxThreads     \* threads that the session's controllers hold at a time

ASSUME MaxThreadsAssumption == MaxThreads \in Nat \ {0}

VARIABLES
    shown,              \* the window in front
    session,            \* of AdminSessionContext; "expired" is current() = None
    pendingReturn,      \* _pending_login_message is set, the window disabled
    requested,          \* controllers whose _shutdown_requested is set
    loadTimers,         \* the zero timers of the first load and of a missed refresh
    refreshPending,     \* _refresh_pending of the dashboard
    pageReady,          \* the buttons of the operations page are enabled
    editor              \* RiskAreaEditorDialog, in an event loop of its own

pageVars == <<loadTimers, refreshPending, pageReady, editor>>
returnVars == <<shown, session, pendingReturn, requested>>
vars == <<workerVars, channelVars, pageVars, returnVars>>

Init ==
    /\ WorkersInit /\ ChannelInit
    /\ shown = "login" /\ session = "none"
    /\ pendingReturn = FALSE /\ requested = {}
    /\ loadTimers = {} /\ refreshPending = FALSE
    /\ pageReady = FALSE /\ editor = "closed"

RunningOf(phases, owned) == {w \in owned : IsRunning(phases, w)}

-----------------------------------------------------------------------------
\* The shutdown methods.  The realtime controller waits for the end of its
\* worker's thread, the others for the worker's finished signal.
BugRequested(asked, running_, late) == (asked \ {"realtime"})
    \cup (IF "dashboard" \in running_ THEN {"dashboard"} ELSE {})
    \cup (IF running_ \cap OperationsWorkers # {} THEN {"operations"} ELSE {})

RequestedBy(asked, running_, late) == (asked \ {"realtime"})
    \cup (IF "dashboard" \in running_ THEN {"dashboard"} ELSE {})
    \cup (IF running_ \cap OperationsWorkers # {} THEN {"operations"} ELSE {})
    \cup (IF "validation" \in late THEN {"realtime"} ELSE {})

BugAllStopped(late) == late \subseteq {"camera"}

AllStopped(late) == late = {}

\* _complete_return_to_login destroys the controllers and the main window.
CompleteReturn(phases, late) ==
    /\ shown' = "login" /\ session' = "none"
    /\ pendingReturn' = FALSE /\ requested' = {}
    /\ phase' = [w \in Workers |-> IF w \in late \cup {"login"} THEN phases[w] ELSE "none"]
    /\ answer' = [NoAnswer EXCEPT !["login"] = answer["login"]]
    /\ interrupted' = [w \in Workers |-> FALSE]
    /\ pageReady' = FALSE /\ editor' = "closed"

\* Some did not end in time: the window is disabled, and so is a dialog that is
\* open by then.
AwaitWorkers(phases, answers, asked, dialog, late) ==
    LET running_ == RunningOf(phases, SessionWorkers)
        disposed(w) == w = "validation" /\ w \notin late
        lastImage == "camera" \in running_ \ late /\ phases["camera"] = "running"
    IN
    /\ pendingReturn' = TRUE
    /\ requested' = RequestedBy(asked, running_, late)
    /\ phase' = [w \in Workers |-> IF disposed(w) THEN "none"
                                   ELSE IF w \in running_ \ late THEN "ended" ELSE phases[w]]
    /\ \E image \in IF lastImage THEN Results["camera"] ELSE {answers["camera"]} :
           answer' = [w \in Workers |-> IF disposed(w) THEN "none"
                                        ELSE IF w = "camera" THEN image ELSE answers[w]]
    /\ interrupted' = [w \in Workers |-> w \in late]
    /\ editor' = IF dialog = "open" /\ ~pendingReturn THEN "disabled" ELSE dialog
    /\ UNCHANGED <<shown, session, pageReady>>

\* _return_to_login: any of the running threads may outlast its wait.
ReturnToLogin(phases, answers, asked, dialog) ==
    /\ ChannelStopped
    /\ loadTimers' = {} /\ refreshPending' = FALSE
    /\ \E late \in SUBSET RunningOf(phases, SessionWorkers) :
           IF AllStopped(late) THEN CompleteReturn(phases, late)
           ELSE AwaitWorkers(phases, answers, asked, dialog, late)

Return == ReturnToLogin(phase, answer, requested, editor)

Logout ==
    /\ shown = "main" /\ ~pendingReturn /\ editor = "closed"
    /\ Return

-----------------------------------------------------------------------------
\* Starting a request thread, for a controller that has none.
Launch(w) ==
    /\ phase[w] = "none"
    /\ Cardinality({x \in Workers : phase[x] # "none"}) < MaxThreads
    /\ phase' = [phase EXCEPT ![w] = "running"]
    /\ interrupted' = [interrupted EXCEPT ![w] = FALSE]
    /\ UNCHANGED answer

Released(w) == [phase EXCEPT ![w] = "none"]
Handled(w) == [answer EXCEPT ![w] = "none"]

\* LoginController.authenticate and ApplicationController._open_dashboard
Authenticate ==
    /\ shown = "login"
    /\ Launch("login")
    /\ UNCHANGED <<channelVars, pageVars, returnVars>>

Authenticated ==
    /\ answer["login"] = "done"
    /\ answer' = Handled("login")
    /\ shown' = "main" /\ session' = "valid"
    /\ loadTimers' = {"dashboard", "operations"}
    /\ Open
    /\ UNCHANGED <<phase, interrupted, refreshPending, pageReady, editor,
                   pendingReturn, requested>>

LoginFailed ==
    /\ answer["login"] = "failed"
    /\ answer' = Handled("login")
    /\ UNCHANGED <<phase, interrupted, channelVars, pageVars, returnVars>>

LoginFinished ==
    /\ phase["login"] = "ended" /\ answer["login"] = "none"
    /\ phase' = Released("login")
    /\ UNCHANGED <<answer, interrupted, channelVars, pageVars, returnVars>>

\* The token's time is up.
Expire ==
    /\ session = "valid"
    /\ session' = "expired"
    /\ UNCHANGED <<workerVars, channelVars, pageVars, shown, pendingReturn, requested>>

-----------------------------------------------------------------------------
\* DashboardController.request_refresh, called by a timer or a button.
RequestRefresh(loads, ts) ==
    \/ /\ "dashboard" \in requested \/ phase["dashboard"] # "none"
       /\ refreshPending' = (refreshPending \/ "dashboard" \notin requested)
       /\ loadTimers' = loads /\ timers' = ts
       /\ UNCHANGED <<workerVars, running, notified, socket, ready, pageReady, editor,
                      returnVars>>
    \/ /\ "dashboard" \notin requested /\ phase["dashboard"] = "none"
       /\ session # "valid"
       /\ Return
    \/ /\ "dashboard" \notin requested /\ session = "valid"
       /\ Launch("dashboard")
       /\ loadTimers' = loads /\ timers' = ts
       /\ UNCHANGED <<running, notified, socket, ready, refreshPending, pageReady, editor,
                      returnVars>>

LoadDashboard ==
    /\ "dashboard" \in loadTimers
    /\ RequestRefresh(loadTimers \ {"dashboard"}, timers)

RefreshTimeout ==
    /\ "refresh" \in timers
    /\ RequestRefresh(loadTimers, timers \ {"refresh"})

\* The button is disabled while a request is under way.
ClickRefresh ==
    /\ shown = "main" /\ ~pendingReturn /\ editor = "closed"
    /\ phase["dashboard"] \in {"none", "ended"} /\ answer["dashboard"] = "none"
    /\ RequestRefresh(loadTimers, timers)

DashboardAnswered ==
    \/ /\ answer["dashboard"] = "done"
       /\ answer' = Handled("dashboard")
       /\ UNCHANGED <<phase, interrupted, channelVars, pageVars, returnVars>>
    \/ /\ answer["dashboard"] = "expired"
       /\ ReturnToLogin(phase, Handled("dashboard"), requested, editor)

\* The slot of every shutdown_complete, which only a controller that a return asked
\* to shut down emits: that return is still pending.
Resume(w, asked) ==
    /\ pendingReturn
    /\ ReturnToLogin(Released(w), answer, asked, editor)

DashboardFinished ==
    /\ phase["dashboard"] = "ended" /\ answer["dashboard"] = "none"
    /\ IF "dashboard" \in requested
       THEN Resume("dashboard", requested \ {"dashboard"})
       ELSE /\ phase' = Released("dashboard")
            /\ loadTimers' = loadTimers \cup IF refreshPending THEN {"dashboard"} ELSE {}
            /\ refreshPending' = FALSE
            /\ UNCHANGED <<answer, interrupted, channelVars, pageReady, editor, returnVars>>

-----------------------------------------------------------------------------
\* OperationsController.  The page disables its buttons while it waits for a
\* request; only the load, on its timer, comes without one.
PageIsFree == shown = "main" /\ ~pendingReturn /\ pageReady /\ editor = "closed"

ShowLoading ==
    /\ pageReady' = FALSE
    /\ UNCHANGED <<channelVars, refreshPending, editor, returnVars>>

RefreshOperations(loads) ==
    LET dropped == "operations" \in requested \/ phase["load"] # "none" \/ phase["save"] # "none"
    IN
    \/ /\ dropped
       /\ loadTimers' = loads
       /\ UNCHANGED <<workerVars, channelVars, refreshPending, pageReady, editor, returnVars>>
    \/ ~dropped /\ session # "valid" /\ Return
    \/ ~dropped /\ session = "valid" /\ Launch("load") /\ loadTimers' = loads /\ ShowLoading

LoadOperations ==
    /\ "operations" \in loadTimers
    /\ RefreshOperations(loadTimers \ {"operations"})

ClickOperationsRefresh == PageIsFree /\ RefreshOperations(loadTimers)

\* Reading a camera image needs no session.
ConfigureRiskArea ==
    /\ PageIsFree
    /\ Launch("camera") /\ ShowLoading /\ UNCHANGED loadTimers

\* save_camera and save_operation
Save ==
    /\ PageIsFree /\ phase["save"] = "none"
    /\ \/ session # "valid" /\ Return
       \/ session = "valid" /\ Launch("save") /\ ShowLoading /\ UNCHANGED loadTimers

OperationsAnswered ==
    \E w \in OperationsWorkers :
        \/ /\ answer[w] \in {"done", "failed"}
           /\ answer' = Handled(w) /\ pageReady' = TRUE
           /\ UNCHANGED <<phase, interrupted, channelVars, loadTimers, refreshPending, editor,
                          returnVars>>
        \/ answer[w] = "expired" /\ ReturnToLogin(phase, Handled(w), requested, editor)

\* _camera_loaded up to exec(), whose event loop goes on with everything else; a
\* dialog that opens while the window is disabled is not.
CameraLoaded ==
    /\ answer["camera"] = "image"
    /\ answer' = Handled("camera") /\ editor' = "open"
    /\ UNCHANGED <<phase, interrupted, channelVars, loadTimers, refreshPending, pageReady,
                   returnVars>>

\* ... and after it.  SaveHasEnded bounds this: a thread that has answered ends at once.
CancelEdit ==
    /\ editor = "open"
    /\ editor' = "closed" /\ pageReady' = TRUE
    /\ UNCHANGED <<workerVars, channelVars, loadTimers, refreshPending, returnVars>>

SaveHasEnded == phase["save"] = "none"

AcceptEdit ==
    /\ editor = "open" /\ SaveHasEnded
    /\ \/ session # "valid" /\ ReturnToLogin(phase, answer, requested, "closed")
       \/ /\ session = "valid" /\ Launch("save")
          /\ editor' = "closed" /\ pageReady' = FALSE
          /\ UNCHANGED <<channelVars, loadTimers, refreshPending, returnVars>>

\* _dispose_worker
OperationsFinished ==
    \E w \in OperationsWorkers :
        /\ phase[w] = "ended" /\ answer[w] = "none"
        /\ IF "operations" \in requested /\ RunningOf(phase, OperationsWorkers) = {}
           THEN Resume(w, requested \ {"operations"})
           ELSE /\ phase' = Released(w)
                /\ UNCHANGED <<answer, interrupted, channelVars, pageVars, returnVars>>

-----------------------------------------------------------------------------
\* RealtimeController with its session and its validation worker.
Validating == phase["validation"] # "none"

ChannelEvent ==
    /\ \/ Connected \/ ConnectionLost(Validating) \/ ReceiveReady \/ ReceiveAlert
       \/ ReceiveInvalid \/ WatchdogTimeout \/ ConnectTimeout
    /\ UNCHANGED <<workerVars, pageVars, returnVars>>

\* _connect_now: without a token the client reports a rejection, once.
Reconnect ==
    /\ "reconnect" \in timers
    /\ \/ /\ \/ session = "valid" /\ Open
             \/ session # "valid" /\ OpenInVain
          /\ UNCHANGED <<workerVars, pageVars, returnVars>>
       \/ session # "valid" /\ socket = "unconnected" /\ ~notified /\ Return

\* The API refuses the handshake or closes the connection: _on_authorization_rejected.
Unauthorized ==
    /\ socket \in {"connecting", "connected"} /\ ~Validating
    /\ \/ session # "valid" /\ Return
       \/ /\ session = "valid"
          /\ Launch("validation") /\ Rejected /\ socket' = "unconnected"
          /\ UNCHANGED <<pageVars, returnVars>>

\* Its answer is looked at once it has finished.
ValidationFinished ==
    /\ phase["validation"] = "ended"
    /\ \/ "realtime" \in requested /\ Resume("validation", requested \ {"realtime"})
       \/ /\ "realtime" \notin requested /\ answer["validation"] = "expired"
          /\ ReturnToLogin(Released("validation"), Handled("validation"), requested, editor)
       \/ /\ "realtime" \notin requested /\ answer["validation"] # "expired"
          /\ phase' = Released("validation") /\ answer' = Handled("validation")
          /\ timers' = IF running THEN Scheduled(timers) ELSE timers
          /\ UNCHANGED <<interrupted, running, notified, socket, ready, pageVars, returnVars>>

-----------------------------------------------------------------------------
ThreadStep ==
    /\ \E w \in Workers : Respond(w) \/ EndThread(w)
    /\ UNCHANGED <<channelVars, pageVars, returnVars>>

\* What the event loop handles of its own accord.
Handler ==
    \/ LoginFailed \/ LoginFinished \/ Authenticated
    \/ DashboardAnswered \/ DashboardFinished
    \/ OperationsAnswered \/ CameraLoaded \/ OperationsFinished
    \/ ValidationFinished

Next ==
    \/ ThreadStep \/ Handler \/ Expire
    \/ Authenticate \/ Logout
    \/ LoadDashboard \/ RefreshTimeout \/ ClickRefresh
    \/ LoadOperations \/ ClickOperationsRefresh \/ ConfigureRiskArea \/ Save
    \/ CancelEdit \/ AcceptEdit
    \/ ChannelEvent \/ Reconnect \/ Unauthorized

\* Requests time out and a camera image is read once, with timeouts: the threads that
\* run go on to their end, and the UI thread handles what waits for it.
Spec ==
    /\ Init /\ [][Next]_vars
    /\ WF_vars(ThreadStep) /\ WF_vars(Handler)

-----------------------------------------------------------------------------
\* Nothing of the last session outlives it: while the login is shown no request thread
\* runs with its token, no timer or socket can act, no dialog waits for a decision.
\* Code: the four shutdown methods and _complete_return_to_login, with threads that
\* outlast their wait and a dialog's nested event loop.
LoginIsClean ==
    shown = "login" =>
        /\ session = "none" /\ ~pendingReturn /\ requested = {}
        /\ \A w \in SessionWorkers : ~IsRunning(phase, w)
        /\ ~running /\ socket = "unconnected" /\ timers = {} /\ loadTimers = {}
        /\ editor = "closed"

\* While the controller runs, something is always under way that brings the channel
\* back: a connection under watch, an attempt with a timeout, a retry, a validation.
\* The one exception is the code's: a session that expires between a validation that
\* could not reach the API and the retry leaves the page saying that it retries.
\* Code: the timers of RealtimeController and _authorization_notified.
RealtimeKeepsTrying ==
    running =>
        \/ socket \in {"connected", "closing"} /\ "watchdog" \in timers
        \/ socket = "connecting" /\ "connect" \in timers
        \/ "reconnect" \in timers
        \/ Validating
        \/ notified /\ session # "valid"

\* A return to the login that had to wait for a thread is resumed and completes.
\* Code: _shutdown_requested and shutdown_complete of the controllers.
ReturnCompletes == pendingReturn ~> shown = "login"

TypeOK ==
    /\ WorkersTypeOK /\ ChannelTypeOK
    /\ shown \in {"login", "main"} /\ session \in {"none", "valid", "expired"}
    /\ pendingReturn \in BOOLEAN /\ requested \subseteq {"dashboard", "operations", "realtime"}
    /\ loadTimers \subseteq {"dashboard", "operations"}
    /\ refreshPending \in BOOLEAN /\ pageReady \in BOOLEAN
    /\ editor \in {"closed", "open", "disabled"}
=============================================================================
