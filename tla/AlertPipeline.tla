--------------------------- MODULE AlertPipeline ---------------------------
(***************************************************************************)
(* One alert on its way from the operator station through the API to the   *)
(* inbox of an administrator: requests that are lost, served late or twice,*)
(* answers that are lost, restarts of the API between a commit and its     *)
(* publication, and a realtime connection without replay.                  *)
(***************************************************************************)
EXTENDS AlertIngestion, AlertDelivery, AlertInbox, FiniteSets

CONSTANTS
    MaxRestarts,            \* restarts of the API
    MaxRequests             \* deliveries under way; both bound the model

VARIABLES
    registered,             \* severity the operator has a receipt for
    announced,              \* severity published to the administrators
    restarts,
    desktop                 \* an administrator is there

ghostVars == <<registered, announced>>
vars == <<stationVars, serverVars, inboxVars, ghostVars, restarts, desktop>>

\* With a desktop, deliveries are not repeated, the operator stays logged in and
\* the API does not restart: what these do to a desktop, ConnectionLost and lost
\* requests do as well.
Bound == desktop => maxAttempts = 1
StaysLoggedIn == desktop => session' = "api"

Init ==
    /\ StationInit /\ ServerInit /\ InboxInit
    /\ registered = [e \in Events |-> "none"]
    /\ announced = [e \in Events |-> "none"]
    /\ restarts = 0
    /\ desktop \in BOOLEAN
    /\ Bound

-----------------------------------------------------------------------------
\* The operator station by itself.
Station ==
    /\ \/ Login \/ Logout
       \/ \E e \in Events :
            \/ \E s \in Severities : RaiseAlert(e, s)
            \/ EscalateAlert(e) \/ DisposeWorker(e)
            \/ Interrupted(e) \/ Unavailable(e)
    /\ StaysLoggedIn
    /\ UNCHANGED <<serverVars, inboxVars, ghostVars, restarts, desktop>>

\* send_alert: the request leaves.
Request(e) ==
    /\ Cardinality(requests) < MaxRequests
    /\ Send(e)
    /\ requests' = requests \cup
            {[event |-> e, severity |-> carried[e], attempt |-> attempt[e] + 1,
              step |-> "received"]}
    /\ UNCHANGED <<dataVars, actions, publishing, inboxVars, ghostVars, restarts, desktop>>

AwaitedBy(r) == Awaits(r.event, r.severity, r.attempt)

\* A receipt reaches the worker, or is lost or comes too late.
Answer(r) ==
    \/ /\ AwaitedBy(r)
       /\ End(r.event)
       /\ registered' = [registered EXCEPT ![r.event] = r.severity]
    \/ UNCHANGED <<stationVars, registered>>

Ingest(r) ==
    /\ \/ Lookup(r) /\ UNCHANGED <<stationVars, registered>>
       \/ Serve(r) /\ Answer(r)
       \/ /\ Refuse(r)
          /\ \/ AwaitedBy(r) /\ End(r.event)
             \/ UNCHANGED stationVars
          /\ UNCHANGED registered
    /\ UNCHANGED <<inboxVars, announced, restarts, desktop>>

\* The background task, after the response: broker.publish.
Publish(envelope) ==
    /\ publishing' = publishing \ {envelope}
    /\ announced' = [announced EXCEPT ![envelope.event] =
            IF Rank(@) < Rank(envelope.level) THEN envelope.level ELSE @]
    /\ Receives(envelope)
    /\ UNCHANGED <<dataVars, requests, actions, stationVars, seen, banner, inbox,
                   listVars, actionVars, refreshPending, loadQueued, loadFailed,
                   registered, restarts, desktop>>

RestartApi ==
    /\ ~desktop /\ restarts < MaxRestarts
    /\ restarts' = restarts + 1
    /\ Restart
    /\ UNCHANGED <<stationVars, inboxVars, ghostVars, desktop>>

-----------------------------------------------------------------------------
\* The administrator's desktop by itself.
Desktop ==
    /\ desktop
    /\ \/ LoadTimer \/ ClickRefresh \/ HandleList \/ HandleAction \/ HandleFinished
       \/ Connect \/ ConnectionLost \/ HandleAlert
    /\ UNCHANGED <<stationVars, serverVars, ghostVars, restarts, desktop>>

\* AdminAlertsListWorker: the page is read, or the request fails.
ReadList ==
    /\ desktop
    /\ listPhase = "asked"
    /\ \/ listPhase' = "answered" /\ page' = Page
       \/ listPhase' = "failed" /\ UNCHANGED page
    /\ UNCHANGED <<stationVars, serverVars, realtimeVars, inbox, actionVars,
                   refreshPending, loadQueued, loadFailed, ghostVars, restarts, desktop>>

\* A button is clicked; if a worker is started, its request leaves.
Act(a) ==
    /\ desktop
    /\ ClickAction(a)
    /\ actions' = IF asked' = a THEN actions \cup {a} ELSE actions
    /\ UNCHANGED <<stationVars, dataVars, requests, publishing, ghostVars, restarts, desktop>>

\* The API serves it; the answer reaches the worker, or is lost or too late.
ServeAction(a) ==
    /\ actions' = actions \ {a}
    /\ Transition(a)
    /\ \/ /\ actionPhase = "asked" /\ asked = a
          /\ IF Conflicts(a)
             THEN actionPhase' = "failed" /\ UNCHANGED result
             ELSE /\ actionPhase' = "answered"
                  /\ result' = [level |-> level[a.event], status |-> status'[a.event]]
       \/ UNCHANGED <<actionPhase, result>>
    /\ UNCHANGED <<stationVars, realtimeVars, inbox, listVars, asked,
                   refreshPending, loadQueued, loadFailed, ghostVars, restarts, desktop>>

\* The client gives up on it; the request may still be served.
GiveUpAction ==
    /\ actionPhase = "asked"
    /\ actionPhase' = "failed"
    /\ UNCHANGED <<stationVars, serverVars, realtimeVars, inbox, listVars, asked,
                   result, refreshPending, loadQueued, loadFailed, ghostVars, restarts, desktop>>

\* Another administrator confirms or closes the alert.
OtherAdministrator(a) ==
    /\ Applies(a)
    /\ Transition(a)
    /\ UNCHANGED <<stationVars, actions, inboxVars, ghostVars, restarts, desktop>>

Next ==
    \/ Station \/ Desktop
    \/ \E e \in Events : Request(e)
    \/ \E r \in requests : Ingest(r)
    \/ \E envelope \in publishing : Publish(envelope)
    \/ RestartApi
    \/ ReadList \/ GiveUpAction
    \/ \E a \in Actions : Act(a) \/ OtherAdministrator(a)
    \/ \E a \in actions : ServeAction(a)

Spec == Init /\ [][Next]_vars
-----------------------------------------------------------------------------
MaybeSeverity == Severities \cup {"none"}
Seen == [level : MaybeSeverity, status : Statuses \cup {"none"}]

\* Every variable has its type.
TypeOK ==
    /\ maxAttempts \in 1..MaxAttempts
    /\ session \in {"none", "local", "api"}
    /\ alert \in [Events -> MaybeSeverity] /\ active \subseteq Events
    /\ worker \in [Events -> Phases] /\ carried \in [Events -> MaybeSeverity]
    /\ attempt \in [Events -> 0..maxAttempts]
    /\ interrupted \in [Events -> BOOLEAN]
    /\ pendingAlert \in [Events -> MaybeSeverity]
    /\ tried \in [Events -> MaybeSeverity]
    /\ rows \in [Events -> Nat] /\ level \in [Events -> MaybeSeverity]
    /\ status \in [Events -> Statuses \cup {"none"}]
    /\ requests \subseteq Requests /\ actions \subseteq Actions
    /\ publishing \subseteq [event : Events, level : Severities]
    /\ connected \in BOOLEAN /\ Len(wire) <= MaxWire
    /\ seen \subseteq Events
    /\ inbox \in [Events -> Seen] /\ page \in [Events -> Seen]
    /\ listPhase \in WorkerPhases /\ actionPhase \in WorkerPhases
    /\ refreshPending \in BOOLEAN /\ loadQueued \in BOOLEAN
    /\ loadFailed \in BOOLEAN
    /\ registered \in [Events -> MaybeSeverity]
    /\ announced \in [Events -> MaybeSeverity]

\* However often an alert is delivered, and whatever requests for it race
\* between the lookup and the insert of store(), there is one alert of it.
StoredOnce == \A e \in Events : rows[e] = IF e \in Stored THEN 1 ELSE 0

\* An alert that became critical while its worker was busy, retrying or just
\* ended is handed to a worker in the end: without a worker and with nothing
\* waiting, the last severity tried is the severity of the alert.
EscalationIsTried ==
    \A e \in active :
        session = "api" /\ ~Known(e) /\ pendingAlert[e] = "none" =>
            tried[e] = alert[e]

\* A receipt for a severity means that the alert is stored with at least that
\* severity, whatever was retried, answered late or served after a restart.
RegisteredIsStored ==
    \A e \in Events : Rank(registered[e]) <= Rank(level[e])

\* Unless the API restarted, the level stored has been published to the
\* administrators or a background task is about to, although the retry of a
\* request whose answer was lost is a duplicate and publishes nothing.
EveryChangeIsPublished ==
    \A e \in Stored :
        \/ Rank(level[e]) <= Rank(announced[e])
        \/ Envelope(e, level[e]) \in publishing
        \/ restarts > 0

\* What the inbox shows of an alert never goes back to an earlier status or a
\* lower level: no page read before an action replaces its result.
InboxNeverGoesBack ==
    [][\A e \in Events :
        /\ Progress(inbox[e].status) <= Progress(inbox'[e].status)
        /\ Rank(inbox[e].level) <= Rank(inbox'[e].level)]_vars

\* The alert of the banner is in the inbox, unless it is still to be read
\* again or the inbox says that the last reading failed: an announcement that
\* arrives while a list or an action is awaited is not forgotten.
InboxFollowsBanner ==
    \/ banner = NoBanner
    \/ Rank(banner.level) <= Rank(inbox[banner.event].level)
    \/ refreshPending \/ loadQueued \/ loadFailed
    \/ listPhase \in {"asked", "failed"}
    \/ listPhase = "answered" /\ Rank(banner.level) <= Rank(page[banner.event].level)
=============================================================================
