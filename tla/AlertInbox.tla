----------------------------- MODULE AlertInbox -----------------------------
(***************************************************************************)
(* The administrator's alert inbox: envelopes from the realtime connection *)
(* with their filter of duplicates, and AlertsController, whose request    *)
(* threads read the list and confirm or close one alert.                   *)
(***************************************************************************)
EXTENDS AlertEvents, Sequences

CONSTANT MaxWire            \* envelopes a connection holds before it is closed

ASSUME WireAssumption == MaxWire \in Nat

VARIABLES
    connected, wire,            \* realtime connection and envelopes on it
    seen,                       \* _seen_event_ids
    banner,                     \* alert last shown as new
    inbox,                      \* _alerts: level and status per event
    listPhase, page,            \* list worker and the page it carries
    actionPhase, asked, result, \* action worker, its request and its answer
    refreshPending, loadQueued, \* _refresh_pending; _load_timer
    loadFailed                  \* the last list ended with an error

realtimeVars == <<connected, wire, seen, banner>>
listVars     == <<listPhase, page>>
actionVars   == <<actionPhase, asked, result>>
inboxVars    == <<realtimeVars, inbox, listVars, actionVars, refreshPending,
                  loadQueued, loadFailed>>

NoAction == [event |-> "none", action |-> "none"]
NoAlert == [level |-> "none", status |-> "none"]
NoBanner == [event |-> "none", level |-> "none"]
NothingKnown == [e \in Events |-> NoAlert]

\* A request thread: asked, its answer or failure posted, the slot of that
\* signal handled (its finished signal is still to come).
WorkerPhases == {"none", "asked", "answered", "failed", "reported"}
Idle == listPhase = "none" /\ actionPhase = "none"
Busy == actionPhase \in {"asked", "answered", "failed"}  \* _action_busy

InboxInit ==
    /\ connected = FALSE /\ wire = <<>> /\ seen = {} /\ banner = NoBanner
    /\ inbox = NothingKnown
    /\ listPhase = "none" /\ page = NothingKnown
    /\ actionPhase = "none" /\ asked = NoAction /\ result = NoAlert
    /\ refreshPending = FALSE /\ loadQueued = TRUE /\ loadFailed = FALSE

-----------------------------------------------------------------------------
BugForgetsRefresh ==
    IF ~Idle
    THEN UNCHANGED <<refreshPending, listPhase>>
    ELSE listPhase' = "asked" /\ UNCHANGED refreshPending

\* AlertsController.request_refresh.
request_refresh ==
    IF ~Idle
    THEN refreshPending' = TRUE /\ UNCHANGED listPhase
    ELSE listPhase' = "asked" /\ UNCHANGED refreshPending

\* The load timer (0 ms) or the refresh button, which is disabled while a list
\* is awaited.
LoadTimer ==
    /\ loadQueued
    /\ loadQueued' = FALSE
    /\ request_refresh
    /\ UNCHANGED <<realtimeVars, inbox, page, actionVars, loadFailed>>

ClickRefresh ==
    /\ listPhase \in {"none", "reported"}
    /\ request_refresh
    /\ UNCHANGED <<realtimeVars, inbox, page, actionVars, loadQueued, loadFailed>>

BugActsDuringList(a) ==
    IF actionPhase # "none"
    THEN UNCHANGED <<actionPhase, asked, refreshPending>>
    ELSE actionPhase' = "asked" /\ asked' = a /\ UNCHANGED refreshPending

\* _start_action: while a list is being read the click is lost and only a
\* refresh is noted.
start_action(a) ==
    CASE actionPhase # "none" -> UNCHANGED <<actionPhase, asked, refreshPending>>
      [] actionPhase = "none" /\ listPhase # "none" ->
            refreshPending' = TRUE /\ UNCHANGED <<actionPhase, asked>>
      [] OTHER ->
            actionPhase' = "asked" /\ asked' = a /\ UNCHANGED refreshPending

\* The buttons offer what the alert shown allows.
ClickAction(a) ==
    /\ ~Busy
    /\ inbox[a.event].status = IF a.action = "confirm" THEN "nao_lido" ELSE "lido"
    /\ start_action(a)
    /\ UNCHANGED <<realtimeVars, inbox, listVars, result, loadQueued, loadFailed>>

-----------------------------------------------------------------------------
\* Slots of the request threads.
HandleList ==
    /\ listPhase \in {"answered", "failed"}
    /\ inbox' = IF listPhase = "answered" THEN page ELSE inbox
    /\ loadFailed' = (listPhase = "failed")
    /\ listPhase' = "reported" /\ page' = NothingKnown
    /\ UNCHANGED <<realtimeVars, actionVars, refreshPending, loadQueued>>

HandleAction ==
    /\ actionPhase \in {"answered", "failed"}
    /\ IF actionPhase = "answered"
       THEN /\ inbox' = [inbox EXCEPT ![asked.event] = result]
            /\ refreshPending' = TRUE
       ELSE UNCHANGED <<inbox, refreshPending>>
    /\ actionPhase' = "reported" /\ asked' = NoAction /\ result' = NoAlert
    /\ UNCHANGED <<realtimeVars, listVars, loadQueued, loadFailed>>

\* _continue_or_finish_shutdown, the end of both finished slots.
Continue ==
    /\ loadQueued' = (loadQueued \/ refreshPending)
    /\ refreshPending' = FALSE

HandleFinished ==
    /\ \/ /\ listPhase = "reported"
          /\ listPhase' = "none"
          /\ UNCHANGED <<page, actionVars>>
       \/ /\ actionPhase = "reported"
          /\ actionPhase' = "none"
          /\ UNCHANGED <<asked, result, listVars>>
    /\ Continue
    /\ UNCHANGED <<realtimeVars, inbox, loadFailed>>

-----------------------------------------------------------------------------
\* A connection of its own module is reduced here to lost or ready: subscribe
\* and the ready event are one step of the API's event loop.
Connect ==
    /\ ~connected
    /\ connected' = TRUE
    /\ UNCHANGED <<wire, seen, banner, inbox, listVars, actionVars,
                   refreshPending, loadQueued, loadFailed>>

ConnectionLost ==
    /\ connected
    /\ connected' = FALSE /\ wire' = <<>>
    /\ UNCHANGED <<seen, banner, inbox, listVars, actionVars, refreshPending,
                   loadQueued, loadFailed>>

\* A connection whose queue is full is closed by the broker.
Receives(envelope) ==
    CASE connected /\ Len(wire) < MaxWire ->
            wire' = Append(wire, envelope) /\ UNCHANGED connected
      [] connected /\ Len(wire) >= MaxWire -> connected' = FALSE /\ wire' = <<>>
      [] OTHER -> UNCHANGED <<connected, wire>>

\* RealtimeController._on_message for alert.created, with _is_duplicate: a
\* known event_id is dropped before anything is shown or read again.
HandleAlert ==
    /\ wire # <<>>
    /\ wire' = Tail(wire)
    /\ IF Head(wire).event \in seen
       THEN UNCHANGED <<seen, banner, refreshPending, listPhase>>
       ELSE /\ seen' = seen \cup {Head(wire).event}
            /\ banner' = Head(wire)
            /\ request_refresh
    /\ UNCHANGED <<connected, inbox, page, actionVars, loadQueued, loadFailed>>
=============================================================================
