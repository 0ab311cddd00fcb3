--------------------------- MODULE AlertIngestion ---------------------------
(***************************************************************************)
(* The alerts of the API: ingestion idempotent by event_id, with concurrent*)
(* requests for one event_id, the administrative lifecycle of an alert, and*)
(* the envelopes published once a response has been sent.                  *)
(***************************************************************************)
EXTENDS AlertEvents

VARIABLES
    rows,                   \* alerts stored under each event_id
    level, status,          \* of the stored alert; "none": there is none
    requests,               \* POST /operator/alerts being served
    actions,                \* PATCH /admin/alerts/... being served
    publishing              \* background tasks that publish an envelope

dataVars   == <<rows, level, status>>
serverVars == <<dataVars, requests, actions, publishing>>

Stored == {e \in Events : level[e] # "none"}

Requests == [event : Events, severity : Severities, attempt : Nat \ {0},
             step : {"received", "inserting"}]
Actions  == [event : Events, action : {"confirm", "close"}]

ServerInit ==
    /\ rows = [e \in Events |-> 0]
    /\ level = [e \in Events |-> "none"]
    /\ status = [e \in Events |-> "none"]
    /\ requests = {} /\ actions = {} /\ publishing = {}

-----------------------------------------------------------------------------
Publishes(e, s) == publishing' = publishing \cup {Envelope(e, s)}

BugIgnoresSeverity(r) == UNCHANGED <<dataVars, publishing>>

BugEscalatesQuietly(r) ==
    /\ level' = [level EXCEPT ![r.event] =
                    IF r.severity = "critical" THEN "critical" ELSE @]
    /\ UNCHANGED <<rows, status, publishing>>

\* _existing: the event is stored.  A critical severity raises the level, once,
\* by a conditional UPDATE; anything else is a duplicate and not published.
Existing(r) ==
    IF r.severity = "critical" /\ level[r.event] # "critical"
    THEN /\ level' = [level EXCEPT ![r.event] = "critical"]
         /\ Publishes(r.event, "critical")
         /\ UNCHANGED <<rows, status>>
    ELSE UNCHANGED <<dataVars, publishing>>

\* store, first half: the lookup by primary key.
Lookup(r) ==
    /\ r.step = "received" /\ level[r.event] = "none"
    /\ requests' = (requests \ {r}) \cup {[r EXCEPT !.step = "inserting"]}
    /\ UNCHANGED <<dataVars, actions, publishing>>

BugNoPrimaryKey(r) ==
    /\ rows' = [rows EXCEPT ![r.event] = @ + 1]
    /\ level' = [level EXCEPT ![r.event] = r.severity]
    /\ status' = [status EXCEPT ![r.event] = "nao_lido"]
    /\ Publishes(r.event, r.severity)

\* store, second half: occurrence, alert and idempotency row in one commit; a
\* violated primary key rolls back and takes the way of a stored event.
Commit(r) ==
    IF level[r.event] = "none"
    THEN /\ rows' = [rows EXCEPT ![r.event] = @ + 1]
         /\ level' = [level EXCEPT ![r.event] = r.severity]
         /\ status' = [status EXCEPT ![r.event] = "nao_lido"]
         /\ Publishes(r.event, r.severity)
    ELSE Existing(r)

\* The step of ingest_operator_alert after which its response is sent.
Serve(r) ==
    /\ \/ r.step = "received" /\ level[r.event] # "none" /\ Existing(r)
       \/ r.step = "inserting" /\ Commit(r)
    /\ requests' = requests \ {r}
    /\ UNCHANGED actions

\* Authorization, validation or the database fails, or the request is lost on
\* its way: nothing is stored.
Refuse(r) ==
    /\ requests' = requests \ {r}
    /\ UNCHANGED <<dataVars, actions, publishing>>

-----------------------------------------------------------------------------
\* AdminAlertRepository.confirm and close, each under a row lock.  Repeating
\* what is already done succeeds; another order is a conflict.
Applies(a) == CASE a.action = "confirm" -> status[a.event] = "nao_lido"
                [] OTHER                -> status[a.event] = "lido"
Conflicts(a) == CASE a.action = "confirm" -> status[a.event] = "encerrado"
                  [] OTHER                -> status[a.event] = "nao_lido"
After(a) == IF a.action = "confirm" THEN "lido" ELSE "encerrado"

Transition(a) ==
    /\ status' = [status EXCEPT ![a.event] = IF Applies(a) THEN After(a) ELSE @]
    /\ UNCHANGED <<rows, level, requests, publishing>>

\* What GET /admin/alerts answers: level and status of every stored alert.
Page == [e \in Events |-> [level |-> level[e], status |-> status[e]]]

\* The process ends and starts again: requests and background tasks are gone,
\* committed rows are not.
Restart ==
    /\ requests' = {} /\ actions' = {} /\ publishing' = {}
    /\ UNCHANGED dataVars
=============================================================================
