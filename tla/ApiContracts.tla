---------------------------- MODULE ApiContracts ----------------------------
(***************************************************************************)
(* What the two applications and the API say to each other: the status of  *)
(* each route for what it meets, the error each client makes of a status   *)
(* and what its worker does then; and the contracts of the payloads, which *)
(* are written down once on each side.                                     *)
(*                                                                         *)
(* A text is its visible length, whether it has more white space than it   *)
(* should, control characters, or what may not be published.               *)
(***************************************************************************)
EXTENDS Integers, FiniteSets, Sequences

CONSTANTS MaxSummary, MaxSubject, MaxConditions, MaxPoints, Skew

Area == INSTANCE RiskArea WITH ProductSlack <- 0

AdminLogin == "admin login"
OperatorLogin == "operator login"
AlertActions == {"alert", "confirm", "close"}
Saves == {"save camera", "save area", "save operation"}
AdminCalls == {"me", "dashboard", "alerts", "catalog", "areas", "operations"} \cup AlertActions \cup Saves
Lists == {"list operations", "read catalogue"}
Deliveries == {"deliver alert", "deliver state"}
Calls == {AdminLogin, OperatorLogin} \cup AdminCalls \cup Lists \cup Deliveries

\* What may happen to a call once its caller is let in
Outcomes(call) ==
    {"done", "down", "defect", "lost"}
    \cup (IF call \in AlertActions \cup Saves THEN {"not_found"} ELSE {})
    \cup (IF call \in {"confirm", "close", "deliver alert"} \cup Saves THEN {"conflict"} ELSE {})
    \cup (IF call \in {"confirm", "close"} \cup Saves \cup Deliveries THEN {"invalid"} ELSE {})

\* The routes: rights are looked at before payloads; 0 is no answer at all.
Status(right, outcome) ==
    IF outcome = "lost" THEN 0
    ELSE IF right = "unauthorized" THEN 401
    ELSE IF right = "unavailable" THEN 503
    ELSE [done |-> 200, not_found |-> 404, conflict |-> 409, invalid |-> 422,
          defect |-> 500, down |-> 503][outcome]

Refused == {401, 403}
Succeeded(status) == status \in 200..299

-----------------------------------------------------------------------------
\* AdminApiClient; readable: the body is what its DTO expects.
AdminError(call, status, readable) ==
    IF status \in Refused THEN IF call = AdminLogin THEN "credentials" ELSE "expired"
    ELSE IF call \in AlertActions \cup Saves /\ status = 404 THEN "not_found"
    ELSE IF call \in AlertActions \cup Saves /\ status = 409 THEN "conflict"
    ELSE IF ~Succeeded(status) THEN "unavailable"
    ELSE IF readable THEN "none" ELSE "unreadable"

\* OperatorApiClient.authenticate_credentials and _request_operations
OperatorError(call, status, readable) ==
    IF status \in Refused
    THEN IF call = OperatorLogin THEN "credentials" ELSE "unavailable"
    ELSE IF Succeeded(status) /\ readable THEN "none"
    ELSE IF Succeeded(status) /\ call \in Lists THEN "unreadable" ELSE "unavailable"

\* send_alert; readable: a receipt, with the event_id that was sent
AlertError(status, readable) ==
    IF status \in Refused \cup {409, 422} THEN "rejected"
    ELSE IF Succeeded(status) /\ readable THEN "none" ELSE "unavailable"

\* send_safety_state
StateError(status, readable) ==
    IF status \in Refused \cup {422} THEN "rejected"
    ELSE IF Succeeded(status) /\ readable THEN "none" ELSE "unavailable"

Error(call, status, readable) ==
    IF call \in AdminCalls \cup {AdminLogin} THEN AdminError(call, status, readable)
    ELSE IF call = "deliver alert" THEN AlertError(status, readable)
    ELSE IF call = "deliver state" THEN StateError(status, readable)
    ELSE OperatorError(call, status, readable)

\* What the workers make of it: failed(message, True) of a protected request
\* ends the administrator's session, a delivery is tried again.
Verdict(call, error) ==
    IF error = "none" THEN "succeeded"
    ELSE IF error = "expired" THEN "logged out"
    ELSE IF error = "unavailable" /\ call \in Deliveries THEN "tried again"
    ELSE "reported"

-----------------------------------------------------------------------------
\* Alerts: the operator's domain, the API's contract, the event it publishes
\* once the alert is stored, and the administrator's contract for that.
IsAlert(a) ==
    /\ a.subject.visible > 0 /\ a.summary.visible > 0
    /\ a.firstObservedAt <= a.raisedAt

RawLength(text) == text.visible + (IF text.spaced THEN 1 ELSE 0)

\* normalize_public_summary, and what it leaves
IsPublic(text) == ~text.control /\ text.visible > 0 /\ ~text.private
Normalized(text) == [text EXCEPT !.spaced = FALSE]

OperatorAlertCreate(a) ==
    /\ RawLength(a.subject) \in 1..MaxSubject /\ a.subject.visible > 0 /\ ~a.subject.control
    /\ RawLength(a.summary) \in 1..MaxSummary /\ IsPublic(a.summary)
    /\ a.firstObservedAt <= a.raisedAt

Category == [ppe_absent |-> "ppe", ergonomic_risk |-> "ergonomics",
             person_in_risk_area |-> "risk_area", monitoring_interrupted |-> "monitoring"]

\* OperatorAlertService.ingest
EventOf(a) ==
    [category |-> Category[a.type], level |-> a.severity, status |-> "nao_lido",
     summary |-> Normalized(a.summary), occurredAt |-> a.raisedAt, detectedAt |-> a.raisedAt]

Categories == {"ppe", "ergonomics", "monitoring", "risk_area", "safety"}
Levels == {"warning", "critical"}
Statuses == {"nao_lido", "lido", "encerrado"}
HasKnownNames(e) == e.category \in Categories /\ e.level \in Levels /\ e.status \in Statuses

RealtimeEventEnvelope(e) ==
    /\ HasKnownNames(e) /\ RawLength(e.summary) \in 1..MaxSummary /\ IsPublic(e.summary)
    /\ e.detectedAt <= e.occurredAt + Skew

\* The administrator takes a summary only if nothing is left to normalize.
parse_realtime_event(e) ==
    /\ HasKnownNames(e) /\ RawLength(e.summary) \in 1..MaxSummary
    /\ IsPublic(e.summary) /\ ~e.summary.spaced
    /\ e.detectedAt <= e.occurredAt + Skew

-----------------------------------------------------------------------------
\* Snapshots: a sequence of conditions, each with its key and when it began.
HasDistinctKeys(s) == \A i, j \in DOMAIN s.conditions :
                          s.conditions[i].id = s.conditions[j].id => i = j
SafetyStateSnapshot(s) ==
    HasDistinctKeys(s) /\ \A i \in DOMAIN s.conditions : s.conditions[i].since <= s.observedAt
OperatorSafetyStateSnapshot(s) ==
    /\ Len(s.conditions) <= MaxConditions /\ HasDistinctKeys(s)
    /\ \A i \in DOMAIN s.conditions : s.conditions[i].since <= s.observedAt + Skew

\* SafetyStateSnapshot.from_alerts: interruptions are not told to the light.
Reason == [ppe_absent |-> "PPE_MISSING", ergonomic_risk |-> "ERGONOMIC_RISK",
           person_in_risk_area |-> "PERSON_IN_RISK_AREA"]
ConditionsOf(alerts) ==
    LET told == SelectSeq(alerts, LAMBDA a : a.type \in DOMAIN Reason) IN
    [i \in DOMAIN told |-> [id |-> <<told[i].type, told[i].subject>>, reason |-> Reason[told[i].type],
                            level |-> IF told[i].severity = "critical" THEN "critical" ELSE "medium",
                            since |-> told[i].firstObservedAt]]

-----------------------------------------------------------------------------
\* Risk areas: what the API stores, what the operator's client takes from it
\* and what the administrator's editor makes and takes.
PolygonStored(points) ==
    Len(points) \in 3..MaxPoints /\ Area!IsGeometry(Area!Opened(points))
PolygonRead(points) == Len(points) >= 3 /\ Area!IsGeometry(Area!Opened(points))
PolygonEdited(points) == Area!IsGeometry(Area!Opened(points))
=============================================================================
