-------------------------- MODULE MCAlertPipeline --------------------------
(***************************************************************************)
(* The pipeline of alerts for TLC, and beside it the contracts between the *)
(* operator, the API and the administrator that its messages obey: who is  *)
(* let in, what a request ends as, which payloads pass both sides and what *)
(* administrators are shown, over bounded inputs.  TLC evaluates each      *)
(* ASSUME.                                                                 *)
(***************************************************************************)
EXTENDS AlertPipeline, Integers

Access == INSTANCE Authorization WITH
    AdminProfile <- "administrador", OperatorProfiles <- {"operador", "supervisor"},
    AdminAudience <- "admin", OperatorAudience <- "operator", TokenTtl <- 2
Contract == INSTANCE ApiContracts WITH
    MaxSummary <- 2, MaxSubject <- 2, MaxConditions <- 2, MaxPoints <- 4, Skew <- 1
Report == INSTANCE AdminReports WITH DayLength <- 2, Zone <- 0
ElsewhereReport == INSTANCE AdminReports WITH DayLength <- 2, Zone <- 1

-----------------------------------------------------------------------------
Profiles == {"administrador", "operador", "supervisor"}
AccountStates == [active : BOOLEAN, profile : Profiles]
Times == 0..4
Tokens == {Access!issue("account", p, a, t) : p \in Profiles, a \in {"admin", "operator"}, t \in {0, 1}}
Offered == {<<>>} \cup {<<t>> : t \in Tokens}
Admin(offered, account, time, up) ==
    Access!currentAdmin(offered, [account |-> account], time, up)
Operator(offered, account, time, up) ==
    Access!currentOperator(offered, [account |-> account], time, up)

\* No token opens both applications, and an account let in has the right now,
\* whatever it had when the token was issued.
ASSUME TokensOpenOneApplication ==
    \A t \in Tokens, account \in AccountStates, time \in Times, up \in BOOLEAN :
        LET admin == Admin(<<t>>, account, time, up)
            operator == Operator(<<t>>, account, time, up) IN
        /\ ~(admin = "granted" /\ operator = "granted")
        /\ "granted" \in {admin, operator} =>
              /\ up /\ account.active /\ account.profile = t.profile
              /\ t.issuedAt <= time /\ time < t.issuedAt + 2

\* Whoever logs in is let in at once, for the life of the token.
ASSUME LoginsOpenTheirApplication ==
    \A account \in AccountStates, time \in 0..1 :
        /\ Access!authenticates(account, TRUE, {"administrador"}) =>
              Admin(<<Access!issue("account", account.profile, "admin", 0)>>, account, time, TRUE)
                  = "granted"
        /\ Access!authenticates(account, TRUE, {"operador", "supervisor"}) =>
              Operator(<<Access!issue("account", account.profile, "operator", 0)>>, account, time, TRUE)
                  = "granted"

\* A station's catalogue token is refused unless it is the configured one.
ASSUME CatalogueTokenDecides ==
    \A sent, set \in {<<>>, <<"a">>, <<"b">>} :
        Access!catalogReader(sent, set) = "granted" <=> set # <<>> /\ sent = set

-----------------------------------------------------------------------------
Ends(call, right, outcome, readable) ==
    Contract!Verdict(call, Contract!Error(call, Contract!Status(right, outcome), readable))

\* An administrator is logged out when, and only when, the API finds that the
\* right is lost: never because the database, the API or the network fails, nor
\* because another administrator was faster.
ASSUME LoggedOutOnlyWithoutRights ==
    \A call \in Contract!AdminCalls, offered \in Offered, account \in AccountStates,
       time \in Times, up, readable \in BOOLEAN :
        LET right == Admin(offered, account, time, up) IN
        \A outcome \in Contract!Outcomes(call) :
            Ends(call, right, outcome, readable) = "logged out"
            <=> right = "unauthorized" /\ outcome # "lost"

\* A delivery is given up only if the same request could never succeed, and is
\* tried again after everything that may pass, a lost answer included.
ASSUME DeliveriesAreNotGivenUp ==
    \A call \in Contract!Deliveries, right \in {"granted", "unauthorized", "unavailable"} :
        \A outcome \in Contract!Outcomes(call), readable \in BOOLEAN :
            LET end == Ends(call, right, outcome, readable) IN
            /\ end = "reported" <=>
                  /\ outcome # "lost"
                  /\ \/ right = "unauthorized"
                     \/ right = "granted" /\ outcome \in {"conflict", "invalid"}
            /\ end = "succeeded" <=> right = "granted" /\ outcome = "done" /\ readable

\* Credentials are called wrong only if the API says so.
ASSUME CredentialsAreRefusedByTheApi ==
    \A call \in {Contract!AdminLogin, Contract!OperatorLogin},
       right \in {"granted", "unauthorized", "unavailable"} :
        \A outcome \in Contract!Outcomes(call), readable \in BOOLEAN :
            Contract!Error(call, Contract!Status(right, outcome), readable) = "credentials"
            <=> right = "unauthorized" /\ outcome # "lost"

-----------------------------------------------------------------------------
Texts == [visible : 0..3, spaced : BOOLEAN, control : BOOLEAN, private : BOOLEAN]
Keys == {t \in Texts : ~t.spaced /\ ~t.private /\ t.visible < 3}
Types == DOMAIN Contract!Category
Alerts == [subject : Keys, summary : Texts, type : Types, severity : {"warning", "critical"},
           firstObservedAt : 0..1, raisedAt : 0..1]

\* The event of an alert is made after it is stored: if a contract refused it,
\* the alert would be stored, never published, and sent again in vain.  None
\* does, on either side.
ASSUME StoredAlertsCanBePublished ==
    \A a \in Alerts : Contract!OperatorAlertCreate(a) =>
        LET event == Contract!EventOf(a) IN
        Contract!RealtimeEventEnvelope(event) /\ Contract!parse_realtime_event(event)

\* An alert of the operator's domain whose key is plain is refused by the API
\* only for its summary: too long, or not public.
ASSUME AlertsAreRefusedForTheirSummary ==
    \A a \in Alerts : Contract!IsAlert(a) /\ ~a.subject.control =>
        Contract!OperatorAlertCreate(a) \/ Contract!RawLength(a.summary) > 2
        \/ ~Contract!IsPublic(a.summary)

Active == [type : Types, subject : {"a", "b"}, severity : {"warning", "critical"}, firstObservedAt : 0..1]

\* A snapshot of distinct alerts, none of the future, passes on both sides as
\* long as it has room for them; an interruption alone leaves the light green.
ASSUME SnapshotsAreAccepted ==
    \A a, b \in Active :
        LET both == <<a, b>>
            snapshot == [conditions |-> Contract!ConditionsOf(both), observedAt |-> 1] IN
        /\ <<a.type, a.subject>> # <<b.type, b.subject>> =>
              Contract!SafetyStateSnapshot(snapshot) /\ Contract!OperatorSafetyStateSnapshot(snapshot)
        /\ snapshot.conditions = <<>> <=> {a.type, b.type} = {"monitoring_interrupted"}

Grid == [x : 0..1, y : 0..2]
Polygons == UNION {[1..n -> Grid] : n \in 3..4}

\* A risk area that the API stores can be shown by the editor and monitored by
\* the operator, and what the editor makes is stored.
ASSUME PolygonsPassEverywhere ==
    \A p \in Polygons :
        /\ Contract!PolygonStored(p) => Contract!PolygonRead(p) /\ Contract!PolygonEdited(p)
        /\ Contract!PolygonEdited(p) => Contract!PolygonStored(p)
-----------------------------------------------------------------------------
\* Stored alerts: as the API stores and changes them, or written by other means.
Nobody == [id |-> 0, named |-> FALSE]
Row(id, created, state, grade, violation, type, exact, observation) ==
    [id |-> id, createdAt |-> created, status |-> state, level |-> grade, violation |-> violation,
     type |-> type, exact |-> exact, description |-> "", observation |-> observation,
     employee |-> Nobody]
Violations == {"ppe_absent", "ergonomic_risk", "person_in_risk_area", "monitoring_interrupted"}
Ingested(id) ==
    {Row(id, created, state, grade, violation, violation, TRUE, "") :
        created \in {10, 13}, state \in {"nao_lido", "lido", "encerrado"},
        grade \in {"warning", "critical"}, violation \in Violations}
Legacy(id) ==
    {Row(id, 10, state, grade, "", type, exact, "") :
        state \in {"nao_lido", "confirmado", "aberto"}, grade \in {"critico", "alto"},
        type \in {"epi", "ppe_absent", "queda", ""}, exact \in BOOLEAN}
Some(id) == {{}} \cup {{a} : a \in Ingested(id) \cup Legacy(id)}
Assignments == SUBSET {[id |-> i, delivered |-> TRUE] : i \in 1..2}
               \cup {{[id |-> 1, delivered |-> FALSE], [id |-> 2, delivered |-> d]} : d \in BOOLEAN}
Total(counts) == LET sum[S \in SUBSET DOMAIN counts] ==
                         IF S = {} THEN 0
                         ELSE LET k == CHOOSE k \in S : TRUE IN counts[k] + sum[S \ {k}]
                 IN sum[DOMAIN counts]

\* The client takes every summary, although an alert may be stored between the
\* two statements it is made of: no counter of one is compared with the other.
ASSUME SummariesAreAccepted ==
    \A a, b \in Some(1), p \in Assignments, now \in {12, 13} :
        Report!DashboardSummary(
            Report!get_summary([alerts |-> a, assignments |-> p], [alerts |-> a \cup b, assignments |-> p], now))

\* Status and category each count every alert once, whatever words are stored.
ASSUME CountersPartitionTheAlerts ==
    \A a \in Some(1), b \in Some(2) :
        LET counts == Report!Counts([alerts |-> a \cup b, assignments |-> {}]) IN
        /\ Total(counts.alert_status) = counts.alerts
        /\ Total(counts.alert_categories) = counts.alerts

\* For alerts of the ingestion the dashboard counts what the list shows, and the
\* trend has those of the last seven days.
Items(db) == Report!list_alerts(db, db, 100, 0, "all").items
Showing(db, Is(_)) == Cardinality({i \in DOMAIN Items(db) : Is(Items(db)[i])})
ASSUME DashboardAgreesWithTheList ==
    \A a \in Ingested(1), b \in Ingested(2) :
        LET db == [alerts |-> {a, b}, assignments |-> {}]
            summary == Report!get_summary(db, db, 13)
            counts == summary.counts IN
        /\ counts.critical_alerts = Showing(db, LAMBDA d : d.level = "critical")
        /\ counts.alert_status["new"] = Showing(db, LAMBDA d : d.status = "nao_lido")
        /\ counts.alert_status["closed"] = Showing(db, LAMBDA d : d.status = "encerrado")
        /\ \A k \in {"ppe", "ergonomics", "risk_area", "monitoring"} :
              counts.alert_categories[k] = Showing(db, LAMBDA d : d.category = k)
        /\ Total([i \in 1..7 |-> summary.trend[i].alerts]) = 2

\* Words of older data are counted under a status and a category they are not
\* listed with (dashboard_repository.py:80 and 90, admin_alerts.py:167 and 182).
ASSUME LegacyWordsDiverge ==
    \E a \in Legacy(1) :
        LET db == [alerts |-> {a}, assignments |-> {}] IN
        /\ Report!Counts(db).alert_status["confirmed"] = 1 /\ Items(db)[1].status = "nao_lido"
        /\ Report!Counts(db).alert_categories["ppe"] = 1 /\ Items(db)[1].category = "safety"

\* In a database of another zone an alert of this very day may be left out of
\* the trend: its day is tomorrow's.
ASSUME ZonesShiftTheTrend ==
    LET a == CHOOSE a \in Ingested(1) : a.createdAt = 13
        db == [alerts |-> {a}, assignments |-> {}]
        alerts(summary) == Total([i \in 1..7 |-> summary.trend[i].alerts])
    IN alerts(Report!get_summary(db, db, 13)) = 1 /\ alerts(ElsewhereReport!get_summary(db, db, 13)) = 0

\* Pages of any size show each alert of an unchanged database once, newest first,
\* alerts of one instant included.
ASSUME PagesShowEveryAlertOnce ==
    \A a \in Ingested(1), b \in Ingested(2), limit \in 1..2 :
        LET db == [alerts |-> {a, b} \cup {[a EXCEPT !.id = 3]}, assignments |-> {}]
            PageAt(n) == Report!list_alerts(db, db, limit, n * limit, "all")
        IN /\ \A i \in 1..3 :
                 Cardinality({x \in (0..2) \X (1..2) :
                     x[2] \in DOMAIN PageAt(x[1]).items /\ PageAt(x[1]).items[x[2]].id = i}) = 1
           /\ PageAt(0).total = 3

\* A page is answered, and accepted, unless one of its alerts has a blank type:
\* that one hides all the others.
ASSUME OneBlankTypeHidesThePage ==
    \A a \in Some(1), b \in Some(2) :
        LET db == [alerts |-> a \cup b, assignments |-> {}]
            shown == Report!list_alerts(db, db, 100, 0, "all") IN
        /\ Report!PageIsAnswered(shown) <=> \A x \in db.alerts : x.type # ""
        /\ Report!PageIsAccepted(shown)
=============================================================================
