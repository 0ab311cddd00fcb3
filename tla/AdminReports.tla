---------------------------- MODULE AdminReports ----------------------------
(***************************************************************************)
(* What administrators are shown of the stored alerts: the counters and    *)
(* the trend of the dashboard, the list and its details, and what their    *)
(* client accepts of both.                                                 *)
(*                                                                         *)
(* A database is its set of alerts and its set of PPE assignments.  Each   *)
(* alert joins its occurrence and, if it was ingested, the record of that. *)
(* Stored words are lower case without blanks; exact tells whether the     *)
(* status is written so, as the list compares it.  Days are counted.       *)
(***************************************************************************)
EXTENDS Integers, FiniteSets, Sequences, SequencesExt

CONSTANTS
    DayLength,   \* in the unit of time
    Zone         \* of the database, against UTC

Critical == {"critico", "critical"}
StatusWords ==
    [new |-> {"nao_lido", "não_lido"}, confirmed |-> {"lido", "confirmado"},
     closed |-> {"encerrado"}]
TypeWords ==
    [ppe |-> {"ppe_absent", "ppe", "epi"},
     ergonomics |-> {"ergonomic_risk", "ergonomics", "ergonomia"},
     risk_area |-> {"person_in_risk_area", "risk_area", "area_risco"},
     monitoring |-> {"monitoring_interrupted", "monitoring"}]

\* How many alerts have each of a partition of words, and how many none.
CountBy(words, wordOf) ==
    [k \in DOMAIN words \cup {"other"} |->
        Cardinality({a \in DOMAIN wordOf :
            IF k = "other" THEN \A j \in DOMAIN words : wordOf[a] \notin words[j]
                           ELSE wordOf[a] \in words[k]})]

\* DashboardRepository.get_counts, its first statement
Counts(db) ==
    [ppe_assignments |-> Cardinality(db.assignments),
     delivered_ppe |-> Cardinality({p \in db.assignments : p.delivered}),
     alerts |-> Cardinality(db.alerts),
     critical_alerts |-> Cardinality({a \in db.alerts : a.level \in Critical}),
     alert_status |-> CountBy(StatusWords, [a \in db.alerts |-> a.status]),
     alert_categories |-> CountBy(TypeWords, [a \in db.alerts |-> a.type])]

\* _daily_alerts, its second statement
Day(time) == (time + Zone) \div DayLength
DailyAlerts(db, first, last) ==
    [i \in 1..(last - first + 1) |->
        [day |-> first + i - 1,
         alerts |-> Cardinality({a \in db.alerts : Day(a.createdAt) = first + i - 1})]]

\* AdminDashboardService.get_summary, in tenths of a percent, ties aside; the
\* database may have changed between the two statements.
get_summary(db, later, now) ==
    LET counts == Counts(db)
        today == now \div DayLength IN
    [counts |-> counts,
     percentage |-> IF counts.ppe_assignments = 0 THEN 0
                    ELSE (2000 * counts.delivered_ppe + counts.ppe_assignments)
                            \div (2 * counts.ppe_assignments),
     trend |-> DailyAlerts(later, today - 6, today)]

\* DashboardSummary of the administrator's client
DashboardSummary(summary) ==
    /\ summary.counts.delivered_ppe \in 0..summary.counts.ppe_assignments
    /\ summary.counts.critical_alerts \in 0..summary.counts.alerts
    /\ summary.percentage \in 0..1000
    /\ Len(summary.trend) = 7
    /\ \A i \in 1..6 : summary.trend[i].day < summary.trend[i + 1].day

-----------------------------------------------------------------------------
\* AdminAlertsService._category, _level and _status
Category(word) ==
    CASE word = "ergonomic_risk" -> "ergonomics" [] word = "ppe_absent" -> "ppe"
      [] word = "person_in_risk_area" -> "risk_area"
      [] word = "monitoring_interrupted" -> "monitoring" [] OTHER -> "safety"
Level(word) == IF word \in Critical THEN "critical" ELSE "warning"
Status(word) == IF word \in {"nao_lido", "lido", "encerrado"} THEN word ELSE "nao_lido"

\* An actor, an employee or a camera is shown if it has an id and a name.
Shown(reference) == IF reference.id # 0 /\ reference.named THEN {reference.id} ELSE {}

\* _to_detail; an empty word is a blank text, or none.
to_detail(a) ==
    [id |-> a.id,
     category |-> Category(IF a.violation # "" THEN a.violation ELSE a.type),
     level |-> Level(a.level), status |-> Status(a.status),
     summary |-> IF a.description # "" THEN a.description
                 ELSE IF a.observation # "" THEN a.observation ELSE a.type,
     type |-> a.type, employee |-> Shown(a.employee), context |-> a.violation # ""]

\* AdminAlertDetail of the API and _AdminAlertDto of the client
AdminAlertDetail(d) == d.summary # "" /\ d.type # ""
AdminAlertDto(d) ==
    /\ d.category \in {"ppe", "ergonomics", "monitoring", "risk_area", "safety"}
    /\ d.level \in {"warning", "critical"} /\ d.status \in {"nao_lido", "lido", "encerrado"}

\* AdminAlertRepository.list: the total, then one page of the newest first;
\* no filter is "all".
Matches(a, filter) == filter = "all" \/ (a.status = filter /\ a.exact)
Newer(a, b) == a.createdAt > b.createdAt \/ (a.createdAt = b.createdAt /\ a.id > b.id)
list_alerts(db, later, limit, offset, filter) ==
    LET rows == SetToSortSeq({a \in later.alerts : Matches(a, filter)}, Newer)
        page == SubSeq(rows, offset + 1, IF offset + limit < Len(rows) THEN offset + limit
                                         ELSE Len(rows))
    IN [total |-> Cardinality({a \in db.alerts : Matches(a, filter)}),
        items |-> [i \in DOMAIN page |-> to_detail(page[i])]]

\* One item that is refused fails the whole answer.
PageIsAnswered(page) == \A i \in DOMAIN page.items : AdminAlertDetail(page.items[i])
PageIsAccepted(page) == \A i \in DOMAIN page.items : AdminAlertDto(page.items[i])
=============================================================================
