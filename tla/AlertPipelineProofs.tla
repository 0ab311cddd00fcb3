------------------------ MODULE AlertPipelineProofs ------------------------
(***************************************************************************)
(* For every number of alerts, attempts, requests and restarts: no alert is*)
(* stored twice, none that the operator has a receipt for is missing, no   *)
(* escalation is forgotten, every change is published unless the API       *)
(* restarts, and what an administrator sees follows and never goes back.   *)
(*                                                                         *)
(* The invariant has a part for each of the three that talk.  A station    *)
(* keeps its own by itself.  What is stored only grows, and everything an  *)
(* administrator was sent or shows was stored before: the inbox is never   *)
(* ahead of a page that was read for it, nor the page of the database.     *)
(***************************************************************************)
EXTENDS AlertPipeline, TLAPS

Envelopes == [event : Events, level : Severities]

\* x is an earlier state of an alert than y, or the same.
Precedes(x, y) ==
    Progress(x.status) <= Progress(y.status) /\ Rank(x.level) <= Rank(y.level)
Database(e) == [level |-> level[e], status |-> status[e]]

-----------------------------------------------------------------------------
StationTypes ==
    /\ maxAttempts \in 1..MaxAttempts
    /\ session \in {"none", "local", "api"}
    /\ alert \in [Events -> MaybeSeverity] /\ active \subseteq Events
    /\ worker \in [Events -> Phases] /\ carried \in [Events -> MaybeSeverity]
    /\ attempt \in [Events -> 0..maxAttempts]
    /\ interrupted \in [Events -> BOOLEAN]
    /\ pendingAlert \in [Events -> MaybeSeverity]
    /\ tried \in [Events -> MaybeSeverity]

\* A worker has something to carry and, until it waits, an attempt left.
Carries(e) ==
    /\ worker[e] \in {"ready", "waiting"} => carried[e] \in Severities
    /\ worker[e] = "ready" => attempt[e] < maxAttempts

\* What waits for a worker is the severity of the alert, and it waits for one
\* that is there: its finished signal is still to be handled.
IsTriedOrWaits(e) ==
    /\ pendingAlert[e] # "none" => pendingAlert[e] = "critical" /\ alert[e] = "critical"
    /\ e \in active => alert[e] # "none"
    /\ e \in active /\ session = "api" =>
          tried[e] = alert[e] \/ (Known(e) /\ pendingAlert[e] = alert[e])

StationInv ==
    /\ StationTypes
    /\ session = "none" => active = {}
    /\ \A e \in Events : Carries(e) /\ IsTriedOrWaits(e)

-----------------------------------------------------------------------------
StoreTypes ==
    /\ rows \in [Events -> Nat] /\ level \in [Events -> MaybeSeverity]
    /\ status \in [Events -> Statuses \cup {"none"}]
    /\ requests \subseteq Requests /\ actions \subseteq Actions
    /\ publishing \subseteq Envelopes
    /\ registered \in [Events -> MaybeSeverity]
    /\ announced \in [Events -> MaybeSeverity]
    /\ restarts \in Nat

\* Envelopes of what is stored, at this level or a later one.
OfStored == {x \in Envelopes : Rank(x.level) <= Rank(level[x.event])}

StoreInv ==
    /\ StoreTypes
    /\ \A e \in Events : level[e] = "none" => status[e] = "none"
    /\ StoredOnce /\ RegisteredIsStored /\ EveryChangeIsPublished
    /\ publishing \subseteq OfStored

-----------------------------------------------------------------------------
InboxTypes ==
    /\ connected \in BOOLEAN
    /\ wire \in Seq(OfStored) /\ Len(wire) <= MaxWire
    /\ seen \subseteq Events /\ banner \in OfStored \cup {NoBanner}
    /\ inbox \in [Events -> Seen] /\ page \in [Events -> Seen]
    /\ listPhase \in WorkerPhases /\ actionPhase \in WorkerPhases
    /\ actionPhase \in {"asked", "answered"} => asked \in Actions
    /\ actionPhase = "answered" => result \in Seen
    /\ refreshPending \in BOOLEAN /\ loadQueued \in BOOLEAN /\ loadFailed \in BOOLEAN

\* One thread at a time: an answer is handled on the inbox it was asked for.
OneThread == listPhase = "none" \/ actionPhase = "none"

InOrder ==
    /\ \A e \in Events :
          /\ Precedes(inbox[e], Database(e))
          /\ listPhase = "answered" =>
                Precedes(inbox[e], page[e]) /\ Precedes(page[e], Database(e))
    /\ actionPhase = "answered" =>
          /\ Precedes(inbox[asked.event], result)
          /\ Precedes(result, Database(asked.event))

\* A page that was read before the alert of the banner is not the last one.
PageFollowsBanner ==
    listPhase = "answered" /\ banner # NoBanner =>
        \/ Rank(banner.level) <= Rank(page[banner.event].level)
        \/ refreshPending \/ loadQueued

InboxInv ==
    InboxTypes /\ OneThread /\ InOrder /\ InboxFollowsBanner /\ PageFollowsBanner

PipelineInv == StationInv /\ StoreInv /\ InboxInv

-----------------------------------------------------------------------------
\* The ranks of severities, and the order of statuses.
LEMMA Ranks ==
    /\ Rank("none") = 0 /\ Rank("warning") = 1 /\ Rank("critical") = 2
    /\ \A s \in MaybeSeverity : Rank(s) \in 0..2
    /\ \A s \in MaybeSeverity : Rank(s) = 0 <=> s = "none"
    /\ \A s \in MaybeSeverity : Rank(s) = 2 <=> s = "critical"
BY DEF Rank, MaybeSeverity, Severities

LEMMA ProgressOfStatuses ==
    /\ Progress("none") = 0 /\ Progress("nao_lido") = 1
    /\ Progress("lido") = 2 /\ Progress("encerrado") = 3
    /\ \A s \in Statuses \cup {"none"} : Progress(s) \in 0..3
BY DEF Progress, Statuses

\* The order of the states of an alert.
LEMMA PrecedesIsAnOrder ==
    ASSUME NEW x \in Seen, NEW y \in Seen, NEW z \in Seen
    PROVE  Precedes(x, x) /\ (Precedes(x, y) /\ Precedes(y, z) => Precedes(x, z))
<1>1. ASSUME NEW s \in Seen
      PROVE  Progress(s.status) \in Nat /\ Rank(s.level) \in Nat
  BY Ranks, ProgressOfStatuses DEF Seen
<1>2. /\ Progress(x.status) \in Nat /\ Rank(x.level) \in Nat
      /\ Progress(y.status) \in Nat /\ Rank(y.level) \in Nat
      /\ Progress(z.status) \in Nat /\ Rank(z.level) \in Nat
  BY <1>1
<1>. QED  BY <1>2 DEF Precedes

-----------------------------------------------------------------------------
\* The operator's station.
LEMMA StationIdle == ASSUME StationInv, UNCHANGED stationVars PROVE StationInv'
BY DEF StationInv, StationTypes, Carries, IsTriedOrWaits, Known, stationVars, workerVars

\* A worker starts on e, with the severity of the alert.
LEMMA StartKeepsInv ==
    ASSUME StationInv, NEW e \in Events, NEW s \in Severities, StartDelivery(e, s),
           UNCHANGED <<maxAttempts, session>>,
           alert' \in [Events -> MaybeSeverity], alert'[e] = s, active' \subseteq Events,
           session = "none" => active' = {},
           pendingAlert' \in [Events -> MaybeSeverity], pendingAlert'[e] = "none",
           \A d \in Events : d # e =>
               alert'[d] = alert[d] /\ pendingAlert'[d] = pendingAlert[d]
               /\ (d \in active' => d \in active)
    PROVE  StationInv'
<1>1. StationTypes /\ \A d \in Events : Carries(d) /\ IsTriedOrWaits(d)
  BY DEF StationInv
<1>2. /\ worker' = [worker EXCEPT ![e] = "ready"] /\ carried' = [carried EXCEPT ![e] = s]
      /\ attempt' = [attempt EXCEPT ![e] = 0] /\ interrupted' = [interrupted EXCEPT ![e] = FALSE]
      /\ tried' = [tried EXCEPT ![e] = s]
  BY DEF StartDelivery
<1>3. maxAttempts \in Nat /\ maxAttempts >= 1 /\ s \in MaybeSeverity /\ s # "none"
  BY <1>1, AttemptsAssumption DEF StationTypes, MaybeSeverity, Severities
<1>4. StationTypes'
  BY <1>1, <1>2, <1>3 DEF StationTypes, Phases
<1>5. Carries(e)' /\ IsTriedOrWaits(e)'
  BY <1>1, <1>2, <1>3 DEF Carries, IsTriedOrWaits, StationTypes
<1>6. ASSUME NEW d \in Events, d # e PROVE Carries(d)' /\ IsTriedOrWaits(d)'
  BY <1>1, <1>2, <1>6 DEF Carries, IsTriedOrWaits, StationTypes, Known
<1>. QED  BY <1>4, <1>5, <1>6 DEF StationInv

\* The worker of e ends.
LEMMA EndKeepsInv ==
    ASSUME StationInv, NEW e \in Events, worker[e] # "none", End(e)
    PROVE  StationInv'
<1>1. StationTypes /\ (session = "none" => active = {})
      /\ \A d \in Events : Carries(d) /\ IsTriedOrWaits(d)
  BY DEF StationInv
<1>2. /\ worker' = [worker EXCEPT ![e] = "ended"] /\ carried' = [carried EXCEPT ![e] = "none"]
      /\ attempt' = [attempt EXCEPT ![e] = 0]
      /\ UNCHANGED <<maxAttempts, session, alert, active, interrupted, pendingAlert, tried>>
  BY DEF End
<1>3. maxAttempts \in Nat
  BY <1>1, AttemptsAssumption DEF StationTypes
<1>4. StationTypes'
  BY <1>1, <1>2, <1>3 DEF StationTypes, Phases, MaybeSeverity
<1>5. ASSUME NEW d \in Events PROVE Carries(d)' /\ IsTriedOrWaits(d)'
  BY <1>1, <1>2 DEF Carries, IsTriedOrWaits, StationTypes, Known
<1>. QED  BY <1>1, <1>2, <1>4, <1>5 DEF StationInv

LEMMA SendKeepsInv ==
    ASSUME StationInv, NEW e \in Events, Send(e) PROVE StationInv'
<1>1. StationTypes /\ (session = "none" => active = {})
      /\ \A d \in Events : Carries(d) /\ IsTriedOrWaits(d)
  BY DEF StationInv
<1>2. /\ worker[e] = "ready" /\ worker' = [worker EXCEPT ![e] = "waiting"]
      /\ attempt' = [attempt EXCEPT ![e] = attempt[e] + 1]
      /\ UNCHANGED <<maxAttempts, session, alert, active, carried, interrupted,
                     pendingAlert, tried>>
  BY DEF Send
<1>3. attempt[e] \in 0..maxAttempts /\ attempt[e] < maxAttempts /\ maxAttempts \in Nat
  BY <1>1, <1>2, AttemptsAssumption DEF StationTypes, Carries
<1>4. attempt[e] + 1 \in 0..maxAttempts
  BY <1>3
<1>5. StationTypes'
  BY <1>1, <1>2, <1>4 DEF StationTypes, Phases
<1>6. ASSUME NEW d \in Events PROVE Carries(d)' /\ IsTriedOrWaits(d)'
  BY <1>1, <1>2 DEF Carries, IsTriedOrWaits, StationTypes, Known
<1>. QED  BY <1>1, <1>2, <1>5, <1>6 DEF StationInv

LEMMA UnavailableKeepsInv ==
    ASSUME StationInv, NEW e \in Events, Unavailable(e) PROVE StationInv'
<1>1. StationTypes /\ (session = "none" => active = {})
      /\ \A d \in Events : Carries(d) /\ IsTriedOrWaits(d)
  BY DEF StationInv
<1>2. worker[e] = "waiting"
  BY DEF Unavailable
<1>3. CASE attempt[e] = maxAttempts
  BY <1>2, <1>3, EndKeepsInv DEF Unavailable
<1>4. CASE attempt[e] # maxAttempts
  <2>1. /\ worker' = [worker EXCEPT ![e] = "ready"]
        /\ UNCHANGED <<maxAttempts, session, alert, active, carried, attempt,
                       interrupted, pendingAlert, tried>>
    BY <1>4 DEF Unavailable
  <2>2. attempt[e] \in 0..maxAttempts /\ maxAttempts \in Nat
    BY <1>1, AttemptsAssumption DEF StationTypes
  <2>3. attempt[e] < maxAttempts
    BY <1>4, <2>2
  <2>4. StationTypes'
    BY <1>1, <2>1 DEF StationTypes, Phases
  <2>5. ASSUME NEW d \in Events PROVE Carries(d)' /\ IsTriedOrWaits(d)'
    BY <1>1, <1>2, <2>1, <2>3 DEF Carries, IsTriedOrWaits, StationTypes, Known
  <2>. QED  BY <1>1, <2>1, <2>4, <2>5 DEF StationInv
<1>. QED  BY <1>3, <1>4

LEMMA SessionKeepsInv ==
    ASSUME StationInv, Login \/ Logout PROVE StationInv'
<1>1. StationTypes /\ (session = "none" => active = {})
      /\ \A d \in Events : Carries(d) /\ IsTriedOrWaits(d)
  BY DEF StationInv
<1>2. CASE Login
  <2>1. StationTypes'
    BY <1>1, <1>2 DEF Login, StationTypes, workerVars
  <2>2. ASSUME NEW d \in Events PROVE Carries(d)' /\ IsTriedOrWaits(d)'
    BY <1>1, <1>2 DEF Login, Carries, IsTriedOrWaits, workerVars
  <2>. QED  BY <1>2, <2>1, <2>2 DEF StationInv, Login
<1>3. CASE Logout
  <2>1. StationTypes'
    BY <1>1, <1>3 DEF Logout, StationTypes, MaybeSeverity, Known
  <2>2. ASSUME NEW d \in Events PROVE Carries(d)' /\ IsTriedOrWaits(d)'
    BY <1>1, <1>3 DEF Logout, Carries, IsTriedOrWaits
  <2>. QED  BY <1>3, <2>1, <2>2 DEF StationInv, Logout
<1>. QED  BY <1>2, <1>3

\* The local engine raises an alert, or escalates one.
LEMMA RaiseKeepsInv ==
    ASSUME StationInv, NEW e \in Events, NEW s \in Severities, RaiseAlert(e, s)
    PROVE  StationInv'
<1>1. StationTypes /\ \A d \in Events : Carries(d) /\ IsTriedOrWaits(d)
  BY DEF StationInv
<1>2. /\ session # "none" /\ alert[e] = "none" /\ alert' = [alert EXCEPT ![e] = s]
      /\ active' = active \cup {e} /\ UNCHANGED <<maxAttempts, session, pendingAlert>>
      /\ s \in MaybeSeverity /\ s # "none"
  BY DEF RaiseAlert, MaybeSeverity, Severities
<1>3. pendingAlert[e] = "none"
  BY <1>1, <1>2 DEF IsTriedOrWaits
<1>4. alert' \in [Events -> MaybeSeverity] /\ alert'[e] = s /\ active' \subseteq Events
      /\ \A d \in Events : d # e => alert'[d] = alert[d]
  BY <1>1, <1>2 DEF StationTypes
<1>5. CASE session = "api"
  <2>1. StartDelivery(e, s)
    BY <1>5 DEF RaiseAlert
  <2>2. pendingAlert' \in [Events -> MaybeSeverity]
    BY <1>1, <1>2 DEF StationTypes
  <2>. QED  BY <1>2, <1>3, <1>4, <2>1, <2>2, StartKeepsInv
<1>6. CASE session # "api"
  <2>1. UNCHANGED <<workerVars, tried>>
    BY <1>6 DEF RaiseAlert, NoDelivery
  <2>2. StationTypes'
    BY <1>1, <1>2, <1>4, <2>1 DEF StationTypes, workerVars
  <2>3. ASSUME NEW d \in Events PROVE Carries(d)' /\ IsTriedOrWaits(d)'
    <3>1. Carries(d)'
      BY <1>1, <1>2, <2>1 DEF Carries, workerVars
    <3>2. IsTriedOrWaits(d)'
      BY <1>1, <1>2, <1>3, <1>4, <1>6 DEF IsTriedOrWaits
    <3>. QED  BY <3>1, <3>2
  <2>. QED  BY <1>2, <2>2, <2>3 DEF StationInv
<1>. QED  BY <1>5, <1>6

LEMMA EscalateKeepsInv ==
    ASSUME StationInv, NEW e \in Events, EscalateAlert(e) PROVE StationInv'
<1>1. StationTypes /\ (session = "none" => active = {})
      /\ \A d \in Events : Carries(d) /\ IsTriedOrWaits(d)
  BY DEF StationInv
<1>2. /\ e \in active /\ alert[e] = "warning"
      /\ alert' = [alert EXCEPT ![e] = "critical"]
      /\ UNCHANGED <<maxAttempts, session, active>>
  BY DEF EscalateAlert
<1>3. pendingAlert[e] = "none" /\ "critical" \in Severities
  BY <1>1, <1>2 DEF IsTriedOrWaits, Severities
<1>4. alert' \in [Events -> MaybeSeverity] /\ alert'[e] = "critical" /\ active' \subseteq Events
      /\ \A d \in Events : d # e => alert'[d] = alert[d]
  BY <1>1, <1>2, <1>3 DEF StationTypes, MaybeSeverity
<1>5. CASE session = "api" /\ ~Known(e)
  <2>1. StartDelivery(e, "critical") /\ UNCHANGED pendingAlert
    BY <1>5 DEF EscalateAlert
  <2>2. pendingAlert' \in [Events -> MaybeSeverity]
    BY <1>1, <2>1 DEF StationTypes
  <2>. QED  BY <1>1, <1>2, <1>3, <1>4, <2>1, <2>2, StartKeepsInv
<1>6. CASE ~(session = "api" /\ ~Known(e))
  <2>1. /\ UNCHANGED <<workerVars, tried>>
        /\ pendingAlert' = IF session = "api" THEN [pendingAlert EXCEPT ![e] = "critical"]
                           ELSE pendingAlert
    BY <1>6 DEF EscalateAlert, NoDelivery
  <2>2. StationTypes'
    BY <1>1, <1>2, <1>3, <1>4, <2>1 DEF StationTypes, workerVars, MaybeSeverity
  <2>3. ASSUME NEW d \in Events PROVE Carries(d)' /\ IsTriedOrWaits(d)'
    <3>1. Carries(d)'
      BY <1>1, <1>2, <2>1 DEF Carries, workerVars
    <3>2. IsTriedOrWaits(d)'
      BY <1>1, <1>2, <1>3, <1>4, <1>6, <2>1 DEF IsTriedOrWaits, workerVars, Known, StationTypes
    <3>. QED  BY <3>1, <3>2
  <2>. QED  BY <1>1, <1>2, <2>2, <2>3 DEF StationInv
<1>. QED  BY <1>5, <1>6

\* The slot of the finished signal.
LEMMA DisposeKeepsInv ==
    ASSUME StationInv, NEW e \in Events, DisposeWorker(e) PROVE StationInv'
<1>1. StationTypes /\ (session = "none" => active = {})
      /\ \A d \in Events : Carries(d) /\ IsTriedOrWaits(d)
  BY DEF StationInv
<1>2. /\ worker[e] = "ended" /\ pendingAlert' = [pendingAlert EXCEPT ![e] = "none"]
      /\ UNCHANGED <<maxAttempts, session, alert, active>>
  BY DEF DisposeWorker
<1>3. pendingAlert' \in [Events -> MaybeSeverity] /\ pendingAlert'[e] = "none"
      /\ \A d \in Events : d # e => pendingAlert'[d] = pendingAlert[d]
  BY <1>1, <1>2 DEF StationTypes, MaybeSeverity
<1>4. CASE pendingAlert[e] # "none" /\ session = "api"
  <2>1. StartDelivery(e, pendingAlert[e])
    BY <1>4 DEF DisposeWorker
  <2>2. pendingAlert[e] = "critical" /\ alert[e] = "critical" /\ "critical" \in Severities
    BY <1>1, <1>4 DEF IsTriedOrWaits, Severities
  <2>3. alert' \in [Events -> MaybeSeverity] /\ active' \subseteq Events
    BY <1>1, <1>2 DEF StationTypes
  <2>. QED  BY <1>1, <1>2, <1>3, <2>1, <2>2, <2>3, StartKeepsInv
<1>5. CASE ~(pendingAlert[e] # "none" /\ session = "api")
  <2>1. /\ worker' = [worker EXCEPT ![e] = "none"]
        /\ interrupted' = [interrupted EXCEPT ![e] = FALSE]
        /\ UNCHANGED <<carried, attempt, tried>>
    BY <1>5 DEF DisposeWorker
  <2>2. StationTypes'
    BY <1>1, <1>2, <1>3, <2>1 DEF StationTypes, Phases
  <2>3. ASSUME NEW d \in Events PROVE Carries(d)' /\ IsTriedOrWaits(d)'
    <3>1. Carries(d)'
      BY <1>1, <1>2, <2>1 DEF Carries, StationTypes
    <3>2. IsTriedOrWaits(d)'
      BY <1>1, <1>2, <1>3, <1>5, <2>1 DEF IsTriedOrWaits, Known, StationTypes
    <3>. QED  BY <3>1, <3>2
  <2>. QED  BY <1>1, <1>2, <2>2, <2>3 DEF StationInv
<1>. QED  BY <1>4, <1>5

-----------------------------------------------------------------------------
\* What is stored only grows.
Grows == \A e \in Events : Precedes(Database(e), Database(e)')

LEMMA StoredIsSeen ==
    StoreTypes => \A e \in Events : Database(e) \in Seen
BY DEF StoreTypes, Database, Seen

LEMMA StoredIsSeenNext == (StoreTypes => \A e \in Events : Database(e) \in Seen)'
BY StoredIsSeen, PTL

LEMMA GrowsWithRows ==
    ASSUME StoreTypes, StoreTypes', Grows
    PROVE  OfStored \subseteq OfStored'
<1>. SUFFICES ASSUME NEW x \in OfStored PROVE x \in OfStored'
  OBVIOUS
<1>1. x \in Envelopes /\ Rank(x.level) <= Rank(level[x.event]) /\ x.event \in Events
      /\ x.level \in MaybeSeverity
  BY DEF OfStored, Envelopes, MaybeSeverity
<1>2. Rank(level[x.event]) <= Rank(level'[x.event])
  BY <1>1 DEF Grows, Precedes, Database
<1>3. /\ Rank(x.level) \in 0..2 /\ Rank(level[x.event]) \in 0..2
      /\ Rank(level'[x.event]) \in 0..2
  BY <1>1, Ranks DEF StoreTypes
<1>. QED  BY <1>1, <1>2, <1>3 DEF OfStored

LEMMA NothingStored ==
    ASSUME StoreTypes, UNCHANGED <<level, status>> PROVE Grows
<1>1. \A e \in Events : Database(e)' = Database(e)
  BY DEF Database
<1>. QED  BY <1>1, StoredIsSeen, PrecedesIsAnOrder DEF Grows

LEMMA StoreIdle ==
    ASSUME StoreInv, UNCHANGED <<serverVars, ghostVars, restarts>>
    PROVE  StoreInv' /\ Grows
<1>1. StoreInv'
  BY DEF StoreInv, StoreTypes, StoredOnce, RegisteredIsStored, EveryChangeIsPublished, Stored,
         OfStored, serverVars, dataVars, ghostVars
<1>2. Grows
  BY NothingStored DEF StoreInv, serverVars, dataVars
<1>. QED  BY <1>1, <1>2

\* Requests and answers come and go; nothing is stored, no receipt is given.
LEMMA TrafficKeepsInv ==
    ASSUME StoreInv, UNCHANGED <<dataVars, publishing, ghostVars, restarts>>,
           requests' \subseteq Requests, actions' \subseteq Actions
    PROVE  StoreInv' /\ Grows
<1>1. StoreInv'
  BY DEF StoreInv, StoreTypes, StoredOnce, RegisteredIsStored, EveryChangeIsPublished, Stored,
         OfStored, dataVars, ghostVars
<1>2. Grows
  BY NothingStored DEF StoreInv, dataVars
<1>. QED  BY <1>1, <1>2

\* What serving a request does to the alert: it is at least as severe as the
\* request says then, and it is published if it changed.
LEMMA ServeStores ==
    ASSUME StoreInv, NEW r \in requests, Serve(r)
    PROVE  /\ r.event \in Events /\ r.severity \in Severities
           /\ level' \in [Events -> MaybeSeverity]
           /\ Rank(r.severity) <= Rank(level'[r.event])
           /\ level[r.event] # "none" => Rank(level[r.event]) <= Rank(level'[r.event])
           /\ \A d \in Events : d # r.event => level'[d] = level[d]
           /\ \/ UNCHANGED <<level, publishing>>
              \/ publishing' = publishing \cup {Envelope(r.event, level'[r.event])}
           /\ \/ UNCHANGED <<rows, status>> /\ level[r.event] # "none"
              \/ /\ level[r.event] = "none"
                 /\ rows' = [rows EXCEPT ![r.event] = rows[r.event] + 1]
                 /\ status' = [status EXCEPT ![r.event] = "nao_lido"]
<1>1. StoreTypes /\ r.event \in Events /\ r.severity \in Severities
      /\ r.severity \in MaybeSeverity
  BY DEF StoreInv, StoreTypes, Requests, MaybeSeverity
<1>2. CASE level[r.event] # "none"
  <2>1. Existing(r)
    BY <1>2 DEF Serve, Commit
  <2>2. CASE r.severity = "critical" /\ level[r.event] # "critical"
    <3>1. level' = [level EXCEPT ![r.event] = "critical"]
          /\ publishing' = publishing \cup {Envelope(r.event, "critical")}
          /\ UNCHANGED <<rows, status>>
      BY <2>1, <2>2 DEF Existing, Publishes
    <3>2. level'[r.event] = "critical" /\ level' \in [Events -> MaybeSeverity]
      BY <1>1, <2>2, <3>1 DEF StoreTypes
    <3>. QED  BY <1>1, <1>2, <2>2, <3>1, <3>2, Ranks DEF StoreTypes
  <2>3. CASE ~(r.severity = "critical" /\ level[r.event] # "critical")
    <3>1. UNCHANGED <<rows, level, status, publishing>>
      BY <2>1, <2>3 DEF Existing, dataVars
    <3>2. Rank(r.severity) <= Rank(level[r.event])
      BY <1>1, <1>2, <2>3, Ranks DEF StoreTypes, MaybeSeverity, Severities
    <3>3. Rank(level[r.event]) \in 0..2
      BY <1>1, Ranks DEF StoreTypes
    <3>. QED  BY <1>1, <1>2, <3>1, <3>2, <3>3 DEF StoreTypes
  <2>. QED  BY <2>2, <2>3
<1>3. CASE level[r.event] = "none"
  <2>1. /\ rows' = [rows EXCEPT ![r.event] = rows[r.event] + 1]
        /\ level' = [level EXCEPT ![r.event] = r.severity]
        /\ status' = [status EXCEPT ![r.event] = "nao_lido"]
        /\ publishing' = publishing \cup {Envelope(r.event, r.severity)}
    BY <1>3 DEF Serve, Commit, Publishes
  <2>2. level'[r.event] = r.severity /\ level' \in [Events -> MaybeSeverity]
    BY <1>1, <2>1 DEF StoreTypes
  <2>3. Rank(r.severity) \in 0..2
    BY <1>1, Ranks
  <2>. QED  BY <1>1, <1>3, <2>1, <2>2, <2>3 DEF StoreTypes
<1>. QED  BY <1>2, <1>3

LEMMA ServeKeepsInv ==
    ASSUME StoreInv, NEW r \in requests, Serve(r), UNCHANGED <<announced, restarts>>,
           registered' \in {registered, [registered EXCEPT ![r.event] = r.severity]}
    PROVE  StoreInv' /\ Grows
<1>1. /\ StoreTypes /\ (\A e \in Events : level[e] = "none" => status[e] = "none")
      /\ StoredOnce /\ RegisteredIsStored /\ EveryChangeIsPublished
      /\ publishing \subseteq OfStored
  BY DEF StoreInv
<1>2. /\ r.event \in Events /\ r.severity \in Severities
      /\ level' \in [Events -> MaybeSeverity]
      /\ Rank(r.severity) <= Rank(level'[r.event])
      /\ level[r.event] # "none" => Rank(level[r.event]) <= Rank(level'[r.event])
      /\ \A d \in Events : d # r.event => level'[d] = level[d]
  BY ServeStores
<1>3. \/ UNCHANGED <<level, publishing>>
      \/ publishing' = publishing \cup {Envelope(r.event, level'[r.event])}
  BY ServeStores
<1>4. \/ UNCHANGED <<rows, status>> /\ level[r.event] # "none"
      \/ /\ level[r.event] = "none"
         /\ rows' = [rows EXCEPT ![r.event] = rows[r.event] + 1]
         /\ status' = [status EXCEPT ![r.event] = "nao_lido"]
  BY ServeStores
<1>5. /\ Rank(r.severity) \in 1..2
      /\ \A e \in Events : Rank(level[e]) \in 0..2 /\ Rank(level'[e]) \in 0..2
  BY <1>1, <1>2, Ranks DEF StoreTypes, MaybeSeverity, Severities
<1>6. level'[r.event] # "none" /\ level'[r.event] \in Severities
  BY <1>2, <1>5, Ranks DEF MaybeSeverity
<1>7. \A e \in Events : Rank(level[e]) <= Rank(level'[e])
  BY <1>2, <1>5, Ranks
<1>8. StoreTypes'
  <2>1. requests' \subseteq Requests /\ actions' \subseteq Actions
    BY <1>1 DEF Serve, StoreTypes
  <2>2. rows' \in [Events -> Nat] /\ status' \in [Events -> Statuses \cup {"none"}]
    BY <1>1, <1>2, <1>4 DEF StoreTypes, Statuses
  <2>3. registered' \in [Events -> MaybeSeverity]
    BY <1>1, <1>2 DEF StoreTypes, MaybeSeverity
  <2>4. publishing' \subseteq Envelopes
    BY <1>1, <1>2, <1>3, <1>6 DEF StoreTypes, Envelopes, Envelope
  <2>. QED  BY <1>1, <1>2, <2>1, <2>2, <2>3, <2>4 DEF StoreTypes
<1>9. Grows
  <2>1. ASSUME NEW e \in Events PROVE Progress(status[e]) <= Progress(status'[e])
    <3>1. status[e] = status'[e] \/ status[e] = "none"
      BY <1>1, <1>2, <1>4 DEF StoreTypes
    <3>2. Progress(status[e]) \in 0..3 /\ Progress(status'[e]) \in 0..3
      BY <1>1, <1>8, ProgressOfStatuses DEF StoreTypes
    <3>. QED  BY <3>1, <3>2, ProgressOfStatuses
  <2>. QED  BY <1>7, <2>1 DEF Grows, Precedes, Database
<1>10. publishing' \subseteq OfStored'
  <2>1. publishing \subseteq OfStored'
    BY <1>1, <1>8, <1>9, GrowsWithRows
  <2>2. Envelope(r.event, level'[r.event]) \in OfStored'
    BY <1>2, <1>5, <1>6 DEF OfStored, Envelopes, Envelope
  <2>. QED  BY <1>3, <2>1, <2>2
<1>11. \A e \in Events : level'[e] = "none" => status'[e] = "none"
  BY <1>1, <1>2, <1>4, <1>6 DEF StoreTypes
<1>12. StoredOnce'
  BY <1>1, <1>2, <1>4, <1>6 DEF StoredOnce, Stored, StoreTypes
<1>13. RegisteredIsStored'
  <2>1. ASSUME NEW e \in Events PROVE Rank(registered'[e]) <= Rank(level'[e])
    <3>1. registered'[e] = registered[e] \/ (e = r.event /\ registered'[e] = r.severity)
      <4>1. CASE registered' = registered
        BY <4>1
      <4>2. CASE registered' = [registered EXCEPT ![r.event] = r.severity]
        BY <1>1, <4>2 DEF StoreTypes
      <4>. QED  BY <4>1, <4>2
    <3>2. Rank(registered[e]) <= Rank(level[e]) /\ Rank(registered[e]) \in 0..2
      BY <1>1, Ranks DEF RegisteredIsStored, StoreTypes
    <3>. QED  BY <1>2, <1>5, <1>7, <3>1, <3>2
  <2>. QED  BY <2>1 DEF RegisteredIsStored
<1>14. EveryChangeIsPublished'
  <2>1. ASSUME NEW e \in Events, level'[e] # "none"
        PROVE  \/ Rank(level'[e]) <= Rank(announced[e])
               \/ Envelope(e, level'[e]) \in publishing'
               \/ restarts > 0
    <3>1. CASE level'[e] = level[e]
      BY <1>1, <1>3, <2>1, <3>1 DEF EveryChangeIsPublished, Stored
    <3>2. CASE level'[e] # level[e]
      BY <1>2, <1>3, <3>2
    <3>. QED  BY <3>1, <3>2
  <2>. QED  BY <2>1 DEF EveryChangeIsPublished, Stored
<1>. QED  BY <1>8, <1>9, <1>10, <1>11, <1>12, <1>13, <1>14 DEF StoreInv

\* An action of an administrator moves the alert on, or changes nothing.
LEMMA TransitionKeepsInv ==
    ASSUME StoreInv, NEW a \in Actions, Transition(a), actions' \subseteq Actions,
           UNCHANGED <<ghostVars, restarts>>
    PROVE  StoreInv' /\ Grows
<1>1. /\ StoreTypes /\ (\A e \in Events : level[e] = "none" => status[e] = "none")
      /\ StoredOnce /\ RegisteredIsStored /\ EveryChangeIsPublished
      /\ publishing \subseteq OfStored
  BY DEF StoreInv
<1>2. /\ status' = [status EXCEPT ![a.event] = IF Applies(a) THEN After(a) ELSE status[a.event]]
      /\ UNCHANGED <<rows, level, requests, publishing, registered, announced, restarts>>
      /\ a.event \in Events /\ a.action \in {"confirm", "close"}
  BY DEF Transition, Actions, ghostVars
<1>3. Applies(a) => /\ status[a.event] # "none" /\ After(a) \in Statuses
                    /\ Progress(status[a.event]) <= Progress(After(a))
  BY <1>2, ProgressOfStatuses DEF Applies, After, Statuses
<1>4. StoreTypes'
  BY <1>1, <1>2, <1>3 DEF StoreTypes
<1>5. \A e \in Events : level'[e] = "none" => status'[e] = "none"
  BY <1>1, <1>2, <1>3 DEF StoreTypes
<1>6. Grows
  <2>1. ASSUME NEW e \in Events PROVE Progress(status[e]) <= Progress(status'[e])
    <3>1. \/ status'[e] = status[e]
          \/ e = a.event /\ Applies(a) /\ status'[e] = After(a)
      BY <1>1, <1>2 DEF StoreTypes
    <3>2. Progress(status[e]) \in 0..3
      BY <1>1, ProgressOfStatuses DEF StoreTypes
    <3>. QED  BY <1>3, <3>1, <3>2
  <2>2. \A e \in Events : Rank(level[e]) \in 0..2
    BY <1>1, Ranks DEF StoreTypes
  <2>. QED  BY <1>2, <2>1, <2>2 DEF Grows, Precedes, Database
<1>7. StoredOnce' /\ RegisteredIsStored' /\ EveryChangeIsPublished' /\ publishing' \subseteq OfStored'
  BY <1>1, <1>2 DEF StoredOnce, RegisteredIsStored, EveryChangeIsPublished, Stored, OfStored
<1>. QED  BY <1>4, <1>5, <1>6, <1>7 DEF StoreInv

LEMMA PublishKeepsInv ==
    ASSUME StoreInv, NEW x \in publishing, publishing' = publishing \ {x},
           announced' = [announced EXCEPT ![x.event] =
                            IF Rank(@) < Rank(x.level) THEN x.level ELSE @],
           UNCHANGED <<dataVars, requests, actions, registered, restarts>>
    PROVE  StoreInv' /\ Grows
<1>1. /\ StoreTypes /\ (\A e \in Events : level[e] = "none" => status[e] = "none")
      /\ StoredOnce /\ RegisteredIsStored /\ EveryChangeIsPublished
      /\ publishing \subseteq OfStored
  BY DEF StoreInv
<1>2. x.event \in Events /\ x.level \in MaybeSeverity
  BY <1>1 DEF StoreTypes, Envelopes, MaybeSeverity
<1>3. announced' \in [Events -> MaybeSeverity]
  BY <1>1, <1>2 DEF StoreTypes
<1>4. StoreTypes'
  BY <1>1, <1>3 DEF StoreTypes, dataVars
<1>5. Grows
  BY <1>1, NothingStored DEF dataVars
<1>6. StoredOnce' /\ RegisteredIsStored' /\ publishing' \subseteq OfStored'
      /\ \A e \in Events : level'[e] = "none" => status'[e] = "none"
  BY <1>1 DEF StoredOnce, RegisteredIsStored, Stored, OfStored, dataVars
<1>7. EveryChangeIsPublished'
  <2>1. ASSUME NEW e \in Stored
        PROVE  \/ Rank(level[e]) <= Rank(announced'[e])
               \/ Envelope(e, level[e]) \in publishing'
               \/ restarts > 0
    <3>1. e \in Events /\ level[e] \in MaybeSeverity /\ announced[e] \in MaybeSeverity
          /\ announced'[e] \in MaybeSeverity
      BY <1>1, <1>3 DEF Stored, StoreTypes
    <3>2. /\ Rank(level[e]) \in 0..2 /\ Rank(announced[e]) \in 0..2
          /\ Rank(announced'[e]) \in 0..2 /\ Rank(x.level) \in 0..2
      BY <1>2, <3>1, Ranks
    <3>3. Rank(announced[e]) <= Rank(announced'[e])
      BY <1>1, <1>2, <3>1, <3>2 DEF StoreTypes
    <3>4. CASE Rank(level[e]) <= Rank(announced[e])
      BY <3>2, <3>3, <3>4
    <3>5. CASE Envelope(e, level[e]) = x
      <4>1. x.event = e /\ x.level = level[e]
        BY <3>5 DEF Envelope
      <4>2. Rank(level[e]) <= Rank(announced'[e])
        BY <1>1, <3>1, <3>2, <4>1 DEF StoreTypes
      <4>. QED  BY <4>2
    <3>6. CASE Envelope(e, level[e]) \in publishing /\ Envelope(e, level[e]) # x
      BY <3>6
    <3>. QED  BY <1>1, <2>1, <3>4, <3>5, <3>6 DEF EveryChangeIsPublished
  <2>. QED  BY <2>1 DEF EveryChangeIsPublished, Stored, dataVars
<1>. QED  BY <1>4, <1>5, <1>6, <1>7 DEF StoreInv

LEMMA RestartKeepsInv ==
    ASSUME StoreInv, Restart, restarts' = restarts + 1, UNCHANGED ghostVars
    PROVE  StoreInv' /\ Grows
<1>1. StoreTypes' /\ restarts' > 0
  BY DEF StoreInv, StoreTypes, Restart, dataVars, ghostVars
<1>2. Grows
  BY NothingStored DEF StoreInv, Restart, dataVars
<1>. QED  BY <1>1, <1>2
     DEF StoreInv, StoredOnce, RegisteredIsStored, EveryChangeIsPublished, Stored, OfStored,
         Restart, dataVars, ghostVars

-----------------------------------------------------------------------------
\* The inbox of the administrator.
LEMMA SequencesOfMore ==
    ASSUME NEW S, NEW T, S \subseteq T, NEW s \in Seq(S) PROVE s \in Seq(T)
OBVIOUS

\* It keeps up with a database that only grows, also when a request for an
\* action fails or is answered by what the database has of the alert then.
LEMMA AnswerKeepsInv ==
    ASSUME InboxInv, StoreTypes, StoreTypes', Grows,
           UNCHANGED <<realtimeVars, inbox, listVars, asked, refreshPending, loadQueued,
                       loadFailed>>,
           \/ UNCHANGED <<actionPhase, result>>
           \/ actionPhase = "asked" /\ actionPhase' = "failed" /\ UNCHANGED result
           \/ /\ actionPhase = "asked" /\ actionPhase' = "answered"
              /\ result' = [level |-> level'[asked.event], status |-> status'[asked.event]]
    PROVE  InboxInv'
<1>1. InboxTypes /\ OneThread /\ InOrder /\ InboxFollowsBanner /\ PageFollowsBanner
  BY DEF InboxInv
<1>2. OfStored \subseteq OfStored'
  BY GrowsWithRows
<1>3. UNCHANGED <<connected, wire, seen, banner, inbox, listPhase, page, asked,
                  refreshPending, loadQueued, loadFailed>>
  BY DEF realtimeVars, listVars
<1>4. wire' \in Seq(OfStored')
  BY <1>1, <1>2, <1>3, SequencesOfMore DEF InboxTypes
<1>5. \A e \in Events : Database(e) \in Seen /\ Database(e)' \in Seen
  BY StoredIsSeen, StoredIsSeenNext
<1>6. actionPhase' = "answered" =>
        /\ asked.event \in Events /\ result' \in Seen
        /\ \/ actionPhase = "answered" /\ result' = result
           \/ \A e \in Events : e = asked.event => result' = Database(e)'
  BY <1>1, <1>5 DEF InboxTypes, Actions, Database
<1>7. InboxTypes'
  BY <1>1, <1>2, <1>3, <1>4, <1>6 DEF InboxTypes, WorkerPhases
<1>8. OneThread' /\ InboxFollowsBanner' /\ PageFollowsBanner'
  BY <1>1, <1>3 DEF OneThread, InboxFollowsBanner, PageFollowsBanner
<1>9. InOrder'
  <2>1. ASSUME NEW e \in Events, NEW x \in Seen, Precedes(x, Database(e))
        PROVE  Precedes(x, Database(e)')
    BY <1>5, <2>1, PrecedesIsAnOrder DEF Grows
  <2>2. ASSUME NEW e \in Events
        PROVE  /\ Precedes(inbox[e], Database(e)')
               /\ listPhase = "answered" => Precedes(page[e], Database(e)')
    <3>1. inbox[e] \in Seen /\ page[e] \in Seen
      BY <1>1 DEF InboxTypes
    <3>. QED  BY <1>1, <2>1, <3>1 DEF InOrder
  <2>3. ASSUME actionPhase' = "answered", NEW e \in Events, e = asked.event
        PROVE  Precedes(inbox[e], result') /\ Precedes(result', Database(e)')
    <3>1. CASE actionPhase = "answered" /\ result' = result
      BY <1>1, <1>6, <2>1, <2>3, <3>1 DEF InOrder
    <3>2. CASE result' = Database(e)'
      BY <1>5, <2>2, <3>2, PrecedesIsAnOrder
    <3>. QED  BY <1>6, <2>3, <3>1, <3>2
  <2>. QED  BY <1>1, <1>3, <1>6, <2>2, <2>3 DEF InOrder, Database
<1>. QED  BY <1>7, <1>8, <1>9 DEF InboxInv

LEMMA InboxIdle ==
    ASSUME InboxInv, StoreTypes, StoreTypes', Grows, UNCHANGED inboxVars
    PROVE  InboxInv'
BY AnswerKeepsInv DEF inboxVars, actionVars

\* Steps that take over nothing into the inbox and read no page.
LEMMA OrderIsKept ==
    ASSUME InOrder, UNCHANGED <<level, status, inbox, page>>,
           listPhase' = "answered" => listPhase = "answered",
           actionPhase' = "answered" => actionPhase = "answered" /\ UNCHANGED <<asked, result>>
    PROVE  InOrder' /\ OfStored' = OfStored
BY DEF InOrder, Database, OfStored

\* The list is asked for now or later; a thread that runs is left alone.
LEMMA RefreshIsAskedFor ==
    ASSUME InboxTypes, OneThread, request_refresh
    PROVE  /\ refreshPending' \/ listPhase' = "asked"
           /\ refreshPending => refreshPending'
           /\ refreshPending' \in BOOLEAN /\ listPhase' \in WorkerPhases
           /\ listPhase' = listPhase \/ (Idle /\ listPhase' = "asked")
BY DEF request_refresh, InboxTypes, WorkerPhases

LEMMA RefreshKeepsInv ==
    ASSUME InboxInv, UNCHANGED <<level, status>>, LoadTimer \/ ClickRefresh PROVE InboxInv'
<1>1. InboxTypes /\ OneThread /\ InOrder /\ InboxFollowsBanner /\ PageFollowsBanner
  BY DEF InboxInv
<1>2. /\ UNCHANGED <<connected, wire, seen, banner, inbox, page, actionPhase, asked, result,
                     loadFailed>>
      /\ loadQueued' \in BOOLEAN /\ request_refresh
  BY <1>1 DEF LoadTimer, ClickRefresh, realtimeVars, actionVars, InboxTypes
<1>3. /\ refreshPending' \/ listPhase' = "asked"
      /\ refreshPending' \in BOOLEAN /\ listPhase' \in WorkerPhases
      /\ listPhase' = listPhase \/ (Idle /\ listPhase' = "asked")
  BY <1>1, <1>2, RefreshIsAskedFor
<1>4. InOrder' /\ OfStored' = OfStored
  BY <1>1, <1>2, <1>3, OrderIsKept
<1>5. InboxTypes' /\ OneThread'
  BY <1>1, <1>2, <1>3, <1>4 DEF InboxTypes, OneThread, Idle
<1>6. InboxFollowsBanner' /\ PageFollowsBanner'
  BY <1>3 DEF InboxFollowsBanner, PageFollowsBanner
<1>. QED  BY <1>4, <1>5, <1>6 DEF InboxInv

LEMMA HandleAlertKeepsInv ==
    ASSUME InboxInv, UNCHANGED <<level, status>>, HandleAlert PROVE InboxInv'
<1>1. InboxTypes /\ OneThread /\ InOrder /\ InboxFollowsBanner /\ PageFollowsBanner
  BY DEF InboxInv
<1>2. /\ wire # <<>> /\ wire' = Tail(wire)
      /\ UNCHANGED <<connected, inbox, page, actionPhase, asked, result, loadQueued, loadFailed>>
  BY DEF HandleAlert, actionVars
<1>3. Head(wire) \in OfStored /\ Tail(wire) \in Seq(OfStored) /\ Len(Tail(wire)) <= MaxWire
  <2>1. wire \in Seq(OfStored) /\ Len(wire) <= MaxWire
    BY <1>1 DEF InboxTypes
  <2>2. PICK n : n = Len(wire)
    OBVIOUS
  <2>3. n \in Nat /\ n # 0
    BY <1>2, <2>1, <2>2
  <2>4. Head(wire) \in OfStored /\ Tail(wire) \in Seq(OfStored) /\ Len(Tail(wire)) = n - 1
    BY <1>2, <2>1, <2>2
  <2>. QED  BY <2>1, <2>2, <2>3, <2>4, WireAssumption
<1>4. CASE Head(wire).event \in seen
  <2>1. UNCHANGED <<seen, banner, refreshPending, listPhase>>
    BY <1>4 DEF HandleAlert
  <2>2. InOrder' /\ OfStored' = OfStored
    BY <1>1, <1>2, <2>1, OrderIsKept
  <2>3. InboxTypes' /\ OneThread'
    BY <1>1, <1>2, <1>3, <2>1, <2>2 DEF InboxTypes, OneThread
  <2>4. InboxFollowsBanner' /\ PageFollowsBanner'
    BY <1>1, <1>2, <2>1 DEF InboxFollowsBanner, PageFollowsBanner
  <2>. QED  BY <2>2, <2>3, <2>4 DEF InboxInv
<1>5. CASE Head(wire).event \notin seen
  <2>1. /\ seen' = seen \cup {Head(wire).event} /\ banner' = Head(wire) /\ request_refresh
    BY <1>5 DEF HandleAlert
  <2>2. /\ refreshPending' \/ listPhase' = "asked"
        /\ refreshPending' \in BOOLEAN /\ listPhase' \in WorkerPhases
        /\ listPhase' = listPhase \/ (Idle /\ listPhase' = "asked")
    BY <1>1, <2>1, RefreshIsAskedFor
  <2>3. InOrder' /\ OfStored' = OfStored
    BY <1>1, <1>2, <2>2, OrderIsKept
  <2>4. seen' \subseteq Events
    BY <1>1, <1>3, <2>1 DEF InboxTypes, OfStored, Envelopes
  <2>5. InboxTypes'
    BY <1>1, <1>2, <1>3, <2>1, <2>2, <2>3, <2>4 DEF InboxTypes
  <2>6. OneThread'
    BY <1>1, <1>2, <2>2 DEF OneThread, Idle
  <2>7. InboxFollowsBanner' /\ PageFollowsBanner'
    BY <2>2 DEF InboxFollowsBanner, PageFollowsBanner
  <2>. QED  BY <2>3, <2>5, <2>6, <2>7 DEF InboxInv
<1>. QED  BY <1>4, <1>5

\* Connections come and go, and an envelope of what is stored may arrive.
LEMMA ConnectionKeepsInv ==
    ASSUME InboxInv, UNCHANGED <<level, status>>,
           \/ Connect \/ ConnectionLost
           \/ /\ \E x \in OfStored : Receives(x)
              /\ UNCHANGED <<seen, banner, inbox, listVars, actionVars, refreshPending,
                             loadQueued, loadFailed>>
    PROVE  InboxInv'
<1>1. InboxTypes /\ OneThread /\ InOrder /\ InboxFollowsBanner /\ PageFollowsBanner
  BY DEF InboxInv
<1>2. UNCHANGED <<seen, banner, inbox, listPhase, page, actionPhase, asked, result,
                  refreshPending, loadQueued, loadFailed>>
  BY DEF Connect, ConnectionLost, listVars, actionVars
<1>3. InOrder' /\ OfStored' = OfStored
  BY <1>1, <1>2, OrderIsKept
<1>4. connected' \in BOOLEAN /\ wire' \in Seq(OfStored) /\ Len(wire') <= MaxWire
  <2>1. /\ wire \in Seq(OfStored) /\ Len(wire) <= MaxWire /\ connected \in BOOLEAN
        /\ <<>> \in Seq(OfStored) /\ Len(<<>>) <= MaxWire
    BY <1>1, WireAssumption DEF InboxTypes
  <2>2. CASE Connect \/ ConnectionLost
    BY <2>1, <2>2 DEF Connect, ConnectionLost
  <2>3. ASSUME NEW x \in OfStored, Receives(x)
        PROVE  connected' \in BOOLEAN /\ wire' \in Seq(OfStored) /\ Len(wire') <= MaxWire
    <3>1. PICK n : n = Len(wire)
      OBVIOUS
    <3>2. n \in Nat /\ Append(wire, x) \in Seq(OfStored) /\ Len(Append(wire, x)) = n + 1
      BY <2>1, <3>1
    <3>3. CASE connected /\ Len(wire) < MaxWire
      <4>0. ~(Len(wire) >= MaxWire)
        BY <3>1, <3>2, <3>3, WireAssumption
      <4>1. wire' = Append(wire, x) /\ connected' = connected
        BY <2>3, <3>3, <4>0, Zenon DEF Receives
      <4>. QED  BY <2>1, <3>1, <3>2, <3>3, <4>1, WireAssumption
    <3>4. CASE ~(connected /\ Len(wire) < MaxWire)
      BY <2>1, <2>3, <3>4 DEF Receives
    <3>. QED  BY <3>3, <3>4
  <2>. QED  BY <2>2, <2>3
<1>5. InboxTypes' /\ OneThread'
  BY <1>1, <1>2, <1>3, <1>4 DEF InboxTypes, OneThread
<1>6. InboxFollowsBanner' /\ PageFollowsBanner'
  BY <1>1, <1>2 DEF InboxFollowsBanner, PageFollowsBanner
<1>. QED  BY <1>3, <1>5, <1>6 DEF InboxInv

\* A page is read as the database is then, or the request fails.
LEMMA ReadKeepsInv ==
    ASSUME InboxInv, StoreTypes, ReadList PROVE InboxInv'
<1>1. InboxTypes /\ OneThread /\ InOrder /\ InboxFollowsBanner /\ PageFollowsBanner
  BY DEF InboxInv
<1>2. /\ listPhase = "asked" /\ listPhase' \in {"answered", "failed"}
      /\ UNCHANGED <<level, status, connected, wire, seen, banner, inbox, actionPhase, asked,
                     result, refreshPending, loadQueued, loadFailed>>
  BY DEF ReadList, serverVars, dataVars, realtimeVars, actionVars
<1>3. actionPhase = "none" /\ OfStored' = OfStored
  BY <1>1, <1>2 DEF OneThread, OfStored
<1>4. Page \in [Events -> Seen] /\ \A e \in Events : Page[e] = Database(e)
  <2>1. \A e \in Events : Database(e) \in Seen
    BY StoredIsSeen
  <2>. QED  BY <2>1 DEF Page, Database
<1>5. page' \in [Events -> Seen] /\ (listPhase' = "answered" => page' = Page)
  BY <1>1, <1>4 DEF ReadList, InboxTypes
<1>6. InboxTypes' /\ OneThread'
  BY <1>1, <1>2, <1>3, <1>5 DEF InboxTypes, OneThread, WorkerPhases
<1>7. InOrder'
  <2>1. ASSUME NEW e \in Events
        PROVE  Precedes(inbox[e], Database(e)) /\ Precedes(Database(e), Database(e))
    BY <1>1, StoredIsSeen, PrecedesIsAnOrder DEF InOrder
  <2>2. \A e \in Events : Database(e)' = Database(e)
    BY <1>2 DEF Database
  <2>. QED  BY <1>2, <1>3, <1>4, <1>5, <2>1, <2>2 DEF InOrder
<1>8. PageFollowsBanner' /\ InboxFollowsBanner'
  <2>1. CASE listPhase' = "failed"
    BY <2>1 DEF PageFollowsBanner, InboxFollowsBanner
  <2>2. CASE listPhase' = "answered" /\ banner # NoBanner
    <3>1. banner \in OfStored
      BY <1>1, <2>2 DEF InboxTypes
    <3>2. banner.event \in Events /\ Rank(banner.level) <= Rank(level[banner.event])
      BY <3>1 DEF OfStored, Envelopes
    <3>3. Rank(banner.level) <= Rank(page'[banner.event].level)
      BY <1>4, <1>5, <2>2, <3>2 DEF Database
    <3>. QED  BY <1>2, <2>2, <3>3 DEF PageFollowsBanner, InboxFollowsBanner
  <2>3. CASE banner = NoBanner
    BY <1>2, <2>3 DEF PageFollowsBanner, InboxFollowsBanner
  <2>. QED  BY <1>2, <2>1, <2>2, <2>3
<1>. QED  BY <1>6, <1>7, <1>8 DEF InboxInv

\* Its slot.  A page that is taken over is not older than the banner, or the
\* list is asked for again.
LEMMA HandleListKeepsInv ==
    ASSUME InboxInv, UNCHANGED <<level, status>>, HandleList PROVE InboxInv'
<1>1. InboxTypes /\ OneThread /\ InOrder /\ InboxFollowsBanner /\ PageFollowsBanner
  BY DEF InboxInv
<1>2. /\ listPhase \in {"answered", "failed"} /\ listPhase' = "reported"
      /\ inbox' = IF listPhase = "answered" THEN page ELSE inbox
      /\ loadFailed' = (listPhase = "failed") /\ page' = NothingKnown
      /\ UNCHANGED <<connected, wire, seen, banner, actionPhase, asked, result,
                     refreshPending, loadQueued>>
  BY DEF HandleList, realtimeVars, actionVars
<1>3. actionPhase = "none" /\ OfStored' = OfStored
  BY <1>1, <1>2 DEF OneThread, OfStored
<1>4. page' \in [Events -> Seen] /\ inbox' \in [Events -> Seen]
  BY <1>1, <1>2 DEF InboxTypes, NothingKnown, NoAlert, Seen, MaybeSeverity
<1>5. InboxTypes' /\ OneThread'
  BY <1>1, <1>2, <1>3, <1>4 DEF InboxTypes, OneThread, WorkerPhases
<1>6. InOrder'
  BY <1>1, <1>2, <1>3 DEF InOrder, Database
<1>7. PageFollowsBanner'
  BY <1>2 DEF PageFollowsBanner
<1>8. InboxFollowsBanner'
  BY <1>1, <1>2 DEF InboxFollowsBanner, PageFollowsBanner
<1>. QED  BY <1>5, <1>6, <1>7, <1>8 DEF InboxInv

\* A click starts a thread, is lost, or has the list read again.
LEMMA ClickKeepsInv ==
    ASSUME InboxInv, UNCHANGED <<level, status>>, NEW a \in Actions, ClickAction(a)
    PROVE  InboxInv'
<1>1. InboxTypes /\ OneThread /\ InOrder /\ InboxFollowsBanner /\ PageFollowsBanner
  BY DEF InboxInv
<1>2. /\ start_action(a)
      /\ UNCHANGED <<connected, wire, seen, banner, inbox, listPhase, page, result, loadQueued,
                     loadFailed>>
  BY DEF ClickAction, realtimeVars, listVars
<1>3. /\ refreshPending' \in BOOLEAN
      /\ refreshPending => refreshPending'
      /\ \/ UNCHANGED <<actionPhase, asked>>
         \/ listPhase = "none" /\ actionPhase' = "asked" /\ asked' = a
  BY <1>1, <1>2 DEF start_action, InboxTypes
<1>4. InOrder' /\ OfStored' = OfStored
  BY <1>1, <1>2, <1>3, OrderIsKept
<1>5. InboxTypes' /\ OneThread'
  BY <1>1, <1>2, <1>3, <1>4 DEF InboxTypes, OneThread, WorkerPhases
<1>6. InboxFollowsBanner' /\ PageFollowsBanner'
  BY <1>1, <1>2, <1>3 DEF InboxFollowsBanner, PageFollowsBanner
<1>. QED  BY <1>4, <1>5, <1>6 DEF InboxInv

\* The slot of the action.
LEMMA HandleActionKeepsInv ==
    ASSUME InboxInv, UNCHANGED <<level, status>>, HandleAction
    PROVE  InboxInv' /\ \A e \in Events : inbox[e] = inbox'[e] \/ Precedes(inbox[e], inbox'[e])
<1>1. InboxTypes /\ OneThread /\ InOrder /\ InboxFollowsBanner /\ PageFollowsBanner
  BY DEF InboxInv
<1>2. /\ actionPhase \in {"answered", "failed"} /\ actionPhase' = "reported"
      /\ result' = NoAlert
      /\ UNCHANGED <<connected, wire, seen, banner, listPhase, page, loadQueued, loadFailed>>
  BY DEF HandleAction, realtimeVars, listVars
<1>3. listPhase = "none" /\ OfStored' = OfStored
  BY <1>1, <1>2 DEF OneThread, OfStored
<1>4. /\ inbox' = IF actionPhase = "answered" THEN [inbox EXCEPT ![asked.event] = result]
                  ELSE inbox
      /\ refreshPending' = IF actionPhase = "answered" THEN TRUE ELSE refreshPending
  BY DEF HandleAction
<1>5. actionPhase = "answered" => result \in Seen /\ asked.event \in Events
  BY <1>1 DEF InboxTypes, Actions
<1>6. inbox' \in [Events -> Seen] /\ refreshPending' \in BOOLEAN
  BY <1>1, <1>4, <1>5 DEF InboxTypes
<1>7. ASSUME NEW e \in Events
      PROVE  /\ Precedes(inbox'[e], Database(e))
             /\ inbox[e] = inbox'[e] \/ Precedes(inbox[e], inbox'[e])
  <2>1. CASE actionPhase = "answered" /\ e = asked.event
    <3>1. inbox'[e] = result
      BY <1>1, <1>4, <1>5, <2>1 DEF InboxTypes
    <3>. QED  BY <1>1, <2>1, <3>1 DEF InOrder
  <2>2. CASE ~(actionPhase = "answered" /\ e = asked.event)
    <3>1. inbox'[e] = inbox[e]
      BY <1>1, <1>4, <2>2 DEF InboxTypes
    <3>. QED  BY <1>1, <3>1 DEF InOrder
  <2>. QED  BY <2>1, <2>2
<1>8. InboxTypes' /\ OneThread'
  BY <1>1, <1>2, <1>3, <1>6 DEF InboxTypes, OneThread, WorkerPhases
<1>9. InOrder'
  <2>1. \A e \in Events : Database(e)' = Database(e)
    BY DEF Database
  <2>. QED  BY <1>2, <1>3, <1>7, <2>1 DEF InOrder
<1>10. InboxFollowsBanner' /\ PageFollowsBanner'
  BY <1>1, <1>2, <1>3, <1>4 DEF InboxFollowsBanner, PageFollowsBanner
<1>. QED  BY <1>7, <1>8, <1>9, <1>10 DEF InboxInv

\* The finished slots hand a refresh that was asked for to the load timer.
LEMMA FinishedKeepsInv ==
    ASSUME InboxInv, UNCHANGED <<level, status>>, HandleFinished PROVE InboxInv'
<1>1. InboxTypes /\ OneThread /\ InOrder /\ InboxFollowsBanner /\ PageFollowsBanner
  BY DEF InboxInv
<1>2. /\ loadQueued' = (loadQueued \/ refreshPending) /\ refreshPending' = FALSE
      /\ UNCHANGED <<connected, wire, seen, banner, inbox, page, asked, result, loadFailed>>
      /\ \/ listPhase = "reported" /\ listPhase' = "none" /\ actionPhase' = actionPhase
         \/ actionPhase = "reported" /\ actionPhase' = "none" /\ listPhase' = listPhase
  BY DEF HandleFinished, Continue, realtimeVars, actionVars, listVars
<1>3. InOrder' /\ OfStored' = OfStored
  BY <1>1, <1>2, OrderIsKept
<1>4. InboxTypes' /\ OneThread'
  BY <1>1, <1>2, <1>3 DEF InboxTypes, OneThread, WorkerPhases
<1>5. InboxFollowsBanner' /\ PageFollowsBanner'
  BY <1>1, <1>2 DEF InboxFollowsBanner, PageFollowsBanner, OneThread
<1>. QED  BY <1>3, <1>4, <1>5 DEF InboxInv

-----------------------------------------------------------------------------
\* Everything together: what each step does to the three parts.
LEMMA InitPipelineInv == Init => PipelineInv
<1>. SUFFICES ASSUME Init PROVE PipelineInv
  OBVIOUS
<1>1. StationInv
  <2>1. "none" \in MaybeSeverity /\ 0 \in 0..maxAttempts
    BY AttemptsAssumption DEF MaybeSeverity, Init, StationInit
  <2>. QED  BY <2>1 DEF Init, StationInit, StationInv, StationTypes, Carries, IsTriedOrWaits,
                Phases
<1>2. StoreInv
  <2>1. \A e \in Events : level[e] = "none" /\ rows[e] = 0 /\ registered[e] = "none"
    BY DEF Init, ServerInit
  <2>2. StoreTypes
    BY DEF Init, ServerInit, StoreTypes, MaybeSeverity
  <2>. QED  BY <2>1, <2>2, Ranks
       DEF Init, ServerInit, StoreInv, StoredOnce, RegisteredIsStored, EveryChangeIsPublished,
           Stored
<1>3. InboxInv
  <2>1. NoAlert \in Seen /\ \A e \in Events : Database(e) = NoAlert /\ inbox[e] = NoAlert
    BY DEF NoAlert, Seen, MaybeSeverity, Database, Init, ServerInit, InboxInit, NothingKnown
  <2>2. InboxTypes
    <3>1. wire \in Seq(OfStored) /\ Len(wire) <= MaxWire
      BY WireAssumption DEF Init, InboxInit
    <3>. QED  BY <2>1, <3>1 DEF Init, InboxInit, InboxTypes, NothingKnown, WorkerPhases
  <2>3. InOrder
    BY <2>1, PrecedesIsAnOrder DEF Init, InboxInit, InOrder
  <2>. QED  BY <2>2, <2>3
       DEF Init, InboxInit, InboxInv, OneThread, InboxFollowsBanner, PageFollowsBanner
<1>. QED  BY <1>1, <1>2, <1>3 DEF PipelineInv

LEMMA IdleKeepsInv == ASSUME PipelineInv, UNCHANGED vars PROVE PipelineInv'
<1>1. StationInv' /\ StoreInv' /\ Grows
  BY StationIdle, StoreIdle DEF PipelineInv, vars
<1>2. InboxInv'
  BY <1>1, InboxIdle DEF PipelineInv, StoreInv, vars
<1>. QED  BY <1>1, <1>2 DEF PipelineInv

LEMMA StationStep == ASSUME PipelineInv, Station PROVE PipelineInv'
<1>1. StationInv'
  <2>1. StationInv
    BY DEF PipelineInv
  <2>2. ASSUME NEW e \in Events, Interrupted(e) PROVE StationInv'
    BY <2>1, <2>2, EndKeepsInv DEF Interrupted
  <2>. QED  BY <2>1, <2>2, SessionKeepsInv, RaiseKeepsInv, EscalateKeepsInv, DisposeKeepsInv,
               UnavailableKeepsInv DEF Station
<1>2. StoreInv' /\ Grows
  BY StoreIdle DEF PipelineInv, Station
<1>3. InboxInv'
  BY <1>2, InboxIdle DEF PipelineInv, StoreInv, Station
<1>. QED  BY <1>1, <1>2, <1>3 DEF PipelineInv

LEMMA DesktopStep == ASSUME PipelineInv, Desktop PROVE PipelineInv'
<1>1. StationInv' /\ StoreInv'
  BY StationIdle, StoreIdle DEF PipelineInv, Desktop
<1>2. InboxInv /\ UNCHANGED <<level, status>>
  BY DEF PipelineInv, Desktop, serverVars, dataVars
<1>3. InboxInv'
  BY <1>2, RefreshKeepsInv, HandleListKeepsInv, HandleActionKeepsInv, FinishedKeepsInv,
     ConnectionKeepsInv, HandleAlertKeepsInv DEF Desktop
<1>. QED  BY <1>1, <1>3 DEF PipelineInv

LEMMA RequestStep == ASSUME PipelineInv, NEW e \in Events, Request(e) PROVE PipelineInv'
<1>1. StationInv'
  BY SendKeepsInv DEF PipelineInv, Request
<1>2. carried[e] \in Severities /\ attempt[e] \in Nat
  <2>1. worker[e] = "ready" /\ Carries(e) /\ maxAttempts \in Nat /\ attempt[e] \in 0..maxAttempts
    BY AttemptsAssumption DEF PipelineInv, StationInv, StationTypes, Request, Send
  <2>. QED  BY <2>1 DEF Carries
<1>3. requests' \subseteq Requests /\ actions' \subseteq Actions
  <2>1. attempt[e] + 1 \in Nat \ {0}
    BY <1>2
  <2>2. [event |-> e, severity |-> carried[e], attempt |-> attempt[e] + 1,
         step |-> "received"] \in Requests
    BY <1>2, <2>1 DEF Requests
  <2>. QED  BY <2>2 DEF PipelineInv, StoreInv, StoreTypes, Request
<1>4. StoreInv' /\ Grows
  BY <1>3, TrafficKeepsInv DEF PipelineInv, Request, ghostVars
<1>5. InboxInv'
  BY <1>4, InboxIdle DEF PipelineInv, StoreInv, Request
<1>. QED  BY <1>1, <1>4, <1>5 DEF PipelineInv

LEMMA IngestStep == ASSUME PipelineInv, NEW r \in requests, Ingest(r) PROVE PipelineInv'
<1>1. r \in Requests /\ r.event \in Events
  BY DEF PipelineInv, StoreInv, StoreTypes, Requests
<1>2. StationInv'
  <2>1. CASE UNCHANGED stationVars
    BY <2>1, StationIdle DEF PipelineInv
  <2>2. CASE AwaitedBy(r) /\ End(r.event)
    BY <1>1, <2>2, EndKeepsInv DEF PipelineInv, AwaitedBy, Awaits
  <2>. QED  BY <2>1, <2>2 DEF Ingest, Answer
<1>3. StoreInv' /\ Grows
  <2>1. CASE Lookup(r) /\ UNCHANGED registered
    <3>1. [r EXCEPT !.step = "inserting"] \in Requests
      BY <1>1 DEF Requests
    <3>2. requests' \subseteq Requests /\ actions' \subseteq Actions
      BY <2>1, <3>1 DEF PipelineInv, StoreInv, StoreTypes, Lookup
    <3>. QED  BY <2>1, <3>2, TrafficKeepsInv DEF PipelineInv, Ingest, Lookup, ghostVars
  <2>2. CASE Refuse(r) /\ UNCHANGED registered
    <3>1. requests' \subseteq Requests /\ actions' \subseteq Actions
      BY <2>2 DEF PipelineInv, StoreInv, StoreTypes, Refuse
    <3>. QED  BY <2>2, <3>1, TrafficKeepsInv DEF PipelineInv, Ingest, Refuse, ghostVars
  <2>3. CASE Serve(r) /\ Answer(r)
    <3>1. registered' \in {registered, [registered EXCEPT ![r.event] = r.severity]}
      BY <2>3 DEF Answer
    <3>. QED  BY <2>3, <3>1, ServeKeepsInv DEF PipelineInv, Ingest
  <2>. QED  BY <2>1, <2>2, <2>3 DEF Ingest
<1>4. InboxInv'
  BY <1>3, InboxIdle DEF PipelineInv, StoreInv, Ingest
<1>. QED  BY <1>2, <1>3, <1>4 DEF PipelineInv

LEMMA PublishStep == ASSUME PipelineInv, NEW x \in publishing, Publish(x) PROVE PipelineInv'
<1>1. StationInv'
  BY StationIdle DEF PipelineInv, Publish
<1>2. StoreInv'
  BY PublishKeepsInv DEF PipelineInv, Publish
<1>3. x \in OfStored /\ InboxInv /\ UNCHANGED <<level, status>>
  BY DEF PipelineInv, StoreInv, Publish, dataVars
<1>4. InboxInv'
  BY <1>3, ConnectionKeepsInv DEF Publish
<1>. QED  BY <1>1, <1>2, <1>4 DEF PipelineInv

LEMMA RestartStep == ASSUME PipelineInv, RestartApi PROVE PipelineInv'
<1>1. StationInv'
  BY StationIdle DEF PipelineInv, RestartApi
<1>2. StoreInv' /\ Grows
  BY RestartKeepsInv DEF PipelineInv, RestartApi
<1>3. InboxInv'
  BY <1>2, InboxIdle DEF PipelineInv, StoreInv, RestartApi
<1>. QED  BY <1>1, <1>2, <1>3 DEF PipelineInv

\* What the administrator's threads ask of the API.
LEMMA ReadStep == ASSUME PipelineInv, ReadList PROVE PipelineInv'
<1>1. StationInv' /\ StoreInv'
  BY StationIdle, StoreIdle DEF PipelineInv, ReadList
<1>2. InboxInv'
  BY ReadKeepsInv DEF PipelineInv, StoreInv
<1>. QED  BY <1>1, <1>2 DEF PipelineInv

LEMMA GiveUpStep == ASSUME PipelineInv, GiveUpAction PROVE PipelineInv'
<1>1. StationInv' /\ StoreInv' /\ Grows
  BY StationIdle, StoreIdle DEF PipelineInv, GiveUpAction
<1>2. InboxInv'
  BY <1>1, AnswerKeepsInv DEF PipelineInv, StoreInv, GiveUpAction
<1>. QED  BY <1>1, <1>2 DEF PipelineInv

LEMMA ActStep == ASSUME PipelineInv, NEW a \in Actions, Act(a) PROVE PipelineInv'
<1>1. StationInv'
  BY StationIdle DEF PipelineInv, Act
<1>2. requests' \subseteq Requests /\ actions' \subseteq Actions
  BY DEF PipelineInv, StoreInv, StoreTypes, Act
<1>3. StoreInv'
  BY <1>2, TrafficKeepsInv DEF PipelineInv, Act
<1>4. InboxInv'
  BY ClickKeepsInv DEF PipelineInv, Act, dataVars
<1>. QED  BY <1>1, <1>3, <1>4 DEF PipelineInv

LEMMA OtherStep == ASSUME PipelineInv, NEW a \in Actions, OtherAdministrator(a) PROVE PipelineInv'
<1>1. StationInv'
  BY StationIdle DEF PipelineInv, OtherAdministrator
<1>2. actions' \subseteq Actions
  BY DEF PipelineInv, StoreInv, StoreTypes, OtherAdministrator
<1>3. StoreInv' /\ Grows
  BY <1>2, TransitionKeepsInv DEF PipelineInv, OtherAdministrator
<1>4. InboxInv'
  BY <1>3, InboxIdle DEF PipelineInv, StoreInv, OtherAdministrator
<1>. QED  BY <1>1, <1>3, <1>4 DEF PipelineInv

LEMMA ServeActionStep == ASSUME PipelineInv, NEW a \in actions, ServeAction(a) PROVE PipelineInv'
<1>1. StationInv'
  BY StationIdle DEF PipelineInv, ServeAction
<1>2. a \in Actions /\ actions' \subseteq Actions
  BY DEF PipelineInv, StoreInv, StoreTypes, ServeAction
<1>3. StoreInv' /\ Grows
  BY <1>2, TransitionKeepsInv DEF PipelineInv, ServeAction
<1>4. level' = level
  BY DEF ServeAction, Transition
<1>5. InboxInv'
  BY <1>3, <1>4, AnswerKeepsInv DEF PipelineInv, StoreInv, ServeAction
<1>. QED  BY <1>1, <1>3, <1>5 DEF PipelineInv

LEMMA StepPipelineInv == ASSUME PipelineInv, [Next]_vars PROVE PipelineInv'
BY IdleKeepsInv, StationStep, DesktopStep, RequestStep, IngestStep, PublishStep, RestartStep,
   ReadStep, GiveUpStep, ActStep, OtherStep, ServeActionStep DEF Next

LEMMA AlwaysPipelineInv == Spec => []PipelineInv
<1>1. PipelineInv /\ [Next]_vars => PipelineInv'
  BY StepPipelineInv
<1>. QED  BY InitPipelineInv, <1>1, PTL DEF Spec

-----------------------------------------------------------------------------
\* The parts of the invariant that the runs check.
LEMMA PipelineInvSays ==
    ASSUME PipelineInv
    PROVE  /\ TypeOK /\ StoredOnce /\ EscalationIsTried /\ RegisteredIsStored
           /\ EveryChangeIsPublished /\ InboxFollowsBanner
<1>1. TypeOK
  BY DEF PipelineInv, StationInv, StationTypes, StoreInv, StoreTypes, InboxInv, InboxTypes,
         Envelopes, TypeOK
<1>2. EscalationIsTried
  <2>1. \A e \in Events : IsTriedOrWaits(e)
    BY DEF PipelineInv, StationInv
  <2>2. active \subseteq Events
    BY DEF PipelineInv, StationInv, StationTypes
  <2>. QED  BY <2>1, <2>2 DEF EscalationIsTried, IsTriedOrWaits
<1>. QED  BY <1>1, <1>2 DEF PipelineInv, StoreInv, InboxInv

\* Every variable of the station, the API and the desktop keeps its type: a
\* worker never makes more attempts than it may, and no more envelopes wait on
\* a connection than it holds.
THEOREM PipelineTypeCorrect == Spec => []TypeOK
<1>1. PipelineInv => TypeOK
  BY PipelineInvSays
<1>. QED  BY AlwaysPipelineInv, <1>1, PTL

\* Ingestion is idempotent: an event_id has one alert, or none, however many
\* requests for it are between the lookup and the insert.
THEOREM AlertsAreStoredOnce == Spec => []StoredOnce
<1>1. PipelineInv => StoredOnce
  BY PipelineInvSays
<1>. QED  BY AlwaysPipelineInv, <1>1, PTL

\* An escalation is handed to a worker in the end, at whatever moment of the
\* life of the previous worker it comes.
THEOREM EscalationsAreTried == Spec => []EscalationIsTried
<1>1. PipelineInv => EscalationIsTried
  BY PipelineInvSays
<1>. QED  BY AlwaysPipelineInv, <1>1, PTL

\* What the operator has a receipt for is stored, at that level or higher.
THEOREM ReceiptsAreStored == Spec => []RegisteredIsStored
<1>1. PipelineInv => RegisteredIsStored
  BY PipelineInvSays
<1>. QED  BY AlwaysPipelineInv, <1>1, PTL

\* Without a restart, the level stored is published or about to be.
THEOREM ChangesArePublished == Spec => []EveryChangeIsPublished
<1>1. PipelineInv => EveryChangeIsPublished
  BY PipelineInvSays
<1>. QED  BY AlwaysPipelineInv, <1>1, PTL

\* An announcement is in the inbox, or the inbox knows that it has to read.
THEOREM InboxKeepsUp == Spec => []InboxFollowsBanner
<1>1. PipelineInv => InboxFollowsBanner
  BY PipelineInvSays
<1>. QED  BY AlwaysPipelineInv, <1>1, PTL

\* Only two slots write the inbox.
LEMMA InboxIsWritten ==
    ASSUME [Next]_vars
    PROVE  inbox' = inbox \/ (Desktop /\ (HandleList \/ HandleAction))
BY DEF Next, vars, Station, Desktop, Request, Ingest, Publish, RestartApi, ReadList, Act,
       ClickAction, ServeAction, GiveUpAction, OtherAdministrator, LoadTimer, ClickRefresh,
       HandleFinished, Connect, ConnectionLost, HandleAlert, inboxVars

\* The inbox only advances: a page or an answer that arrives late is never
\* older than what is shown, since one thread is awaited at a time.
THEOREM InboxOnlyAdvances == Spec => InboxNeverGoesBack
<1>1. ASSUME PipelineInv, [Next]_vars, NEW e \in Events
      PROVE  Precedes(inbox[e], inbox'[e])
  <2>1. InboxInv /\ InOrder /\ inbox[e] \in Seen
    BY <1>1 DEF PipelineInv, InboxInv, InboxTypes
  <2>2. CASE inbox' = inbox
    BY <2>1, <2>2, PrecedesIsAnOrder
  <2>3. CASE HandleList
    BY <2>1, <2>3, PrecedesIsAnOrder DEF HandleList, InOrder
  <2>4. CASE Desktop /\ HandleAction
    <3>1. UNCHANGED <<level, status>>
      BY <2>4 DEF Desktop, serverVars, dataVars
    <3>2. inbox[e] = inbox'[e] \/ Precedes(inbox[e], inbox'[e])
      BY <2>1, <2>4, <3>1, HandleActionKeepsInv
    <3>. QED  BY <2>1, <3>2, PrecedesIsAnOrder
  <2>. QED  BY <1>1, <2>2, <2>3, <2>4, InboxIsWritten
<1>2. PipelineInv /\ [Next]_vars =>
        [\A e \in Events :
            /\ Progress(inbox[e].status) <= Progress(inbox'[e].status)
            /\ Rank(inbox[e].level) <= Rank(inbox'[e].level)]_vars
  BY <1>1 DEF Precedes
<1>. QED  BY AlwaysPipelineInv, <1>2, PTL DEF Spec, InboxNeverGoesBack
=============================================================================
