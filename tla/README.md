# 2Identify: formal models

TLA+ models of the 2Identify workplace-safety system, model-checked with TLC and
partly proved with TLAPS. They are kept beside the code: every definition that
models code names the lines it stands for in `PROJECT.json` (`map`).

## 1. The system

Three Python programs and one firmware, all in one repository.

| Part | Where | State | Operations |
|---|---|---|---|
| Operator station | `2identify_operador/app` (PySide6) | session, WorkSession, worker threads, alert engines, caches of the last violations | login, list of operations, verification of PPE, active operation, logout |
| API | `2identify_api/app` (FastAPI) | realtime brokers, safety-state aggregator, database | ingestion of alerts and snapshots, two WebSocket streams, catalogue and administration |
| Administrator | `2identify_admin/app` (PySide6) | session, realtime connection, duplicates seen, request workers | dashboard, alerts, operations and risk areas |
| Stack light | `2identify_operador/firmware/esp32_safety_signal` (ESP32) | Wi-Fi and WebSocket flags, mode | show GREEN, YELLOW, RED or "disconnected" |

How they interact, from the worker to the light:

```
camera -> frame slot -> PpeInferenceWorker (QThread) --signals--> ActivePpeMonitoringController
                        PoseInferenceWorker (QThread) --signals--> pose controller --+
                                                                                     v
                                        two AlertEngines: local alerts and hardware alerts
                                          |                         |
                     AlertDeliveryWorker (per alert)     SafetyStateDeliveryWorker (one at a time)
                                          | POST                    | PUT
                                          v                         v
                              alerts + admin broker      SafetyStateAggregator + device broker
                                          | WebSocket               | WebSocket
                                          v                         v
                                    Administrator                 ESP32
```

In every desktop controller the pattern is the same: a `QThread` with a request or a
camera, signals that wait in the queue of the UI thread, a slot "current worker", and
waits with a timeout when its window closes. Most of what can go wrong is a signal
that is handled in another situation than the one it was sent in.

### Components, state and what makes each correct

| Component | State it keeps | Hard behaviour | What makes it correct | Module |
|---|---|---|---|---|
| `AlertEngine` | per key: first instant, counts, active alert, cooldown | long mixed histories, boundaries of five thresholds | raised, escalated and resolved exactly when the history says so | `AlertEngine`, `AlertAudit` |
| Inference workers | thread phase, stop flag, frame slot | signals of a stopped worker arrive in the next session | nothing of an ended session changes the next | `InferenceWorker`, `PoseMonitoring` |
| `ActivePpeMonitoringController` | caches per source, model readiness, restart flag, two engines | stop, start, failure and finished in any order | screen and light agree, ended sessions are safe, no restart is lost | `ActiveMonitoring` |
| `ActiveErgonomicsMonitoringController` | readiness, restart flag, worker | frames and poses of another session | only poses of the session are assessed | `PoseMonitoring` |
| Safety state delivery | worker, one pending snapshot | ended worker with `finished` unhandled, logout that blocks the UI, retries | newest snapshot delivered, older never after newer | `SafetyStateDelivery` |
| `SafetyStateAggregator` | conditions per source, current message, lock | subscribe racing publish, lock held over waits | devices in step with the merge of the sources | `SafetySignal` |
| `InMemoryRealtimeEventBroker` | subscribers, bounded queues, writers | eviction, write failure, disconnect and close of one subscription | limits hold; each subscription is shut down once | `RealtimeBroker` |
| Device endpoint, firmware | a handler per WebSocket; flags and mode | a disconnect while a send waits; short Wi-Fi outages | no colour without a connection, the right colour with one | `SafetySignal` |
| Alert delivery, ingestion, inbox | pending alerts, idempotency by `event_id`, list and action workers | lost answers, retries, concurrent duplicates, restart before publication | stored once, published, shown, never shown older | `AlertDelivery`, `AlertIngestion`, `AlertInbox`, `AlertPipeline` |
| Operator login | two panels, two threads, one session | answers to a login that was cancelled or belongs to another one | no panel waits for nothing | `OperatorLogin`, `FaceRecognition` |
| List of operations, pictures | loader, snapshot worker, pending risk area | a picture asked for while another one ends | no page waits for nothing | `OperationsList` |
| Release gate | stability window, one-shot assessment with an expiry | stale workers, expiry racing a click | an operation starts only on fresh, stable evidence | `ReleaseGate` |
| Cameras | thread, automatic restarts, retry button | stop and start overlap across two pages | camera belongs to its page; no blind WorkSession | `CameraWorker`, `ActiveCamera` |
| Sessions, WorkSessions | session, WorkSession, route | logout during anything | one at a time, closed exactly once | `OperatorStation` |
| Admin session and workers | window, six request threads, dialog with a nested event loop | a return to the login whose waits ran out | it completes and leaves nothing behind | `AdminWorkers`, `AdminStation` |
| Admin realtime client | socket, four timers, validation | timers that overlap, rejection during reconnection | always something under way that reconnects | `RealtimeChannel` |
| Admin realtime stream | handler, heartbeat and receiver tasks per socket | cancellations that meet, rights lost while connected | rights that are lost cut the stream in bounded time | `AdminStream` |
| Authorization | tokens, accounts | edited accounts, token of the other application | nobody is let in without the right now | `Authorization` |
| Catalogue of operations (API) | cameras, areas, operations, their PPE | concurrent requests, lists read by several statements | saves are not mixed, names unique, answers in order | `OperationCatalogue` |
| Dashboard, lists, contracts | none: functions of the database and of a payload | words of older data, limits that differ on two sides | both sides accept what the other makes | `AdminReports`, `ApiContracts` |
| Tracker, ergonomics, risk areas | tracks; the rest are functions | off-by-one, degenerate polygons | equal to a definition of their own | `PpeTracker`, `Ergonomics`, `RiskArea` |

The status of each component is in `PROJECT.json` (`components`), the hazards, each
at its line with the properties that would catch it, in `hazards`.

## 2. The modules

| Module | Models | Notes |
|---|---|---|
| `AlertEngine`, `AlertLifecycle`, `AlertAudit` | `app/engine/alert.py`; what it promises; a log of observations | reference definitions over the log, and the refinement |
| `InferenceWorker` | `ppe_inference_worker.py`, `pose_inference_worker.py` | thread steps and the signals posted |
| `ActiveMonitoring` | `active_ppe_monitoring_controller.py`, the session of the page | two instances of `AlertEngine`, one of `InferenceWorker` |
| `PoseMonitoring` | `active_ergonomics_monitoring_controller.py`, its worker and frames | each frame is the session it was captured in |
| `RealtimeBroker`, `SafetySignal` | `app/realtime/broker.py`; `services/safety_state.py`, `routes/device_safety.py`, the firmware | one action per stretch between two awaits |
| `SafetyStateDelivery` | snapshots and logout of `application_controller.py`, `safety_state_delivery_worker.py`, `send_safety_state` | the worker of a snapshot is named by its number |
| `AlertEvents`, `AlertDelivery`, `AlertIngestion`, `AlertInbox` | alerts at the operator, the API and the administrator | share only `AlertEvents` |
| `AlertPipeline` | their composition, the network and restarts | requests are records that may be served late |
| `OperatorLogin`, `OperationsList`, `ReleaseGate`, `CameraWorker`, `ActiveCamera` | the pages of the operator with their controllers and threads | `CameraWorker` and `InferenceWorker` are instantiated per page |
| `OperatorStation` | their composition: `application_controller.py`, `main_window.py` | routes and WorkSession |
| `FaceRecognition` | `vision/face_auth/` after the networks | frames are any faces, movements and similarities |
| `AdminWorkers`, `RealtimeChannel`, `AdminStation` | controllers of the administrator | one phase per worker, timers as a set |
| `AdminStream` | `routes/admin_realtime.py`, `realtime/authorization.py` | uses `RealtimeBroker` and `Authorization` |
| `OperationCatalogue` | `operation_repository.py` and its services under READ COMMITTED | one action per SQL statement |
| `Authorization`, `ApiContracts`, `AdminReports` | who is let in; validators and error mapping of both sides; dashboard and alert list | operators without state |
| `RiskArea`, `Ergonomics`, `PpeTracker` | `domain/risk_area.py`, `engine/risk_area.py`, `engine/ergonomics.py`, `vision/ppe/tracking.py` | operators without state |
| `MCActiveMonitoring`, `MCAlertPipeline` | instances for TLC, with the comparisons of the algorithms and of the contracts as ASSUMEs | |
| other `MC...`, `...Proofs` | instances for TLC; theorems (section 5) | |

Operators named `Bug...` are plausible mistakes that the code does not make. They
are used only to show that each property can fail: `PROJECT.json` (`mutants`)
says which definition each one stands in for.

Correspondence of state and code, where it is not by name:

* `AlertEngine.conditions[k]` is `_states[key]`; a key never met has the `Fresh`
  record. An active alert is its severity. `consecutive` stops growing at
  `MaxStreak`, at or above the only value the code compares it with. Time is the
  wall clock read by the UI thread; instants before the last one are refused, as
  `observe` raises `ValueError` for them.
* `ActiveMonitoring.signals` is the queue of cross-thread signals. A slot is one
  action, since the UI thread runs it to its end; `QTimer.singleShot(0, start)` is
  `startQueued`. `snapshot[s]` is the colour of the last snapshot emitted for `s`.
  `start` has three callers: `ActivateMonitoring`, `QueuedStart`, and `Retry`, the
  retry of the camera, which emits `monitoring_start_requested` of a page that monitors
  already. The camera is not in this module, so a retry may come at any moment.
  `Logout` is `shutdown()`: page, controller and posted signals go with the window, and
  the monitoring flag and WorkSession it leaves set on the page with them. Should the
  window live on for a while, what its controllers emit finds no session
  (`application_controller.py:312`, `375`). `freshSession` is the identifier of the next
  session: which one it is does not matter as long as it is new.
* `PoseMonitoring.signals` is the same queue with the frames of the camera in it. A
  session starts with no `ready` waiting: the evidence it starts on came through this
  queue after it. The test for a stop and the signal after it are one step.
* `RealtimeBroker`: a section under the broker's lock contains no await, so it is
  part of the action around it. `closing` follows one subscription through
  `_shutdown_subscriber` and `_close_sink`. `wire` is everything a socket buffers
  between the two programs; a send that times out is one that never gets through.
* `SafetySignal.holder` is the owner of the aggregator's lock. `Release` is the end
  of the `await` for slow subscribers under that lock.
* `SafetyStateDelivery`: `request[n]` is the PUT of snapshot `n`; `late` holds
  requests the client gave up on that may still be served. A snapshot is numbered
  when it is handed over with an API session; without one it is skipped, as in the
  code. `wait(5000)` may return in time or not. If not, the worker is given to
  `deleteLater` while it runs; `DeleteWorker` is the next turn of the event loop, where
  Qt aborts the process if it still runs then, and `Restart` starts a new process.
* `AlertPipeline`: a delivery the client gave up on stays in `requests` and may be
  served later; `publishing` holds the background tasks, which a restart loses. The
  result of an action is read in the step that serves it.
* `OperatorStation`: each worker posts to a queue of its own, in order; queues of
  different workers interleave freely. `stale` is the only trace of time. The two
  kinds of failure on the verification page are one `"error"`. `Submit` of the login
  handles an answer that waits first, since that answer is the only one it could meet.
  A logout waits for the workers, and the wait is taken to end before its timeout (as
  in `ActiveMonitoring`; only `SafetyStateDelivery` has the other outcome);
  the clock is not set back before the start of the WorkSession.
* `AdminStation`: `phase` follows the thread of each controller, `answer` what it
  posted, `requested` the `_shutdown_requested` flags. The alerts controller is in
  `AlertInbox`. The dialog for a risk area runs an event loop of its own, so every
  other handler can run while it is open; it is disabled with its window.
* `AdminStream`: a tick of `now` cannot pass a deadline `due[c]`. `Interval` is the
  heartbeat; a check of a token in the thread pool ends within `CheckTime`, and the
  handshake within `AcceptTime`. These two are assumptions on the environment: the
  code bounds the connection to the database and nothing after it.
* `OperationCatalogue`: an insert waits for an uncommitted row with its unique key and
  fails once that is committed, as PostgreSQL does. `history[i]` is a history variable.

## 3. The runs

| Run | Question | Bounds, and why they are enough |
|---|---|---|
| `AlertAudit` | do the counters decide what the history says? | 2 keys (keys do not interact but in one observation), 6 observations, 5 instants from 1, two-step thresholds, cooldown 3: a raise, an escalation, a recovery with a flicker, a cooldown and a second raise all fit |
| `ActiveMonitoring` | do alerts, light, worker and session stay consistent? | 2 sessions, one PPE and one posture key, 2 instants, 2 signals waiting: a second session starts in every phase of the first one's worker, after an end or a logout, and the camera is retried in every phase too. Evaluates the algorithms (below) |
| `ActiveMonitoringBlind` | may a PPE alert be resolved without the PPE model? | violated, see section 6 |
| `SafetySignal` | is the device in step whatever fails? | 2 connections with capacity 1, queue 1, wire 1: the device reconnects while the old subscription is being shut down, and every queue is full at once |
| `SafetySignalLiveness` | does the light follow in the end? | 1 connection, two conditions of different levels, queue 2 |
| `SafetySignalWifi` | and if TCP survives a Wi-Fi outage? | violated, see section 6 |
| `SafetyStateDelivery` | is the newest snapshot delivered? | 3 snapshots, 2 WorkSessions, 2 attempts: one sent, one waiting, one newer, with a logout and a new login at any moment, and the abort of a logout that waited in vain |
| `SafetyStateDeliveryOrder` | may an older snapshot replace a newer one? | violated, see section 6 |
| `AlertPipeline` | is every alert stored once, published and shown, and never shown older? | 1 alert (alerts share nothing but the list), 1 or 2 attempts, `MaxRequests` = 2 deliveries under way, so that two race in `store`, `MaxWire` = 1 envelope, `MaxRestarts` = 1. With an administrator present (`desktop`) there is one attempt, the operator stays logged in (`StaysLoggedIn`) and the API does not restart: to the inbox these look like a lost envelope. Evaluates the contracts (below) |
| `OperatorStation` | does a window of evidence, a camera or a login of one visit reach another? | 2 operations, a window of 3 frames, one restart; `MaxSignals`, `MaxCaptureSignals`, `MaxLoginSignals`, `MaxPictureSignals` = 2 signals per queue and `MaxEvents` = 2 over those of cameras and detector, `MaxTimers` = 1, `MaxRetries` = 1. Pages that share no variable are explored one at a time: what follows a login is explored after a plain login by face (`PlainLogin`), the verification is opened once the pictures rest (`PlainPages`) and the signals of the last WorkSession are handled, and the camera of the active page moves once the verification's threads rest (`ReleaseRests`). The runs of the login, of the pictures, and of the two cameras each see all their own interleavings, logout and the next login included |
| `OperatorStationInterruption` | may frames from before a camera interruption start a WorkSession? | violated, see section 6 |
| `AdminStation` | does a return to the login complete and leave nothing, and does the channel come back? | all six workers, at most `MaxThreads` = 3 of them at once: one for each of the three controllers that can delay a return. A thread of a save that has answered ends before the next dialog accepts (`SaveHasEnded`) |

Deadlock is checked in every run whose system never stops; `AlertPipeline.cfg` turns
it off, as everything may be delivered and nobody click.

Properties that hold, in words:

* `RaisedExactlyWhenDue`, `ResolvedExactlyWhenRecovered`, `CriticalExactlyWhenOld`
  compare the engine with definitions over the log that mention no counter.
  `ImplementsLifecycle` is the refinement of `AlertLifecycle`.
* `LocalAlertsAreSignalled`: an alert on the screen is on the light, at no lower
  severity. `SnapshotIsCurrent`, `EndedSessionsAreSafe`, `EnginesFollowTheSession`:
  what was last reported is what the hardware engine holds, and GREEN for a session
  that ended, by a stop or a logout. `RestartIsPending`, `RestartHappens`: a session
  begun while the old worker stops gets its own worker, retries of the camera included.
* `Bounded`, `RegisteredOrShutDown`: limits, and one shutdown per subscription.
  `InStep`: for a registered device the newest colour queued, sent, on the wire or
  shown is the effective one. `ColourNeedsAConnection`, `StaleColourEnds`,
  `ConnectedDeviceCatchesUp`, `EffectiveStateIsMerged`: what the firmware shows.
* `RunningWorkerIsKnown`, `NewestIsKept`, `PendingIsPickedUp`, `NewestIsTried`: one
  sender at a time, across logouts too; the newest snapshot is never lost and is tried
  to its end, unless its own worker is killed with the process.
* `StoredOnce`, `RegisteredIsStored`, `EscalationIsTried`, `EveryChangeIsPublished`: one
  row per alert; a receipt is true; an escalation is handed to a worker in the end; but
  for a restart every level stored is announced. `InboxFollowsBanner`,
  `InboxNeverGoesBack`: the inbox shows what was announced, and no page read before an
  action undoes it.
* `AuthorizedOnlyWhenVerified`, `ButtonFollowsEvidence`: a WorkSession starts only on
  evidence that is recent, long enough and in a window begun since the page was last
  left. `NoPageWaitsForNothing`: a page
  that says something is under way is right. `CameraBelongsToItsPage`,
  `MonitoringIsNeverBlind`: no camera runs for a page that is gone, and a monitored
  WorkSession has a camera, a restart ahead, or a failure on display.
* `LoginIsClean`, `ReturnCompletes`, `RealtimeKeepsTrying`: see the run.

The ASSUMEs of `MCActiveMonitoring` and `MCAlertPipeline` are evaluated with those runs:

* Risk areas, on a grid of 3 x 3: Pick's theorem for each accepted polygon
  (`PolygonsObeyPick`), half planes for triangles, independence of the first vertex.
  Ergonomics: the worst pose decides, each grade occurs, compliance needs evidence.
  Tracker: a stable association of any two batches of two boxes, valid tracks after any
  three.
* Authorization: no token opens both applications, the right is that of the moment.
  Outcomes: an administrator is logged out exactly when the API finds the right lost,
  deliveries are given up only when the same request could never succeed, credentials
  are called wrong only by the API.
* Payloads: a stored alert can be published, an alert of the domain is refused only for
  its summary, snapshots are accepted, a polygon stored by the API can be shown and
  monitored and one drawn can be stored.
* Reports: counters partition the alerts and agree with the list for the words of the
  ingestion, pages show each alert once, every summary is accepted. Three of them
  record where older data or another time zone diverge (section 6).

## 4. Fairness

* `ActiveMonitoring`: the UI thread handles posted signals and queued calls; a
  detection in progress ends and a thread asked to stop ends (`run` tests the flag
  after each step). No user action, no assessment and no load not asked to stop is
  assumed.
* `SafetySignal`: the API's event loop runs some task that is ready, and the device
  runs `loop()`. No report, failure, recovery of the Wi-Fi or restart is assumed.
* `SafetyStateDelivery`: the thread of each worker runs and each request ends by the
  client's timeout; the UI thread handles `finished`; `handle_logout` blocks for a
  bounded time, after which the event loop deletes the worker. Neither an answer of the
  API is assumed nor that an aborted application is started again.
* `AdminStation`: threads go on to their end, since requests have a timeout and the one
  camera image is read with timeouts, and the UI thread handles what they post. No
  click, answer or event of the socket is assumed.

The other specifications state none: their properties are about safety.

## 5. What is proved

TLAPS checks these for every value of the constants that the named assumptions allow:
any number of keys, sessions, alerts and connections, and any of the bounds that keep
the runs of section 3 small.

* **Alert engine** (`AlertAuditProofs`, under `ParametersAssumption`, which is the
  `ValueError`s of `AlertEngine.__init__`, and `BoundsAssumption`). `TypeCorrect`:
  `TypeOK` is inductive. `EngineImplementsLifecycle`: every observation is a step of
  `AlertLifecycle` (`ViolationStep`, `ClearStep` for one condition,
  `ObserveImplementsObservation` for all). `RaisesWhenDue`, `ResolvesWhenRecovered`,
  `CriticalWhenOld`: the counters decide what the definitions over the log say.
  `AuditInv` says of every counter what it stands for in the whole log: which
  observations a streak, a first violation, a count of clear observations and the end
  of the last alert summarize (`Chronicle`, `KeyInv`).
* **Active monitoring** (`ActiveMonitoringProofs`, under `MonitoringAssumption`).
  `AlertsAreSignalled`, `SnapshotsAreCurrent`,
  `EndedSessionsStaySafe`, `EnginesAreOfTheSession`, `RestartsArePending` (for all three
  callers of `start`) and `MonitoringTypeCorrect`. An alert on the screen is on the light because the hardware
  engine differs from the local one only by its cooldown of 0. `Twins` makes that
  inductive: both agree on the run of each violation and, while both hold an alert, on
  its clear observations, so the hardware engine raises no later and resolves no
  earlier. `OpenedSessions` keeps what is signalled within the sessions that began.
* **Stack light** (`SafetySignalProofs`, under `BrokerAssumption`, `SignalAssumption`
  and `MessagesAssumption`). `LimitsHold`, `ShutDownOnce`, `ColourIsAPromise`,
  `EffectiveIsMerged`, `DeviceStaysInStep`. `BrokerInv` is kept by each operation of the
  broker on its own, whoever calls it. `SignalInv` adds, per connection, the newest
  colour among queue, sender, wire and light, and what `update` still has to publish
  while it holds the lock (`SendingInv`); `Undisturbed` confines a step to the
  connections it names.
* **Snapshot delivery** (`SafetyStateDeliveryProofs`, under `DeliveryAssumption`).
  `DeliveryTypeCorrect`, `OneSenderAtATime`, `NewestNeverLost`, and the action property
  `WaitingIsPickedUp`. `OneSenderAtATime` says of a worker given up by a logout that it
  runs at most until the event loop deletes it. None is inductive alone. `IInv` adds that `finished` comes only
  from workers that ended (`FinishedHasEnded`: its slot can then clear no worker that
  runs), that a snapshot that waits was handed over in the session still open and has
  no worker (`NotStarted`), that a logout sends nothing newer than what waits
  (`FlushedIsOld`), that the safe state of a monitored WorkSession still has a number
  (`SessionIsOpen`), and that a ready worker has attempts left (`AttemptsLeft`).
* **Alert pipeline** (`AlertPipelineProofs`, under `AttemptsAssumption` and
  `WireAssumption`). `PipelineTypeCorrect`, `AlertsAreStoredOnce`, `EscalationsAreTried`,
  `ReceiptsAreStored`, `ChangesArePublished`, `InboxKeepsUp`, and the action property
  `InboxOnlyAdvances`. `PipelineInv` has a part per program. At the operator, a worker
  has a level to carry and an attempt left (`Carries`), and the level of an alert is in
  the hands of a worker or waits for one that is still there (`IsTriedOrWaits`). At the
  API, what is stored only grows (`Grows`), and whatever was sent in reply or announced
  was stored (`OfStored`). At the administrator, one thread at a time (`OneThread`), the
  inbox is never ahead of an answer under way nor that of the store (`InOrder`), and no
  page read before an announcement can undo it (`PageFollowsBanner`).
* **Operator station** (`OperatorStationProofs`, under `EvidenceAssumption`,
  `RetriesAssumption` and `StationAssumption`). All six properties of the run
  `OperatorStation`, for queues of any length, any number of retries and timers, and any
  window, shares, requirements and classes: `DesktopTyped`, `ButtonFollows`,
  `NobodyWaitsForNothing`, `CamerasBelong`, `MonitoringSees`, and the action property
  `StartsAreVerified`. `IInv` is a part per page and `Routes`, which says that the page on
  display, the activity of each page and the WorkSession go together; each handler keeps
  the part of its page (`...KeepsInv`), and each action of the station puts the parts
  together (`...KeepsIInv`).
  `LoginInv`: a face worker that ends of its own accord has said why (`EndIsAnnounced`),
  and the panel of an attempt, hidden or not, has an answer ahead (`AttemptIsShown`).
  `ListInv`: `finished` is the last signal of a picture's worker (`FinishedIsLast`), and
  one that gives up has said so (`FailureIsSaid`).
  `ReleaseInv`: the result the controller holds is what the window it holds now says
  of that operation (`EvidenceIsAssessed`). A start is then verified although it reads
  only the result (`CompliantIsVerified`): whatever changes the window replaces or
  forgets the result in the same step.
  `ActiveInv`: a camera worker told to stop while monitored is to be restarted
  (`StopIsRestarted`), one that ended leaves a button, a restart or a failure still to
  be handled (`EndIsAnswered`), and a signal that takes the failure off the page has a
  working camera or another failure behind it (`FreshOrFollowed`).
  The guards that explore the pages one at a time (`PlainLogin`, `PlainPages`,
  `ReleaseRests`, section 3) are part of the specification, so of these theorems too.
* **Administrator** (`AdminProofs`). `ReturnLeavesNothing`, `ChannelComesBack`:
  `LoginIsClean` and `RealtimeKeepsTrying`, for any number of threads. `IInv` adds
  `LoginBeforeMain`, `NothingLeft` (a main window that is gone took its threads, timers
  and dialog with it; one that is pending waits for a thread that runs) and `ChannelInv`
  (which timer goes with which state of the socket).
* **API** (`AdminProofs` too, for `StreamSpec` and `CatalogueSpec`). Under
  `StreamAssumption`, `LostRightsAreCutOff` and `SubscriptionsAreHandled`: whoever loses the right is out of the broker within
  `Window` == `Interval + 2 * CheckTime + AcceptTime`, and each subscription has a
  handler that ends it. The invariant bounds, per connection, the time since the right
  was last confirmed by the deadline of what it is doing (`Deadlines`); `OneConnection`
  reduces a step to the connection that makes it. Under `CatalogueAssumption`,
  `SavesAreNotMixed`, `NamesAreUnique`, `AnswersAreInOrder`, `ListsStayAcceptable`:
  `CatalogueInv` ties what is committed to the history (`Saved`), each transaction to
  the rows it has locked (`Writes`, `Locked`, `NewKey`), and what a request has read to
  an interval of the history (`Shows`).
* **Vision** (`VisionProofs`). Under `FaceAssumption`, `RecognitionEarned`: a scan
  recognizes an operator only after enough consecutive frames of one near face that
  resembles this operator most, after a face alone had moved long enough. `ScanInv`
  keeps, as history, the frames since the scan began (`Seen`, `Counted`, `Complete`);
  that the best match is the most similar template follows from the well-foundedness of
  `<`. Nothing is assumed of the clock. Under `SessionAssumption`,
  `PosesAreOfTheSession` and `PoseRestartIsPending`, for queues of any length. A frame, a
  result or a worker's job of another session is harmless as long as the controller is
  not ready; it becomes ready by a signal of the new worker, and `ReadyIsFirst`,
  `OldFramesAreRefused`, `OldResultsAreDropped` say that this signal is behind
  everything old in the queue.

`AdminStream`, `OperationCatalogue`, `FaceRecognition` and `PoseMonitoring` have
theorems and no run of their own: their invariants were evaluated by TLC on small
instances before they were proved.

Only model-checked:

* liveness under fairness, which is out of reach of the prover, as is `ENABLED`:
  `RestartHappens`, `StaleColourEnds`, `ConnectedDeviceCatchesUp`, `NewestIsTried` and
  `ReturnCompletes`;
* what the algorithms compute over sequences and polygons, which needs induction over
  data, and the contracts, which are evaluated over finite payloads.

## 6. Where the code departs from what it says

Shown by a run that TLC finds violated (`findings`):

* A PPE alert is resolved without evidence (`ActiveMonitoringBlind`). After
  `_handle_failure` the engines stay, and pose assessments count as clear cycles.
* A short Wi-Fi outage may leave the light in its disconnected pattern
  (`SafetySignalWifi`). `TcpOutlivesWifi` states the assumption on the network
  stack; the other runs make the opposite one.
* An older snapshot is sent after a newer one (`SafetyStateDeliveryOrder`). The
  shortest history is a logout: the first worker has ended, its `finished` is not
  handled, the safe snapshot starts a worker at once, and the logout then sends the
  snapshot that waited. The same happens without a logout when `finished` is handled.
* A failing camera of the verification page keeps the evidence
  (`OperatorStationInterruption`): only the page is told, the window of the PPE worker
  survives the retry, although the operator's README (line 222) says that it is discarded.

Met while modelling, and part of the models:

* The escalation of an alert has the `event_id` of its first envelope and the
  administrator drops it as a duplicate; `2identify_api/docs/admin-realtime.md:44` says
  that the id is new for each envelope. The list shows it at its next reading.
* An announcement is lost when the API ends between the commit of an alert and its
  background task; the retry is then a duplicate.
* Operator login: an answer to credentials, or of a face scan that was cancelled, that
  arrives after a logout opens a session nobody asked for (`reset_for_authentication`
  cancels only the face worker; README of the operator, line 125, says that both methods
  are restored without earlier data). A late frame or status of a cancelled face worker
  leaves the scan button disabled.
* A verification page that is left while the model is loading, and opened again before
  that worker has ended, never gets a model: `start` finds the worker running, although
  it was told to stop, and nothing starts another when it ends. The docstring of `start`
  says "Load the model once per active verification route"
  (`ppe_inference_controller.py:92`). The page stays without a model until it is left.
* What a PPE worker told to stop still had to say, its `ready` and its results included,
  is handled on the verification page when that is opened again. The window is then
  begun anew, which is what `AuthorizedOnlyWhenVerified` says (`carriedOver`), but its
  first samples may be of frames taken before the page was left; with
  `PPE_STABILITY_MINIMUM_FRAMES=1` one such sample decides.
* A retry of the active camera clicked while the failed worker still releases it does
  nothing and hides the button (`lostRetry`).
* Pictures for risk areas: asking for A, B and A again, or A while its worker closes,
  leaves "Capturando…" on display for ever, or captures a pending area later. The
  snapshot worker may still hold the camera when the verification page opens it. The
  list of operations has no retry.
* A logout that waits 5 s for the snapshot worker in vain gives a running `QThread` to
  `deleteLater` (`application_controller.py:450-454`), and Qt aborts the process. The
  snapshot that worker had is then not tried again (`NewestIsTried` names the case).
  The logout does not delete an alert worker that is late.
* A clock set back before the start of a WorkSession makes its end raise within a logout.
* Active monitoring: a "ready" handled after a stop leaves the model ready until the
  next start; every frame in between is refused by the worker.
* Administrator: after a 401 during a session that expires before the retry,
  `_connect_now` finds the rejection already notified and nothing brings the channel back
  until a request notices (`RealtimeKeepsTrying` names this case). While the dialog of an
  existing risk area is open, the end of its camera thread clears `_pending_area`, and
  the edited area is saved as a new one (`operations_controller.py:167`).
* Admin stream: when heartbeat and receiver end at the same time, the cancellation of the
  one reaches the shutdown of the other and the close code 4401 or 1008 is not sent; the
  socket closes all the same.
* Catalogue: an operation may be saved with two PPE of one detection class, and the
  operator's client then refuses the whole list (`domain/operation.py:160`,
  `api/client.py:294`). Names that differ in case only, and two cameras of one name, can
  be saved concurrently. A list may mix two saves of one operation. An area can be
  deactivated under an active operation. A save answered 503 may have been made.
* Dashboard and lists: "não_lido" and "confirmado" are counted as new and confirmed but
  listed as `nao_lido`, and refused by confirm and close; "ppe" and "epi" are counted by
  category but listed as "safety"; the filter compares words as stored. Days of the trend
  are those of the database's zone, the window those of UTC. Total and items of a page
  are two statements. One alert with a blank type makes its whole page fail.
* An alert whose summary looks private, such as a certificate number of 10 or 11 digits,
  is refused with 422 and not tried again. More than 100 conditions make a snapshot
  refused. Small self-crossing polygons are accepted (`domain/risk_area.py:95` compares
  products of areas with 1e-9), by API and administrator alike.
* The configuration enforces neither distinct audiences nor disjoint profiles, which
  "no token opens both applications" needs.

## 7. Plan

Done in the order first planned: alert engine and active monitoring, stack light,
snapshot delivery, alert pipeline, operator station, administrator, stream, catalogue,
algorithms, and the proofs of every invariant the runs check. What would come next:

1. `SafetyStateDelivery` with the loss of a snapshot of an ended session stated as a
   property, once the intended behaviour of the single pending slot is decided.
2. The exit of both desktop programs, with threads that outlive the main window.

## 8. Not modelled, and why

Neural networks (their results are any member of a set) and the numeric part of face
matching before the similarities; token signing and password hashing (libraries);
widgets, layout, manuals and the enlarged picture; configuration and migrations (data:
limits appear as constants); blinking and buzzer of the light (timing of one loop without
interaction); backoff delays (a timer that runs may fire at any time); reports that read
one row; the exit of the two desktop processes.

Run a check from this directory with `tlc -config <run>.cfg <module>.tla`, where the
module of each run is in `PROJECT.json` (`runs`), and a proof with `tlapm <module>.tla`.
