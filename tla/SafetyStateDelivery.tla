------------------------- MODULE SafetyStateDelivery -------------------------
(***************************************************************************)
(* How the operator station delivers the snapshots ActiveMonitoring emits: *)
(* ApplicationController with one SafetyStateDeliveryWorker at a time and  *)
(* one slot for the snapshot that waits, and the sources the API keeps.    *)
(*                                                                         *)
(* Snapshots are numbered in the order they are handed over; the last one  *)
(* of a WorkSession is its safe state. A worker is named by the snapshot   *)
(* it was created for. Each slot of the UI thread is one action, and a     *)
(* handler that blocks the UI thread keeps ui away from "loop".            *)
(* MaxSnapshots and MaxSessions bound the history.                         *)
(***************************************************************************)
EXTENDS Naturals, Sequences, FiniteSets

CONSTANTS
    MaxAttempts,     \* alert_delivery_max_attempts
    LateArrivals,    \* whether a request may be served once its sender gave it up
    MaxSnapshots, MaxSessions

ASSUME DeliveryAssumption ==
    /\ MaxAttempts \in Nat \ {0}
    /\ LateArrivals \in BOOLEAN
    /\ MaxSnapshots \in Nat /\ MaxSessions \in Nat

VARIABLES
    session,      \* the operator's session: "none", "offline" (no API token)
                  \* or "online"
    ui,           \* "loop", or how far a logout is: "waiting" for the worker,
                  \* "flushing" the snapshot that waits, "deleting" the worker
                  \* once the event loop turns; "aborted" without a process
    workSession, monitoring,    \* WorkSessions so far; is the last monitored
    issued,       \* the WorkSession of each snapshot handed over so far
    worker,       \* _safety_state_delivery_worker
    pending,      \* _pending_safety_state_snapshot
    phase,        \* of the worker of each snapshot; killed with the process
    attempts,     \* attempts each worker has made
    interrupted,  \* workers whose interruption was requested
    finished,     \* finished signals posted to the UI thread
    flushed,      \* the snapshot the last handle_logout sends itself
    request,      \* of each snapshot: "none", "sent" or "served"
    late,         \* snapshots with a request given up by its sender
    server,       \* the snapshot the API holds for each WorkSession
    failed        \* whether an attempt failed so far

stationVars == <<session, ui, workSession, monitoring, issued>>
senderVars == <<worker, pending, finished, flushed>>
workerVars == <<phase, attempts, interrupted>>
networkVars == <<request, late, server, failed>>
vars == <<stationVars, senderVars, workerVars, networkVars>>

None == 0
Snapshots == 1..MaxSnapshots
WorkSessions == 1..MaxSessions
Phases == {"none", "ready", "sending", "ended", "killed"}

Running(n) == n # None /\ phase[n] \in {"ready", "sending"}
Newest == Len(issued)

-----------------------------------------------------------------------------
\* Operators named Bug... are mistakes this code does not make: each one stands
\* in for the definition after it when a property is shown to be able to fail.
BugKeepsOldest(n, heldWorker, heldPending) ==
    IF Running(heldWorker)
    THEN /\ worker' = heldWorker
         /\ pending' = IF heldPending = None THEN n ELSE heldPending
         /\ UNCHANGED phase
    ELSE /\ worker' = n /\ pending' = heldPending
         /\ phase' = [phase EXCEPT ![n] = "ready"]

\* _handle_safety_state_snapshot with a session, from the sender it finds.
handleSnapshot(n, heldWorker, heldPending) ==
    IF Running(heldWorker)
    THEN /\ worker' = heldWorker /\ pending' = n
         /\ UNCHANGED phase
    ELSE /\ worker' = n /\ pending' = heldPending
         /\ phase' = [phase EXCEPT ![n] = "ready"]

\* The monitoring emits a snapshot of the WorkSession it still holds, which is
\* skipped without an online session.
emit ==
    IF session = "online"
    THEN /\ issued' = Append(issued, workSession)
         /\ handleSnapshot(Newest + 1, worker, pending)
    ELSE UNCHANGED <<issued, worker, pending, phase>>

Login ==
    /\ ui = "loop" /\ session = "none"
    /\ session' \in {"offline", "online"}
    /\ UNCHANGED <<ui, workSession, monitoring, issued, senderVars, workerVars,
                   networkVars>>

StartMonitoring ==
    /\ ui = "loop" /\ session # "none" /\ ~monitoring
    /\ workSession < MaxSessions /\ Newest < MaxSnapshots
    /\ workSession' = workSession + 1
    /\ monitoring' = TRUE
    /\ UNCHANGED <<session, ui, issued, senderVars, workerVars, networkVars>>

Report ==
    /\ ui = "loop" /\ monitoring
    /\ Newest + 1 < MaxSnapshots        \* the safe state still to come
    /\ emit
    /\ UNCHANGED <<session, ui, workSession, monitoring, finished, flushed,
                   attempts, interrupted, networkVars>>

StopMonitoring ==
    /\ ui = "loop" /\ monitoring
    /\ emit
    /\ monitoring' = FALSE
    /\ UNCHANGED <<session, ui, workSession, finished, flushed, attempts,
                   interrupted, networkVars>>

BugForgetsNewWorker ==
    /\ ui = "loop" /\ finished # <<>>
    /\ finished' = Tail(finished)
    /\ IF pending = None \/ session # "online"
       THEN worker' = None /\ pending' = None /\ UNCHANGED phase
       ELSE handleSnapshot(pending, None, None)
    /\ UNCHANGED <<stationVars, flushed, attempts, interrupted, networkVars>>

\* finished of a worker: _dispose_safety_state_delivery_worker.
HandleFinished ==
    /\ ui = "loop" /\ finished # <<>>
    /\ finished' = Tail(finished)
    /\ LET held == IF worker = Head(finished) THEN None ELSE worker
       IN  IF pending = None \/ session # "online"
           THEN worker' = held /\ pending' = None /\ UNCHANGED phase
           ELSE handleSnapshot(pending, held, None)
    /\ UNCHANGED <<stationVars, flushed, attempts, interrupted, networkVars>>

-----------------------------------------------------------------------------
\* handle_logout: the monitoring is shut down and its safe snapshot handled,
\* then _shutdown_safety_state_delivery_worker blocks the UI thread.
Logout ==
    /\ ui = "loop" /\ session # "none"
    /\ ui' = "waiting"
    /\ monitoring' = FALSE
    /\ IF monitoring THEN emit ELSE UNCHANGED <<issued, worker, pending, phase>>
    /\ UNCHANGED <<session, workSession, finished, flushed, attempts,
                   interrupted, networkVars>>

BugNoFlush ==
    /\ ui = "waiting"
    /\ interrupted' = IF Running(worker) THEN interrupted \cup {worker} ELSE interrupted
    /\ worker' = None /\ pending' = None
    /\ ui' = "deleting" /\ session' = "none"
    /\ UNCHANGED <<workSession, monitoring, issued, finished, flushed, phase,
                   attempts, networkVars>>

\* worker.wait(5000) returns, in time or not: a worker that still runs is told
\* to stop.  Either way it is forgotten and given to deleteLater.
LogoutWaited ==
    /\ ui = "waiting"
    /\ interrupted' = IF Running(worker) THEN interrupted \cup {worker} ELSE interrupted
    /\ worker' = None /\ pending' = None
    /\ IF pending = None \/ session # "online"
       THEN /\ ui' = "deleting" /\ session' = "none"
            /\ UNCHANGED <<flushed, request>>
       ELSE /\ ui' = "flushing" /\ flushed' = pending
            /\ request' = [request EXCEPT ![pending] = "sent"]
            /\ UNCHANGED session
    /\ UNCHANGED <<workSession, monitoring, issued, finished, phase, attempts,
                   late, server, failed>>

\* The direct send_safety_state returns or raises; the session is closed.
LogoutFlushed ==
    /\ ui = "flushing"
    /\ ui' = "deleting" /\ session' = "none"
    /\ request' = [request EXCEPT ![flushed] = "none"]
    /\ \/ request[flushed] = "served" /\ UNCHANGED <<late, failed>>
       \/ /\ failed' = TRUE
          /\ late' = IF LateArrivals /\ request[flushed] = "sent"
                     THEN late \cup {flushed} ELSE late
    /\ UNCHANGED <<workSession, monitoring, issued, senderVars, workerVars,
                   server>>

\* handle_logout has returned and the event loop deletes the worker.  Qt aborts
\* the process when a QThread is deleted while it runs: its threads end, their
\* requests have no sender any more, and what was posted is gone.
DeleteWorker ==
    /\ ui = "deleting"
    /\ IF \E n \in interrupted : Running(n)
       THEN /\ ui' = "aborted"
            /\ phase' = [n \in Snapshots |-> IF Running(n) THEN "killed" ELSE phase[n]]
            /\ finished' = <<>>
            /\ late' = IF LateArrivals
                       THEN late \cup {n \in Snapshots : request[n] = "sent"} ELSE late
            /\ request' = [n \in Snapshots |-> "none"]
       ELSE /\ ui' = "loop"
            /\ UNCHANGED <<phase, finished, late, request>>
    /\ UNCHANGED <<session, workSession, monitoring, issued, worker, pending, flushed,
                   attempts, interrupted, server, failed>>

\* The application is started again, with empty slots and no session.
Restart ==
    /\ ui = "aborted"
    /\ ui' = "loop"
    /\ UNCHANGED <<session, workSession, monitoring, issued, senderVars, workerVars,
                   networkVars>>

-----------------------------------------------------------------------------
\* SafetyStateDeliveryWorker.run
Attempt(n) ==
    /\ phase[n] = "ready" /\ n \notin interrupted
    /\ phase' = [phase EXCEPT ![n] = "sending"]
    /\ attempts' = [attempts EXCEPT ![n] = @ + 1]
    /\ request' = [request EXCEPT ![n] = "sent"]
    /\ UNCHANGED <<stationVars, senderVars, interrupted, late, server, failed>>

BugSignalNotPosted(n) ==
    /\ phase' = [phase EXCEPT ![n] = "ended"]
    /\ UNCHANGED finished

end(n) ==
    /\ phase' = [phase EXCEPT ![n] = "ended"]
    /\ finished' = Append(finished, n)

Deliver(n) ==
    /\ phase[n] = "sending" /\ request[n] = "served"
    /\ end(n)
    /\ request' = [request EXCEPT ![n] = "none"]
    /\ UNCHANGED <<stationVars, worker, pending, flushed, attempts,
                   interrupted, late, server, failed>>

\* 401, 403 or 422: the API refuses the snapshot and the worker gives up.
Reject(n) ==
    /\ phase[n] = "sending" /\ request[n] = "sent"
    /\ end(n)
    /\ request' = [request EXCEPT ![n] = "none"]
    /\ failed' = TRUE
    /\ UNCHANGED <<stationVars, worker, pending, flushed, attempts,
                   interrupted, late, server>>

BugOneAttemptMore(n) ==
    /\ phase[n] = "sending"
    /\ IF attempts[n] > MaxAttempts
       THEN end(n)
       ELSE phase' = [phase EXCEPT ![n] = "ready"] /\ UNCHANGED finished
    /\ late' = IF LateArrivals /\ request[n] = "sent" THEN late \cup {n} ELSE late
    /\ request' = [request EXCEPT ![n] = "none"]
    /\ failed' = TRUE
    /\ UNCHANGED <<stationVars, worker, pending, flushed, attempts,
                   interrupted, server>>

\* A transport failure or a timeout, before or after the request was served.
Unavailable(n) ==
    /\ phase[n] = "sending"
    /\ IF attempts[n] = MaxAttempts
       THEN end(n)
       ELSE phase' = [phase EXCEPT ![n] = "ready"] /\ UNCHANGED finished
    /\ late' = IF LateArrivals /\ request[n] = "sent" THEN late \cup {n} ELSE late
    /\ request' = [request EXCEPT ![n] = "none"]
    /\ failed' = TRUE
    /\ UNCHANGED <<stationVars, worker, pending, flushed, attempts,
                   interrupted, server>>

Interrupted(n) ==
    /\ phase[n] = "ready" /\ n \in interrupted
    /\ end(n)
    /\ UNCHANGED <<stationVars, worker, pending, flushed, attempts,
                   interrupted, networkVars>>

\* SafetyStateAggregator.update: the snapshot replaces that of its source.
replaceSource(n) == server' = [server EXCEPT ![issued[n]] = n]

Serve(n) ==
    /\ request[n] = "sent"
    /\ replaceSource(n)
    /\ request' = [request EXCEPT ![n] = "served"]
    /\ UNCHANGED <<stationVars, senderVars, workerVars, late, failed>>

ServeLate(n) ==
    /\ n \in late
    /\ late' = late \ {n}
    /\ replaceSource(n)
    /\ UNCHANGED <<stationVars, senderVars, workerVars, request, failed>>

-----------------------------------------------------------------------------
Init ==
    /\ session = "none" /\ ui = "loop"
    /\ workSession = 0 /\ monitoring = FALSE
    /\ issued = <<>>
    /\ worker = None /\ pending = None /\ finished = <<>> /\ flushed = None
    /\ phase = [n \in Snapshots |-> "none"]
    /\ attempts = [n \in Snapshots |-> 0]
    /\ interrupted = {}
    /\ request = [n \in Snapshots |-> "none"]
    /\ late = {}
    /\ server = [s \in WorkSessions |-> None]
    /\ failed = FALSE

WorkerStep(n) == Attempt(n) \/ Deliver(n) \/ Reject(n) \/ Unavailable(n) \/ Interrupted(n)
LogoutStep == LogoutWaited \/ LogoutFlushed \/ DeleteWorker
Network(n) == Serve(n) \/ ServeLate(n)

Next ==
    \/ Login \/ StartMonitoring \/ Report \/ StopMonitoring \/ Logout
    \/ HandleFinished \/ LogoutStep \/ Restart
    \/ \E n \in Snapshots : WorkerStep(n) \/ Network(n)

\* A worker's thread runs, each of its requests ends by its timeout at the
\* latest, and the UI thread handles what is posted to it unless it blocks,
\* which wait() and the client's timeout bound.  The API need not answer, and
\* nobody need start the application again.
Fairness ==
    /\ \A n \in Snapshots : WF_vars(WorkerStep(n))
    /\ WF_vars(HandleFinished) /\ WF_vars(LogoutStep)

Spec == Init /\ [][Next]_vars /\ Fairness

-----------------------------------------------------------------------------
StationTypeOK ==
    /\ session \in {"none", "offline", "online"}
    /\ ui \in {"loop", "waiting", "flushing", "deleting", "aborted"}
    /\ workSession \in 0..MaxSessions /\ monitoring \in BOOLEAN
    /\ issued \in Seq(WorkSessions) /\ Newest <= MaxSnapshots

SenderTypeOK ==
    /\ worker \in Snapshots \cup {None}
    /\ pending \in Snapshots \cup {None}
    /\ flushed \in Snapshots \cup {None}
    /\ finished \in Seq(Snapshots)

WorkersTypeOK ==
    /\ phase \in [Snapshots -> Phases]
    /\ attempts \in [Snapshots -> 0..MaxAttempts]
    /\ interrupted \subseteq Snapshots

NetworkTypeOK ==
    /\ request \in [Snapshots -> {"none", "sent", "served"}]
    /\ late \subseteq Snapshots
    /\ server \in [WorkSessions -> Snapshots \cup {None}]
    /\ failed \in BOOLEAN

TypeOK == StationTypeOK /\ SenderTypeOK /\ WorkersTypeOK /\ NetworkTypeOK

\* The controller never forgets a worker that runs, except between the wait of a
\* logout that timed out and the deletion of that worker.  So one worker sends at
\* a time: neither a snapshot that waited, nor the finished signal of an earlier
\* worker, nor a login after a logout starts a second one beside it.
RunningWorkerIsKnown ==
    \A n \in Snapshots : Running(n) =>
        \/ n = worker
        \/ n \in interrupted /\ ui \in {"flushing", "deleting"}

\* The newest snapshot handed over is never lost: it waits, it has or had a
\* worker, or a logout sends it; what takes its place is always newer.
NewestIsKept ==
    Newest # None => pending = Newest \/ phase[Newest] # "none" \/ flushed = Newest

\* A snapshot that waits has something that will pick it up: a worker whose
\* end is not handled yet, or the logout.
PendingIsPickedUp ==
    pending # None =>
        \/ Running(worker) \/ finished # <<>>
        \/ ui = "waiting"

\* The newest snapshot is tried to its end, by a worker or by the logout, unless
\* a newer one takes its place or its own worker is killed: a logout waited for
\* it in vain and the process aborts (application_controller.py:450-454).
NewestIsTried ==
    \A n \in Snapshots :
        Newest = n ~> \/ phase[n] \in {"ended", "killed"}
                      \/ flushed = n \/ Newest > n

\* The API holds the "Complete current safety state for one local WorkSession"
\* (2identify_api/app/schemas/safety_state.py:46): while no attempt failed and
\* no wait of a logout timed out, it never goes back to an older snapshot.
\* The code violates it: a snapshot that waits is still kept when a newer one
\* starts a worker at once, because the worker before it has ended and its
\* finished signal is not handled yet.
NeverReplacedByOlder ==
    [][~failed /\ interrupted = {} =>
          \A s \in WorkSessions : server'[s] >= server[s]]_vars
=============================================================================
