---------------------- MODULE SafetyStateDeliveryProofs ----------------------
(***************************************************************************)
(* One sender at a time and no newest snapshot lost, for any number of     *)
(* snapshots, WorkSessions and attempts.                                   *)
(***************************************************************************)
EXTENDS SafetyStateDelivery, TLAPS

\* A monitored WorkSession has a number, and room for its safe state.
SessionIsOpen ==
    monitoring => workSession \in WorkSessions /\ Newest < MaxSnapshots

\* A snapshot not handed over yet has no worker, and one that waits neither;
\* the one that waits was handed over in the session that is still open.
NotStarted ==
    /\ \A n \in Snapshots : n > Newest => phase[n] = "none"
    /\ pending # None =>
          pending <= Newest /\ phase[pending] = "none" /\ session = "online"

\* A worker with attempts left is one that may still make them.
AttemptsLeft ==
    \A n \in Snapshots : phase[n] \in {"none", "ready"} => attempts[n] < MaxAttempts

\* finished is posted by workers that ended.
FinishedHasEnded == \A i \in 1..Len(finished) : phase[finished[i]] = "ended"

\* What a logout sent is not newer than what was handed over, and nothing waits
\* while it is the newest or still being sent, nor until the worker is deleted.
FlushedIsOld ==
    /\ flushed <= Newest
    /\ flushed # None /\ flushed = Newest => pending = None
    /\ ui = "flushing" => flushed # None
    /\ ui \in {"flushing", "deleting"} => pending = None

IInv ==
    /\ TypeOK /\ SessionIsOpen /\ NotStarted /\ AttemptsLeft
    /\ FinishedHasEnded /\ FlushedIsOld
    /\ RunningWorkerIsKnown /\ NewestIsKept

-----------------------------------------------------------------------------
\* Before the first login.
LEMMA InitEstablishes == Init => IInv
<1>. SUFFICES ASSUME Init PROVE IInv
  OBVIOUS
<1>. USE DeliveryAssumption DEF Init, None, Newest
<1>1. StationTypeOK
  <2>1. issued \in Seq(WorkSessions) /\ Newest = 0
    OBVIOUS
  <2>2. workSession \in 0..MaxSessions /\ Newest <= MaxSnapshots
    BY <2>1 DEF DeliveryAssumption
  <2>3. session = "none" /\ ui = "loop" /\ monitoring = FALSE
    OBVIOUS
  <2>. QED  BY <2>1, <2>2, <2>3 DEF StationTypeOK
<1>2. SenderTypeOK
  <2>1. finished \in Seq(Snapshots)
    OBVIOUS
  <2>. QED  BY <2>1 DEF SenderTypeOK
<1>6. WorkersTypeOK
  <2>1. 0 \in 0..MaxAttempts
    BY DEF DeliveryAssumption
  <2>. QED  BY <2>1 DEF WorkersTypeOK, Phases
<1>7. NetworkTypeOK
  BY DEF NetworkTypeOK
<1>3. SessionIsOpen /\ NotStarted /\ AttemptsLeft
  BY DEF SessionIsOpen, NotStarted, AttemptsLeft, Snapshots
<1>4. FinishedHasEnded /\ FlushedIsOld
  BY DEF FinishedHasEnded, FlushedIsOld
<1>5. RunningWorkerIsKnown /\ NewestIsKept
  BY DEF RunningWorkerIsKnown, NewestIsKept, Running
<1>. QED  BY <1>1, <1>2, <1>3, <1>4, <1>5, <1>6, <1>7 DEF IInv, TypeOK

\* A login opens the session and touches no sender.
LEMMA LoginPreserves == ASSUME IInv, Login PROVE IInv'
<1>. USE DEF Login, IInv, senderVars, workerVars, networkVars, Newest
<1>1. TypeOK'
  BY DEF TypeOK, StationTypeOK, SenderTypeOK, WorkersTypeOK, NetworkTypeOK
<1>2. SessionIsOpen' /\ NotStarted' /\ AttemptsLeft'
  BY DEF SessionIsOpen, NotStarted, AttemptsLeft
<1>3. FinishedHasEnded' /\ FlushedIsOld'
  BY DEF FinishedHasEnded, FlushedIsOld
<1>4. RunningWorkerIsKnown' /\ NewestIsKept'
  BY DEF RunningWorkerIsKnown, NewestIsKept, Running
<1>. QED  BY <1>1, <1>2, <1>3, <1>4

\* A new WorkSession leaves room for its safe state.
LEMMA StartMonitoringPreserves == ASSUME IInv, StartMonitoring PROVE IInv'
<1>. USE DEF StartMonitoring, IInv, senderVars, workerVars, networkVars, Newest
<1>1. TypeOK' /\ SessionIsOpen'
  BY DeliveryAssumption
     DEF TypeOK, StationTypeOK, SenderTypeOK, WorkersTypeOK, NetworkTypeOK,
         SessionIsOpen, WorkSessions
<1>2. NotStarted' /\ AttemptsLeft'
  BY DEF NotStarted, AttemptsLeft
<1>3. FinishedHasEnded' /\ FlushedIsOld'
  BY DEF FinishedHasEnded, FlushedIsOld
<1>4. RunningWorkerIsKnown' /\ NewestIsKept'
  BY DEF RunningWorkerIsKnown, NewestIsKept, Running
<1>. QED  BY <1>1, <1>2, <1>3, <1>4

-----------------------------------------------------------------------------
\* A new snapshot n is taken over: it starts a worker if none runs, else waits.
LEMMA EmitPreserves ==
    ASSUME IInv, ui = "loop", monitoring, emit,
           Newest + 1 < MaxSnapshots \/ ~monitoring',
           monitoring' \in BOOLEAN, ui' \in {"loop", "waiting"},
           UNCHANGED <<session, workSession, finished, flushed, attempts,
                       interrupted, networkVars>>
    PROVE  IInv'
<1>. USE DeliveryAssumption DEF networkVars
<1>0. /\ TypeOK /\ SessionIsOpen /\ NotStarted /\ AttemptsLeft
      /\ FinishedHasEnded /\ FlushedIsOld /\ RunningWorkerIsKnown /\ NewestIsKept
  BY DEF IInv
<1>1. Newest \in Nat /\ workSession \in WorkSessions /\ Newest + 1 \in Snapshots
  BY <1>0 DEF TypeOK, StationTypeOK, SessionIsOpen, Newest, Snapshots
<1>2. CASE session # "online"
  <2>1. UNCHANGED <<issued, worker, pending, phase>>
    BY <1>2 DEF emit
  <2>2. TypeOK' /\ SessionIsOpen'
    BY <1>0, <1>1, <2>1
       DEF TypeOK, StationTypeOK, SenderTypeOK, WorkersTypeOK, NetworkTypeOK,
           SessionIsOpen, Newest, WorkSessions
  <2>3. NotStarted' /\ AttemptsLeft' /\ FinishedHasEnded' /\ FlushedIsOld'
    BY <1>0, <2>1 DEF NotStarted, AttemptsLeft, FinishedHasEnded, FlushedIsOld, Newest
  <2>4. RunningWorkerIsKnown' /\ NewestIsKept'
    BY <1>0, <2>1 DEF RunningWorkerIsKnown, NewestIsKept, Running, Newest
  <2>. QED  BY <2>2, <2>3, <2>4 DEF IInv
<1>3. CASE session = "online"
  <2>. DEFINE n == Newest + 1
  <2>1. issued' = Append(issued, workSession) /\ handleSnapshot(n, worker, pending)
    BY <1>3 DEF emit
  <2>2. Newest' = n /\ issued' \in Seq(WorkSessions)
    BY <1>0, <1>1, <2>1 DEF Newest, TypeOK, StationTypeOK
  <2>3. phase[n] = "none" /\ n # None
    BY <1>0, <1>1 DEF NotStarted, None
  <2>4. StationTypeOK' /\ NetworkTypeOK' /\ SessionIsOpen'
    BY <1>0, <1>1, <2>2 DEF TypeOK, StationTypeOK, NetworkTypeOK, SessionIsOpen, Snapshots
  <2>5. CASE Running(worker)
    <3>1. worker' = worker /\ pending' = n /\ phase' = phase
      BY <2>1, <2>5 DEF handleSnapshot
    <3>2. SenderTypeOK' /\ WorkersTypeOK'
      BY <1>0, <1>1, <3>1 DEF TypeOK, SenderTypeOK, WorkersTypeOK
    <3>3. NotStarted' /\ AttemptsLeft' /\ FinishedHasEnded'
      BY <1>0, <1>1, <1>3, <2>2, <2>3, <3>1
         DEF NotStarted, AttemptsLeft, FinishedHasEnded, Snapshots
    <3>4. FlushedIsOld' /\ NewestIsKept'
      BY <1>0, <1>1, <2>2, <3>1
         DEF FlushedIsOld, NewestIsKept, TypeOK, SenderTypeOK, Snapshots, None
    <3>5. RunningWorkerIsKnown'
      BY <1>0, <3>1 DEF RunningWorkerIsKnown, Running
    <3>. QED  BY <2>4, <3>2, <3>3, <3>4, <3>5 DEF IInv, TypeOK
  <2>6. CASE ~Running(worker)
    <3>1. /\ worker' = n /\ pending' = pending
          /\ phase' = [phase EXCEPT ![n] = "ready"]
      BY <2>1, <2>6 DEF handleSnapshot
    <3>2. SenderTypeOK' /\ WorkersTypeOK'
      BY <1>0, <1>1, <3>1 DEF TypeOK, SenderTypeOK, WorkersTypeOK, Phases
    <3>3. NotStarted'
      BY <1>0, <1>1, <1>3, <2>2, <3>1
         DEF NotStarted, TypeOK, SenderTypeOK, WorkersTypeOK, Snapshots, None
    <3>4. AttemptsLeft'
      BY <1>0, <1>1, <2>3, <3>1 DEF AttemptsLeft, TypeOK, WorkersTypeOK
    <3>5. FinishedHasEnded'
      BY <1>0, <2>3, <3>1 DEF FinishedHasEnded, TypeOK, WorkersTypeOK, SenderTypeOK
    <3>6. FlushedIsOld' /\ NewestIsKept'
      BY <1>0, <1>1, <2>2, <3>1
         DEF FlushedIsOld, NewestIsKept, TypeOK, SenderTypeOK, WorkersTypeOK,
             Snapshots, None
    <3>7. RunningWorkerIsKnown'
      BY <1>0, <2>6, <3>1 DEF RunningWorkerIsKnown, Running, TypeOK, WorkersTypeOK
    <3>. QED  BY <2>4, <3>2, <3>3, <3>4, <3>5, <3>6, <3>7 DEF IInv, TypeOK
  <2>. QED  BY <2>5, <2>6
<1>. QED  BY <1>2, <1>3

\* Logout when nothing is monitored.
LEMMA LogoutIdlePreserves == ASSUME IInv, Logout, ~monitoring PROVE IInv'
<1>. USE DEF Logout, IInv, networkVars, Newest
<1>1. TypeOK' /\ SessionIsOpen'
  BY DEF TypeOK, StationTypeOK, SenderTypeOK, WorkersTypeOK, NetworkTypeOK,
         SessionIsOpen
<1>2. NotStarted' /\ AttemptsLeft'
  BY DEF NotStarted, AttemptsLeft
<1>3. FinishedHasEnded' /\ FlushedIsOld'
  BY DEF FinishedHasEnded, FlushedIsOld
<1>4. RunningWorkerIsKnown' /\ NewestIsKept'
  BY DEF RunningWorkerIsKnown, NewestIsKept, Running
<1>. QED  BY <1>1, <1>2, <1>3, <1>4

\* The finished signal of a worker clears the worker it names and no other, and
\* that one has ended; the snapshot that waits takes its place.
LEMMA HandleFinishedPreserves == ASSUME IInv, HandleFinished PROVE IInv'
<1>. DEFINE held == IF worker = Head(finished) THEN None ELSE worker
<1>0. /\ TypeOK /\ SessionIsOpen /\ NotStarted /\ AttemptsLeft
      /\ FinishedHasEnded /\ FlushedIsOld /\ RunningWorkerIsKnown /\ NewestIsKept
  BY DEF IInv
<1>1. /\ finished # <<>> /\ finished' = Tail(finished)
      /\ UNCHANGED <<stationVars, flushed, attempts, interrupted, networkVars>>
  BY DEF HandleFinished
<1>2. finished \in Seq(Snapshots) /\ phase \in [Snapshots -> Phases]
  BY <1>0 DEF TypeOK, SenderTypeOK, WorkersTypeOK
<1>3. /\ finished' \in Seq(Snapshots)
      /\ \A i \in 1..Len(finished') : i + 1 \in 1..Len(finished)
                                      /\ finished'[i] = finished[i + 1]
  BY <1>1, <1>2
<1>4. \A i \in 1..Len(finished') : phase[finished'[i]] = "ended"
  BY <1>0, <1>3 DEF FinishedHasEnded
<1>5. \A n \in Snapshots : Running(n) => n = held
  <2>1. 1 \in 1..Len(finished) /\ Head(finished) = finished[1]
    BY <1>1, <1>2
  <2>2. ~Running(Head(finished))
    BY <1>0, <2>1 DEF FinishedHasEnded, Running
  <2>. QED  BY <1>0, <2>2 DEF RunningWorkerIsKnown, HandleFinished
<1>6. held \in Snapshots \cup {None}
  BY <1>0 DEF TypeOK, SenderTypeOK
<1>7. StationTypeOK' /\ NetworkTypeOK' /\ SessionIsOpen' /\ Newest' = Newest
  BY <1>0, <1>1
     DEF TypeOK, StationTypeOK, NetworkTypeOK, SessionIsOpen, Newest,
         stationVars, networkVars
<1>8. CASE pending = None \/ session # "online"
  <2>1. worker' = held /\ pending' = None /\ phase' = phase
    BY <1>8 DEF HandleFinished
  <2>2. pending = None
    BY <1>0, <1>8 DEF NotStarted
  <2>3. SenderTypeOK' /\ WorkersTypeOK'
    BY <1>0, <1>1, <1>3, <1>6, <2>1 DEF TypeOK, SenderTypeOK, WorkersTypeOK
  <2>4. NotStarted' /\ AttemptsLeft' /\ FinishedHasEnded'
    BY <1>0, <1>1, <1>4, <1>7, <2>1 DEF NotStarted, AttemptsLeft, FinishedHasEnded
  <2>5. FlushedIsOld' /\ NewestIsKept'
    BY <1>0, <1>1, <1>7, <2>1, <2>2 DEF FlushedIsOld, NewestIsKept, stationVars
  <2>6. RunningWorkerIsKnown'
    BY <1>1, <1>5, <2>1 DEF RunningWorkerIsKnown, Running
  <2>. QED  BY <1>7, <2>3, <2>4, <2>5, <2>6 DEF IInv, TypeOK
<1>9. CASE pending # None /\ session = "online"
  <2>1. handleSnapshot(pending, held, None)
    BY <1>9 DEF HandleFinished
  <2>2. pending \in Snapshots /\ phase[pending] = "none" /\ pending <= Newest
    BY <1>0, <1>9 DEF NotStarted, TypeOK, SenderTypeOK
  <2>3. CASE Running(held)
    <3>1. worker' = held /\ pending' = pending /\ phase' = phase
      BY <2>1, <2>3 DEF handleSnapshot
    <3>2. SenderTypeOK' /\ WorkersTypeOK'
      BY <1>0, <1>1, <1>3, <1>6, <3>1 DEF TypeOK, SenderTypeOK, WorkersTypeOK
    <3>3. NotStarted' /\ AttemptsLeft' /\ FinishedHasEnded'
      BY <1>0, <1>1, <1>4, <1>7, <3>1
         DEF NotStarted, AttemptsLeft, FinishedHasEnded, stationVars
    <3>4. FlushedIsOld' /\ NewestIsKept'
      BY <1>0, <1>1, <1>7, <3>1 DEF FlushedIsOld, NewestIsKept, stationVars
    <3>5. RunningWorkerIsKnown'
      BY <1>1, <1>5, <3>1 DEF RunningWorkerIsKnown, Running
    <3>. QED  BY <1>7, <3>2, <3>3, <3>4, <3>5 DEF IInv, TypeOK
  <2>4. CASE ~Running(held)
    <3>1. /\ worker' = pending /\ pending' = None
          /\ phase' = [phase EXCEPT ![pending] = "ready"]
      BY <2>1, <2>4 DEF handleSnapshot
    <3>2. SenderTypeOK' /\ WorkersTypeOK'
      BY <1>0, <1>1, <1>3, <2>2, <3>1
         DEF TypeOK, SenderTypeOK, WorkersTypeOK, Phases
    <3>3. NotStarted'
      BY <1>0, <1>2, <1>7, <2>2, <3>1
         DEF NotStarted, TypeOK, StationTypeOK, Newest, Snapshots
    <3>4. AttemptsLeft'
      BY <1>0, <1>1, <1>2, <2>2, <3>1 DEF AttemptsLeft
    <3>5. FinishedHasEnded'
      BY <1>2, <1>3, <1>4, <2>2, <3>1 DEF FinishedHasEnded
    <3>6. FlushedIsOld'
      BY <1>0, <1>1, <1>7, <3>1 DEF FlushedIsOld, stationVars
    <3>7. NewestIsKept'
      BY <1>0, <1>1, <1>2, <1>7, <2>2, <3>1 DEF NewestIsKept
    <3>8. RunningWorkerIsKnown'
      BY <1>1, <1>2, <1>5, <2>2, <2>4, <3>1 DEF RunningWorkerIsKnown, Running
    <3>. QED
      BY <1>7, <3>2, <3>3, <3>4, <3>5, <3>6, <3>7, <3>8 DEF IInv, TypeOK
  <2>. QED  BY <2>3, <2>4
<1>. QED  BY <1>8, <1>9

-----------------------------------------------------------------------------
\* handle_logout stops waiting for the worker and forgets it, interrupted if it
\* runs; what waited is what it sends.
LEMMA LogoutWaitedPreserves == ASSUME IInv, LogoutWaited PROVE IInv'
<1>0. /\ TypeOK /\ SessionIsOpen /\ NotStarted /\ AttemptsLeft
      /\ FinishedHasEnded /\ FlushedIsOld /\ RunningWorkerIsKnown /\ NewestIsKept
  BY DEF IInv
<1>1. /\ worker' = None /\ pending' = None
      /\ UNCHANGED <<workSession, monitoring, issued, finished, phase, attempts,
                     late, server, failed>>
  BY DEF LogoutWaited
<1>2. ui = "waiting" /\ ui' \in {"flushing", "deleting"}
      /\ interrupted' = IF Running(worker) THEN interrupted \cup {worker} ELSE interrupted
  BY DEF LogoutWaited
<1>3. WorkersTypeOK'
  BY <1>0, <1>1, <1>2 DEF TypeOK, WorkersTypeOK, SenderTypeOK, Running
<1>4. NotStarted' /\ AttemptsLeft' /\ FinishedHasEnded' /\ SessionIsOpen'
  BY <1>0, <1>1
     DEF NotStarted, AttemptsLeft, FinishedHasEnded, SessionIsOpen, Newest
<1>5. RunningWorkerIsKnown'
  BY <1>0, <1>1, <1>2 DEF RunningWorkerIsKnown, Running
<1>6. CASE pending = None \/ session # "online"
  <2>1. /\ ui' = "deleting" /\ session' = "none" /\ UNCHANGED <<flushed, request>>
    BY <1>6 DEF LogoutWaited
  <2>2. pending = None
    BY <1>0, <1>6 DEF NotStarted
  <2>3. StationTypeOK' /\ SenderTypeOK' /\ NetworkTypeOK'
    BY <1>0, <1>1, <2>1
       DEF TypeOK, StationTypeOK, SenderTypeOK, NetworkTypeOK, Newest
  <2>4. FlushedIsOld' /\ NewestIsKept'
    BY <1>0, <1>1, <2>1, <2>2 DEF FlushedIsOld, NewestIsKept, Newest
  <2>. QED  BY <1>3, <1>4, <1>5, <2>3, <2>4 DEF IInv, TypeOK
<1>7. CASE pending # None /\ session = "online"
  <2>1. /\ ui' = "flushing" /\ flushed' = pending /\ session' = session
        /\ request' = [request EXCEPT ![pending] = "sent"]
    BY <1>7 DEF LogoutWaited
  <2>2. pending \in Snapshots /\ pending <= Newest /\ phase[pending] = "none"
    BY <1>0, <1>7 DEF NotStarted, TypeOK, SenderTypeOK
  <2>3. StationTypeOK' /\ SenderTypeOK' /\ NetworkTypeOK'
    BY <1>0, <1>1, <2>1, <2>2
       DEF TypeOK, StationTypeOK, SenderTypeOK, NetworkTypeOK, Newest
  <2>4. FlushedIsOld'
    BY <1>1, <1>7, <2>1, <2>2 DEF FlushedIsOld, Newest
  <2>5. NewestIsKept'
    BY <1>0, <1>1, <1>7, <2>1 DEF NewestIsKept, FlushedIsOld, Newest
  <2>. QED  BY <1>3, <1>4, <1>5, <2>3, <2>4, <2>5 DEF IInv, TypeOK
<1>. QED  BY <1>6, <1>7

\* Nothing waits while handle_logout sends: closing the session strands nothing.
LEMMA LogoutFlushedPreserves == ASSUME IInv, LogoutFlushed PROVE IInv'
<1>0. /\ TypeOK /\ SessionIsOpen /\ NotStarted /\ AttemptsLeft
      /\ FinishedHasEnded /\ FlushedIsOld /\ RunningWorkerIsKnown /\ NewestIsKept
  BY DEF IInv
<1>1. /\ ui = "flushing" /\ ui' = "deleting" /\ session' = "none"
      /\ UNCHANGED <<workSession, monitoring, issued, senderVars, workerVars,
                     server>>
  BY DEF LogoutFlushed
<1>2. flushed \in Snapshots /\ pending = None
  BY <1>0, <1>1 DEF FlushedIsOld, TypeOK, SenderTypeOK
<1>3. StationTypeOK' /\ SenderTypeOK' /\ WorkersTypeOK' /\ SessionIsOpen'
  BY <1>0, <1>1
     DEF TypeOK, StationTypeOK, SenderTypeOK, WorkersTypeOK, SessionIsOpen,
         Newest, senderVars, workerVars
<1>4. NetworkTypeOK'
  BY <1>0, <1>2 DEF LogoutFlushed, TypeOK, NetworkTypeOK
<1>5. NotStarted' /\ AttemptsLeft' /\ FinishedHasEnded' /\ FlushedIsOld'
  BY <1>0, <1>1, <1>2
     DEF NotStarted, AttemptsLeft, FinishedHasEnded, FlushedIsOld, Newest,
         senderVars, workerVars
<1>6. RunningWorkerIsKnown' /\ NewestIsKept'
  BY <1>0, <1>1
     DEF RunningWorkerIsKnown, NewestIsKept, Running, Newest, senderVars, workerVars
<1>. QED  BY <1>3, <1>4, <1>5, <1>6 DEF IInv, TypeOK

\* If the worker given up has ended, the next login finds no other that runs; if
\* not, no worker survives the process.
LEMMA DeleteWorkerPreserves == ASSUME IInv, DeleteWorker PROVE IInv'
<1>0. /\ TypeOK /\ SessionIsOpen /\ NotStarted /\ AttemptsLeft
      /\ FinishedHasEnded /\ FlushedIsOld /\ RunningWorkerIsKnown /\ NewestIsKept
  BY DEF IInv
<1>1. /\ ui = "deleting"
      /\ UNCHANGED <<session, workSession, monitoring, issued, worker, pending, flushed,
                     attempts, interrupted, server, failed>>
  BY DEF DeleteWorker
<1>2. CASE \E n \in interrupted : Running(n)
  <2>1. /\ ui' = "aborted" /\ finished' = <<>>
        /\ phase' = [n \in Snapshots |-> IF Running(n) THEN "killed" ELSE phase[n]]
        /\ late' = IF LateArrivals
                   THEN late \cup {n \in Snapshots : request[n] = "sent"} ELSE late
        /\ request' = [n \in Snapshots |-> "none"]
    BY <1>2 DEF DeleteWorker
  <2>2. StationTypeOK' /\ NetworkTypeOK' /\ SessionIsOpen'
    BY <1>0, <1>1, <2>1
       DEF TypeOK, StationTypeOK, NetworkTypeOK, SessionIsOpen, Newest
  <2>3. <<>> \in Seq(Snapshots)
    OBVIOUS
  <2>4. SenderTypeOK' /\ WorkersTypeOK'
    BY <1>0, <1>1, <2>1, <2>3 DEF TypeOK, SenderTypeOK, WorkersTypeOK, Phases
  <2>5. NotStarted' /\ AttemptsLeft' /\ FinishedHasEnded'
    BY <1>0, <1>1, <2>1
       DEF NotStarted, AttemptsLeft, FinishedHasEnded, Newest, Running, TypeOK, SenderTypeOK
  <2>6. FlushedIsOld' /\ NewestIsKept'
    BY <1>0, <1>1, <2>1
       DEF FlushedIsOld, NewestIsKept, Newest, TypeOK, StationTypeOK, Snapshots, None
  <2>7. RunningWorkerIsKnown'
    BY <2>1 DEF RunningWorkerIsKnown, Running
  <2>. QED  BY <2>2, <2>4, <2>5, <2>6, <2>7 DEF IInv, TypeOK
<1>3. CASE ~\E n \in interrupted : Running(n)
  <2>1. ui' = "loop" /\ UNCHANGED <<phase, finished, late, request>>
    BY <1>3 DEF DeleteWorker
  <2>2. TypeOK' /\ SessionIsOpen'
    BY <1>0, <1>1, <2>1
       DEF TypeOK, StationTypeOK, SenderTypeOK, WorkersTypeOK, NetworkTypeOK,
           SessionIsOpen, Newest
  <2>3. NotStarted' /\ AttemptsLeft' /\ FinishedHasEnded' /\ FlushedIsOld'
    BY <1>0, <1>1, <2>1 DEF NotStarted, AttemptsLeft, FinishedHasEnded, FlushedIsOld, Newest
  <2>4. RunningWorkerIsKnown' /\ NewestIsKept'
    BY <1>0, <1>1, <1>3, <2>1 DEF RunningWorkerIsKnown, NewestIsKept, Running, Newest
  <2>. QED  BY <2>2, <2>3, <2>4 DEF IInv
<1>. QED  BY <1>2, <1>3

\* The process that starts again holds nothing of the one that aborted.
LEMMA RestartPreserves == ASSUME IInv, Restart PROVE IInv'
<1>. USE DEF Restart, IInv, senderVars, workerVars, networkVars, Newest
<1>1. TypeOK' /\ SessionIsOpen'
  BY DEF TypeOK, StationTypeOK, SenderTypeOK, WorkersTypeOK, NetworkTypeOK, SessionIsOpen
<1>2. NotStarted' /\ AttemptsLeft' /\ FinishedHasEnded' /\ FlushedIsOld'
  BY DEF NotStarted, AttemptsLeft, FinishedHasEnded, FlushedIsOld
<1>3. RunningWorkerIsKnown' /\ NewestIsKept'
  BY DEF RunningWorkerIsKnown, NewestIsKept, Running
<1>. QED  BY <1>1, <1>2, <1>3

-----------------------------------------------------------------------------
\* What the steps of a worker have in common: it moves on from a phase it runs
\* in, posts finished only when it ends, and touches no other worker.
LEMMA WorkerMovePreserves ==
    ASSUME IInv, NEW n \in Snapshots, phase[n] \in {"ready", "sending"},
           NEW to \in {"ready", "sending", "ended"},
           phase' = [phase EXCEPT ![n] = to],
           UNCHANGED <<stationVars, worker, pending, flushed, interrupted>>,
           attempts' \in [Snapshots -> 0..MaxAttempts],
           \A m \in Snapshots : m # n => attempts'[m] = attempts[m],
           to = "ready" => attempts'[n] < MaxAttempts,
           finished' = finished \/ (to = "ended" /\ finished' = Append(finished, n)),
           NetworkTypeOK'
    PROVE  IInv'
<1>0. /\ TypeOK /\ SessionIsOpen /\ NotStarted /\ AttemptsLeft
      /\ FinishedHasEnded /\ FlushedIsOld /\ RunningWorkerIsKnown /\ NewestIsKept
  BY DEF IInv
<1>1. phase \in [Snapshots -> Phases] /\ finished \in Seq(Snapshots)
  BY <1>0 DEF TypeOK, SenderTypeOK, WorkersTypeOK
<1>2. finished' \in Seq(Snapshots)
  BY <1>1
<1>3. StationTypeOK' /\ SenderTypeOK' /\ SessionIsOpen' /\ FlushedIsOld'
  BY <1>0, <1>2
     DEF TypeOK, StationTypeOK, SenderTypeOK, SessionIsOpen, FlushedIsOld,
         Newest, stationVars
<1>4. WorkersTypeOK'
  BY <1>0 DEF TypeOK, WorkersTypeOK, Phases
<1>5. NotStarted'
  BY <1>0, <1>1 DEF NotStarted, Newest, stationVars, Snapshots
<1>6. AttemptsLeft'
  BY <1>0, <1>1 DEF AttemptsLeft
<1>7. FinishedHasEnded'
  <2>1. SUFFICES ASSUME NEW i \in 1..Len(finished')
                 PROVE  phase'[finished'[i]] = "ended"
    BY DEF FinishedHasEnded
  <2>2. CASE i \in 1..Len(finished)
    <3>1. finished'[i] = finished[i] /\ finished[i] \in Snapshots
      BY <1>1, <2>2
    <3>2. phase[finished[i]] = "ended"
      BY <1>0, <2>2 DEF FinishedHasEnded
    <3>. QED  BY <1>1, <3>1, <3>2
  <2>3. CASE i \notin 1..Len(finished)
    <3>1. to = "ended" /\ finished' = Append(finished, n)
      BY <2>3
    <3>2. i = Len(finished) + 1 /\ finished'[i] = n
      BY <1>1, <2>3, <3>1
    <3>. QED  BY <1>1, <3>1, <3>2
  <2>. QED  BY <2>2, <2>3
<1>8. RunningWorkerIsKnown' /\ NewestIsKept'
  BY <1>0, <1>1 DEF RunningWorkerIsKnown, NewestIsKept, Running, Newest, stationVars
<1>. QED  BY <1>3, <1>4, <1>5, <1>6, <1>7, <1>8 DEF IInv, TypeOK

\* Each step of run is such a move; it is interrupted only before an attempt.
LEMMA WorkerStepPreserves ==
    ASSUME IInv, NEW n \in Snapshots, WorkerStep(n) PROVE IInv'
<1>1. /\ phase \in [Snapshots -> Phases] /\ interrupted \subseteq Snapshots
      /\ attempts \in [Snapshots -> 0..MaxAttempts] /\ NetworkTypeOK
      /\ AttemptsLeft
  BY DEF IInv, TypeOK, WorkersTypeOK
<1>2. CASE Attempt(n)
  <2>1. /\ phase[n] = "ready" /\ phase' = [phase EXCEPT ![n] = "sending"]
        /\ attempts' = [attempts EXCEPT ![n] = @ + 1]
        /\ UNCHANGED <<stationVars, worker, pending, flushed, interrupted, finished>>
    BY <1>2 DEF Attempt, senderVars
  <2>2. attempts[n] + 1 \in 0..MaxAttempts
    BY <1>1, <2>1, DeliveryAssumption DEF AttemptsLeft
  <2>3. /\ attempts' \in [Snapshots -> 0..MaxAttempts]
        /\ \A m \in Snapshots : m # n => attempts'[m] = attempts[m]
    BY <1>1, <2>1, <2>2
  <2>4. NetworkTypeOK'
    BY <1>1, <1>2 DEF Attempt, NetworkTypeOK
  <2>. QED  BY <2>1, <2>3, <2>4, WorkerMovePreserves
<1>3. CASE Deliver(n)
  <2>1. /\ phase[n] = "sending" /\ phase' = [phase EXCEPT ![n] = "ended"]
        /\ finished' = Append(finished, n)
        /\ UNCHANGED <<stationVars, worker, pending, flushed, interrupted, attempts>>
    BY <1>3 DEF Deliver, end
  <2>2. NetworkTypeOK'
    BY <1>1, <1>3 DEF Deliver, NetworkTypeOK
  <2>. QED  BY <1>1, <2>1, <2>2, WorkerMovePreserves
<1>4. CASE Reject(n)
  <2>1. /\ phase[n] = "sending" /\ phase' = [phase EXCEPT ![n] = "ended"]
        /\ finished' = Append(finished, n)
        /\ UNCHANGED <<stationVars, worker, pending, flushed, interrupted, attempts>>
    BY <1>4 DEF Reject, end
  <2>2. NetworkTypeOK'
    BY <1>1, <1>4 DEF Reject, NetworkTypeOK
  <2>. QED  BY <1>1, <2>1, <2>2, WorkerMovePreserves
<1>5. CASE Unavailable(n)
  <2>1. /\ phase[n] = "sending"
        /\ UNCHANGED <<stationVars, worker, pending, flushed, interrupted, attempts>>
    BY <1>5 DEF Unavailable
  <2>2. NetworkTypeOK'
    BY <1>1, <1>5 DEF Unavailable, NetworkTypeOK
  <2>3. CASE attempts[n] = MaxAttempts
    <3>1. /\ phase' = [phase EXCEPT ![n] = "ended"]
          /\ finished' = Append(finished, n)
      BY <1>5, <2>3 DEF Unavailable, end
    <3>. QED  BY <1>1, <2>1, <2>2, <3>1, WorkerMovePreserves
  <2>4. CASE attempts[n] # MaxAttempts
    <3>1. phase' = [phase EXCEPT ![n] = "ready"] /\ finished' = finished
      BY <1>5, <2>4 DEF Unavailable
    <3>2. attempts'[n] < MaxAttempts
      BY <1>1, <2>1, <2>4, DeliveryAssumption
    <3>. QED  BY <1>1, <2>1, <2>2, <3>1, <3>2, WorkerMovePreserves
  <2>. QED  BY <2>3, <2>4
<1>6. CASE Interrupted(n)
  <2>1. /\ phase[n] = "ready" /\ phase' = [phase EXCEPT ![n] = "ended"]
        /\ finished' = Append(finished, n)
        /\ UNCHANGED <<stationVars, worker, pending, flushed, interrupted, attempts>>
    BY <1>6 DEF Interrupted, end
  <2>2. NetworkTypeOK'
    BY <1>1, <1>6 DEF Interrupted, NetworkTypeOK, networkVars
  <2>. QED  BY <1>1, <2>1, <2>2, WorkerMovePreserves
<1>. QED  BY <1>2, <1>3, <1>4, <1>5, <1>6 DEF WorkerStep

\* A step of the API, or of nothing modelled here, leaves the station as it is.
LEMMA NetworkPreserves ==
    ASSUME IInv, UNCHANGED <<stationVars, senderVars, workerVars>>, NetworkTypeOK'
    PROVE  IInv'
<1>. USE DEF IInv, stationVars, senderVars, workerVars, Newest
<1>1. StationTypeOK' /\ SenderTypeOK' /\ WorkersTypeOK' /\ SessionIsOpen'
  BY DEF TypeOK, StationTypeOK, SenderTypeOK, WorkersTypeOK, SessionIsOpen
<1>2. NotStarted' /\ AttemptsLeft' /\ FinishedHasEnded' /\ FlushedIsOld'
  BY DEF NotStarted, AttemptsLeft, FinishedHasEnded, FlushedIsOld
<1>3. RunningWorkerIsKnown' /\ NewestIsKept'
  BY DEF RunningWorkerIsKnown, NewestIsKept, Running
<1>. QED  BY <1>1, <1>2, <1>3 DEF TypeOK

\* SafetyStateAggregator.update, for a request in time or late.
LEMMA ServePreserves ==
    ASSUME IInv, NEW n \in Snapshots, Network(n) PROVE IInv'
<1>1. NetworkTypeOK
  BY DEF IInv, TypeOK
<1>2. CASE Serve(n)
  <2>1. NetworkTypeOK'
    BY <1>1, <1>2 DEF Serve, replaceSource, NetworkTypeOK
  <2>. QED  BY <1>2, <2>1, NetworkPreserves DEF Serve
<1>3. CASE ServeLate(n)
  <2>1. NetworkTypeOK'
    BY <1>1, <1>3 DEF ServeLate, replaceSource, NetworkTypeOK
  <2>. QED  BY <1>3, <2>1, NetworkPreserves DEF ServeLate
<1>. QED  BY <1>2, <1>3 DEF Network

-----------------------------------------------------------------------------
\* Every step of the station, of a worker, of the network, and a stutter.
LEMMA StepPreserves == IInv /\ [Next]_vars => IInv'
<1>. SUFFICES ASSUME IInv, [Next]_vars PROVE IInv'
  OBVIOUS
<1>0. StationTypeOK
  BY DEF IInv, TypeOK
<1>1. CASE Login
  BY <1>1, LoginPreserves
<1>2. CASE StartMonitoring
  BY <1>2, StartMonitoringPreserves
<1>3. CASE Report
  <2>1. monitoring' \in BOOLEAN /\ ui' \in {"loop", "waiting"}
    BY <1>0, <1>3 DEF Report, StationTypeOK
  <2>. QED  BY <1>3, <2>1, EmitPreserves DEF Report
<1>4. CASE StopMonitoring
  <2>1. monitoring' \in BOOLEAN /\ ui' \in {"loop", "waiting"}
    BY <1>4 DEF StopMonitoring
  <2>. QED  BY <1>4, <2>1, EmitPreserves DEF StopMonitoring
<1>5. CASE Logout
  <2>1. CASE monitoring
    BY <1>5, <2>1, EmitPreserves DEF Logout
  <2>2. CASE ~monitoring
    BY <1>5, <2>2, LogoutIdlePreserves
  <2>. QED  BY <2>1, <2>2
<1>6. CASE HandleFinished
  BY <1>6, HandleFinishedPreserves
<1>7. CASE LogoutStep
  BY <1>7, LogoutWaitedPreserves, LogoutFlushedPreserves, DeleteWorkerPreserves DEF LogoutStep
<1>10. CASE Restart
  BY <1>10, RestartPreserves
<1>8. CASE \E n \in Snapshots : WorkerStep(n) \/ Network(n)
  BY <1>8, WorkerStepPreserves, ServePreserves
<1>9. CASE UNCHANGED vars
  <2>1. UNCHANGED <<stationVars, senderVars, workerVars>> /\ NetworkTypeOK'
    BY <1>9 DEF vars, networkVars, NetworkTypeOK, IInv, TypeOK
  <2>. QED  BY <2>1, NetworkPreserves
<1>. QED
  BY <1>1, <1>2, <1>3, <1>4, <1>5, <1>6, <1>7, <1>8, <1>9, <1>10 DEF Next

\* IInv is inductive.
LEMMA InvariantHolds == Spec => []IInv
BY InitEstablishes, StepPreserves, PTL DEF Spec

\* In every reachable state the slots, the workers and the sources of the API
\* have the values the code gives them, whatever the bounds.
THEOREM DeliveryTypeCorrect == Spec => []TypeOK
<1>1. IInv => TypeOK
  BY DEF IInv
<1>. QED  BY <1>1, InvariantHolds, PTL

\* _handle_safety_state_snapshot and the finished slot never leave two workers
\* sending at a time, whatever finished signals are still to be handled: a worker
\* that runs is the one the controller holds, or the one a logout waited for in
\* vain, and that one does not outlive the logout.
THEOREM OneSenderAtATime == Spec => []RunningWorkerIsKnown
<1>1. IInv => RunningWorkerIsKnown
  BY DEF IInv
<1>. QED  BY <1>1, InvariantHolds, PTL

\* However snapshots, finished signals and logouts interleave, the newest one
\* handed over waits, has had a worker, or is sent by the logout.
THEOREM NewestNeverLost == Spec => []NewestIsKept
<1>1. IInv => NewestIsKept
  BY DEF IInv
<1>. QED  BY <1>1, InvariantHolds, PTL

-----------------------------------------------------------------------------
\* Whoever takes a snapshot out of the slot, or puts one there, starts a worker or
\* has found one that runs; a worker ends by posting finished.
LEMMA StepPicksUp == IInv /\ PendingIsPickedUp /\ [Next]_vars => PendingIsPickedUp'
<1>. SUFFICES ASSUME IInv, PendingIsPickedUp, [Next]_vars, pending' # None
              PROVE  Running(worker)' \/ finished' # <<>> \/ ui' = "waiting"
  BY DEF PendingIsPickedUp
<1>0. /\ pending # None => Running(worker) \/ finished # <<>> \/ ui = "waiting"
      /\ TypeOK /\ SessionIsOpen /\ FlushedIsOld
  BY DEF PendingIsPickedUp, IInv
<1>1. CASE Login \/ StartMonitoring
  BY <1>0, <1>1 DEF Login, StartMonitoring, senderVars, workerVars, Running
<1>2. CASE Report \/ StopMonitoring
  <2>1. ui = "loop" /\ finished' = finished /\ monitoring /\ emit
    BY <1>2 DEF Report, StopMonitoring
  <2>. QED  BY <1>0, <2>1 DEF emit, handleSnapshot, Running
<1>3. CASE Logout
  BY <1>3 DEF Logout
<1>4. CASE HandleFinished
  BY <1>4 DEF HandleFinished, handleSnapshot, Running, None
<1>5. CASE LogoutStep
  <2>1. CASE LogoutWaited
    BY <2>1 DEF LogoutWaited
  <2>2. CASE LogoutFlushed
    BY <1>0, <2>2 DEF LogoutFlushed, FlushedIsOld, senderVars
  <2>3. CASE DeleteWorker
    BY <1>0, <2>3 DEF DeleteWorker, FlushedIsOld
  <2>. QED  BY <1>5, <2>1, <2>2, <2>3 DEF LogoutStep
<1>9. CASE Restart
  BY <1>0, <1>9 DEF Restart, senderVars, workerVars, Running
<1>6. ASSUME NEW n \in Snapshots, WorkerStep(n) PROVE Running(worker)' \/ finished' # <<>> \/ ui' = "waiting"
  <2>1. UNCHANGED <<worker, pending, ui>>
    BY <1>6 DEF WorkerStep, Attempt, Deliver, Reject, Unavailable, Interrupted,
                senderVars, stationVars
  <2>2. finished' = Append(finished, n) \/ (finished' = finished /\ phase'[n] \in {"ready", "sending"})
    BY <1>0, <1>6 DEF WorkerStep, Attempt, Deliver, Reject, Unavailable, Interrupted, end,
                senderVars, TypeOK, WorkersTypeOK
  <2>3. CASE finished' = Append(finished, n)
    BY <1>0, <2>3 DEF TypeOK, SenderTypeOK
  <2>4. CASE finished' = finished /\ phase'[n] \in {"ready", "sending"}
    <3>1. \A m \in Snapshots : m # n => phase'[m] = phase[m]
      BY <1>0, <1>6 DEF WorkerStep, Attempt, Deliver, Reject, Unavailable, Interrupted, end,
                  TypeOK, WorkersTypeOK
    <3>. QED  BY <1>0, <2>1, <2>4, <3>1 DEF Running, TypeOK, SenderTypeOK
  <2>. QED  BY <2>2, <2>3, <2>4
<1>7. ASSUME NEW n \in Snapshots, Network(n) PROVE Running(worker)' \/ finished' # <<>> \/ ui' = "waiting"
  BY <1>0, <1>7 DEF Network, Serve, ServeLate, stationVars, senderVars, workerVars, Running
<1>8. CASE UNCHANGED vars
  BY <1>0, <1>8 DEF vars, stationVars, senderVars, workerVars, Running
<1>. QED  BY <1>1, <1>2, <1>3, <1>4, <1>5, <1>6, <1>7, <1>8, <1>9 DEF Next

\* A snapshot that waits has something that will pick it up: a worker that runs,
\* the finished signal of one that ended, or the logout (handle_logout,
\* _dispose_safety_state_delivery_worker).
THEOREM WaitingIsPickedUp == Spec => []PendingIsPickedUp
<1>1. Init => PendingIsPickedUp
  BY DEF Init, PendingIsPickedUp
<1>. QED  BY <1>1, InvariantHolds, StepPicksUp, PTL DEF Spec
=============================================================================
