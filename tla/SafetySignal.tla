---------------------------- MODULE SafetySignal ----------------------------
(***************************************************************************)
(* From the snapshots operators report to the colour the stack light shows:*)
(* SafetyStateAggregator, the realtime broker, the device endpoint         *)
(* /ws/devices/safety and the ESP32 firmware at the other end of it.       *)
(*                                                                         *)
(* One device.  A connection is reused once nothing of its earlier life is *)
(* left, so that the device may reconnect for ever with few of them.       *)
(***************************************************************************)
EXTENDS RealtimeBroker, FiniteSetsExt

CONSTANTS
    Sources,         \* (operator_id, work_session_id) pairs that report
    Conditions,      \* condition_id of a reported condition
    Level, Reason,   \* its level, and the priority that stands for its reason
    NoConn,
    TcpOutlivesWifi  \* whether a socket may survive a Wi-Fi outage

ASSUME SignalAssumption ==
    /\ Level \in [Conditions -> {"medium", "critical"}]
    /\ Reason \in [Conditions -> Nat]
    /\ NoConn \notin Conns
    /\ TcpOutlivesWifi \in BOOLEAN

VARIABLES
    sources,    \* _sources: conditions last reported by each source
    current,    \* _current
    holder,     \* who holds the aggregator's lock: "free", "update", or the
                \* connection whose send_current does
    sending,    \* connections publish has still to send to
    awaited,    \* connections whose shutdown the holder waits for
    handler,    \* safety_device_stream, per connection
    wifi, deviceConn, socketConnected, stateReceived, mode   \* the device

aggregatorVars == <<sources, current, holder, sending, awaited>>
deviceVars == <<wifi, deviceConn, socketConnected, stateReceived, mode>>
vars == <<brokerVars, aggregatorVars, handler, deviceVars>>

HandlerStates == {"idle", "accepted", "subscribed", "evicted", "receiving", "leaving"}
Modes == {"GREEN", "YELLOW", "RED", "DISCONNECTED"}

-----------------------------------------------------------------------------
\* _calculate_message.  A condition two sources report counts twice.
calculateMessage(reported) ==
    LET Reports == {<<s, c>> : s \in Sources, c \in Conditions}
        present == {r \in Reports : r[2] \in reported[r[1]]}
        critical == {r \in present : Level[r[2]] = "critical"}
        leading == IF critical = {} THEN present ELSE critical
    IN  [state |-> CASE present = {} -> "GREEN"
                     [] critical = {} -> "YELLOW"
                     [] OTHER -> "RED",
         reason |-> IF present = {} THEN 0 ELSE Max({Reason[r[2]] : r \in leading}),
         active |-> Cardinality(present)]

ASSUME MessagesAssumption ==
    \A reported \in [Sources -> SUBSET Conditions] : calculateMessage(reported) \in Messages

\* Operators named Bug... are mistakes this code does not make: each one stands
\* in for the definition after it when a property is shown to be able to fail.
BugComparesColour(candidate) ==
    current # NoMessage /\ candidate.state = current.state

sameEffectiveState(candidate) == candidate = current

\* update(): an effective change is stored and then published under the lock.
update(s, reported) ==
    /\ holder = "free"
    /\ sources' = [sources EXCEPT ![s] = reported]
    /\ LET candidate == calculateMessage(sources')
       IN  IF sameEffectiveState(candidate)
           THEN UNCHANGED <<current, holder, sending, awaited>>
           ELSE /\ current' = candidate
                /\ holder' = "update"
                /\ sending' = subscribers
                /\ awaited' = {}
    /\ UNCHANGED <<brokerVars, handler, deviceVars>>

\* One of the send_to tasks that publish gathers.
PublishTo(c) ==
    /\ holder = "update" /\ c \in sending
    /\ send_to(c, current)
    /\ sending' = sending \ {c}
    /\ awaited' = awaited \cup (subscribers \ subscribers')
    /\ UNCHANGED <<sources, current, holder, handler, deviceVars>>

\* The holder's last wait ends and the lock is released.
Release ==
    /\ holder # "free" /\ sending = {}
    /\ \A c \in awaited : closing[c] = "over"
    /\ holder' = "free"
    /\ awaited' = {}
    /\ handler' = [c \in Conns |-> IF c = holder THEN "leaving" ELSE handler[c]]
    /\ UNCHANGED <<brokerVars, sources, current, sending, deviceVars>>

-----------------------------------------------------------------------------
\* safety_device_stream
SubscribeDevice(c) ==
    /\ handler[c] = "accepted"
    /\ IF Accepts(c)
       THEN /\ subscribe(c)
            /\ handler' = [handler EXCEPT ![c] = "subscribed"]
       ELSE /\ closeSink(c)
            /\ handler' = [handler EXCEPT ![c] = "idle"]
    /\ UNCHANGED <<aggregatorVars, deviceVars>>

BugSendsNothing(c) ==
    /\ handler[c] = "subscribed" /\ holder = "free"
    /\ handler' = [handler EXCEPT ![c] = "receiving"]
    /\ UNCHANGED <<brokerVars, aggregatorVars, deviceVars>>

\* send_current; a queue filled meanwhile by publish evicts the device, and
\* the lock is kept until that is over.
SendCurrent(c) ==
    /\ handler[c] = "subscribed" /\ holder = "free"
    /\ IF current = NoMessage
       THEN /\ handler' = [handler EXCEPT ![c] = "receiving"]
            /\ UNCHANGED <<brokerVars, holder, awaited>>
       ELSE /\ send_to(c, current)
            /\ handler' = [handler EXCEPT ![c] =
                              IF c \notin subscribers THEN "leaving"
                              ELSE IF IsFull(c) THEN "evicted" ELSE "receiving"]
            /\ IF c \in subscribers /\ IsFull(c)
               THEN holder' = c /\ awaited' = {c}
               ELSE UNCHANGED <<holder, awaited>>
    /\ UNCHANGED <<sources, current, sending, deviceVars>>

\* websocket.receive() reports that the peer, or our own sink, is gone.
ReceiveDisconnect(c) ==
    /\ handler[c] = "receiving"
    /\ ~alive[c] \/ closing[c] = "over"
    /\ handler' = [handler EXCEPT ![c] = "leaving"]
    /\ UNCHANGED <<brokerVars, aggregatorVars, deviceVars>>

\* The finally clause of the handler.
Unsubscribe(c) ==
    /\ handler[c] = "leaving"
    /\ disconnect(c)
    /\ handler' = [handler EXCEPT ![c] = "idle"]
    /\ UNCHANGED <<aggregatorVars, deviceVars>>

\* Application shutdown closes the broker.
CloseBroker ==
    /\ close
    /\ UNCHANGED <<aggregatorVars, handler, deviceVars>>

\* The process ends, after that or in a crash, and a new one starts empty.
ProcessRestarts ==
    /\ brokerClosed' = FALSE
    /\ subscribers' = {}
    /\ queue' = [c \in Conns |-> <<>>]
    /\ writing' = [c \in Conns |-> NoMessage]
    /\ writer' = [c \in Conns |-> "none"]
    /\ closing' = [c \in Conns |-> "no"]
    /\ alive' = [c \in Conns |-> FALSE]
    /\ sources' = [s \in Sources |-> {}]
    /\ current' = NoMessage
    /\ holder' = "free" /\ sending' = {} /\ awaited' = {}
    /\ handler' = [c \in Conns |-> "idle"]
    /\ wire' = [c \in Conns |-> <<>>]
    /\ UNCHANGED deviceVars

-----------------------------------------------------------------------------
\* The firmware.  Each iteration of loop() ends in the fail-safe test, so a
\* colour is shown only while connected and once a state was received.
Shown(colour, connected, received) ==
    IF connected /\ received THEN colour ELSE "DISCONNECTED"

serverDone(c) ==
    /\ Unused(c)
    /\ handler[c] = "idle" /\ c \notin awaited

DeviceConnects(c) ==
    /\ wifi /\ deviceConn = NoConn /\ serverDone(c)
    /\ accept(c)
    /\ handler' = [handler EXCEPT ![c] = "accepted"]
    /\ deviceConn' = c
    /\ socketConnected' = TRUE /\ stateReceived' = FALSE
    /\ mode' = "DISCONNECTED"
    /\ UNCHANGED <<aggregatorVars, wifi>>

DeviceReceives ==
    /\ wifi /\ deviceConn # NoConn /\ wire[deviceConn] # <<>>
    /\ Head(wire[deviceConn]) # CloseFrame
    /\ wire' = [wire EXCEPT ![deviceConn] = Tail(@)]
    /\ stateReceived' = TRUE
    /\ mode' = Shown(Head(wire[deviceConn]).state, socketConnected, TRUE)
    /\ UNCHANGED <<brokerClosed, subscribers, queue, writing, writer, closing, alive, aggregatorVars, handler, wifi,
                   deviceConn, socketConnected>>

BugColourKept ==
    /\ deviceConn # NoConn /\ ~alive[deviceConn]
    /\ deviceConn' = NoConn
    /\ UNCHANGED <<brokerVars, aggregatorVars, handler, wifi, socketConnected,
                   stateReceived, mode>>

\* WStype_DISCONNECTED: a close frame, or the heartbeat misses its answers.
DeviceDisconnected ==
    /\ deviceConn # NoConn
    /\ IF alive[deviceConn]
       THEN /\ wire[deviceConn] # <<>> /\ Head(wire[deviceConn]) = CloseFrame
            /\ SocketDies(deviceConn)
       ELSE UNCHANGED brokerVars
    /\ deviceConn' = NoConn
    /\ socketConnected' = FALSE /\ stateReceived' = FALSE
    /\ mode' = "DISCONNECTED"
    /\ UNCHANGED <<aggregatorVars, handler, wifi>>

\* The Wi-Fi drops, and the loop may or may not notice before it is back.
WifiChanges ==
    /\ wifi' = ~wifi
    /\ UNCHANGED <<brokerVars, aggregatorVars, handler, deviceConn,
                   socketConnected, stateReceived, mode>>

\* updateWifiConnection without Wi-Fi.  It resets the flags but does not close
\* the WebSocket; whether TCP ends with the Wi-Fi is TcpOutlivesWifi.
LoseWifi ==
    /\ ~wifi
    /\ socketConnected \/ mode # "DISCONNECTED"
    /\ socketConnected' = FALSE /\ stateReceived' = FALSE
    /\ mode' = "DISCONNECTED"
    /\ IF deviceConn # NoConn /\ alive[deviceConn] /\ ~TcpOutlivesWifi
       THEN SocketDies(deviceConn)
       ELSE UNCHANGED brokerVars
    /\ UNCHANGED <<aggregatorVars, handler, wifi, deviceConn>>

-----------------------------------------------------------------------------
Reports == \E s \in Sources, reported \in SUBSET Conditions : update(s, reported)

BrokerTask(c) ==
    /\ WriterStep(c) \/ ShutdownStep(c)
    /\ UNCHANGED <<aggregatorVars, handler, deviceVars>>

SocketFails ==
    /\ \E c \in Conns : SocketDies(c)
    /\ UNCHANGED <<aggregatorVars, handler, deviceVars>>

HandlerStep(c) ==
    SubscribeDevice(c) \/ SendCurrent(c) \/ ReceiveDisconnect(c) \/ Unsubscribe(c)

Init ==
    /\ BrokerInit
    /\ sources = [s \in Sources |-> {}]
    /\ current = NoMessage
    /\ holder = "free" /\ sending = {} /\ awaited = {}
    /\ handler = [c \in Conns |-> "idle"]
    /\ wifi = TRUE /\ deviceConn = NoConn
    /\ socketConnected = FALSE /\ stateReceived = FALSE
    /\ mode = "DISCONNECTED"

DeviceLoop ==
    \/ \E c \in Conns : DeviceConnects(c)
    \/ DeviceReceives
    \/ DeviceDisconnected
    \/ LoseWifi

ServerStep ==
    \/ Release
    \/ \E c \in Conns : PublishTo(c) \/ HandlerStep(c) \/ BrokerTask(c)

Next ==
    \/ Reports \/ CloseBroker \/ ProcessRestarts \/ SocketFails \/ WifiChanges
    \/ ServerStep \/ DeviceLoop

\* The event loop of the API runs some task that is ready, and the device runs
\* its loop.  No report, no failure and no return of the Wi-Fi is assumed.
Fairness == WF_vars(ServerStep) /\ WF_vars(DeviceLoop)

Spec == Init /\ [][Next]_vars /\ Fairness

-----------------------------------------------------------------------------
TypeOK ==
    /\ BrokerTypeOK
    /\ sources \in [Sources -> SUBSET Conditions]
    /\ current \in Messages \cup {NoMessage}
    /\ holder \in {"free", "update"} \cup Conns
    /\ sending \subseteq Conns /\ awaited \subseteq Conns
    /\ handler \in [Conns -> HandlerStates]
    /\ {wifi, socketConnected, stateReceived} \subseteq BOOLEAN
    /\ deviceConn \in Conns \cup {NoConn}
    /\ mode \in Modes

\* The newest message on its way to a subscriber, or held at its far end: its
\* wire carries messages only, since a sink is closed after its subscription.
Newest(c, atDevice) ==
    IF queue[c] # <<>> THEN queue[c][Len(queue[c])].state
    ELSE IF writing[c] # NoMessage THEN writing[c].state
    ELSE IF wire[c] # <<>> THEN wire[c][Len(wire[c])].state
    ELSE atDevice

\* A registered device that was sent the current state stays in step with the
\* aggregator: once a publish has reached it, the last colour queued, being
\* sent, on the wire or shown is the one of the effective state.  An update
\* between subscribe and send_current is neither lost nor overtaken.
InStep ==
    \A c \in subscribers :
        /\ current # NoMessage /\ handler[c] = "receiving"
        /\ deviceConn = c /\ socketConnected /\ alive[c]
        /\ ~(holder = "update" /\ c \in sending)
        => Newest(c, mode) = current.state

\* What is effective is what the sources last reported, whoever holds the lock.
EffectiveStateIsMerged ==
    current # NoMessage => current = calculateMessage(sources)

\* A colour is a promise: the device never shows one without a socket on which
\* it received a state since it last connected.
ColourNeedsAConnection ==
    mode # "DISCONNECTED" => socketConnected /\ stateReceived /\ deviceConn # NoConn

\* A colour other than the effective one is never shown for ever.
StaleColourEnds ==
    \A m \in Messages :
        current = m ~> (mode \in {m.state, "DISCONNECTED"} \/ current # m)

\* A device whose connection lasts ends up showing the effective state, and
\* keeps showing it: "conectado e seguro: brancos fixos + verdes fixos" and the
\* states listed after it (firmware/esp32_safety_signal/README.md:42).
ConnectedDeviceCatchesUp ==
    \A m \in Messages :
        <>[](current = m /\ wifi /\ deviceConn # NoConn /\ alive[deviceConn])
            => <>[](mode = m.state)
=============================================================================
