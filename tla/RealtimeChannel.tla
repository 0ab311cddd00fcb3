--------------------------- MODULE RealtimeChannel ---------------------------
(***************************************************************************)
(* The realtime connection of the administrator: RealtimeController with   *)
(* its timers and AdminWebSocketClient with its QWebSocket (2identify_admin*)
(* app/controllers/realtime_controller.py, app/realtime/websocket_client.py*)
(*                                                                         *)
(* Timers are single shots: one that runs may fire at any time.  Messages  *)
(* are told apart as far as the controller reacts differently.             *)
(***************************************************************************)
VARIABLES
    running,        \* _running; the client is enabled exactly then
    notified,       \* _authorization_notified
    socket,         \* state of the QWebSocket
    ready,          \* _ready_received
    timers          \* those that run

channelVars == <<running, notified, socket, ready, timers>>

Timers == {"connect", "reconnect", "watchdog", "refresh"}

\* Before start, and after shutdown.
ChannelInit ==
    /\ running = FALSE /\ notified = FALSE /\ socket = "unconnected"
    /\ ready = FALSE /\ timers = {}

ChannelStopped ==
    /\ running' = FALSE /\ notified' = FALSE /\ socket' = "unconnected"
    /\ ready' = FALSE /\ timers' = {}

-----------------------------------------------------------------------------
\* _schedule_reconnect
Scheduled(ts) == ts \cup {"reconnect"}

BugOnDisconnected(validating) ==
    IF validating \/ ~ready
    THEN timers' = timers \ {"connect"} /\ UNCHANGED ready
    ELSE /\ ready' = FALSE
         /\ timers' = Scheduled(timers \ {"connect", "watchdog"})

\* _on_disconnected and _on_transport_failed.
OnDisconnected(validating) ==
    IF validating
    THEN timers' = timers \ {"connect"} /\ UNCHANGED ready
    ELSE /\ ready' = FALSE
         /\ timers' = Scheduled(timers \ {"connect", "watchdog"})

\* The socket connects, fails to, or is lost; errors of the transport and of TLS
\* close it.
Connected ==
    /\ socket = "connecting"
    /\ socket' = "connected" /\ notified' = FALSE /\ ready' = FALSE
    /\ timers' = (timers \ {"connect", "reconnect"}) \cup {"watchdog"}
    /\ UNCHANGED running

ConnectionLost(validating) ==
    /\ socket # "unconnected"
    /\ socket' = "unconnected"
    /\ OnDisconnected(validating)
    /\ UNCHANGED <<running, notified>>

\* _on_message.  An alert before connection.ready, and anything that breaks the
\* contract, closes the connection; the peer's answer to that ends it.
ReceiveReady ==
    /\ socket = "connected"
    /\ ready' = TRUE /\ timers' = timers \cup {"watchdog"}
    /\ UNCHANGED <<running, notified, socket>>

ReceiveAlert ==
    /\ socket = "connected"
    /\ IF ready THEN timers' = timers \cup {"watchdog", "refresh"} /\ UNCHANGED socket
                ELSE socket' = "closing" /\ UNCHANGED timers
    /\ UNCHANGED <<running, notified, ready>>

ReceiveInvalid ==
    /\ socket = "connected"
    /\ socket' = "closing"
    /\ UNCHANGED <<running, notified, ready, timers>>

\* _on_watchdog_timeout: the socket is closed and aborted.
WatchdogTimeout ==
    /\ "watchdog" \in timers
    /\ ready' = FALSE /\ socket' = "unconnected"
    /\ timers' = Scheduled(timers \ {"watchdog", "connect"})
    /\ UNCHANGED <<running, notified>>

\* _on_connect_timeout
ConnectTimeout ==
    /\ "connect" \in timers
    /\ IF socket = "connecting"
       THEN /\ socket' = "unconnected" /\ ready' = FALSE
            /\ timers' = Scheduled(timers \ {"connect"})
       ELSE timers' = timers \ {"connect"} /\ UNCHANGED <<socket, ready>>
    /\ UNCHANGED <<running, notified>>

\* Both parts of _connect_now while there is a token, and start.
Open ==
    /\ running' = TRUE
    /\ timers' = (timers \ {"reconnect"}) \cup {"connect"}
    /\ IF socket \in {"connected", "connecting"}
       THEN UNCHANGED <<socket, notified>>
       ELSE socket' = "connecting" /\ notified' = FALSE
    /\ UNCHANGED ready

\* ... and without one, when this was already notified: nothing but the timer.
OpenInVain ==
    /\ socket \notin {"connected", "connecting"} /\ notified
    /\ timers' = (timers \ {"reconnect"}) \cup {"connect"}
    /\ UNCHANGED <<running, notified, socket, ready>>

\* _on_authorization_rejected before it looks at the session.
Rejected ==
    /\ notified' = TRUE
    /\ timers' = timers \ {"connect", "reconnect", "watchdog"}
    /\ UNCHANGED <<running, ready>>

ChannelTypeOK ==
    /\ running \in BOOLEAN /\ notified \in BOOLEAN /\ ready \in BOOLEAN
    /\ socket \in {"unconnected", "connecting", "connected", "closing"}
    /\ timers \subseteq Timers
=============================================================================
