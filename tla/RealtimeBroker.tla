--------------------------- MODULE RealtimeBroker ---------------------------
(***************************************************************************)
(* InMemoryRealtimeEventBroker and the WebSocketEventSink it writes to:    *)
(* 2identify_api/app/realtime/broker.py.  One subscription per connection. *)
(*                                                                         *)
(* The broker runs on one event loop: what happens between two awaits is   *)
(* one action.  No await happens while its lock is held, so a section under*)
(* that lock is part of one action.  Cancelling a writer and closing a sink*)
(* are separate, bounded waits; a wait ends by its timeout, and a send     *)
(* raises, only on a socket that no longer reaches the other end.  MaxWire *)
(* bounds what a socket buffers between the two ends.                      *)
(***************************************************************************)
EXTENDS Naturals, Sequences, FiniteSets

CONSTANTS
    Conns, Messages, NoMessage, CloseFrame,
    Owner, NoOwner,                  \* the account of each connection, or none
    QueueCapacity, MaxConnections, MaxConnectionsPerOwner,
    MaxWire

ASSUME BrokerAssumption ==
    /\ QueueCapacity \in Nat \ {0}
    /\ MaxConnections \in Nat
    /\ MaxConnectionsPerOwner \in 1..MaxConnections
    /\ {NoMessage, CloseFrame} \cap Messages = {}
    /\ MaxWire \in Nat \ {0}

VARIABLES
    brokerClosed,   \* _closed
    subscribers,    \* the keys of _subscribers
    queue,          \* messages queued for each connection
    writing,        \* the message its writer is sending, if any
    writer,         \* the writer task of each connection
    closing,        \* progress of the one shutdown of its subscription and
                    \* sink; "over" once the sink was closed, or given up
    wire,           \* what the socket carries: messages, then CloseFrame
    alive           \* whether the two ends of the socket reach each other

brokerVars == <<brokerClosed, subscribers, queue, writing, writer, closing, wire, alive>>

WriterStates == {"none", "running", "cancelled"}
ClosingStates == {"no", "cancelling", "closingSink", "over"}

BrokerInit ==
    /\ brokerClosed = FALSE
    /\ subscribers = {}
    /\ queue = [c \in Conns |-> <<>>]
    /\ writing = [c \in Conns |-> NoMessage]
    /\ writer = [c \in Conns |-> "none"]
    /\ closing = [c \in Conns |-> "no"]
    /\ wire = [c \in Conns |-> <<>>]
    /\ alive = [c \in Conns |-> FALSE]

-----------------------------------------------------------------------------
\* A connection nothing refers to any more: its name may be used again.
Unused(c) ==
    writer[c] = "none" /\ closing[c] \in {"no", "over"}

\* The WebSocket handshake of connection c is accepted: a new socket and sink.
accept(c) ==
    /\ closing' = [closing EXCEPT ![c] = "no"]
    /\ wire' = [wire EXCEPT ![c] = <<>>]
    /\ alive' = [alive EXCEPT ![c] = TRUE]
    /\ UNCHANGED <<brokerClosed, subscribers, queue, writing, writer>>

\* A handler closes a sink of its own that the broker does not know.
closeSink(c) ==
    /\ wire' = IF alive[c] THEN [wire EXCEPT ![c] = Append(@, CloseFrame)] ELSE wire
    /\ UNCHANGED <<brokerClosed, subscribers, queue, writing, writer, closing, alive>>

\* The two ends lose each other, and what was between them is lost.
SocketDies(c) ==
    /\ alive[c]
    /\ alive' = [alive EXCEPT ![c] = FALSE]
    /\ wire' = [wire EXCEPT ![c] = <<>>]
    /\ UNCHANGED <<brokerClosed, subscribers, queue, writing, writer, closing>>

\* Operators named Bug... are mistakes this code does not make: each one stands
\* in for the definition after it when a property is shown to be able to fail.
BugOneTooMany(c) ==
    /\ Cardinality(subscribers) <= MaxConnections
    /\ Owner[c] # NoOwner =>
          Cardinality({d \in subscribers : Owner[d] = Owner[c]})
             < MaxConnectionsPerOwner

HasCapacity(c) ==
    /\ Cardinality(subscribers) < MaxConnections
    /\ Owner[c] # NoOwner =>
          Cardinality({d \in subscribers : Owner[d] = Owner[c]})
             < MaxConnectionsPerOwner

Accepts(c) == ~brokerClosed /\ HasCapacity(c)

subscribe(c) ==
    /\ subscribers' = subscribers \cup {c}
    /\ writer' = [writer EXCEPT ![c] = "running"]
    /\ UNCHANGED <<brokerClosed, queue, writing, closing, wire, alive>>

\* The first step of _shutdown_subscriber, for connections just removed from
\* the map: their writers are cancelled, and waited for; what was queued for
\* them is dropped.
beginShutdown(removed, queues) ==
    /\ subscribers' = subscribers \ removed
    /\ queue' = [c \in Conns |-> IF c \in removed THEN <<>> ELSE queues[c]]
    /\ writer' = [c \in Conns |-> IF c \in removed THEN "cancelled" ELSE writer[c]]
    /\ closing' = [c \in Conns |-> IF c \in removed THEN "cancelling" ELSE closing[c]]

IsFull(c) == Len(queue[c]) >= QueueCapacity

BugDropsMessage(c, message) ==
    /\ queue' = IF c \in subscribers /\ ~IsFull(c)
                THEN [queue EXCEPT ![c] = Append(@, message)] ELSE queue
    /\ UNCHANGED <<brokerClosed, subscribers, writing, writer, closing, wire, alive>>

\* send_to: a subscriber that cannot take the message is removed and closed.
send_to(c, message) ==
    /\ beginShutdown({c} \cap {d \in subscribers : IsFull(d)},
                     IF c \in subscribers
                     THEN [queue EXCEPT ![c] = Append(@, message)] ELSE queue)
    /\ UNCHANGED <<brokerClosed, writing, wire, alive>>

\* disconnect and unsubscribe: nothing happens if it was already removed.
disconnect(c) ==
    /\ beginShutdown({c} \cap subscribers, queue)
    /\ UNCHANGED <<brokerClosed, writing, wire, alive>>

close ==
    /\ ~brokerClosed
    /\ brokerClosed' = TRUE
    /\ beginShutdown(subscribers, queue)
    /\ UNCHANGED <<writing, wire, alive>>

-----------------------------------------------------------------------------
\* _writer_loop
WriterTakes(c) ==
    /\ writer[c] = "running" /\ writing[c] = NoMessage /\ queue[c] # <<>>
    /\ writing' = [writing EXCEPT ![c] = Head(queue[c])]
    /\ queue' = [queue EXCEPT ![c] = Tail(@)]
    /\ UNCHANGED <<brokerClosed, subscribers, writer, closing, wire, alive>>

\* What a socket takes over stays in its buffer, hence the wire, and is lost if
\* nobody is at the other end any more.
Transmit(c, item) ==
    /\ Len(wire[c]) < MaxWire
    /\ wire' = IF alive[c] THEN [wire EXCEPT ![c] = Append(@, item)] ELSE wire

\* sink.send succeeds.
WriterSends(c) ==
    /\ writer[c] = "running" /\ writing[c] # NoMessage
    /\ Transmit(c, writing[c])
    /\ writing' = [writing EXCEPT ![c] = NoMessage]
    /\ UNCHANGED <<brokerClosed, subscribers, queue, writer, closing, alive>>

BugStaysRegistered(c) ==
    /\ writer[c] = "running" /\ writing[c] # NoMessage /\ ~alive[c]
    /\ writing' = [writing EXCEPT ![c] = NoMessage]
    /\ writer' = [writer EXCEPT ![c] = "none"]
    /\ closing' = [closing EXCEPT ![c] = "closingSink"]
    /\ UNCHANGED <<brokerClosed, subscribers, queue, wire, alive>>

\* sink.send raises: _remove_failed_writer removes the subscription and goes
\* on to close the sink.
WriterFails(c) ==
    /\ writer[c] = "running" /\ writing[c] # NoMessage /\ ~alive[c]
    /\ writing' = [writing EXCEPT ![c] = NoMessage]
    /\ writer' = [writer EXCEPT ![c] = "none"]
    /\ subscribers' = subscribers \ {c}
    /\ closing' = [closing EXCEPT ![c] = "closingSink"]
    /\ queue' = [queue EXCEPT ![c] = <<>>]
    /\ UNCHANGED <<brokerClosed, wire, alive>>

\* A cancelled writer ends.  The message it was sending may have reached the
\* socket already; what is queued is dropped.
WriterStops(c) ==
    /\ writer[c] = "cancelled"
    /\ writer' = [writer EXCEPT ![c] = "none"]
    /\ writing' = [writing EXCEPT ![c] = NoMessage]
    /\ \/ UNCHANGED wire
       \/ writing[c] # NoMessage /\ Transmit(c, writing[c])
    /\ UNCHANGED <<brokerClosed, subscribers, queue, closing, alive>>

\* The wait for the writer is over: it ended, or it did not in time and stays
\* in sink.send, holding the lock of the sink.
WriterAwaited(c) ==
    /\ closing[c] = "cancelling"
    /\ writer[c] = "none" \/ (writing[c] # NoMessage /\ ~alive[c])
    /\ closing' = [closing EXCEPT ![c] = "closingSink"]
    /\ UNCHANGED <<brokerClosed, subscribers, queue, writing, writer, wire, alive>>

\* _close_sink completes: the sink is closed and the peer is told.
SinkCloses(c) ==
    /\ closing[c] = "closingSink" /\ writing[c] = NoMessage
    /\ closing' = [closing EXCEPT ![c] = "over"]
    /\ wire' = IF alive[c] THEN [wire EXCEPT ![c] = Append(@, CloseFrame)] ELSE wire
    /\ UNCHANGED <<brokerClosed, subscribers, queue, writing, writer, alive>>

\* _close_sink gives up: the peer is told nothing.
CloseTimesOut(c) ==
    /\ closing[c] = "closingSink" /\ ~alive[c]
    /\ closing' = [closing EXCEPT ![c] = "over"]
    /\ UNCHANGED <<brokerClosed, subscribers, queue, writing, writer, wire, alive>>

WriterStep(c) == WriterTakes(c) \/ WriterSends(c) \/ WriterFails(c) \/ WriterStops(c)

ShutdownStep(c) == WriterAwaited(c) \/ SinkCloses(c) \/ CloseTimesOut(c)

-----------------------------------------------------------------------------
BrokerTypeOK ==
    /\ brokerClosed \in BOOLEAN
    /\ subscribers \subseteq Conns
    /\ queue \in [Conns -> Seq(Messages)]
    /\ writing \in [Conns -> Messages \cup {NoMessage}]
    /\ writer \in [Conns -> WriterStates]
    /\ closing \in [Conns -> ClosingStates]
    /\ wire \in [Conns -> Seq(Messages \cup {CloseFrame})]
    /\ alive \in [Conns -> BOOLEAN]

\* No limit is ever exceeded, whoever subscribes while others are evicted.
Bounded ==
    /\ Cardinality(subscribers) <= MaxConnections
    /\ \A c \in subscribers : Owner[c] # NoOwner =>
          Cardinality({d \in subscribers : Owner[d] = Owner[c]})
             <= MaxConnectionsPerOwner
    /\ \A c \in Conns : Len(queue[c]) <= QueueCapacity

\* A subscription is registered with a running writer, or it is being shut
\* down by exactly one of the tasks that publish, disconnect, fail to write
\* and close the broker.  None is left registered without a writer, and none
\* is removed with its writer or its sink forgotten.
RegisteredOrShutDown ==
    \A c \in Conns :
        /\ c \in subscribers <=> writer[c] = "running"
        /\ c \in subscribers => closing[c] = "no"
        /\ writer[c] = "cancelled" => closing[c] # "no"
=============================================================================
