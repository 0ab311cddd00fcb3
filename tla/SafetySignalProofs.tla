------------------------- MODULE SafetySignalProofs -------------------------
(***************************************************************************)
(* For every number of connections, accounts and sources and every size of *)
(* the queues: the broker keeps its limits and shuts each subscription down*)
(* once; what is effective is the merge of the sources; and a registered   *)
(* device is in step with it.                                              *)
(*                                                                         *)
(* The broker's own invariant is kept by each of its operations, whoever   *)
(* calls it.  A step then concerns one connection; the others are          *)
(* undisturbed.                                                            *)
(***************************************************************************)
EXTENDS SafetySignal, FiniteSetTheorems, TLAPS

BrokerInv ==
    /\ BrokerTypeOK /\ IsFiniteSet(subscribers)
    /\ Bounded /\ RegisteredOrShutDown

SignalTypes ==
    /\ sources \in [Sources -> SUBSET Conditions]
    /\ current \in Messages \cup {NoMessage}
    /\ sending \subseteq Conns
    /\ handler \in [Conns -> HandlerStates]
    /\ deviceConn \in Conns \cup {NoConn}

\* A connection accepted and not subscribed yet is new to the broker.
NewToBroker(c) ==
    handler[c] = "accepted" => writer[c] = "none" /\ closing[c] = "no"

\* The close frame is sent to connections that neither are nor will be subscribed.
OnlyMessages(c) ==
    handler[c] = "accepted" \/ c \in subscribers => wire[c] \in Seq(Messages)

InStepAt(c) ==
    /\ c \in subscribers
    /\ current # NoMessage /\ handler[c] = "receiving"
    /\ deviceConn = c /\ socketConnected /\ alive[c]
    /\ ~(holder = "update" /\ c \in sending)
    => Newest(c, mode) = current.state

ConnInv(c) == NewToBroker(c) /\ OnlyMessages(c) /\ InStepAt(c)

\* Only an update has messages left to send, and it has something to send.
SendingInv == IF holder = "update" THEN current \in Messages ELSE sending = {}

SignalInv ==
    /\ BrokerInv /\ SignalTypes /\ SendingInv
    /\ \A c \in Conns : ConnInv(c)
    /\ ColourNeedsAConnection /\ EffectiveStateIsMerged

-----------------------------------------------------------------------------
\* The limits survive whatever only removes subscriptions ...
LEMMA LimitsAfterRemoval ==
    ASSUME BrokerInv, subscribers' \subseteq subscribers,
           \A c \in Conns : Len(queue'[c]) <= QueueCapacity
    PROVE  IsFiniteSet(subscribers') /\ Bounded'
<1>1. /\ IsFiniteSet(subscribers) /\ Cardinality(subscribers) <= MaxConnections
      /\ MaxConnections \in Nat /\ MaxConnectionsPerOwner \in Nat
  BY BrokerAssumption DEF BrokerInv, Bounded
<1>2. /\ IsFiniteSet(subscribers') /\ Cardinality(subscribers') <= Cardinality(subscribers)
      /\ Cardinality(subscribers) \in Nat /\ Cardinality(subscribers') \in Nat
  BY <1>1, FS_Subset, FS_CardinalityType
<1>3. ASSUME NEW c \in subscribers', Owner[c] # NoOwner
      PROVE  Cardinality({d \in subscribers' : Owner[d] = Owner[c]}) <= MaxConnectionsPerOwner
  <2>. DEFINE before == {d \in subscribers : Owner[d] = Owner[c]}
              after == {d \in subscribers' : Owner[d] = Owner[c]}
  <2>1. Cardinality(before) <= MaxConnectionsPerOwner
    BY <1>3 DEF BrokerInv, Bounded
  <2>2. IsFiniteSet(before) /\ after \in SUBSET before
    BY <1>1, FS_Subset
  <2>3. Cardinality(after) <= Cardinality(before)
    BY <2>2, FS_Subset
  <2>4. Cardinality(before) \in Nat /\ Cardinality(after) \in Nat
    BY <2>2, FS_Subset, FS_CardinalityType
  <2>. QED  BY <1>1, <2>1, <2>3, <2>4
<1>. QED  BY <1>1, <1>2, <1>3 DEF Bounded

\* ... and an admission that finds capacity (_has_capacity).
LEMMA LimitsAfterAdmission ==
    ASSUME BrokerInv, NEW c \in Conns, HasCapacity(c), subscribers' = subscribers \cup {c},
           queue' = queue
    PROVE  IsFiniteSet(subscribers') /\ Bounded'
<1>1. /\ IsFiniteSet(subscribers)
      /\ MaxConnections \in Nat /\ MaxConnectionsPerOwner \in Nat
  BY BrokerAssumption DEF BrokerInv
<1>2. /\ IsFiniteSet(subscribers') /\ Cardinality(subscribers) \in Nat
      /\ Cardinality(subscribers') <= Cardinality(subscribers) + 1
  BY <1>1, FS_AddElement, FS_CardinalityType
<1>3. Cardinality(subscribers') <= MaxConnections
  <2>1. Cardinality(subscribers') \in Nat
    BY <1>2, FS_CardinalityType
  <2>. QED  BY <1>1, <1>2, <2>1 DEF HasCapacity
<1>4. ASSUME NEW d \in subscribers', Owner[d] # NoOwner
      PROVE  Cardinality({e \in subscribers' : Owner[e] = Owner[d]}) <= MaxConnectionsPerOwner
  <2>. DEFINE before == {e \in subscribers : Owner[e] = Owner[d]}
              after == {e \in subscribers' : Owner[e] = Owner[d]}
  <2>1. IsFiniteSet(before) /\ Cardinality(before) \in Nat
    BY <1>1, FS_Subset, FS_CardinalityType
  <2>2. CASE Owner[c] = Owner[d]
    <3>1. Cardinality(before) < MaxConnectionsPerOwner
      BY <1>4, <2>2 DEF HasCapacity
    <3>2. after = before \cup {c}
      BY <2>2
    <3>. HIDE DEF before, after
    <3>3. Cardinality(after) <= Cardinality(before) + 1 /\ Cardinality(after) \in Nat
      <4>1. /\ IsFiniteSet(before \cup {c})
            /\ Cardinality(before \cup {c}) =
                  IF c \in before THEN Cardinality(before) ELSE Cardinality(before) + 1
        BY <2>1, FS_AddElement
      <4>. QED  BY <2>1, <3>2, <4>1
    <3>4. Cardinality(after) <= MaxConnectionsPerOwner
      BY <1>1, <2>1, <3>1, <3>3
    <3>. QED  BY <3>4 DEF after
  <2>3. CASE Owner[c] # Owner[d]
    <3>1. c # d
      BY <2>3
    <3>2. after = before /\ d \in subscribers
      BY <1>4, <2>3, <3>1
    <3>3. Cardinality(before) <= MaxConnectionsPerOwner
      BY <1>4, <3>2 DEF BrokerInv, Bounded
    <3>. QED  BY <3>2, <3>3
  <2>. QED  BY <2>2, <2>3
<1>. QED  BY <1>2, <1>3, <1>4 DEF Bounded, BrokerInv

\* The first step of a shutdown, for any set of subscriptions.
LEMMA ShutdownKeepsInv ==
    ASSUME BrokerInv, NEW removed \in SUBSET subscribers,
           NEW queues \in [Conns -> Seq(Messages)],
           \A c \in Conns : Len(queues[c]) <= QueueCapacity \/ c \in removed,
           beginShutdown(removed, queues), brokerClosed' \in BOOLEAN,
           UNCHANGED <<writing, wire, alive>>
    PROVE  BrokerInv'
<1>1. BrokerTypeOK /\ RegisteredOrShutDown /\ QueueCapacity \in Nat
  BY BrokerAssumption DEF BrokerInv
<1>2. queue' = [c \in Conns |-> IF c \in removed THEN <<>> ELSE queues[c]]
  BY DEF beginShutdown
<1>3. queue' \in [Conns -> Seq(Messages)] /\ \A c \in Conns : Len(queue'[c]) <= QueueCapacity
  <2>1. Len(<<>>) = 0 /\ <<>> \in Seq(Messages)
    OBVIOUS
  <2>. QED  BY <1>1, <1>2, <2>1
<1>4. IsFiniteSet(subscribers') /\ Bounded'
  BY <1>3, LimitsAfterRemoval DEF beginShutdown
<1>5. BrokerTypeOK'
  BY <1>1, <1>3 DEF beginShutdown, BrokerTypeOK, WriterStates, ClosingStates
<1>6. RegisteredOrShutDown'
  BY <1>1 DEF beginShutdown, RegisteredOrShutDown, BrokerTypeOK
<1>. QED  BY <1>4, <1>5, <1>6 DEF BrokerInv

LEMMA SendKeepsInv ==
    ASSUME BrokerInv, NEW c \in Conns, NEW m \in Messages, send_to(c, m) PROVE BrokerInv'
<1>. DEFINE removed == {c} \cap {d \in subscribers : IsFull(d)}
            queues == IF c \in subscribers THEN [queue EXCEPT ![c] = Append(@, m)] ELSE queue
<1>1. BrokerTypeOK /\ Bounded /\ QueueCapacity \in Nat
  BY BrokerAssumption DEF BrokerInv
<1>2. queue \in [Conns -> Seq(Messages)] /\ \A d \in Conns : Len(queue[d]) <= QueueCapacity
  BY <1>1 DEF BrokerTypeOK, Bounded
<1>3. queues \in [Conns -> Seq(Messages)]
  BY <1>2
<1>4. ASSUME NEW d \in Conns PROVE Len(queues[d]) <= QueueCapacity \/ d \in removed
  <2>1. CASE d = c /\ c \in subscribers /\ ~IsFull(c)
    <3>1. queues[d] = Append(queue[c], m) /\ Len(queue[c]) < QueueCapacity /\ queue[c] \in Seq(Messages)
      BY <1>1, <1>2, <2>1 DEF IsFull
    <3>2. Len(queues[d]) = Len(queue[c]) + 1 /\ Len(queue[c]) \in Nat
      BY <3>1
    <3>. QED  BY <1>1, <3>1, <3>2
  <2>2. CASE d = c /\ c \in subscribers /\ IsFull(c)
    BY <2>2
  <2>3. CASE ~(d = c /\ c \in subscribers)
    BY <1>2, <2>3
  <2>. QED  BY <2>1, <2>2, <2>3
<1>5. beginShutdown(removed, queues) /\ UNCHANGED <<brokerClosed, writing, wire, alive>>
  BY DEF send_to
<1>. HIDE DEF removed, queues
<1>6. removed \in SUBSET subscribers
  BY DEF removed
<1>. QED  BY <1>1, <1>3, <1>4, <1>5, <1>6, ShutdownKeepsInv DEF BrokerTypeOK

LEMMA RemovalKeepsInv ==
    ASSUME BrokerInv, close \/ \E c \in Conns : disconnect(c) PROVE BrokerInv'
<1>1. BrokerTypeOK /\ Bounded
  BY DEF BrokerInv
<1>2. queue \in [Conns -> Seq(Messages)] /\ \A d \in Conns : Len(queue[d]) <= QueueCapacity
  BY <1>1 DEF BrokerTypeOK, Bounded
<1>3. ASSUME NEW c \in Conns, disconnect(c) PROVE BrokerInv'
  BY <1>1, <1>2, <1>3, ShutdownKeepsInv DEF disconnect, BrokerTypeOK
<1>4. CASE close
  BY <1>2, <1>4, ShutdownKeepsInv DEF close
<1>. QED  BY <1>3, <1>4

\* A connection comes, is refused, is admitted or breaks.
LEMMA ConnectionKeepsInv ==
    ASSUME BrokerInv, NEW c \in Conns,
           \/ accept(c) /\ Unused(c)
           \/ closeSink(c) \/ SocketDies(c)
           \/ subscribe(c) /\ Accepts(c) /\ writer[c] = "none" /\ closing[c] = "no"
    PROVE  BrokerInv'
<1>1. BrokerTypeOK /\ RegisteredOrShutDown /\ Bounded
  BY DEF BrokerInv
<1>2. CASE accept(c) /\ Unused(c)
  <2>1. BrokerTypeOK' /\ RegisteredOrShutDown'
    BY <1>1, <1>2 DEF accept, Unused, BrokerTypeOK, RegisteredOrShutDown, ClosingStates
  <2>. QED  BY <1>2, <2>1 DEF accept, BrokerInv, Bounded
<1>3. CASE closeSink(c)
  <2>1. wire[c] \in Seq(Messages \cup {CloseFrame})
    BY <1>1 DEF BrokerTypeOK
  <2>2. BrokerTypeOK' /\ RegisteredOrShutDown'
    BY <1>1, <1>3, <2>1 DEF closeSink, BrokerTypeOK, RegisteredOrShutDown
  <2>. QED  BY <1>3, <2>2 DEF closeSink, BrokerInv, Bounded
<1>4. CASE SocketDies(c)
  <2>1. BrokerTypeOK' /\ RegisteredOrShutDown'
    BY <1>1, <1>4 DEF SocketDies, BrokerTypeOK, RegisteredOrShutDown
  <2>. QED  BY <1>4, <2>1 DEF SocketDies, BrokerInv, Bounded
<1>5. CASE subscribe(c) /\ Accepts(c) /\ writer[c] = "none" /\ closing[c] = "no"
  <2>1. BrokerTypeOK' /\ RegisteredOrShutDown'
    BY <1>1, <1>5 DEF subscribe, BrokerTypeOK, RegisteredOrShutDown, WriterStates
  <2>2. IsFiniteSet(subscribers') /\ Bounded'
    BY <1>5, LimitsAfterAdmission DEF subscribe, Accepts
  <2>. QED  BY <2>1, <2>2 DEF BrokerInv
<1>. QED  BY <1>2, <1>3, <1>4, <1>5

\* The writer of a connection, and the shutdown of its subscription.
LEMMA TaskKeepsInv ==
    ASSUME BrokerInv, NEW c \in Conns, WriterStep(c) \/ ShutdownStep(c) PROVE BrokerInv'
<1>1. BrokerTypeOK /\ RegisteredOrShutDown /\ Bounded /\ QueueCapacity \in Nat
  BY BrokerAssumption DEF BrokerInv
<1>2. /\ queue[c] \in Seq(Messages) /\ Len(queue[c]) <= QueueCapacity
      /\ writing[c] \in Messages \cup {NoMessage}
      /\ wire[c] \in Seq(Messages \cup {CloseFrame})
  BY <1>1 DEF BrokerTypeOK, Bounded
<1>3. CASE WriterTakes(c)
  <2>1. /\ Head(queue[c]) \in Messages /\ Tail(queue[c]) \in Seq(Messages)
        /\ Len(Tail(queue[c])) <= QueueCapacity
    BY <1>1, <1>2, <1>3 DEF WriterTakes
  <2>2. BrokerTypeOK' /\ RegisteredOrShutDown'
    BY <1>1, <1>3, <2>1 DEF WriterTakes, BrokerTypeOK, RegisteredOrShutDown
  <2>3. \A d \in Conns : Len(queue'[d]) <= QueueCapacity
    BY <1>1, <1>3, <2>1 DEF WriterTakes, BrokerTypeOK, Bounded
  <2>. QED  BY <1>3, <2>2, <2>3, LimitsAfterRemoval DEF WriterTakes, BrokerInv
<1>4. CASE WriterSends(c)
  <2>1. wire' \in [Conns -> Seq(Messages \cup {CloseFrame})]
    BY <1>1, <1>2, <1>4 DEF WriterSends, Transmit, BrokerTypeOK
  <2>2. writing' \in [Conns -> Messages \cup {NoMessage}]
    BY <1>1, <1>4 DEF WriterSends, BrokerTypeOK
  <2>3. BrokerTypeOK' /\ RegisteredOrShutDown'
    BY <1>1, <1>4, <2>1, <2>2 DEF WriterSends, BrokerTypeOK, RegisteredOrShutDown
  <2>. QED  BY <1>4, <2>3 DEF WriterSends, BrokerInv, Bounded
<1>5. CASE WriterFails(c)
  <2>1. Len(<<>>) = 0 /\ <<>> \in Seq(Messages)
    OBVIOUS
  <2>2. BrokerTypeOK'
    BY <1>1, <1>5, <2>1 DEF WriterFails, BrokerTypeOK, WriterStates, ClosingStates
  <2>4. RegisteredOrShutDown'
    BY <1>1, <1>5 DEF WriterFails, RegisteredOrShutDown, BrokerTypeOK
  <2>3. \A d \in Conns : Len(queue'[d]) <= QueueCapacity
    BY <1>1, <1>5, <2>1 DEF WriterFails, BrokerTypeOK, Bounded
  <2>. QED  BY <1>5, <2>2, <2>3, <2>4, LimitsAfterRemoval DEF WriterFails, BrokerInv
<1>6. CASE WriterStops(c)
  <2>1. wire' \in [Conns -> Seq(Messages \cup {CloseFrame})]
    <3>1. CASE UNCHANGED wire
      BY <1>1, <3>1 DEF BrokerTypeOK
    <3>2. CASE writing[c] # NoMessage /\ Transmit(c, writing[c])
      BY <1>1, <1>2, <3>2 DEF Transmit, BrokerTypeOK
    <3>. QED  BY <1>6, <3>1, <3>2 DEF WriterStops
  <2>2. BrokerTypeOK'
    BY <1>1, <1>6, <2>1 DEF WriterStops, BrokerTypeOK, WriterStates
  <2>3. RegisteredOrShutDown'
    BY <1>1, <1>6 DEF WriterStops, BrokerTypeOK, RegisteredOrShutDown
  <2>. QED  BY <1>6, <2>2, <2>3 DEF WriterStops, BrokerInv, Bounded
<1>7. CASE ShutdownStep(c)
  <2>1. closing[c] # "no" /\ closing'[c] # "no" /\ c \notin subscribers
    BY <1>1, <1>7 DEF ShutdownStep, WriterAwaited, SinkCloses, CloseTimesOut,
                      RegisteredOrShutDown, BrokerTypeOK
  <2>2. BrokerTypeOK' /\ \A d \in Conns : d # c => closing'[d] = closing[d]
    <3>1. CASE WriterAwaited(c) \/ CloseTimesOut(c)
      BY <1>1, <3>1 DEF WriterAwaited, CloseTimesOut, BrokerTypeOK, ClosingStates
    <3>2. CASE SinkCloses(c)
      BY <1>1, <1>2, <3>2 DEF SinkCloses, BrokerTypeOK, ClosingStates
    <3>. QED  BY <1>7, <3>1, <3>2 DEF ShutdownStep
  <2>3. UNCHANGED <<subscribers, writer, queue>>
    BY <1>7 DEF ShutdownStep, WriterAwaited, SinkCloses, CloseTimesOut
  <2>4. RegisteredOrShutDown'
    BY <1>1, <2>1, <2>2, <2>3 DEF RegisteredOrShutDown
  <2>. QED  BY <2>2, <2>3, <2>4 DEF BrokerInv, Bounded
<1>. QED  BY <1>3, <1>4, <1>5, <1>6, <1>7 DEF WriterStep

-----------------------------------------------------------------------------
\* A connection that a step does not touch stays as far in step as it was.
LEMMA Undisturbed ==
    ASSUME NEW d \in Conns, ConnInv(d),
           d \in subscribers' => d \in subscribers,
           handler'[d] \in {"accepted", "receiving"} => handler[d] = handler'[d],
           handler[d] = "accepted" => writer'[d] = writer[d] /\ closing'[d] = closing[d],
           wire'[d] = wire[d] \/ wire'[d] = <<>>,
           d \in subscribers' /\ alive'[d] =>
               /\ queue'[d] = queue[d] /\ writing'[d] = writing[d]
               /\ alive[d] /\ wire'[d] = wire[d],
           current' = current,
           deviceConn' = d /\ socketConnected' =>
               deviceConn = d /\ socketConnected /\ mode' = mode,
           holder = "update" /\ d \in sending => holder' = "update" /\ d \in sending'
    PROVE  ConnInv(d)'
<1>1. NewToBroker(d)'
  BY DEF ConnInv, NewToBroker
<1>2. OnlyMessages(d)'
  <2>1. <<>> \in Seq(Messages)
    OBVIOUS
  <2>. QED  BY <2>1 DEF ConnInv, OnlyMessages
<1>3. InStepAt(d)'
  <2>. SUFFICES ASSUME /\ d \in subscribers'
                       /\ current' # NoMessage /\ handler'[d] = "receiving"
                       /\ deviceConn' = d /\ socketConnected' /\ alive'[d]
                       /\ ~(holder' = "update" /\ d \in sending')
                PROVE  Newest(d, mode)' = current'.state
    BY DEF InStepAt
  <2>1. Newest(d, mode) = current.state
    BY DEF ConnInv, InStepAt
  <2>. QED  BY <2>1 DEF Newest
<1>. QED  BY <1>1, <1>2, <1>3 DEF ConnInv

\* A step that leaves the broker and the wires as they are.
LEMMA BrokerIdle ==
    ASSUME SignalInv, UNCHANGED brokerVars
    PROVE  BrokerInv'
BY DEF SignalInv, BrokerInv, brokerVars, BrokerTypeOK, Bounded, RegisteredOrShutDown

-----------------------------------------------------------------------------
\* update: everybody registered has still to be sent what is effective now.
LEMMA UpdateKeepsInv ==
    ASSUME SignalInv, NEW s \in Sources, NEW reported \in SUBSET Conditions, update(s, reported)
    PROVE  SignalInv'
<1>. DEFINE candidate == calculateMessage(sources')
<1>1. SignalTypes /\ SendingInv /\ (\A c \in Conns : ConnInv(c))
  BY DEF SignalInv
<1>2. BrokerInv' /\ UNCHANGED <<brokerVars, handler, deviceVars>>
  BY BrokerIdle DEF update
<1>3. sources' \in [Sources -> SUBSET Conditions]
  BY <1>1 DEF update, SignalTypes
<1>4. candidate \in Messages
  BY <1>3, MessagesAssumption
<1>5. holder = "free"
  BY DEF update
<1>6. CASE candidate = current
  <2>1. UNCHANGED <<current, holder, sending>>
    BY <1>6 DEF update, sameEffectiveState
  <2>2. SignalTypes' /\ SendingInv'
    BY <1>1, <1>2, <1>3, <2>1 DEF SignalTypes, SendingInv, deviceVars
  <2>3. \A d \in Conns : ConnInv(d)'
    BY <1>1, <1>2, <2>1, Undisturbed DEF brokerVars, deviceVars
  <2>4. ColourNeedsAConnection'
    BY <1>2 DEF ColourNeedsAConnection, SignalInv, deviceVars
  <2>5. EffectiveStateIsMerged'
    BY <1>6, <2>1 DEF EffectiveStateIsMerged
  <2>. QED  BY <1>2, <2>2, <2>3, <2>4, <2>5 DEF SignalInv
<1>7. CASE candidate # current
  <2>1. current' = candidate /\ holder' = "update" /\ sending' = subscribers
    BY <1>7 DEF update, sameEffectiveState
  <2>2. SignalTypes' /\ SendingInv'
    <3>1. subscribers \subseteq Conns
      BY DEF SignalInv, BrokerInv, BrokerTypeOK
    <3>. QED  BY <1>1, <1>2, <1>3, <1>4, <2>1, <3>1 DEF SignalTypes, SendingInv, deviceVars
  <2>3. \A d \in Conns : ConnInv(d)'
    BY <1>1, <1>2, <2>1 DEF ConnInv, NewToBroker, OnlyMessages, InStepAt, brokerVars
  <2>4. ColourNeedsAConnection'
    BY <1>2 DEF ColourNeedsAConnection, SignalInv, deviceVars
  <2>5. EffectiveStateIsMerged'
    BY <2>1 DEF EffectiveStateIsMerged
  <2>. QED  BY <1>2, <2>2, <2>3, <2>4, <2>5 DEF SignalInv
<1>. QED  BY <1>6, <1>7

\* What send_to leaves in the queue of a connection it does not evict.
LEMMA SentIsNewest ==
    ASSUME BrokerInv, NEW c \in Conns, NEW m \in Messages, send_to(c, m), c \in subscribers'
    PROVE  /\ c \in subscribers /\ ~IsFull(c)
           /\ queue'[c] = Append(queue[c], m)
           /\ queue'[c] # <<>> /\ queue'[c][Len(queue'[c])] = m
<1>1. queue \in [Conns -> Seq(Messages)]
  BY DEF BrokerInv, BrokerTypeOK
<1>2. c \in subscribers /\ ~IsFull(c)
  BY DEF send_to, beginShutdown
<1>3. queue'[c] = Append(queue[c], m)
  BY <1>1, <1>2 DEF send_to, beginShutdown
<1>4. /\ Append(queue[c], m) # <<>>
      /\ Append(queue[c], m)[Len(Append(queue[c], m))] = m
  BY <1>1
<1>. QED  BY <1>2, <1>3, <1>4

\* What send_to leaves alone: everybody else.
LEMMA SendTouchesOne ==
    ASSUME BrokerInv, NEW c \in Conns, NEW m, send_to(c, m)
    PROVE  /\ subscribers' \subseteq subscribers
           /\ UNCHANGED <<brokerClosed, writing, wire, alive>>
           /\ \A d \in Conns : d # c =>
                 /\ queue'[d] = queue[d] /\ writer'[d] = writer[d] /\ closing'[d] = closing[d]
           /\ c \notin subscribers => writer'[c] = writer[c] /\ closing'[c] = closing[c]
<1>1. queue \in [Conns -> Seq(Messages)]
  BY DEF BrokerInv, BrokerTypeOK
<1>. QED  BY <1>1 DEF send_to, beginShutdown

LEMMA PublishKeepsInv ==
    ASSUME SignalInv, NEW c \in Conns, PublishTo(c)
    PROVE  SignalInv'
<1>1. /\ BrokerInv /\ SignalTypes /\ (\A d \in Conns : ConnInv(d))
      /\ SendingInv /\ ColourNeedsAConnection /\ EffectiveStateIsMerged
  BY DEF SignalInv
<1>2. /\ holder = "update" /\ c \in sending /\ send_to(c, current) /\ sending' = sending \ {c}
      /\ UNCHANGED <<sources, current, holder, handler, deviceVars>>
  BY DEF PublishTo
<1>3. current \in Messages
  BY <1>1, <1>2 DEF SendingInv
<1>4. BrokerInv'
  BY <1>1, <1>2, <1>3, SendKeepsInv
<1>5. ASSUME NEW d \in Conns, d # c PROVE ConnInv(d)'
  BY <1>1, <1>2, <1>5, SendTouchesOne, Undisturbed DEF deviceVars
<1>6. ConnInv(c)'
  <2>1. NewToBroker(c)' /\ OnlyMessages(c)'
    BY <1>1, <1>2, SendTouchesOne
       DEF ConnInv, NewToBroker, OnlyMessages, BrokerInv, RegisteredOrShutDown
  <2>2. InStepAt(c)'
    BY <1>1, <1>2, <1>3, SentIsNewest DEF InStepAt, Newest
  <2>. QED  BY <2>1, <2>2 DEF ConnInv
<1>7. SignalTypes' /\ SendingInv'
  BY <1>1, <1>2 DEF SignalTypes, SendingInv, deviceVars
<1>8. ColourNeedsAConnection' /\ EffectiveStateIsMerged'
  BY <1>1, <1>2 DEF ColourNeedsAConnection, EffectiveStateIsMerged, deviceVars
<1>. QED  BY <1>4, <1>5, <1>6, <1>7, <1>8 DEF SignalInv

\* A connection that is not, or no longer, the broker's and is not about to be.
LEMMA Outside ==
    ASSUME NEW c \in Conns, handler'[c] # "accepted", c \notin subscribers'
    PROVE  ConnInv(c)'
BY DEF ConnInv, NewToBroker, OnlyMessages, InStepAt

LEMMA ReleaseKeepsInv ==
    ASSUME SignalInv, Release PROVE SignalInv'
<1>1. /\ SignalTypes /\ SendingInv /\ (\A c \in Conns : ConnInv(c))
      /\ ColourNeedsAConnection /\ EffectiveStateIsMerged
  BY DEF SignalInv
<1>2. /\ sending = {} /\ sending' = {} /\ holder' = "free"
      /\ handler' = [c \in Conns |-> IF c = holder THEN "leaving" ELSE handler[c]]
      /\ UNCHANGED <<brokerVars, sources, current, deviceVars>>
  BY DEF Release
<1>3. BrokerInv'
  BY <1>2, BrokerIdle
<1>4. ASSUME NEW d \in Conns PROVE ConnInv(d)'
  BY <1>1, <1>2, Undisturbed DEF brokerVars, deviceVars
<1>5. SignalTypes' /\ SendingInv'
  BY <1>1, <1>2 DEF SignalTypes, SendingInv, deviceVars, HandlerStates
<1>6. ColourNeedsAConnection' /\ EffectiveStateIsMerged'
  BY <1>1, <1>2 DEF ColourNeedsAConnection, EffectiveStateIsMerged, deviceVars
<1>. QED  BY <1>3, <1>4, <1>5, <1>6 DEF SignalInv

-----------------------------------------------------------------------------
\* The handler of a connection.
LEMMA SubscribeKeepsInv ==
    ASSUME SignalInv, NEW c \in Conns, SubscribeDevice(c) PROVE SignalInv'
<1>1. /\ BrokerInv /\ SignalTypes /\ SendingInv /\ (\A d \in Conns : ConnInv(d))
      /\ ColourNeedsAConnection /\ EffectiveStateIsMerged
  BY DEF SignalInv
<1>2. handler[c] = "accepted" /\ UNCHANGED <<aggregatorVars, deviceVars>>
  BY DEF SubscribeDevice
<1>3. /\ writer[c] = "none" /\ closing[c] = "no" /\ c \notin subscribers
      /\ wire[c] \in Seq(Messages)
  BY <1>1, <1>2 DEF ConnInv, NewToBroker, OnlyMessages, BrokerInv, RegisteredOrShutDown
<1>4. CASE Accepts(c)
  <2>1. subscribe(c) /\ handler' = [handler EXCEPT ![c] = "subscribed"]
    BY <1>4 DEF SubscribeDevice
  <2>2. BrokerInv'
    BY <1>1, <1>3, <1>4, <2>1, ConnectionKeepsInv
  <2>3. ASSUME NEW d \in Conns, d # c PROVE ConnInv(d)'
    BY <1>1, <1>2, <2>1, <2>3, Undisturbed
       DEF subscribe, deviceVars, aggregatorVars, SignalTypes, BrokerInv, BrokerTypeOK
  <2>4. ConnInv(c)'
    BY <1>1, <1>3, <2>1
       DEF ConnInv, NewToBroker, OnlyMessages, InStepAt, subscribe, SignalTypes
  <2>5. SignalTypes' /\ SendingInv'
    BY <1>1, <1>2, <2>1
       DEF SignalTypes, SendingInv, deviceVars, aggregatorVars, HandlerStates
  <2>6. ColourNeedsAConnection' /\ EffectiveStateIsMerged'
    BY <1>1, <1>2 DEF ColourNeedsAConnection, EffectiveStateIsMerged, deviceVars, aggregatorVars
  <2>. QED  BY <2>2, <2>3, <2>4, <2>5, <2>6 DEF SignalInv
<1>5. CASE ~Accepts(c)
  <2>1. closeSink(c) /\ handler' = [handler EXCEPT ![c] = "idle"]
    BY <1>5 DEF SubscribeDevice
  <2>2. BrokerInv'
    BY <1>1, <2>1, ConnectionKeepsInv
  <2>3. ASSUME NEW d \in Conns, d # c PROVE ConnInv(d)'
    BY <1>1, <1>2, <2>1, <2>3, Undisturbed
       DEF closeSink, deviceVars, aggregatorVars, SignalTypes, BrokerInv, BrokerTypeOK
  <2>4. ConnInv(c)'
    BY <1>1, <1>3, <2>1, Outside DEF closeSink, SignalTypes
  <2>5. SignalTypes' /\ SendingInv'
    BY <1>1, <1>2, <2>1
       DEF SignalTypes, SendingInv, deviceVars, aggregatorVars, HandlerStates
  <2>6. ColourNeedsAConnection' /\ EffectiveStateIsMerged'
    BY <1>1, <1>2 DEF ColourNeedsAConnection, EffectiveStateIsMerged, deviceVars, aggregatorVars
  <2>. QED  BY <2>2, <2>3, <2>4, <2>5, <2>6 DEF SignalInv
<1>. QED  BY <1>4, <1>5

LEMMA SendCurrentKeepsInv ==
    ASSUME SignalInv, NEW c \in Conns, SendCurrent(c) PROVE SignalInv'
<1>1. /\ BrokerInv /\ SignalTypes /\ SendingInv /\ (\A d \in Conns : ConnInv(d))
      /\ ColourNeedsAConnection /\ EffectiveStateIsMerged
  BY DEF SignalInv
<1>2. /\ handler[c] = "subscribed" /\ holder = "free" /\ sending = {}
      /\ UNCHANGED <<sources, current, sending, deviceVars>>
  BY <1>1 DEF SendCurrent, SendingInv
<1>3. ColourNeedsAConnection' /\ EffectiveStateIsMerged'
  BY <1>1, <1>2 DEF ColourNeedsAConnection, EffectiveStateIsMerged, deviceVars
<1>4. CASE current = NoMessage
  <2>1. handler' = [handler EXCEPT ![c] = "receiving"] /\ UNCHANGED <<brokerVars, holder>>
    BY <1>4 DEF SendCurrent
  <2>2. BrokerInv'
    BY <2>1, BrokerIdle
  <2>3. ASSUME NEW d \in Conns, d # c PROVE ConnInv(d)'
    BY <1>1, <1>2, <2>1, <2>3, Undisturbed DEF brokerVars, deviceVars, SignalTypes
  <2>4. ConnInv(c)'
    BY <1>1, <1>2, <1>4, <2>1
       DEF ConnInv, NewToBroker, OnlyMessages, InStepAt, brokerVars, SignalTypes
  <2>5. SignalTypes' /\ SendingInv'
    BY <1>1, <1>2, <2>1 DEF SignalTypes, SendingInv, deviceVars, HandlerStates
  <2>. QED  BY <1>3, <2>2, <2>3, <2>4, <2>5 DEF SignalInv
<1>5. CASE current # NoMessage
  <2>1. /\ current \in Messages /\ send_to(c, current)
        /\ handler' = [handler EXCEPT ![c] =
                          IF c \notin subscribers THEN "leaving"
                          ELSE IF IsFull(c) THEN "evicted" ELSE "receiving"]
        /\ holder' = c \/ holder' = holder
    BY <1>1, <1>5 DEF SendCurrent, SignalTypes
  <2>2. BrokerInv'
    BY <1>1, <2>1, SendKeepsInv
  <2>3. ASSUME NEW d \in Conns, d # c PROVE ConnInv(d)'
    BY <1>1, <1>2, <2>1, <2>3, SendTouchesOne, Undisturbed DEF deviceVars, SignalTypes
  <2>4. ConnInv(c)'
    <3>1. handler'[c] # "accepted"
      BY <1>1, <2>1 DEF SignalTypes
    <3>2. CASE c \notin subscribers'
      BY <3>1, <3>2, Outside
    <3>3. CASE c \in subscribers'
      <4>1. Newest(c, mode)' = current'.state
        BY <1>1, <1>2, <2>1, <3>3, SentIsNewest DEF Newest
      <4>2. OnlyMessages(c)'
        BY <1>1, <2>1, <3>3, SendTouchesOne DEF OnlyMessages, ConnInv
      <4>. QED  BY <3>1, <4>1, <4>2 DEF ConnInv, NewToBroker, InStepAt
    <3>. QED  BY <3>2, <3>3
  <2>5. SignalTypes' /\ SendingInv'
    BY <1>1, <1>2, <2>1 DEF SignalTypes, SendingInv, deviceVars, HandlerStates
  <2>. QED  BY <1>3, <2>2, <2>3, <2>4, <2>5 DEF SignalInv
<1>. QED  BY <1>4, <1>5

\* The other end is gone: the handler notices, and unsubscribes.
LEMMA LeaveKeepsInv ==
    ASSUME SignalInv, NEW c \in Conns, ReceiveDisconnect(c) \/ Unsubscribe(c)
    PROVE  SignalInv'
<1>1. /\ BrokerInv /\ SignalTypes /\ SendingInv /\ (\A d \in Conns : ConnInv(d))
      /\ ColourNeedsAConnection /\ EffectiveStateIsMerged
  BY DEF SignalInv
<1>2. /\ handler[c] # "accepted" /\ UNCHANGED <<aggregatorVars, deviceVars>>
      /\ handler' = [handler EXCEPT ![c] = "leaving"] \/ handler' = [handler EXCEPT ![c] = "idle"]
  BY DEF ReceiveDisconnect, Unsubscribe
<1>3. SignalTypes' /\ SendingInv'
  BY <1>1, <1>2 DEF SignalTypes, SendingInv, deviceVars, aggregatorVars, HandlerStates
<1>4. ColourNeedsAConnection' /\ EffectiveStateIsMerged'
  BY <1>1, <1>2 DEF ColourNeedsAConnection, EffectiveStateIsMerged, deviceVars, aggregatorVars
<1>5. CASE ReceiveDisconnect(c)
  <2>1. UNCHANGED brokerVars
    BY <1>5 DEF ReceiveDisconnect
  <2>2. BrokerInv'
    BY <2>1, BrokerIdle
  <2>3. ASSUME NEW d \in Conns PROVE ConnInv(d)'
    BY <1>1, <1>2, <2>1, Undisturbed DEF brokerVars, deviceVars, aggregatorVars, SignalTypes
  <2>. QED  BY <1>3, <1>4, <2>2, <2>3 DEF SignalInv
<1>6. CASE Unsubscribe(c)
  <2>1. disconnect(c)
    BY <1>6 DEF Unsubscribe
  <2>2. BrokerInv'
    BY <1>1, <2>1, RemovalKeepsInv
  <2>3. ASSUME NEW d \in Conns, d # c PROVE ConnInv(d)'
    <3>1. /\ subscribers' \subseteq subscribers
          /\ queue'[d] = queue[d] /\ writer'[d] = writer[d] /\ closing'[d] = closing[d]
          /\ UNCHANGED <<writing, wire, alive>>
      BY <2>1, <2>3 DEF disconnect, beginShutdown
    <3>. QED  BY <1>1, <1>2, <2>3, <3>1, Undisturbed DEF deviceVars, aggregatorVars, SignalTypes
  <2>4. ConnInv(c)'
    BY <1>1, <1>2, <2>1, Outside DEF disconnect, beginShutdown, SignalTypes
  <2>. QED  BY <1>3, <1>4, <2>2, <2>3, <2>4 DEF SignalInv
<1>. QED  BY <1>5, <1>6

-----------------------------------------------------------------------------
\* The application shuts down, or starts again.
LEMMA CloseKeepsInv ==
    ASSUME SignalInv, CloseBroker PROVE SignalInv'
<1>1. /\ BrokerInv /\ SignalTypes /\ SendingInv /\ (\A d \in Conns : ConnInv(d))
      /\ ColourNeedsAConnection /\ EffectiveStateIsMerged
  BY DEF SignalInv
<1>2. close /\ UNCHANGED <<aggregatorVars, handler, deviceVars>>
  BY DEF CloseBroker
<1>3. BrokerInv' /\ subscribers' = {}
  BY <1>1, <1>2, RemovalKeepsInv DEF close, beginShutdown
<1>4. ASSUME NEW d \in Conns PROVE ConnInv(d)'
  <2>1. CASE handler[d] # "accepted"
    BY <1>2, <1>3, <2>1, Outside
  <2>2. CASE handler[d] = "accepted"
    <3>1. d \notin subscribers
      BY <1>1, <2>2 DEF ConnInv, NewToBroker, BrokerInv, RegisteredOrShutDown
    <3>2. /\ queue'[d] = queue[d] /\ writer'[d] = writer[d] /\ closing'[d] = closing[d]
          /\ UNCHANGED <<writing, wire, alive>>
      BY <1>2, <3>1 DEF close, beginShutdown
    <3>. QED  BY <1>1, <1>2, <1>3, <3>2, Undisturbed DEF deviceVars, aggregatorVars
  <2>. QED  BY <2>1, <2>2
<1>5. SignalTypes' /\ SendingInv'
  BY <1>1, <1>2 DEF SignalTypes, SendingInv, deviceVars, aggregatorVars
<1>6. ColourNeedsAConnection' /\ EffectiveStateIsMerged'
  BY <1>1, <1>2 DEF ColourNeedsAConnection, EffectiveStateIsMerged, deviceVars, aggregatorVars
<1>. QED  BY <1>3, <1>4, <1>5, <1>6 DEF SignalInv

LEMMA EmptyBroker ==
    ASSUME subscribers = {}, brokerClosed = FALSE,
           queue = [c \in Conns |-> <<>>], writing = [c \in Conns |-> NoMessage],
           writer = [c \in Conns |-> "none"], closing = [c \in Conns |-> "no"],
           wire = [c \in Conns |-> <<>>], alive = [c \in Conns |-> FALSE]
    PROVE  BrokerInv
<1>1. IsFiniteSet(subscribers) /\ Cardinality(subscribers) = 0 /\ Len(<<>>) = 0
  BY FS_EmptySet
<1>2. \A S : <<>> \in Seq(S)
  OBVIOUS
<1>3. BrokerTypeOK /\ RegisteredOrShutDown
  BY <1>2 DEF BrokerTypeOK, RegisteredOrShutDown, WriterStates, ClosingStates
<1>4. Bounded
  BY <1>1, BrokerAssumption DEF Bounded
<1>. QED  BY <1>1, <1>3, <1>4 DEF BrokerInv

LEMMA EmptyBrokerAfter == (
    /\ subscribers = {} /\ brokerClosed = FALSE
    /\ queue = [c \in Conns |-> <<>>] /\ writing = [c \in Conns |-> NoMessage]
    /\ writer = [c \in Conns |-> "none"] /\ closing = [c \in Conns |-> "no"]
    /\ wire = [c \in Conns |-> <<>>] /\ alive = [c \in Conns |-> FALSE]
    => BrokerInv)'
BY EmptyBroker, PTL

LEMMA RestartKeepsInv ==
    ASSUME SignalInv, ProcessRestarts PROVE SignalInv'
<1>1. SignalTypes /\ ColourNeedsAConnection
  BY DEF SignalInv
<1>2. BrokerInv'
  BY EmptyBrokerAfter DEF ProcessRestarts
<1>3. ASSUME NEW d \in Conns PROVE ConnInv(d)'
  BY Outside DEF ProcessRestarts
<1>4. SignalTypes' /\ SendingInv'
  BY <1>1 DEF SignalTypes, SendingInv, ProcessRestarts, deviceVars, HandlerStates
<1>5. ColourNeedsAConnection' /\ EffectiveStateIsMerged'
  BY <1>1 DEF ColourNeedsAConnection, EffectiveStateIsMerged, ProcessRestarts, deviceVars
<1>. QED  BY <1>2, <1>3, <1>4, <1>5 DEF SignalInv

-----------------------------------------------------------------------------
\* What the loss of a socket does to those who keep theirs.
LEMMA LossKeepsInStep ==
    ASSUME SignalInv, NEW c \in Conns, SocketDies(c),
           UNCHANGED <<current, holder, sending, handler>>,
           \/ deviceConn' = NoConn \/ ~socketConnected'
           \/ UNCHANGED <<deviceConn, socketConnected, mode>>
    PROVE  BrokerInv' /\ \A d \in Conns : ConnInv(d)'
<1>1. BrokerInv /\ (\A d \in Conns : ConnInv(d))
  BY DEF SignalInv
<1>2. BrokerInv'
  BY <1>1, ConnectionKeepsInv
<1>3. ASSUME NEW d \in Conns PROVE ConnInv(d)'
  <2>1. /\ wire'[d] = wire[d] \/ wire'[d] = <<>>
        /\ alive'[d] => d # c /\ alive[d] /\ wire'[d] = wire[d]
    BY <1>1 DEF SocketDies, BrokerInv, BrokerTypeOK
  <2>2. deviceConn' = d /\ socketConnected' => UNCHANGED <<deviceConn, socketConnected, mode>>
    BY SignalAssumption
  <2>. QED  BY <1>1, <2>1, <2>2, Undisturbed DEF SocketDies
<1>. QED  BY <1>2, <1>3

LEMMA FailureKeepsInv ==
    ASSUME SignalInv, SocketFails PROVE SignalInv'
<1>1. SignalTypes /\ SendingInv /\ ColourNeedsAConnection /\ EffectiveStateIsMerged
  BY DEF SignalInv
<1>2. PICK c \in Conns : SocketDies(c)
  BY DEF SocketFails
<1>3. UNCHANGED <<aggregatorVars, handler, deviceVars>>
  BY DEF SocketFails
<1>4. BrokerInv' /\ \A d \in Conns : ConnInv(d)'
  BY <1>2, <1>3, LossKeepsInStep DEF aggregatorVars, deviceVars
<1>5. SignalTypes' /\ SendingInv'
  BY <1>1, <1>3 DEF SignalTypes, SendingInv, deviceVars, aggregatorVars
<1>6. ColourNeedsAConnection' /\ EffectiveStateIsMerged'
  BY <1>1, <1>3 DEF ColourNeedsAConnection, EffectiveStateIsMerged, deviceVars, aggregatorVars
<1>. QED  BY <1>4, <1>5, <1>6 DEF SignalInv

-----------------------------------------------------------------------------
\* The newest message of a queue or a wire, when its oldest is taken out and
\* when another one joins it.
LEMMA NewestOfTail ==
    ASSUME NEW S, NEW s \in Seq(S), s # <<>>
    PROVE  s[Len(s)] = IF Tail(s) = <<>> THEN Head(s) ELSE Tail(s)[Len(Tail(s))]
<1>. DEFINE t == Tail(s)
<1>1. PICK n : n = Len(s)
  OBVIOUS
<1>2. n \in Nat /\ n # 0
  BY <1>1
<1>3. t \in Seq(S) /\ Len(t) = n - 1 /\ Head(s) = s[1]
  BY <1>1, <1>2
<1>4. \A i \in 1 .. n - 1 : t[i] = s[i + 1]
  BY <1>1, <1>2
<1>. HIDE DEF t
<1>5. CASE t = <<>>
  <2>1. n - 1 = 0
    BY <1>3, <1>5
  <2>2. n = 1
    BY <1>2, <2>1
  <2>3. s[Len(s)] = Head(s)
    BY <1>1, <1>3, <2>2
  <2>. QED  BY <1>5, <2>3 DEF t
<1>6. CASE t # <<>>
  <2>1. Len(t) # 0
    BY <1>3, <1>6
  <2>2. n - 1 \in 1 .. n - 1 /\ (n - 1) + 1 = n
    BY <1>2, <1>3, <2>1
  <2>3. t[n - 1] = s[n]
    BY <1>4, <2>2
  <2>. QED  BY <1>1, <1>3, <1>6, <2>3 DEF t
<1>. QED  BY <1>5, <1>6

LEMMA NewestOfAppend ==
    ASSUME NEW S, NEW s \in Seq(S), NEW e
    PROVE  Append(s, e) # <<>> /\ Append(s, e)[Len(Append(s, e))] = e
<1>1. Len(Append(s, e)) = Len(s) + 1 /\ Len(s) \in Nat
  OBVIOUS
<1>2. Append(s, e)[Len(s) + 1] = e
  BY <1>1
<1>. QED  BY <1>1, <1>2

-----------------------------------------------------------------------------
\* The device.
LEMMA ConnectKeepsInv ==
    ASSUME SignalInv, NEW c \in Conns, DeviceConnects(c) PROVE SignalInv'
<1>1. /\ BrokerInv /\ SignalTypes /\ SendingInv /\ (\A d \in Conns : ConnInv(d))
      /\ ColourNeedsAConnection /\ EffectiveStateIsMerged
  BY DEF SignalInv
<1>2. /\ Unused(c) /\ handler[c] = "idle" /\ accept(c)
      /\ handler' = [handler EXCEPT ![c] = "accepted"]
      /\ deviceConn' = c /\ mode' = "DISCONNECTED" /\ UNCHANGED aggregatorVars
  BY DEF DeviceConnects, serverDone
<1>3. BrokerInv'
  BY <1>1, <1>2, ConnectionKeepsInv
<1>4. ASSUME NEW d \in Conns, d # c PROVE ConnInv(d)'
  BY <1>1, <1>2, <1>4, Undisturbed
     DEF accept, aggregatorVars, SignalTypes, BrokerInv, BrokerTypeOK
<1>5. ConnInv(c)'
  <2>1. /\ writer'[c] = "none" /\ closing'[c] = "no" /\ wire'[c] = <<>>
        /\ c \notin subscribers'
    BY <1>1, <1>2 DEF accept, Unused, BrokerInv, BrokerTypeOK, RegisteredOrShutDown
  <2>2. <<>> \in Seq(Messages)
    OBVIOUS
  <2>. QED  BY <2>1, <2>2 DEF ConnInv, NewToBroker, OnlyMessages, InStepAt
<1>6. SignalTypes' /\ SendingInv'
  BY <1>1, <1>2 DEF SignalTypes, SendingInv, aggregatorVars, HandlerStates
<1>7. ColourNeedsAConnection' /\ EffectiveStateIsMerged'
  BY <1>1, <1>2 DEF ColourNeedsAConnection, EffectiveStateIsMerged, aggregatorVars
<1>. QED  BY <1>3, <1>4, <1>5, <1>6, <1>7 DEF SignalInv

LEMMA ReceiveKeepsInv ==
    ASSUME SignalInv, DeviceReceives PROVE SignalInv'
<1>1. /\ BrokerInv /\ SignalTypes /\ SendingInv /\ (\A d \in Conns : ConnInv(d))
      /\ ColourNeedsAConnection /\ EffectiveStateIsMerged
  BY DEF SignalInv
<1>2. PICK c \in Conns : c = deviceConn
  BY <1>1 DEF DeviceReceives, SignalTypes
<1>3. /\ wire[c] # <<>> /\ wire' = [wire EXCEPT ![c] = Tail(wire[c])]
      /\ stateReceived' = TRUE
      /\ mode' = IF socketConnected THEN Head(wire[c]).state ELSE "DISCONNECTED"
      /\ UNCHANGED <<brokerClosed, subscribers, queue, writing, writer, closing, alive,
                     aggregatorVars, handler, deviceConn, socketConnected>>
  BY <1>2 DEF DeviceReceives, Shown
<1>4. wire \in [Conns -> Seq(Messages \cup {CloseFrame})]
  BY <1>1 DEF BrokerInv, BrokerTypeOK
<1>5. BrokerInv'
  <2>1. Tail(wire[c]) \in Seq(Messages \cup {CloseFrame})
    BY <1>3, <1>4
  <2>. QED  BY <1>1, <1>3, <2>1 DEF BrokerInv, BrokerTypeOK, Bounded, RegisteredOrShutDown
<1>6. ASSUME NEW d \in Conns, d # c PROVE ConnInv(d)'
  BY <1>1, <1>2, <1>3, <1>4, <1>6, Undisturbed DEF aggregatorVars
<1>7. ConnInv(c)'
  <2>1. NewToBroker(c)'
    BY <1>1, <1>3 DEF ConnInv, NewToBroker
  <2>2. OnlyMessages(c)'
    BY <1>1, <1>3, <1>4 DEF ConnInv, OnlyMessages
  <2>3. socketConnected => Newest(c, mode)' = Newest(c, mode)
    <3>. SUFFICES ASSUME socketConnected PROVE Newest(c, mode)' = Newest(c, mode)
      OBVIOUS
    <3>1. wire'[c] = Tail(wire[c]) /\ wire[c] \in Seq(Messages \cup {CloseFrame})
      BY <1>3, <1>4
    <3>2. wire[c][Len(wire[c])] =
              IF wire'[c] = <<>> THEN Head(wire[c]) ELSE wire'[c][Len(wire'[c])]
      BY <1>3, <3>1, NewestOfTail
    <3>3. CASE queue[c] # <<>> \/ writing[c] # NoMessage
      BY <1>3, <3>3 DEF Newest
    <3>4. CASE ~(queue[c] # <<>> \/ writing[c] # NoMessage)
      <4>1. Newest(c, mode) = wire[c][Len(wire[c])].state
        BY <1>3, <3>4 DEF Newest
      <4>2. Newest(c, mode)' = IF wire'[c] = <<>> THEN Head(wire[c]).state
                               ELSE wire'[c][Len(wire'[c])].state
        BY <1>3, <3>4 DEF Newest
      <4>. QED  BY <3>2, <4>1, <4>2
    <3>. QED  BY <3>3, <3>4
  <2>4. InStepAt(c)'
    BY <1>1, <1>3, <2>3 DEF ConnInv, InStepAt, aggregatorVars
  <2>. QED  BY <2>1, <2>2, <2>4 DEF ConnInv
<1>8. SignalTypes' /\ SendingInv'
  BY <1>1, <1>3 DEF SignalTypes, SendingInv, aggregatorVars
<1>9. ColourNeedsAConnection' /\ EffectiveStateIsMerged'
  BY <1>1, <1>2, <1>3, SignalAssumption
     DEF ColourNeedsAConnection, EffectiveStateIsMerged, aggregatorVars
<1>. QED  BY <1>5, <1>6, <1>7, <1>8, <1>9 DEF SignalInv

\* The device ends a connection, or finds itself without Wi-Fi.
LEMMA FailSafeKeepsInv ==
    ASSUME SignalInv, DeviceDisconnected \/ LoseWifi PROVE SignalInv'
<1>1. /\ SignalTypes /\ SendingInv /\ (\A d \in Conns : ConnInv(d))
      /\ EffectiveStateIsMerged
  BY DEF SignalInv
<1>2. /\ mode' = "DISCONNECTED" /\ deviceConn' \in {deviceConn, NoConn} /\ ~socketConnected'
      /\ UNCHANGED <<aggregatorVars, handler>>
  BY DEF DeviceDisconnected, LoseWifi
<1>3. BrokerInv' /\ \A d \in Conns : ConnInv(d)'
  <2>1. CASE deviceConn \in Conns /\ SocketDies(deviceConn)
    BY <1>2, <2>1, LossKeepsInStep DEF aggregatorVars
  <2>2. CASE UNCHANGED brokerVars
    <3>1. BrokerInv'
      BY <2>2, BrokerIdle
    <3>2. ASSUME NEW d \in Conns PROVE ConnInv(d)'
      BY <1>1, <1>2, <2>2, Undisturbed DEF brokerVars, aggregatorVars
    <3>. QED  BY <3>1, <3>2
  <2>. QED  BY <1>1, <2>1, <2>2 DEF DeviceDisconnected, LoseWifi, SignalTypes
<1>4. SignalTypes' /\ SendingInv'
  BY <1>1, <1>2 DEF SignalTypes, SendingInv, aggregatorVars
<1>5. ColourNeedsAConnection' /\ EffectiveStateIsMerged'
  BY <1>1, <1>2 DEF ColourNeedsAConnection, EffectiveStateIsMerged, aggregatorVars
<1>. QED  BY <1>3, <1>4, <1>5 DEF SignalInv

\* A step in which nothing but the Wi-Fi may change.
LEMMA IdleKeepsInv ==
    ASSUME SignalInv,
           UNCHANGED <<brokerVars, aggregatorVars, handler, deviceConn, socketConnected,
                       stateReceived, mode>>
    PROVE  SignalInv'
<1>1. /\ SignalTypes /\ SendingInv /\ (\A d \in Conns : ConnInv(d))
      /\ ColourNeedsAConnection /\ EffectiveStateIsMerged
  BY DEF SignalInv
<1>2. BrokerInv'
  BY BrokerIdle
<1>3. ASSUME NEW d \in Conns PROVE ConnInv(d)'
  BY <1>1, Undisturbed DEF brokerVars, aggregatorVars
<1>4. SignalTypes' /\ SendingInv'
  BY <1>1 DEF SignalTypes, SendingInv, aggregatorVars
<1>5. ColourNeedsAConnection' /\ EffectiveStateIsMerged'
  BY <1>1 DEF ColourNeedsAConnection, EffectiveStateIsMerged, aggregatorVars
<1>. QED  BY <1>2, <1>3, <1>4, <1>5 DEF SignalInv

-----------------------------------------------------------------------------
\* The writer of c moves its newest message on; it neither loses nor passes one.
LEMMA WriterKeepsOrder ==
    ASSUME SignalInv, NEW c \in Conns, WriterTakes(c) \/ WriterSends(c)
    PROVE  /\ OnlyMessages(c) /\ handler' = handler => OnlyMessages(c)'
           /\ c \in subscribers /\ alive[c] /\ mode' = mode => Newest(c, mode)' = Newest(c, mode)
<1>1. /\ queue \in [Conns -> Seq(Messages)]
      /\ writing \in [Conns -> Messages \cup {NoMessage}]
      /\ wire \in [Conns -> Seq(Messages \cup {CloseFrame})]
      /\ NoMessage \notin Messages
  BY BrokerAssumption DEF SignalInv, BrokerInv, BrokerTypeOK
<1>2. CASE WriterTakes(c)
  <2>1. /\ queue[c] # <<>> /\ writing[c] = NoMessage
        /\ queue'[c] = Tail(queue[c]) /\ writing'[c] = Head(queue[c]) /\ wire' = wire
        /\ subscribers' = subscribers /\ queue[c] \in Seq(Messages)
    BY <1>1, <1>2 DEF WriterTakes
  <2>2. writing'[c] # NoMessage
    BY <1>1, <2>1
  <2>3. queue[c][Len(queue[c])] =
            IF queue'[c] = <<>> THEN writing'[c] ELSE queue'[c][Len(queue'[c])]
    BY <2>1, NewestOfTail
  <2>4. mode' = mode => Newest(c, mode)' = Newest(c, mode)
    BY <2>1, <2>2, <2>3 DEF Newest
  <2>. QED  BY <2>1, <2>4 DEF OnlyMessages
<1>3. CASE WriterSends(c)
  <2>1. /\ writing[c] \in Messages /\ writing'[c] = NoMessage /\ queue' = queue
        /\ wire' = IF alive[c] THEN [wire EXCEPT ![c] = Append(wire[c], writing[c])] ELSE wire
        /\ subscribers' = subscribers
    BY <1>1, <1>3 DEF WriterSends, Transmit
  <2>2. /\ wire[c] \in Seq(Messages) => Append(wire[c], writing[c]) \in Seq(Messages)
        /\ Append(wire[c], writing[c]) # <<>>
        /\ Append(wire[c], writing[c])[Len(Append(wire[c], writing[c]))] = writing[c]
    <3>1. wire[c] \in Seq(Messages \cup {CloseFrame})
      BY <1>1
    <3>2. wire[c] \in Seq(Messages) => Append(wire[c], writing[c]) \in Seq(Messages)
      BY <2>1
    <3>. QED  BY <3>1, <3>2, NewestOfAppend
  <2>3. OnlyMessages(c) /\ handler' = handler => OnlyMessages(c)'
    BY <1>1, <2>1, <2>2 DEF OnlyMessages
  <2>4. alive[c] /\ mode' = mode => Newest(c, mode)' = Newest(c, mode)
    BY <1>1, <2>1, <2>2 DEF Newest
  <2>. QED  BY <2>3, <2>4
<1>. QED  BY <1>2, <1>3

LEMMA TaskTouchesOne ==
    ASSUME BrokerInv, NEW c \in Conns, WriterStep(c) \/ ShutdownStep(c), NEW d \in Conns, d # c
    PROVE  /\ subscribers' \subseteq subscribers /\ alive' = alive
           /\ queue'[d] = queue[d] /\ writing'[d] = writing[d] /\ wire'[d] = wire[d]
           /\ writer'[d] = writer[d] /\ closing'[d] = closing[d]
<1>1. BrokerTypeOK
  BY DEF BrokerInv
<1>2. CASE WriterTakes(c) \/ WriterSends(c)
  BY <1>1, <1>2 DEF BrokerTypeOK, WriterTakes, WriterSends, Transmit
<1>3. CASE WriterFails(c)
  BY <1>1, <1>3 DEF BrokerTypeOK, WriterFails
<1>4. CASE WriterStops(c)
  BY <1>1, <1>4 DEF BrokerTypeOK, WriterStops, Transmit
<1>5. CASE ShutdownStep(c)
  BY <1>1, <1>5 DEF BrokerTypeOK, ShutdownStep, WriterAwaited, SinkCloses, CloseTimesOut
<1>. QED  BY <1>2, <1>3, <1>4, <1>5 DEF WriterStep

LEMMA BrokerTaskKeepsInv ==
    ASSUME SignalInv, NEW c \in Conns, BrokerTask(c) PROVE SignalInv'
<1>1. /\ BrokerInv /\ SignalTypes /\ SendingInv /\ (\A d \in Conns : ConnInv(d))
      /\ ColourNeedsAConnection /\ EffectiveStateIsMerged /\ RegisteredOrShutDown
  BY DEF SignalInv, BrokerInv
<1>2. WriterStep(c) \/ ShutdownStep(c)
  BY DEF BrokerTask
<1>3. UNCHANGED <<aggregatorVars, handler, deviceVars>>
  BY DEF BrokerTask
<1>4. BrokerInv'
  BY <1>1, <1>2, TaskKeepsInv
<1>5. ASSUME NEW d \in Conns, d # c PROVE ConnInv(d)'
  BY <1>1, <1>2, <1>3, <1>5, TaskTouchesOne, Undisturbed DEF aggregatorVars, deviceVars
<1>6. handler[c] # "accepted"
  BY <1>1, <1>2 DEF ConnInv, NewToBroker, WriterStep, ShutdownStep, WriterTakes, WriterSends,
        WriterFails, WriterStops, WriterAwaited, SinkCloses, CloseTimesOut
<1>7. ConnInv(c)'
  <2>1. CASE WriterTakes(c) \/ WriterSends(c)
    <3>1. subscribers' = subscribers /\ alive' = alive
      BY <2>1 DEF WriterTakes, WriterSends
    <3>2. OnlyMessages(c)'
      BY <1>1, <1>3, <2>1, WriterKeepsOrder DEF ConnInv
    <3>3. InStepAt(c)'
      <4>1. c \in subscribers /\ alive[c] => Newest(c, mode)' = Newest(c, mode)
        BY <1>3, <2>1, WriterKeepsOrder DEF deviceVars
      <4>. QED  BY <1>1, <1>3, <3>1, <4>1 DEF ConnInv, InStepAt, aggregatorVars, deviceVars
    <3>. QED  BY <1>3, <1>6, <3>2, <3>3 DEF ConnInv, NewToBroker
  <2>2. CASE WriterFails(c)
    BY <1>3, <1>6, <2>2, Outside DEF WriterFails
  <2>3. CASE WriterStops(c)
    BY <1>1, <1>3, <1>6, <2>3, Outside DEF WriterStops, RegisteredOrShutDown
  <2>4. CASE ShutdownStep(c)
    BY <1>1, <1>3, <1>6, <2>4, Outside
       DEF ShutdownStep, WriterAwaited, SinkCloses, CloseTimesOut, RegisteredOrShutDown
  <2>. QED  BY <1>2, <2>1, <2>2, <2>3, <2>4 DEF WriterStep
<1>8. SignalTypes' /\ SendingInv'
  BY <1>1, <1>3 DEF SignalTypes, SendingInv, deviceVars, aggregatorVars
<1>9. ColourNeedsAConnection' /\ EffectiveStateIsMerged'
  BY <1>1, <1>3 DEF ColourNeedsAConnection, EffectiveStateIsMerged, deviceVars, aggregatorVars
<1>. QED  BY <1>4, <1>5, <1>7, <1>8, <1>9 DEF SignalInv

-----------------------------------------------------------------------------
LEMMA InitSignalInv == Init => SignalInv
<1>. SUFFICES ASSUME Init PROVE SignalInv
  OBVIOUS
<1>1. BrokerInv
  BY EmptyBroker DEF Init, BrokerInit
<1>2. \A d \in Conns : ConnInv(d)
  BY DEF Init, BrokerInit, ConnInv, NewToBroker, OnlyMessages, InStepAt
<1>3. SignalTypes /\ SendingInv /\ ColourNeedsAConnection /\ EffectiveStateIsMerged
  BY DEF Init, SignalTypes, SendingInv, ColourNeedsAConnection, EffectiveStateIsMerged,
         HandlerStates
<1>. QED  BY <1>1, <1>2, <1>3 DEF SignalInv

LEMMA StepSignalInv == SignalInv /\ [Next]_vars => SignalInv'
<1>. SUFFICES ASSUME SignalInv, [Next]_vars PROVE SignalInv'
  OBVIOUS
<1>1. CASE Reports
  BY <1>1, UpdateKeepsInv DEF Reports
<1>2. CASE CloseBroker \/ ProcessRestarts \/ SocketFails
  BY <1>2, CloseKeepsInv, RestartKeepsInv, FailureKeepsInv
<1>3. CASE WifiChanges \/ UNCHANGED vars
  BY <1>3, IdleKeepsInv DEF WifiChanges, vars, deviceVars
<1>4. CASE ServerStep
  BY <1>4, ReleaseKeepsInv, PublishKeepsInv, SubscribeKeepsInv, SendCurrentKeepsInv,
     LeaveKeepsInv, BrokerTaskKeepsInv DEF ServerStep, HandlerStep
<1>5. CASE DeviceLoop
  BY <1>5, ConnectKeepsInv, ReceiveKeepsInv, FailSafeKeepsInv DEF DeviceLoop
<1>. QED  BY <1>1, <1>2, <1>3, <1>4, <1>5 DEF Next

\* The broker's limits hold: no number of connections per account or in all is
\* ever exceeded, and no queue is ever longer than its capacity (broker.py).
THEOREM LimitsHold == Spec => []Bounded
<1>1. SignalInv => Bounded
  BY DEF SignalInv, BrokerInv
<1>. QED  BY <1>1, InitSignalInv, StepSignalInv, PTL DEF Spec

\* Every subscription is registered with a running writer or is being shut down
\* by exactly one of the tasks that can find it broken (broker.py).
THEOREM ShutDownOnce == Spec => []RegisteredOrShutDown
<1>1. SignalInv => RegisteredOrShutDown
  BY DEF SignalInv, BrokerInv
<1>. QED  BY <1>1, InitSignalInv, StepSignalInv, PTL DEF Spec

\* The stack light shows a colour only with a socket and a state received on it
\* (the fail-safe of loop() in the firmware).
THEOREM ColourIsAPromise == Spec => []ColourNeedsAConnection
<1>1. SignalInv => ColourNeedsAConnection
  BY DEF SignalInv
<1>. QED  BY <1>1, InitSignalInv, StepSignalInv, PTL DEF Spec

\* What is effective is always the merge of what the sources last reported,
\* also while it is being published (SafetyStateAggregator.update).
THEOREM EffectiveIsMerged == Spec => []EffectiveStateIsMerged
<1>1. SignalInv => EffectiveStateIsMerged
  BY DEF SignalInv
<1>. QED  BY <1>1, InitSignalInv, StepSignalInv, PTL DEF Spec

\* A registered device that was sent the current state stays in step: no update
\* is lost between subscribe and send_current, none overtakes another on the way.
THEOREM DeviceStaysInStep == Spec => []InStep
<1>1. SignalInv => InStep
  <2>1. SignalInv => subscribers \subseteq Conns
    BY DEF SignalInv, BrokerInv, BrokerTypeOK
  <2>. QED  BY <2>1 DEF SignalInv, ConnInv, InStepAt, InStep
<1>. QED  BY <1>1, InitSignalInv, StepSignalInv, PTL DEF Spec
=============================================================================
