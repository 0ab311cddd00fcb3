----------------------------- MODULE AdminStream -----------------------------
(***************************************************************************)
(* The administrative stream /ws/admin/alerts: its handler, heartbeat and  *)
(* receiver tasks in 2identify_api/app/api/routes/admin_realtime.py, on the*)
(* broker they share with whoever publishes an alert.                      *)
(*                                                                         *)
(* An administrator is let in with a token and a live account, and both are*)
(* checked again at every heartbeat, while accounts are being edited.  Time*)
(* passes in ticks.  due[c] is when the work connection c is doing is over *)
(* at the latest: a check, waiting for a pooled thread and for the database*)
(* included, takes CheckTime, the handshake AcceptTime; a sleep ends after *)
(* Interval.  What the event loop does without waiting takes no time.      *)
(***************************************************************************)
EXTENDS Authorization, RealtimeBroker

CONSTANTS
    Accounts, Profiles,
    Ready, Heartbeat,          \* connection.ready and connection.heartbeat
    Interval,                  \* realtime_heartbeat_interval_seconds
    CheckTime, AcceptTime

StreamAssumption ==
    /\ Owner \in [Conns -> Accounts]
    /\ Interval \in Nat \ {0} /\ CheckTime \in Nat /\ AcceptTime \in Nat
    /\ TokenTtl \in Nat

VARIABLES
    now,
    accounts,      \* usuarios: whether each account is active, and its profile
    lostAt,        \* when each account last ceased to be an administrator's
    tokens,        \* the tokens issued to administrators
    stream,        \* admin_alert_stream, per connection
    token,         \* its bearer token
    check,         \* authorizer.authorize in a pooled thread
    startedAt,     \* when its last check began
    grantedAt,     \* when the last check whose answer it used began
    heartbeat,     \* _heartbeat_loop
    receiver,      \* _receive_until_disconnect
    due

accountVars == <<accounts, lostAt, tokens>>
streamVars == <<stream, token, check, startedAt, grantedAt, heartbeat, receiver, due>>
adminStreamVars == <<now, accountVars, streamVars, brokerVars>>

StreamStates == {"idle", "authorizing", "accepting", "subscribed", "running", "ending", "leaving"}
CheckStates == {"none", "verifying", "reading", "granted", "rejected", "unavailable"}
TaskStates == {"none", "waiting", "checking", "disconnecting"}
AccountStates == [active : BOOLEAN, profile : Profiles]
Administrates(account) == account.active /\ account.profile = AdminProfile

StreamInit ==
    /\ now = 0
    /\ accounts \in [Accounts -> AccountStates]
    /\ lostAt = [a \in Accounts |-> 0]
    /\ tokens = {}
    /\ stream = [c \in Conns |-> "idle"]
    /\ token = [c \in Conns |-> <<>>]
    /\ check = [c \in Conns |-> "none"]
    /\ startedAt = [c \in Conns |-> 0]
    /\ grantedAt = [c \in Conns |-> 0]
    /\ heartbeat = [c \in Conns |-> "none"]
    /\ receiver = [c \in Conns |-> "none"]
    /\ due = [c \in Conns |-> 0]
    /\ BrokerInit

-----------------------------------------------------------------------------
\* login_administrator
LogIn(a) ==
    /\ authenticates(accounts[a], TRUE, {AdminProfile})
    /\ tokens' = tokens \cup {issue(a, accounts[a].profile, AdminAudience, now)}
    /\ UNCHANGED <<now, accounts, lostAt, streamVars, brokerVars>>

\* An account is edited: activated, deactivated, given another profile.
EditAccount(a) ==
    /\ \E account \in AccountStates : accounts' = [accounts EXCEPT ![a] = account]
    /\ lostAt' = IF Administrates(accounts[a]) THEN [lostAt EXCEPT ![a] = now] ELSE lostAt
    /\ UNCHANGED <<now, tokens, streamVars, brokerVars>>

\* Time does not pass what a connection is about to do; how long a shutdown
\* takes, once the broker has removed the connection, does not matter.
Tick ==
    /\ \A c \in Conns :
          c \in subscribers \/ stream[c] \in {"authorizing", "accepting"} => now < due[c]
    /\ now' = now + 1
    /\ UNCHANGED <<accountVars, streamVars, brokerVars>>

-----------------------------------------------------------------------------
\* authorizer.authorize(token) begins.
BeginCheck(c) ==
    /\ check' = [check EXCEPT ![c] = "verifying"]
    /\ startedAt' = [startedAt EXCEPT ![c] = now]
    /\ due' = [due EXCEPT ![c] = now + CheckTime]

VerifyToken(c) ==
    /\ check[c] = "verifying"
    /\ check' = [check EXCEPT ![c] =
                    IF verify(token[c], AdminAudience, now) /\ token[c].profile = AdminProfile
                    THEN "reading" ELSE "rejected"]
    /\ UNCHANGED <<now, accountVars, stream, token, startedAt, grantedAt, heartbeat,
                   receiver, due, brokerVars>>

\* find_active_by_id, if the database answers
ReadAccount(c) ==
    /\ check[c] = "reading"
    /\ \E verdict \in {IF isAdministrator(token[c], accounts[token[c].subject])
                      THEN "granted" ELSE "rejected", "unavailable"} :
          check' = [check EXCEPT ![c] = verdict]
    /\ UNCHANGED <<now, accountVars, stream, token, startedAt, grantedAt, heartbeat,
                   receiver, due, brokerVars>>

\* The answer of a check is taken.
UseCheck(c) ==
    /\ check' = [check EXCEPT ![c] = "none"]
    /\ grantedAt' = IF check[c] = "granted"
                    THEN [grantedAt EXCEPT ![c] = startedAt[c]] ELSE grantedAt
    /\ UNCHANGED startedAt

-----------------------------------------------------------------------------
\* A handshake arrives with a bearer token; one without, or with a query
\* string, is refused at once.
Connect(c) ==
    /\ stream[c] = "idle" /\ Unused(c)
    /\ stream' = [stream EXCEPT ![c] = "authorizing"]
    /\ \E t \in tokens : t.subject = Owner[c] /\ token' = [token EXCEPT ![c] = t]
    /\ BeginCheck(c)
    /\ UNCHANGED <<now, accountVars, grantedAt, heartbeat, receiver, brokerVars>>

\* The handshake is refused with 401 or 503.
Deny(c) ==
    /\ stream[c] = "authorizing" /\ check[c] \in {"rejected", "unavailable"}
    /\ stream' = [stream EXCEPT ![c] = "idle"]
    /\ UseCheck(c)
    /\ UNCHANGED <<now, accountVars, token, heartbeat, receiver, due, brokerVars>>

Accept(c) ==
    /\ stream[c] = "authorizing" /\ check[c] = "granted"
    /\ stream' = [stream EXCEPT ![c] = "accepting"]
    /\ UseCheck(c)
    /\ due' = [due EXCEPT ![c] = now + AcceptTime]
    /\ accept(c)
    /\ UNCHANGED <<now, accountVars, token, heartbeat, receiver>>

\* broker.subscribe; the sink of a connection it refuses is closed.
Subscribe(c) ==
    /\ stream[c] = "accepting"
    /\ IF Accepts(c)
       THEN subscribe(c) /\ stream' = [stream EXCEPT ![c] = "subscribed"]
       ELSE closeSink(c) /\ stream' = [stream EXCEPT ![c] = "idle"]
    /\ UNCHANGED <<now, accountVars, token, check, startedAt, grantedAt, heartbeat, receiver, due>>

\* websocket.accept raises: the other end is gone already.
AcceptFails(c) ==
    /\ stream[c] = "accepting" /\ ~alive[c]
    /\ stream' = [stream EXCEPT ![c] = "idle"]
    /\ UNCHANGED <<now, accountVars, token, check, startedAt, grantedAt, heartbeat, receiver,
                   due, brokerVars>>

\* connection.ready is queued and _run_connection starts both tasks.
Greet(c) ==
    /\ stream[c] = "subscribed"
    /\ send_to(c, Ready)
    /\ IF c \in subscribers /\ ~IsFull(c)
       THEN /\ stream' = [stream EXCEPT ![c] = "running"]
            /\ heartbeat' = [heartbeat EXCEPT ![c] = "waiting"]
            /\ receiver' = [receiver EXCEPT ![c] = "waiting"]
            /\ due' = [due EXCEPT ![c] = now + Interval]
       ELSE /\ stream' = [stream EXCEPT ![c] = IF c \in subscribers THEN "leaving" ELSE "idle"]
            /\ UNCHANGED <<heartbeat, receiver, due>>
    /\ UNCHANGED <<now, accountVars, token, check, startedAt, grantedAt>>

-----------------------------------------------------------------------------
\* The first task that ends cancels the other.  A check in a pooled thread is
\* waited for; a shutdown the other task was waiting in goes no further unless
\* the sink is being closed already.
EndTasks(c, ended) ==
    /\ stream' = [stream EXCEPT ![c] = "ending"]
    /\ heartbeat' = [heartbeat EXCEPT ![c] = "none"]
    /\ receiver' = [receiver EXCEPT ![c] = "none"]
    /\ closing' = [closing EXCEPT ![c] =
          IF @ = "cancelling" /\ ended \in {"heartbeat", "receiver"}
             /\ (IF ended = "heartbeat" THEN receiver ELSE heartbeat)[c] = "disconnecting"
          THEN "over" ELSE @]
    /\ UNCHANGED <<brokerClosed, subscribers, queue, writing, writer, wire, alive>>

HeartbeatWakes(c) ==
    /\ stream[c] = "running" /\ heartbeat[c] = "waiting" /\ now >= due[c]
    /\ heartbeat' = [heartbeat EXCEPT ![c] = "checking"]
    /\ BeginCheck(c)
    /\ UNCHANGED <<now, accountVars, stream, token, grantedAt, receiver, brokerVars>>

\* The check ended well: a heartbeat is sent and the next sleep begins, unless
\* the connection was removed meanwhile, or is now because its queue is full.
HeartbeatSends(c) ==
    /\ heartbeat[c] = "checking" /\ check[c] = "granted"
    /\ UseCheck(c)
    /\ IF c \notin subscribers
       THEN EndTasks(c, "heartbeat") /\ UNCHANGED due
       ELSE /\ send_to(c, Heartbeat)
            /\ heartbeat' = [heartbeat EXCEPT ![c] =
                                IF IsFull(c) THEN "disconnecting" ELSE "waiting"]
            /\ due' = [due EXCEPT ![c] = now + Interval]
            /\ UNCHANGED <<stream, receiver>>
    /\ UNCHANGED <<now, accountVars, token>>

\* A task disconnects its connection; if that was removed already, it just ends.
Disconnects(c, task) ==
    IF c \notin subscribers
    THEN EndTasks(c, task)
    ELSE /\ disconnect(c)
         /\ heartbeat' = IF task = "heartbeat"
                         THEN [heartbeat EXCEPT ![c] = "disconnecting"] ELSE heartbeat
         /\ receiver' = IF task = "receiver"
                        THEN [receiver EXCEPT ![c] = "disconnecting"] ELSE receiver
         /\ UNCHANGED stream

\* The check was refused (4401) or could not be made (1011).
HeartbeatDisconnects(c) ==
    /\ heartbeat[c] = "checking" /\ check[c] \in {"rejected", "unavailable"}
    /\ UseCheck(c)
    /\ Disconnects(c, "heartbeat")
    /\ UNCHANGED <<now, accountVars, token, due>>

\* The client sent something on a channel meant for receiving only.
ReceiverDisconnects(c) ==
    /\ receiver[c] = "waiting" /\ alive[c]
    /\ Disconnects(c, "receiver")
    /\ UNCHANGED <<now, accountVars, token, check, startedAt, grantedAt, due>>

\* websocket.receive() reports that the peer, or our own sink, is gone.
ReceiverEnds(c) ==
    /\ receiver[c] = "waiting" /\ (~alive[c] \/ closing[c] = "over")
    /\ EndTasks(c, "receiver")
    /\ UNCHANGED <<now, accountVars, token, check, startedAt, grantedAt, due>>

\* The shutdown a task was waiting in is over.
DisconnectEnds(c) ==
    /\ closing[c] = "over"
    /\ \/ heartbeat[c] = "disconnecting" /\ EndTasks(c, "heartbeat")
       \/ receiver[c] = "disconnecting" /\ EndTasks(c, "receiver")
    /\ UNCHANGED <<now, accountVars, token, check, startedAt, grantedAt, due>>

\* Both tasks are over, a check that was under way included, whose answer
\* nobody uses: the finally clause unsubscribes.
Unsubscribe(c) ==
    /\ stream[c] = "ending" /\ check[c] \notin {"verifying", "reading"}
    /\ check' = [check EXCEPT ![c] = "none"]
    /\ disconnect(c)
    /\ stream' = [stream EXCEPT ![c] = IF c \in subscribers THEN "leaving" ELSE "idle"]
    /\ UNCHANGED <<now, accountVars, token, startedAt, grantedAt, heartbeat, receiver, due>>

HandlerReturns(c) ==
    /\ stream[c] = "leaving" /\ closing[c] = "over"
    /\ stream' = [stream EXCEPT ![c] = "idle"]
    /\ UNCHANGED <<now, accountVars, token, check, startedAt, grantedAt, heartbeat, receiver,
                   due, brokerVars>>

-----------------------------------------------------------------------------
\* publish: one of its send_to tasks, with an alert.
Publish(c) ==
    /\ \E m \in Messages \ {Ready, Heartbeat} : send_to(c, m)
    /\ UNCHANGED <<now, accountVars, streamVars>>

\* The broker's own tasks, the network, and the end of the application
BrokerStep(c) ==
    /\ WriterStep(c) \/ ShutdownStep(c) \/ SocketDies(c) \/ close
    /\ UNCHANGED <<now, accountVars, streamVars>>

HandlerStep(c) ==
    \/ Connect(c) \/ VerifyToken(c) \/ ReadAccount(c) \/ Deny(c) \/ Accept(c)
    \/ Subscribe(c) \/ AcceptFails(c) \/ Greet(c) \/ HeartbeatWakes(c) \/ HeartbeatSends(c)
    \/ HeartbeatDisconnects(c) \/ ReceiverDisconnects(c) \/ ReceiverEnds(c)
    \/ DisconnectEnds(c) \/ Unsubscribe(c) \/ HandlerReturns(c)

StreamNext ==
    \/ Tick
    \/ \E a \in Accounts : LogIn(a) \/ EditAccount(a)
    \/ \E c \in Conns : HandlerStep(c) \/ Publish(c) \/ BrokerStep(c)

StreamSpec == StreamInit /\ [][StreamNext]_adminStreamVars

-----------------------------------------------------------------------------
\* Whoever loses the right to the stream, by the end of the token or by an edit
\* of the account, is out of the broker within one heartbeat: nothing published
\* later than that is queued for the connection, whatever the order of the
\* checks, of the edits and of the tasks that end it.
Window == Interval + 2 * CheckTime + AcceptTime
CutOffInTime ==
    \A c \in subscribers :
        /\ now < token[c].expiresAt + Window
        /\ ~Administrates(accounts[Owner[c]]) => now <= lostAt[Owner[c]] + Window

\* No subscription is left behind: each has a handler that will unsubscribe it,
\* so that the limits of the broker count live connections only.
EverySubscriptionHasAHandler ==
    \A c \in subscribers : stream[c] \in {"subscribed", "running", "ending"}
=============================================================================
