--------------------------- MODULE TwitchIrcClient ---------------------------
(***************************************************************************)
(* TwitchIrcClient::Impl with its Sessions (src/twitch_irc_client.cpp),    *)
(* from start() to the return of io_context::run in main.                  *)
(*                                                                         *)
(* Every action is one completion handler run to its end, or one event     *)
(* outside: an operation completes, a timer expires, a signal arrives.     *)
(* There is no clock: an armed timer expires at any time.  Lines are the   *)
(* messages SessionProtocol tells apart, chosen by the server.             *)
(***************************************************************************)
EXTENDS Session

CONSTANTS
  Slots,           \* names for Session objects; a destroyed one is reused
  None,            \* the empty session_ pointer
  ServerMessages,  \* the lines the server sends
  MaxLines,        \* bound: lines that one read delivers
  MaxAttempt       \* cap of the backoff exponent (6 in the code)

ASSUME ClientAssumption ==
  /\ None \notin Slots
  /\ ServerMessages \subseteq Messages
  /\ MaxLines \in Nat /\ MaxAttempt \in Nat

VARIABLES
  sessions,        \* the Session objects
  client,          \* the members of Impl
  signal_wait      \* the signal set of main still waits

vars == <<sessions, client, signal_wait>>

Client ==
  [ session         : Slots \cup {None},
    stopping        : BOOLEAN,
    exit_code       : {0, 1},
    reconnect_timer : Timer,
    attempt         : 0..MaxAttempt,     \* reconnect_attempt_, up to its cap
    io              : {"running", "stopped", "returned"} ]

TypeOK ==
  /\ sessions \in [Slots -> SessionRecord]
  /\ client \in Client
  /\ signal_wait \in BOOLEAN

Destroyed == [NewSession EXCEPT !.closed = TRUE]

\* The state after main has called client.start().
Init ==
  /\ sessions = [i \in Slots |-> Destroyed]
  /\ client = [ session |-> None, stopping |-> FALSE, exit_code |-> 0,
                reconnect_timer |-> {"armed"}, attempt |-> 0,
                io |-> "running" ]
  /\ signal_wait = TRUE

-----------------------------------------------------------------------------
\* Mutant: an end that is not fatal schedules nothing.
SessionEnd_NoRetry(c, reason) ==
  LET gone == [c EXCEPT !.session = None] IN
  IF c.stopping \/ reason # "fatal"
  THEN gone
  ELSE [gone EXCEPT !.exit_code = 1, !.stopping = TRUE,
                    !.reconnect_timer = Cancel(@), !.io = "stopped"]

\* Mutant: a fatal end is retried like any other.
SessionEnd_FatalRetries(c, reason) ==
  LET gone == [c EXCEPT !.session = None] IN
  IF c.stopping \/ reason = "stopped"
  THEN gone
  ELSE [gone EXCEPT !.exit_code = IF reason = "fatal" THEN 1 ELSE @,
                    !.attempt = IF @ < MaxAttempt THEN @ + 1 ELSE @,
                    !.reconnect_timer = Arm(@)]

\* Impl::handle_session_end with schedule_connection.
SessionEnd(c, reason) ==
  LET gone == [c EXCEPT !.session = None] IN
  CASE c.stopping \/ reason = "stopped" -> gone
    [] ~c.stopping /\ reason = "fatal" ->
         [gone EXCEPT !.exit_code = 1, !.stopping = TRUE,
                      !.reconnect_timer = Cancel(@), !.io = "stopped"]
    [] OTHER ->
         [gone EXCEPT !.attempt = IF @ < MaxAttempt THEN @ + 1 ELSE @,
                      !.reconnect_timer = Arm(@)]

\* The callbacks Impl::connect gives to a Session: ready resets the attempts.
CallBack(c, r) ==
  LET ready == IF r.ready THEN [c EXCEPT !.attempt = 0] ELSE c
  IN  IF r.end = "none" THEN ready ELSE SessionEnd(ready, r.end)

IsRunning == client.io = "running"

\* A Session is destroyed with its last reference.
Kept(i, s, c) == IF i = c.session \/ Held(s) THEN s ELSE Destroyed

\* Session i and the client after a handler of session i.
Becomes(i, r) ==
  LET c == CallBack(client, r) IN
  /\ sessions' = [sessions EXCEPT ![i] = Kept(i, r.s, c)]
  /\ client' = c
  /\ UNCHANGED signal_wait

\* An event outside the program changes an operation of session i.
Completes(i, s) == Becomes(i, Running(s))

-----------------------------------------------------------------------------
ReconnectTimerExpires ==
  /\ IsRunning
  /\ "armed" \in client.reconnect_timer
  /\ client' = [client EXCEPT !.reconnect_timer = Expire(@)]
  /\ UNCHANGED <<sessions, signal_wait>>

\* Impl::connect and Session::start; i is a name no object has.
ConnectClient(i) ==
  /\ i # client.session /\ ~Held(sessions[i])
  /\ sessions' = [sessions EXCEPT ![i] = [NewSession EXCEPT !.dial = "resolving"]]
  /\ client' = [client EXCEPT !.session = i,
                              !.reconnect_timer = @ \ {"fired"}]

\* Mutant: the handler does not look at stopping_.
ReconnectTimerHandler_NoCheck ==
  /\ IsRunning
  /\ "fired" \in client.reconnect_timer
  /\ \E i \in Slots : ConnectClient(i)
  /\ UNCHANGED signal_wait

\* The handler of schedule_connection.
ReconnectTimerHandler ==
  /\ IsRunning
  /\ "fired" \in client.reconnect_timer
  /\ \/ /\ client.stopping
        /\ client' = [client EXCEPT !.reconnect_timer = @ \ {"fired"}]
        /\ UNCHANGED sessions
     \/ /\ ~client.stopping
        /\ \E i \in Slots : ConnectClient(i)
  /\ UNCHANGED signal_wait

\* What a step of dialling turns into when it succeeds.
Success ==
  [ resolving |-> "resolved", connecting |-> "connected",
    handshaking |-> "shaken" ]

\* The lookup, the TCP connection or the TLS handshake ends; each is bounded
\* by a timeout.
DialCompletes(i) ==
  /\ IsRunning
  /\ sessions[i].dial \in DOMAIN Success
  /\ \E result \in {"failed", Success[sessions[i].dial]} :
       Completes(i, [sessions[i] EXCEPT !.dial = result])

ResolveHandler(i) ==
  /\ IsRunning
  /\ sessions[i].dial = "resolved"
  /\ Becomes(i, Connect(sessions[i]))

ConnectHandler(i) ==
  /\ IsRunning
  /\ sessions[i].dial = "connected"
  /\ \E r \in Handshake(sessions[i]) : Becomes(i, r)

HandshakeHandler(i) ==
  /\ IsRunning
  /\ sessions[i].dial = "shaken"
  /\ Becomes(i, Login(sessions[i]))

DialFailedHandler(i) ==
  /\ IsRunning
  /\ sessions[i].dial = "failed"
  /\ Becomes(i, Finish(Dialled(sessions[i]), "network_error"))

\* Bytes, end of file or an error; the server is free to stay silent.
ReadCompletes(i) ==
  /\ IsRunning
  /\ sessions[i].read = "pending"
  /\ \E result \in {"data", "error"} :
       Completes(i, [sessions[i] EXCEPT !.read = result])

ReadHandler(i) ==
  /\ IsRunning
  /\ sessions[i].read = "data"
  /\ \E n \in 0..MaxLines, pacing \in Pacing :
       \E lines \in [1..n -> ServerMessages] :
         \E r \in Received(sessions[i], lines, pacing) : Becomes(i, r)

ReadFailedHandler(i) ==
  /\ IsRunning
  /\ sessions[i].read = "error"
  /\ Becomes(i, Finish(Running([sessions[i] EXCEPT !.read = "none"]),
                       "network_error"))

\* The bytes are handed over, or the connection fails.
WriteCompletes(i) ==
  /\ IsRunning
  /\ sessions[i].write = "pending"
  /\ \E result \in {"done", "error"} :
       Completes(i, [sessions[i] EXCEPT !.write = result])

WriteDoneHandler(i) ==
  /\ IsRunning
  /\ sessions[i].write = "done"
  /\ \E pacing \in Pacing : Becomes(i, Written(sessions[i], pacing))

\* current_write_ and write_in_progress_ keep their values.
WriteFailedHandler(i) ==
  /\ IsRunning
  /\ sessions[i].write = "error"
  /\ Becomes(i, Finish(Running([sessions[i] EXCEPT !.write = "none"]),
                       "network_error"))

WriteTimerExpires(i) ==
  /\ IsRunning
  /\ "armed" \in sessions[i].write_timer
  /\ Completes(i, [sessions[i] EXCEPT !.write_timer = Expire(@)])

WriteTimerHandler(i) ==
  /\ IsRunning
  /\ "fired" \in sessions[i].write_timer
  /\ \E pacing \in Pacing : Becomes(i, WriteTimeout(sessions[i], pacing))

AuthTimerExpires(i) ==
  /\ IsRunning
  /\ "armed" \in sessions[i].auth_timer
  /\ Completes(i, [sessions[i] EXCEPT !.auth_timer = Expire(@)])

AuthTimerHandler(i) ==
  /\ IsRunning
  /\ "fired" \in sessions[i].auth_timer
  /\ Becomes(i, AuthTimeout(sessions[i]))

\* Mutant: stop leaves the Session alone.
Stop_KeepsSession ==
  /\ IsRunning
  /\ signal_wait
  /\ signal_wait' = FALSE
  /\ client' = [client EXCEPT !.stopping = TRUE,
                              !.reconnect_timer = Cancel(@)]
  /\ UNCHANGED sessions

\* SIGINT or SIGTERM: the signal set waits once; the handler is Impl::stop
\* with Session::stop.  (Impl::stop finds stopping_ set only after a fatal
\* end, when io has been stopped.)
Stop ==
  LET i == client.session
      halted == [client EXCEPT !.stopping = TRUE,
                               !.reconnect_timer = Cancel(@)]
  IN  /\ IsRunning
      /\ signal_wait
      /\ signal_wait' = FALSE
      /\ \/ /\ i = None
            /\ client' = halted
            /\ UNCHANGED sessions
         \/ /\ i # None
            /\ LET r == Finish(Running(sessions[i]), "stopped")
                   c == [CallBack(halted, r) EXCEPT !.session = None]
               IN  /\ sessions' = [sessions EXCEPT ![i] = Kept(i, r.s, c)]
                   /\ client' = c

\* io_context::run returns when nothing is outstanding.
RunReturns ==
  /\ IsRunning
  /\ ~signal_wait
  /\ client.reconnect_timer = {}
  /\ \A i \in Slots : ~Held(sessions[i])
  /\ client' = [client EXCEPT !.io = "returned"]
  /\ UNCHANGED <<sessions, signal_wait>>

\* main has returned.
Terminated == ~IsRunning /\ UNCHANGED vars

SessionStep(i) ==
  \/ DialCompletes(i) \/ ResolveHandler(i) \/ ConnectHandler(i)
  \/ HandshakeHandler(i) \/ DialFailedHandler(i)
  \/ ReadCompletes(i) \/ ReadHandler(i) \/ ReadFailedHandler(i)
  \/ WriteCompletes(i) \/ WriteDoneHandler(i) \/ WriteFailedHandler(i)
  \/ WriteTimerExpires(i) \/ WriteTimerHandler(i)
  \/ AuthTimerExpires(i) \/ AuthTimerHandler(i)

Next ==
  \/ ReconnectTimerExpires
  \/ ReconnectTimerHandler
  \/ \E i \in Slots : SessionStep(i)
  \/ Stop
  \/ RunReturns
  \/ Terminated

Spec == Init /\ [][Next]_vars

\* Every operation of a Session except reading and writing ends within a
\* timeout of the code or of the operating system, every armed timer expires,
\* and the event loop runs every handler that is queued.  The server owes
\* nothing, and nobody owes a signal.
Fairness ==
  /\ WF_vars(ReconnectTimerExpires)
  /\ WF_vars(ReconnectTimerHandler)
  /\ WF_vars(RunReturns)
  /\ \A i \in Slots :
       /\ WF_vars(DialCompletes(i))
       /\ WF_vars(ResolveHandler(i))
       /\ WF_vars(ConnectHandler(i))
       /\ WF_vars(HandshakeHandler(i))
       /\ WF_vars(DialFailedHandler(i))
       /\ WF_vars(ReadHandler(i))
       /\ WF_vars(ReadFailedHandler(i))
       /\ WF_vars(WriteDoneHandler(i))
       /\ WF_vars(WriteFailedHandler(i))
       /\ WF_vars(WriteTimerExpires(i))
       /\ WF_vars(WriteTimerHandler(i))
       /\ WF_vars(AuthTimerExpires(i))
       /\ WF_vars(AuthTimerHandler(i))

FairSpec == Spec /\ Fairness

-----------------------------------------------------------------------------
\* The Session the client points to is exactly the one that is open: finish
\* and handle_session_end never leave one without the other, in whatever
\* order errors, timers, server lines and stop arrive.
OneLiveSession ==
  IsRunning => \A i \in Slots : ~sessions[i].closed <=> i = client.session

\* While the client holds a Session, a handler that is outstanding holds it
\* too.  Impl::stop calls into the Session, whose finish calls back into
\* handle_session_end, which drops session_: without that second reference
\* the object would be destroyed under its own member function.
KeepAlive ==
  IsRunning /\ client.session # None =>
    LET s == sessions[client.session] IN s.dial # "none" \/ s.read # "none"

\* A client that has not been stopped has a Session or waits to make one,
\* never both and never neither.
NeverIdle ==
  IsRunning /\ ~client.stopping =>
    /\ (client.session = None) <=> (client.reconnect_timer # {})
    /\ client.reconnect_timer # {"armed", "fired"}

\* A Session that has finished the TLS handshake and is not ready is watched
\* by the authentication timer.
NotReadyIsWatched ==
  \A i \in Slots :
    LET s == sessions[i] IN
    IsRunning /\ ~s.closed /\ s.protocol.state \in {"authenticating",
                                                  "capability_negotiation"}
      => s.auth_timer # {}

\* No order of CAP ACK, 001 and other lines leaves a Session waiting when
\* everything it waits for has arrived.
NoMissedReady ==
  \A i \in Slots :
    LET p == sessions[i].protocol IN
    p.state \in {"authenticating", "capability_negotiation"} =>
      ~(p.authenticated /\ Caps \subseteq p.acknowledged)

\* No JOIN or chat message is queued or written before authentication and
\* every required capability.
JoinGated ==
  \A i \in Slots :
    LET s == sessions[i] IN
    s.paced > 0 \/ s.current = "paced" =>
      s.protocol.authenticated /\ Caps \subseteq s.protocol.acknowledged

\* The queue is bounded, and an open Session with something queued has a
\* write or a timer that will look at it again.
NoLostWakeup ==
  \A i \in Slots :
    LET s == sessions[i] IN
    /\ s.system + s.paced <= MaxQueue
    /\ IsRunning /\ ~s.closed /\ s.system + s.paced > 0 =>
         s.write # "none" \/ s.write_timer # {}

\* Once the client is stopping its exit status is settled: a failure, a
\* timeout or a fatal line that arrives late changes nothing, and a stopped
\* client makes no new Session.
StopIsFinal ==
  [][client.stopping =>
       /\ client'.stopping
       /\ client'.exit_code = client.exit_code
       /\ client'.session \in {client.session, None}]_vars

\* A finished Session has given up: it neither dials on nor holds a socket
\* nor waits for a login (docs/LEGACY_REVIEW.md:37, "Async cancelable I/O").
ClosedGivesUp ==
  \A i \in Slots :
    LET s == sessions[i] IN
    s.closed => /\ s.dial \notin {"connecting", "handshaking"}
                /\ ~s.socket
                /\ "armed" \notin s.auth_timer

\* A finished Session starts no read, no write and no wait for the limits,
\* whatever was already queued when it finished.
ClosedIsQuiet ==
  [][\A i \in Slots :
       sessions[i].closed /\ sessions'[i].closed =>
         /\ sessions'[i].read = "pending" => sessions[i].read = "pending"
         /\ sessions'[i].write = "pending" => sessions[i].write = "pending"
         /\ "armed" \in sessions'[i].write_timer =>
              "armed" \in sessions[i].write_timer]_vars

\* A signal ends the program, whatever it was doing.
StopEnds == client.stopping ~> client.io # "running"

\* Every Session becomes ready or ends, even if the server is silent.
LoginDecided ==
  \A i \in Slots :
    client.session = i ~> \/ client.session # i
                          \/ sessions[i].protocol.state = "ready"

\* A client that has lost its Session makes another one unless stopped.
Reconnects == client.session = None ~> client.session # None \/ client.stopping

-----------------------------------------------------------------------------
\* What the life cycle shows of the state of a client.
Phase ==
  CASE ~IsRunning -> "done"
    [] IsRunning /\ client.stopping -> "stopping"
    [] OTHER -> IF client.session = None THEN "waiting"
                ELSE IF sessions[client.session].protocol.state = "ready"
                     THEN "ready" ELSE "connecting"

Lifecycle == INSTANCE ClientLifecycle
               WITH phase <- Phase, exit_code <- client.exit_code

\* Whatever order completions, timers, lines and the signal come in, every
\* handler is one step of the documented life cycle or none: ready is reached
\* from a connection, is left by losing it, and only a fatal end makes the
\* exit status 1.
FollowsLifecycle == Lifecycle!Spec
=============================================================================
