------------------------------- MODULE Session -------------------------------
(***************************************************************************)
(* The Session class of src/twitch_irc_client.cpp: one connection from the *)
(* name lookup to finish.  Its members are a record and its methods are    *)
(* operators on it; TwitchIrcClient runs them as completion handlers.      *)
(*                                                                         *)
(* An operation that has completed waits until its handler runs; nothing   *)
(* can undo it any more.  finish and expires_at only cancel an operation   *)
(* or a wait that is still outstanding.                                    *)
(*                                                                         *)
(* The output queue is counted here and modelled in OutboundQueue.         *)
(***************************************************************************)
EXTENDS SessionProtocol

CONSTANT
  MaxQueue         \* max_outbound_queue (1000 in the code)

ASSUME SessionAssumption == MaxQueue \in Nat \ {0}

\* The handler of an operation that has completed is queued: resolved,
\* connected, shaken and failed for the three steps of dialling, data and
\* error for a read, done and error for a write.
Dial == {"none", "resolving", "resolved", "connecting", "connected",
         "handshaking", "shaken", "failed"}
ReadOp == {"none", "pending", "data", "error"}
WriteOp == {"none", "pending", "done", "error"}

\* A steady_timer with at most one wait and at most one queued handler.
Timer == SUBSET {"armed", "fired"}
Arm(timer) == timer \cup {"armed"}
Cancel(timer) == timer \ {"armed"}
Expire(timer) == (timer \ {"armed"}) \cup {"fired"}

SessionRecord ==
  [ closed      : BOOLEAN,
    protocol    : Protocol,
    system      : 0..MaxQueue,                  \* queued protocol lines
    paced       : 0..MaxQueue,                  \* queued JOINs and chat
    current     : {"none", "system", "paced"},  \* current_write_
    dial        : Dial,
    socket      : BOOLEAN,                      \* the TCP socket is open
    read        : ReadOp,
    write       : WriteOp,
    write_timer : Timer,
    auth_timer  : Timer ]

NewSession ==
  [ closed      |-> FALSE,
    protocol    |-> NewProtocol,
    system      |-> 0,
    paced       |-> 0,
    current     |-> "none",
    dial        |-> "none",
    socket      |-> FALSE,
    read        |-> "none",
    write       |-> "none",
    write_timer |-> {},
    auth_timer  |-> {} ]

\* An outstanding operation or wait whose handler holds the Session alive.
Held(s) ==
  \/ s.dial # "none" \/ s.read # "none" \/ s.write # "none"
  \/ s.write_timer # {} \/ s.auth_timer # {}

SessionEndReason == {"network_error", "reconnect_requested", "fatal", "stopped"}

\* What a handler does: the session it leaves, and which of the callbacks
\* ready_handler_ and end_handler_ it has called, in that order.
Result == [s : SessionRecord, ready : BOOLEAN, end : {"none"} \cup SessionEndReason]

Running(s) == [s |-> s, ready |-> FALSE, end |-> "none"]

-----------------------------------------------------------------------------
\* What closing does to the operations: the socket aborts what still uses it
\* (asio fails a connect whose socket is closed even when it has succeeded);
\* a name lookup under way cannot be aborted.
Aborted(s) ==
  [s EXCEPT !.closed = TRUE,
            !.socket = FALSE,
            !.dial   = IF @ \in {"connecting", "connected", "handshaking"}
                       THEN "failed" ELSE @,
            !.read   = IF @ = "pending" THEN "error" ELSE @,
            !.write  = IF @ = "pending" THEN "error" ELSE @,
            !.write_timer = Cancel(@),
            !.auth_timer  = Cancel(@)]

\* Mutant: a session may end more than once.
Finish_Again(r, reason) == [r EXCEPT !.s = Aborted(@), !.end = reason]

Finish(r, reason) ==
  IF r.s.closed THEN r ELSE [r EXCEPT !.s = Aborted(@), !.end = reason]

\* What the limits and delays say of the queued JOINs and chat messages when
\* schedule_write looks: none may go, one may go but after every protocol
\* line, or one may go first.
Pacing == {"held", "last", "first"}

StartWrite(s, kind) ==
  [s EXCEPT !.current = kind, !.write = "pending",
            !.system = IF kind = "system" THEN @ - 1 ELSE @,
            !.paced  = IF kind = "paced"  THEN @ - 1 ELSE @]

\* schedule_write selects a JOIN or chat message.
SelectsPaced(s, pacing) ==
  s.paced > 0 /\ (pacing = "first" \/ (pacing = "last" /\ s.system = 0))

\* Mutant: nobody waits for a message that may not go yet.
ScheduleWrite_NoTimer(s, pacing) ==
  CASE s.closed \/ s.current # "none" \/ s.system + s.paced = 0 -> s
    [] OTHER -> IF SelectsPaced(s, pacing) THEN StartWrite(s, "paced")
                ELSE IF s.system > 0 THEN StartWrite(s, "system") ELSE s

\* schedule_write: a protocol line is always due at once.
ScheduleWrite(s, pacing) ==
  CASE s.closed \/ s.current # "none" \/ s.system + s.paced = 0 -> s
    [] OTHER -> IF SelectsPaced(s, pacing) THEN StartWrite(s, "paced")
                ELSE IF s.system > 0 THEN StartWrite(s, "system")
                ELSE [s EXCEPT !.write_timer = Arm(@)]

\* The vector after push_back.
Queued(s, kind) ==
  IF kind = "system" THEN [s EXCEPT !.system = @ + 1]
                     ELSE [s EXCEPT !.paced = @ + 1]

\* Mutant: the queue is not bounded.
Enqueue_Unbounded(r, kind, pacing) ==
  IF r.s.closed THEN r
  ELSE [r EXCEPT !.s = ScheduleWrite(Queued(@, kind), pacing)]

\* enqueue; kind is "system", "join" or "chat".
Enqueue(r, kind, pacing) ==
  CASE r.s.closed -> r
    [] ~r.s.closed /\ r.s.system + r.s.paced >= MaxQueue ->
         IF kind = "chat" THEN r ELSE Finish(r, "network_error")
    [] OTHER -> [r EXCEPT !.s = ScheduleWrite(Queued(@, kind), pacing)]

\* apply_action.
ApplyAction(r, action, pacing) ==
  CASE action = "send"      -> Enqueue(r, "system", pacing)
    [] action = "join"      -> Enqueue(r, "join", pacing)
    [] action = "ready"     -> [r EXCEPT !.s.auth_timer = Cancel(@),
                                         !.ready = TRUE]
    [] action = "reconnect" -> Finish(r, "reconnect_requested")
    [] action = "fatal"     -> Finish(r, "fatal")

\* Several messages of one kind, one after the other.
EnqueueAll(r, kind, times, pacing) ==
  LET after[n \in 0..times] ==
        IF n = 0 THEN r ELSE Enqueue(after[n - 1], kind, pacing)
  IN  after[times]

\* The actions of one line; the loop ends after the action that leaves the
\* session closed.
ApplyActions(r, actions, pacing) ==
  LET after[n \in 0..Len(actions)] ==
        IF n = 0 THEN r
        ELSE LET before == after[n - 1] IN
             IF n > 1 /\ before.s.closed THEN before
             ELSE ApplyAction(before, actions[n], pacing)
  IN  after[Len(actions)]

\* handle_line: the protocol first, then, in a ready session, the automated
\* responses.
HandleLine(r, m, pacing) ==
  LET outcome == Handle(r.s.protocol, m)
      applied == ApplyActions([r EXCEPT !.s.protocol = outcome.protocol],
                              outcome.actions, pacing)
  IN  IF m.command = "CHAT" /\ applied.s.protocol.state = "ready"
      THEN EnqueueAll(applied, "chat", m.responses, pacing)
      ELSE applied

\* The lines of one read; the loop ends after the line that leaves the session
\* closed.
HandleLines(r, lines, pacing) ==
  LET after[n \in 0..Len(lines)] ==
        IF n = 0 THEN r
        ELSE LET before == after[n - 1] IN
             IF n > 1 /\ before.s.closed THEN before
             ELSE HandleLine(before, lines[n], pacing)
  IN  after[Len(lines)]

\* Mutant: a ready session does not read on.
ReadMore_Once(s) ==
  IF s.closed \/ s.protocol.state = "ready" THEN s
  ELSE [s EXCEPT !.read = "pending"]

\* Mutant: a finished session reads on.
ReadMore_Closed(s) == [s EXCEPT !.read = "pending"]

\* read.
ReadMore(s) == IF s.closed THEN s ELSE [s EXCEPT !.read = "pending"]

\* Mutant: nobody watches the login.
StartAuthTimeout_Never(s) == s

\* start_auth_timeout; it does not look at closed_.
StartAuthTimeout(s) == [s EXCEPT !.auth_timer = Arm(@)]

-----------------------------------------------------------------------------
\* The completion handlers; the completed operation is no longer outstanding.
Dialled(s) == Running([s EXCEPT !.dial = "none"])

\* connect, the handler of the lookup, opens a socket; it does not look at
\* closed_.
Connect(s) == Running([s EXCEPT !.dial = "connecting", !.socket = TRUE])

\* handshake; setting the server name may fail.
Handshake(s) ==
  { Running([s EXCEPT !.dial = "handshaking"]),
    Finish(Dialled(s), "network_error") }

\* After the handshake: PASS, NICK and CAP REQ (begin only asks for lines to be
\* sent, and the loop has no early end), the authentication timer and the first
\* read.
Login(s) ==
  LET begun == Begin(s.protocol)
      sent  == EnqueueAll([Dialled(s) EXCEPT !.s.protocol = begun.protocol],
                          "system", Len(begun.actions), "held")
  IN  [sent EXCEPT !.s = ReadMore(StartAuthTimeout(@))]

\* A read with data: the lines it completes, then the next read.  A line that
\* is too long throws, and so does a PING whose answer is too long; both end
\* the session.
Received(s, lines, pacing) ==
  LET handled == HandleLines(Running([s EXCEPT !.read = "none"]), lines, pacing)
  IN  { [handled EXCEPT !.s = ReadMore(@)], Finish(handled, "network_error") }

\* A write that is done; record is modelled in OutboundQueue.
Written(s, pacing) ==
  Running(ScheduleWrite([s EXCEPT !.write = "none", !.current = "none"],
                        pacing))

\* The wait for the limits is over.
WriteTimeout(s, pacing) ==
  Running(ScheduleWrite([s EXCEPT !.write_timer = @ \ {"fired"}], pacing))

\* The time for the login is over.
AuthTimeout(s) ==
  LET r == Running([s EXCEPT !.auth_timer = @ \ {"fired"}])
  IN  IF s.protocol.state = "ready" THEN r ELSE Finish(r, "fatal")
=============================================================================
