---------------------------- MODULE OutboundQueue ----------------------------
(***************************************************************************)
(* The single-writer output queue of a Session (enqueue, schedule_write    *)
(* and the two completion handlers of src/twitch_irc_client.cpp), with the *)
(* rate limiter of RateLimiter that all sessions of a client share.        *)
(*                                                                         *)
(* All handlers run on one io_context, so an action is one handler run to  *)
(* its end, or one call of enqueue.  Between them the clock advances, a    *)
(* write completes or fails, a timer expires, and the session may end and  *)
(* be replaced: the queue is then new, the limiter is not.                 *)
(*                                                                         *)
(* outbound_ is a set: messages carry unique sequence numbers, the vector  *)
(* is in sequence order and its order is used for nothing else.  The bytes *)
(* of a message are left out.                                              *)
(***************************************************************************)
EXTENDS RateLimiter

CONSTANTS
  KindsInUse,      \* the kinds of message the environment enqueues
  Delays,          \* delaySeconds of the configured responses
  QueueMax,        \* max_outbound_queue (1000 in the code)
  MaxMessages,     \* bound: enqueue calls per session
  MaxSessions,     \* bound: sessions one after the other
  MaxTime,         \* bound: last instant of the clock
  MaxArrival,      \* bound: last instant at which a message is enqueued
  MaxWrite,        \* bound: longest duration of one write
  MaxLag           \* bound: longest delay of a timer handler

ASSUME QueueAssumption ==
  /\ KindsInUse \subseteq Kinds
  /\ Delays \subseteq Nat
  /\ QueueMax \in Nat \ {0}
  /\ {MaxMessages, MaxSessions, MaxTime, MaxArrival, MaxWrite,
      MaxLag} \subseteq Nat

VARIABLES
  now,             \* std::chrono::steady_clock::now()
  limiter,         \* Impl::limiter_
  session,         \* number of the current Session object
  closed,          \* closed_
  outbound,        \* outbound_
  next_sequence,   \* next_sequence_
  current_write,   \* current_write_ (None exactly when ~write_in_progress_)
  write_op,        \* an async_write of this session is outstanding
  write_timer,     \* expiry of write_timer_, None when nobody waits on it
  timer_fired,     \* its handler is queued with success and cannot be undone
  chats_sent,      \* history: the chat messages written, over all sessions
  joins_sent       \* history: the JOINs written, over all sessions

sessionVars == <<session, closed, outbound, next_sequence, current_write,
                 write_op, write_timer, timer_fired>>
history == <<chats_sent, joins_sent>>
vars == <<now, limiter, sessionVars, history>>

Message ==
  {m \in [ kind     : Kinds,
           channel  : Channels \cup {None},
           due      : Nat,
           sequence : Nat ] : m.kind = "chat" => m.channel \in Channels}

\* `start' is the instant async_write was called; the code does not keep it.
Write ==
  {w \in [ kind     : Kinds,
           channel  : Channels \cup {None},
           due      : Nat,
           sequence : Nat,
           start    : Nat ] : w.kind = "chat" => w.channel \in Channels}

ASSUME NoneAssumption == None \notin Write

Sent == [channel : Channels \cup {None}, start : Nat, done : Nat]

\* Types; and a queued message has a sequence number already handed out, so
\* the next message differs from all of them and outbound_ may be a set.
TypeOK ==
  /\ now \in Nat
  /\ limiter \in Limiter
  /\ session \in Nat
  /\ closed \in BOOLEAN
  /\ outbound \subseteq Message
  /\ next_sequence \in Nat
  /\ \A m \in outbound : m.sequence < next_sequence
  /\ current_write \in Write \cup {None}
  /\ write_op \in BOOLEAN
  /\ write_timer \in Nat \cup {None}
  /\ timer_fired \in BOOLEAN
  /\ chats_sent \in Seq(Sent)
  /\ joins_sent \in Seq(Sent)

\* A new Session of a new client.
Init ==
  /\ now = 0
  /\ limiter = NewLimiter
  /\ session = 1
  /\ closed = FALSE
  /\ outbound = {}
  /\ next_sequence = 0
  /\ current_write = None
  /\ write_op = FALSE
  /\ write_timer = None
  /\ timer_fired = FALSE
  /\ chats_sent = << >>
  /\ joins_sent = << >>

-----------------------------------------------------------------------------
\* The earliest instant a queued message may be written, as schedule_write
\* computes it.
AllowedAt(m, lim) ==
  Later(m.due, NextAllowed(lim, m.kind, m.channel, now))

\* Mutant: the tie-break by sequence number is turned round.
Precedes_NewestFirst(m, n, lim) ==
  \/ AllowedAt(m, lim) < AllowedAt(n, lim)
  \/ AllowedAt(m, lim) = AllowedAt(n, lim) /\ m.sequence >= n.sequence

\* The scan of schedule_write keeps m in preference to n.
Precedes(m, n, lim) ==
  \/ AllowedAt(m, lim) < AllowedAt(n, lim)
  \/ AllowedAt(m, lim) = AllowedAt(n, lim) /\ m.sequence <= n.sequence

\* The limiter after the scan has called next_allowed for every message.
PruneForScan(lim, queue) ==
  LET asks(kind) == \E m \in queue : m.kind = kind
      joined == IF asks("join") THEN PruneBucket(lim, "join", now) ELSE lim
  IN  IF asks("chat") THEN PruneBucket(joined, "chat", now) ELSE joined

\* async_write of m.
StartWrite(m, queue) ==
  /\ current_write' = [kind |-> m.kind, channel |-> m.channel, due |-> m.due,
                       sequence |-> m.sequence, start |-> now]
  /\ write_op' = TRUE
  /\ outbound' = queue \ {m}
  /\ UNCHANGED write_timer

\* Wait for the selected message; a wait already pending is cancelled.
ArmWriteTimer(expiry, queue) ==
  /\ write_timer' = expiry
  /\ outbound' = queue
  /\ current_write' = None
  /\ write_op' = FALSE

\* Mutant: nobody waits for a message that is not due yet.
ScheduleWrite_NoTimer(queue, lim) ==
  IF closed \/ queue = {}
  THEN /\ outbound' = queue
       /\ limiter' = lim
       /\ current_write' = None
       /\ write_op' = FALSE
       /\ UNCHANGED write_timer
  ELSE \E m \in queue :
         /\ \A n \in queue : Precedes(m, n, lim)
         /\ limiter' = PruneForScan(lim, queue)
         /\ IF AllowedAt(m, lim) > now
            THEN ArmWriteTimer(None, queue)
            ELSE StartWrite(m, queue)

\* schedule_write when no write is in progress, on the given queue and
\* limiter.
ScheduleWrite(queue, lim) ==
  IF closed \/ queue = {}
  THEN /\ outbound' = queue
       /\ limiter' = lim
       /\ current_write' = None
       /\ write_op' = FALSE
       /\ UNCHANGED write_timer
  ELSE \E m \in queue :
         /\ \A n \in queue : Precedes(m, n, lim)
         /\ limiter' = PruneForScan(lim, queue)
         /\ IF AllowedAt(m, lim) > now
            THEN ArmWriteTimer(AllowedAt(m, lim), queue)
            ELSE StartWrite(m, queue)

\* finish: the timer wait is cancelled unless its handler is already queued;
\* the outstanding write completes or fails later, in its own handler.
Finish ==
  /\ closed' = TRUE
  /\ write_timer' = None
  /\ UNCHANGED <<outbound, current_write, write_op, limiter>>

-----------------------------------------------------------------------------
\* What callers pass to enqueue: protocol lines and JOINs are due at once,
\* chat responses after their delay.
Requests ==
  (KindsInUse \cap {"system"}) \X {None} \X {0}
    \cup (KindsInUse \cap {"join"}) \X Channels \X {0}
    \cup (KindsInUse \cap {"chat"}) \X Channels \X Delays

\* A protocol action or an automated response of an open session.  When the
\* queue is full a chat message is dropped and anything else ends the session.
Enqueue(kind, channel, delay) ==
  LET m == [kind |-> kind, channel |-> channel, due |-> now + delay,
            sequence |-> next_sequence]
  IN  /\ ~closed
      /\ next_sequence < MaxMessages
      /\ now <= MaxArrival
      /\ next_sequence' = next_sequence + 1
      /\ \/ /\ Cardinality(outbound) >= QueueMax
            /\ kind = "chat"
            /\ UNCHANGED <<closed, outbound, current_write, write_op,
                           write_timer, limiter>>
         \/ /\ Cardinality(outbound) >= QueueMax
            /\ kind # "chat"
            /\ Finish
         \/ /\ Cardinality(outbound) < QueueMax
            /\ current_write # None
            /\ outbound' = outbound \cup {m}
            /\ UNCHANGED <<closed, current_write, write_op, write_timer,
                           limiter>>
         \/ /\ Cardinality(outbound) < QueueMax
            /\ current_write = None
            /\ ScheduleWrite(outbound \cup {m}, limiter)
            /\ UNCHANGED closed
      /\ UNCHANGED <<now, session, timer_fired, history>>

\* The wait on write_timer_ ends and its handler is queued.
TimerExpires ==
  /\ write_timer # None
  /\ write_timer <= now
  /\ ~timer_fired
  /\ write_timer' = None
  /\ timer_fired' = TRUE
  /\ UNCHANGED <<now, limiter, session, closed, outbound, next_sequence,
                 current_write, write_op, history>>

\* The handler of write_timer_.
TimerHandler ==
  /\ timer_fired
  /\ timer_fired' = FALSE
  /\ IF current_write # None
     THEN UNCHANGED <<outbound, current_write, write_op, write_timer, limiter>>
     ELSE ScheduleWrite(outbound, limiter)
  /\ UNCHANGED <<now, session, closed, next_sequence, history>>

\* The history after the current write has completed.
Remember ==
  LET sent == [channel |-> current_write.channel,
               start   |-> current_write.start,
               done    |-> now]
  IN  /\ chats_sent' = IF current_write.kind = "chat"
                       THEN Append(chats_sent, sent) ELSE chats_sent
      /\ joins_sent' = IF current_write.kind = "join"
                       THEN Append(joins_sent, sent) ELSE joins_sent

\* Mutant: the writer stops after a completed write.
WriteDone_NoNext ==
  /\ write_op
  /\ Remember
  /\ limiter' = Record(limiter, current_write.kind, current_write.channel, now)
  /\ current_write' = None
  /\ write_op' = FALSE
  /\ UNCHANGED <<now, session, closed, next_sequence, timer_fired, outbound,
                 write_timer>>

\* async_write completed: record the instant, then look for the next message.
\* The handler also runs, and also records, when the session has been closed
\* after the completion was queued.
WriteDone ==
  /\ write_op
  /\ Remember
  /\ ScheduleWrite(outbound, Record(limiter, current_write.kind,
                                    current_write.channel, now))
  /\ UNCHANGED <<now, session, closed, next_sequence, timer_fired>>

\* async_write failed or was cancelled by finish: nothing is recorded, and
\* the session ends unless it has ended already.
WriteFailed ==
  /\ write_op
  /\ write_op' = FALSE
  /\ closed' = TRUE
  /\ write_timer' = None
  /\ UNCHANGED <<now, limiter, session, outbound, next_sequence,
                 current_write, timer_fired, history>>

\* The session ends for any other reason (read error, RECONNECT, stop, ...).
SessionEnds ==
  /\ ~closed
  /\ Finish
  /\ UNCHANGED <<now, session, next_sequence, timer_fired, history>>

\* Impl::connect makes the next Session.  Its reconnect timer runs for a
\* second at least; the handlers cancelled by finish have run by then.
NewSession ==
  /\ closed
  /\ ~write_op
  /\ ~timer_fired
  /\ session < MaxSessions
  /\ session' = session + 1
  /\ closed' = FALSE
  /\ outbound' = {}
  /\ next_sequence' = 0
  /\ current_write' = None
  /\ UNCHANGED <<now, limiter, write_op, write_timer, timer_fired, history>>

\* The clock advances; writes and timer handlers are late by at most their
\* bounds.
Tick ==
  /\ now < MaxTime
  /\ write_op => now < current_write.start + MaxWrite
  /\ write_timer # None => now < write_timer + MaxLag
  /\ ~timer_fired
  /\ now' = now + 1
  /\ UNCHANGED <<limiter, sessionVars, history>>

Next ==
  \/ \E r \in Requests : Enqueue(r[1], r[2], r[3])
  \/ TimerExpires
  \/ TimerHandler
  \/ WriteDone
  \/ WriteFailed
  \/ SessionEnds
  \/ NewSession
  \/ Tick

Spec == Init /\ [][Next]_vars

\* The event loop runs what is ready and the operating system ends every
\* write one way or the other; nobody is obliged to enqueue or to hang up.
Fairness ==
  /\ WF_vars(TimerExpires)
  /\ WF_vars(TimerHandler)
  /\ WF_vars(WriteDone \/ WriteFailed)
  /\ WF_vars(Tick)

FairSpec == Spec /\ Fairness

-----------------------------------------------------------------------------
\* Write i + limit of a history is not even begun before `window' has passed
\* since write i was complete.
Spaced(hist, limit, window) ==
  \A i, j \in DOMAIN hist :
    j >= i + limit => hist[j].start >= hist[i].done + window

\* At most ChatLimit chat messages per ChatWindow, over all sessions: message
\* i + ChatLimit is not even begun before ChatWindow has passed since message
\* i was complete (src/rate_limiter.cpp and its use in schedule_write).
ChatPaced == Spaced(chats_sent, ChatLimit, ChatWindow)

\* The same for JOINs, which survive a reconnect with the limiter.
JoinPaced == Spaced(joins_sent, JoinLimit, JoinWindow)

\* Two chat messages to one channel are at least ChannelGap apart.
ChannelPaced ==
  \A i, j \in DOMAIN chats_sent :
    i < j /\ chats_sent[i].channel = chats_sent[j].channel =>
      chats_sent[j].start >= chats_sent[i].done + ChannelGap

\* The writer never sleeps on a message it could send: if an open session
\* writes nothing and some queued message is allowed now, the wait on the
\* timer has ended or ends now.
NoOversleep ==
  ~closed /\ current_write = None =>
    \A m \in outbound :
      AllowedAt(m, limiter) <= now =>
        timer_fired \/ (write_timer # None /\ write_timer <= now)

\* A message may overtake an older one only where the limits ask for it: a
\* protocol line is overtaken by nothing, a JOIN by no JOIN, and a chat
\* message by no message to its channel that was due later or together.
NoOvertaking ==
  current_write # None =>
    \A m \in outbound :
      m.sequence < current_write.sequence =>
        /\ m.kind # "system"
        /\ ~(m.kind = "join" /\ current_write.kind = "join")
        /\ ~(/\ m.kind = "chat" /\ current_write.kind = "chat"
             /\ m.channel = current_write.channel
             /\ m.due <= current_write.due)

\* In every reachable state next_allowed is exact for every kind and channel
\* (see ExactFor): pruning loses nothing and never delays a write.
NextAllowedExact ==
  \A kind \in {"join", "chat"}, c \in Channels :
    ExactFor(limiter, kind, c, now)

\* No starvation: a queued message is eventually taken from the queue or its
\* session ends, whatever else is enqueued meanwhile.
EveryMessageLeaves ==
  \A n \in 0..(MaxMessages - 1) :
    (\E m \in outbound : m.sequence = n)
      ~> (closed \/ ~\E m \in outbound : m.sequence = n)

-----------------------------------------------------------------------------
\* The strengthening that makes the three pacing properties inductive.

\* A deque of the limiter holds the last completions of a history; those it
\* has lost lie a window or more in the past.
Tracks(entries, hist, window, t) ==
  LET lost == Len(hist) - Len(entries) IN
  /\ lost >= 0
  /\ \A i \in DOMAIN entries : entries[i] = hist[lost + i].done
  /\ \A i \in 1..lost : hist[i].done + window <= t

\* A write may be appended to the history if it starts at t.
Clear(hist, limit, window, t) ==
  \A i \in DOMAIN hist :
    i + limit <= Len(hist) + 1 => hist[i].done + window <= t

\* The channel has been quiet for ChannelGap at t.
Quiet(hist, channel, t) ==
  \A i \in DOMAIN hist :
    hist[i].channel = channel => hist[i].done + ChannelGap <= t

\* channel_chat_ holds the last completion of every channel in the history.
Heard(lim, hist, t) ==
  \A i \in DOMAIN hist :
    /\ hist[i].done <= t
    /\ hist[i].channel \in Channels
    /\ lim.channel_chat[hist[i].channel] # None
    /\ hist[i].done <= lim.channel_chat[hist[i].channel]

LimiterTracks(lim, chats, joins, t) ==
  /\ Tracks(lim.global_chat, chats, ChatWindow, t)
  /\ Tracks(lim.joins, joins, JoinWindow, t)
  /\ Heard(lim, chats, t)

\* The limits allow a message of this kind to be written from instant t on.
MayStart(kind, channel, chats, joins, t) ==
  /\ kind = "chat" => /\ Clear(chats, ChatLimit, ChatWindow, t)
                      /\ Quiet(chats, channel, t)
  /\ kind = "join" => Clear(joins, JoinLimit, JoinWindow, t)

\* The limiter knows what the history says, over all sessions, and the write
\* in flight was begun when the limits allowed it.
PacingInv ==
  /\ LimiterTracks(limiter, chats_sent, joins_sent, now)
  /\ write_op =>
       /\ current_write # None
       /\ MayStart(current_write.kind, current_write.channel,
                   chats_sent, joins_sent, current_write.start)
=============================================================================
