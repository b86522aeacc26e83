------------------------ MODULE TwitchIrcClientProofs ------------------------
(***************************************************************************)
(* Safety of the client, for every number of Session objects, channels,    *)
(* capabilities and queued messages and every server.  The first part has  *)
(* a lemma for every method of Session: what a completion handler leaves   *)
(* of a session, whatever lines, limits and errors it meets.  The second   *)
(* part shows that this keeps the client and its sessions in step.         *)
(***************************************************************************)
EXTENDS TwitchIrcClient, Foundations

\* The server takes no capability back.
Lasting == \A m \in ServerMessages : m.command = "ACK" => m.drop = {}

Complete(p) == p.authenticated /\ Caps \subseteq p.acknowledged

LoggingIn == {"authenticating", "capability_negotiation"}

\* Nothing paced is queued, written or due to be queued too early.
Gated(s) ==
  s.protocol.state = "ready" \/ s.paced > 0 \/ s.current = "paced" =>
    Complete(s.protocol)

\* The queue fits, a message is current exactly while it is written, and
\* nothing waits for what has arrived.
Sound(s) ==
  /\ s \in SessionRecord
  /\ s.system + s.paced <= MaxQueue
  /\ ~s.closed => (s.current # "none" <=> s.write # "none")
  /\ s.protocol.state \in LoggingIn \cup {"disconnected"} =>
       ~Complete(s.protocol)
  /\ Lasting => Gated(s)

\* An open session that has something queued will look at it again.
Waking(s) ==
  ~s.closed /\ s.system + s.paced > 0 => s.write # "none" \/ s.write_timer # {}

\* If capabilities last, a login under way is watched.
Watched(s) ==
  Lasting /\ ~s.closed /\ s.protocol.state \in LoggingIn => s.auth_timer # {}

\* What a handler may leave: a session whose queue and protocol are in order,
\* ended if it is closed, and not by Impl::stop.
GoodResult ==
  {r \in Result : /\ Sound(r.s)
                  /\ Waking(r.s)
                  /\ ~r.s.closed => r.end = "none"
                  /\ r.end # "stopped"}

\* What the operations of a handler may make of r: an open session stays as it
\* is with its dialling and reading, or ends and says so; a closed one stays
\* closed, starts nothing and ends no second time.
Follows(r, x) ==
  /\ x.s.closed => x.end # "none" \/ (r.s.closed /\ r.end = "none")
  /\ ~x.s.closed => x.s.dial = r.s.dial /\ x.s.read = r.s.read /\ ~r.s.closed
  /\ r.s.closed =>
       /\ x.end = r.end
       /\ x.s.read = r.s.read
       /\ x.s.write = r.s.write
       /\ x.s.write_timer = r.s.write_timer
  /\ Watched(r.s) => Watched(x.s)

\* A session that reads is logging in or ready.
Online(s) == ~s.closed => s.protocol.state \in LoggingIn \cup {"ready"}

\* What lines may make of the protocol: if capabilities last, a ready session
\* stays ready as long as it is open.
Advances(r, x) ==
  Lasting /\ r.s.protocol.state = "ready" /\ ~x.s.closed =>
    x.s.protocol.state = "ready"

\* An open session dials or reads.
Alive(s) == ~s.closed => s.dial # "none" \/ s.read # "none"

\* An open session has not been told to end, and reads after the greeting.
Logged(s) ==
  ~s.closed => /\ s.protocol.state \notin {"failed", "reconnect_requested"}
               /\ s.read # "none" => s.protocol.state # "disconnected"

\* What holds of a session between two handlers.
Whole(s) == Sound(s) /\ Waking(s) /\ Watched(s) /\ Alive(s) /\ Logged(s)

\* A closed session stays closed and starts nothing.
Quiet(s, x) ==
  s.closed => /\ x.closed
              /\ x.read = "pending" => s.read = "pending"
              /\ x.write = "pending" => s.write = "pending"
              /\ "armed" \in x.write_timer => "armed" \in s.write_timer

\* Only operations and timers have changed.
Keeps(s, x) ==
  /\ x \in SessionRecord
  /\ x.closed = s.closed
  /\ x.protocol = s.protocol
  /\ x.system = s.system
  /\ x.paced = s.paced
  /\ x.current = s.current
  /\ Quiet(s, x)

\* What a handler owes to the client: it calls the end handler exactly when it
\* has closed the session.
Handled(s, r) ==
  /\ r \in Result
  /\ Whole(r.s)
  /\ r.end # "none" <=> r.s.closed /\ ~s.closed
  /\ Quiet(s, r.s)
  /\ Advances(Running(s), r)

-----------------------------------------------------------------------------
\* Nothing follows itself.
LEMMA FollowsSelf ==
  ASSUME NEW r \in GoodResult
  PROVE  Follows(r, r)
PROOF
  BY DEF Follows, GoodResult

\* Operations follow one another.
LEMMA FollowsOn ==
  ASSUME NEW r \in GoodResult, NEW x \in GoodResult, NEW y \in GoodResult,
         Follows(r, x), Follows(x, y)
  PROVE  Follows(r, y)
PROOF
  BY DEF Follows, GoodResult

\* finish leaves the queue alone and cancels what it can.
LEMMA AbortedType ==
  ASSUME NEW s \in SessionRecord
  PROVE  /\ Aborted(s) \in SessionRecord
         /\ Aborted(s).closed
         /\ Aborted(s).protocol = s.protocol
         /\ Aborted(s).system = s.system
         /\ Aborted(s).paced = s.paced
         /\ Aborted(s).current = s.current
PROOF
  <1> DEFINE d == IF s.dial \in {"connecting", "connected", "handshaking"}
                  THEN "failed" ELSE s.dial
             e == IF s.read = "pending" THEN "error" ELSE s.read
             w == IF s.write = "pending" THEN "error" ELSE s.write
             t == Cancel(s.write_timer)
             a == Cancel(s.auth_timer)
  <1>1. t \in Timer /\ a \in Timer
    BY DEF SessionRecord, Timer, Cancel
  <1>2. d \in Dial /\ e \in ReadOp /\ w \in WriteOp
    BY DEF SessionRecord, Dial, ReadOp, WriteOp
  <1>3. Aborted(s) = [s EXCEPT !.closed = TRUE, !.socket = FALSE, !.dial = d,
                               !.read = e, !.write = w, !.write_timer = t,
                               !.auth_timer = a]
    BY DEF Aborted
  <1> HIDE DEF d, e, w, t, a
  <1>4. Aborted(s) \in SessionRecord
    <2>1. PICK x : x = [s EXCEPT !.closed = TRUE, !.socket = FALSE, !.dial = d,
                                 !.read = e]
      OBVIOUS
    <2>2. x \in SessionRecord
      BY <1>2, <2>1 DEF SessionRecord
    <2>3. Aborted(s) = [x EXCEPT !.write = w, !.write_timer = t,
                                 !.auth_timer = a]
      BY <1>3, <2>1 DEF SessionRecord
    <2> QED
      BY <1>1, <1>2, <2>2, <2>3 DEF SessionRecord
  <1>5. /\ Aborted(s).closed
        /\ Aborted(s).protocol = s.protocol
        /\ Aborted(s).system = s.system
        /\ Aborted(s).paced = s.paced
        /\ Aborted(s).current = s.current
    BY <1>3 DEF SessionRecord
  <1> QED
    BY <1>4, <1>5

\* finish ends an open session and does nothing to a closed one.
LEMMA FinishGood ==
  ASSUME NEW r \in GoodResult, NEW reason \in SessionEndReason \ {"stopped"}
  PROVE  /\ Finish(r, reason) \in GoodResult
         /\ Finish(r, reason).s.closed
         /\ Finish(r, reason).s.protocol = r.s.protocol
         /\ Follows(r, Finish(r, reason))
PROOF
  <1>1. CASE r.s.closed
    BY <1>1, FollowsSelf DEF Finish
  <1>2. CASE ~r.s.closed
    <2> DEFINE x == Finish(r, reason)
    <2>1. r \in Result /\ r.s \in SessionRecord /\ Sound(r.s)
      BY DEF GoodResult, Sound
    <2>2. x = [s |-> Aborted(r.s), ready |-> r.ready, end |-> reason]
      BY <1>2, <2>1 DEF Finish, Result
    <2>3. x \in Result
      BY <2>1, <2>2, AbortedType DEF Result
    <2>4. Sound(Aborted(r.s))
      BY <2>1, AbortedType DEF Sound, Gated
    <2>5. Aborted(r.s).closed /\ Aborted(r.s).protocol = r.s.protocol
      BY <2>1, AbortedType
    <2>6. x.s = Aborted(r.s) /\ x.end = reason /\ reason # "none"
      BY <2>2 DEF SessionEndReason
    <2> HIDE DEF x
    <2>7. x \in GoodResult
      BY <2>3, <2>4, <2>5, <2>6 DEF GoodResult, Waking
    <2>8. Follows(r, x)
      BY <1>2, <2>5, <2>6 DEF Follows, Watched
    <2> QED
      BY <2>5, <2>6, <2>7, <2>8 DEF x
  <1> QED
    BY <1>1, <1>2

-----------------------------------------------------------------------------
\* schedule_write takes a message from the queue and writes it, or waits, and
\* so sees to it that somebody looks at the queue again.
LEMMA ScheduleWriteSound ==
  ASSUME NEW s, Sound(s), NEW pacing \in Pacing
  PROVE  LET x == ScheduleWrite(s, pacing) IN
         /\ Sound(x)
         /\ Waking(x)
         /\ x.closed = s.closed
         /\ x.protocol = s.protocol
         /\ x.dial = s.dial
         /\ x.read = s.read
         /\ x.auth_timer = s.auth_timer
         /\ s.closed => x = s
PROOF
  <1> DEFINE x == ScheduleWrite(s, pacing)
  <1>1. s \in SessionRecord /\ s.system \in Nat /\ s.paced \in Nat
    BY SessionAssumption DEF Sound, SessionRecord
  <1>2. CASE s.closed \/ s.current # "none" \/ s.system + s.paced = 0
    <2>1. x = s
      BY <1>2 DEF ScheduleWrite
    <2> QED
      BY <1>1, <1>2, <2>1 DEF Sound, Waking
  <1>3. CASE ~(s.closed \/ s.current # "none" \/ s.system + s.paced = 0)
    <2>1. CASE SelectsPaced(s, pacing)
      <3> DEFINE n == s.paced - 1
                 c == "paced"
                 w == "pending"
      <3>1. x = [s EXCEPT !.current = c, !.write = w, !.paced = n]
        BY <1>1, <1>3, <2>1 DEF ScheduleWrite, StartWrite, SessionRecord
      <3>2. s.paced > 0
        BY <2>1 DEF SelectsPaced
      <3>3. n \in 0..MaxQueue /\ w \in WriteOp /\ c \in {"none", "system", "paced"}
            /\ w # "none" /\ c # "none" /\ n <= s.paced
        BY <1>1, <3>2, SessionAssumption DEF SessionRecord, WriteOp
      <3> HIDE DEF x, n, c, w
      <3>4. x \in SessionRecord
        BY <1>1, <3>1, <3>3 DEF SessionRecord
      <3>5. /\ x.current = c /\ x.write = w
            /\ x.paced = n /\ x.system = s.system
            /\ x.closed = s.closed /\ x.protocol = s.protocol
            /\ x.dial = s.dial /\ x.read = s.read
            /\ x.auth_timer = s.auth_timer
        BY <1>1, <3>1 DEF SessionRecord
      <3>6. x.system + x.paced <= MaxQueue
        BY <1>1, <3>3, <3>5, SessionAssumption DEF Sound
      <3>7. Lasting => Complete(s.protocol)
        BY <3>2 DEF Sound, Gated
      <3>8. Sound(x)
        BY <3>3, <3>4, <3>5, <3>6, <3>7, Zenon DEF Sound, Gated
      <3>9. Waking(x)
        BY <3>3, <3>5, Zenon DEF Waking
      <3> QED
        BY <1>3, <3>5, <3>8, <3>9 DEF x
    <2>2. CASE ~SelectsPaced(s, pacing) /\ s.system > 0
      <3> DEFINE n == s.system - 1
                 c == "system"
                 w == "pending"
      <3>1. x = [s EXCEPT !.current = c, !.write = w, !.system = n]
        BY <1>1, <1>3, <2>2 DEF ScheduleWrite, StartWrite, SessionRecord
      <3>3. n \in 0..MaxQueue /\ w \in WriteOp /\ c \in {"none", "system", "paced"}
            /\ w # "none" /\ c # "none" /\ c # "paced" /\ n <= s.system
        BY <1>1, <2>2, SessionAssumption DEF SessionRecord, WriteOp
      <3> HIDE DEF x, n, c, w
      <3>4. x \in SessionRecord
        BY <1>1, <3>1, <3>3 DEF SessionRecord
      <3>5. /\ x.current = c /\ x.write = w
            /\ x.paced = s.paced /\ x.system = n
            /\ x.closed = s.closed /\ x.protocol = s.protocol
            /\ x.dial = s.dial /\ x.read = s.read
            /\ x.auth_timer = s.auth_timer
        BY <1>1, <3>1 DEF SessionRecord
      <3>6. x.system + x.paced <= MaxQueue
        BY <1>1, <3>3, <3>5, SessionAssumption DEF Sound
      <3>8. Sound(x)
        BY <3>3, <3>4, <3>5, <3>6, Zenon DEF Sound, Gated
      <3>9. Waking(x)
        BY <3>3, <3>5, Zenon DEF Waking
      <3> QED
        BY <1>3, <3>5, <3>8, <3>9 DEF x
    <2>3. CASE ~SelectsPaced(s, pacing) /\ ~(s.system > 0)
      <3>1. x = [s EXCEPT !.write_timer = Arm(@)]
        BY <1>3, <2>3 DEF ScheduleWrite
      <3>2. Arm(s.write_timer) \in Timer /\ Arm(s.write_timer) # {}
        BY <1>1 DEF SessionRecord, Timer, Arm
      <3>3. x \in SessionRecord
        BY <1>1, <3>1, <3>2 DEF SessionRecord
      <3>4. /\ x.current = s.current /\ x.write = s.write
            /\ x.paced = s.paced /\ x.system = s.system
            /\ x.closed = s.closed /\ x.protocol = s.protocol
            /\ x.dial = s.dial /\ x.read = s.read
            /\ x.auth_timer = s.auth_timer
            /\ x.write_timer # {}
        BY <1>1, <3>1, <3>2 DEF SessionRecord
      <3> HIDE DEF x
      <3>5. Sound(x) /\ Waking(x)
        BY <1>1, <3>3, <3>4 DEF Sound, Waking, Gated
      <3> QED
        BY <1>3, <3>4, <3>5 DEF x
    <2> QED
      BY <2>1, <2>2, <2>3
  <1> QED
    BY <1>2, <1>3

\* enqueue, from a handler: what the callers owe is that a JOIN or a chat
\* message comes after the login.
LEMMA EnqueueGood ==
  ASSUME NEW r \in GoodResult, NEW kind \in {"system", "join", "chat"},
         NEW pacing \in Pacing,
         Lasting /\ kind # "system" => Complete(r.s.protocol)
  PROVE  /\ Enqueue(r, kind, pacing) \in GoodResult
         /\ Enqueue(r, kind, pacing).s.protocol = r.s.protocol
         /\ Follows(r, Enqueue(r, kind, pacing))
PROOF
  <1>1. /\ r \in Result /\ Sound(r.s) /\ r.s \in SessionRecord
        /\ r.s.system \in Nat /\ r.s.paced \in Nat
    BY SessionAssumption DEF GoodResult, Sound, SessionRecord
  <1>2. CASE r.s.closed
    BY <1>2, FollowsSelf DEF Enqueue
  <1>3. CASE ~r.s.closed /\ r.s.system + r.s.paced >= MaxQueue
    <2>1. Enqueue(r, kind, pacing) =
            IF kind = "chat" THEN r ELSE Finish(r, "network_error")
      BY <1>3 DEF Enqueue
    <2> QED
      BY <2>1, FollowsSelf, FinishGood DEF SessionEndReason
  <1>4. CASE ~r.s.closed /\ ~(r.s.system + r.s.paced >= MaxQueue)
    <2> DEFINE q == Queued(r.s, kind)
               x == ScheduleWrite(q, pacing)
               y == Enqueue(r, kind, pacing)
    <2>1. Sound(q) /\ q.closed = r.s.closed /\ q.protocol = r.s.protocol
          /\ q.dial = r.s.dial /\ q.read = r.s.read
          /\ q.auth_timer = r.s.auth_timer
      <3>1. CASE kind = "system"
        <4>1. q = [r.s EXCEPT !.system = @ + 1]
          BY <3>1 DEF Queued
        <4>2. q \in SessionRecord
          BY <1>1, <1>4, <4>1, SessionAssumption DEF SessionRecord
        <4>3. /\ q.system = r.s.system + 1 /\ q.paced = r.s.paced
              /\ q.current = r.s.current /\ q.write = r.s.write
              /\ q.closed = r.s.closed /\ q.protocol = r.s.protocol
              /\ q.dial = r.s.dial /\ q.read = r.s.read
              /\ q.auth_timer = r.s.auth_timer
          BY <1>1, <4>1 DEF SessionRecord
        <4> HIDE DEF q
        <4> QED
          BY <1>1, <1>4, <4>2, <4>3, SessionAssumption DEF Sound, Gated
      <3>2. CASE kind # "system"
        <4>1. q = [r.s EXCEPT !.paced = @ + 1]
          BY <3>2 DEF Queued
        <4>2. q \in SessionRecord
          BY <1>1, <1>4, <4>1, SessionAssumption DEF SessionRecord
        <4>3. /\ q.paced = r.s.paced + 1 /\ q.system = r.s.system
              /\ q.current = r.s.current /\ q.write = r.s.write
              /\ q.closed = r.s.closed /\ q.protocol = r.s.protocol
              /\ q.dial = r.s.dial /\ q.read = r.s.read
              /\ q.auth_timer = r.s.auth_timer
          BY <1>1, <4>1 DEF SessionRecord
        <4> HIDE DEF q
        <4> QED
          BY <1>1, <1>4, <3>2, <4>2, <4>3, SessionAssumption
             DEF Sound, Gated
      <3> QED
        BY <3>1, <3>2
    <2>2. y = [r EXCEPT !.s = x]
      BY <1>4 DEF Enqueue
    <2> HIDE DEF q
    <2>3. /\ Sound(x) /\ Waking(x) /\ x.closed = q.closed
          /\ x.protocol = q.protocol /\ x.dial = q.dial /\ x.read = q.read
          /\ x.auth_timer = q.auth_timer
      BY <2>1, ScheduleWriteSound, Zenon
    <2> HIDE DEF x
    <2>4. y \in Result /\ y.s = x /\ y.end = r.end
      BY <1>1, <2>2, <2>3 DEF Result, Sound
    <2> HIDE DEF y
    <2>5. y \in GoodResult
      BY <1>4, <2>1, <2>3, <2>4 DEF GoodResult
    <2>6. Follows(r, y) /\ y.s.protocol = r.s.protocol
      BY <1>4, <2>1, <2>3, <2>4 DEF Follows, Watched
    <2> QED
      BY <2>5, <2>6 DEF y
  <1> QED
    BY <1>2, <1>3, <1>4

\* Several messages in a row.
LEMMA EnqueueAllGood ==
  ASSUME NEW r \in GoodResult, NEW kind \in {"system", "join", "chat"},
         NEW times \in Nat, NEW pacing \in Pacing,
         Lasting /\ kind # "system" => Complete(r.s.protocol)
  PROVE  /\ EnqueueAll(r, kind, times, pacing) \in GoodResult
         /\ EnqueueAll(r, kind, times, pacing).s.protocol = r.s.protocol
         /\ Follows(r, EnqueueAll(r, kind, times, pacing))
PROOF
  <1> DEFINE D == {x \in GoodResult : /\ x.s.protocol = r.s.protocol
                                      /\ Follows(r, x)}
             F == [d \in D \X (1..times) |-> Enqueue(d[1], kind, pacing)]
             Loop(f) == [n \in 0..times |->
                           IF n = 0 THEN r ELSE Enqueue(f[n - 1], kind, pacing)]
             after == CHOOSE f : f = Loop(f)
  <1>1. r \in D
    BY FollowsSelf
  <1>2. ASSUME NEW x \in D
        PROVE  Enqueue(x, kind, pacing) \in D
    <2>1. /\ x \in GoodResult /\ x.s.protocol = r.s.protocol /\ Follows(r, x)
          /\ Lasting /\ kind # "system" => Complete(x.s.protocol)
      OBVIOUS
    <2> DEFINE y == Enqueue(x, kind, pacing)
    <2>2. y \in GoodResult /\ y.s.protocol = x.s.protocol /\ Follows(x, y)
      BY <2>1, EnqueueGood
    <2> HIDE DEF y
    <2>3. Follows(r, y)
      BY <2>1, <2>2, FollowsOn
    <2>4. y \in D
      BY <2>1, <2>2, <2>3
    <2> QED
      BY <2>4 DEF y
  <1> HIDE DEF D
  <1>3. F \in [D \X (1..times) -> D]
    BY <1>2
  <1>4. /\ \A x \in D, n \in 1..times : F[<<x, n>>] = Enqueue(x, kind, pacing)
    OBVIOUS
  <1> HIDE DEF F
  <1>5. PICK g : Loops(g, times, D, r, F)
    BY <1>1, <1>3, LoopExists
  <1>6. g = Loop(g)
    <2>1. ASSUME NEW n \in 1..times
          PROVE  F[<<g[n - 1], n>>] = Enqueue(g[n - 1], kind, pacing)
      <3>1. n - 1 \in 0..times
        OBVIOUS
      <3> QED
        BY <1>4, <1>5, <3>1 DEF Loops
    <2>2. ASSUME NEW n \in 0..times
          PROVE  g[n] = IF n = 0 THEN r ELSE Enqueue(g[n - 1], kind, pacing)
      <3>1. CASE n = 0
        BY <1>5, <3>1 DEF Loops
      <3>2. CASE n \in 1..times
        BY <1>5, <2>1, <3>2 DEF Loops
      <3> QED
        BY <3>1, <3>2
    <2> QED
      BY <1>5, <2>2 DEF Loops
  <1>7. after = Loop(after)
    BY <1>6, Zenon
  <1> HIDE DEF after
  <1>8. after[0] = r
    BY <1>7
  <1>9. \A n \in 1..times : after[n] = Enqueue(after[n - 1], kind, pacing)
    BY <1>7
  <1>10. \A n \in 0..times : after[n] \in D
    BY <1>1, <1>2, <1>8, <1>9, LoopStays
  <1>11. EnqueueAll(r, kind, times, pacing) = after[times]
    BY DEF EnqueueAll, after
  <1> QED
    BY <1>10, <1>11 DEF D

\* apply_action: what handle owes is that a JOIN comes after the login, and
\* that a session which is ready is not logging in.
LEMMA ApplyActionGood ==
  ASSUME NEW r \in GoodResult, NEW action \in ActionKind,
         NEW pacing \in Pacing,
         Lasting /\ action = "join" => Complete(r.s.protocol),
         action = "ready" => r.s.protocol.state \notin LoggingIn
  PROVE  LET x == ApplyAction(r, action, pacing) IN
         /\ x \in GoodResult
         /\ x.s.protocol = r.s.protocol
         /\ Follows(r, x)
         /\ action \in {"reconnect", "fatal"} => x.s.closed
PROOF
  <1>1. CASE action = "send"
    BY <1>1, EnqueueGood DEF ApplyAction
  <1>2. CASE action = "join"
    BY <1>2, EnqueueGood DEF ApplyAction
  <1>3. CASE action = "ready"
    <2> DEFINE x == ApplyAction(r, action, pacing)
               a == Cancel(r.s.auth_timer)
               s == [r.s EXCEPT !.auth_timer = a]
    <2>1. r \in Result /\ Sound(r.s) /\ r.s \in SessionRecord
      BY DEF GoodResult, Sound
    <2>2. x = [r EXCEPT !.s.auth_timer = a, !.ready = TRUE]
      BY <1>3 DEF ApplyAction
    <2>3. x = [s |-> s, ready |-> TRUE, end |-> r.end]
      BY <2>1, <2>2 DEF Result
    <2>4. a \in Timer
      BY <2>1 DEF SessionRecord, Timer, Cancel
    <2> HIDE DEF a
    <2>5. s \in SessionRecord
      BY <2>1, <2>4 DEF SessionRecord
    <2>6. /\ s.closed = r.s.closed /\ s.protocol = r.s.protocol
          /\ s.system = r.s.system /\ s.paced = r.s.paced
          /\ s.current = r.s.current /\ s.dial = r.s.dial
          /\ s.read = r.s.read /\ s.write = r.s.write
          /\ s.write_timer = r.s.write_timer
      BY <2>1 DEF SessionRecord
    <2> HIDE DEF s
    <2>7. x \in Result /\ x.s = s /\ x.end = r.end
      BY <2>1, <2>3, <2>5 DEF Result
    <2>8. Sound(s)
      BY <2>1, <2>5, <2>6 DEF Sound, Gated
    <2> HIDE DEF x
    <2>9. x \in GoodResult
      BY <2>6, <2>7, <2>8 DEF GoodResult, Waking
    <2>10. Follows(r, x)
      BY <1>3, <2>6, <2>7 DEF Follows, GoodResult, Watched
    <2> QED
      BY <1>3, <2>6, <2>7, <2>9, <2>10 DEF x
  <1>4. CASE action \in {"reconnect", "fatal"}
    BY <1>4, FinishGood DEF ApplyAction, SessionEndReason
  <1> QED
    BY <1>1, <1>2, <1>3, <1>4 DEF ActionKind

\* The actions of one line.
LEMMA ApplyActionsGood ==
  ASSUME NEW r \in GoodResult, NEW actions \in Seq(ActionKind),
         NEW pacing \in Pacing,
         \A n \in 1..Len(actions) :
           /\ Lasting /\ actions[n] = "join" => Complete(r.s.protocol)
           /\ actions[n] = "ready" => r.s.protocol.state \notin LoggingIn
  PROVE  LET x == ApplyActions(r, actions, pacing) IN
         /\ x \in GoodResult
         /\ x.s.protocol = r.s.protocol
         /\ Follows(r, x)
         /\ Len(actions) = 1 /\ actions[1] \in {"reconnect", "fatal"} =>
              x.s.closed
PROOF
  <1> DEFINE k == Len(actions)
             D == {x \in GoodResult : /\ x.s.protocol = r.s.protocol
                                      /\ Follows(r, x)}
             Step(x, n) == IF n > 1 /\ x.s.closed THEN x
                           ELSE ApplyAction(x, actions[n], pacing)
             F == [d \in D \X (1..k) |-> Step(d[1], d[2])]
             Loop(f) == [n \in 0..k |-> IF n = 0 THEN r ELSE Step(f[n - 1], n)]
             after == CHOOSE f : f = Loop(f)
  <1>0. k \in Nat /\ \A n \in 1..k : actions[n] \in ActionKind
    OBVIOUS
  <1>1. r \in D
    BY FollowsSelf
  <1>2. ASSUME NEW x \in D, NEW n \in 1..k
        PROVE  /\ Step(x, n) \in D
               /\ n = 1 /\ actions[n] \in {"reconnect", "fatal"} =>
                    Step(x, n).s.closed
    <2>1. x \in GoodResult /\ x.s.protocol = r.s.protocol /\ Follows(r, x)
      OBVIOUS
    <2>2. CASE n > 1 /\ x.s.closed
      BY <2>2
    <2>3. CASE ~(n > 1 /\ x.s.closed)
      <3> DEFINE y == ApplyAction(x, actions[n], pacing)
      <3>1. /\ y \in GoodResult /\ y.s.protocol = x.s.protocol /\ Follows(x, y)
            /\ actions[n] \in {"reconnect", "fatal"} => y.s.closed
        BY <1>0, <2>1, ApplyActionGood
      <3>2. Step(x, n) = y
        BY <2>3
      <3> HIDE DEF y, Step
      <3>3. Follows(r, y)
        BY <2>1, <3>1, FollowsOn
      <3> QED
        BY <2>1, <3>1, <3>2, <3>3
    <2> QED
      BY <2>2, <2>3
  <1> HIDE DEF D, Step, k
  <1>3. F \in [D \X (1..k) -> D]
    BY <1>2
  <1>4. \A x \in D, n \in 1..k : F[<<x, n>>] = Step(x, n)
    OBVIOUS
  <1> HIDE DEF F
  <1>5. PICK g : Loops(g, k, D, r, F)
    BY <1>0, <1>1, <1>3, LoopExists
  <1>6. g = Loop(g)
    <2>1. ASSUME NEW n \in 1..k
          PROVE  F[<<g[n - 1], n>>] = Step(g[n - 1], n)
      <3>1. n - 1 \in 0..k
        BY <1>0
      <3> QED
        BY <1>4, <1>5, <3>1 DEF Loops
    <2>2. ASSUME NEW n \in 0..k
          PROVE  g[n] = IF n = 0 THEN r ELSE Step(g[n - 1], n)
      <3>1. CASE n = 0
        BY <1>5, <3>1 DEF Loops
      <3>2. CASE n \in 1..k
        BY <1>5, <2>1, <3>2 DEF Loops
      <3> QED
        BY <1>0, <3>1, <3>2
    <2> QED
      BY <1>5, <2>2 DEF Loops
  <1>7. after = Loop(after)
    BY <1>6, Zenon
  <1>8. ApplyActions(r, actions, pacing) = after[k]
    BY DEF ApplyActions, Step, k
  <1> HIDE DEF after
  <1>9. after[0] = r /\ \A n \in 1..k : after[n] = Step(after[n - 1], n)
    BY <1>0, <1>7
  <1>10. \A n \in 0..k : after[n] \in D
    <2>1. \A n \in 1..k : after[n - 1] \in D => after[n] \in D
      BY <1>2, <1>9
    <2> QED
      BY <1>0, <1>1, <1>9, <2>1, LoopStays
  <1>11. after[k] \in D
    BY <1>0, <1>10
  <1>12. ASSUME k = 1, actions[1] \in {"reconnect", "fatal"}
         PROVE  after[k].s.closed
    BY <1>1, <1>2, <1>9, <1>12
  <1> QED
    BY <1>8, <1>11, <1>12 DEF D, k

-----------------------------------------------------------------------------
\* become_ready_if_possible makes a session ready when everything has arrived,
\* and otherwise does nothing.
LEMMA BecomeReadyGood ==
  ASSUME NEW p \in Protocol
  PROVE  LET o == BecomeReadyIfPossible(p) IN
         /\ o.protocol \in Protocol
         /\ o.actions \in Seq(ActionKind)
         /\ Complete(o.protocol) <=> Complete(p)
         /\ \/ /\ o.protocol = p
               /\ o.actions = << >>
               /\ p.state \in {"ready", "failed", "reconnect_requested"}
                    \/ ~Complete(p)
            \/ o.protocol.state = "ready" /\ Complete(p)
PROOF
  <1> DEFINE o == BecomeReadyIfPossible(p)
             joins == [i \in 1..ChannelCount |-> "join"]
             actions == <<"ready">> \o joins
             q == [p EXCEPT !.state = "ready"]
  <1>1. CASE \/ p.state \in {"ready", "failed", "reconnect_requested"}
             \/ ~Complete(p)
    <2>1. o = [protocol |-> p, actions |-> << >>]
      BY <1>1 DEF BecomeReadyIfPossible, Outcome, Complete
    <2>2. << >> \in Seq(ActionKind)
      OBVIOUS
    <2> HIDE DEF o
    <2> QED
      BY <1>1, <2>1, <2>2 DEF o
  <1>2. CASE ~(\/ p.state \in {"ready", "failed", "reconnect_requested"}
               \/ ~Complete(p))
    <2>1. o = [protocol |-> q, actions |-> actions]
      BY <1>2 DEF BecomeReadyIfPossible, Outcome, Complete
    <2>2. joins \in Seq(ActionKind)
      BY ProtocolAssumption DEF ActionKind
    <2>3. <<"ready">> \in Seq(ActionKind)
      BY DEF ActionKind
    <2> HIDE DEF joins
    <2>4. actions \in Seq(ActionKind)
      BY <2>2, <2>3
    <2>5. /\ q \in Protocol /\ q.state = "ready"
          /\ q.authenticated = p.authenticated
          /\ q.acknowledged = p.acknowledged
      BY DEF Protocol, SessionState
    <2> HIDE DEF o, actions, q
    <2>6. Complete(q) <=> Complete(p)
      BY <2>5 DEF Complete
    <2> QED
      BY <1>2, <2>1, <2>4, <2>5, <2>6 DEF o
  <1> QED
    BY <1>1, <1>2

\* What a line does to the protocol: a login that is complete is over, nothing
\* is joined before, a login is not forgotten, and only a line that ends the
\* session leaves it neither logging in nor ready.
LEMMA HandleGood ==
  ASSUME NEW p \in Protocol, NEW m \in ServerMessages,
         p.state \in LoggingIn \cup {"disconnected"} => ~Complete(p)
  PROVE  LET o == Handle(p, m) IN
         /\ o.protocol \in Protocol
         /\ o.actions \in Seq(ActionKind)
         /\ o.protocol.state \in LoggingIn \cup {"disconnected"} =>
              ~Complete(o.protocol)
         /\ Lasting /\ Complete(p) => Complete(o.protocol)
         /\ o.protocol.state = "ready" =>
              p.state = "ready" \/ Complete(o.protocol)
         /\ \A n \in 1..Len(o.actions) : o.actions[n] \in {"join", "ready"} =>
              o.protocol.state = "ready" /\ Complete(o.protocol)
         /\ p.state = "ready" /\ Lasting /\ Complete(p) =>
              o.protocol.state \notin LoggingIn
         /\ p.state \in LoggingIn \cup {"ready"} =>
              \/ o.protocol.state \in LoggingIn \cup {"ready"}
              \/ /\ Len(o.actions) = 1
                 /\ o.actions[1] \in {"reconnect", "fatal"}
PROOF
  <1> DEFINE o == Handle(p, m)
  <1>1. m \in Messages
    BY ClientAssumption
  <1>2. CASE m.command = "PING"
    <2>1. o = [protocol |-> p, actions |-> <<"send">>]
      BY <1>2 DEF Handle, Outcome
    <2>2. <<"send">> \in Seq(ActionKind) /\ Len(<<"send">>) = 1
          /\ <<"send">>[1] = "send"
      BY DEF ActionKind
    <2> HIDE DEF o
    <2> QED
      BY <2>1, <2>2 DEF o, LoggingIn
  <1>3. CASE m.command = "EMPTY_PING"
    <2>1. o = [protocol |-> p, actions |-> << >>]
      BY <1>3 DEF Handle, Outcome
    <2>2. << >> \in Seq(ActionKind) /\ Len(<< >>) = 0
      OBVIOUS
    <2> HIDE DEF o
    <2> QED
      BY <2>1, <2>2 DEF o, LoggingIn
  <1>4. CASE m.command = "RECONNECT"
    <2> DEFINE q == [p EXCEPT !.state = "reconnect_requested"]
    <2>1. o = [protocol |-> q, actions |-> <<"reconnect">>]
      BY <1>4 DEF Handle, Outcome
    <2>2. <<"reconnect">> \in Seq(ActionKind) /\ Len(<<"reconnect">>) = 1
          /\ <<"reconnect">>[1] = "reconnect"
      BY DEF ActionKind
    <2>3. /\ q \in Protocol /\ q.state = "reconnect_requested"
          /\ q.authenticated = p.authenticated
          /\ q.acknowledged = p.acknowledged
      BY DEF Protocol, SessionState
    <2> HIDE DEF o, q
    <2> QED
      BY <2>1, <2>2, <2>3 DEF o, LoggingIn, Complete
  <1>5. CASE m.command \in {"LOGIN_FAILURE", "NAK"}
    <2> DEFINE q == [p EXCEPT !.state = "failed"]
    <2>1. o = [protocol |-> q, actions |-> <<"fatal">>]
      BY <1>5 DEF Handle, Outcome
    <2>2. <<"fatal">> \in Seq(ActionKind) /\ Len(<<"fatal">>) = 1
          /\ <<"fatal">>[1] = "fatal"
      BY DEF ActionKind
    <2>3. /\ q \in Protocol /\ q.state = "failed"
          /\ q.authenticated = p.authenticated
          /\ q.acknowledged = p.acknowledged
      BY DEF Protocol, SessionState
    <2> HIDE DEF o, q
    <2> QED
      BY <2>1, <2>2, <2>3 DEF o, LoggingIn, Complete
  <1>6. CASE m.command = "ACK"
    <2> DEFINE q == Acknowledge(p, m)
    <2>1. o = BecomeReadyIfPossible(q)
      BY <1>6 DEF Handle
    <2>2. m.add \in SUBSET Caps /\ m.drop \in SUBSET Caps
      BY <1>1, <1>6 DEF Messages
    <2>3. /\ q \in Protocol /\ q.state = "capability_negotiation"
          /\ q.authenticated = p.authenticated
          /\ q.acknowledged = (p.acknowledged \ m.drop) \cup m.add
      BY <2>2 DEF Protocol, SessionState, Acknowledge
    <2>4. Lasting => m.drop = {}
      BY <1>6 DEF Lasting
    <2> HIDE DEF o, q
    <2>5. Lasting /\ Complete(p) => Complete(q)
      BY <2>3, <2>4 DEF Complete
    <2>6. \A n \in 1..Len(<< >>) : FALSE
      OBVIOUS
    <2> QED
      BY <2>1, <2>3, <2>5, <2>6, BecomeReadyGood DEF o, LoggingIn
  <1>7. CASE m.command = "WELCOME"
    <2> DEFINE q == [p EXCEPT !.authenticated = TRUE]
    <2>1. o = BecomeReadyIfPossible(q)
      BY <1>7 DEF Handle
    <2>3. /\ q \in Protocol /\ q.state = p.state
          /\ q.authenticated = TRUE
          /\ q.acknowledged = p.acknowledged
      BY DEF Protocol
    <2> HIDE DEF o, q
    <2>5. Complete(p) => Complete(q)
      BY <2>3 DEF Complete
    <2>6. \A n \in 1..Len(<< >>) : FALSE
      OBVIOUS
    <2> QED
      BY <2>1, <2>3, <2>5, <2>6, BecomeReadyGood DEF o, LoggingIn
  <1>8. CASE m.command = "CHAT"
    <2>1. o = BecomeReadyIfPossible(p)
      BY <1>8 DEF Handle
    <2> HIDE DEF o
    <2>6. \A n \in 1..Len(<< >>) : FALSE
      OBVIOUS
    <2> QED
      BY <2>1, <2>6, BecomeReadyGood DEF o, LoggingIn
  <1> QED
    BY <1>1, <1>2, <1>3, <1>4, <1>5, <1>6, <1>7, <1>8 DEF Messages

\* handle_line.
LEMMA HandleLineGood ==
  ASSUME NEW r \in GoodResult, NEW m \in ServerMessages, NEW pacing \in Pacing,
         Online(r.s)
  PROVE  LET x == HandleLine(r, m, pacing) IN
         /\ x \in GoodResult
         /\ Follows(r, x)
         /\ Online(x.s)
         /\ Advances(r, x)
PROOF
  <1> DEFINE p == r.s.protocol
             o == Handle(p, m)
             q == o.protocol
             s == [r.s EXCEPT !.protocol = q]
             r1 == [r EXCEPT !.s.protocol = o.protocol]
             a == ApplyActions(r1, o.actions, pacing)
             x == HandleLine(r, m, pacing)
  <1>1. r \in Result /\ Sound(r.s) /\ r.s \in SessionRecord /\ p \in Protocol
    BY DEF GoodResult, Sound, SessionRecord
  <1>2. p.state \in LoggingIn \cup {"disconnected"} => ~Complete(p)
    BY <1>1 DEF Sound
  <1>3. /\ q \in Protocol
        /\ o.actions \in Seq(ActionKind)
        /\ q.state \in LoggingIn \cup {"disconnected"} => ~Complete(q)
        /\ Lasting /\ Complete(p) => Complete(q)
        /\ q.state = "ready" => p.state = "ready" \/ Complete(q)
        /\ \A n \in 1..Len(o.actions) : o.actions[n] \in {"join", "ready"} =>
             q.state = "ready" /\ Complete(q)
        /\ p.state = "ready" /\ Lasting /\ Complete(p) =>
             q.state \notin LoggingIn
        /\ p.state \in LoggingIn \cup {"ready"} =>
             \/ q.state \in LoggingIn \cup {"ready"}
             \/ /\ Len(o.actions) = 1
                /\ o.actions[1] \in {"reconnect", "fatal"}
    BY <1>1, <1>2, HandleGood
  <1>4. r1 = [s |-> s, ready |-> r.ready, end |-> r.end]
    BY <1>1 DEF Result
  <1>5. x = IF m.command = "CHAT" /\ a.s.protocol.state = "ready"
            THEN EnqueueAll(a, "chat", m.responses, pacing) ELSE a
    BY DEF HandleLine
  <1> HIDE DEF o, x
  <1>6. s \in SessionRecord
    BY <1>1, <1>3 DEF SessionRecord
  <1>7. /\ s.closed = r.s.closed /\ s.protocol = q
        /\ s.system = r.s.system /\ s.paced = r.s.paced
        /\ s.current = r.s.current /\ s.dial = r.s.dial
        /\ s.read = r.s.read /\ s.write = r.s.write
        /\ s.write_timer = r.s.write_timer /\ s.auth_timer = r.s.auth_timer
    BY <1>1 DEF SessionRecord
  <1>8. r1 \in Result /\ r1.s = s /\ r1.end = r.end
    BY <1>1, <1>4, <1>6 DEF Result
  <1> HIDE DEF r1, s, q
  <1>9. Sound(s)
    <2>1. Lasting => Gated(s)
      <3>1. Lasting => Gated(r.s)
        BY <1>1 DEF Sound
      <3> QED
        BY <1>3, <1>7, <3>1 DEF Gated
    <2> QED
      BY <1>1, <1>3, <1>6, <1>7, <2>1 DEF Sound
  <1>10. r1 \in GoodResult
    BY <1>7, <1>8, <1>9 DEF GoodResult, Waking
  <1>11. Lasting /\ p.state = "ready" => Complete(p)
    BY <1>1 DEF Sound, Gated
  <1>12. Follows(r, r1)
    <2>1. ASSUME Watched(r.s) PROVE Watched(s)
      BY <1>3, <1>7, <1>11, <2>1 DEF Watched, Online
    <2> QED
      BY <1>7, <1>8, <2>1 DEF Follows, GoodResult
  <1>13. \A n \in 1..Len(o.actions) :
           /\ Lasting /\ o.actions[n] = "join" => Complete(r1.s.protocol)
           /\ o.actions[n] = "ready" => r1.s.protocol.state \notin LoggingIn
    BY <1>3, <1>7, <1>8 DEF LoggingIn
  <1>14. /\ a \in GoodResult /\ a.s.protocol = q /\ Follows(r1, a)
         /\ Len(o.actions) = 1 /\ o.actions[1] \in {"reconnect", "fatal"} =>
              a.s.closed
    BY <1>3, <1>7, <1>8, <1>10, <1>13, ApplyActionsGood
  <1> HIDE DEF a
  <1>15. Follows(r, a)
    BY <1>10, <1>12, <1>14, FollowsOn
  <1>16. ~a.s.closed => q.state \in LoggingIn \cup {"ready"}
    BY <1>3, <1>14, <1>15 DEF Online, Follows
  <1>17. Online(a.s) /\ Advances(r, a)
    BY <1>3, <1>11, <1>14, <1>16 DEF Online, Advances
  <1>18. CASE m.command = "CHAT" /\ a.s.protocol.state = "ready"
    <2> DEFINE y == EnqueueAll(a, "chat", m.responses, pacing)
    <2>1. m.responses \in Nat
      BY <1>18, ClientAssumption DEF Messages
    <2>2. Lasting => Complete(a.s.protocol)
      BY <1>14, <1>18 DEF GoodResult, Sound, Gated
    <2>3. /\ y \in GoodResult /\ y.s.protocol = a.s.protocol /\ Follows(a, y)
      BY <1>14, <2>1, <2>2, EnqueueAllGood
    <2>4. x = y
      BY <1>5, <1>18
    <2> HIDE DEF y
    <2>5. Follows(r, y)
      BY <1>14, <1>15, <2>3, FollowsOn
    <2>6. ~y.s.closed => ~a.s.closed
      BY <2>3 DEF Follows
    <2>7. Online(y.s) /\ Advances(r, y)
      BY <1>17, <1>18, <2>3, <2>6 DEF Online, Advances
    <2> QED
      BY <2>3, <2>4, <2>5, <2>7 DEF x
  <1>19. CASE ~(m.command = "CHAT" /\ a.s.protocol.state = "ready")
    <2>1. x = a
      BY <1>5, <1>19
    <2> QED
      BY <1>14, <1>15, <1>17, <2>1 DEF x
  <1> QED
    BY <1>18, <1>19

\* Advances goes along with Follows.
LEMMA AdvancesOn ==
  ASSUME NEW r, NEW x, NEW y, Advances(r, x), Advances(x, y), Follows(x, y)
  PROVE  Advances(r, y)
PROOF
  BY DEF Advances, Follows

\* The lines of one read.
LEMMA HandleLinesGood ==
  ASSUME NEW r \in GoodResult, NEW k \in Nat,
         NEW lines \in [1..k -> ServerMessages], NEW pacing \in Pacing,
         Online(r.s)
  PROVE  LET x == HandleLines(r, lines, pacing) IN
         /\ x \in GoodResult
         /\ Follows(r, x)
         /\ Online(x.s)
         /\ Advances(r, x)
PROOF
  <1> DEFINE D == {x \in GoodResult : /\ Follows(r, x)
                                      /\ Online(x.s)
                                      /\ Advances(r, x)}
             Step(x, n) == IF n > 1 /\ x.s.closed THEN x
                           ELSE HandleLine(x, lines[n], pacing)
             F == [d \in D \X (1..k) |-> Step(d[1], d[2])]
             Loop(f) == [n \in 0..k |-> IF n = 0 THEN r ELSE Step(f[n - 1], n)]
             after == CHOOSE f : f = Loop(f)
  <1>0. Len(lines) = k
    BY DEF Messages
  <1>1. r \in D
    BY FollowsSelf DEF Advances
  <1>2. ASSUME NEW x \in D, NEW n \in 1..k
        PROVE  Step(x, n) \in D
    <2>1. x \in GoodResult /\ Follows(r, x) /\ Online(x.s) /\ Advances(r, x)
      OBVIOUS
    <2>2. CASE n > 1 /\ x.s.closed
      BY <2>2
    <2>3. CASE ~(n > 1 /\ x.s.closed)
      <3> DEFINE y == HandleLine(x, lines[n], pacing)
      <3>1. /\ y \in GoodResult /\ Follows(x, y) /\ Online(y.s)
            /\ Advances(x, y)
        BY <2>1, HandleLineGood
      <3>2. Step(x, n) = y
        BY <2>3
      <3> HIDE DEF y, Step
      <3>3. Follows(r, y) /\ Advances(r, y)
        BY <2>1, <3>1, FollowsOn, AdvancesOn
      <3> QED
        BY <3>1, <3>2, <3>3
    <2> QED
      BY <2>2, <2>3
  <1> HIDE DEF D, Step
  <1>3. F \in [D \X (1..k) -> D]
    BY <1>2
  <1>4. \A x \in D, n \in 1..k : F[<<x, n>>] = Step(x, n)
    OBVIOUS
  <1> HIDE DEF F
  <1>5. PICK g : Loops(g, k, D, r, F)
    BY <1>1, <1>3, LoopExists
  <1>6. g = Loop(g)
    <2>1. ASSUME NEW n \in 1..k
          PROVE  F[<<g[n - 1], n>>] = Step(g[n - 1], n)
      <3>1. n - 1 \in 0..k
        OBVIOUS
      <3> QED
        BY <1>4, <1>5, <3>1 DEF Loops
    <2>2. ASSUME NEW n \in 0..k
          PROVE  g[n] = IF n = 0 THEN r ELSE Step(g[n - 1], n)
      <3>1. CASE n = 0
        BY <1>5, <3>1 DEF Loops
      <3>2. CASE n \in 1..k
        BY <1>5, <2>1, <3>2 DEF Loops
      <3> QED
        BY <3>1, <3>2
    <2> QED
      BY <1>5, <2>2 DEF Loops
  <1>7. after = Loop(after)
    BY <1>6, Zenon
  <1>8. HandleLines(r, lines, pacing) = after[k]
    BY <1>0 DEF HandleLines, Step
  <1> HIDE DEF after
  <1>9. after[0] = r /\ \A n \in 1..k : after[n] = Step(after[n - 1], n)
    BY <1>7
  <1>10. \A n \in 1..k : after[n - 1] \in D => after[n] \in D
    BY <1>2, <1>9
  <1>11. \A n \in 0..k : after[n] \in D
    BY <1>1, <1>9, <1>10, LoopStays
  <1> QED
    BY <1>8, <1>11 DEF D

-----------------------------------------------------------------------------
\* A session that goes on with nothing called back.
LEMMA RunningGood ==
  ASSUME NEW s, Sound(s), Waking(s)
  PROVE  Running(s) \in GoodResult
PROOF
  BY DEF GoodResult, Running, Result, Sound

\* The end of an operation or of a wait, before its handler runs.
LEMMA TouchedHandled ==
  ASSUME NEW s, Whole(s), NEW x \in SessionRecord,
         x.closed = s.closed, x.protocol = s.protocol,
         x.system = s.system, x.paced = s.paced, x.current = s.current,
         x.write # "none" <=> s.write # "none",
         x.write_timer = {} => s.write_timer = {},
         x.auth_timer = {} => s.auth_timer = {} \/ s.protocol.state = "ready",
         x.dial = "none" => s.dial = "none",
         x.read # "none" <=> s.read # "none",
         Quiet(s, x)
  PROVE  Handled(s, Running(x))
PROOF
  <1>1. Sound(x)
    BY DEF Whole, Sound, Gated
  <1>2. Waking(x) /\ Watched(x) /\ Alive(x) /\ Logged(x)
    BY DEF Whole, Waking, Watched, Alive, Logged, LoggingIn
  <1>3. Running(x) \in Result /\ Running(x).s = x /\ Running(x).end = "none"
        /\ Running(s).s = s
    BY DEF Running, Result
  <1> QED
    BY <1>1, <1>2, <1>3 DEF Handled, Whole, Advances

\* A handler that ends the session, if it has not ended, after the operation
\* has been taken off.
LEMMA EndHandled ==
  ASSUME NEW s, Whole(s), NEW x, Keeps(s, x), NEW reason \in SessionEndReason
  PROVE  LET r == Finish(Running(x), reason) IN
         /\ Handled(s, r)
         /\ s.closed => r.end = "none"
         /\ ~s.closed => r.end = reason
         /\ r.s.closed
         /\ r.ready = FALSE
PROOF
  <1> DEFINE r == Finish(Running(x), reason)
  <1>1. Running(x) \in Result /\ Running(x) = [s |-> x, ready |-> FALSE, end |-> "none"]
        /\ Running(x).s = x /\ Running(s).s = s
    BY DEF Running, Result, Keeps
  <1> USE DEF Keeps
  <1>2. CASE s.closed
    <2>1. r = [s |-> x, ready |-> FALSE, end |-> "none"]
      BY <1>1, <1>2, Zenon DEF Finish
    <2>2. Sound(x)
      BY <1>2 DEF Whole, Sound, Gated
    <2>3. Waking(x) /\ Watched(x) /\ Alive(x) /\ Logged(x)
      BY <1>2 DEF Waking, Watched, Alive, Logged
    <2> HIDE DEF r
    <2>4. r \in Result /\ r.s = x /\ r.end = "none" /\ r.ready = FALSE
      BY <2>1 DEF Result
    <2>5. Handled(s, r)
      BY <1>1, <1>2, <2>2, <2>3, <2>4 DEF Handled, Whole, Advances
    <2> QED
      BY <1>2, <2>4, <2>5 DEF r
  <1>3. CASE ~s.closed
    <2> DEFINE y == Aborted(x)
    <2>1. r = [s |-> y, ready |-> FALSE, end |-> reason]
      <3>1. r = [Running(x) EXCEPT !.s = y, !.end = reason]
        BY <1>1, <1>3, Zenon DEF Finish
      <3> HIDE DEF y, r
      <3> QED
        BY <3>1 DEF Running
    <2>2. /\ y \in SessionRecord /\ y.closed /\ y.protocol = x.protocol
          /\ y.system = x.system /\ y.paced = x.paced /\ y.current = x.current
      BY AbortedType
    <2> HIDE DEF y, r
    <2>3. Sound(y)
      BY <2>2 DEF Whole, Sound, Gated
    <2>4. Waking(y) /\ Watched(y) /\ Alive(y) /\ Logged(y)
      BY <2>2 DEF Waking, Watched, Alive, Logged
    <2>5. r \in Result /\ r.s = y /\ r.end = reason /\ reason # "none"
          /\ r.ready = FALSE
      BY <2>1, <2>2 DEF Result, SessionEndReason
    <2>6. Quiet(s, y) /\ Advances(Running(s), r)
      BY <1>3, <2>2, <2>5 DEF Quiet, Advances
    <2>7. Handled(s, r)
      BY <1>3, <2>2, <2>3, <2>4, <2>5, <2>6 DEF Handled, Whole
    <2> QED
      BY <1>3, <2>2, <2>5, <2>7 DEF r
  <1> QED
    BY <1>2, <1>3

\* The handlers of a step of dialling that opens the next one.
LEMMA DialHandled ==
  ASSUME NEW s, Whole(s), NEW d \in Dial \ {"none"}, NEW socket \in BOOLEAN
  PROVE  /\ Handled(s, Running([s EXCEPT !.dial = d]))
         /\ Handled(s, Running([s EXCEPT !.dial = d, !.socket = socket]))
PROOF
  <1> DEFINE x == [s EXCEPT !.dial = d]
             y == [s EXCEPT !.dial = d, !.socket = socket]
  <1>1. s \in SessionRecord
    BY DEF Whole, Sound
  <1>2. x \in SessionRecord /\ y \in SessionRecord
    BY <1>1 DEF SessionRecord
  <1>3. /\ x.closed = s.closed /\ x.protocol = s.protocol
        /\ x.system = s.system /\ x.paced = s.paced /\ x.current = s.current
        /\ x.write = s.write /\ x.write_timer = s.write_timer
        /\ x.auth_timer = s.auth_timer /\ x.read = s.read /\ x.dial # "none"
    BY <1>1 DEF SessionRecord
  <1>4. /\ y.closed = s.closed /\ y.protocol = s.protocol
        /\ y.system = s.system /\ y.paced = s.paced /\ y.current = s.current
        /\ y.write = s.write /\ y.write_timer = s.write_timer
        /\ y.auth_timer = s.auth_timer /\ y.read = s.read /\ y.dial # "none"
    BY <1>1 DEF SessionRecord
  <1> HIDE DEF x, y
  <1>5. Quiet(s, x) /\ Quiet(s, y)
    BY <1>3, <1>4 DEF Quiet
  <1>6. Handled(s, Running(x))
    BY <1>2, <1>3, <1>5, TouchedHandled
  <1>7. Handled(s, Running(y))
    BY <1>2, <1>4, <1>5, TouchedHandled
  <1> QED
    BY <1>6, <1>7 DEF x, y

\* A read that completes.
LEMMA ReadHandled ==
  ASSUME NEW s, Whole(s), s.read = "pending", NEW e \in {"data", "error"}
  PROVE  Handled(s, Running([s EXCEPT !.read = e]))
PROOF
  <1> DEFINE x == [s EXCEPT !.read = e]
  <1>1. s \in SessionRecord
    BY DEF Whole, Sound
  <1>2. x \in SessionRecord
    BY <1>1 DEF SessionRecord, ReadOp
  <1>3. /\ x.closed = s.closed /\ x.protocol = s.protocol
        /\ x.system = s.system /\ x.paced = s.paced /\ x.current = s.current
        /\ x.write = s.write /\ x.write_timer = s.write_timer
        /\ x.auth_timer = s.auth_timer /\ x.dial = s.dial
        /\ x.read = e /\ e # "none" /\ e # "pending"
    BY <1>1 DEF SessionRecord
  <1> HIDE DEF x
  <1>4. Quiet(s, x)
    BY <1>3 DEF Quiet
  <1>5. Handled(s, Running(x))
    BY <1>2, <1>3, <1>4, TouchedHandled
  <1> QED
    BY <1>5 DEF x

\* A write that completes.
LEMMA WriteHandled ==
  ASSUME NEW s, Whole(s), s.write = "pending", NEW e \in {"done", "error"}
  PROVE  Handled(s, Running([s EXCEPT !.write = e]))
PROOF
  <1> DEFINE x == [s EXCEPT !.write = e]
  <1>1. s \in SessionRecord
    BY DEF Whole, Sound
  <1>2. x \in SessionRecord
    BY <1>1 DEF SessionRecord, WriteOp
  <1>3. /\ x.closed = s.closed /\ x.protocol = s.protocol
        /\ x.system = s.system /\ x.paced = s.paced /\ x.current = s.current
        /\ x.read = s.read /\ x.write_timer = s.write_timer
        /\ x.auth_timer = s.auth_timer /\ x.dial = s.dial
        /\ x.write = e /\ e # "none" /\ e # "pending"
    BY <1>1 DEF SessionRecord
  <1> HIDE DEF x
  <1>4. Quiet(s, x)
    BY <1>3 DEF Quiet
  <1>5. Handled(s, Running(x))
    BY <1>2, <1>3, <1>4, TouchedHandled
  <1> QED
    BY <1>5 DEF x

\* A timer that expires.
LEMMA TimersHandled ==
  ASSUME NEW s, Whole(s)
  PROVE  /\ Handled(s, Running([s EXCEPT !.write_timer = Expire(@)]))
         /\ Handled(s, Running([s EXCEPT !.auth_timer = Expire(@)]))
PROOF
  <1> DEFINE w == Expire(s.write_timer)
             a == Expire(s.auth_timer)
             x == [s EXCEPT !.write_timer = w]
             y == [s EXCEPT !.auth_timer = a]
  <1>1. s \in SessionRecord
    BY DEF Whole, Sound
  <1>2. /\ w \in Timer /\ a \in Timer /\ w # {} /\ a # {}
        /\ "armed" \notin w
    BY <1>1 DEF SessionRecord, Timer, Expire
  <1> HIDE DEF w, a
  <1>3. x \in SessionRecord /\ y \in SessionRecord
    BY <1>1, <1>2 DEF SessionRecord
  <1>4. /\ x.closed = s.closed /\ x.protocol = s.protocol
        /\ x.system = s.system /\ x.paced = s.paced /\ x.current = s.current
        /\ x.read = s.read /\ x.write = s.write
        /\ x.auth_timer = s.auth_timer /\ x.dial = s.dial
        /\ x.write_timer = w
    BY <1>1 DEF SessionRecord
  <1>5. /\ y.closed = s.closed /\ y.protocol = s.protocol
        /\ y.system = s.system /\ y.paced = s.paced /\ y.current = s.current
        /\ y.read = s.read /\ y.write = s.write
        /\ y.write_timer = s.write_timer /\ y.dial = s.dial
        /\ y.auth_timer = a
    BY <1>1 DEF SessionRecord
  <1> HIDE DEF x, y
  <1>6. Quiet(s, x) /\ Quiet(s, y)
    BY <1>2, <1>4, <1>5 DEF Quiet
  <1>7. Handled(s, Running(x))
    BY <1>2, <1>3, <1>4, <1>6, TouchedHandled
  <1>8. Handled(s, Running(y))
    BY <1>2, <1>3, <1>5, <1>6, TouchedHandled
  <1> QED
    BY <1>7, <1>8 DEF x, y, w, a

\* An operation that fails ends the session.
LEMMA FailureHandled ==
  ASSUME NEW s, Whole(s)
  PROVE  /\ LET r == Finish(Dialled(s), "network_error") IN
            Handled(s, r) /\ r.end \in {"none", "network_error"}
         /\ LET r == Finish(Running([s EXCEPT !.read = "none"]),
                            "network_error") IN
            Handled(s, r) /\ r.end \in {"none", "network_error"}
         /\ LET r == Finish(Running([s EXCEPT !.write = "none"]),
                            "network_error") IN
            Handled(s, r) /\ r.end \in {"none", "network_error"}
PROOF
  <1> DEFINE x == [s EXCEPT !.dial = "none"]
             y == [s EXCEPT !.read = "none"]
             z == [s EXCEPT !.write = "none"]
  <1>1. s \in SessionRecord
    BY DEF Whole, Sound
  <1>2. x \in SessionRecord /\ y \in SessionRecord /\ z \in SessionRecord
    BY <1>1 DEF SessionRecord, Dial, ReadOp, WriteOp
  <1>3. /\ x.closed = s.closed /\ x.protocol = s.protocol
        /\ x.system = s.system /\ x.paced = s.paced /\ x.current = s.current
        /\ x.read = s.read /\ x.write = s.write
        /\ x.write_timer = s.write_timer
    BY <1>1 DEF SessionRecord
  <1>4. /\ y.closed = s.closed /\ y.protocol = s.protocol
        /\ y.system = s.system /\ y.paced = s.paced /\ y.current = s.current
        /\ y.read = "none" /\ y.write = s.write
        /\ y.write_timer = s.write_timer
    BY <1>1 DEF SessionRecord
  <1>5. /\ z.closed = s.closed /\ z.protocol = s.protocol
        /\ z.system = s.system /\ z.paced = s.paced /\ z.current = s.current
        /\ z.read = s.read /\ z.write = "none"
        /\ z.write_timer = s.write_timer
    BY <1>1 DEF SessionRecord
  <1>6. Dialled(s) = Running(x)
    BY DEF Dialled
  <1> HIDE DEF x, y, z
  <1>7. Keeps(s, x) /\ Keeps(s, y) /\ Keeps(s, z)
    BY <1>2, <1>3, <1>4, <1>5 DEF Keeps, Quiet
  <1>8. "network_error" \in SessionEndReason
    BY DEF SessionEndReason
  <1>9. LET r == Finish(Running(x), "network_error") IN
        Handled(s, r) /\ r.end \in {"none", "network_error"}
    BY <1>7, <1>8, EndHandled
  <1>10. LET r == Finish(Running(y), "network_error") IN
         Handled(s, r) /\ r.end \in {"none", "network_error"}
    BY <1>7, <1>8, EndHandled
  <1>11. LET r == Finish(Running(z), "network_error") IN
         Handled(s, r) /\ r.end \in {"none", "network_error"}
    BY <1>7, <1>8, EndHandled
  <1> QED
    BY <1>6, <1>9, <1>10, <1>11 DEF x, y, z

\* The wait for the login is over.
LEMMA AuthTimeoutHandled ==
  ASSUME NEW s, Whole(s)
  PROVE  Handled(s, AuthTimeout(s)) /\ AuthTimeout(s).end \in {"none", "fatal"}
PROOF
  <1> DEFINE a == s.auth_timer \ {"fired"}
             x == [s EXCEPT !.auth_timer = a]
  <1>1. s \in SessionRecord
    BY DEF Whole, Sound
  <1>2. a \in Timer
    BY <1>1 DEF SessionRecord, Timer
  <1>3. AuthTimeout(s) = IF s.protocol.state = "ready" THEN Running(x)
                         ELSE Finish(Running(x), "fatal")
    BY DEF AuthTimeout
  <1> HIDE DEF a
  <1>4. x \in SessionRecord
    BY <1>1, <1>2 DEF SessionRecord
  <1>5. /\ x.closed = s.closed /\ x.protocol = s.protocol
        /\ x.system = s.system /\ x.paced = s.paced /\ x.current = s.current
        /\ x.read = s.read /\ x.write = s.write /\ x.dial = s.dial
        /\ x.write_timer = s.write_timer
    BY <1>1 DEF SessionRecord
  <1> HIDE DEF x
  <1>6. Keeps(s, x)
    BY <1>4, <1>5 DEF Keeps, Quiet
  <1>7. CASE s.protocol.state = "ready"
    <2>1. Quiet(s, x)
      BY <1>6 DEF Keeps
    <2>2. Handled(s, Running(x))
      BY <1>4, <1>5, <1>7, <2>1, TouchedHandled
    <2> QED
      BY <1>3, <1>7, <2>2 DEF Running
  <1>8. CASE s.protocol.state # "ready"
    <2>1. "fatal" \in SessionEndReason
      BY DEF SessionEndReason
    <2>2. LET r == Finish(Running(x), "fatal") IN
          Handled(s, r) /\ r.end \in {"none", "fatal"}
      BY <1>6, <2>1, EndHandled
    <2> QED
      BY <1>3, <1>8, <2>2
  <1> QED
    BY <1>7, <1>8

\* schedule_write as the last step of a handler.
LEMMA ScheduledHandled ==
  ASSUME NEW s, Whole(s), NEW b, Sound(b), NEW pacing \in Pacing,
         b.closed = s.closed, b.protocol = s.protocol, b.dial = s.dial,
         b.read = s.read, b.auth_timer = s.auth_timer, Quiet(s, b)
  PROVE  LET r == Running(ScheduleWrite(b, pacing)) IN
         Handled(s, r) /\ r.end = "none"
PROOF
  <1> DEFINE x == ScheduleWrite(b, pacing)
  <1>1. /\ Sound(x) /\ Waking(x) /\ x.closed = b.closed
        /\ x.protocol = b.protocol /\ x.dial = b.dial /\ x.read = b.read
        /\ x.auth_timer = b.auth_timer
        /\ b.closed => x = b
    BY ScheduleWriteSound
  <1> HIDE DEF x
  <1>2. Watched(x) /\ Alive(x) /\ Logged(x)
    BY <1>1 DEF Whole, Watched, Alive, Logged
  <1>3. Quiet(s, x)
    BY <1>1 DEF Quiet
  <1>4. Running(x) \in Result /\ Running(x).s = x /\ Running(x).end = "none"
        /\ Running(s).s = s
    BY <1>1 DEF Running, Result, Sound
  <1>5. Handled(s, Running(x)) /\ Running(x).end = "none"
    BY <1>1, <1>2, <1>3, <1>4 DEF Handled, Whole, Advances
  <1> QED
    BY <1>5 DEF x

\* A write that is done lets the next message go.
LEMMA WrittenHandled ==
  ASSUME NEW s, Whole(s), NEW pacing \in Pacing
  PROVE  Handled(s, Written(s, pacing)) /\ Written(s, pacing).end = "none"
PROOF
  <1> DEFINE b == [s EXCEPT !.write = "none", !.current = "none"]
  <1>1. s \in SessionRecord
    BY DEF Whole, Sound
  <1>2. b \in SessionRecord
    BY <1>1 DEF SessionRecord, WriteOp
  <1>3. /\ b.closed = s.closed /\ b.protocol = s.protocol
        /\ b.system = s.system /\ b.paced = s.paced
        /\ b.current = "none" /\ b.write = "none"
        /\ b.read = s.read /\ b.dial = s.dial
        /\ b.write_timer = s.write_timer /\ b.auth_timer = s.auth_timer
    BY <1>1 DEF SessionRecord
  <1>4. Written(s, pacing) = Running(ScheduleWrite(b, pacing))
    BY DEF Written
  <1> HIDE DEF b
  <1>5. Sound(b)
    BY <1>2, <1>3 DEF Whole, Sound, Gated
  <1>6. Quiet(s, b)
    BY <1>3 DEF Quiet
  <1> QED
    BY <1>3, <1>4, <1>5, <1>6, ScheduledHandled

\* The wait for the limits is over: what may go now goes, or the wait begins
\* again.
LEMMA WriteTimeoutHandled ==
  ASSUME NEW s, Whole(s), NEW pacing \in Pacing
  PROVE  /\ Handled(s, WriteTimeout(s, pacing))
         /\ WriteTimeout(s, pacing).end = "none"
PROOF
  <1> DEFINE t == s.write_timer \ {"fired"}
             b == [s EXCEPT !.write_timer = t]
  <1>1. s \in SessionRecord
    BY DEF Whole, Sound
  <1>2. t \in Timer /\ ("armed" \in t => "armed" \in s.write_timer)
    BY <1>1 DEF SessionRecord, Timer
  <1>3. WriteTimeout(s, pacing) = Running(ScheduleWrite(b, pacing))
    BY DEF WriteTimeout
  <1> HIDE DEF t
  <1>4. b \in SessionRecord
    BY <1>1, <1>2 DEF SessionRecord
  <1>5. /\ b.closed = s.closed /\ b.protocol = s.protocol
        /\ b.system = s.system /\ b.paced = s.paced
        /\ b.current = s.current /\ b.write = s.write
        /\ b.read = s.read /\ b.dial = s.dial
        /\ b.write_timer = t /\ b.auth_timer = s.auth_timer
    BY <1>1 DEF SessionRecord
  <1> HIDE DEF b
  <1>6. Sound(b)
    BY <1>4, <1>5 DEF Whole, Sound, Gated
  <1>7. Quiet(s, b)
    BY <1>2, <1>5 DEF Quiet
  <1> QED
    BY <1>3, <1>5, <1>6, <1>7, ScheduledHandled

\* begin starts a login that has nothing yet, once.
LEMMA BeginGood ==
  ASSUME NEW p \in Protocol
  PROVE  LET o == Begin(p) IN
         /\ o.protocol \in Protocol
         /\ Len(o.actions) \in Nat
         /\ Complete(o.protocol) <=> Complete(p)
         /\ o.protocol.state # "disconnected"
         /\ \/ o.protocol.state = p.state
            \/ p.state = "disconnected" /\ o.protocol.state = "authenticating"
PROOF
  <1> DEFINE o == Begin(p)
             q == [p EXCEPT !.state = "authenticating"]
  <1>1. CASE p.state # "disconnected"
    <2>1. o = [protocol |-> p, actions |-> << >>]
      BY <1>1 DEF Begin, Outcome
    <2> HIDE DEF o
    <2> QED
      BY <1>1, <2>1 DEF o
  <1>2. CASE p.state = "disconnected"
    <2>1. o = [protocol |-> q, actions |-> <<"send", "send", "send">>]
      BY <1>2 DEF Begin, Outcome
    <2>2. /\ q \in Protocol /\ q.state = "authenticating"
          /\ q.authenticated = p.authenticated
          /\ q.acknowledged = p.acknowledged
      BY DEF Protocol, SessionState
    <2>3. Len(<<"send", "send", "send">>) \in Nat
      OBVIOUS
    <2> HIDE DEF o, q
    <2> QED
      BY <1>2, <2>1, <2>2, <2>3 DEF o, Complete
  <1> QED
    BY <1>1, <1>2

\* After the handshake the login is sent, watched and listened to.
LEMMA LoginHandled ==
  ASSUME NEW s, Whole(s)
  PROVE  Handled(s, Login(s)) /\ Login(s).end # "stopped"
PROOF
  <1> DEFINE o == Begin(s.protocol)
             q == o.protocol
             b == [s EXCEPT !.dial = "none", !.protocol = q]
             k == Len(o.actions)
             sent == EnqueueAll([Dialled(s) EXCEPT !.s.protocol = o.protocol],
                                "system", Len(o.actions), "held")
             a == Arm(sent.s.auth_timer)
             y == ReadMore(StartAuthTimeout(sent.s))
             r == Login(s)
  <1>1. s \in SessionRecord /\ s.protocol \in Protocol
    BY DEF Whole, Sound, SessionRecord
  <1>2. /\ q \in Protocol /\ k \in Nat
        /\ Complete(q) <=> Complete(s.protocol)
        /\ q.state # "disconnected"
        /\ \/ q.state = s.protocol.state
           \/ s.protocol.state = "disconnected" /\ q.state = "authenticating"
    BY <1>1, BeginGood
  <1>3. r = [sent EXCEPT !.s = y]
    BY DEF Login
  <1>4. [Dialled(s) EXCEPT !.s.protocol = q] = Running(b)
    <2> DEFINE c == [s EXCEPT !.dial = "none"]
               d == [c EXCEPT !.protocol = q]
    <2> HIDE DEF o, q
    <2>1. Dialled(s) = [s |-> c, ready |-> FALSE, end |-> "none"]
      BY DEF Dialled, Running
    <2>2. [Dialled(s) EXCEPT !.s.protocol = q] =
            [s |-> d, ready |-> FALSE, end |-> "none"]
      <3>1. c \in SessionRecord
        BY <1>1 DEF SessionRecord, Dial
      <3> DEFINE x == Dialled(s)
      <3> HIDE DEF c
      <3>2. x \in Result /\ x.s = c /\ x.ready = FALSE /\ x.end = "none"
        BY <2>1, <3>1 DEF Result
      <3> HIDE DEF x
      <3>3. [x EXCEPT !.s.protocol = q] =
              [s |-> [x.s EXCEPT !.protocol = q], ready |-> x.ready,
               end |-> x.end]
        BY <3>2 DEF Result
      <3> QED
        BY <3>2, <3>3 DEF x
    <2>3. d = b
      BY <1>1 DEF SessionRecord
    <2> QED
      BY <2>2, <2>3 DEF Running
  <1>5. sent = EnqueueAll(Running(b), "system", k, "held")
    BY <1>4
  <1> HIDE DEF o, q, k, sent, r
  <1>6. b \in SessionRecord
    BY <1>1, <1>2 DEF SessionRecord, Dial
  <1>7. /\ b.closed = s.closed /\ b.protocol = q
        /\ b.system = s.system /\ b.paced = s.paced
        /\ b.current = s.current /\ b.write = s.write
        /\ b.read = s.read /\ b.write_timer = s.write_timer
    BY <1>1 DEF SessionRecord
  <1> HIDE DEF b
  <1>8. Sound(b)
    <2>1. Lasting => Gated(b)
      BY <1>2, <1>7 DEF Whole, Sound, Gated
    <2>2. q.state \in LoggingIn \cup {"disconnected"} => ~Complete(q)
      BY <1>2 DEF Whole, Sound, LoggingIn
    <2> QED
      BY <1>6, <1>7, <2>1, <2>2 DEF Whole, Sound
  <1>9. Running(b) \in GoodResult
    BY <1>7, <1>8, RunningGood DEF Whole, Waking
  <1>10. Running(b).s = b /\ Running(b).end = "none" /\ Running(s).s = s
    BY DEF Running
  <1>11. /\ sent \in GoodResult /\ sent.s.protocol = q
         /\ Follows(Running(b), sent)
    <2>1. "system" \in {"system", "join", "chat"} /\ "held" \in Pacing
      BY DEF Pacing
    <2> QED
      BY <1>2, <1>5, <1>7, <1>9, <1>10, <2>1, EnqueueAllGood
  <1>12. /\ sent \in Result /\ sent.s \in SessionRecord /\ Sound(sent.s)
         /\ Waking(sent.s) /\ sent.end # "stopped"
         /\ ~sent.s.closed => sent.end = "none"
    BY <1>11 DEF GoodResult, Sound
  <1>13. a \in Timer /\ a # {}
    BY <1>12 DEF SessionRecord, Timer, Arm
  <1>14. /\ y \in SessionRecord
         /\ y.closed = sent.s.closed /\ y.protocol = q
         /\ y.system = sent.s.system /\ y.paced = sent.s.paced
         /\ y.current = sent.s.current /\ y.write = sent.s.write
         /\ y.write_timer = sent.s.write_timer /\ y.auth_timer = a
         /\ y.read = "pending" => ~sent.s.closed \/ sent.s.read = "pending"
         /\ ~sent.s.closed => y.read = "pending"
    <2>1. y = IF sent.s.closed THEN [sent.s EXCEPT !.auth_timer = a]
              ELSE [sent.s EXCEPT !.auth_timer = a, !.read = "pending"]
      BY <1>12 DEF ReadMore, StartAuthTimeout, SessionRecord
    <2> HIDE DEF y, a
    <2>2. sent.s \in SessionRecord /\ sent.s.protocol = q
      BY <1>11, <1>12
    <2>3. CASE sent.s.closed
      <3>1. y = [sent.s EXCEPT !.auth_timer = a]
        BY <2>1, <2>3
      <3> QED
        BY <1>13, <2>2, <2>3, <3>1 DEF SessionRecord
    <2>4. CASE ~sent.s.closed
      <3>1. y = [sent.s EXCEPT !.auth_timer = a, !.read = "pending"]
        BY <2>1, <2>4
      <3>2. "pending" \in ReadOp
        BY DEF ReadOp
      <3> QED
        BY <1>13, <2>2, <2>4, <3>1, <3>2 DEF SessionRecord
    <2> QED
      BY <2>3, <2>4
  <1> HIDE DEF y, a
  <1>15. Sound(y) /\ Waking(y)
    BY <1>11, <1>12, <1>14 DEF Sound, Waking, Gated
  <1>16. ~y.closed => ~s.closed
    BY <1>7, <1>10, <1>11, <1>14 DEF Follows
  <1>17. Watched(y) /\ Alive(y) /\ Logged(y)
    BY <1>2, <1>13, <1>14, <1>16 DEF Watched, Alive, Logged, Whole
  <1>18. Quiet(s, y)
    BY <1>7, <1>10, <1>11, <1>14 DEF Quiet, Follows
  <1>19. r \in Result /\ r.s = y /\ r.end = sent.end
    BY <1>3, <1>12, <1>14 DEF Result
  <1>20. r.end # "none" <=> y.closed /\ ~s.closed
    BY <1>7, <1>10, <1>11, <1>12, <1>14, <1>19 DEF Follows
  <1>21. Advances(Running(s), r)
    BY <1>2, <1>10, <1>14, <1>19 DEF Advances
  <1>22. Handled(s, r)
    BY <1>15, <1>17, <1>18, <1>19, <1>20, <1>21 DEF Handled, Whole
  <1> QED
    BY <1>12, <1>19, <1>22 DEF r

\* Whatever lines a read brings, they are handled, and the session reads on or
\* ends.
LEMMA ReceivedHandled ==
  ASSUME NEW s, Whole(s), s.read = "data", NEW k \in Nat,
         NEW lines \in [1..k -> ServerMessages], NEW pacing \in Pacing,
         NEW r \in Received(s, lines, pacing)
  PROVE  Handled(s, r) /\ r.end # "stopped"
PROOF
  <1> DEFINE b == [s EXCEPT !.read = "none"]
             h == HandleLines(Running(b), lines, pacing)
  <1>1. s \in SessionRecord
    BY DEF Whole, Sound
  <1>2. r = [h EXCEPT !.s = ReadMore(@)] \/ r = Finish(h, "network_error")
    BY DEF Received
  <1>3. b \in SessionRecord
    BY <1>1 DEF SessionRecord, ReadOp
  <1>4. /\ b.closed = s.closed /\ b.protocol = s.protocol
        /\ b.system = s.system /\ b.paced = s.paced
        /\ b.current = s.current /\ b.write = s.write /\ b.read = "none"
        /\ b.write_timer = s.write_timer /\ b.auth_timer = s.auth_timer
    BY <1>1 DEF SessionRecord
  <1> HIDE DEF b
  <1>5. Sound(b) /\ Waking(b) /\ Watched(b)
    BY <1>3, <1>4 DEF Whole, Sound, Gated, Waking, Watched
  <1>6. Online(b)
    BY <1>3, <1>4 DEF Whole, Logged, Online, SessionRecord, Protocol,
                      SessionState, LoggingIn
  <1>7. Running(b).s = b /\ Running(b).end = "none" /\ Running(s).s = s
    BY DEF Running
  <1>8. Running(b) \in GoodResult
    BY <1>5, RunningGood
  <1>9. /\ h \in GoodResult /\ Follows(Running(b), h) /\ Online(h.s)
        /\ Advances(Running(b), h)
    BY <1>6, <1>7, <1>8, HandleLinesGood
  <1> HIDE DEF h
  <1>10. /\ h \in Result /\ h.s \in SessionRecord /\ Sound(h.s)
         /\ Waking(h.s) /\ Watched(h.s) /\ h.end # "stopped"
         /\ ~h.s.closed => h.end = "none"
    BY <1>5, <1>7, <1>9 DEF GoodResult, Sound, Follows
  <1>11. Quiet(s, h.s) /\ Advances(Running(s), h)
    BY <1>4, <1>7, <1>9 DEF Quiet, Follows, Advances
  <1>12. h.end # "none" <=> h.s.closed /\ ~s.closed
    BY <1>4, <1>7, <1>9, <1>10 DEF Follows
  <1>13. CASE r = [h EXCEPT !.s = ReadMore(@)]
    <2> DEFINE y == ReadMore(h.s)
    <2>1. /\ y \in SessionRecord /\ y.closed = h.s.closed
          /\ y.protocol = h.s.protocol
          /\ y.system = h.s.system /\ y.paced = h.s.paced
          /\ y.current = h.s.current /\ y.write = h.s.write
          /\ y.write_timer = h.s.write_timer
          /\ y.auth_timer = h.s.auth_timer
          /\ ~h.s.closed => y.read = "pending"
          /\ h.s.closed => y.read = h.s.read
      <3>1. CASE h.s.closed
        BY <1>10, <3>1 DEF ReadMore
      <3>2. CASE ~h.s.closed
        <4>1. y = [h.s EXCEPT !.read = "pending"]
          BY <3>2 DEF ReadMore
        <4> HIDE DEF y
        <4> QED
          BY <1>10, <3>2, <4>1 DEF SessionRecord, ReadOp
      <3> QED
        BY <3>1, <3>2
    <2> HIDE DEF y
    <2>2. Sound(y) /\ Waking(y) /\ Watched(y)
      BY <1>10, <2>1 DEF Sound, Gated, Waking, Watched
    <2>3. Alive(y) /\ Logged(y)
      BY <1>9, <2>1 DEF Alive, Logged, Online, LoggingIn
    <2>4. r \in Result /\ r.s = y /\ r.end = h.end
      BY <1>10, <1>13, <2>1 DEF Result, y
    <2>5. Quiet(s, y) /\ Advances(Running(s), r)
      BY <1>11, <2>1, <2>4 DEF Quiet, Advances
    <2> QED
      BY <1>10, <1>12, <2>1, <2>2, <2>3, <2>4, <2>5 DEF Handled, Whole
  <1>14. CASE r = Finish(h, "network_error")
    <2>1. /\ r \in GoodResult /\ r.s.closed /\ r.s.protocol = h.s.protocol
          /\ Follows(h, r)
      BY <1>9, <1>14, FinishGood DEF SessionEndReason
    <2>2. Sound(r.s) /\ Waking(r.s) /\ r \in Result /\ r.end # "stopped"
      BY <2>1 DEF GoodResult
    <2>3. Watched(r.s) /\ Alive(r.s) /\ Logged(r.s)
      BY <2>1 DEF Watched, Alive, Logged
    <2>4. Quiet(s, r.s) /\ Advances(Running(s), r)
      BY <1>11, <2>1 DEF Quiet, Follows, Advances
    <2>5. r.end # "none" <=> ~s.closed
      <3>1. CASE s.closed
        BY <1>11, <1>12, <2>1, <3>1 DEF Follows, Quiet
      <3>2. CASE ~s.closed
        BY <1>10, <1>12, <2>1, <3>2 DEF Follows
      <3> QED
        BY <3>1, <3>2
    <2> QED
      BY <2>1, <2>2, <2>3, <2>4, <2>5 DEF Handled, Whole
  <1> QED
    BY <1>2, <1>13, <1>14

-----------------------------------------------------------------------------
\* A signal is what stops a client that runs.
StoppedBySignal == IsRunning => (client.stopping <=> ~signal_wait)

\* The inductive invariant.
IInv ==
  /\ TypeOK
  /\ \A i \in Slots : Whole(sessions[i])
  /\ OneLiveSession
  /\ NeverIdle
  /\ StoppedBySignal

\* The steps that StopIsFinal and ClosedIsQuiet allow.
StopStep ==
  client.stopping =>
    /\ client'.stopping
    /\ client'.exit_code = client.exit_code
    /\ client'.session \in {client.session, None}

QuietStep ==
  \A i \in Slots :
    sessions[i].closed /\ sessions'[i].closed =>
      /\ sessions'[i].read = "pending" => sessions[i].read = "pending"
      /\ sessions'[i].write = "pending" => sessions[i].write = "pending"
      /\ "armed" \in sessions'[i].write_timer =>
           "armed" \in sessions[i].write_timer

\* What a step may make of the phase of the client.
LifeStep == Lasting => [Lifecycle!Next]_(Lifecycle!vars)

\* What every step owes.
GoodStep == IInv' /\ StopStep /\ QuietStep /\ LifeStep

-----------------------------------------------------------------------------
\* A name without an object, and a new Session, are in order.
LEMMA NewWhole ==
  /\ Whole(Destroyed)
  /\ Whole([NewSession EXCEPT !.dial = "resolving"])
PROOF
  <1> DEFINE x == [NewSession EXCEPT !.dial = "resolving"]
  <1>1. NewProtocol \in Protocol /\ ~Complete(NewProtocol)
        /\ NewProtocol.state = "disconnected"
    BY DEF NewProtocol, Protocol, SessionState, Complete
  <1>2. NewSession \in SessionRecord
    BY <1>1, SessionAssumption
       DEF NewSession, SessionRecord, Dial, ReadOp, WriteOp, Timer
  <1>3. /\ Destroyed \in SessionRecord /\ Destroyed.closed
        /\ Destroyed.protocol = NewProtocol
        /\ Destroyed.system = 0 /\ Destroyed.paced = 0
        /\ Destroyed.current = "none"
    BY <1>2 DEF Destroyed, SessionRecord, NewSession
  <1>4. /\ x \in SessionRecord /\ ~x.closed
        /\ x.protocol = NewProtocol
        /\ x.system = 0 /\ x.paced = 0
        /\ x.current = "none" /\ x.write = "none" /\ x.read = "none"
        /\ x.dial = "resolving"
    BY <1>2 DEF SessionRecord, NewSession, Dial
  <1> HIDE DEF x
  <1>5. Whole(Destroyed)
    BY <1>1, <1>3, SessionAssumption
       DEF Whole, Sound, Gated, Waking, Watched, Alive, Logged, LoggingIn
  <1>6. Whole(x)
    BY <1>1, <1>4, SessionAssumption
       DEF Whole, Sound, Gated, Waking, Watched, Alive, Logged, LoggingIn
  <1> QED
    BY <1>5, <1>6 DEF x

\* What the callbacks of a session make of the client: nothing, but for the
\* attempts, unless the session has ended, and then it is let go; the client
\* waits for the next one unless it is stopping or stops for good.
LEMMA CallBackGood ==
  ASSUME NEW c \in Client, NEW r \in Result
  PROVE  LET d == CallBack(c, r) IN
         /\ d \in Client
         /\ r.end = "none" =>
              /\ d.session = c.session
              /\ d.reconnect_timer = c.reconnect_timer
         /\ r.end # "none" => d.session = None
         /\ r.end = "none" \/ c.stopping =>
              /\ d.stopping = c.stopping
              /\ d.exit_code = c.exit_code
              /\ d.io = c.io
         /\ ~c.stopping /\ r.end \in {"network_error", "reconnect_requested"} =>
              /\ d.stopping = c.stopping
              /\ d.exit_code = c.exit_code
              /\ d.io = c.io
              /\ d.reconnect_timer = Arm(c.reconnect_timer)
         /\ ~c.stopping /\ r.end = "fatal" =>
              /\ d.stopping
              /\ d.exit_code = 1
              /\ d.io = "stopped"
PROOF
  <1> DEFINE b == IF r.ready THEN [c EXCEPT !.attempt = 0] ELSE c
             d == CallBack(c, r)
             n == IF b.attempt < MaxAttempt THEN b.attempt + 1 ELSE b.attempt
  <1>1. /\ b \in Client /\ b.session = c.session
        /\ b.reconnect_timer = c.reconnect_timer
        /\ b.stopping = c.stopping /\ b.exit_code = c.exit_code
        /\ b.io = c.io
    BY ClientAssumption DEF Client
  <1>2. d = IF r.end = "none" THEN b ELSE SessionEnd(b, r.end)
    BY DEF CallBack
  <1> HIDE DEF b, d
  <1>3. CASE r.end = "none"
    <2>1. d = b
      BY <1>2, <1>3
    <2> QED
      BY <1>1, <1>3, <2>1 DEF d
  <1>4. CASE r.end # "none"
    <2>1. r.end \in SessionEndReason /\ d = SessionEnd(b, r.end)
      BY <1>2, <1>4 DEF Result
    <2>2. CASE c.stopping \/ r.end = "stopped"
      <3>1. d = [b EXCEPT !.session = None]
        BY <1>1, <2>1, <2>2 DEF SessionEnd
      <3>2. /\ d \in Client /\ d.session = None /\ d.stopping = b.stopping
            /\ d.exit_code = b.exit_code /\ d.io = b.io
        BY <1>1, <3>1 DEF Client
      <3> QED
        BY <1>1, <1>4, <2>2, <3>2 DEF d
    <2>3. CASE ~c.stopping /\ r.end = "fatal"
      <3> DEFINE t == Cancel(b.reconnect_timer)
      <3>1. d = [b EXCEPT !.session = None, !.exit_code = 1,
                          !.stopping = TRUE, !.reconnect_timer = t,
                          !.io = "stopped"]
        BY <1>1, <2>1, <2>3 DEF SessionEnd, Client
      <3>2. t \in Timer
        BY <1>1 DEF Client, Timer, Cancel
      <3> HIDE DEF t
      <3>3. /\ d \in Client /\ d.session = None /\ d.stopping
            /\ d.exit_code = 1 /\ d.io = "stopped"
        BY <1>1, <3>1, <3>2 DEF Client
      <3> QED
        BY <1>4, <2>3, <3>3 DEF d
    <2>4. CASE ~c.stopping /\ r.end \in {"network_error", "reconnect_requested"}
      <3> DEFINE t == Arm(b.reconnect_timer)
      <3>1. d = [b EXCEPT !.session = None, !.attempt = n,
                          !.reconnect_timer = t]
        BY <1>1, <2>1, <2>4 DEF SessionEnd, Client
      <3>2. t \in Timer /\ t = Arm(c.reconnect_timer)
        BY <1>1 DEF Client, Timer, Arm
      <3>3. n \in 0..MaxAttempt
        BY <1>1, ClientAssumption DEF Client
      <3> HIDE DEF t, n
      <3>4. /\ d \in Client /\ d.session = None /\ d.stopping = b.stopping
            /\ d.exit_code = b.exit_code /\ d.io = b.io
            /\ d.reconnect_timer = t
        BY <1>1, <3>1, <3>2, <3>3 DEF Client
      <3> QED
        BY <1>1, <1>4, <2>4, <3>2, <3>4 DEF d
    <2> QED
      BY <2>1, <2>2, <2>3, <2>4 DEF SessionEndReason
  <1> QED
    BY <1>3, <1>4

-----------------------------------------------------------------------------
\* The phase of the client, before and after a step.
LEMMA PhaseGood ==
  /\ ~IsRunning => Phase = "done"
  /\ IsRunning /\ client.stopping => Phase = "stopping"
  /\ IsRunning /\ ~client.stopping =>
       /\ client.session = None => Phase = "waiting"
       /\ client.session # None =>
            /\ sessions[client.session].protocol.state = "ready" =>
                 Phase = "ready"
            /\ sessions[client.session].protocol.state # "ready" =>
                 Phase = "connecting"
  /\ ~IsRunning' => Phase' = "done"
  /\ IsRunning' /\ client'.stopping => Phase' = "stopping"
  /\ IsRunning' /\ ~client'.stopping =>
       /\ client'.session = None => Phase' = "waiting"
       /\ client'.session # None =>
            /\ sessions'[client'.session].protocol.state = "ready" =>
                 Phase' = "ready"
            /\ sessions'[client'.session].protocol.state # "ready" =>
                 Phase' = "connecting"
PROOF
  BY DEF Phase, IsRunning

\* A handler that keeps its promises keeps the client and its sessions in step.
LEMMA BecomesGood ==
  ASSUME IInv, IsRunning, NEW i \in Slots, NEW r,
         Handled(sessions[i], r), r.end # "stopped", Becomes(i, r)
  PROVE  GoodStep
PROOF
  <1> DEFINE s == sessions[i]
             d == CallBack(client, r)
             k == Kept(i, r.s, d)
  <1>1. /\ client' = d /\ sessions' = [sessions EXCEPT ![i] = k]
        /\ signal_wait' = signal_wait
    BY DEF Becomes
  <1>2. /\ sessions \in [Slots -> SessionRecord] /\ client \in Client
        /\ signal_wait \in BOOLEAN /\ None \notin Slots
        /\ \A j \in Slots : Whole(sessions[j])
        /\ \A j \in Slots : ~sessions[j].closed <=> j = client.session
        /\ client.session \in Slots \cup {None}
    BY ClientAssumption DEF IInv, TypeOK, OneLiveSession, Client
  <1>3. sessions'[i] = k /\ \A j \in Slots \ {i} : sessions'[j] = sessions[j]
    BY <1>1, <1>2
  <1>4. /\ r \in Result /\ Whole(r.s) /\ r.s \in SessionRecord
        /\ r.end # "none" <=> r.s.closed /\ ~s.closed
        /\ Quiet(s, r.s) /\ Advances(Running(s), r)
        /\ r.end \in {"none", "network_error", "reconnect_requested", "fatal"}
    BY DEF Handled, Whole, Sound, Result, SessionEndReason
  <1>5. /\ d \in Client
        /\ r.end = "none" =>
             /\ d.session = client.session
             /\ d.reconnect_timer = client.reconnect_timer
        /\ r.end # "none" => d.session = None
        /\ r.end = "none" \/ client.stopping =>
             /\ d.stopping = client.stopping
             /\ d.exit_code = client.exit_code
             /\ d.io = client.io
        /\ ~client.stopping /\ r.end \in {"network_error", "reconnect_requested"} =>
             /\ d.stopping = client.stopping
             /\ d.exit_code = client.exit_code
             /\ d.io = client.io
             /\ d.reconnect_timer = Arm(client.reconnect_timer)
        /\ ~client.stopping /\ r.end = "fatal" =>
             /\ d.stopping
             /\ d.exit_code = 1
             /\ d.io = "stopped"
    BY <1>2, <1>4, CallBackGood
  <1>6. client.io = "running"
    BY DEF IsRunning
  <1> HIDE DEF d
  <1>7. /\ Whole(k) /\ k \in SessionRecord
        /\ k.closed <=> r.s.closed
        /\ ~k.closed => k = r.s /\ ~s.closed /\ i = client.session
                          /\ r.end = "none"
        /\ k = r.s \/ k = Destroyed
    <2>1. k = r.s \/ (k = Destroyed /\ i # d.session)
      BY DEF Kept
    <2>2. Whole(Destroyed) /\ Destroyed \in SessionRecord /\ Destroyed.closed
      BY NewWhole DEF Whole, Sound, Destroyed, NewSession
    <2>3. ~r.s.closed => ~s.closed /\ i = client.session /\ d.session = i
      BY <1>2, <1>4, <1>5 DEF Quiet
    <2> HIDE DEF k
    <2> QED
      BY <1>4, <2>1, <2>2, <2>3
  <1> HIDE DEF k
  <1>8. TypeOK'
    BY <1>1, <1>2, <1>5, <1>7 DEF TypeOK
  <1>9. \A j \in Slots : Whole(sessions'[j])
    BY <1>2, <1>3, <1>7
  <1>10. OneLiveSession'
    <2>1. ASSUME IsRunning', NEW j \in Slots
          PROVE  ~sessions'[j].closed <=> j = client'.session
      <3>1. CASE j = i
        <4>1. CASE r.s.closed
          <5>1. d.session # i
            BY <1>2, <1>4, <1>5, <4>1
          <5> QED
            BY <1>1, <1>3, <1>7, <3>1, <4>1, <5>1
        <4>2. CASE ~r.s.closed
          BY <1>1, <1>3, <1>5, <1>7, <3>1, <4>2
        <4> QED
          BY <4>1, <4>2
      <3>2. CASE j # i
        BY <1>1, <1>2, <1>3, <1>4, <1>5, <3>2
      <3> QED
        BY <3>1, <3>2
    <2> QED
      BY <2>1 DEF OneLiveSession
  <1>11. /\ ~client.stopping /\ client.session = None <=>
              ~client.stopping /\ client.reconnect_timer # {}
         /\ ~client.stopping => client.reconnect_timer # {"armed", "fired"}
    BY DEF IInv, NeverIdle
  <1>12. NeverIdle'
    <2>1. CASE r.end = "none"
      BY <1>1, <1>5, <1>11, <2>1 DEF NeverIdle, IsRunning
    <2>2. CASE client.stopping
      BY <1>1, <1>5, <2>2 DEF NeverIdle
    <2>3. CASE ~client.stopping /\ r.end \in {"network_error", "reconnect_requested"}
      <3>1. client.session = i
        BY <1>2, <1>4, <2>3
      <3>2. client.reconnect_timer = {}
        BY <1>2, <1>11, <2>3, <3>1
      <3>3. client'.reconnect_timer = {"armed"}
        BY <1>1, <1>5, <2>3, <3>2 DEF Arm
      <3>4. {"armed"} # {} /\ {"armed"} # {"armed", "fired"}
        OBVIOUS
      <3>5. client'.session = None
        BY <1>1, <1>5, <2>3
      <3> QED
        BY <3>3, <3>4, <3>5 DEF NeverIdle
    <2>4. CASE ~client.stopping /\ r.end = "fatal"
      BY <1>1, <1>5, <2>4 DEF NeverIdle, IsRunning
    <2> QED
      BY <1>4, <2>1, <2>2, <2>3, <2>4
  <1>13. StoppedBySignal'
    <2>1. client.stopping <=> ~signal_wait
      BY DEF IInv, StoppedBySignal
    <2> QED
      BY <1>1, <1>4, <1>5, <2>1 DEF StoppedBySignal, IsRunning
  <1>14. StopStep
    BY <1>1, <1>5 DEF StopStep
  <1>15. QuietStep
    <2>1. Destroyed.read = "none" /\ Destroyed.write = "none"
          /\ Destroyed.write_timer = {}
      BY DEF Destroyed, NewSession
    <2>2. ASSUME NEW j \in Slots, sessions[j].closed, sessions'[j].closed
          PROVE  /\ sessions'[j].read = "pending" => sessions[j].read = "pending"
                 /\ sessions'[j].write = "pending" =>
                      sessions[j].write = "pending"
                 /\ "armed" \in sessions'[j].write_timer =>
                      "armed" \in sessions[j].write_timer
      <3>1. CASE j = i
        BY <1>3, <1>4, <1>7, <2>1, <2>2, <3>1 DEF Quiet
      <3>2. CASE j # i
        BY <1>3, <3>2
      <3> QED
        BY <3>1, <3>2
    <2> QED
      BY <2>2 DEF QuietStep
  <1>16. LifeStep
    <2>1. SUFFICES ASSUME Lasting PROVE [Lifecycle!Next]_(Lifecycle!vars)
      BY DEF LifeStep
    <2>2. CASE i # client.session
      <3>1. r.end = "none"
        BY <1>2, <1>4, <2>2
      <3>2. client.session # None =>
              sessions'[client.session] = sessions[client.session]
        BY <1>2, <1>3, <2>2
      <3>3. Phase' = Phase /\ client'.exit_code = client.exit_code
        BY <1>1, <1>5, <3>1, <3>2 DEF Phase, IsRunning
      <3> QED
        BY <3>3 DEF Lifecycle!vars
    <2>3. CASE client.stopping
      <3>1. Phase = "stopping" /\ Phase' = "stopping"
        BY <1>1, <1>5, <1>6, <2>3, PhaseGood DEF IsRunning
      <3> QED
        BY <1>1, <1>5, <2>3, <3>1 DEF Lifecycle!vars
    <2>4. CASE i = client.session /\ ~client.stopping /\ r.end = "none"
      <3>1. ~s.closed /\ ~r.s.closed /\ k = r.s
        BY <1>2, <1>4, <1>7, <2>4
      <3>2. s.protocol.state = "ready" => k.protocol.state = "ready"
        BY <1>4, <2>1, <3>1 DEF Advances, Running
      <3>3. client'.session = i /\ sessions'[client'.session] = k /\ i # None
            /\ IsRunning' /\ ~client'.stopping
            /\ client'.exit_code = client.exit_code
        BY <1>1, <1>2, <1>3, <1>5, <1>6, <2>4 DEF IsRunning
      <3>4. \/ Phase = "ready" /\ Phase' = "ready"
            \/ Phase = "connecting" /\ Phase' \in {"connecting", "ready"}
        BY <1>6, <2>4, <3>2, <3>3, PhaseGood
      <3> QED
        BY <3>3, <3>4
           DEF Lifecycle!vars, Lifecycle!Next, Lifecycle!Ready, Lifecycle!Move
    <2>5. CASE i = client.session /\ ~client.stopping
                 /\ r.end \in {"network_error", "reconnect_requested"}
      <3>1. Phase \in {"connecting", "ready"}
        BY <1>2, <2>5, PhaseGood
      <3>2. client'.session = None /\ IsRunning' /\ ~client'.stopping
            /\ client'.exit_code = client.exit_code
        BY <1>1, <1>5, <1>6, <2>5 DEF IsRunning
      <3>3. Phase' = "waiting"
        BY <3>2, PhaseGood
      <3> QED
        BY <3>1, <3>2, <3>3
           DEF Lifecycle!Next, Lifecycle!Lose, Lifecycle!Move
    <2>6. CASE i = client.session /\ ~client.stopping /\ r.end = "fatal"
      <3>1. Phase \in {"connecting", "ready"}
        BY <1>2, <2>6, PhaseGood
      <3>2. ~IsRunning' /\ client'.exit_code = 1
        BY <1>1, <1>5, <2>6 DEF IsRunning
      <3>3. Phase' = "done"
        BY <3>2, PhaseGood
      <3> QED
        BY <3>1, <3>2, <3>3 DEF Lifecycle!Next, Lifecycle!Fatal
    <2> QED
      BY <1>4, <2>2, <2>3, <2>4, <2>5, <2>6
  <1> QED
    BY <1>8, <1>9, <1>10, <1>12, <1>13, <1>14, <1>15, <1>16
       DEF IInv, GoodStep

\* A completion handler, or the end of an operation, of a session.
LEMMA SessionStepGood ==
  ASSUME IInv, NEW i \in Slots, SessionStep(i)
  PROVE  GoodStep
PROOF
  <1> DEFINE s == sessions[i]
             To(d) == [s EXCEPT !.dial = d]
  <1>1. Whole(s) /\ IsRunning
    BY DEF IInv, SessionStep, DialCompletes, ResolveHandler, ConnectHandler,
           HandshakeHandler, DialFailedHandler, ReadCompletes, ReadHandler,
           ReadFailedHandler, WriteCompletes, WriteDoneHandler,
           WriteFailedHandler, WriteTimerExpires, WriteTimerHandler,
           AuthTimerExpires, AuthTimerHandler
  <1>2. SUFFICES \E r : Handled(s, r) /\ r.end # "stopped" /\ Becomes(i, r)
    BY <1>1, BecomesGood
  <1> HIDE DEF s
  <1>3. \A x : Running(x).end # "stopped"
    BY DEF Running
  <1>4. CASE DialCompletes(i)
    <2>1. PICK d \in {"failed", Success[s.dial]} : Completes(i, To(d))
      BY <1>4 DEF DialCompletes, s
    <2>2. s.dial \in {"resolving", "connecting", "handshaking"}
      BY <1>4 DEF DialCompletes, Success, s
    <2>3. d \in Dial \ {"none"}
      BY <2>1, <2>2 DEF Success, Dial
    <2>4. Handled(s, Running(To(d)))
      BY <1>1, <2>3, DialHandled
    <2> QED
      BY <1>3, <2>1, <2>4 DEF Completes
  <1>5. CASE ResolveHandler(i)
    <2>1. "connecting" \in Dial \ {"none"} /\ TRUE \in BOOLEAN
      BY DEF Dial
    <2>2. Handled(s, Connect(s))
      BY <1>1, <2>1, DialHandled DEF Connect
    <2>3. Connect(s).end # "stopped"
      BY <1>3 DEF Connect
    <2> QED
      BY <1>5, <2>2, <2>3 DEF ResolveHandler, s
  <1>6. CASE ConnectHandler(i)
    <2>1. PICK r \in Handshake(s) : Becomes(i, r)
      BY <1>6 DEF ConnectHandler, s
    <2>2. CASE r = Running(To("handshaking"))
      <3>1. "handshaking" \in Dial \ {"none"}
        BY DEF Dial
      <3>2. Handled(s, r)
        BY <1>1, <2>2, <3>1, DialHandled
      <3> QED
        BY <1>3, <2>1, <2>2, <3>2
    <2>3. CASE r = Finish(Dialled(s), "network_error")
      BY <1>1, <2>1, <2>3, FailureHandled
    <2> QED
      BY <2>2, <2>3 DEF Handshake
  <1>7. CASE HandshakeHandler(i)
    BY <1>1, <1>7, LoginHandled DEF HandshakeHandler, s
  <1>8. CASE DialFailedHandler(i)
    <2>1. Becomes(i, Finish(Dialled(s), "network_error"))
      BY <1>8 DEF DialFailedHandler, s
    <2> QED
      BY <1>1, <2>1, FailureHandled
  <1>9. CASE ReadCompletes(i)
    <2>1. PICK e \in {"data", "error"} : Completes(i, [s EXCEPT !.read = e])
      BY <1>9 DEF ReadCompletes, s
    <2>2. s.read = "pending"
      BY <1>9 DEF ReadCompletes, s
    <2>3. Handled(s, Running([s EXCEPT !.read = e]))
      BY <1>1, <2>2, ReadHandled
    <2> QED
      BY <1>3, <2>1, <2>3 DEF Completes
  <1>10. CASE ReadHandler(i)
    <2>1. PICK n \in 0..MaxLines, pacing \in Pacing :
            \E lines \in [1..n -> ServerMessages] :
              \E r \in Received(s, lines, pacing) : Becomes(i, r)
      BY <1>10 DEF ReadHandler, s
    <2>2. PICK lines \in [1..n -> ServerMessages] :
            \E r \in Received(s, lines, pacing) : Becomes(i, r)
      BY <2>1
    <2>3. PICK r \in Received(s, lines, pacing) : Becomes(i, r)
      BY <2>2
    <2>4. s.read = "data" /\ n \in Nat
      BY <1>10, ClientAssumption DEF ReadHandler, s
    <2>5. Handled(s, r) /\ r.end # "stopped"
      BY <1>1, <2>4, ReceivedHandled
    <2> QED
      BY <2>3, <2>5
  <1>11. CASE ReadFailedHandler(i)
    <2>1. Becomes(i, Finish(Running([s EXCEPT !.read = "none"]),
                            "network_error"))
      BY <1>11 DEF ReadFailedHandler, s
    <2> QED
      BY <1>1, <2>1, FailureHandled
  <1>12. CASE WriteCompletes(i)
    <2>1. PICK e \in {"done", "error"} : Completes(i, [s EXCEPT !.write = e])
      BY <1>12 DEF WriteCompletes, s
    <2>2. s.write = "pending"
      BY <1>12 DEF WriteCompletes, s
    <2>3. Handled(s, Running([s EXCEPT !.write = e]))
      BY <1>1, <2>2, WriteHandled
    <2> QED
      BY <1>3, <2>1, <2>3 DEF Completes
  <1>13. CASE WriteDoneHandler(i)
    <2>1. PICK pacing \in Pacing : Becomes(i, Written(s, pacing))
      BY <1>13 DEF WriteDoneHandler, s
    <2> QED
      BY <1>1, <2>1, WrittenHandled
  <1>14. CASE WriteFailedHandler(i)
    <2>1. Becomes(i, Finish(Running([s EXCEPT !.write = "none"]),
                            "network_error"))
      BY <1>14 DEF WriteFailedHandler, s
    <2> QED
      BY <1>1, <2>1, FailureHandled
  <1>15. CASE WriteTimerExpires(i)
    <2>1. Becomes(i, Running([s EXCEPT !.write_timer = Expire(@)]))
      BY <1>15 DEF WriteTimerExpires, Completes, s
    <2> QED
      BY <1>1, <1>3, <2>1, TimersHandled
  <1>16. CASE WriteTimerHandler(i)
    <2>1. PICK pacing \in Pacing : Becomes(i, WriteTimeout(s, pacing))
      BY <1>16 DEF WriteTimerHandler, s
    <2> QED
      BY <1>1, <2>1, WriteTimeoutHandled
  <1>17. CASE AuthTimerExpires(i)
    <2>1. Becomes(i, Running([s EXCEPT !.auth_timer = Expire(@)]))
      BY <1>17 DEF AuthTimerExpires, Completes, s
    <2> QED
      BY <1>1, <1>3, <2>1, TimersHandled
  <1>18. CASE AuthTimerHandler(i)
    <2>1. Becomes(i, AuthTimeout(s))
      BY <1>18 DEF AuthTimerHandler, s
    <2> QED
      BY <1>1, <2>1, AuthTimeoutHandled
  <1> QED
    BY <1>4, <1>5, <1>6, <1>7, <1>8, <1>9, <1>10, <1>11, <1>12, <1>13, <1>14,
       <1>15, <1>16, <1>17, <1>18 DEF SessionStep

-----------------------------------------------------------------------------
\* The reconnect timer expires.
LEMMA ReconnectTimerExpiresGood ==
  ASSUME IInv, ReconnectTimerExpires
  PROVE  GoodStep
PROOF
  <1>1. /\ client' = [client EXCEPT !.reconnect_timer = Expire(@)]
        /\ sessions' = sessions /\ signal_wait' = signal_wait
        /\ "armed" \in client.reconnect_timer /\ IsRunning
    BY DEF ReconnectTimerExpires
  <1>2. client \in Client
    BY DEF IInv, TypeOK
  <1> DEFINE t == Expire(client.reconnect_timer)
  <1>3. t \in Timer /\ t # {} /\ "armed" \notin t
    BY <1>2 DEF Client, Timer, Expire
  <1> HIDE DEF t
  <1>4. client' = [client EXCEPT !.reconnect_timer = t]
    BY <1>1 DEF t
  <1>5. /\ client' \in Client
        /\ client'.session = client.session
        /\ client'.stopping = client.stopping
        /\ client'.exit_code = client.exit_code
        /\ client'.io = client.io
        /\ client'.reconnect_timer = t
    BY <1>2, <1>3, <1>4 DEF Client
  <1>6. TypeOK' /\ \A i \in Slots : Whole(sessions'[i])
    BY <1>1, <1>5 DEF IInv, TypeOK
  <1>7. OneLiveSession' /\ StoppedBySignal'
    BY <1>1, <1>5 DEF IInv, OneLiveSession, StoppedBySignal, IsRunning
  <1>8. NeverIdle'
    <2>1. client.reconnect_timer # {}
      BY <1>1
    <2>2. t # {"armed", "fired"}
      BY <1>3
    <2> QED
      BY <1>1, <1>3, <1>5, <2>1, <2>2 DEF IInv, NeverIdle, IsRunning
  <1>9. StopStep /\ QuietStep
    BY <1>1, <1>5 DEF StopStep, QuietStep
  <1>10. Phase' = Phase
    BY <1>1, <1>5 DEF Phase, IsRunning
  <1> QED
    BY <1>5, <1>6, <1>7, <1>8, <1>9, <1>10
       DEF GoodStep, IInv, LifeStep, Lifecycle!vars

\* The handler of the reconnect timer makes the one Session, or finds the
\* client stopping.
LEMMA ReconnectTimerHandlerGood ==
  ASSUME IInv, ReconnectTimerHandler
  PROVE  GoodStep
PROOF
  <1> DEFINE t == client.reconnect_timer \ {"fired"}
  <1>1. /\ IsRunning /\ client.io = "running"
        /\ "fired" \in client.reconnect_timer
        /\ signal_wait' = signal_wait
    BY DEF ReconnectTimerHandler, IsRunning
  <1>2. /\ client \in Client /\ None \notin Slots
        /\ sessions \in [Slots -> SessionRecord]
        /\ signal_wait \in BOOLEAN
        /\ \A j \in Slots : Whole(sessions[j])
    BY ClientAssumption DEF IInv, TypeOK
  <1>3. t \in Timer /\ "fired" \notin t
    BY <1>2 DEF Client, Timer
  <1>4. CASE /\ client.stopping
             /\ client' = [client EXCEPT !.reconnect_timer = @ \ {"fired"}]
             /\ UNCHANGED sessions
    <2> HIDE DEF t
    <2>1. client' = [client EXCEPT !.reconnect_timer = t] /\ sessions' = sessions
      BY <1>4 DEF t
    <2>2. /\ client' \in Client
          /\ client'.session = client.session
          /\ client'.stopping = client.stopping
          /\ client'.exit_code = client.exit_code
          /\ client'.io = client.io
      BY <1>2, <1>3, <2>1 DEF Client
    <2>3. TypeOK' /\ \A i \in Slots : Whole(sessions'[i])
      BY <1>1, <1>2, <2>1, <2>2 DEF TypeOK
    <2>4. OneLiveSession' /\ StoppedBySignal' /\ NeverIdle'
      BY <1>1, <1>4, <2>1, <2>2
         DEF IInv, OneLiveSession, StoppedBySignal, NeverIdle, IsRunning
    <2>5. StopStep /\ QuietStep
      BY <2>1, <2>2 DEF StopStep, QuietStep
    <2>6. Phase' = Phase
      BY <2>1, <2>2 DEF Phase, IsRunning
    <2> QED
      BY <2>2, <2>3, <2>4, <2>5, <2>6
         DEF GoodStep, IInv, LifeStep, Lifecycle!vars
  <1>5. CASE ~client.stopping /\ \E i \in Slots : ConnectClient(i)
    <2> DEFINE new == [NewSession EXCEPT !.dial = "resolving"]
    <2>1. PICK i \in Slots : ConnectClient(i)
      BY <1>5
    <2>2. /\ sessions' = [sessions EXCEPT ![i] = new]
          /\ client' = [client EXCEPT !.session = i, !.reconnect_timer = t]
      BY <2>1 DEF ConnectClient
    <2>3. /\ Whole(new) /\ new \in SessionRecord /\ ~new.closed
          /\ new.protocol.state # "ready"
      BY NewWhole DEF Whole, Sound, NewSession, NewProtocol
    <2>4. client.session = None /\ t = {}
      <3>1. /\ client.session = None <=> client.reconnect_timer # {}
            /\ client.reconnect_timer # {"armed", "fired"}
        BY <1>1, <1>5 DEF IInv, NeverIdle
      <3>2. client.reconnect_timer = {"fired"}
        BY <1>1, <1>2, <3>1 DEF Client, Timer
      <3> QED
        BY <3>1, <3>2
    <2> HIDE DEF new, t
    <2>5. /\ client' \in Client
          /\ client'.session = i
          /\ client'.reconnect_timer = {}
          /\ client'.stopping = client.stopping
          /\ client'.exit_code = client.exit_code
          /\ client'.io = client.io
      BY <1>2, <1>3, <2>2, <2>4 DEF Client
    <2>6. /\ sessions'[i] = new
          /\ \A j \in Slots \ {i} : sessions'[j] = sessions[j]
          /\ sessions' \in [Slots -> SessionRecord]
      BY <1>2, <2>2, <2>3
    <2>7. TypeOK' /\ \A j \in Slots : Whole(sessions'[j])
      BY <1>1, <1>2, <2>3, <2>5, <2>6 DEF TypeOK
    <2>8. \A j \in Slots : sessions[j].closed
      BY <1>1, <1>2, <2>4 DEF IInv, OneLiveSession
    <2>9. OneLiveSession'
      BY <2>3, <2>5, <2>6, <2>8 DEF OneLiveSession
    <2>10. StoppedBySignal' /\ NeverIdle'
      <3>1. {} # {"armed", "fired"} /\ i # None
        BY <1>2
      <3> QED
        BY <1>1, <2>5, <3>1
           DEF IInv, StoppedBySignal, NeverIdle, IsRunning
    <2>11. StopStep
      BY <1>5 DEF StopStep
    <2>12. QuietStep
      <3>1. ASSUME NEW j \in Slots, sessions'[j].closed
            PROVE  sessions'[j] = sessions[j]
        BY <2>3, <2>6, <3>1
      <3> QED
        BY <3>1 DEF QuietStep
    <2>13. Phase = "waiting" /\ Phase' = "connecting"
      <3>1. Phase = "waiting"
        BY <1>1, <1>5, <2>4, PhaseGood
      <3>2. IsRunning' /\ ~client'.stopping /\ client'.session # None
            /\ sessions'[client'.session].protocol.state # "ready"
        BY <1>1, <1>2, <1>5, <2>3, <2>5, <2>6 DEF IsRunning
      <3> QED
        BY <3>1, <3>2, PhaseGood
    <2>14. LifeStep
      BY <2>5, <2>13
         DEF LifeStep, Lifecycle!Next, Lifecycle!Connect, Lifecycle!Move
    <2> QED
      BY <2>7, <2>9, <2>10, <2>11, <2>12, <2>14 DEF GoodStep, IInv
  <1> QED
    BY <1>4, <1>5 DEF ReconnectTimerHandler

\* The signal: the session ends, the client lets it go and waits for nothing.
LEMMA StopGood ==
  ASSUME IInv, Stop
  PROVE  GoodStep
PROOF
  <1> DEFINE i == client.session
             t == Cancel(client.reconnect_timer)
             halted == [client EXCEPT !.stopping = TRUE, !.reconnect_timer = t]
  <1>1. IsRunning /\ client.io = "running" /\ signal_wait /\ signal_wait' = FALSE
    BY DEF Stop, IsRunning
  <1>2. /\ client \in Client /\ None \notin Slots
        /\ sessions \in [Slots -> SessionRecord]
        /\ \A j \in Slots : Whole(sessions[j])
        /\ \A j \in Slots : ~sessions[j].closed <=> j = i
        /\ i \in Slots \cup {None}
    BY <1>1, ClientAssumption DEF IInv, TypeOK, OneLiveSession, Client
  <1>3. t \in Timer
    BY <1>2 DEF Client, Timer, Cancel
  <1> HIDE DEF t
  <1>4. /\ halted \in Client /\ halted.stopping
        /\ halted.session = i /\ halted.exit_code = client.exit_code
        /\ halted.io = client.io
    BY <1>2, <1>3 DEF Client
  <1>5. ~client.stopping
    BY <1>1 DEF IInv, StoppedBySignal
  <1>6. Phase \in {"waiting", "connecting", "ready"}
    BY <1>1, <1>5, PhaseGood
  <1>7. SUFFICES ASSUME /\ client' \in Client
                        /\ client'.stopping
                        /\ client'.session = None
                        /\ client'.exit_code = client.exit_code
                        /\ client'.io = client.io,
                        sessions' \in [Slots -> SessionRecord],
                        \A j \in Slots : Whole(sessions'[j]),
                        \A j \in Slots : sessions'[j].closed,
                        QuietStep
                 PROVE  GoodStep
    <2>1. CASE i = None /\ client' = halted /\ sessions' = sessions
      <3>1. \A j \in Slots : sessions'[j].closed
        BY <1>2, <2>1
      <3>2. QuietStep
        BY <2>1 DEF QuietStep
      <3> QED
        BY <1>2, <1>4, <1>7, <2>1, <3>1, <3>2
    <2>2. CASE i # None
      <3> DEFINE s == sessions[i]
                 r == Finish(Running(s), "stopped")
                 b == CallBack(halted, r)
                 c == [b EXCEPT !.session = None]
                 k == Kept(i, r.s, c)
      <3>1. client' = c /\ sessions' = [sessions EXCEPT ![i] = k]
        BY <2>2 DEF Stop, t
      <3>2. Whole(s) /\ i \in Slots /\ s \in SessionRecord
        BY <1>2, <2>2
      <3> HIDE DEF s
      <3>3. Keeps(s, s) /\ "stopped" \in SessionEndReason
        BY <3>2 DEF Keeps, Quiet, SessionEndReason
      <3>4. Handled(s, r) /\ r.s.closed
        BY <3>2, <3>3, EndHandled
      <3>5. r \in Result /\ Whole(r.s) /\ r.s \in SessionRecord /\ Quiet(s, r.s)
        BY <3>4 DEF Handled, Whole, Sound
      <3> HIDE DEF r, halted
      <3>6. /\ b \in Client /\ b.stopping /\ b.exit_code = halted.exit_code
            /\ b.io = halted.io
        BY <1>4, <3>5, CallBackGood
      <3> HIDE DEF b
      <3>7. /\ c \in Client /\ c.stopping /\ c.session = None
            /\ c.exit_code = client.exit_code /\ c.io = client.io
        BY <1>4, <3>6 DEF Client
      <3> HIDE DEF c
      <3>8. Whole(k) /\ k \in SessionRecord /\ k.closed
        BY <3>4, <3>5, NewWhole
           DEF Kept, Whole, Sound, Destroyed, NewSession
      <3>9. Quiet(s, k)
        BY <3>5 DEF Kept, Quiet, Destroyed, NewSession
      <3> HIDE DEF k
      <3>10. /\ sessions'[i] = k
             /\ \A j \in Slots \ {i} : sessions'[j] = sessions[j]
             /\ sessions' \in [Slots -> SessionRecord]
        BY <1>2, <3>1, <3>2, <3>8
      <3>11. \A j \in Slots : Whole(sessions'[j]) /\ sessions'[j].closed
        BY <1>2, <3>8, <3>10
      <3>12. QuietStep
        BY <3>9, <3>10 DEF QuietStep, Quiet, s
      <3> QED
        BY <1>7, <3>1, <3>7, <3>10, <3>11, <3>12
    <2> QED
      BY <2>1, <2>2 DEF Stop, t
  <1>8. TypeOK' /\ \A j \in Slots : Whole(sessions'[j])
    BY <1>1, <1>7 DEF TypeOK
  <1>9. OneLiveSession' /\ NeverIdle' /\ StoppedBySignal'
    BY <1>1, <1>2, <1>7
       DEF OneLiveSession, NeverIdle, StoppedBySignal, IsRunning
  <1>10. StopStep
    BY <1>7 DEF StopStep
  <1>11. LifeStep
    <2>1. Phase' = "stopping"
      BY <1>1, <1>7, PhaseGood DEF IsRunning
    <2> QED
      BY <1>6, <1>7, <2>1
         DEF LifeStep, Lifecycle!Next, Lifecycle!Stop, Lifecycle!Move,
             Lifecycle!Alive
  <1> QED
    BY <1>7, <1>8, <1>9, <1>10, <1>11 DEF GoodStep, IInv

\* io_context::run returns.
LEMMA RunReturnsGood ==
  ASSUME IInv, RunReturns
  PROVE  GoodStep
PROOF
  <1>1. /\ client' = [client EXCEPT !.io = "returned"]
        /\ sessions' = sessions /\ signal_wait' = signal_wait
        /\ IsRunning /\ client \in Client
    BY DEF RunReturns, IInv, TypeOK
  <1>2. client.stopping
    BY DEF RunReturns, IInv, StoppedBySignal
  <1>3. /\ client' \in Client /\ ~IsRunning'
        /\ client'.stopping = client.stopping
        /\ client'.session = client.session
        /\ client'.exit_code = client.exit_code
    BY <1>1 DEF Client, IsRunning
  <1>4. TypeOK' /\ \A i \in Slots : Whole(sessions'[i])
    BY <1>1, <1>3 DEF IInv, TypeOK
  <1>5. OneLiveSession' /\ NeverIdle' /\ StoppedBySignal'
    BY <1>3 DEF OneLiveSession, NeverIdle, StoppedBySignal
  <1>6. StopStep /\ QuietStep
    BY <1>1, <1>2, <1>3 DEF StopStep, QuietStep
  <1>7. Phase = "stopping" /\ Phase' = "done"
    BY <1>1, <1>2, <1>3, PhaseGood
  <1>8. LifeStep
    BY <1>3, <1>7
       DEF LifeStep, Lifecycle!Next, Lifecycle!End, Lifecycle!Move
  <1> QED
    BY <1>3, <1>4, <1>5, <1>6, <1>8 DEF GoodStep, IInv

\* A step in which nothing changes.
LEMMA StutterGood ==
  ASSUME IInv, UNCHANGED vars
  PROVE  GoodStep
PROOF
  <1>1. sessions' = sessions /\ client' = client /\ signal_wait' = signal_wait
    BY DEF vars
  <1>2. IInv'
    BY <1>1 DEF IInv, TypeOK, OneLiveSession, NeverIdle, StoppedBySignal,
                IsRunning
  <1>3. StopStep /\ QuietStep
    BY <1>1 DEF StopStep, QuietStep
  <1>4. Phase' = Phase
    BY <1>1 DEF Phase, IsRunning
  <1> QED
    BY <1>1, <1>2, <1>3, <1>4 DEF GoodStep, LifeStep, Lifecycle!vars

\* The state after client.start().
LEMMA InitGood ==
  ASSUME Init
  PROVE  IInv /\ Lifecycle!Init
PROOF
  <1>1. /\ sessions = [i \in Slots |-> Destroyed]
        /\ client.session = None /\ client.stopping = FALSE
        /\ client.exit_code = 0 /\ client.io = "running"
        /\ client.reconnect_timer = {"armed"}
        /\ signal_wait = TRUE
    BY DEF Init
  <1>2. client \in Client
    BY ClientAssumption DEF Init, Client, Timer
  <1>3. Whole(Destroyed) /\ Destroyed \in SessionRecord /\ Destroyed.closed
    BY NewWhole DEF Whole, Sound, Destroyed, NewSession
  <1>4. TypeOK /\ \A i \in Slots : Whole(sessions[i])
    BY <1>1, <1>2, <1>3 DEF TypeOK
  <1>5. OneLiveSession
    BY <1>1, <1>3, ClientAssumption DEF OneLiveSession
  <1>6. {"armed"} # {} /\ {"armed"} # {"armed", "fired"}
    OBVIOUS
  <1>7. NeverIdle
    BY <1>1, <1>6 DEF NeverIdle
  <1>8. StoppedBySignal
    BY <1>1 DEF StoppedBySignal
  <1>9. Phase = "waiting"
    BY <1>1, PhaseGood DEF IsRunning
  <1> QED
    BY <1>1, <1>4, <1>5, <1>7, <1>8, <1>9 DEF IInv, Lifecycle!Init

\* Every step keeps the invariant and does what StopIsFinal, ClosedIsQuiet and
\* the life cycle allow.
LEMMA NextGood ==
  ASSUME IInv, [Next]_vars
  PROVE  GoodStep
PROOF
  <1>1. CASE ReconnectTimerExpires
    BY <1>1, ReconnectTimerExpiresGood
  <1>2. CASE ReconnectTimerHandler
    BY <1>2, ReconnectTimerHandlerGood
  <1>3. CASE \E i \in Slots : SessionStep(i)
    BY <1>3, SessionStepGood
  <1>4. CASE Stop
    BY <1>4, StopGood
  <1>5. CASE RunReturns
    BY <1>5, RunReturnsGood
  <1>6. CASE Terminated \/ UNCHANGED vars
    BY <1>6, StutterGood DEF Terminated
  <1> QED
    BY <1>1, <1>2, <1>3, <1>4, <1>5, <1>6 DEF Next

\* The invariant is one.
THEOREM Invariant == Spec => []IInv
PROOF
  <1>1. Init => IInv
    BY InitGood
  <1>2. IInv /\ [Next]_vars => IInv'
    BY NextGood DEF GoodStep
  <1> QED
    BY <1>1, <1>2, PTL DEF Spec

-----------------------------------------------------------------------------
\* Every member of the client and of every Session keeps its type, whatever
\* lines arrive and however full the queue is.
THEOREM TypeCorrect == Spec => []TypeOK
PROOF
  <1>1. IInv => TypeOK
    BY DEF IInv
  <1> QED
    BY <1>1, Invariant, PTL

\* The Session that session_ points to is exactly the one that is open.
THEOREM OneSession == Spec => []OneLiveSession
PROOF
  <1>1. IInv => OneLiveSession
    BY DEF IInv
  <1> QED
    BY <1>1, Invariant, PTL

\* finish and stop never destroy the Session they run in.
THEOREM StaysAlive == Spec => []KeepAlive
PROOF
  <1>1. IInv => KeepAlive
    <2>1. SUFFICES ASSUME IInv, IsRunning, client.session # None
                   PROVE  LET s == sessions[client.session] IN
                          s.dial # "none" \/ s.read # "none"
      BY DEF KeepAlive
    <2>2. client.session \in Slots
      BY <2>1 DEF IInv, TypeOK, Client
    <2>3. ~sessions[client.session].closed /\ Whole(sessions[client.session])
      BY <2>1, <2>2 DEF IInv, OneLiveSession
    <2> QED
      BY <2>3 DEF Whole, Alive
  <1> QED
    BY <1>1, Invariant, PTL

\* A client that has not been stopped has a Session or waits to make one.
THEOREM AlwaysAtWork == Spec => []NeverIdle
PROOF
  <1>1. IInv => NeverIdle
    BY DEF IInv
  <1> QED
    BY <1>1, Invariant, PTL

\* No order of lines leaves a Session waiting for what it has.
THEOREM ReadyIsNoticed == Spec => []NoMissedReady
PROOF
  <1>1. IInv => NoMissedReady
    BY DEF IInv, Whole, Sound, NoMissedReady, LoggingIn, Complete
  <1> QED
    BY <1>1, Invariant, PTL

\* The queue is bounded, and an open Session with a message has a write or a
\* timer that will look at the queue again.
THEOREM QueueIsServed == Spec => []NoLostWakeup
PROOF
  <1>1. IInv => NoLostWakeup
    BY DEF IInv, Whole, Sound, Waking, NoLostWakeup
  <1> QED
    BY <1>1, Invariant, PTL

\* After stop, or after a fatal line, nothing changes the exit status and no
\* new Session is made.
THEOREM StoppedForGood == Spec => StopIsFinal
PROOF
  <1>1. IInv /\ [Next]_vars => [StopStep]_vars
    BY NextGood DEF GoodStep
  <1>2. Spec => [][StopStep]_vars
    BY <1>1, Invariant, PTL DEF Spec
  <1> QED
    BY <1>2 DEF StopIsFinal, StopStep

\* A finished Session starts nothing that io_context would have to wait for.
THEOREM FinishedIsQuiet == Spec => ClosedIsQuiet
PROOF
  <1>1. IInv /\ [Next]_vars => [QuietStep]_vars
    BY NextGood DEF GoodStep
  <1>2. Spec => [][QuietStep]_vars
    BY <1>1, Invariant, PTL DEF Spec
  <1> QED
    BY <1>2 DEF ClosedIsQuiet, QuietStep

-----------------------------------------------------------------------------
\* If the server takes no capability back, a JOIN or a chat message is queued
\* or written only after authentication and every required capability.
THEOREM JoinsAreGated == ASSUME Lasting PROVE Spec => []JoinGated
PROOF
  <1>1. IInv => JoinGated
    BY DEF IInv, Whole, Sound, Gated, JoinGated, Complete
  <1> QED
    BY <1>1, Invariant, PTL

\* If the server takes no capability back, the authentication timer watches
\* every login until it is over.
THEOREM LoginsAreWatched == ASSUME Lasting PROVE Spec => []NotReadyIsWatched
PROOF
  <1>1. IInv => NotReadyIsWatched
    BY DEF IInv, Whole, Watched, NotReadyIsWatched, LoggingIn
  <1> QED
    BY <1>1, Invariant, PTL

\* If the server takes no capability back, the client implements the life cycle
\* that the documentation promises: every handler is one step of it or none.
THEOREM ImplementsLifecycle == ASSUME Lasting PROVE Spec => FollowsLifecycle
PROOF
  <1>1. Init => Lifecycle!Init
    BY InitGood
  <1>2. IInv /\ [Next]_vars => [Lifecycle!Next]_(Lifecycle!vars)
    BY NextGood DEF GoodStep, LifeStep
  <1>3. Spec => Lifecycle!Spec
    BY <1>1, <1>2, Invariant, PTL DEF Spec, Lifecycle!Spec
  <1> QED
    BY <1>3 DEF FollowsLifecycle
=============================================================================
