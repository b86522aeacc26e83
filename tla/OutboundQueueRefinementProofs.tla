-------------------- MODULE OutboundQueueRefinementProofs --------------------
(***************************************************************************)
(* OutboundQueue implements its two abstractions, for every value of the   *)
(* constants.                                                              *)
(*                                                                         *)
(* PacedSender: a completed write is SendChat or SendJoin, a tick of the   *)
(* clock is Tick, and every other step stutters.  That the step is allowed *)
(* is PacingInv; that it is a step of the log at all - it began in the     *)
(* past, and a JOIN has a channel - is LogInv.                             *)
(*                                                                         *)
(* CountedQueue: every handler of OutboundQueue is the handler of Session  *)
(* of the same name, and schedule_write is ScheduleWrite of Session with   *)
(* an answer of the limits chosen by what the scan selects.  That the      *)
(* timer is armed only when no protocol line waits is Numbered; that the   *)
(* queue can be counted, and that a closed session holds no timer when the *)
(* next one is made, is CountInv.                                          *)
(***************************************************************************)
EXTENDS OutboundQueueProofs

HasChannel(m) == m.kind = "join" => m.channel \in Channels

LogInv ==
  /\ \A m \in outbound : HasChannel(m)
  /\ write_op => HasChannel(current_write) /\ current_write.start <= now

\* Nothing is queued and nothing is written at first.
LEMMA LogInvInit == Init => LogInv
PROOF
  BY DEF Init, LogInv

\* schedule_write begins a write of a queued message, now.
LEMMA ScheduleWriteLogs ==
  ASSUME NEW queue \in SUBSET Message, NEW lim, now \in Nat,
         \A m \in queue : HasChannel(m),
         ScheduleWrite(queue, lim)
  PROVE  /\ \A m \in outbound' : HasChannel(m)
         /\ write_op' => /\ HasChannel(current_write)'
                         /\ current_write'.start <= now
PROOF
  <1>1. CASE closed \/ queue = {}
    BY <1>1, Zenon DEF ScheduleWrite
  <1>2. CASE ~(closed \/ queue = {})
    <2>1. PICK m \in queue :
            IF AllowedAt(m, lim) > now
            THEN ArmWriteTimer(AllowedAt(m, lim), queue)
            ELSE StartWrite(m, queue)
      BY <1>2, Zenon DEF ScheduleWrite
    <2>2. CASE AllowedAt(m, lim) > now
      BY <2>1, <2>2, Zenon DEF ArmWriteTimer
    <2>3. CASE ~(AllowedAt(m, lim) > now)
      <3> DEFINE w == [kind |-> m.kind, channel |-> m.channel, due |-> m.due,
                       sequence |-> m.sequence, start |-> now]
      <3>1. outbound' = queue \ {m} /\ current_write' = w
        BY <2>1, <2>3, Zenon DEF StartWrite
      <3>2. w.kind = m.kind /\ w.channel = m.channel /\ w.start = now
        OBVIOUS
      <3>3. HasChannel(m)
        BY <2>1
      <3>4. HasChannel(current_write)'
        BY <3>1, <3>2, <3>3, Zenon DEF HasChannel
      <3>5. current_write'.start <= now
        <4>1. current_write'.start = now
          BY <3>1, <3>2, Zenon
        <4> QED
          BY <4>1
      <3>6. \A n \in outbound' : HasChannel(n)
        BY <3>1, Zenon
      <3> QED
        BY <3>4, <3>5, <3>6, Zenon
    <2> QED
      BY <2>2, <2>3
  <1> QED
    BY <1>1, <1>2

\* Every step keeps LogInv: JOINs and chat are enqueued with a channel, and a
\* write begins now.
LEMMA LogInvStep ==
  ASSUME IInv, LogInv, [Next]_vars
  PROVE  LogInv'
PROOF
  <1>1. now \in Nat /\ outbound \in SUBSET Message
    BY DEF IInv, TypeOK
  <1>2. ASSUME NEW queue \in SUBSET Message, NEW lim,
               \A m \in queue : HasChannel(m),
               ScheduleWrite(queue, lim), now' = now
        PROVE  LogInv'
    <2>1. /\ \A m \in outbound' : HasChannel(m)
          /\ write_op' => /\ HasChannel(current_write)'
                          /\ current_write'.start <= now
      BY <1>1, <1>2, ScheduleWriteLogs
    <2> QED
      BY <1>2, <2>1, Zenon DEF LogInv, HasChannel
  <1>3. ASSUME now' = now, outbound' = outbound,
               UNCHANGED <<current_write, write_op>> \/ write_op' = FALSE
        PROVE  LogInv'
    <2>1. \A m \in outbound' : HasChannel(m)
      BY <1>3, Zenon DEF LogInv
    <2>2. CASE current_write' = current_write /\ write_op' = write_op
      BY <1>3, <2>1, <2>2 DEF LogInv, HasChannel
    <2>3. CASE write_op' = FALSE
      BY <2>1, <2>3 DEF LogInv, HasChannel
    <2> QED
      BY <1>3, <2>2, <2>3
  <1>4. ASSUME NEW r \in Requests, Enqueue(r[1], r[2], r[3])
        PROVE  LogInv'
    <2> DEFINE m == [kind |-> r[1], channel |-> r[2], due |-> now + r[3],
                     sequence |-> next_sequence]
    <2>1. m \in Message
      BY RequestsType DEF Message, IInv, TypeOK
    <2>2. HasChannel(m)
      BY DEF Requests, HasChannel
    <2>3. now' = now
      BY <1>4 DEF Enqueue
    <2>4. \/ UNCHANGED <<outbound, current_write, write_op>>
          \/ outbound' = outbound \cup {m} /\ UNCHANGED <<current_write, write_op>>
          \/ ScheduleWrite(outbound \cup {m}, limiter)
      BY <1>4, Zenon DEF Enqueue, Finish
    <2> HIDE DEF m
    <2>5. \A n \in outbound \cup {m} : HasChannel(n)
      BY <2>2 DEF LogInv
    <2>6. (outbound \cup {m}) \in SUBSET Message
      BY <1>1, <2>1
    <2>7. CASE UNCHANGED <<outbound, current_write, write_op>>
      BY <1>3, <2>3, <2>7
    <2>8. CASE /\ outbound' = outbound \cup {m}
               /\ UNCHANGED <<current_write, write_op>>
      BY <2>3, <2>5, <2>8, Zenon DEF LogInv, HasChannel
    <2>9. CASE ScheduleWrite(outbound \cup {m}, limiter)
      BY <1>2, <2>3, <2>5, <2>6, <2>9
    <2> QED
      BY <2>4, <2>7, <2>8, <2>9
  <1>5. CASE TimerExpires
    BY <1>3, <1>5, Zenon DEF TimerExpires
  <1>6. CASE TimerHandler
    <2>1. now' = now
      BY <1>6 DEF TimerHandler
    <2>2. \/ UNCHANGED <<outbound, current_write, write_op>>
          \/ ScheduleWrite(outbound, limiter)
      BY <1>6, Zenon DEF TimerHandler
    <2>3. \A m \in outbound : HasChannel(m)
      BY DEF LogInv
    <2> QED
      BY <1>1, <1>2, <1>3, <2>1, <2>2, <2>3
  <1>7. CASE WriteDone
    <2>1. /\ now' = now
          /\ ScheduleWrite(outbound, Record(limiter, current_write.kind,
                                            current_write.channel, now))
      BY <1>7, Zenon DEF WriteDone
    <2>2. \A m \in outbound : HasChannel(m)
      BY DEF LogInv
    <2> QED
      BY <1>1, <1>2, <2>1, <2>2
  <1>8. CASE WriteFailed
    BY <1>3, <1>8, Zenon DEF WriteFailed
  <1>9. CASE SessionEnds
    BY <1>3, <1>9, Zenon DEF SessionEnds, Finish
  <1>10. CASE NewSession
    <2>1. outbound' = {} /\ write_op' = write_op /\ ~write_op
      BY <1>10, Zenon DEF NewSession
    <2> QED
      BY <2>1, Zenon DEF LogInv
  <1>11. CASE Tick
    <2>1. /\ now' = now + 1
          /\ UNCHANGED <<outbound, current_write, write_op>>
      BY <1>11 DEF Tick, sessionVars
    <2>2. \A m \in outbound' : HasChannel(m)
      BY <2>1, Zenon DEF LogInv
    <2>3. ASSUME write_op'
          PROVE  HasChannel(current_write)' /\ current_write'.start <= now'
      <3>1. HasChannel(current_write) /\ current_write.start <= now
        BY <2>1, <2>3 DEF LogInv
      <3>2. current_write \in Write
        BY <2>1, <2>3 DEF IInv, TypeOK, PacingInv
      <3>3. current_write.start \in Nat
        BY <3>2 DEF Write
      <3>4. HasChannel(current_write)'
        BY <2>1, <3>1, Zenon DEF HasChannel
      <3> QED
        BY <1>1, <2>1, <3>1, <3>3, <3>4
    <2> QED
      BY <2>2, <2>3, Zenon DEF LogInv, HasChannel
  <1>12. CASE UNCHANGED vars
    BY <1>3, <1>12 DEF vars, sessionVars
  <1> QED
    BY <1>4, <1>5, <1>6, <1>7, <1>8, <1>9, <1>10, <1>11, <1>12 DEF Next

\* The initial queue is the initial log.
LEMMA SenderInit == Init => Sender!Init
PROOF
  BY DEF Init, Sender!Init

\* A completed write is one entry of the log, allowed by its limits.
LEMMA WriteDoneSends ==
  ASSUME IInv, LogInv, WriteDone
  PROVE  [Sender!Next]_(Sender!vars)
PROOF
  <1>1. /\ write_op /\ Remember /\ now' = now /\ now \in Nat
        /\ HasChannel(current_write) /\ current_write.start <= now
    BY DEF WriteDone, IInv, TypeOK, LogInv
  <1>2. current_write \in Write
    BY <1>1 DEF IInv, TypeOK, PacingInv
  <1>3. /\ current_write.start \in 0..now
        /\ current_write.kind \in Kinds
        /\ current_write.kind = "chat" => current_write.channel \in Channels
    BY <1>1, <1>2 DEF Write
  <1>4. MayStart(current_write.kind, current_write.channel, chats_sent,
                 joins_sent, current_write.start)
    BY <1>1 DEF IInv, PacingInv
  <1> DEFINE channel == current_write.channel
             start == current_write.start
  <1>5. CASE current_write.kind = "chat"
    <2>1. /\ chats_sent' = Append(chats_sent, [channel |-> channel,
                                              start |-> start, done |-> now])
          /\ joins_sent' = joins_sent
      BY <1>1, <1>5 DEF Remember
    <2>2. Sender!SendChat(channel, start)
      BY <1>1, <1>4, <1>5, <2>1
         DEF Sender!SendChat, Sender!Room, Sender!Calm, Sender!Entry,
             MayStart, Clear, Quiet
    <2> QED
      BY <1>3, <1>5, <2>2 DEF Sender!Next
  <1>6. CASE current_write.kind = "join"
    <2>1. /\ joins_sent' = Append(joins_sent, [channel |-> channel,
                                              start |-> start, done |-> now])
          /\ chats_sent' = chats_sent
      BY <1>1, <1>6 DEF Remember
    <2>2. Sender!SendJoin(channel, start)
      BY <1>1, <1>4, <1>6, <2>1
         DEF Sender!SendJoin, Sender!Room, Sender!Entry, MayStart, Clear
    <2>3. channel \in Channels
      BY <1>1, <1>6 DEF HasChannel
    <2> QED
      BY <1>3, <2>2, <2>3 DEF Sender!Next
  <1>7. CASE current_write.kind = "system"
    BY <1>1, <1>7 DEF Remember, Sender!vars
  <1> QED
    BY <1>3, <1>5, <1>6, <1>7 DEF Kinds

\* Every step is a step of the log or leaves it alone.
LEMMA SenderStep ==
  ASSUME IInv, LogInv, [Next]_vars
  PROVE  [Sender!Next]_(Sender!vars)
PROOF
  <1>1. ASSUME UNCHANGED <<now, chats_sent, joins_sent>>
        PROVE  [Sender!Next]_(Sender!vars)
    BY <1>1 DEF Sender!vars
  <1>2. ASSUME NEW r \in Requests, Enqueue(r[1], r[2], r[3])
        PROVE  [Sender!Next]_(Sender!vars)
    BY <1>1, <1>2 DEF Enqueue, history
  <1>3. CASE TimerExpires
    BY <1>1, <1>3 DEF TimerExpires, history
  <1>4. CASE TimerHandler
    BY <1>1, <1>4 DEF TimerHandler, history
  <1>5. CASE WriteDone
    BY <1>5, WriteDoneSends
  <1>6. CASE WriteFailed
    BY <1>1, <1>6 DEF WriteFailed, history
  <1>7. CASE SessionEnds
    BY <1>1, <1>7 DEF SessionEnds, history
  <1>8. CASE NewSession
    BY <1>1, <1>8 DEF NewSession, history
  <1>9. CASE Tick
    BY <1>9 DEF Tick, history, Sender!Next, Sender!Tick
  <1>10. CASE UNCHANGED vars
    BY <1>1, <1>10 DEF vars, history
  <1> QED
    BY <1>2, <1>3, <1>4, <1>5, <1>6, <1>7, <1>8, <1>9, <1>10 DEF Next

\* Whatever is enqueued, however writes, timers and sessions are interleaved,
\* and whatever the limits are, the log of completed writes is one that
\* PacedSender allows.
THEOREM KeepsItsPromise == Spec => KeepsPromise
PROOF
  <1>1. IInv /\ LogInv /\ [Next]_vars => LogInv'
    BY LogInvStep
  <1>2. IInv /\ LogInv /\ [Next]_vars => [Sender!Next]_(Sender!vars)
    BY SenderStep
  <1> QED
    BY <1>1, <1>2, LogInvInit, SenderInit, Invariance, PTL
       DEF Spec, KeepsPromise, Sender!Spec

-----------------------------------------------------------------------------
\* The record of Session with the fields that matter to the queue.
Rec(cl, system, paced, current, write, timer) ==
  [ closed      |-> cl,
    protocol    |-> [state |-> "disconnected", authenticated |-> FALSE,
                     acknowledged |-> {}],
    system      |-> system,
    paced       |-> paced,
    current     |-> current,
    dial        |-> "none",
    socket      |-> FALSE,
    read        |-> "none",
    write       |-> write,
    write_timer |-> timer,
    auth_timer  |-> {} ]

\* What the fields of such a record may be.
QueueRecord ==
  [ closed      : BOOLEAN,
    protocol    : {[state |-> "disconnected", authenticated |-> FALSE,
                    acknowledged |-> {}]},
    system      : Int,
    paced       : Int,
    current     : {"none", "system", "paced"},
    dial        : {"none"},
    socket      : {FALSE},
    read        : {"none"},
    write       : {"none", "pending", "error"},
    write_timer : SUBSET {"armed", "fired"},
    auth_timer  : {{}} ]

\* Such a record is known by its fields.
LEMMA RecExtensional ==
  ASSUME NEW s \in QueueRecord
  PROVE  s = Rec(s.closed, s.system, s.paced, s.current, s.write,
                 s.write_timer)
PROOF
  <1> DEFINE p == [state |-> "disconnected", authenticated |-> FALSE,
                   acknowledged |-> {}]
  <1>1. /\ s.protocol = p /\ s.dial = "none" /\ s.socket = FALSE
        /\ s.read = "none" /\ s.auth_timer = {}
    BY DEF QueueRecord
  <1> HIDE DEF p
  <1>2. s = [ closed |-> s.closed, protocol |-> s.protocol,
              system |-> s.system, paced |-> s.paced,
              current |-> s.current, dial |-> s.dial, socket |-> s.socket,
              read |-> s.read, write |-> s.write,
              write_timer |-> s.write_timer, auth_timer |-> s.auth_timer ]
    BY DEF QueueRecord
  <1> QED
    BY <1>1, <1>2, Zenon DEF Rec, p

\* What such a record holds.
LEMMA RecType ==
  ASSUME NEW cl \in BOOLEAN, NEW system \in Int, NEW paced \in Int,
         NEW current \in {"none", "system", "paced"},
         NEW write \in {"none", "pending", "error"},
         NEW timer \in SUBSET {"armed", "fired"},
         NEW s, s = Rec(cl, system, paced, current, write, timer)
  PROVE  /\ s \in QueueRecord
         /\ s.closed = cl /\ s.system = system /\ s.paced = paced
         /\ s.current = current /\ s.write = write /\ s.write_timer = timer
PROOF
  BY DEF Rec, QueueRecord

\* finish, on the record.
LEMMA RecFinish ==
  ASSUME NEW cl \in BOOLEAN, NEW cl2 \in BOOLEAN, ~cl, cl2 # cl,
         NEW system, NEW paced, NEW current, NEW write, NEW timer,
         NEW reason, NEW s,
         s = Rec(cl, system, paced, current, write, timer),
         NEW write2, write2 = IF write = "pending" THEN "error" ELSE write,
         NEW timer2, timer2 = timer \ {"armed"},
         NEW r, r = Queue!Finish(Queue!Running(s), reason)
  PROVE  r.s = Rec(cl2, system, paced, current, write2, timer2)
PROOF
  <1>1. {} \ {"armed"} = {}
    OBVIOUS
  <1> QED
    BY <1>1 DEF Queue!Finish, Queue!Running, Queue!Aborted, Queue!Cancel, Rec

\* finish has no effect on a closed session.
LEMMA FinishTwice ==
  ASSUME NEW s, s.closed, NEW reason, NEW r,
         r = Queue!Finish(Queue!Running(s), reason)
  PROVE  r.s = s
PROOF
  BY DEF Queue!Finish, Queue!Running

\* schedule_write, on the record of a session that is closed, writes or has
\* nothing to write.
LEMMA RecRests ==
  ASSUME NEW cl \in BOOLEAN, NEW system \in Nat, NEW paced \in Nat,
         NEW current \in {"none", "system", "paced"},
         NEW write \in {"none", "pending", "error"},
         NEW timer \in SUBSET {"armed", "fired"}, NEW pacing, NEW s,
         s = Rec(cl, system, paced, current, write, timer),
         cl \/ current # "none" \/ system + paced = 0
  PROVE  Queue!ScheduleWrite(s, pacing) = s
PROOF
  <1>1. /\ s.closed = cl /\ s.current = current
        /\ s.system = system /\ s.paced = paced
    BY Zenon DEF Rec
  <1> QED
    BY <1>1, Zenon DEF Queue!ScheduleWrite

\* schedule_write makes of an idle session one that writes a protocol line or a
\* paced message, or one with its timer armed.
Schedules(idle, cl, system, paced, write, timer, system2, paced2) ==
  /\ ~cl /\ system > 0 =>
       Queue!ScheduleWrite(idle, "held")
         = Rec(cl, system2, paced, "system", "pending", timer)
  /\ ~cl /\ paced > 0 =>
       Queue!ScheduleWrite(idle, "first")
         = Rec(cl, system, paced2, "paced", "pending", timer)
  /\ ~cl /\ system = 0 /\ paced > 0 =>
       Queue!ScheduleWrite(idle, "held")
         = Rec(cl, system, paced, "none", write, timer \cup {"armed"})

\* schedule_write, on the record of any other session.
LEMMA RecScheduleWrite ==
  ASSUME NEW cl \in BOOLEAN, NEW system \in Nat, NEW paced \in Nat,
         NEW write \in {"none", "pending", "error"},
         NEW timer \in SUBSET {"armed", "fired"}, NEW idle,
         idle = Rec(cl, system, paced, "none", write, timer),
         NEW system2, system2 = system - 1, NEW paced2, paced2 = paced - 1
  PROVE  Schedules(idle, cl, system, paced, write, timer, system2, paced2)
PROOF
  <1>1. /\ idle \in QueueRecord
        /\ idle.closed = cl /\ idle.current = "none"
        /\ idle.system = system /\ idle.paced = paced /\ idle.write = write
        /\ idle.write_timer = timer
    BY RecType
  <1>2. Queue!StartWrite(idle, "system")
          = Rec(cl, system2, paced, "system", "pending", timer)
    <2> DEFINE x == Queue!StartWrite(idle, "system")
    <2>1. system2 \in Int
      OBVIOUS
    <2>2. x = [idle EXCEPT !.current = "system", !.write = "pending",
                           !.system = system2, !.paced = paced]
      BY <1>1 DEF Queue!StartWrite, QueueRecord
    <2> HIDE DEF x
    <2>3. /\ x \in QueueRecord
          /\ x.closed = cl /\ x.system = system2 /\ x.paced = paced
          /\ x.current = "system" /\ x.write = "pending"
          /\ x.write_timer = timer
      BY <1>1, <2>1, <2>2 DEF QueueRecord
    <2>4. x = Rec(cl, system2, paced, "system", "pending", timer)
      BY <2>3, RecExtensional, Zenon
    <2> QED
      BY <2>4 DEF x
  <1>3. Queue!StartWrite(idle, "paced")
          = Rec(cl, system, paced2, "paced", "pending", timer)
    <2> DEFINE x == Queue!StartWrite(idle, "paced")
    <2>1. paced2 \in Int
      OBVIOUS
    <2>2. x = [idle EXCEPT !.current = "paced", !.write = "pending",
                           !.system = system, !.paced = paced2]
      BY <1>1 DEF Queue!StartWrite, QueueRecord
    <2> HIDE DEF x
    <2>3. /\ x \in QueueRecord
          /\ x.closed = cl /\ x.system = system /\ x.paced = paced2
          /\ x.current = "paced" /\ x.write = "pending"
          /\ x.write_timer = timer
      BY <1>1, <2>1, <2>2 DEF QueueRecord
    <2>4. x = Rec(cl, system, paced2, "paced", "pending", timer)
      BY <2>3, RecExtensional, Zenon
    <2> QED
      BY <2>4 DEF x
  <1>4. [idle EXCEPT !.write_timer = Queue!Arm(@)]
          = Rec(cl, system, paced, "none", write, timer \cup {"armed"})
    <2> DEFINE x == [idle EXCEPT !.write_timer = Queue!Arm(@)]
               armed == timer \cup {"armed"}
    <2>1. armed \in SUBSET {"armed", "fired"}
      OBVIOUS
    <2>2. x = [idle EXCEPT !.write_timer = armed]
      BY <1>1 DEF Queue!Arm
    <2> HIDE DEF x, armed
    <2>3. /\ x \in QueueRecord
          /\ x.closed = cl /\ x.system = system /\ x.paced = paced
          /\ x.current = "none" /\ x.write = write
          /\ x.write_timer = armed
      BY <1>1, <2>1, <2>2 DEF QueueRecord
    <2>4. x = Rec(cl, system, paced, "none", write, armed)
      BY <2>3, RecExtensional, Zenon
    <2> QED
      BY <2>4 DEF x, armed
  <1>5. /\ ~Queue!SelectsPaced(idle, "held")
        /\ paced > 0 => Queue!SelectsPaced(idle, "first")
    BY <1>1 DEF Queue!SelectsPaced
  <1>6. ASSUME ~cl, system + paced > 0, NEW choice
        PROVE  Queue!ScheduleWrite(idle, choice)
                 = IF Queue!SelectsPaced(idle, choice)
                   THEN Queue!StartWrite(idle, "paced")
                   ELSE IF idle.system > 0
                   THEN Queue!StartWrite(idle, "system")
                   ELSE [idle EXCEPT !.write_timer = Queue!Arm(@)]
    <2>1. ~(idle.closed \/ idle.current # "none"
              \/ idle.system + idle.paced = 0)
      <3>1. system + paced # 0
        BY <1>6
      <3> QED
        BY <1>1, <1>6, <3>1, Zenon
    <2> QED
      BY <2>1, Zenon DEF Queue!ScheduleWrite
  <1>7. ~cl /\ system > 0 =>
          Queue!ScheduleWrite(idle, "held")
            = Rec(cl, system2, paced, "system", "pending", timer)
    <2>1. system > 0 => system + paced > 0
      OBVIOUS
    <2> QED
      BY <1>1, <1>2, <1>5, <1>6, <2>1, Zenon
  <1>8. ~cl /\ paced > 0 =>
           Queue!ScheduleWrite(idle, "first")
             = Rec(cl, system, paced2, "paced", "pending", timer)
    <2>1. paced > 0 => system + paced > 0
      OBVIOUS
    <2> QED
      BY <1>3, <1>5, <1>6, <2>1, Zenon
  <1>9. ~cl /\ system = 0 /\ paced > 0 =>
           Queue!ScheduleWrite(idle, "held")
             = Rec(cl, system, paced, "none", write, timer \cup {"armed"})
    <2>1. system = 0 /\ paced > 0 => system + paced > 0 /\ ~(system > 0)
      OBVIOUS
    <2> QED
      BY <1>1, <1>4, <1>5, <1>6, <2>1, Zenon
  <1> QED
    BY <1>7, <1>8, <1>9, Zenon DEF Schedules

\* enqueue, on the record.
LEMMA RecEnqueue ==
  ASSUME NEW cl \in BOOLEAN, ~cl, NEW system \in Nat, NEW paced \in Nat,
         NEW current, NEW write, NEW timer, NEW pacing,
         NEW kind \in Kinds, NEW s, NEW queued, NEW system2, NEW paced2,
         system2 = IF kind = "system" THEN system + 1 ELSE system,
         paced2 = IF kind = "system" THEN paced ELSE paced + 1,
         s = Rec(cl, system, paced, current, write, timer),
         queued = Rec(cl, system2, paced2, current, write, timer)
  PROVE  /\ system + paced < QueueMax =>
              Queue!Enqueue(Queue!Running(s), kind, pacing).s
                = Queue!ScheduleWrite(queued, pacing)
         /\ system + paced >= QueueMax /\ kind # "chat" =>
              Queue!Enqueue(Queue!Running(s), kind, pacing).s
                = Queue!Finish(Queue!Running(s), "network_error").s
PROOF
  <1>1. Queue!Queued(s, kind) = queued
    <2>1. CASE kind = "system"
      <3>1. Queue!Queued(Rec(cl, system, paced, current, write, timer), kind)
              = Rec(cl, system + 1, paced, current, write, timer)
        BY <2>1 DEF Queue!Queued, Rec
      <3> QED
        BY <2>1, <3>1, Zenon
    <2>2. CASE kind # "system"
      <3>1. Queue!Queued(Rec(cl, system, paced, current, write, timer), kind)
              = Rec(cl, system, paced + 1, current, write, timer)
        BY <2>2 DEF Queue!Queued, Rec
      <3> QED
        BY <2>2, <3>1, Zenon
    <2> QED
      BY <2>1, <2>2
  <1>2. ~s.closed /\ s.system + s.paced = system + paced
    BY DEF Rec
  <1>3. QueueMax \in Nat
    BY QueueAssumption
  <1>4. /\ Queue!Running(s).s = s
        /\ \A x : [Queue!Running(s) EXCEPT !.s = x].s = x
    BY DEF Queue!Running
  <1>5. ASSUME system + paced < QueueMax
        PROVE  Queue!Enqueue(Queue!Running(s), kind, pacing).s
                 = Queue!ScheduleWrite(queued, pacing)
    <2>1. ~(s.system + s.paced >= QueueMax)
      BY <1>2, <1>3, <1>5
    <2>2. Queue!Enqueue(Queue!Running(s), kind, pacing)
            = [Queue!Running(s) EXCEPT !.s =
                 Queue!ScheduleWrite(Queue!Queued(s, kind), pacing)]
      BY <1>2, <1>4, <2>1 DEF Queue!Enqueue
    <2> QED
      BY <1>1, <1>4, <2>2, Zenon
  <1>6. ASSUME system + paced >= QueueMax, kind # "chat"
        PROVE  Queue!Enqueue(Queue!Running(s), kind, pacing).s
                 = Queue!Finish(Queue!Running(s), "network_error").s
    <2>1. s.system + s.paced >= QueueMax
      BY <1>2, <1>6, Zenon
    <2> QED
      BY <1>2, <1>4, <1>6, <2>1, Zenon DEF Queue!Enqueue
  <1> QED
    BY <1>5, <1>6
-----------------------------------------------------------------------------
\* How many messages of a queue have one of the kinds.
HowMany(queue, kinds) == Cardinality({m \in queue : m.kind \in kinds})

\* A finite queue can be counted by kind.
LEMMA HowManyType ==
  ASSUME NEW queue, IsFiniteSet(queue), NEW kinds
  PROVE  /\ IsFiniteSet({m \in queue : m.kind \in kinds})
         /\ HowMany(queue, kinds) \in Nat
PROOF
  <1>1. {m \in queue : m.kind \in kinds} \in SUBSET queue
    OBVIOUS
  <1>2. IsFiniteSet({m \in queue : m.kind \in kinds})
    BY <1>1, FS_Subset
  <1> QED
    BY <1>2, FS_CardinalityType DEF HowMany

\* Every message is a protocol line or paced.
LEMMA HowManyAll ==
  ASSUME NEW queue \in SUBSET Message, IsFiniteSet(queue)
  PROVE  /\ HowMany(queue, {"system"}) \in Nat
         /\ HowMany(queue, Paced) \in Nat
         /\ HowMany(queue, {"system"}) + HowMany(queue, Paced)
              = Cardinality(queue)
PROOF
  <1> DEFINE S == {m \in queue : m.kind \in {"system"}}
             P == {m \in queue : m.kind \in Paced}
  <1>1. S \cup P = queue /\ S \cap P = {}
    BY DEF Message, Kinds, Paced
  <1>2. IsFiniteSet(S) /\ IsFiniteSet(P)
    BY HowManyType
  <1>3. Cardinality(S) = HowMany(queue, {"system"})
        /\ Cardinality(P) = HowMany(queue, Paced)
    BY DEF HowMany
  <1> HIDE DEF S, P
  <1>4. Cardinality(S \cup P)
          = Cardinality(S) + Cardinality(P) - Cardinality(S \cap P)
    BY <1>2, FS_Union
  <1>5. Cardinality(S \cap P) = 0
    BY <1>1, FS_EmptySet
  <1>6. Cardinality(S) \in Nat /\ Cardinality(P) \in Nat
    BY <1>2, FS_CardinalityType
  <1>7. Cardinality(queue) = Cardinality(S) + Cardinality(P)
    BY <1>1, <1>4, <1>5, <1>6
  <1> QED
    BY <1>3, <1>6, <1>7, Zenon

\* A new message is counted with its kind.
LEMMA HowManyAdded ==
  ASSUME NEW queue, IsFiniteSet(queue), NEW m, m \notin queue, NEW kinds
  PROVE  HowMany(queue \cup {m}, kinds)
           = IF m.kind \in kinds THEN HowMany(queue, kinds) + 1
             ELSE HowMany(queue, kinds)
PROOF
  <1> DEFINE Q == {n \in queue : n.kind \in kinds}
  <1>1. IsFiniteSet(Q) /\ m \notin Q
    BY HowManyType
  <1>2. CASE m.kind \in kinds
    <2>1. {n \in queue \cup {m} : n.kind \in kinds} = Q \cup {m}
      BY <1>2
    <2> HIDE DEF Q
    <2>2. Cardinality(Q \cup {m}) = Cardinality(Q) + 1
      BY <1>1, FS_AddElement
    <2> QED
      BY <1>2, <2>1, <2>2 DEF HowMany, Q
  <1>3. CASE m.kind \notin kinds
    <2>1. {n \in queue \cup {m} : n.kind \in kinds} = Q
      BY <1>3
    <2> QED
      BY <1>3, <2>1 DEF HowMany
  <1> QED
    BY <1>2, <1>3

\* A message taken is no longer counted.
LEMMA HowManyTaken ==
  ASSUME NEW queue, IsFiniteSet(queue), NEW m \in queue, NEW kinds
  PROVE  HowMany(queue \ {m}, kinds)
           = IF m.kind \in kinds THEN HowMany(queue, kinds) - 1
             ELSE HowMany(queue, kinds)
PROOF
  <1> DEFINE Q == {n \in queue : n.kind \in kinds}
  <1>1. IsFiniteSet(Q)
    BY HowManyType
  <1>2. CASE m.kind \in kinds
    <2>1. {n \in queue \ {m} : n.kind \in kinds} = Q \ {m} /\ m \in Q
      BY <1>2
    <2> HIDE DEF Q
    <2>2. Cardinality(Q \ {m}) = Cardinality(Q) - 1
      BY <1>1, <2>1, FS_RemoveElement
    <2> QED
      BY <1>2, <2>1, <2>2 DEF HowMany, Q
  <1>3. CASE m.kind \notin kinds
    <2>1. {n \in queue \ {m} : n.kind \in kinds} = Q
      BY <1>3
    <2> QED
      BY <1>3, <2>1 DEF HowMany
  <1> QED
    BY <1>2, <1>3
\* The state of OutboundQueue, as CountedQueue sees it.
CurrentKind(w) ==
  CASE w = None -> "none"
    [] w # None /\ w.kind \in Paced -> "paced"
    [] OTHER -> "system"

WriteStatus(op, cl) ==
  CASE op /\ ~cl -> "pending"
    [] op /\ cl  -> "error"
    [] OTHER -> "none"

TimerStatus(expiry, fired) ==
  {w \in {"armed", "fired"} : IF w = "armed" THEN expiry # None ELSE fired}

View(cl, queue, w, op, expiry, fired) ==
  Rec(cl, HowMany(queue, {"system"}), HowMany(queue, Paced), CurrentKind(w),
      WriteStatus(op, cl), TimerStatus(expiry, fired))

\* View is the refinement mapping, before and after a step.
LEMMA CountedIsView ==
  /\ Counted = View(closed, outbound, current_write, write_op, write_timer,
                    timer_fired)
  /\ Counted' = View(closed', outbound', current_write', write_op',
                     write_timer', timer_fired')
PROOF
  <1>1. /\ Count({"system"}) = HowMany(outbound, {"system"})
        /\ Count(Paced) = HowMany(outbound, Paced)
        /\ Count({"system"})' = HowMany(outbound', {"system"})
        /\ Count(Paced)' = HowMany(outbound', Paced)
    BY Zenon DEF Count, HowMany
  <1> QED
    BY <1>1, Zenon DEF Counted, View, Rec, CurrentKind, WriteStatus,
                       TimerStatus

\* Nobody writes, a message is being written, and its kinds.
LEMMA CurrentKinds ==
  ASSUME NEW w \in Write \cup {None}
  PROVE  /\ CurrentKind(w) \in {"none", "system", "paced"}
         /\ w = None => CurrentKind(w) = "none"
         /\ w # None => CurrentKind(w) = IF w.kind = "system" THEN "system"
                                         ELSE "paced"
PROOF
  BY NoneAssumption DEF CurrentKind, Write, Kinds, Paced

\* The state of the write.
LEMMA WriteStatuses ==
  ASSUME NEW op \in BOOLEAN, NEW cl \in BOOLEAN
  PROVE  /\ WriteStatus(op, cl) \in {"none", "pending", "error"}
         /\ ~op => WriteStatus(op, cl) = "none"
         /\ op /\ ~cl => WriteStatus(op, cl) = "pending"
         /\ op /\ cl => WriteStatus(op, cl) = "error"
PROOF
  BY DEF WriteStatus

\* The timer: armed, cancelled, expired, handled.
LEMMA TimerStatuses ==
  ASSUME NEW expiry, NEW fired \in BOOLEAN
  PROVE  /\ TimerStatus(expiry, fired) \in SUBSET {"armed", "fired"}
         /\ "armed" \in TimerStatus(expiry, fired) <=> expiry # None
         /\ "fired" \in TimerStatus(expiry, fired) <=> fired
         /\ \A e : e # None => TimerStatus(e, fired)
                                 = TimerStatus(expiry, fired) \cup {"armed"}
         /\ TimerStatus(None, fired) = TimerStatus(expiry, fired) \ {"armed"}
         /\ \A f \in BOOLEAN :
              /\ ~f => TimerStatus(expiry, f)
                         = TimerStatus(expiry, fired) \ {"fired"}
              /\ f => TimerStatus(None, f)
                        = (TimerStatus(expiry, fired) \ {"armed"})
                            \cup {"fired"}
PROOF
  BY DEF TimerStatus

-----------------------------------------------------------------------------
\* schedule_write in OutboundQueue is schedule_write in Session: the limits
\* let the selected message go first, or hold back every message.
LEMMA ScheduleWriteCounted ==
  ASSUME NEW queue \in SUBSET Message, IsFiniteSet(queue),
         NEW lim \in Limiter, now \in Nat, closed \in BOOLEAN,
         timer_fired' \in BOOLEAN, closed' = closed,
         \A m \in queue : m.kind = "system" => m.due <= now,
         ScheduleWrite(queue, lim), NEW idle, NEW op, op = FALSE,
         idle = View(closed, queue, None, op, write_timer, timer_fired')
  PROVE  \E pacing \in Queue!Pacing :
           Counted' = Queue!ScheduleWrite(idle, pacing)
PROOF
  <1> DEFINE system == HowMany(queue, {"system"})
             paced == HowMany(queue, Paced)
             timer == TimerStatus(write_timer, timer_fired')
             system2 == system - 1
             paced2 == paced - 1
  <1>1. /\ system \in Nat /\ paced \in Nat
        /\ system + paced = Cardinality(queue)
    BY HowManyAll
  <1>2. /\ timer \in SUBSET {"armed", "fired"}
        /\ \A e : e # None => TimerStatus(e, timer_fired')
                                 = timer \cup {"armed"}
    BY TimerStatuses
  <1>3. /\ CurrentKind(None) = "none"
        /\ \A o \in BOOLEAN :
             /\ ~o => WriteStatus(o, closed) = "none"
             /\ o /\ ~closed => WriteStatus(o, closed) = "pending"
    BY CurrentKinds, WriteStatuses
  <1>4. idle = Rec(closed, system, paced, "none", "none", timer)
    BY <1>3, Zenon DEF View
  <1>5. Counted' = View(closed, outbound', current_write', write_op',
                        write_timer', timer_fired')
    BY CountedIsView, Zenon
  <1>6. "held" \in Queue!Pacing /\ "first" \in Queue!Pacing
    BY DEF Queue!Pacing
  <1> HIDE DEF system, paced, timer, system2, paced2
  <1>7. PICK none \in {"none", "system", "paced"},
             still \in {"none", "pending", "error"} :
          none = "none" /\ still = "none"
    OBVIOUS
  <1>8. idle = Rec(closed, system, paced, none, still, timer)
    BY <1>4, <1>7, Zenon
  <1>9. /\ closed \/ system + paced = 0 =>
             \A pacing : Queue!ScheduleWrite(idle, pacing) = idle
        /\ ~closed /\ system > 0 =>
             Queue!ScheduleWrite(idle, "held")
               = Rec(closed, system2, paced, "system", "pending", timer)
        /\ ~closed /\ paced > 0 =>
             Queue!ScheduleWrite(idle, "first")
               = Rec(closed, system, paced2, "paced", "pending", timer)
        /\ ~closed /\ system = 0 /\ paced > 0 =>
             Queue!ScheduleWrite(idle, "held")
               = Rec(closed, system, paced, none, still,
                     timer \cup {"armed"})
    <2>1. idle = Rec(closed, system, paced, "none", still, timer)
      BY <1>4, <1>7, Zenon
    <2>2. ASSUME NEW pacing
          PROVE  closed \/ system + paced = 0 =>
                   Queue!ScheduleWrite(idle, pacing) = idle
      BY <1>1, <1>2, <1>8, RecRests
    <2>3. /\ ~closed /\ system > 0 =>
               Queue!ScheduleWrite(idle, "held")
                 = Rec(closed, system2, paced, "system", "pending", timer)
          /\ ~closed /\ paced > 0 =>
               Queue!ScheduleWrite(idle, "first")
                 = Rec(closed, system, paced2, "paced", "pending", timer)
          /\ ~closed /\ system = 0 /\ paced > 0 =>
               Queue!ScheduleWrite(idle, "held")
                 = Rec(closed, system, paced, "none", still,
                       timer \cup {"armed"})
      <3>1. /\ closed \in BOOLEAN /\ system \in Nat /\ paced \in Nat
            /\ system2 = system - 1 /\ paced2 = paced - 1
        BY <1>1 DEF system2, paced2
      <3>2. timer \in SUBSET {"armed", "fired"}
        BY <1>2, Zenon
      <3>3. Schedules(idle, closed, system, paced, still, timer, system2, paced2)
        BY <1>7, <2>1, <3>1, <3>2, RecScheduleWrite, Zenon
      <3> QED
        BY <3>3, Zenon DEF Schedules
    <2> QED
      BY <1>7, <2>2, <2>3, Zenon
  <1>10. CASE closed \/ queue = {}
    <2>1. UNCHANGED write_timer /\ outbound' = queue
          /\ current_write' = None /\ write_op' = op
      BY <1>10, Zenon DEF ScheduleWrite
    <2>2. Counted' = idle
      BY <1>5, <2>1, Zenon
    <2>3. closed \/ system + paced = 0
      BY <1>1, <1>10, FS_EmptySet
    <2> QED
      BY <1>6, <1>9, <2>2, <2>3, Zenon
  <1>11. CASE ~closed /\ queue # {}
    <2>1. \/ \E m \in queue : Waits(m, queue, lim)
          \/ \E m \in queue : StartsWriting(m, queue, lim)
      BY <1>11, ScheduleWriteCases, Zenon DEF Rests
    <2>2. \A n \in queue : AllowedAt(n, lim) \in Nat
      BY AllowedAtType
    <2>3. ASSUME NEW m \in queue, Waits(m, queue, lim)
          PROVE  Counted' = Queue!ScheduleWrite(idle, "held")
      <3>1. ASSUME NEW n \in queue
            PROVE  n.kind # "system"
        <4>1. AllowedAt(n, lim) > now
          <5>1. /\ AllowedAt(m, lim) <= AllowedAt(n, lim)
                /\ AllowedAt(m, lim) > now
            BY <2>3, Zenon DEF Waits
          <5> QED
            BY <2>2, <5>1
        <4>2. n.due \in Nat
          BY DEF Message
        <4>3. ASSUME n.kind = "system"
              PROVE  AllowedAt(n, lim) <= now
          <5>1. NextAllowed(lim, n.kind, n.channel, now) = now
            BY <4>3 DEF NextAllowed
          <5>2. n.due <= now
            BY <4>3
          <5> QED
            BY <4>2, <5>1, <5>2 DEF AllowedAt, Later
        <4> QED
          BY <2>2, <4>1, <4>3
      <3>2. {n \in queue : n.kind \in {"system"}} = {}
        BY <3>1
      <3>3. system = 0
        BY <3>2, FS_EmptySet DEF HowMany, system
      <3>4. Cardinality(queue) # 0
        BY <1>11, FS_EmptySet
      <3>5. paced > 0
        BY <1>1, <3>3, <3>4
      <3>6. /\ outbound' = queue /\ write_timer' # None
            /\ current_write' = None /\ write_op' = FALSE
        <4>1. AllowedAt(m, lim) \in Nat /\ None \notin Int
          BY <2>2, LimiterAssumption
        <4> QED
          BY <2>3, <4>1 DEF Waits
      <3>7. TimerStatus(write_timer', timer_fired') = timer \cup {"armed"}
        BY <1>2, <3>6, Zenon
      <3>8. Counted' = Rec(closed, system, paced, "none", "none",
                           timer \cup {"armed"})
        BY <1>3, <1>5, <3>6, <3>7, Zenon DEF View, system, paced
      <3> QED
        BY <1>7, <1>9, <1>11, <3>3, <3>5, <3>8, Zenon
    <2>4. ASSUME NEW m \in queue, StartsWriting(m, queue, lim)
          PROVE  \/ Counted' = Queue!ScheduleWrite(idle, "held")
                 \/ Counted' = Queue!ScheduleWrite(idle, "first")
      <3> DEFINE w == [kind |-> m.kind, channel |-> m.channel,
                       due |-> m.due, sequence |-> m.sequence, start |-> now]
      <3>1. /\ outbound' = queue \ {m} /\ current_write' = w
            /\ write_op' = TRUE /\ write_timer' = write_timer
        BY <2>4, Zenon DEF StartsWriting
      <3>2. w \in Write /\ w.kind = m.kind /\ m.kind \in Kinds
        BY DEF Message, Write
      <3> HIDE DEF w
      <3>3. CurrentKind(w) = IF m.kind = "system" THEN "system" ELSE "paced"
        BY <3>2, CurrentKinds, NoneAssumption
      <3>4. CASE m.kind = "system"
        <4>1. m.kind \in {"system"} /\ m.kind \notin Paced
          BY <3>4 DEF Paced
        <4>2. /\ HowMany(queue \ {m}, {"system"}) = system2
              /\ HowMany(queue \ {m}, Paced) = paced
          BY <4>1, HowManyTaken, Zenon DEF system, paced, system2, paced2
        <4>3. Counted' = Rec(closed, system2, paced, "system", "pending",
                             timer)
          BY <1>3, <1>5, <1>11, <3>1, <3>3, <3>4, <4>2, Zenon DEF View, timer
        <4>4. system > 0
          <5>1. HowMany(queue \ {m}, {"system"}) \in Nat
            BY FS_RemoveElement, HowManyType, Zenon
          <5> QED
            BY <1>1, <4>2, <5>1 DEF system2, paced2
        <4> QED
          BY <1>9, <1>11, <4>3, <4>4, Zenon
      <3>5. CASE m.kind # "system"
        <4>1. m.kind \notin {"system"} /\ m.kind \in Paced
          BY <3>2, <3>5 DEF Paced, Kinds
        <4>2. /\ HowMany(queue \ {m}, {"system"}) = system
              /\ HowMany(queue \ {m}, Paced) = paced2
          BY <4>1, HowManyTaken, Zenon DEF system, paced, system2, paced2
        <4>3. Counted' = Rec(closed, system, paced2, "paced", "pending",
                             timer)
          BY <1>3, <1>5, <1>11, <3>1, <3>3, <3>5, <4>2, Zenon DEF View, timer
        <4>4. paced > 0
          <5>1. HowMany(queue \ {m}, Paced) \in Nat
            BY FS_RemoveElement, HowManyType, Zenon
          <5> QED
            BY <1>1, <4>2, <5>1 DEF system2, paced2
        <4> QED
          BY <1>9, <1>11, <4>3, <4>4, Zenon
      <3> QED
        BY <3>4, <3>5
    <2> QED
      BY <1>6, <2>1, <2>3, <2>4, Zenon
  <1> QED
    BY <1>10, <1>11

-----------------------------------------------------------------------------
\* The queue is finite, and a closed session waits for nothing.
CountInv ==
  /\ IsFiniteSet(outbound)
  /\ closed => write_timer = None

\* enqueue adds one message, schedule_write takes one at most, and whatever
\* closes a session cancels its timer.
LEMMA CountInvStep ==
  ASSUME IInv, CountInv, [Next]_vars
  PROVE  CountInv'
PROOF
  <1>1. IsFiniteSet(outbound) /\ (closed => write_timer = None)
    BY DEF CountInv
  <1>2. ASSUME NEW queue, IsFiniteSet(queue), NEW lim,
               ScheduleWrite(queue, lim), closed' = closed
        PROVE  CountInv'
    <2>1. outbound' = queue \/ \E m : outbound' = queue \ {m}
      BY <1>2, Zenon DEF ScheduleWrite, ArmWriteTimer, StartWrite
    <2>2. closed => write_timer' = write_timer
      BY <1>2, Zenon DEF ScheduleWrite
    <2>3. IsFiniteSet(outbound')
      BY <1>2, <2>1, FS_RemoveElement, Zenon
    <2> QED
      BY <1>1, <1>2, <2>2, <2>3, Zenon DEF CountInv
  <1>3. ASSUME UNCHANGED outbound, write_timer' = None \/
                                   UNCHANGED <<closed, write_timer>>
        PROVE  CountInv'
    BY <1>1, <1>3 DEF CountInv
  <1>4. ASSUME NEW r \in Requests, Enqueue(r[1], r[2], r[3])
        PROVE  CountInv'
    <2> DEFINE m == [kind |-> r[1], channel |-> r[2], due |-> now + r[3],
                     sequence |-> next_sequence]
    <2>1. \/ UNCHANGED <<closed, outbound, write_timer>>
          \/ UNCHANGED outbound /\ write_timer' = None
          \/ outbound' = outbound \cup {m} /\ UNCHANGED <<closed, write_timer>>
          \/ ScheduleWrite(outbound \cup {m}, limiter) /\ UNCHANGED closed
      BY <1>4, Zenon DEF Enqueue, Finish
    <2> HIDE DEF m
    <2>2. IsFiniteSet(outbound \cup {m})
      BY <1>1, FS_AddElement
    <2>3. CASE outbound' = outbound \cup {m} /\ UNCHANGED <<closed, write_timer>>
      BY <1>1, <2>2, <2>3 DEF CountInv
    <2> QED
      BY <1>2, <1>3, <2>1, <2>2, <2>3
  <1>5. CASE TimerExpires
    BY <1>3, <1>5 DEF TimerExpires
  <1>6. CASE TimerHandler
    BY <1>1, <1>2, <1>3, <1>6 DEF TimerHandler
  <1>7. CASE WriteDone
    BY <1>1, <1>2, <1>7 DEF WriteDone
  <1>8. CASE WriteFailed
    BY <1>3, <1>8 DEF WriteFailed
  <1>9. CASE SessionEnds
    BY <1>3, <1>9 DEF SessionEnds, Finish
  <1>10. CASE NewSession
    BY <1>1, <1>10, FS_EmptySet DEF NewSession, CountInv
  <1>11. CASE Tick
    BY <1>3, <1>11 DEF Tick, sessionVars
  <1>12. CASE UNCHANGED vars
    BY <1>3, <1>12 DEF vars, sessionVars
  <1> QED
    BY <1>4, <1>5, <1>6, <1>7, <1>8, <1>9, <1>10, <1>11, <1>12 DEF Next

\* What the steps below need of the invariants.
CountedInv == IInv /\ Numbered /\ CountInv

\* The mapped state, field by field.
LEMMA CountedFields ==
  ASSUME CountedInv
  PROVE  /\ closed \in BOOLEAN
         /\ HowMany(outbound, {"system"}) \in Nat
         /\ HowMany(outbound, Paced) \in Nat
         /\ CurrentKind(current_write) \in {"none", "system", "paced"}
         /\ WriteStatus(write_op, closed) \in {"none", "pending", "error"}
         /\ TimerStatus(write_timer, timer_fired) \in SUBSET {"armed", "fired"}
         /\ Counted = Rec(closed, HowMany(outbound, {"system"}),
                          HowMany(outbound, Paced), CurrentKind(current_write),
                          WriteStatus(write_op, closed),
                          TimerStatus(write_timer, timer_fired))
         /\ Counted' = Rec(closed', HowMany(outbound', {"system"}),
                           HowMany(outbound', Paced),
                           CurrentKind(current_write'),
                           WriteStatus(write_op', closed'),
                           TimerStatus(write_timer', timer_fired'))
PROOF
  <1>1. /\ closed \in BOOLEAN /\ write_op \in BOOLEAN
        /\ timer_fired \in BOOLEAN /\ current_write \in Write \cup {None}
        /\ outbound \in SUBSET Message /\ IsFiniteSet(outbound)
    BY DEF CountedInv, CountInv, IInv, TypeOK
  <1>2. /\ HowMany(outbound, {"system"}) \in Nat
        /\ HowMany(outbound, Paced) \in Nat
    BY <1>1, HowManyAll
  <1>3. /\ CurrentKind(current_write) \in {"none", "system", "paced"}
        /\ WriteStatus(write_op, closed) \in {"none", "pending", "error"}
        /\ TimerStatus(write_timer, timer_fired) \in SUBSET {"armed", "fired"}
    BY <1>1, CurrentKinds, WriteStatuses, TimerStatuses
  <1> QED
    BY <1>1, <1>2, <1>3, CountedIsView, Zenon DEF View

\* Fields of the record.
LEMMA RecReads ==
  \A cl, system, paced, current, write, timer :
    /\ Rec(cl, system, paced, current, write, timer).write = write
    /\ Rec(cl, system, paced, current, write, timer).write_timer = timer
    /\ Rec(cl, system, paced, current, write, timer).closed = cl
PROOF
  BY DEF Rec

\* The changes the handlers make to one or two fields.
WithTimer(s, timer) == [s EXCEPT !.write_timer = timer]
Unwritten(s) == [s EXCEPT !.write = "none"]
Idle(s) == [s EXCEPT !.write = "none", !.current = "none"]

\* Those changes, on the record.
LEMMA RecChanges ==
  ASSUME NEW cl \in BOOLEAN, NEW system \in Int, NEW paced \in Int,
         NEW current \in {"none", "system", "paced"},
         NEW write \in {"none", "pending", "error"},
         NEW timer \in SUBSET {"armed", "fired"},
         NEW timer2 \in SUBSET {"armed", "fired"}, NEW s,
         s = Rec(cl, system, paced, current, write, timer)
  PROVE  /\ WithTimer(s, timer2)
              = Rec(cl, system, paced, current, write, timer2)
         /\ Unwritten(s)
              = Rec(cl, system, paced, current, "none", timer)
         /\ Idle(s)
              = Rec(cl, system, paced, "none", "none", timer)
PROOF
  <1>1. /\ s \in QueueRecord
        /\ s.closed = cl /\ s.system = system /\ s.paced = paced
        /\ s.current = current /\ s.write = write /\ s.write_timer = timer
    BY RecType
  <1>2. WithTimer(s, timer2)
          = Rec(cl, system, paced, current, write, timer2)
    <2>1. PICK x : x = WithTimer(s, timer2)
      OBVIOUS
    <2>2. /\ x \in QueueRecord
          /\ x.closed = cl /\ x.system = system /\ x.paced = paced
          /\ x.current = current /\ x.write = write /\ x.write_timer = timer2
      BY <1>1, <2>1 DEF QueueRecord, WithTimer, Unwritten, Idle
    <2> QED
      BY <2>1, <2>2, RecExtensional, Zenon
  <1>3. Unwritten(s)
          = Rec(cl, system, paced, current, "none", timer)
    <2>1. PICK x : x = Unwritten(s)
      OBVIOUS
    <2>2. /\ x \in QueueRecord
          /\ x.closed = cl /\ x.system = system /\ x.paced = paced
          /\ x.current = current /\ x.write = "none" /\ x.write_timer = timer
      BY <1>1, <2>1 DEF QueueRecord, WithTimer, Unwritten, Idle
    <2> QED
      BY <2>1, <2>2, RecExtensional, Zenon
  <1>4. Idle(s)
          = Rec(cl, system, paced, "none", "none", timer)
    <2>1. PICK x : x = Idle(s)
      OBVIOUS
    <2>2. /\ x \in QueueRecord
          /\ x.closed = cl /\ x.system = system /\ x.paced = paced
          /\ x.current = "none" /\ x.write = "none" /\ x.write_timer = timer
      BY <1>1, <2>1 DEF QueueRecord, WithTimer, Unwritten, Idle
    <2> QED
      BY <2>1, <2>2, RecExtensional, Zenon
  <1> QED
    BY <1>2, <1>3, <1>4, Zenon

\* A wait that has ended.
LEMMA TimerExpiresCounted ==
  ASSUME CountedInv, TimerExpires
  PROVE  Queue!Next
PROOF
  <1> DEFINE system == HowMany(outbound, {"system"})
             paced == HowMany(outbound, Paced)
             current == CurrentKind(current_write)
             write == WriteStatus(write_op, closed)
             timer == TimerStatus(write_timer, timer_fired)
             timer2 == TimerStatus(write_timer', timer_fired')
  <1>1. /\ write_timer # None /\ write_timer' = None /\ timer_fired' = TRUE
        /\ UNCHANGED <<closed, outbound, current_write, write_op>>
    BY DEF TimerExpires
  <1>2. /\ timer_fired \in BOOLEAN /\ timer_fired' \in BOOLEAN
    BY <1>1 DEF CountedInv, IInv, TypeOK
  <1>3. /\ "armed" \in timer
        /\ timer2 = (timer \ {"armed"}) \cup {"fired"}
    BY <1>1, <1>2, TimerStatuses
  <1>4. /\ Counted = Rec(closed, system, paced, current, write, timer)
        /\ Counted' = Rec(closed, system, paced, current, write, timer2)
    BY <1>1, CountedFields, Zenon
  <1> HIDE DEF system, paced, current, write, timer, timer2
  <1>5. PICK s : s = Rec(closed, system, paced, current, write, timer)
    OBVIOUS
  <1>6. /\ closed \in BOOLEAN /\ system \in Int /\ paced \in Int
        /\ current \in {"none", "system", "paced"}
        /\ write \in {"none", "pending", "error"}
        /\ timer \in SUBSET {"armed", "fired"}
        /\ timer2 \in SUBSET {"armed", "fired"}
    BY <1>3, CountedFields DEF system, paced, current, write, timer
  <1>7. /\ s.write_timer = timer
        /\ WithTimer(s, timer2)
             = Rec(closed, system, paced, current, write, timer2)
    <2>1. s.write_timer = timer
      BY <1>5, <1>6, RecType
    <2>2. WithTimer(s, timer2)
            = Rec(closed, system, paced, current, write, timer2)
      BY <1>5, <1>6, RecChanges
    <2> QED
      BY <2>1, <2>2
  <1>8. Queue!Expire(timer) = timer2
    BY <1>3 DEF Queue!Expire
  <1>9. Queue!TimerExpires
    BY <1>3, <1>4, <1>5, <1>7, <1>8, Zenon
       DEF Queue!TimerExpires, WithTimer
  <1> QED
    BY <1>9 DEF Queue!Next

\* A Result that has called nothing back.
LEMMA RunningSession == \A x : Queue!Running(x).s = x
PROOF
  BY DEF Queue!Running

\* The handler of the timer.
LEMMA TimerHandlerCounted ==
  ASSUME CountedInv, TimerHandler
  PROVE  Queue!Next
PROOF
  <1> DEFINE system == HowMany(outbound, {"system"})
             paced == HowMany(outbound, Paced)
             current == CurrentKind(current_write)
             write == WriteStatus(write_op, closed)
             timer == TimerStatus(write_timer, timer_fired)
             timer2 == TimerStatus(write_timer, timer_fired')
  <1>1. /\ timer_fired /\ timer_fired' = FALSE
        /\ UNCHANGED <<now, closed>>
        /\ IF current_write # None
           THEN UNCHANGED <<outbound, current_write, write_op, write_timer>>
           ELSE ScheduleWrite(outbound, limiter)
    BY DEF TimerHandler
  <1>2. /\ timer_fired \in BOOLEAN /\ timer_fired' \in BOOLEAN
        /\ closed \in BOOLEAN /\ write_op \in BOOLEAN
        /\ current_write \in Write \cup {None} /\ now \in Nat
        /\ outbound \in SUBSET Message /\ limiter \in Limiter
        /\ write_op => current_write # None
        /\ IsFiniteSet(outbound)
        /\ \A m \in outbound : m.kind = "system" => m.due <= now
    BY <1>1 DEF CountedInv, IInv, TypeOK, PacingInv, CountInv, Numbered
  <1>3. "fired" \in timer /\ timer2 = timer \ {"fired"}
    BY <1>1, <1>2, TimerStatuses
  <1>4. /\ closed \in BOOLEAN /\ system \in Nat /\ paced \in Nat
        /\ current \in {"none", "system", "paced"}
        /\ write \in {"none", "pending", "error"}
        /\ timer \in SUBSET {"armed", "fired"}
        /\ timer2 \in SUBSET {"armed", "fired"}
        /\ Counted = Rec(closed, system, paced, current, write, timer)
    BY <1>3, CountedFields
  <1>5. current_write # None =>
          /\ current # "none"
          /\ Counted' = Rec(closed, system, paced, current, write, timer2)
    <2>1. current_write # None => current # "none"
      BY <1>2, CurrentKinds
    <2> QED
      BY <1>1, <2>1, CountedFields, Zenon
  <1>6. current_write = None =>
          \A op : op = FALSE =>
            Rec(closed, system, paced, current, write, timer2)
              = View(closed, outbound, None, op, write_timer, timer_fired')
    <2>1. current_write = None => ~write_op
      BY <1>2
    <2>2. \A op : op = FALSE /\ current_write = None => op = write_op
      BY <1>2, <2>1
    <2> QED
      BY <2>2, Zenon DEF View
  <1> HIDE DEF system, paced, current, write, timer, timer2
  <1>7. PICK idle : idle = Rec(closed, system, paced, current, write, timer2)
    OBVIOUS
  <1>8. \E pacing \in Queue!Pacing :
          Counted' = Queue!ScheduleWrite(idle, pacing)
    <2>1. CASE current_write # None
      <3>1. \A pacing : Queue!ScheduleWrite(idle, pacing) = idle
        BY <1>4, <1>5, <1>7, <2>1, RecRests
      <3>2. "held" \in Queue!Pacing
        BY DEF Queue!Pacing
      <3> QED
        BY <1>5, <1>7, <2>1, <3>1, <3>2, Zenon
    <2>2. CASE current_write = None
      <3>1. PICK op : op = FALSE
        OBVIOUS
      <3>2. idle = View(closed, outbound, None, op, write_timer, timer_fired')
        BY <1>6, <1>7, <2>2, <3>1, Zenon
      <3>3. ScheduleWrite(outbound, limiter) /\ closed' = closed
        BY <1>1, <2>2
      <3> QED
        BY <1>2, <3>1, <3>2, <3>3, ScheduleWriteCounted
    <2> QED
      BY <2>1, <2>2
  <1>9. PICK s : s = Counted
    OBVIOUS
  <1>10. s.write_timer = timer /\ WithTimer(s, timer2) = idle
    <2>1. s = Rec(closed, system, paced, current, write, timer)
      BY <1>4, <1>9, Zenon
    <2>2. s.write_timer = timer
      BY <2>1, RecReads
    <2>3. WithTimer(s, timer2) = idle
      BY <1>4, <1>7, <2>1, RecChanges
    <2> QED
      BY <2>2, <2>3
  <1>11. \A pacing : Queue!WriteTimeout(s, pacing).s
                       = Queue!ScheduleWrite(idle, pacing)
    <2>1. \A pacing : Queue!WriteTimeout(s, pacing)
            = Queue!Running(Queue!ScheduleWrite(
                WithTimer(s, s.write_timer \ {"fired"}), pacing))
      BY Zenon DEF Queue!WriteTimeout, WithTimer
    <2>2. WithTimer(s, s.write_timer \ {"fired"}) = idle
      BY <1>3, <1>10, Zenon
    <2> QED
      BY <2>1, <2>2, RunningSession, Zenon
  <1>12. Queue!TimerHandler
    BY <1>3, <1>8, <1>9, <1>10, <1>11, Zenon DEF Queue!TimerHandler
  <1> QED
    BY <1>12 DEF Queue!Next

\* A write that is done, before or after the end of its session.
LEMMA WriteDoneCounted ==
  ASSUME CountedInv, WriteDone
  PROVE  Queue!Next
PROOF
  <1> DEFINE system == HowMany(outbound, {"system"})
             paced == HowMany(outbound, Paced)
             current == CurrentKind(current_write)
             write == WriteStatus(write_op, closed)
             timer == TimerStatus(write_timer, timer_fired)
             lim == Record(limiter, current_write.kind,
                           current_write.channel, now)
  <1>1. /\ write_op /\ UNCHANGED <<now, closed, timer_fired>>
        /\ ScheduleWrite(outbound, lim)
    BY DEF WriteDone
  <1>2. /\ timer_fired' \in BOOLEAN
        /\ closed \in BOOLEAN /\ write_op \in BOOLEAN
        /\ current_write \in Write /\ now \in Nat
        /\ outbound \in SUBSET Message /\ limiter \in Limiter
        /\ IsFiniteSet(outbound)
        /\ \A m \in outbound : m.kind = "system" => m.due <= now
    BY <1>1 DEF CountedInv, IInv, TypeOK, PacingInv, CountInv, Numbered
  <1>3. lim \in Limiter
    <2>1. /\ current_write.kind \in Kinds
          /\ current_write.channel \in Channels \cup {None}
          /\ current_write.kind = "chat" => current_write.channel \in Channels
      BY <1>2 DEF Write
    <2> QED
      BY <1>2, <2>1, RecordType
  <1>4. /\ closed \in BOOLEAN /\ system \in Nat /\ paced \in Nat
        /\ current \in {"none", "system", "paced"}
        /\ write \in {"none", "pending", "error"}
        /\ timer \in SUBSET {"armed", "fired"}
        /\ Counted = Rec(closed, system, paced, current, write, timer)
    BY CountedFields
  <1>5. write # "none"
    BY <1>1, <1>2, WriteStatuses
  <1>6. \A op : op = FALSE =>
          Rec(closed, system, paced, "none", "none", timer)
            = View(closed, outbound, None, op, write_timer, timer_fired')
    <2>1. \A op \in BOOLEAN : ~op => WriteStatus(op, closed) = "none"
      BY <1>2, WriteStatuses
    <2>2. CurrentKind(None) = "none"
      BY CurrentKinds
    <2>3. timer = TimerStatus(write_timer, timer_fired')
      BY <1>1, Zenon
    <2>4. \A op : op = FALSE => op \in BOOLEAN /\ ~op
      OBVIOUS
    <2> QED
      BY <2>1, <2>2, <2>3, <2>4, Zenon DEF View
  <1> HIDE DEF system, paced, current, write, timer, lim
  <1>7. PICK idle : idle = Rec(closed, system, paced, "none", "none", timer)
    OBVIOUS
  <1>8. \E pacing \in Queue!Pacing :
          Counted' = Queue!ScheduleWrite(idle, pacing)
    <2>1. PICK op : op = FALSE
      OBVIOUS
    <2>2. idle = View(closed, outbound, None, op, write_timer, timer_fired')
      BY <1>6, <1>7, <2>1, Zenon
    <2> QED
      BY <1>1, <1>2, <1>3, <2>1, <2>2, ScheduleWriteCounted
  <1>9. PICK s : s = Counted
    OBVIOUS
  <1>10. s.write = write /\ Idle(s) = idle
    <2>1. s = Rec(closed, system, paced, current, write, timer)
      BY <1>4, <1>9, Zenon
    <2>2. s.write = write
      BY <1>4, <2>1, RecType
    <2>3. Idle(s) = idle
      BY <1>4, <1>7, <2>1, RecChanges
    <2> QED
      BY <2>2, <2>3
  <1>11. \A pacing : Queue!Written(s, pacing).s
                       = Queue!ScheduleWrite(idle, pacing)
    <2>1. \A pacing : Queue!Written(s, pacing)
            = Queue!Running(Queue!ScheduleWrite(Idle(s), pacing))
      BY Zenon DEF Queue!Written, Idle
    <2> QED
      BY <1>10, <2>1, RunningSession, Zenon
  <1>12. Queue!WriteDone
    BY <1>5, <1>8, <1>9, <1>10, <1>11, Zenon DEF Queue!WriteDone, Queue!Writing
  <1> QED
    BY <1>12 DEF Queue!Next

\* finish.
LEMMA FinishCounted ==
  ASSUME CountedInv, ~closed, Finish, UNCHANGED timer_fired, NEW reason
  PROVE  Counted' = Queue!Finish(Queue!Running(Counted), reason).s
PROOF
  <1> DEFINE system == HowMany(outbound, {"system"})
             paced == HowMany(outbound, Paced)
             current == CurrentKind(current_write)
             write == WriteStatus(write_op, closed)
             write2 == WriteStatus(write_op', closed')
             timer == TimerStatus(write_timer, timer_fired)
             timer2 == TimerStatus(write_timer', timer_fired')
  <1>1. /\ closed' = TRUE /\ write_timer' = None
        /\ UNCHANGED <<outbound, current_write, write_op, timer_fired>>
    BY DEF Finish
  <1>2. /\ timer_fired \in BOOLEAN /\ write_op \in BOOLEAN
        /\ closed \in BOOLEAN /\ closed' \in BOOLEAN
    BY <1>1 DEF CountedInv, IInv, TypeOK
  <1>3. timer2 = timer \ {"armed"}
    BY <1>1, <1>2, TimerStatuses
  <1>4. write2 = IF write = "pending" THEN "error" ELSE write
    BY <1>1, <1>2, WriteStatuses
  <1>5. /\ Counted = Rec(closed, system, paced, current, write, timer)
        /\ Counted' = Rec(closed', system, paced, current, write2, timer2)
    BY <1>1, CountedFields, Zenon
  <1> HIDE DEF system, paced, current, write, timer, write2, timer2
  <1>6. PICK s : s = Counted
    OBVIOUS
  <1>7. PICK cl \in BOOLEAN, cl2 \in BOOLEAN :
          s = Counted /\ cl = closed /\ cl2 = closed'
    BY <1>6, <1>2
  <1>8. /\ s = Rec(cl, system, paced, current, write, timer)
        /\ cl2 # cl /\ ~cl
    BY <1>1, <1>2, <1>5, <1>7, Zenon
  <1>9. PICK r : r = Queue!Finish(Queue!Running(s), reason)
    OBVIOUS
  <1>10. r.s = Rec(cl2, system, paced, current, write2, timer2)
    BY <1>3, <1>4, <1>8, <1>9, RecFinish
  <1> QED
    BY <1>5, <1>7, <1>9, <1>10, Zenon

\* Any other end of a session.
LEMMA SessionEndsCounted ==
  ASSUME CountedInv, SessionEnds
  PROVE  Queue!Next
PROOF
  <1>1. ~closed /\ Finish /\ UNCHANGED timer_fired
    BY DEF SessionEnds
  <1>2. Counted' = Queue!Finish(Queue!Running(Counted), "stopped").s
    BY <1>1, FinishCounted
  <1> QED
    BY <1>2, Zenon DEF Queue!Next, Queue!SessionEnds

\* A write that fails, before or after the end of its session.
LEMMA WriteFailedCounted ==
  ASSUME CountedInv, WriteFailed
  PROVE  Queue!Next
PROOF
  <1> DEFINE system == HowMany(outbound, {"system"})
             paced == HowMany(outbound, Paced)
             current == CurrentKind(current_write)
             write == WriteStatus(write_op, closed)
             timer == TimerStatus(write_timer, timer_fired)
             timer2 == TimerStatus(write_timer', timer_fired')
  <1>1. /\ write_op /\ write_op' = FALSE /\ closed' = TRUE
        /\ write_timer' = None
        /\ UNCHANGED <<outbound, current_write, timer_fired>>
    BY DEF WriteFailed
  <1>2. /\ timer_fired \in BOOLEAN /\ write_op \in BOOLEAN
        /\ closed \in BOOLEAN /\ closed' \in BOOLEAN /\ write_op' \in BOOLEAN
        /\ closed => write_timer = None
    BY <1>1 DEF CountedInv, IInv, TypeOK, CountInv
  <1>3. timer2 = timer \ {"armed"} /\ (closed => timer2 = timer)
    BY <1>1, <1>2, TimerStatuses
  <1>4. write # "none" /\ WriteStatus(write_op', closed') = "none"
    BY <1>1, <1>2, WriteStatuses
  <1>5. /\ closed \in BOOLEAN /\ system \in Nat /\ paced \in Nat
        /\ current \in {"none", "system", "paced"}
        /\ write \in {"none", "pending", "error"}
        /\ timer \in SUBSET {"armed", "fired"}
        /\ Counted = Rec(closed, system, paced, current, write, timer)
    BY CountedFields
  <1>6. Counted' = Rec(closed', system, paced, current, "none", timer2)
    BY <1>1, <1>4, CountedFields, Zenon
  <1> HIDE DEF system, paced, current, write, timer, timer2
  <1>7. PICK s : s = Counted
    OBVIOUS
  <1>8. PICK cl \in BOOLEAN, cl2 \in BOOLEAN :
          s = Counted /\ cl = closed /\ cl2 = closed'
    BY <1>7, <1>2
  <1>9. s = Rec(cl, system, paced, current, write, timer)
    BY <1>5, <1>8, Zenon
  <1>10. s.write = write
    BY <1>9, RecReads
  <1>11. Unwritten(s) = Rec(cl, system, paced, current, "none", timer)
    BY <1>5, <1>8, <1>9, RecChanges
  <1>12. PICK still : still = "none"
    OBVIOUS
  <1>13. PICK u : u = Unwritten(s)
    OBVIOUS
  <1>14. PICK r : r = Queue!Finish(Queue!Running(u), "network_error")
    OBVIOUS
  <1>15. Counted' = r.s
    <2>1. u = Rec(cl, system, paced, current, still, timer)
      BY <1>11, <1>12, <1>13, Zenon
    <2>2. Counted' = Rec(cl2, system, paced, current, still, timer2)
      BY <1>6, <1>8, <1>12, Zenon
    <2>3. CASE ~closed
      <3>1. ~cl /\ cl2 # cl
        BY <1>1, <1>8, <2>3
      <3>2. still = IF still = "pending" THEN "error" ELSE still
        BY <1>12
      <3>3. timer2 = timer \ {"armed"}
        BY <1>3
      <3>4. r.s = Rec(cl2, system, paced, current, still, timer2)
        BY <1>14, <2>1, <3>1, <3>2, <3>3, RecFinish
      <3> QED
        BY <2>2, <3>4, Zenon
    <2>4. CASE closed
      <3>1. cl = cl2 /\ timer2 = timer
        BY <1>1, <1>3, <1>8, <2>4
      <3>2. Counted' = u
        BY <2>1, <2>2, <3>1, Zenon
      <3>3. u.closed = cl
        BY <2>1, RecReads
      <3>4. u.closed
        BY <1>8, <2>4, <3>3
      <3>5. r.s = u
        BY <1>14, <3>4, FinishTwice
      <3> QED
        BY <3>2, <3>5, Zenon
    <2> QED
      BY <2>3, <2>4
  <1>16. Queue!WriteFailed
    BY <1>4, <1>8, <1>10, <1>13, <1>14, <1>15, Zenon
       DEF Queue!WriteFailed, Queue!Writing, Unwritten
  <1> QED
    BY <1>16 DEF Queue!Next

\* connect, after the last handler of the old session.
LEMMA NewSessionCounted ==
  ASSUME CountedInv, NewSession
  PROVE  Queue!Next
PROOF
  <1>1. /\ closed /\ ~write_op /\ ~timer_fired /\ closed' = FALSE
        /\ outbound' = {} /\ current_write' = None
        /\ UNCHANGED <<write_op, write_timer, timer_fired>>
        /\ write_timer = None
        /\ write_op \in BOOLEAN /\ closed \in BOOLEAN
        /\ closed' \in BOOLEAN /\ timer_fired \in BOOLEAN
    BY DEF NewSession, CountedInv, CountInv, IInv, TypeOK
  <1>2. HowMany(outbound', {"system"}) = 0 /\ HowMany(outbound', Paced) = 0
    <2>1. \A kinds : {m \in {} : m.kind \in kinds} = {}
      OBVIOUS
    <2> QED
      BY <1>1, <2>1, FS_EmptySet, Zenon DEF HowMany
  <1>3. /\ CurrentKind(None) = "none"
        /\ WriteStatus(write_op, closed) = "none"
        /\ WriteStatus(write_op, closed') = "none"
    BY <1>1, CurrentKinds, WriteStatuses
  <1>4. TimerStatus(write_timer, timer_fired) = {}
    BY <1>1 DEF TimerStatus
  <1>5. Counted' = Rec(closed', 0, 0, "none", "none", {})
    BY <1>1, <1>2, <1>3, <1>4, CountedFields, Zenon
  <1>6. \A cl : cl = FALSE =>
          Queue!NewSession = Rec(cl, 0, 0, "none", "none", {})
    BY Zenon DEF Queue!NewSession, Queue!NewProtocol, Rec
  <1>7. Counted' = Queue!NewSession
    BY <1>1, <1>5, <1>6, Zenon
  <1>8. Counted.closed /\ ~Queue!Held(Counted)
    <2>1. /\ Counted.closed = closed /\ Counted.dial = "none"
          /\ Counted.read = "none"
          /\ Counted.write = WriteStatus(write_op, closed)
          /\ Counted.write_timer = TimerStatus(write_timer, timer_fired)
          /\ Counted.auth_timer = {}
      BY DEF Counted, WriteStatus, TimerStatus
    <2> QED
      BY <1>1, <1>3, <1>4, <2>1, Zenon DEF Queue!Held
  <1> QED
    BY <1>7, <1>8, Zenon DEF Queue!Next

\* enqueue, by a protocol action or an automated response.
LEMMA EnqueueCounted ==
  ASSUME CountedInv, NEW r \in Requests, Enqueue(r[1], r[2], r[3])
  PROVE  [Queue!Next]_Counted
PROOF
  <1> DEFINE system == HowMany(outbound, {"system"})
             paced == HowMany(outbound, Paced)
             current == CurrentKind(current_write)
             write == WriteStatus(write_op, closed)
             timer == TimerStatus(write_timer, timer_fired)
             m == [kind |-> r[1], channel |-> r[2], due |-> now + r[3],
                   sequence |-> next_sequence]
             queue == outbound \cup {m}
             system2 == IF m.kind = "system" THEN system + 1 ELSE system
             paced2 == IF m.kind = "system" THEN paced ELSE paced + 1
  <1>1. /\ ~closed /\ UNCHANGED <<now, timer_fired>>
        /\ \/ /\ Cardinality(outbound) >= QueueMax /\ m.kind = "chat"
              /\ UNCHANGED <<closed, outbound, current_write, write_op,
                             write_timer>>
           \/ /\ Cardinality(outbound) >= QueueMax /\ m.kind # "chat"
              /\ Finish
           \/ /\ Cardinality(outbound) < QueueMax /\ current_write # None
              /\ outbound' = queue
              /\ UNCHANGED <<closed, current_write, write_op, write_timer>>
           \/ /\ Cardinality(outbound) < QueueMax /\ current_write = None
              /\ ScheduleWrite(queue, limiter) /\ UNCHANGED closed
    BY DEF Enqueue
  <1>2. /\ m \in Message /\ m.kind \in Kinds
        /\ m.kind = "system" => m.due <= now
        /\ m.sequence = next_sequence
    <2>1. now \in Nat /\ next_sequence \in Nat
      BY DEF CountedInv, IInv, TypeOK
    <2>2. r[1] = "system" => r[3] = 0
      BY DEF Requests
    <2>3. m \in Message /\ m.kind \in Kinds
      BY <2>1, RequestsType DEF Message
    <2> QED
      BY <2>1, <2>2, <2>3
  <1> HIDE DEF m
  <1>3. /\ timer_fired \in BOOLEAN /\ timer_fired' \in BOOLEAN
        /\ closed \in BOOLEAN /\ write_op \in BOOLEAN
        /\ current_write \in Write \cup {None} /\ now \in Nat
        /\ outbound \in SUBSET Message /\ limiter \in Limiter
        /\ write_op => current_write # None
        /\ IsFiniteSet(outbound)
        /\ \A n \in outbound : n.kind = "system" => n.due <= now
        /\ next_sequence \in Nat
        /\ \A n \in outbound : n.sequence < next_sequence
    BY <1>1 DEF CountedInv, IInv, TypeOK, PacingInv, CountInv, Numbered
  <1>4. m \notin outbound
    BY <1>2, <1>3
  <1>5. /\ queue \in SUBSET Message /\ IsFiniteSet(queue)
        /\ \A n \in queue : n.kind = "system" => n.due <= now
    <2>1. IsFiniteSet(queue)
      BY <1>3, FS_AddElement
    <2> QED
      BY <1>2, <1>3, <2>1
  <1>6. /\ HowMany(queue, {"system"}) = system2
        /\ HowMany(queue, Paced) = paced2
    <2>1. /\ m.kind \in {"system"} <=> m.kind = "system"
          /\ m.kind \in Paced <=> m.kind # "system"
      BY <1>2 DEF Paced, Kinds
    <2>2. HowMany(queue, {"system"}) = system2
      BY <1>3, <1>4, <2>1, HowManyAdded
    <2>3. HowMany(queue, Paced) = paced2
      BY <1>3, <1>4, <2>1, HowManyAdded
    <2> QED
      BY <2>2, <2>3
  <1>7. /\ closed \in BOOLEAN /\ system \in Nat /\ paced \in Nat
        /\ current \in {"none", "system", "paced"}
        /\ write \in {"none", "pending", "error"}
        /\ timer \in SUBSET {"armed", "fired"}
        /\ Counted = Rec(closed, system, paced, current, write, timer)
    BY CountedFields
  <1>8. system2 \in Nat /\ paced2 \in Nat
    BY <1>7
  <1>9. system + paced = Cardinality(outbound)
    BY <1>3, HowManyAll
  <1>10. timer = TimerStatus(write_timer, timer_fired')
    BY <1>1, Zenon
  <1>11. Counted' = View(closed', outbound', current_write', write_op',
                         write_timer', timer_fired')
    BY CountedIsView, Zenon
  <1>12. current_write # None => current # "none"
    BY <1>3, CurrentKinds
  <1>13. current_write = None =>
           \A op : op = FALSE =>
             Rec(closed, system2, paced2, current, write, timer)
               = View(closed, queue, None, op, write_timer, timer_fired')
    <2>1. current_write = None => ~write_op
      BY <1>3
    <2>2. \A op : op = FALSE /\ current_write = None => op = write_op
      BY <1>3, <2>1
    <2> QED
      BY <1>6, <1>10, <2>2, Zenon DEF View
  <1>14. /\ outbound' = queue
         /\ UNCHANGED <<closed, current_write, write_op, write_timer>>
         => Counted' = Rec(closed, system2, paced2, current, write, timer)
    BY <1>6, <1>10, <1>11, Zenon DEF View
  <1> HIDE DEF queue, system, paced, current, write, timer, system2, paced2
  <1>15. PICK s : s = Counted
    OBVIOUS
  <1>16. PICK queued :
           queued = Rec(closed, system2, paced2, current, write, timer)
    OBVIOUS
  <1>17. s = Rec(closed, system, paced, current, write, timer)
    BY <1>7, <1>15, Zenon
  <1>18. ASSUME NEW pacing
         PROVE  /\ system + paced < QueueMax =>
                     Queue!Enqueue(Queue!Running(s), m.kind, pacing).s
                       = Queue!ScheduleWrite(queued, pacing)
                /\ system + paced >= QueueMax /\ m.kind # "chat" =>
                     Queue!Enqueue(Queue!Running(s), m.kind, pacing).s
                       = Queue!Finish(Queue!Running(s), "network_error").s
    BY <1>1, <1>2, <1>7, <1>16, <1>17, RecEnqueue DEF system2, paced2
  <1>19. ASSUME NEW pacing \in Queue!Pacing,
                Counted' = Queue!Enqueue(Queue!Running(s), m.kind, pacing).s
         PROVE  Queue!Next
    BY <1>2, <1>15, <1>19, Zenon DEF Queue!Next, Queue!EnqueueOne, Kinds
  <1>20. "held" \in Queue!Pacing
    BY DEF Queue!Pacing
  <1>21. CASE UNCHANGED <<closed, outbound, current_write, write_op,
                          write_timer>>
    BY <1>1, <1>21, CountedFields, Zenon
  <1>22. CASE /\ Cardinality(outbound) >= QueueMax /\ m.kind # "chat"
              /\ Finish
    <2>1. Counted' = Queue!Finish(Queue!Running(Counted), "network_error").s
      BY <1>1, <1>22, FinishCounted
    <2> QED
      BY <1>9, <1>15, <1>18, <1>19, <1>20, <1>22, <2>1, Zenon
  <1>23. CASE /\ Cardinality(outbound) < QueueMax /\ current_write # None
              /\ outbound' = queue
              /\ UNCHANGED <<closed, current_write, write_op, write_timer>>
    <2>1. Queue!ScheduleWrite(queued, "held") = queued
      BY <1>7, <1>8, <1>12, <1>16, <1>23, RecRests
    <2>2. Counted' = queued
      BY <1>14, <1>16, <1>23, Zenon
    <2> QED
      BY <1>9, <1>18, <1>19, <1>20, <1>23, <2>1, <2>2, Zenon
  <1>24. CASE /\ Cardinality(outbound) < QueueMax /\ current_write = None
              /\ ScheduleWrite(queue, limiter) /\ UNCHANGED closed
    <2>1. PICK op : op = FALSE
      OBVIOUS
    <2>2. queued = View(closed, queue, None, op, write_timer, timer_fired')
      BY <1>13, <1>16, <1>24, <2>1, Zenon
    <2>3. \E pacing \in Queue!Pacing :
            Counted' = Queue!ScheduleWrite(queued, pacing)
      BY <1>3, <1>5, <1>24, <2>1, <2>2, ScheduleWriteCounted
    <2> QED
      BY <1>9, <1>18, <1>19, <1>24, <2>3, Zenon
  <1> QED
    BY <1>1, <1>21, <1>22, <1>23, <1>24

\* The initial queue is a new session's.
LEMMA CountedInit == Init => CountInv /\ Queue!Init
PROOF
  <1> SUFFICES ASSUME Init
               PROVE  CountInv /\ Queue!Init
    OBVIOUS
  <1>1. CountInv
    BY FS_EmptySet DEF Init, CountInv
  <1>2. HowMany(outbound, {"system"}) = 0 /\ HowMany(outbound, Paced) = 0
    <2>1. \A kinds : {m \in {} : m.kind \in kinds} = {}
      OBVIOUS
    <2> QED
      BY <2>1, FS_EmptySet, Zenon DEF Init, HowMany
  <1>3. /\ CurrentKind(current_write) = "none"
        /\ WriteStatus(write_op, closed) = "none"
        /\ TimerStatus(write_timer, timer_fired) = {}
    BY DEF Init, CurrentKind, WriteStatus, TimerStatus
  <1>4. Counted = Rec(closed, 0, 0, "none", "none", {})
    BY <1>2, <1>3, CountedIsView, Zenon DEF View
  <1>5. \A cl : cl = FALSE =>
          Queue!NewSession = Rec(cl, 0, 0, "none", "none", {})
    BY Zenon DEF Queue!NewSession, Queue!NewProtocol, Rec
  <1>6. closed = FALSE
    BY DEF Init
  <1> QED
    BY <1>1, <1>4, <1>5, <1>6, Zenon DEF Queue!Init

\* Every step of the queue is a step of CountedQueue or a stutter.
LEMMA CountedStep ==
  ASSUME CountedInv, [Next]_vars
  PROVE  [Queue!Next]_Counted
PROOF
  <1>1. ASSUME UNCHANGED sessionVars
        PROVE  UNCHANGED Counted
    BY <1>1, CountedIsView, Zenon DEF sessionVars
  <1>2. ASSUME NEW r \in Requests, Enqueue(r[1], r[2], r[3])
        PROVE  [Queue!Next]_Counted
    BY <1>2, EnqueueCounted
  <1>3. CASE TimerExpires
    BY <1>3, TimerExpiresCounted
  <1>4. CASE TimerHandler
    BY <1>4, TimerHandlerCounted
  <1>5. CASE WriteDone
    BY <1>5, WriteDoneCounted
  <1>6. CASE WriteFailed
    BY <1>6, WriteFailedCounted
  <1>7. CASE SessionEnds
    BY <1>7, SessionEndsCounted
  <1>8. CASE NewSession
    BY <1>8, NewSessionCounted
  <1>9. CASE Tick
    BY <1>1, <1>9 DEF Tick
  <1>10. CASE UNCHANGED vars
    BY <1>1, <1>10 DEF vars
  <1> QED
    BY <1>2, <1>3, <1>4, <1>5, <1>6, <1>7, <1>8, <1>9, <1>10 DEF Next

\* Session and TwitchIrcClient may count their queue: whatever the limiter, the
\* clock and the delays of the messages do, each step of the queue is one of
\* CountedQueue, with some answer of the limits.
THEOREM CountsItsQueue == Spec => IsCounted
PROOF
  <1>1. Init => CountInv /\ Queue!Init
    BY CountedInit
  <1>2. Init => Numbered /\ NoOvertaking
    BY DEF Init, NoOvertaking, Numbered
  <1>3. IInv /\ NoOvertaking /\ Numbered /\ [Next]_vars =>
          NoOvertaking' /\ Numbered'
    BY OvertakingStep
  <1>4. IInv /\ CountInv /\ [Next]_vars => CountInv'
    BY CountInvStep
  <1>5. IInv /\ Numbered /\ CountInv /\ [Next]_vars => [Queue!Next]_Counted
    BY CountedStep DEF CountedInv
  <1> QED
    BY <1>1, <1>2, <1>3, <1>4, <1>5, Invariance, PTL
       DEF Spec, IsCounted, Queue!Spec
=============================================================================
