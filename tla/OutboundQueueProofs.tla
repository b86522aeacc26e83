------------------------- MODULE OutboundQueueProofs -------------------------
(***************************************************************************)
(* Theorems about OutboundQueue, for every number of channels, every limit *)
(* and window, and every number of messages and sessions.  They rest on    *)
(* lemmas about the operators of RateLimiter (what prune keeps, what an    *)
(* allowed instant promises, that everything stays typed), which come      *)
(* first.  The pacing of chat messages and JOINs:                          *)
(*                                                                         *)
(*  - each deque holds the last entries of the history of what was sent,   *)
(*    and what pruning dropped is older than the window (Tracks);          *)
(*  - so a deque below its limit clears the next write (TracksClear), and  *)
(*    schedule_write begins a write only when next_allowed says the deque  *)
(*    is below its limit (ScheduleWriteStarts);                            *)
(*  - one write is in flight at a time, so nothing is added to the history *)
(*    between its beginning and its completion (PacingInv).                *)
(*                                                                         *)
(* The choices of schedule_write and next_allowed, each with an inductive  *)
(* invariant of its own next to that one:                                  *)
(*                                                                         *)
(*  - the answer of next_allowed is exact, because every deque is in order *)
(*    of time and holds no more than its limit after pruning (InOrder);    *)
(*  - the writer never oversleeps, because a waiting session waits for the *)
(*    earliest of its messages, and the answers of next_allowed only grow  *)
(*    with time (Awake);                                                   *)
(*  - a message is overtaken only where the limits ask for it, because     *)
(*    what enters the queue during a write is younger than the write       *)
(*    (Numbered);                                                          *)
(*  - failed JOINs exceed the limit by one for every session that ended,   *)
(*    because every attempt is one of the completed JOINs, the one being   *)
(*    written, or the last of a session before the current one (Accounted).*)
(***************************************************************************)
EXTENDS JoinAttempts, TLAPS, WellFoundedInduction, FiniteSetTheorems

-----------------------------------------------------------------------------
\* The loop of prune stops: there is a first entry newer than the cutoff, or
\* the end (RateLimiter::prune).
LEMMA ExpiredLemma ==
  ASSUME NEW entries \in Seq(Int), NEW cutoff \in Int
  PROVE  /\ Expired(entries, cutoff) \in 0..Len(entries)
         /\ Expired(entries, cutoff) < Len(entries) =>
              entries[Expired(entries, cutoff) + 1] > cutoff
         /\ \A i \in 1..Expired(entries, cutoff) : entries[i] <= cutoff
PROOF
  <1> DEFINE Stop == {n \in 0..Len(entries) :
                        n < Len(entries) => entries[n + 1] > cutoff}
  <1>1. Stop \subseteq Nat /\ Len(entries) \in Stop
    OBVIOUS
  <1>2. PICK n \in Stop : \A k \in Stop : ~ (<<k, n>> \in OpToRel(<, Nat))
    BY <1>1, WFMin, NatLessThanWellFounded, Zenon
  <1>3. \A k \in Stop : ~ (k < n)
    BY <1>1, <1>2 DEF OpToRel
  <1>4. ASSUME NEW i \in 1..n
        PROVE  entries[i] <= cutoff
    <2>1. /\ i - 1 \in 0..Len(entries)
          /\ i - 1 < Len(entries)
          /\ i - 1 < n
          /\ i \in DOMAIN entries
      BY <1>1
    <2>2. i - 1 \notin Stop
      BY <1>3, <2>1, Zenon
    <2>3. entries[i] \in Int
      BY <2>1
    <2>4. ~ (entries[(i - 1) + 1] > cutoff)
      BY <2>1, <2>2
    <2> QED
      BY <2>3, <2>4
  <1>5. \E m \in 0..Len(entries) :
          /\ m < Len(entries) => entries[m + 1] > cutoff
          /\ \A i \in 1..m : entries[i] <= cutoff
    BY <1>1, <1>4
  <1> QED
    BY <1>5 DEF Expired

\* What prune returns: a suffix of the deque whose first entry, if any, is
\* newer than the cutoff; what it drops is not.
LEMMA PruneLemma ==
  ASSUME NEW entries \in Seq(Nat), NEW cutoff \in Int
  PROVE  /\ Prune(entries, cutoff) \in Seq(Nat)
         /\ Len(Prune(entries, cutoff)) > 0 =>
              Prune(entries, cutoff)[1] > cutoff
         /\ \E n \in 0..Len(entries) :
              /\ Len(Prune(entries, cutoff)) = Len(entries) - n
              /\ \A i \in 1..n : entries[i] <= cutoff
              /\ \A i \in 1..(Len(entries) - n) :
                   Prune(entries, cutoff)[i] = entries[n + i]
PROOF
  <1> DEFINE n == Expired(entries, cutoff)
  <1>1. entries \in Seq(Int)
    OBVIOUS
  <1>2. /\ n \in 0..Len(entries)
        /\ n < Len(entries) => entries[n + 1] > cutoff
        /\ \A i \in 1..n : entries[i] <= cutoff
    BY <1>1, ExpiredLemma
  <1> HIDE DEF n
  <1>3. Prune(entries, cutoff) = SubSeq(entries, n + 1, Len(entries))
    BY DEF Prune, n
  <1>4. /\ Len(Prune(entries, cutoff)) = Len(entries) - n
        /\ \A i \in 1..(Len(entries) - n) :
             Prune(entries, cutoff)[i] = entries[n + i]
        /\ Prune(entries, cutoff) \in Seq(Nat)
    BY <1>2, <1>3
  <1>5. Len(Prune(entries, cutoff)) > 0 => Prune(entries, cutoff)[1] > cutoff
    <2>1. ASSUME Len(Prune(entries, cutoff)) > 0
          PROVE  n < Len(entries) /\ 1 \in 1..(Len(entries) - n)
      BY <1>2, <1>4, <2>1
    <2>2. ASSUME Len(Prune(entries, cutoff)) > 0
          PROVE  Prune(entries, cutoff)[1] = entries[n + 1]
      BY <1>4, <2>1, <2>2
    <2> QED
      BY <1>2, <2>1, <2>2
  <1>6. \A i \in 1..n : entries[i] <= cutoff
    BY <1>2
  <1>7. n \in 0..Len(entries)
    BY <1>2
  <1> QED
    BY <1>4, <1>5, <1>6, <1>7, Zenon

\* A bucket whose opening has come holds fewer entries than its limit.
LEMMA BucketLemma ==
  ASSUME NEW entries \in Seq(Nat), NEW limit \in Nat \ {0},
         NEW window \in Nat, NEW t \in Nat
  PROVE  LET pruned == Prune(entries, t - window) IN
         /\ pruned \in Seq(Nat)
         /\ BucketOpens(pruned, limit, window, t) <= t => Len(pruned) < limit
PROOF
  <1> DEFINE pruned == Prune(entries, t - window)
  <1>1. /\ pruned \in Seq(Nat)
        /\ Len(pruned) > 0 => pruned[1] > t - window
    <2>1. t - window \in Int
      OBVIOUS
    <2> QED
      BY <2>1, PruneLemma
  <1> HIDE DEF pruned
  <1>2. BucketOpens(pruned, limit, window, t) <= t => Len(pruned) < limit
    BY <1>1 DEF BucketOpens
  <1> QED
    BY <1>1, <1>2 DEF pruned

\* next_allowed leaves a limiter a limiter.
LEMMA PruneBucketType ==
  ASSUME NEW lim \in Limiter, NEW kind \in Kinds, NEW t \in Nat
  PROVE  PruneBucket(lim, kind, t) \in Limiter
PROOF
  <1>1. t - JoinWindow \in Int /\ t - ChatWindow \in Int
    BY LimiterAssumption
  <1>2. /\ Prune(lim.joins, t - JoinWindow) \in Seq(Nat)
        /\ Prune(lim.global_chat, t - ChatWindow) \in Seq(Nat)
    BY <1>1, PruneLemma DEF Limiter
  <1> QED
    BY <1>2 DEF PruneBucket, Limiter, Kinds

\* record leaves a limiter a limiter.
LEMMA RecordType ==
  ASSUME NEW lim \in Limiter, NEW kind \in Kinds,
         NEW channel \in Channels \cup {None}, NEW t \in Nat,
         kind = "chat" => channel \in Channels
  PROVE  Record(lim, kind, channel, t) \in Limiter
PROOF
  <1>1. CASE kind = "join"
    <2>1. /\ Append(lim.joins, t) \in Seq(Nat)
          /\ Record(lim, kind, channel, t) =
               [lim EXCEPT !.joins = Append(lim.joins, t)]
      BY <1>1 DEF Record, Limiter
    <2> QED
      BY <2>1 DEF Limiter
  <1>2. CASE kind = "chat"
    <2>1. /\ Append(lim.global_chat, t) \in Seq(Nat)
          /\ [lim.channel_chat EXCEPT ![channel] = t]
               \in [Channels -> Nat \cup {None}]
      BY <1>2 DEF Limiter
    <2>2. Record(lim, kind, channel, t) =
            [ global_chat  |-> Append(lim.global_chat, t),
              joins        |-> lim.joins,
              channel_chat |-> [lim.channel_chat EXCEPT ![channel] = t] ]
      BY <1>2 DEF Record, Limiter
    <2> QED
      BY <2>1, <2>2 DEF Limiter
  <1>3. CASE kind = "system"
    BY <1>3 DEF Record
  <1> QED
    BY <1>1, <1>2, <1>3 DEF Kinds

\* next_allowed returns an instant.
LEMMA NextAllowedType ==
  ASSUME NEW lim \in Limiter, NEW kind \in Kinds,
         NEW channel \in Channels \cup {None}, NEW t \in Nat,
         kind = "chat" => channel \in Channels
  PROVE  NextAllowed(lim, kind, channel, t) \in Nat
PROOF
  <1> DEFINE pruned == PruneBucket(lim, kind, t)
  <1>1. pruned \in Limiter
    BY PruneBucketType
  <1>2. /\ pruned.joins \in Seq(Nat)
        /\ pruned.global_chat \in Seq(Nat)
    BY <1>1 DEF Limiter
  <1> HIDE DEF pruned
  <1>3. /\ BucketOpens(pruned.joins, JoinLimit, JoinWindow, t) \in Nat
        /\ BucketOpens(pruned.global_chat, ChatLimit, ChatWindow, t) \in Nat
    <2>1. ASSUME NEW entries \in Seq(Nat), NEW limit \in Nat \ {0},
                 NEW window \in Nat
          PROVE  BucketOpens(entries, limit, window, t) \in Nat
      <3>1. Len(entries) >= limit => entries[1] \in Nat
        OBVIOUS
      <3> QED
        BY <3>1 DEF BucketOpens
    <2> QED
      BY <1>2, <2>1, LimiterAssumption
  <1>4. kind = "chat" => ChannelOpens(lim, channel, t) \in Nat
    BY LimiterAssumption DEF ChannelOpens, Limiter
  <1> QED
    BY <1>3, <1>4 DEF NextAllowed, Later, Kinds, pruned

\* When next_allowed returns an instant that has come, the pruned bucket is
\* below its limit and the channel has been quiet long enough
\* (RateLimiter::next_allowed).
LEMMA AllowedNow ==
  ASSUME NEW lim \in Limiter, NEW kind \in Kinds,
         NEW channel \in Channels \cup {None}, NEW t \in Nat,
         kind = "chat" => channel \in Channels,
         NextAllowed(lim, kind, channel, t) <= t
  PROVE  /\ kind = "join" =>
              Len(PruneBucket(lim, kind, t).joins) < JoinLimit
         /\ kind = "chat" =>
              /\ Len(PruneBucket(lim, kind, t).global_chat) < ChatLimit
              /\ \/ lim.channel_chat[channel] = None
                 \/ lim.channel_chat[channel] + ChannelGap <= t
PROOF
  <1> DEFINE pj == Prune(lim.joins, t - JoinWindow)
             pc == Prune(lim.global_chat, t - ChatWindow)
  <1>1. lim.joins \in Seq(Nat) /\ lim.global_chat \in Seq(Nat)
    BY DEF Limiter
  <1>2. BucketOpens(pj, JoinLimit, JoinWindow, t) <= t => Len(pj) < JoinLimit
    BY <1>1, BucketLemma, LimiterAssumption
  <1>3. /\ pc \in Seq(Nat)
        /\ BucketOpens(pc, ChatLimit, ChatWindow, t) <= t => Len(pc) < ChatLimit
    BY <1>1, BucketLemma, LimiterAssumption
  <1> HIDE DEF pj, pc
  <1>4. CASE kind = "join"
    <2>1. PruneBucket(lim, kind, t).joins = pj
      BY <1>4 DEF PruneBucket, pj, Limiter
    <2>2. BucketOpens(pj, JoinLimit, JoinWindow, t) <= t
      BY <1>4, <2>1 DEF NextAllowed
    <2>3. Len(pj) < JoinLimit
      BY <1>2, <2>2
    <2> QED
      BY <1>4, <2>1, <2>3
  <1>5. CASE kind = "chat"
    <2>1. PruneBucket(lim, kind, t).global_chat = pc
      BY <1>5 DEF PruneBucket, pc, Limiter
    <2>2. /\ BucketOpens(pc, ChatLimit, ChatWindow, t) \in Int
          /\ ChannelOpens(lim, channel, t) \in Nat
      <3>1. Len(pc) >= ChatLimit => pc[1] \in Nat
        BY <1>3, LimiterAssumption
      <3> QED
        BY <1>3, <1>5, <3>1, LimiterAssumption
           DEF BucketOpens, ChannelOpens, Limiter
    <2>3. /\ BucketOpens(pc, ChatLimit, ChatWindow, t) <= t
          /\ ChannelOpens(lim, channel, t) <= t
      BY <1>5, <2>1, <2>2 DEF NextAllowed, Later
    <2>4. Len(pc) < ChatLimit
      BY <1>3, <2>3
    <2>5. \/ lim.channel_chat[channel] = None
          \/ lim.channel_chat[channel] + ChannelGap <= t
      BY <2>3 DEF ChannelOpens
    <2> QED
      BY <1>5, <2>1, <2>4, <2>5
  <1> QED
    BY <1>4, <1>5 DEF Kinds
-----------------------------------------------------------------------------
\* next_allowed asked again, asked later, and asked for the exact instant.

\* A deque whose first entry is in the window loses nothing: pruning twice at
\* one instant is pruning once.
LEMMA PruneFresh ==
  ASSUME NEW entries \in Seq(Nat), NEW cutoff \in Int,
         Len(entries) > 0 => entries[1] > cutoff
  PROVE  Prune(entries, cutoff) = entries
PROOF
  <1> DEFINE n == Expired(entries, cutoff)
  <1>1. entries \in Seq(Int)
    OBVIOUS
  <1>2. /\ n \in 0..Len(entries)
        /\ \A i \in 1..n : entries[i] <= cutoff
    BY <1>1, ExpiredLemma
  <1>3. Prune(entries, cutoff) = SubSeq(entries, n + 1, Len(entries))
    BY DEF Prune
  <1> HIDE DEF n
  <1>4. n = 0
    <2>1. SUFFICES ASSUME n # 0 PROVE FALSE
      OBVIOUS
    <2>2. 1 \in 1..n /\ Len(entries) > 0 /\ entries[1] \in Nat
      BY <1>2, <2>1
    <2>3. entries[1] <= cutoff
      BY <1>2, <2>2
    <2> QED
      BY <2>2, <2>3
  <1> QED
    BY <1>3, <1>4

\* The scan of schedule_write asks once per message; every answer is the one
\* the unpruned limiter gives.
LEMMA PruneTwice ==
  ASSUME NEW entries \in Seq(Nat), NEW cutoff \in Int
  PROVE  Prune(Prune(entries, cutoff), cutoff) = Prune(entries, cutoff)
PROOF
  BY PruneLemma, PruneFresh

\* A bucket never opens in the past, and an answer given later is never an
\* earlier instant.
LEMMA BucketLater ==
  ASSUME NEW entries \in Seq(Nat), NEW limit \in Nat \ {0},
         NEW window \in Nat, NEW t \in Nat, NEW u \in Nat, t <= u
  PROVE  LET opens(v) == BucketOpens(Prune(entries, v - window), limit,
                                     window, v)
         IN  /\ opens(t) \in Nat
             /\ opens(t) >= t
             /\ opens(t) <= opens(u)
PROOF
  <1> DEFINE n(v) == Expired(entries, v - window)
             opens(v) == BucketOpens(Prune(entries, v - window), limit,
                                     window, v)
  <1>1. entries \in Seq(Int) /\ Len(entries) \in Nat
    OBVIOUS
  <1>2. ASSUME NEW v \in Nat
        PROVE  /\ n(v) \in 0..Len(entries)
               /\ n(v) < Len(entries) => entries[n(v) + 1] > v - window
               /\ \A i \in 1..n(v) : entries[i] <= v - window
    <2>1. v - window \in Int
      OBVIOUS
    <2> QED
      BY <1>1, <2>1, ExpiredLemma
  <1>3. ASSUME NEW v \in Nat
        PROVE  /\ Len(entries) - n(v) < limit => opens(v) = v
               /\ Len(entries) - n(v) >= limit =>
                    /\ n(v) < Len(entries)
                    /\ entries[n(v) + 1] \in Nat
                    /\ opens(v) = entries[n(v) + 1] + window
    <2> DEFINE m == n(v)
               p == SubSeq(entries, m + 1, Len(entries))
    <2>1. m \in 0..Len(entries)
      BY <1>2
    <2>2. Prune(entries, v - window) = p
      BY DEF Prune
    <2> HIDE DEF m
    <2>3. /\ Len(p) = Len(entries) - m
          /\ m < Len(entries) => p[1] = entries[m + 1] /\ entries[m + 1] \in Nat
      BY <1>1, <2>1
    <2> HIDE DEF p
    <2> DEFINE first == p[1]
               answer == opens(v)
    <2>4. answer = IF Len(p) < limit THEN v ELSE first + window
      BY <2>2 DEF BucketOpens
    <2>5. m < Len(entries) => first = entries[m + 1] /\ entries[m + 1] \in Nat
      BY <2>3
    <2> HIDE DEF first, answer
    <2>6. CASE Len(entries) - m < limit
      <3>1. answer = v
        BY <2>3, <2>4, <2>6
      <3> QED
        BY <2>6, <3>1, <2>1, <1>1 DEF m, answer
    <2>7. CASE Len(entries) - m >= limit
      <3>1. m < Len(entries) /\ answer = first + window
        BY <1>1, <2>1, <2>3, <2>4, <2>7
      <3>2. answer = entries[m + 1] + window /\ entries[m + 1] \in Nat
        BY <2>5, <3>1
      <3> QED
        BY <1>1, <2>1, <2>7, <3>1, <3>2 DEF m, answer
    <2> QED
      BY <1>1, <2>1, <2>6, <2>7 DEF m
  <1> HIDE DEF opens
  <1>4. ASSUME NEW v \in Nat
        PROVE  opens(v) \in Nat /\ opens(v) >= v
    <2> DEFINE m == n(v)
    <2>1. /\ m \in 0..Len(entries)
          /\ m < Len(entries) => entries[m + 1] > v - window
          /\ Len(entries) - m < limit => opens(v) = v
          /\ Len(entries) - m >= limit =>
               /\ m < Len(entries)
               /\ entries[m + 1] \in Nat
               /\ opens(v) = entries[m + 1] + window
      BY <1>2, <1>3
    <2> HIDE DEF m
    <2> QED
      BY <1>1, <2>1
  <1>5. opens(t) <= opens(u)
    <2> DEFINE a == n(t)
               b == n(u)
    <2>1. /\ a \in 0..Len(entries) /\ b \in 0..Len(entries)
          /\ a < Len(entries) => entries[a + 1] > t - window
          /\ \A i \in 1..b : entries[i] <= u - window
          /\ Len(entries) - a < limit => opens(t) = t
          /\ Len(entries) - a >= limit =>
               /\ a < Len(entries)
               /\ entries[a + 1] \in Nat
               /\ opens(t) = entries[a + 1] + window
          /\ Len(entries) - b < limit => opens(u) = u
          /\ Len(entries) - b >= limit =>
               /\ b < Len(entries)
               /\ entries[b + 1] \in Nat
               /\ opens(u) = entries[b + 1] + window
      BY <1>2, <1>3
    <2>2. opens(u) \in Nat /\ opens(u) >= u /\ \A i \in 1..a : entries[i] <= t - window
      BY <1>2, <1>4
    <2>3. b < Len(entries) => entries[b + 1] > u - window
      BY <1>2
    <2> HIDE DEF a, b
    <2>4. a <= b
      <3>1. SUFFICES ASSUME a > b PROVE FALSE
        BY <2>1
      <3>2. b + 1 \in 1..a /\ b < Len(entries) /\ entries[b + 1] \in Nat
        BY <1>1, <2>1, <3>1
      <3>3. entries[b + 1] <= t - window /\ entries[b + 1] > u - window
        BY <2>2, <2>3, <3>2
      <3> QED
        BY <3>2, <3>3
    <2>5. CASE Len(entries) - a < limit
      BY <1>1, <2>1, <2>2, <2>5
    <2>6. CASE Len(entries) - a >= limit /\ a = b
      BY <1>1, <2>1, <2>6
    <2>7. CASE Len(entries) - a >= limit /\ a < b
      <3>1. a + 1 \in 1..b
        BY <1>1, <2>1, <2>7
      <3>2. entries[a + 1] <= u - window
        BY <2>1, <3>1
      <3>3. opens(t) = entries[a + 1] + window /\ entries[a + 1] \in Nat
        BY <2>1, <2>7
      <3> QED
        BY <2>2, <3>2, <3>3
    <2> QED
      BY <1>1, <2>1, <2>4, <2>5, <2>6, <2>7
  <1> QED
    BY <1>4, <1>5 DEF opens
\* next_allowed never answers with the past, and later never with an earlier
\* instant: a wait armed with its answer is never longer than needed.
LEMMA NextAllowedLater ==
  ASSUME NEW lim \in Limiter, NEW kind \in Kinds,
         NEW channel \in Channels \cup {None},
         kind = "chat" => channel \in Channels,
         NEW t \in Nat, NEW u \in Nat, t <= u
  PROVE  /\ NextAllowed(lim, kind, channel, t) >= t
         /\ NextAllowed(lim, kind, channel, t) <=
              NextAllowed(lim, kind, channel, u)
PROOF
  <1> DEFINE joins(v) == BucketOpens(Prune(lim.joins, v - JoinWindow),
                                     JoinLimit, JoinWindow, v)
             chats(v) == BucketOpens(Prune(lim.global_chat, v - ChatWindow),
                                     ChatLimit, ChatWindow, v)
             silent(v) == ChannelOpens(lim, channel, v)
  <1>1. lim.joins \in Seq(Nat) /\ lim.global_chat \in Seq(Nat)
    BY DEF Limiter
  <1>2. /\ joins(t) \in Nat /\ joins(u) \in Nat
        /\ joins(t) >= t /\ joins(t) <= joins(u)
        /\ chats(t) \in Nat /\ chats(u) \in Nat
        /\ chats(t) >= t /\ chats(t) <= chats(u)
    <2>1. /\ t <= u /\ u <= u
          /\ JoinLimit \in Nat \ {0} /\ JoinWindow \in Nat
          /\ ChatLimit \in Nat \ {0} /\ ChatWindow \in Nat
      BY LimiterAssumption
    <2>2. /\ joins(t) \in Nat /\ joins(t) >= t /\ joins(t) <= joins(u)
          /\ joins(u) \in Nat
      BY <1>1, <2>1, BucketLater, Zenon
    <2>3. /\ chats(t) \in Nat /\ chats(t) >= t /\ chats(t) <= chats(u)
          /\ chats(u) \in Nat
      BY <1>1, <2>1, BucketLater, Zenon
    <2> QED
      BY <2>2, <2>3, Zenon
  <1>3. kind = "chat" =>
          silent(t) \in Nat /\ silent(u) \in Nat /\ silent(t) <= silent(u)
    BY LimiterAssumption DEF ChannelOpens, Limiter
  <1>4. CASE kind = "join"
    <2>1. \A v \in {t, u} : NextAllowed(lim, kind, channel, v) = joins(v)
      BY <1>4 DEF NextAllowed, PruneBucket, Limiter
    <2> HIDE DEF joins
    <2> QED
      BY <1>2, <2>1
  <1>5. CASE kind = "chat"
    <2>1. \A v \in {t, u} : NextAllowed(lim, kind, channel, v) =
                              Later(chats(v), silent(v))
      BY <1>5 DEF NextAllowed, PruneBucket, Limiter
    <2>2. PICK a, b, c, d : /\ a = chats(t) /\ b = chats(u)
                            /\ c = silent(t) /\ d = silent(u)
      OBVIOUS
    <2>3. /\ NextAllowed(lim, kind, channel, t) = Later(a, c)
          /\ NextAllowed(lim, kind, channel, u) = Later(b, d)
      BY <2>1, <2>2
    <2>4. /\ a \in Nat /\ b \in Nat /\ a >= t /\ a <= b
          /\ c \in Nat /\ d \in Nat /\ c <= d
      BY <1>2, <1>3, <1>5, <2>2
    <2> HIDE DEF chats, silent
    <2> QED
      BY <2>3, <2>4 DEF Later
  <1>6. CASE kind = "system"
    BY <1>6 DEF NextAllowed
  <1> QED
    BY <1>4, <1>5, <1>6 DEF Kinds

\* The pruning of one question changes no later answer given at that instant.
LEMMA NextAllowedPruned ==
  ASSUME NEW lim \in Limiter, NEW asked \in {"join", "chat"}, NEW t \in Nat,
         NEW kind \in Kinds, NEW channel
  PROVE  NextAllowed(PruneBucket(lim, asked, t), kind, channel, t) =
           NextAllowed(lim, kind, channel, t)
PROOF
  <1> DEFINE pj == Prune(lim.joins, t - JoinWindow)
             pc == Prune(lim.global_chat, t - ChatWindow)
             lim2 == PruneBucket(lim, asked, t)
  <1>1. /\ Prune(pj, t - JoinWindow) = pj
        /\ Prune(pc, t - ChatWindow) = pc
    <2>1. /\ lim.joins \in Seq(Nat) /\ lim.global_chat \in Seq(Nat)
          /\ t - JoinWindow \in Int /\ t - ChatWindow \in Int
      BY LimiterAssumption DEF Limiter
    <2> QED
      BY <2>1, PruneTwice
  <1>2. /\ lim2 \in Limiter
        /\ lim2.channel_chat = lim.channel_chat
        /\ lim2.joins = IF asked = "join" THEN pj ELSE lim.joins
        /\ lim2.global_chat = IF asked = "chat" THEN pc ELSE lim.global_chat
    <2>1. lim2 \in Limiter
      BY PruneBucketType DEF Kinds
    <2> QED
      BY <2>1 DEF PruneBucket, Limiter
  <1> HIDE DEF lim2
  <1>3. /\ Prune(lim2.joins, t - JoinWindow) = pj
        /\ Prune(lim2.global_chat, t - ChatWindow) = pc
    BY <1>1, <1>2
  <1>4. ASSUME NEW l \in Limiter,
               Prune(l.joins, t - JoinWindow) = pj,
               Prune(l.global_chat, t - ChatWindow) = pc,
               l.channel_chat = lim.channel_chat
        PROVE  NextAllowed(l, kind, channel, t) =
                 CASE kind = "join" ->
                        BucketOpens(pj, JoinLimit, JoinWindow, t)
                   [] kind = "chat" ->
                        Later(BucketOpens(pc, ChatLimit, ChatWindow, t),
                              ChannelOpens(lim, channel, t))
                   [] OTHER -> t
    <2>1. kind = "join" => PruneBucket(l, kind, t).joins = pj
      BY <1>4 DEF PruneBucket, Limiter
    <2>2. kind = "chat" => PruneBucket(l, kind, t).global_chat = pc
      BY <1>4 DEF PruneBucket, Limiter
    <2>3. ChannelOpens(l, channel, t) = ChannelOpens(lim, channel, t)
      BY <1>4 DEF ChannelOpens
    <2> HIDE DEF pj, pc
    <2> QED
      BY <2>1, <2>2, <2>3 DEF NextAllowed, Kinds
  <1>5. NextAllowed(lim2, kind, channel, t) =
          CASE kind = "join" -> BucketOpens(pj, JoinLimit, JoinWindow, t)
            [] kind = "chat" ->
                 Later(BucketOpens(pc, ChatLimit, ChatWindow, t),
                       ChannelOpens(lim, channel, t))
            [] OTHER -> t
    BY <1>2, <1>3, <1>4
  <1>6. NextAllowed(lim, kind, channel, t) =
          CASE kind = "join" -> BucketOpens(pj, JoinLimit, JoinWindow, t)
            [] kind = "chat" ->
                 Later(BucketOpens(pc, ChatLimit, ChatWindow, t),
                       ChannelOpens(lim, channel, t))
            [] OTHER -> t
    BY <1>4
  <1> QED
    BY <1>5, <1>6 DEF lim2

\* A deque in order of time that holds no more than its limit after pruning
\* opens exactly when the limit first has room.
LEMMA BucketExact ==
  ASSUME NEW entries \in Seq(Nat), NEW limit \in Nat \ {0},
         NEW window \in Nat, NEW t \in Nat,
         \A i, j \in 1..Len(entries) : i <= j => entries[i] <= entries[j],
         Len(Prune(entries, t - window)) <= limit
  PROVE  LET opens == BucketOpens(Prune(entries, t - window), limit,
                                  window, t)
         IN  \A u \in Nat : u >= t =>
               (HasRoom(entries, limit, window, u) <=> u >= opens)
PROOF
  <1> DEFINE p == Prune(entries, t - window)
             opens == BucketOpens(p, limit, window, t)
  <1>1. /\ p \in Seq(Nat)
        /\ \E n \in 0..Len(entries) :
             /\ Len(p) = Len(entries) - n
             /\ \A i \in 1..n : entries[i] <= t - window
             /\ \A i \in 1..(Len(entries) - n) : p[i] = entries[n + i]
    <2>1. t - window \in Int
      OBVIOUS
    <2> QED
      BY <2>1, PruneLemma
  <1> HIDE DEF p
  <1>2. PICK n \in 0..Len(entries) :
          /\ Len(p) = Len(entries) - n
          /\ \A i \in 1..n : entries[i] <= t - window
          /\ \A i \in 1..(Len(entries) - n) : p[i] = entries[n + i]
    BY <1>1
  <1>3. /\ Len(entries) \in Nat /\ n \in Nat /\ n <= Len(entries)
        /\ DOMAIN entries = 1..Len(entries)
        /\ \A i \in 1..Len(entries) : entries[i] \in Nat
        /\ Len(entries) - n <= limit
    BY <1>2 DEF p
  <1> SUFFICES ASSUME NEW u \in Nat, u >= t
               PROVE  HasRoom(entries, limit, window, u) <=> u >= opens
    BY DEF p
  <1> DEFINE inside == {i \in DOMAIN entries : entries[i] > u - window}
  <1>4. inside \subseteq (n + 1)..Len(entries)
    <2>1. ASSUME NEW i \in inside, i <= n
          PROVE  FALSE
      <3>1. i \in 1..n /\ entries[i] > u - window /\ entries[i] \in Nat
        BY <1>3, <2>1
      <3> QED
        BY <1>2, <3>1
    <2> QED
      BY <1>3, <2>1
  <1>7. /\ IsFiniteSet((n + 1)..Len(entries))
        /\ Cardinality((n + 1)..Len(entries)) = Len(entries) - n
    <2>1. n + 1 \in Int /\ Len(entries) \in Int
      BY <1>3
    <2>2. /\ IsFiniteSet((n + 1)..Len(entries))
          /\ Cardinality((n + 1)..Len(entries)) =
               IF n + 1 > Len(entries) THEN 0
               ELSE Len(entries) - (n + 1) + 1
      BY <2>1, FS_Interval, Zenon
    <2> QED
      BY <1>3, <2>2
  <1>5. CASE Len(entries) - n < limit
    <2>1. opens = t
      BY <1>2, <1>5 DEF BucketOpens
    <2>2. /\ IsFiniteSet((n + 1)..Len(entries))
          /\ Cardinality((n + 1)..Len(entries)) <= Len(entries) - n
      BY <1>3, <1>7
    <2>3. IsFiniteSet(inside) /\ Cardinality(inside) <= Len(entries) - n
      <3>1. /\ IsFiniteSet(inside)
            /\ Cardinality(inside) <= Cardinality((n + 1)..Len(entries))
        BY <1>4, <2>2, FS_Subset, Zenon
      <3>2. /\ Cardinality(inside) \in Nat
            /\ Cardinality((n + 1)..Len(entries)) \in Nat
        BY <2>2, <3>1, FS_CardinalityType, Zenon
      <3> HIDE DEF inside
      <3> QED
        BY <1>3, <2>2, <3>1, <3>2
    <2>4. Cardinality(inside) \in Nat
      BY <2>3, FS_CardinalityType, Zenon
    <2> HIDE DEF inside, opens
    <2>5. Cardinality(inside) < limit
      BY <1>3, <1>5, <2>3, <2>4
    <2> QED
      BY <2>1, <2>5 DEF HasRoom, inside
  <1>6. CASE Len(entries) - n = limit
    <2>1. n + 1 \in 1..Len(entries) /\ p[1] = entries[n + 1]
      <3>1. n + 1 \in 1..Len(entries)
        BY <1>3, <1>6
      <3>2. 1 \in 1..(Len(entries) - n) /\ 1 + n = n + 1
        BY <1>3, <1>6
      <3> QED
        BY <1>2, <3>1, <3>2
    <2>2. opens = entries[n + 1] + window
      <3>1. Len(p) = limit
        BY <1>2, <1>6
      <3> HIDE DEF opens
      <3> QED
        BY <2>1, <3>1 DEF BucketOpens, opens
    <2>3. CASE u < opens
      <3>1. ASSUME NEW i \in (n + 1)..Len(entries)
            PROVE  i \in inside
        <4>1. i \in 1..Len(entries) /\ n + 1 <= i
          BY <1>3
        <4>2. entries[n + 1] <= entries[i]
          BY <2>1, <4>1
        <4>3. entries[n + 1] \in Nat /\ entries[i] \in Nat
          BY <1>3, <2>1, <4>1
        <4> HIDE DEF opens
        <4>4. entries[i] > u - window
          <5>1. PICK a, b : a = entries[n + 1] /\ b = entries[i]
            OBVIOUS
          <5>2. a \in Nat /\ b \in Nat /\ a <= b /\ u < a + window
            BY <2>2, <2>3, <4>2, <4>3, <5>1
          <5>3. b > u - window
            BY <5>2
          <5> QED
            BY <5>1, <5>3
        <4> QED
          BY <1>3, <4>1, <4>4
      <3>2. inside = (n + 1)..Len(entries)
        BY <1>4, <3>1, Zenon
      <3>3. Cardinality((n + 1)..Len(entries)) = limit
        BY <1>3, <1>6, <1>7
      <3>4. ~HasRoom(entries, limit, window, u)
        <4>1. Cardinality(inside) = limit
          BY <3>2, <3>3, Zenon
        <4> HIDE DEF inside
        <4>2. ~(Cardinality(inside) < limit)
          BY <4>1
        <4> QED
          BY <4>2 DEF HasRoom, inside
      <3>5. ~(u >= opens)
        <4> HIDE DEF opens
        <4> QED
          BY <1>3, <2>1, <2>2, <2>3
      <3> QED
        BY <3>4, <3>5, Zenon
    <2>4. CASE u >= opens
      <3>1. entries[n + 1] <= u - window /\ entries[n + 1] \in Nat
        <4> HIDE DEF opens
        <4> QED
          BY <1>3, <2>1, <2>2, <2>4
      <3>2. inside \subseteq (n + 2)..Len(entries)
        <4>1. ASSUME NEW i \in inside
              PROVE  i \in (n + 2)..Len(entries)
          <5>1. i \in (n + 1)..Len(entries) /\ entries[i] > u - window
            BY <1>4, <4>1
          <5>2. i # n + 1
            BY <3>1, <5>1
          <5> QED
            BY <1>3, <5>1, <5>2
        <4> QED
          BY <4>1, Zenon
      <3>3. /\ IsFiniteSet((n + 2)..Len(entries))
            /\ Cardinality((n + 2)..Len(entries)) < limit
        <4>1. /\ IsFiniteSet((n + 2)..Len(entries))
              /\ Cardinality((n + 2)..Len(entries)) =
                   IF n + 2 > Len(entries) THEN 0
                   ELSE Len(entries) - (n + 2) + 1
          <5>1. n + 2 \in Int /\ Len(entries) \in Int
            BY <1>3
          <5> QED
            BY <5>1, FS_Interval, Zenon
        <4> QED
          BY <1>3, <1>6, <4>1
      <3>4. /\ IsFiniteSet(inside)
            /\ Cardinality(inside) <= Cardinality((n + 2)..Len(entries))
        BY <3>2, <3>3, FS_Subset, Zenon
      <3>5. /\ Cardinality(inside) \in Nat
            /\ Cardinality((n + 2)..Len(entries)) \in Nat
        BY <3>3, <3>4, FS_CardinalityType, Zenon
      <3>6. HasRoom(entries, limit, window, u)
        <4>1. Cardinality(inside) < limit
          <5> HIDE DEF inside
          <5> QED
            BY <3>3, <3>4, <3>5
        <4> QED
          BY <4>1 DEF HasRoom
      <3> QED
        BY <2>4, <3>6, Zenon
    <2>5. u < opens \/ u >= opens
      <3>1. opens \in Nat
        BY <1>3, <2>1, <2>2
      <3> HIDE DEF opens
      <3> QED
        BY <3>1
    <2> QED
      BY <2>3, <2>4, <2>5, Zenon
  <1> QED
    <2>1. Len(entries) - n < limit \/ Len(entries) - n = limit
      <3>1. PICK d : d = Len(entries) - n
        OBVIOUS
      <3>2. d \in Int /\ d <= limit /\ limit \in Int
        BY <1>3, <3>1
      <3>3. d < limit \/ d = limit
        BY <3>2
      <3> QED
        BY <3>1, <3>3
    <2> QED
      BY <1>5, <1>6, <2>1, Zenon

-----------------------------------------------------------------------------
\* Every instant the scan computes is a time.
LEMMA AllowedAtType ==
  ASSUME NEW m \in Message, NEW lim \in Limiter, now \in Nat
  PROVE  /\ AllowedAt(m, lim) \in Nat
         /\ NextAllowed(lim, m.kind, m.channel, now) \in Nat
         /\ AllowedAt(m, lim) >= NextAllowed(lim, m.kind, m.channel, now)
PROOF
  <1>1. /\ m.kind \in Kinds /\ m.channel \in Channels \cup {None}
        /\ m.kind = "chat" => m.channel \in Channels
        /\ m.due \in Nat
    BY DEF Message
  <1>2. NextAllowed(lim, m.kind, m.channel, now) \in Nat
    BY <1>1, NextAllowedType
  <1> QED
    BY <1>1, <1>2 DEF AllowedAt, Later

\* The scan leaves the limiter a limiter.
LEMMA PruneForScanType ==
  ASSUME NEW lim \in Limiter, NEW queue, now \in Nat
  PROVE  PruneForScan(lim, queue) \in Limiter
PROOF
  <1>1. PruneBucket(lim, "join", now) \in Limiter
    BY PruneBucketType DEF Kinds
  <1>2. /\ PruneBucket(lim, "chat", now) \in Limiter
        /\ PruneBucket(PruneBucket(lim, "join", now), "chat", now) \in Limiter
    BY <1>1, PruneBucketType DEF Kinds
  <1> QED
    BY <1>1, <1>2 DEF PruneForScan

\* What schedule_write leaves is typed.
LEMMA ScheduleWriteType ==
  ASSUME NEW queue \in SUBSET Message, NEW lim \in Limiter,
         now \in Nat, write_timer \in Nat \cup {None},
         ScheduleWrite(queue, lim)
  PROVE  /\ limiter' \in Limiter
         /\ outbound' \subseteq Message /\ outbound' \subseteq queue
         /\ current_write' \in Write \cup {None}
         /\ write_op' \in BOOLEAN
         /\ write_timer' \in Nat \cup {None}
PROOF
  <1>1. CASE closed \/ queue = {}
    BY <1>1 DEF ScheduleWrite
  <1>2. CASE ~(closed \/ queue = {})
    <2>1. PICK m \in queue :
            /\ limiter' = PruneForScan(lim, queue)
            /\ IF AllowedAt(m, lim) > now
               THEN ArmWriteTimer(AllowedAt(m, lim), queue)
               ELSE StartWrite(m, queue)
      BY <1>2 DEF ScheduleWrite
    <2>2. limiter' \in Limiter
      BY <2>1, PruneForScanType
    <2>3. CASE ArmWriteTimer(AllowedAt(m, lim), queue)
      BY <2>2, <2>3, AllowedAtType DEF ArmWriteTimer
    <2>4. CASE StartWrite(m, queue)
      <3>1. [kind |-> m.kind, channel |-> m.channel, due |-> m.due,
             sequence |-> m.sequence, start |-> now] \in Write
        BY DEF Message, Write
      <3> QED
        BY <2>2, <2>4, <3>1 DEF StartWrite
    <2> QED
      BY <2>1, <2>3, <2>4
  <1> QED
    BY <1>1, <1>2

\* The environment asks for messages of the code's three kinds; a chat
\* message names a channel.
LEMMA RequestsType ==
  ASSUME NEW r \in Requests
  PROVE  /\ r[1] \in Kinds /\ r[2] \in Channels \cup {None} /\ r[3] \in Nat
         /\ r[1] = "chat" => r[2] \in Channels
PROOF
  <1>1. CASE r \in (KindsInUse \cap {"system"}) \X {None} \X {0}
    BY <1>1 DEF Kinds
  <1>2. CASE r \in (KindsInUse \cap {"join"}) \X Channels \X {0}
    BY <1>2 DEF Kinds
  <1>3. CASE r \in (KindsInUse \cap {"chat"}) \X Channels \X Delays
    BY <1>3, QueueAssumption DEF Kinds
  <1> QED
    BY <1>1, <1>2, <1>3 DEF Requests

-----------------------------------------------------------------------------
\* The type invariant is inductive.
LEMMA TypeInit == Init => TypeOK
PROOF
  <1>1. NewLimiter \in Limiter
    BY DEF NewLimiter, Limiter
  <1>2. << >> \in Seq(Sent)
    OBVIOUS
  <1>3. 0 \in Nat /\ 1 \in Nat
    OBVIOUS
  <1> QED
    BY <1>1, <1>2, <1>3, Zenon DEF Init, TypeOK

\* The history stays typed when a write completes.
LEMMA RememberType ==
  ASSUME TypeOK, current_write \in Write, Remember
  PROVE  chats_sent' \in Seq(Sent) /\ joins_sent' \in Seq(Sent)
PROOF
  <1>1. [channel |-> current_write.channel, start |-> current_write.start,
         done |-> now] \in Sent
    BY DEF TypeOK, Write, Sent
  <1> QED
    BY <1>1 DEF Remember, TypeOK

\* Every step keeps the types.
LEMMA TypeStep ==
  ASSUME TypeOK, write_op => current_write # None, [Next]_vars
  PROVE  TypeOK'
PROOF
  <1> USE DEF TypeOK
  <1>1. ASSUME NEW r \in Requests, Enqueue(r[1], r[2], r[3])
        PROVE  TypeOK'
    <2> DEFINE m == [kind |-> r[1], channel |-> r[2], due |-> now + r[3],
                     sequence |-> next_sequence]
    <2>1. m \in Message
      BY RequestsType DEF Message
    <2>2. (outbound \cup {m}) \in SUBSET Message
      BY <2>1
    <2>3. /\ next_sequence' = next_sequence + 1
          /\ UNCHANGED <<now, session, timer_fired, chats_sent, joins_sent>>
      BY <1>1 DEF Enqueue, history
    <2>6. \A n \in outbound \cup {m} : n.sequence < next_sequence'
      <3>1. m.sequence = next_sequence
        OBVIOUS
      <3>2. next_sequence \in Nat
        OBVIOUS
      <3>3. m.sequence < next_sequence'
        BY <2>3, <3>1, <3>2
      <3>4. ASSUME NEW n \in outbound
            PROVE  n.sequence < next_sequence'
        <4>1. n.sequence \in Nat /\ n.sequence < next_sequence
          BY DEF Message
        <4> QED
          BY <2>3, <3>2, <4>1
      <3> HIDE DEF m
      <3> QED
        BY <3>3, <3>4
    <2>4. CASE /\ outbound' \in {outbound, outbound \cup {m}}
               /\ closed' \in {closed, TRUE}
               /\ write_timer' \in {write_timer, None}
               /\ UNCHANGED <<current_write, write_op, limiter>>
      <3>1. next_sequence' \in Nat /\ outbound' \subseteq Message
        BY <2>2, <2>3, <2>4
      <3>2. closed' \in BOOLEAN /\ write_timer' \in Nat \cup {None}
        BY <2>4
      <3>3. \A n \in outbound' : n.sequence < next_sequence'
        BY <2>4, <2>6
      <3> QED
        BY <2>3, <2>4, <3>1, <3>2, <3>3
    <2>5. CASE /\ ScheduleWrite(outbound \cup {m}, limiter)
               /\ UNCHANGED closed
      <3>1. /\ limiter' \in Limiter
            /\ outbound' \subseteq Message
            /\ outbound' \subseteq outbound \cup {m}
            /\ current_write' \in Write \cup {None}
            /\ write_op' \in BOOLEAN
            /\ write_timer' \in Nat \cup {None}
        BY <2>2, <2>5, ScheduleWriteType
      <3>2. \A n \in outbound' : n.sequence < next_sequence'
        BY <2>6, <3>1
      <3> QED
        BY <2>3, <2>5, <3>1, <3>2
    <2> QED
      BY <1>1, <2>4, <2>5 DEF Enqueue, Finish
  <1>2. CASE TimerExpires
    BY <1>2 DEF TimerExpires, history
  <1>3. CASE TimerHandler
    <2>1. /\ timer_fired' = FALSE
          /\ UNCHANGED <<now, session, closed, next_sequence, chats_sent,
                         joins_sent>>
      BY <1>3 DEF TimerHandler, history
    <2>2. CASE ScheduleWrite(outbound, limiter)
      <3>1. /\ limiter' \in Limiter
            /\ outbound' \subseteq Message /\ outbound' \subseteq outbound
            /\ current_write' \in Write \cup {None}
            /\ write_op' \in BOOLEAN
            /\ write_timer' \in Nat \cup {None}
        BY <2>2, ScheduleWriteType
      <3> QED
        BY <2>1, <3>1
    <2>3. CASE UNCHANGED <<outbound, current_write, write_op, write_timer,
                           limiter>>
      BY <2>1, <2>3
    <2> QED
      BY <1>3, <2>2, <2>3 DEF TimerHandler
  <1>4. CASE WriteDone
    <2>1. current_write \in Write
      BY <1>4 DEF WriteDone
    <2>2. chats_sent' \in Seq(Sent) /\ joins_sent' \in Seq(Sent)
      BY <1>4, <2>1, RememberType DEF WriteDone
    <2>3. Record(limiter, current_write.kind, current_write.channel, now)
            \in Limiter
      <3>1. /\ current_write.kind \in Kinds
            /\ current_write.channel \in Channels \cup {None}
            /\ current_write.kind = "chat" => current_write.channel \in Channels
        BY <2>1 DEF Write
      <3> QED
        BY <3>1, RecordType
    <2>4. /\ limiter' \in Limiter
          /\ outbound' \subseteq Message /\ outbound' \subseteq outbound
          /\ current_write' \in Write \cup {None}
          /\ write_op' \in BOOLEAN
          /\ write_timer' \in Nat \cup {None}
      BY <1>4, <2>3, ScheduleWriteType DEF WriteDone
    <2> QED
      BY <1>4, <2>2, <2>4 DEF WriteDone
  <1>5. CASE WriteFailed
    BY <1>5 DEF WriteFailed, history
  <1>6. CASE SessionEnds
    BY <1>6 DEF SessionEnds, Finish, history
  <1>7. CASE NewSession
    <2>1. session' \in Nat /\ next_sequence' \in Nat
      BY <1>7 DEF NewSession
    <2>4. closed' \in BOOLEAN
      BY <1>7, Zenon DEF NewSession
    <2>2. outbound' = {} /\ current_write' \in Write \cup {None}
      BY <1>7 DEF NewSession
    <2>3. UNCHANGED <<now, limiter, write_op, write_timer, timer_fired,
                      chats_sent, joins_sent>>
      BY <1>7 DEF NewSession, history
    <2> QED
      BY <2>1, <2>2, <2>3, <2>4
  <1>8. CASE Tick
    BY <1>8 DEF Tick, sessionVars, history
  <1>9. CASE UNCHANGED vars
    BY <1>9 DEF vars, sessionVars, history
  <1> QED
    BY <1>1, <1>2, <1>3, <1>4, <1>5, <1>6, <1>7, <1>8, <1>9 DEF Next
-----------------------------------------------------------------------------
\* Facts about one deque, one history and the clock.

\* The entries of a history carry times.
LEMMA HistoryType ==
  ASSUME NEW hist \in Seq(Sent)
  PROVE  /\ Len(hist) \in Nat /\ DOMAIN hist = 1..Len(hist)
         /\ \A i \in DOMAIN hist :
              /\ hist[i] \in Sent
              /\ hist[i].done \in Nat
              /\ hist[i].start \in Nat
PROOF
  <1>1. \A i \in DOMAIN hist : hist[i] \in Sent
    OBVIOUS
  <1>2. \A s \in Sent : s.done \in Nat /\ s.start \in Nat
    BY DEF Sent
  <1> QED
    BY <1>1, <1>2

\* What Tracks says, without its LET.
LEMMA TracksMeaning ==
  ASSUME NEW entries \in Seq(Nat), NEW hist \in Seq(Sent),
         NEW window \in Nat, NEW t \in Nat, NEW lost,
         lost = Len(hist) - Len(entries)
  PROVE  Tracks(entries, hist, window, t) <=>
           /\ lost \in Nat
           /\ \A i \in 1..Len(entries) : entries[i] = hist[lost + i].done
           /\ \A i \in 1..lost : hist[i].done + window <= t
PROOF
  <1>1. lost \in Int /\ (lost \in Nat <=> lost >= 0)
    OBVIOUS
  <1>2. DOMAIN entries = 1..Len(entries)
    OBVIOUS
  <1> QED
    BY <1>1, <1>2, Zenon DEF Tracks

\* Pruning by the window keeps the deque a suffix of the history.
LEMMA TracksPrune ==
  ASSUME NEW entries \in Seq(Nat), NEW hist \in Seq(Sent),
         NEW window \in Nat, NEW t \in Nat,
         Tracks(entries, hist, window, t)
  PROVE  Tracks(Prune(entries, t - window), hist, window, t)
PROOF
  <1> DEFINE pruned == Prune(entries, t - window)
  <1>1. /\ pruned \in Seq(Nat)
        /\ \E n \in 0..Len(entries) :
             /\ Len(pruned) = Len(entries) - n
             /\ \A i \in 1..n : entries[i] <= t - window
             /\ \A i \in 1..(Len(entries) - n) : pruned[i] = entries[n + i]
    <2>1. t - window \in Int
      OBVIOUS
    <2> QED
      BY <2>1, PruneLemma
  <1> HIDE DEF pruned
  <1>2. PICK n \in 0..Len(entries) :
          /\ Len(pruned) = Len(entries) - n
          /\ \A i \in 1..n : entries[i] <= t - window
          /\ \A i \in 1..(Len(entries) - n) : pruned[i] = entries[n + i]
    BY <1>1
  <1> DEFINE lost == Len(hist) - Len(entries)
  <1>8. /\ lost >= 0
        /\ \A i \in DOMAIN entries : entries[i] = hist[lost + i].done
        /\ \A i \in 1..lost : hist[i].done + window <= t
    BY Zenon DEF Tracks
  <1>9. /\ lost \in Int /\ lost = Len(hist) - Len(entries)
        /\ DOMAIN entries = 1..Len(entries)
    OBVIOUS
  <1> HIDE DEF lost
  <1>3. /\ lost \in Nat
        /\ Len(hist) - Len(pruned) = lost + n
        /\ \A i \in 1..Len(entries) : entries[i] = hist[lost + i].done
        /\ \A i \in 1..lost : hist[i].done + window <= t
    <2>1. lost \in Nat
      BY <1>8, <1>9
    <2>2. Len(hist) - Len(pruned) = lost + n
      <3>1. Len(hist) \in Nat /\ Len(entries) \in Nat /\ Len(pruned) \in Nat
        BY <1>1, HistoryType
      <3> QED
        BY <1>2, <1>9, <3>1
    <2> QED
      BY <1>8, <1>9, <2>1, <2>2
  <1>4. ASSUME NEW i \in DOMAIN pruned
        PROVE  pruned[i] = hist[(lost + n) + i].done
    <2>1. i \in 1..(Len(entries) - n) /\ n + i \in 1..Len(entries)
      <3>1. DOMAIN pruned = 1..(Len(entries) - n)
        BY <1>1, <1>2
      <3> QED
        BY <3>1
    <2>2. lost + (n + i) = (lost + n) + i
      BY <1>3, <2>1
    <2> QED
      BY <1>2, <1>3, <2>1, <2>2
  <1>5. ASSUME NEW i \in 1..(lost + n)
        PROVE  hist[i].done + window <= t
    <2>1. CASE i <= lost
      BY <1>3, <2>1
    <2>2. CASE i > lost
      <3>1. i - lost \in 1..n /\ i - lost \in 1..Len(entries)
            /\ lost + (i - lost) = i
        BY <1>2, <1>3, <2>2
      <3>2. entries[i - lost] = hist[i].done /\ entries[i - lost] <= t - window
        BY <1>2, <1>3, <3>1
      <3>3. entries[i - lost] \in Nat
        BY <3>1
      <3> QED
        BY <3>2, <3>3
    <2> QED
      BY <1>3, <2>1, <2>2
  <1>6. DOMAIN pruned = 1..Len(pruned) /\ lost + n \in Nat
    BY <1>1, <1>3
  <1>7. Tracks(pruned, hist, window, t)
    <2>1. lost + n = Len(hist) - Len(pruned)
      BY <1>3
    <2>2. \A i \in 1..Len(pruned) : pruned[i] = hist[(lost + n) + i].done
      BY <1>4, <1>6
    <2> QED
      BY <1>1, <1>5, <1>6, <2>1, <2>2, TracksMeaning, Zenon
  <1> QED
    BY <1>7 DEF pruned

\* A deque below its limit clears the next write.
LEMMA TracksClear ==
  ASSUME NEW entries \in Seq(Nat), NEW hist \in Seq(Sent),
         NEW limit \in Nat \ {0}, NEW window \in Nat, NEW t \in Nat,
         Tracks(entries, hist, window, t),
         Len(entries) < limit
  PROVE  Clear(hist, limit, window, t)
PROOF
  <1>1. \A i \in 1..(Len(hist) - Len(entries)) : hist[i].done + window <= t
    BY DEF Tracks
  <1>2. ASSUME NEW i \in DOMAIN hist, i + limit <= Len(hist) + 1
        PROVE  i \in 1..(Len(hist) - Len(entries))
    BY <1>2
  <1> QED
    BY <1>1, <1>2 DEF Clear

\* A completion appended to deque and history alike keeps them in step.
LEMMA TracksAppend ==
  ASSUME NEW entries \in Seq(Nat), NEW hist \in Seq(Sent),
         NEW window \in Nat, NEW t \in Nat, NEW sent \in Sent, sent.done = t,
         Tracks(entries, hist, window, t)
  PROVE  Tracks(Append(entries, t), Append(hist, sent), window, t)
PROOF
  <1> DEFINE lost == Len(hist) - Len(entries)
             e == Append(entries, t)
             h == Append(hist, sent)
  <1>1. /\ lost \in Nat
        /\ \A i \in 1..Len(entries) : entries[i] = hist[lost + i].done
        /\ \A i \in 1..lost : hist[i].done + window <= t
    BY DEF Tracks
  <1>2. /\ Len(e) = Len(entries) + 1 /\ Len(h) = Len(hist) + 1
        /\ DOMAIN e = 1..(Len(entries) + 1)
        /\ Len(h) - Len(e) = lost
        /\ \A i \in 1..Len(entries) : e[i] = entries[i]
        /\ e[Len(entries) + 1] = t
        /\ \A i \in 1..Len(hist) : h[i] = hist[i]
        /\ h[Len(hist) + 1] = sent
    OBVIOUS
  <1>6. Len(entries) \in Nat /\ Len(hist) = lost + Len(entries)
    OBVIOUS
  <1> HIDE DEF e, h, lost
  <1>3. ASSUME NEW i \in 1..(Len(entries) + 1)
        PROVE  e[i] = h[lost + i].done
    <2>1. CASE i <= Len(entries)
      <3>1. i \in 1..Len(entries) /\ lost + i \in 1..Len(hist)
        BY <1>1, <1>6, <2>1
      <3>2. e[i] = entries[i] /\ h[lost + i] = hist[lost + i]
        BY <1>2, <3>1
      <3> QED
        BY <1>1, <3>1, <3>2
    <2>2. CASE i = Len(entries) + 1
      <3>1. lost + i = Len(hist) + 1
        BY <1>1, <1>6, <2>2
      <3> QED
        BY <1>2, <2>2, <3>1
    <2>3. i <= Len(entries) \/ i = Len(entries) + 1
      BY <1>6
    <2> QED
      BY <2>1, <2>2, <2>3
  <1>4. ASSUME NEW i \in 1..lost
        PROVE  h[i].done + window <= t
    <2>1. i \in 1..Len(hist)
      BY <1>1, <1>6
    <2> QED
      BY <1>1, <1>2, <2>1
  <1>5. /\ Len(h) - Len(e) = lost /\ lost >= 0
        /\ \A i \in DOMAIN e : e[i] = h[lost + i].done
        /\ \A i \in 1..lost : h[i].done + window <= t
    BY <1>1, <1>2, <1>3, <1>4
  <1> QED
    BY <1>5 DEF Tracks, e, h

\* Time does no harm.
LEMMA TracksLater ==
  ASSUME NEW entries \in Seq(Nat), NEW hist \in Seq(Sent),
         NEW window \in Nat, NEW t \in Nat, NEW u \in Nat, t <= u,
         Tracks(entries, hist, window, t)
  PROVE  Tracks(entries, hist, window, u)
PROOF
  <1>1. ASSUME NEW i \in 1..(Len(hist) - Len(entries))
        PROVE  hist[i].done + window <= u
    <2>1. i \in DOMAIN hist
      BY HistoryType
    <2>2. hist[i].done \in Nat
      BY <2>1, HistoryType
    <2>3. hist[i].done + window <= t
      BY DEF Tracks
    <2> QED
      BY <2>2, <2>3
  <1> QED
    BY <1>1 DEF Tracks

\* A cleared write keeps the history spaced.
LEMMA SpacedAppend ==
  ASSUME NEW hist \in Seq(Sent), NEW limit \in Nat \ {0}, NEW window \in Nat,
         NEW sent \in Sent, Spaced(hist, limit, window),
         Clear(hist, limit, window, sent.start)
  PROVE  Spaced(Append(hist, sent), limit, window)
PROOF
  <1> DEFINE h == Append(hist, sent)
  <1>1. /\ DOMAIN h = 1..(Len(hist) + 1)
        /\ \A i \in 1..Len(hist) : h[i] = hist[i]
        /\ h[Len(hist) + 1] = sent
    OBVIOUS
  <1> HIDE DEF h
  <1>2. ASSUME NEW i \in DOMAIN h, NEW j \in DOMAIN h, j >= i + limit
        PROVE  h[j].start >= h[i].done + window
    <2>1. i \in DOMAIN hist
      BY <1>1, <1>2
    <2>2. CASE j \in DOMAIN hist
      BY <1>1, <1>2, <2>1, <2>2 DEF Spaced
    <2>3. CASE j = Len(hist) + 1
      <3>1. hist[i].done + window <= sent.start
        BY <1>2, <2>1, <2>3 DEF Clear
      <3>2. hist[i].done \in Nat /\ sent.start \in Nat
        BY <2>1, HistoryType DEF Sent
      <3> QED
        BY <1>1, <2>1, <2>3, <3>1, <3>2
    <2> QED
      BY <1>1, <2>2, <2>3
  <1> QED
    BY <1>2 DEF Spaced, h

-----------------------------------------------------------------------------
\* Facts about the whole limiter.

\* Pruning the bucket of one kind keeps the limiter in step with the history.
LEMMA LimiterTracksPrune ==
  ASSUME NEW lim \in Limiter, NEW kind \in Kinds, NEW t \in Nat,
         NEW chats \in Seq(Sent), NEW joins \in Seq(Sent),
         LimiterTracks(lim, chats, joins, t)
  PROVE  LimiterTracks(PruneBucket(lim, kind, t), chats, joins, t)
PROOF
  <1>1. /\ lim.global_chat \in Seq(Nat) /\ lim.joins \in Seq(Nat)
        /\ ChatWindow \in Nat /\ JoinWindow \in Nat
    BY LimiterAssumption DEF Limiter
  <1>2. /\ Tracks(Prune(lim.global_chat, t - ChatWindow), chats, ChatWindow, t)
        /\ Tracks(Prune(lim.joins, t - JoinWindow), joins, JoinWindow, t)
    BY <1>1, TracksPrune DEF LimiterTracks
  <1> DEFINE lim2 == PruneBucket(lim, kind, t)
  <1>3. /\ lim2.channel_chat = lim.channel_chat
        /\ lim2.global_chat \in
             {lim.global_chat, Prune(lim.global_chat, t - ChatWindow)}
        /\ lim2.joins \in {lim.joins, Prune(lim.joins, t - JoinWindow)}
    BY DEF PruneBucket, Limiter, Kinds
  <1>4. Heard(lim2, chats, t)
    BY <1>3 DEF LimiterTracks, Heard
  <1> QED
    BY <1>2, <1>3, <1>4 DEF LimiterTracks

\* So does the whole scan of schedule_write.
LEMMA LimiterTracksScan ==
  ASSUME NEW lim \in Limiter, NEW queue, now \in Nat,
         NEW chats \in Seq(Sent), NEW joins \in Seq(Sent),
         LimiterTracks(lim, chats, joins, now)
  PROVE  LimiterTracks(PruneForScan(lim, queue), chats, joins, now)
PROOF
  <1>1. "join" \in Kinds /\ "chat" \in Kinds
    BY DEF Kinds
  <1> DEFINE joined == PruneBucket(lim, "join", now)
  <1>2. joined \in Limiter /\ LimiterTracks(joined, chats, joins, now)
    BY <1>1, PruneBucketType, LimiterTracksPrune
  <1>3. LimiterTracks(PruneBucket(lim, "chat", now), chats, joins, now)
    BY <1>1, LimiterTracksPrune
  <1>4. LimiterTracks(PruneBucket(joined, "chat", now), chats, joins, now)
    BY <1>1, <1>2, LimiterTracksPrune
  <1> QED
    BY <1>2, <1>3, <1>4 DEF PruneForScan

\* When next_allowed returns an instant that has come, the history allows
\* the write to start.
LEMMA AllowedMayStart ==
  ASSUME NEW lim \in Limiter, NEW kind \in Kinds,
         NEW channel \in Channels \cup {None}, NEW t \in Nat,
         kind = "chat" => channel \in Channels,
         NEW chats \in Seq(Sent), NEW joins \in Seq(Sent),
         LimiterTracks(lim, chats, joins, t),
         NextAllowed(lim, kind, channel, t) <= t
  PROVE  MayStart(kind, channel, chats, joins, t)
PROOF
  <1> DEFINE lim2 == PruneBucket(lim, kind, t)
  <1>1. lim2 \in Limiter /\ LimiterTracks(lim2, chats, joins, t)
    BY PruneBucketType, LimiterTracksPrune
  <1>2. /\ lim2.global_chat \in Seq(Nat) /\ lim2.joins \in Seq(Nat)
        /\ Tracks(lim2.global_chat, chats, ChatWindow, t)
        /\ Tracks(lim2.joins, joins, JoinWindow, t)
    BY <1>1 DEF Limiter, LimiterTracks
  <1>3. /\ kind = "join" => Len(lim2.joins) < JoinLimit
        /\ kind = "chat" => /\ Len(lim2.global_chat) < ChatLimit
                            /\ \/ lim.channel_chat[channel] = None
                               \/ lim.channel_chat[channel] + ChannelGap <= t
    BY AllowedNow
  <1> HIDE DEF lim2
  <1>4. kind = "join" => Clear(joins, JoinLimit, JoinWindow, t)
    BY <1>2, <1>3, TracksClear, LimiterAssumption
  <1>5. kind = "chat" => Clear(chats, ChatLimit, ChatWindow, t)
    BY <1>2, <1>3, TracksClear, LimiterAssumption
  <1>6. ASSUME kind = "chat", NEW i \in DOMAIN chats,
               chats[i].channel = channel
        PROVE  chats[i].done + ChannelGap <= t
    <2>1. /\ lim.channel_chat[channel] # None
          /\ chats[i].done <= lim.channel_chat[channel]
      BY <1>6 DEF LimiterTracks, Heard
    <2>2. chats[i].done \in Nat /\ lim.channel_chat[channel] \in Nat
      BY <1>6, <2>1, HistoryType DEF Limiter
    <2>3. lim.channel_chat[channel] + ChannelGap <= t
      BY <1>3, <1>6, <2>1
    <2> QED
      BY <2>1, <2>2, <2>3, LimiterAssumption
  <1>7. kind = "chat" => Quiet(chats, channel, t)
    BY <1>6 DEF Quiet
  <1> QED
    BY <1>4, <1>5, <1>7 DEF MayStart

\* schedule_write keeps the limiter in step with the history, and a write it
\* begins is one the history allows.
LEMMA ScheduleWriteStarts ==
  ASSUME NEW queue \in SUBSET Message, NEW lim \in Limiter, now \in Nat,
         NEW chats \in Seq(Sent), NEW joins \in Seq(Sent),
         LimiterTracks(lim, chats, joins, now),
         ScheduleWrite(queue, lim)
  PROVE  /\ LimiterTracks(limiter', chats, joins, now)
         /\ write_op' =>
              /\ current_write' # None
              /\ MayStart(current_write'.kind, current_write'.channel,
                          chats, joins, current_write'.start)
PROOF
  <1>1. CASE closed \/ queue = {}
    <2>1. limiter' = lim /\ write_op' = FALSE
      BY <1>1, Zenon DEF ScheduleWrite
    <2> QED
      BY <2>1, Zenon
  <1>2. CASE ~(closed \/ queue = {})
    <2>1. PICK m \in queue :
            /\ limiter' = PruneForScan(lim, queue)
            /\ IF AllowedAt(m, lim) > now
               THEN ArmWriteTimer(AllowedAt(m, lim), queue)
               ELSE StartWrite(m, queue)
      BY <1>2, Zenon DEF ScheduleWrite
    <2>2. LimiterTracks(limiter', chats, joins, now)
      BY <2>1, LimiterTracksScan
    <2>3. CASE AllowedAt(m, lim) > now
      <3>1. write_op' = FALSE
        BY <2>1, <2>3, Zenon DEF ArmWriteTimer
      <3> QED
        BY <2>2, <3>1, Zenon
    <2>4. CASE ~(AllowedAt(m, lim) > now)
      <3>1. /\ m.kind \in Kinds /\ m.channel \in Channels \cup {None}
            /\ m.kind = "chat" => m.channel \in Channels
        BY DEF Message
      <3>2. NextAllowed(lim, m.kind, m.channel, now) <= now
        BY <2>4, AllowedAtType
      <3>3. MayStart(m.kind, m.channel, chats, joins, now)
        BY <3>1, <3>2, AllowedMayStart
      <3> DEFINE w == [kind |-> m.kind, channel |-> m.channel, due |-> m.due,
                       sequence |-> m.sequence, start |-> now]
      <3>4. current_write' = w
        BY <2>1, <2>4, Zenon DEF StartWrite
      <3>5. w \in Write
        BY DEF Message, Write
      <3>6. current_write' # None
        BY <3>4, <3>5, NoneAssumption, Zenon
      <3>7. /\ w.kind = m.kind /\ w.channel = m.channel /\ w.start = now
        OBVIOUS
      <3> QED
        BY <2>2, <3>3, <3>4, <3>6, <3>7, Zenon
    <2> QED
      BY <2>3, <2>4
  <1> QED
    BY <1>1, <1>2

\* A completed chat message, recorded and remembered, is heard of.
LEMMA HeardAppend ==
  ASSUME NEW lim \in Limiter, NEW chats \in Seq(Sent), NEW t \in Nat,
         NEW sent \in Sent, sent.done = t, sent.channel \in Channels,
         NEW last \in [Channels -> Nat \cup {None}],
         last = [lim.channel_chat EXCEPT ![sent.channel] = t],
         NEW lim2, lim2.channel_chat = last,
         Heard(lim, chats, t)
  PROVE  Heard(lim2, Append(chats, sent), t)
PROOF
  <1> DEFINE h == Append(chats, sent)
  <1>1. /\ DOMAIN h = 1..(Len(chats) + 1)
        /\ \A i \in 1..Len(chats) : h[i] = chats[i]
        /\ h[Len(chats) + 1] = sent
    OBVIOUS
  <1>2. last[sent.channel] = t /\ t # None
    BY LimiterAssumption DEF Limiter
  <1> HIDE DEF h
  <1>3. ASSUME NEW i \in DOMAIN h
        PROVE  /\ h[i].done <= t
               /\ h[i].channel \in Channels
               /\ last[h[i].channel] # None
               /\ h[i].done <= last[h[i].channel]
    <2>1. CASE i \in DOMAIN chats
      <3>1. h[i] = chats[i]
        BY <1>1, <2>1
      <3>2. /\ chats[i].done <= t
            /\ chats[i].channel \in Channels
            /\ lim.channel_chat[chats[i].channel] # None
            /\ chats[i].done <= lim.channel_chat[chats[i].channel]
        BY <2>1 DEF Heard
      <3>3. \/ last[chats[i].channel] = lim.channel_chat[chats[i].channel]
            \/ last[chats[i].channel] = t
        BY <3>2 DEF Limiter
      <3> QED
        BY <1>2, <3>1, <3>2, <3>3
    <2>2. CASE i = Len(chats) + 1
      BY <1>1, <1>2, <2>2
    <2> QED
      BY <1>1, <2>1, <2>2
  <1> QED
    BY <1>3 DEF Heard, h

\* record keeps the limiter in step when a write completes.
LEMMA RecordTracks ==
  ASSUME TypeOK, current_write \in Write, Remember,
         LimiterTracks(limiter, chats_sent, joins_sent, now)
  PROVE  LimiterTracks(Record(limiter, current_write.kind,
                              current_write.channel, now),
                       chats_sent', joins_sent', now)
PROOF
  <1> DEFINE kind == current_write.kind
             channel == current_write.channel
             sent == [channel |-> channel, start |-> current_write.start,
                      done |-> now]
             lim2 == Record(limiter, kind, channel, now)
  <1>1. /\ kind \in Kinds /\ channel \in Channels \cup {None}
        /\ kind = "chat" => channel \in Channels
        /\ sent \in Sent /\ sent.done = now /\ sent.channel = channel
        /\ now \in Nat
        /\ chats_sent \in Seq(Sent) /\ joins_sent \in Seq(Sent)
        /\ limiter \in Limiter
        /\ limiter.global_chat \in Seq(Nat) /\ limiter.joins \in Seq(Nat)
        /\ ChatWindow \in Nat /\ JoinWindow \in Nat
    BY LimiterAssumption DEF TypeOK, Write, Sent, Limiter
  <1>2. /\ Tracks(limiter.global_chat, chats_sent, ChatWindow, now)
        /\ Tracks(limiter.joins, joins_sent, JoinWindow, now)
        /\ Heard(limiter, chats_sent, now)
    BY DEF LimiterTracks
  <1>3. /\ chats_sent' = IF kind = "chat"
                         THEN Append(chats_sent, sent) ELSE chats_sent
        /\ joins_sent' = IF kind = "join"
                         THEN Append(joins_sent, sent) ELSE joins_sent
    BY DEF Remember
  <1>4. CASE kind = "chat"
    <2>1. /\ lim2.global_chat = Append(limiter.global_chat, now)
          /\ lim2.joins = limiter.joins
          /\ lim2.channel_chat = [limiter.channel_chat EXCEPT ![channel] = now]
          /\ [limiter.channel_chat EXCEPT ![channel] = now]
               \in [Channels -> Nat \cup {None}]
      BY <1>1, <1>4 DEF Record, Limiter
    <2>2. chats_sent' = Append(chats_sent, sent) /\ joins_sent' = joins_sent
      BY <1>3, <1>4
    <2> HIDE DEF lim2, sent, kind, channel
    <2>3. Tracks(lim2.global_chat, chats_sent', ChatWindow, now)
      BY <1>1, <1>2, <2>1, <2>2, TracksAppend
    <2>4. Heard(lim2, Append(chats_sent, sent), now)
      BY <1>1, <1>2, <1>4, <2>1, HeardAppend
    <2>5. LimiterTracks(lim2, chats_sent', joins_sent', now)
      BY <1>2, <2>1, <2>2, <2>3, <2>4 DEF LimiterTracks
    <2> QED
      BY <2>5 DEF lim2, kind, channel
  <1>5. CASE kind = "join"
    <2>1. /\ lim2.global_chat = limiter.global_chat
          /\ lim2.joins = Append(limiter.joins, now)
          /\ lim2.channel_chat = limiter.channel_chat
      BY <1>1, <1>5 DEF Record, Limiter
    <2>2. joins_sent' = Append(joins_sent, sent) /\ chats_sent' = chats_sent
      BY <1>3, <1>5
    <2> HIDE DEF lim2, sent, kind, channel
    <2>3. Tracks(lim2.joins, joins_sent', JoinWindow, now)
      BY <1>1, <1>2, <2>1, <2>2, TracksAppend
    <2>4. Heard(lim2, chats_sent, now)
      BY <1>2, <2>1 DEF Heard
    <2>5. LimiterTracks(lim2, chats_sent', joins_sent', now)
      BY <1>2, <2>1, <2>2, <2>3, <2>4 DEF LimiterTracks
    <2> QED
      BY <2>5 DEF lim2, kind, channel
  <1>6. CASE kind = "system"
    <2>1. lim2 = limiter
      BY <1>6 DEF Record
    <2> QED
      BY <1>3, <1>6, <2>1
  <1> QED
    BY <1>1, <1>4, <1>5, <1>6 DEF Kinds

\* The clock may advance under the limiter.
LEMMA LimiterTracksLater ==
  ASSUME NEW lim \in Limiter, NEW t \in Nat, NEW u \in Nat, t <= u,
         NEW chats \in Seq(Sent), NEW joins \in Seq(Sent),
         LimiterTracks(lim, chats, joins, t)
  PROVE  LimiterTracks(lim, chats, joins, u)
PROOF
  <1>1. /\ lim.global_chat \in Seq(Nat) /\ lim.joins \in Seq(Nat)
        /\ ChatWindow \in Nat /\ JoinWindow \in Nat
    BY LimiterAssumption DEF Limiter
  <1>2. /\ Tracks(lim.global_chat, chats, ChatWindow, u)
        /\ Tracks(lim.joins, joins, JoinWindow, u)
    BY <1>1, TracksLater DEF LimiterTracks
  <1>3. ASSUME NEW i \in DOMAIN chats
        PROVE  chats[i].done <= u
    <2>1. chats[i].done \in Nat /\ chats[i].done <= t
      BY HistoryType DEF LimiterTracks, Heard
    <2> QED
      BY <2>1
  <1>4. Heard(lim, chats, u)
    BY <1>3 DEF LimiterTracks, Heard
  <1> QED
    BY <1>2, <1>4 DEF LimiterTracks

-----------------------------------------------------------------------------
\* The inductive invariant: types, the limiter in step with the history, and
\* the pacing of the history so far.
IInv == TypeOK /\ PacingInv /\ ChatPaced /\ JoinPaced /\ ChannelPaced

\* It holds at the start.
LEMMA IInvInit == Init => IInv
PROOF
  <1> SUFFICES ASSUME Init PROVE IInv
    OBVIOUS
  <1>1. /\ chats_sent = << >> /\ joins_sent = << >> /\ now = 0
        /\ limiter.global_chat = << >> /\ limiter.joins = << >>
        /\ write_op = FALSE
    BY DEF Init, NewLimiter
  <1>2. TypeOK
    BY TypeInit
  <1>3. PacingInv
    BY <1>1 DEF PacingInv, LimiterTracks, Tracks, Heard
  <1>4. ChatPaced /\ JoinPaced /\ ChannelPaced
    BY <1>1 DEF ChatPaced, JoinPaced, Spaced, ChannelPaced
  <1> QED
    BY <1>2, <1>3, <1>4 DEF IInv

\* A completed write appends to the history what the invariant has cleared.
LEMMA WriteDonePaces ==
  ASSUME IInv, current_write \in Write, write_op, Remember
  PROVE  ChatPaced' /\ JoinPaced' /\ ChannelPaced'
PROOF
  <1> DEFINE sent == [channel |-> current_write.channel,
                      start |-> current_write.start, done |-> now]
  <1>1. /\ sent \in Sent /\ sent.start = current_write.start
        /\ sent.channel = current_write.channel
        /\ chats_sent \in Seq(Sent) /\ joins_sent \in Seq(Sent)
    BY DEF IInv, TypeOK, Write, Sent
  <1>2. MayStart(current_write.kind, sent.channel, chats_sent, joins_sent,
                 sent.start)
    BY <1>1 DEF IInv, PacingInv
  <1>3. /\ chats_sent' = IF current_write.kind = "chat"
                         THEN Append(chats_sent, sent) ELSE chats_sent
        /\ joins_sent' = IF current_write.kind = "join"
                         THEN Append(joins_sent, sent) ELSE joins_sent
    BY DEF Remember
  <1> HIDE DEF sent
  <1>4. ChatPaced'
    <2>1. CASE current_write.kind = "chat"
      <3>1. Spaced(Append(chats_sent, sent), ChatLimit, ChatWindow)
        BY <1>1, <1>2, <2>1, SpacedAppend, LimiterAssumption
           DEF IInv, ChatPaced, MayStart
      <3> QED
        BY <1>3, <2>1, <3>1 DEF ChatPaced
    <2>2. CASE current_write.kind # "chat"
      BY <1>3, <2>2 DEF IInv, ChatPaced
    <2> QED
      BY <2>1, <2>2
  <1>5. JoinPaced'
    <2>1. CASE current_write.kind = "join"
      <3>1. Spaced(Append(joins_sent, sent), JoinLimit, JoinWindow)
        BY <1>1, <1>2, <2>1, SpacedAppend, LimiterAssumption
           DEF IInv, JoinPaced, MayStart
      <3> QED
        BY <1>3, <2>1, <3>1 DEF JoinPaced
    <2>2. CASE current_write.kind # "join"
      BY <1>3, <2>2 DEF IInv, JoinPaced
    <2> QED
      BY <2>1, <2>2
  <1>6. ChannelPaced'
    <2>1. CASE current_write.kind = "chat"
      <3> DEFINE h == Append(chats_sent, sent)
      <3>1. /\ chats_sent' = h
            /\ DOMAIN h = 1..(Len(chats_sent) + 1)
            /\ \A i \in 1..Len(chats_sent) : h[i] = chats_sent[i]
            /\ h[Len(chats_sent) + 1] = sent
        BY <1>1, <1>3, <2>1
      <3> HIDE DEF h
      <3>2. ASSUME NEW i \in DOMAIN h, NEW j \in DOMAIN h, i < j,
                   h[i].channel = h[j].channel
            PROVE  h[j].start >= h[i].done + ChannelGap
        <4>1. i \in DOMAIN chats_sent
          BY <1>1, <3>1, <3>2
        <4>2. CASE j \in DOMAIN chats_sent
          BY <1>1, <3>1, <3>2, <4>1, <4>2 DEF IInv, ChannelPaced
        <4>3. CASE j = Len(chats_sent) + 1
          <5>1. chats_sent[i].channel = sent.channel
            BY <1>1, <3>1, <3>2, <4>1, <4>3
          <5>2. chats_sent[i].done + ChannelGap <= sent.start
            BY <1>2, <2>1, <4>1, <5>1 DEF MayStart, Quiet
          <5>3. chats_sent[i].done \in Nat /\ sent.start \in Nat
            BY <1>1, <4>1, HistoryType DEF Sent
          <5> QED
            BY <1>1, <3>1, <4>1, <4>3, <5>2, <5>3, LimiterAssumption
        <4> QED
          BY <1>1, <3>1, <4>2, <4>3
      <3> QED
        BY <3>1, <3>2 DEF ChannelPaced
    <2>2. CASE current_write.kind # "chat"
      BY <1>3, <2>2 DEF IInv, ChannelPaced
    <2> QED
      BY <2>1, <2>2
  <1> QED
    BY <1>4, <1>5, <1>6

\* Every step keeps it.
LEMMA IInvStep == IInv /\ [Next]_vars => IInv'
PROOF
  <1> SUFFICES ASSUME IInv, [Next]_vars
               PROVE  IInv'
    OBVIOUS
  <1>1. TypeOK'
    BY TypeStep DEF IInv, PacingInv
  <1>2. /\ limiter \in Limiter /\ now \in Nat
        /\ chats_sent \in Seq(Sent) /\ joins_sent \in Seq(Sent)
        /\ outbound \in SUBSET Message
        /\ LimiterTracks(limiter, chats_sent, joins_sent, now)
    BY DEF IInv, TypeOK, PacingInv
  <1> DEFINE PacedWell == PacingInv /\ ChatPaced /\ JoinPaced /\ ChannelPaced
  <1> SUFFICES PacedWell'
    BY <1>1 DEF IInv
  <1>3. ASSUME UNCHANGED <<chats_sent, joins_sent>>
        PROVE  ChatPaced' /\ JoinPaced' /\ ChannelPaced'
    BY <1>3 DEF IInv, ChatPaced, JoinPaced, ChannelPaced
  <1>4. ASSUME UNCHANGED <<limiter, now, chats_sent, joins_sent>>,
               \/ UNCHANGED <<current_write, write_op>>
               \/ write_op' = FALSE
        PROVE  PacedWell'
    <2>1. PacingInv'
      BY <1>4 DEF IInv, PacingInv
    <2> QED
      BY <1>3, <1>4, <2>1
  <1>5. ASSUME NEW queue \in SUBSET Message, ScheduleWrite(queue, limiter),
               UNCHANGED <<now, chats_sent, joins_sent>>
        PROVE  PacedWell'
    <2>1. /\ LimiterTracks(limiter', chats_sent, joins_sent, now)
          /\ write_op' =>
               /\ current_write' # None
               /\ MayStart(current_write'.kind, current_write'.channel,
                           chats_sent, joins_sent, current_write'.start)
      BY <1>2, <1>5, ScheduleWriteStarts
    <2>2. PacingInv'
      BY <1>5, <2>1 DEF PacingInv
    <2> QED
      BY <1>3, <1>5, <2>2
  <1>6. ASSUME NEW r \in Requests, Enqueue(r[1], r[2], r[3])
        PROVE  PacedWell'
    <2> DEFINE m == [kind |-> r[1], channel |-> r[2], due |-> now + r[3],
                     sequence |-> next_sequence]
    <2>1. (outbound \cup {m}) \in SUBSET Message
      <3>1. m \in Message
        BY RequestsType DEF Message, IInv, TypeOK
      <3> QED
        BY <1>2, <3>1
    <2>2. UNCHANGED <<now, chats_sent, joins_sent>>
      BY <1>6 DEF Enqueue, history
    <2>3. \/ UNCHANGED <<current_write, write_op, limiter>>
          \/ ScheduleWrite(outbound \cup {m}, limiter)
      BY <1>6, Zenon DEF Enqueue, Finish
    <2> HIDE DEF m
    <2> QED
      BY <1>4, <1>5, <2>1, <2>2, <2>3
  <1>7. CASE TimerExpires
    BY <1>4, <1>7 DEF TimerExpires, history
  <1>8. CASE TimerHandler
    <2>1. UNCHANGED <<now, chats_sent, joins_sent>>
      BY <1>8 DEF TimerHandler, history
    <2>2. \/ UNCHANGED <<current_write, write_op, limiter>>
          \/ ScheduleWrite(outbound, limiter)
      BY <1>8 DEF TimerHandler
    <2> QED
      BY <1>2, <1>4, <1>5, <2>1, <2>2
  <1>9. CASE WriteDone
    <2>1. write_op /\ Remember /\ now' = now
      BY <1>9 DEF WriteDone
    <2>2. current_write \in Write
      BY <2>1 DEF IInv, TypeOK, PacingInv
    <2>3. ChatPaced' /\ JoinPaced' /\ ChannelPaced'
      BY <2>1, <2>2, WriteDonePaces
    <2> DEFINE lim == Record(limiter, current_write.kind,
                             current_write.channel, now)
    <2>4. lim \in Limiter
      <3>1. /\ current_write.kind \in Kinds
            /\ current_write.channel \in Channels \cup {None}
            /\ current_write.kind = "chat" => current_write.channel \in Channels
        BY <2>2 DEF Write
      <3> QED
        BY <1>2, <3>1, RecordType
    <2>5. LimiterTracks(lim, chats_sent', joins_sent', now)
      BY <1>2, <2>1, <2>2, RecordTracks DEF IInv
    <2> HIDE DEF lim
    <2>6. ScheduleWrite(outbound, lim)
      BY <1>9 DEF WriteDone, lim
    <2>7. PICK chats \in Seq(Sent), joins \in Seq(Sent) :
            chats = chats_sent' /\ joins = joins_sent'
      BY <1>1 DEF TypeOK
    <2>8. /\ LimiterTracks(limiter', chats, joins, now)
          /\ write_op' =>
               /\ current_write' # None
               /\ MayStart(current_write'.kind, current_write'.channel,
                           chats, joins, current_write'.start)
      BY <1>2, <2>4, <2>5, <2>6, <2>7, ScheduleWriteStarts
    <2>9. PacingInv'
      BY <2>1, <2>7, <2>8 DEF PacingInv
    <2> QED
      BY <2>3, <2>9
  <1>10. CASE WriteFailed
    BY <1>4, <1>10 DEF WriteFailed, history
  <1>11. CASE SessionEnds
    BY <1>4, <1>11 DEF SessionEnds, Finish, history
  <1>12. CASE NewSession
    <2>1. write_op' = FALSE /\ UNCHANGED <<limiter, now, chats_sent, joins_sent>>
      BY <1>12, Zenon DEF NewSession, history, IInv, TypeOK
    <2> QED
      BY <1>4, <2>1, Zenon
  <1>13. CASE Tick
    <2>1. /\ now' = now + 1
          /\ UNCHANGED <<limiter, chats_sent, joins_sent, current_write,
                         write_op>>
      BY <1>13 DEF Tick, sessionVars, history
    <2>2. LimiterTracks(limiter, chats_sent, joins_sent, now + 1)
      BY <1>2, LimiterTracksLater
    <2>3. PacingInv'
      BY <2>1, <2>2 DEF IInv, PacingInv
    <2> QED
      BY <1>3, <2>1, <2>3
  <1>14. CASE UNCHANGED vars
    BY <1>4, <1>14 DEF vars, sessionVars, history
  <1> QED
    BY <1>6, <1>7, <1>8, <1>9, <1>10, <1>11, <1>12, <1>13, <1>14 DEF Next

\* The inductive invariant holds in every reachable state.
THEOREM Invariance == Spec => []IInv
PROOF
  BY IInvInit, IInvStep, PTL DEF Spec

\* Every variable keeps its type, whatever is enqueued, however writes and
\* timers are interleaved and however often the session is replaced.
THEOREM TypeCorrect == Spec => []TypeOK
PROOF
  <1>1. IInv => TypeOK
    BY DEF IInv
  <1> QED
    BY <1>1, Invariance, PTL

\* The limiter, which forgets what it prunes, never forgets what a limit still
\* depends on, and the write in flight began when the limits allowed it:
\* next_allowed, record and schedule_write over all sessions of a client.
THEOREM LimiterKnows == Spec => []PacingInv
PROOF
  <1>1. IInv => PacingInv
    BY DEF IInv
  <1> QED
    BY <1>1, Invariance, PTL

\* At most ChatLimit chat messages per ChatWindow, over all sessions of a
\* client, for every limit and window (next_allowed and record, as
\* schedule_write and the handler of async_write use them).
THEOREM ChatPacing == Spec => []ChatPaced
PROOF
  <1>1. IInv => ChatPaced
    BY DEF IInv
  <1> QED
    BY <1>1, Invariance, PTL

\* The same for JOINs: reconnecting does not let more of them pass.
THEOREM JoinPacing == Spec => []JoinPaced
PROOF
  <1>1. IInv => JoinPaced
    BY DEF IInv
  <1> QED
    BY <1>1, Invariance, PTL

\* Two chat messages to one channel are ChannelGap apart, over all sessions.
THEOREM ChannelPacing == Spec => []ChannelPaced
PROOF
  <1>1. IInv => ChannelPaced
    BY DEF IInv
  <1> QED
    BY <1>1, Invariance, PTL

-----------------------------------------------------------------------------
\* A history is a sequence of writes one after the other, all in the past.
InOrder(hist, t) ==
  /\ \A i \in DOMAIN hist : hist[i].start <= hist[i].done /\ hist[i].done <= t
  /\ \A i, j \in DOMAIN hist : i <= j => hist[i].done <= hist[j].done

OrderInv ==
  /\ InOrder(chats_sent, now)
  /\ InOrder(joins_sent, now)
  /\ write_op => current_write.start <= now

\* A session that writes nothing waits, no longer than until the earliest
\* instant at which one of its messages may be written.
Awake ==
  ~closed /\ current_write = None /\ ~timer_fired =>
    \A m \in outbound :
      write_timer # None /\ write_timer <= AllowedAt(m, limiter)

\* The write in flight was numbered before what is enqueued from now on, and
\* protocol lines and JOINs are due when they are enqueued.
Numbered ==
  /\ current_write # None => current_write.sequence < next_sequence
  /\ \A m \in outbound : m.kind # "chat" => m.due <= now
-----------------------------------------------------------------------------
\* What schedule_write does, case by case: nothing, wait, or begin a write.
Rests(queue, lim) ==
  /\ closed \/ queue = {}
  /\ outbound' = queue /\ limiter' = lim /\ write_timer' = write_timer
  /\ current_write' = None /\ write_op' = FALSE

Waits(m, queue, lim) ==
  /\ \A n \in queue : AllowedAt(m, lim) <= AllowedAt(n, lim)
  /\ outbound' = queue /\ limiter' = PruneForScan(lim, queue)
  /\ write_timer' = AllowedAt(m, lim) /\ AllowedAt(m, lim) > now
  /\ current_write' = None /\ write_op' = FALSE

StartsWriting(m, queue, lim) ==
  /\ AllowedAt(m, lim) <= now
  /\ \A n \in queue : Precedes(m, n, lim)
  /\ outbound' = queue \ {m}
  /\ current_write' = [kind |-> m.kind, channel |-> m.channel, due |-> m.due,
                       sequence |-> m.sequence, start |-> now]
  /\ write_op' = TRUE
  /\ write_timer' = write_timer

\* The three cases cover schedule_write.
LEMMA ScheduleWriteCases ==
  ASSUME NEW queue \in SUBSET Message, NEW lim \in Limiter, now \in Nat,
         ScheduleWrite(queue, lim)
  PROVE  \/ Rests(queue, lim)
         \/ \E m \in queue : Waits(m, queue, lim)
         \/ \E m \in queue : StartsWriting(m, queue, lim)
PROOF
  <1>1. CASE closed \/ queue = {}
    BY <1>1, Zenon DEF ScheduleWrite, Rests
  <1>2. CASE ~(closed \/ queue = {})
    <2>1. PICK m \in queue :
            /\ \A n \in queue : Precedes(m, n, lim)
            /\ limiter' = PruneForScan(lim, queue)
            /\ IF AllowedAt(m, lim) > now
               THEN ArmWriteTimer(AllowedAt(m, lim), queue)
               ELSE StartWrite(m, queue)
      BY <1>2, Zenon DEF ScheduleWrite
    <2>2. \A n \in queue : AllowedAt(n, lim) \in Nat
      BY AllowedAtType
    <2>3. CASE AllowedAt(m, lim) > now
      <3>1. ArmWriteTimer(AllowedAt(m, lim), queue)
        BY <2>1, <2>3, Zenon
      <3>2. ASSUME NEW n \in queue
            PROVE  AllowedAt(m, lim) <= AllowedAt(n, lim)
        BY <2>1, <2>2 DEF Precedes
      <3>3. Waits(m, queue, lim)
        BY <2>1, <2>3, <3>1, <3>2, Zenon DEF Waits, ArmWriteTimer
      <3> QED
        BY <3>3, Zenon
    <2>4. CASE ~(AllowedAt(m, lim) > now)
      <3>1. StartWrite(m, queue)
        BY <2>1, <2>4, Zenon
      <3>2. AllowedAt(m, lim) <= now
        BY <2>2, <2>4
      <3>3. StartsWriting(m, queue, lim)
        BY <2>1, <3>1, <3>2, Zenon DEF StartsWriting, StartWrite
      <3> QED
        BY <3>3, Zenon
    <2> QED
      BY <2>3, <2>4, Zenon
  <1> QED
    BY <1>1, <1>2, Zenon

-----------------------------------------------------------------------------
\* The order of the history.

\* A write that completes now keeps the history in order.
LEMMA InOrderAppend ==
  ASSUME NEW hist \in Seq(Sent), NEW t \in Nat, InOrder(hist, t),
         NEW sent \in Sent, sent.done = t, sent.start <= t
  PROVE  InOrder(Append(hist, sent), t)
PROOF
  <1> DEFINE h == Append(hist, sent)
  <1>1. /\ DOMAIN h = 1..(Len(hist) + 1) /\ Len(hist) \in Nat
        /\ DOMAIN hist = 1..Len(hist)
        /\ \A i \in 1..Len(hist) : h[i] = hist[i]
        /\ h[Len(hist) + 1] = sent
    OBVIOUS
  <1>2. \A i \in DOMAIN hist :
          /\ hist[i].start <= hist[i].done /\ hist[i].done <= t
          /\ hist[i].done \in Nat
    BY HistoryType DEF InOrder
  <1> HIDE DEF h
  <1>3. ASSUME NEW i \in DOMAIN h
        PROVE  h[i].start <= h[i].done /\ h[i].done <= t /\ h[i].done \in Nat
    <2>1. CASE i \in DOMAIN hist
      BY <1>1, <1>2, <2>1
    <2>2. CASE i = Len(hist) + 1
      BY <1>1, <2>2
    <2> QED
      BY <1>1, <2>1, <2>2
  <1>4. ASSUME NEW i \in DOMAIN h, NEW j \in DOMAIN h, i <= j
        PROVE  h[i].done <= h[j].done
    <2>1. CASE j \in DOMAIN hist
      <3>1. i \in DOMAIN hist
        BY <1>1, <1>4, <2>1
      <3> QED
        BY <1>1, <1>4, <2>1, <3>1 DEF InOrder
    <2>2. CASE j = Len(hist) + 1
      <3>1. h[j].done = t
        BY <1>1, <2>2
      <3> QED
        BY <1>3, <3>1
    <2> QED
      BY <1>1, <2>1, <2>2
  <1> QED
    BY <1>3, <1>4 DEF InOrder, h

\* It stays in order while time passes.
LEMMA InOrderLater ==
  ASSUME NEW hist \in Seq(Sent), NEW t \in Nat, InOrder(hist, t)
  PROVE  InOrder(hist, t + 1)
PROOF
  <1>1. ASSUME NEW i \in DOMAIN hist
        PROVE  hist[i].done <= t + 1
    <2>1. hist[i].done \in Nat /\ hist[i].done <= t
      BY HistoryType DEF InOrder
    <2> QED
      BY <2>1
  <1> QED
    BY <1>1 DEF InOrder

\* The order of the history is kept by every step.
LEMMA OrderStep ==
  ASSUME IInv, OrderInv, [Next]_vars
  PROVE  OrderInv'
PROOF
  <1>1. /\ limiter \in Limiter /\ now \in Nat
        /\ chats_sent \in Seq(Sent) /\ joins_sent \in Seq(Sent)
        /\ outbound \in SUBSET Message
        /\ write_op => current_write \in Write
        /\ InOrder(chats_sent, now) /\ InOrder(joins_sent, now)
    BY DEF IInv, TypeOK, PacingInv, OrderInv
  <1>2. ASSUME UNCHANGED <<now, chats_sent, joins_sent>>,
               \/ UNCHANGED <<current_write, write_op>>
               \/ write_op' = FALSE
        PROVE  OrderInv'
    <2>1. InOrder(chats_sent, now)' /\ InOrder(joins_sent, now)'
      BY <1>1, <1>2
    <2>2. write_op' => current_write.start <= now /\ current_write' = current_write
      BY <1>2, Zenon DEF OrderInv
    <2> QED
      BY <1>2, <2>1, <2>2, Zenon DEF OrderInv
  <1>3. ASSUME NEW queue \in SUBSET Message, NEW lim \in Limiter,
               ScheduleWrite(queue, lim), now' = now
        PROVE  write_op' => current_write'.start <= now'
    <2>1. \A m : StartsWriting(m, queue, lim) => current_write'.start = now
      BY DEF StartsWriting
    <2>2. now <= now
      BY <1>1
    <2> QED
      BY <1>1, <1>3, <2>1, <2>2, ScheduleWriteCases, Zenon DEF Rests, Waits
  <1>4. ASSUME NEW r \in Requests, Enqueue(r[1], r[2], r[3])
        PROVE  OrderInv'
    <2> DEFINE m == [kind |-> r[1], channel |-> r[2], due |-> now + r[3],
                     sequence |-> next_sequence]
    <2>1. (outbound \cup {m}) \in SUBSET Message
      <3>1. m \in Message
        BY RequestsType DEF Message, IInv, TypeOK
      <3> QED
        BY <1>1, <3>1
    <2>2. UNCHANGED <<now, chats_sent, joins_sent>>
      BY <1>4 DEF Enqueue, history
    <2>3. \/ UNCHANGED <<current_write, write_op, limiter>>
          \/ ScheduleWrite(outbound \cup {m}, limiter)
      BY <1>4, Zenon DEF Enqueue, Finish
    <2> HIDE DEF m
    <2>4. CASE ScheduleWrite(outbound \cup {m}, limiter)
      BY <1>1, <1>3, <2>1, <2>2, <2>4, Zenon DEF OrderInv
    <2> QED
      BY <1>2, <2>2, <2>3, <2>4
  <1>5. CASE TimerExpires
    BY <1>2, <1>5 DEF TimerExpires, history
  <1>6. CASE TimerHandler
    <2>1. UNCHANGED <<now, chats_sent, joins_sent>>
      BY <1>6 DEF TimerHandler, history
    <2>2. \/ UNCHANGED <<current_write, write_op>>
          \/ ScheduleWrite(outbound, limiter)
      BY <1>6 DEF TimerHandler
    <2>3. CASE ScheduleWrite(outbound, limiter)
      BY <1>1, <1>3, <2>1, <2>3, Zenon DEF OrderInv
    <2> QED
      BY <1>2, <2>1, <2>2, <2>3
  <1>7. CASE WriteDone
    <2> DEFINE sent == [channel |-> current_write.channel,
                        start |-> current_write.start, done |-> now]
               lim == Record(limiter, current_write.kind,
                             current_write.channel, now)
    <2>1. write_op /\ Remember /\ now' = now /\ ScheduleWrite(outbound, lim)
      BY <1>7 DEF WriteDone
    <2>2. /\ current_write \in Write
          /\ sent \in Sent /\ sent.done = now /\ sent.start <= now
      BY <1>1, <2>1 DEF Write, Sent, OrderInv
    <2>3. lim \in Limiter
      <3>1. /\ current_write.kind \in Kinds
            /\ current_write.channel \in Channels \cup {None}
            /\ current_write.kind = "chat" => current_write.channel \in Channels
        BY <2>2 DEF Write
      <3> QED
        BY <1>1, <3>1, RecordType
    <2>4. /\ chats_sent' \in {chats_sent, Append(chats_sent, sent)}
          /\ joins_sent' \in {joins_sent, Append(joins_sent, sent)}
      BY <2>1 DEF Remember
    <2> HIDE DEF sent, lim
    <2>5. /\ InOrder(Append(chats_sent, sent), now)
          /\ InOrder(Append(joins_sent, sent), now)
      BY <1>1, <2>2, InOrderAppend
    <2>6. InOrder(chats_sent', now) /\ InOrder(joins_sent', now)
      BY <1>1, <2>4, <2>5
    <2>7. write_op' => current_write'.start <= now'
      BY <1>1, <1>3, <2>1, <2>3, Zenon
    <2> QED
      BY <2>1, <2>6, <2>7 DEF OrderInv
  <1>8. CASE WriteFailed
    BY <1>2, <1>8 DEF WriteFailed, history
  <1>9. CASE SessionEnds
    BY <1>2, <1>9 DEF SessionEnds, Finish, history
  <1>10. CASE NewSession
    <2>1. write_op' = FALSE /\ UNCHANGED <<now, chats_sent, joins_sent>>
      BY <1>10, Zenon DEF NewSession, history, IInv, TypeOK
    <2> QED
      BY <1>2, <2>1, Zenon
  <1>11. CASE Tick
    <2>1. /\ now' = now + 1
          /\ UNCHANGED <<chats_sent, joins_sent, current_write, write_op>>
      BY <1>11 DEF Tick, sessionVars, history
    <2>2. InOrder(chats_sent, now + 1) /\ InOrder(joins_sent, now + 1)
      BY <1>1, InOrderLater
    <2>3. write_op => current_write.start <= now + 1
      <3>1. write_op => current_write.start \in Nat /\ current_write.start <= now
        BY <1>1 DEF OrderInv, Write
      <3> QED
        BY <1>1, <3>1
    <2> QED
      BY <2>1, <2>2, <2>3 DEF OrderInv
  <1>12. CASE UNCHANGED vars
    BY <1>2, <1>12 DEF vars, sessionVars, history
  <1> QED
    BY <1>4, <1>5, <1>6, <1>7, <1>8, <1>9, <1>10, <1>11, <1>12 DEF Next

-----------------------------------------------------------------------------
\* The answer of next_allowed is exact.

\* A deque that tracks a spaced history is in order of time, and no more than
\* its limit of its entries lie in the window.
LEMMA TracksExact ==
  ASSUME NEW entries \in Seq(Nat), NEW hist \in Seq(Sent),
         NEW limit \in Nat \ {0}, NEW window \in Nat, NEW t \in Nat,
         Tracks(entries, hist, window, t), InOrder(hist, t),
         Spaced(hist, limit, window)
  PROVE  /\ \A i, j \in 1..Len(entries) : i <= j => entries[i] <= entries[j]
         /\ Len(Prune(entries, t - window)) <= limit
PROOF
  <1>1. ASSUME NEW e \in Seq(Nat), Tracks(e, hist, window, t)
        PROVE  \E lost \in Nat :
                 /\ Len(hist) = lost + Len(e) /\ Len(e) \in Nat
                 /\ DOMAIN hist = 1..(lost + Len(e))
                 /\ \A i \in 1..Len(e) : e[i] = hist[lost + i].done
    <2> DEFINE lost == Len(hist) - Len(e)
    <2>1. /\ lost \in Nat
          /\ \A i \in 1..Len(e) : e[i] = hist[lost + i].done
      <3>1. /\ lost >= 0
            /\ \A i \in DOMAIN e : e[i] = hist[lost + i].done
        BY <1>1, Zenon DEF Tracks
      <3>2. lost \in Int /\ DOMAIN e = 1..Len(e)
        BY HistoryType
      <3> HIDE DEF lost
      <3>3. lost \in Nat
        BY <3>1, <3>2
      <3>4. \A i \in 1..Len(e) : e[i] = hist[lost + i].done
        BY <3>1, <3>2, Zenon
      <3> QED
        BY <3>3, <3>4, Zenon
    <2>2. Len(hist) = lost + Len(e) /\ Len(e) \in Nat
      BY HistoryType
    <2> HIDE DEF lost
    <2> QED
      BY <2>1, <2>2, HistoryType
  <1>2. ASSUME NEW i \in 1..Len(entries), NEW j \in 1..Len(entries), i <= j
        PROVE  entries[i] <= entries[j]
    <2>1. PICK lost \in Nat :
            /\ Len(entries) \in Nat
            /\ DOMAIN hist = 1..(lost + Len(entries))
            /\ \A k \in 1..Len(entries) : entries[k] = hist[lost + k].done
      BY <1>1
    <2>2. /\ lost + i \in DOMAIN hist /\ lost + j \in DOMAIN hist
          /\ lost + i <= lost + j
      BY <1>2, <2>1
    <2>3. hist[lost + i].done <= hist[lost + j].done
      BY <2>2 DEF InOrder
    <2> QED
      BY <2>1, <2>3
  <1> DEFINE p == Prune(entries, t - window)
  <1>3. /\ p \in Seq(Nat)
        /\ Len(p) > 0 => p[1] > t - window
    <2>1. t - window \in Int
      OBVIOUS
    <2> QED
      BY <2>1, PruneLemma
  <1>4. Tracks(p, hist, window, t)
    BY TracksPrune
  <1> HIDE DEF p
  <1>5. Len(p) <= limit
    <2>1. SUFFICES ASSUME ~(Len(p) <= limit) PROVE FALSE
      OBVIOUS
    <2>2. PICK lost \in Nat :
            /\ Len(p) \in Nat
            /\ DOMAIN hist = 1..(lost + Len(p))
            /\ \A k \in 1..Len(p) : p[k] = hist[lost + k].done
      BY <1>1, <1>3, <1>4
    <2> DEFINE first == lost + 1
               last == lost + 1 + limit
    <2>3. /\ first \in DOMAIN hist /\ last \in DOMAIN hist
          /\ last >= first + limit /\ 1 \in 1..Len(p) /\ Len(p) > 0
      BY <2>1, <2>2
    <2>4. p[1] = hist[first].done /\ p[1] > t - window
      BY <1>3, <2>2, <2>3
    <2> HIDE DEF first, last
    <2>5. hist[last].start >= hist[first].done + window
      BY <2>3 DEF Spaced
    <2>6. /\ hist[last].start <= hist[last].done /\ hist[last].done <= t
          /\ hist[last].start \in Nat /\ hist[last].done \in Nat
          /\ hist[first].done \in Nat
      BY <2>3, HistoryType DEF InOrder
    <2>7. PICK a, b, c : /\ a = hist[first].done
                         /\ b = hist[last].start /\ c = hist[last].done
      OBVIOUS
    <2>8. /\ a \in Nat /\ b \in Nat /\ c \in Nat
          /\ a > t - window /\ b >= a + window /\ b <= c /\ c <= t
      BY <2>4, <2>5, <2>6, <2>7
    <2> QED
      BY <2>8
  <1> QED
    BY <1>2, <1>5, Zenon DEF p

\* In a limiter that tracks spaced histories, next_allowed returns the first
\* instant, from now on, at which the limits permit the write.
LEMMA AnswerIsExact ==
  ASSUME IInv, OrderInv, NEW kind \in {"join", "chat"}, NEW c \in Channels
  PROVE  ExactFor(limiter, kind, c, now)
PROOF
  <1> DEFINE e == IF kind = "join" THEN limiter.joins ELSE limiter.global_chat
             limit == IF kind = "join" THEN JoinLimit ELSE ChatLimit
             window == IF kind = "join" THEN JoinWindow ELSE ChatWindow
             opens == BucketOpens(Prune(e, now - window), limit, window, now)
             heard == limiter.channel_chat[c]
             t == NextAllowed(limiter, kind, c, now)
  <1>1. /\ limiter \in Limiter /\ now \in Nat
        /\ chats_sent \in Seq(Sent) /\ joins_sent \in Seq(Sent)
        /\ InOrder(chats_sent, now) /\ InOrder(joins_sent, now)
        /\ Spaced(chats_sent, ChatLimit, ChatWindow)
        /\ Spaced(joins_sent, JoinLimit, JoinWindow)
        /\ Tracks(limiter.global_chat, chats_sent, ChatWindow, now)
        /\ Tracks(limiter.joins, joins_sent, JoinWindow, now)
    BY DEF IInv, TypeOK, PacingInv, OrderInv, ChatPaced, JoinPaced,
           LimiterTracks
  <1>2. /\ limiter.global_chat \in Seq(Nat) /\ limiter.joins \in Seq(Nat)
        /\ heard \in Nat \cup {None}
        /\ e \in Seq(Nat) /\ limit \in Nat \ {0} /\ window \in Nat
    BY <1>1, LimiterAssumption DEF Limiter
  <1>3. /\ \A i, j \in 1..Len(e) : i <= j => e[i] <= e[j]
        /\ Len(Prune(e, now - window)) <= limit
    <2>1. CASE kind = "join"
      <3>1. e = limiter.joins /\ limit = JoinLimit /\ window = JoinWindow
        BY <2>1
      <3> HIDE DEF e, limit, window
      <3> QED
        BY <1>1, <1>2, <3>1, TracksExact
    <2>2. CASE kind = "chat"
      <3>1. e = limiter.global_chat /\ limit = ChatLimit /\ window = ChatWindow
        BY <2>2
      <3> HIDE DEF e, limit, window
      <3> QED
        BY <1>1, <1>2, <3>1, TracksExact
    <2> QED
      BY <2>1, <2>2
  <1>4. t = IF kind = "join" THEN opens
            ELSE Later(opens, ChannelOpens(limiter, c, now))
    BY <1>1 DEF NextAllowed, PruneBucket, Limiter
  <1>5. \A u : Permits(limiter, kind, c, u) <=>
                 /\ HasRoom(e, limit, window, u)
                 /\ kind = "chat" => heard = None \/ heard + ChannelGap <= u
    BY DEF Permits
  <1> HIDE DEF e, limit, window, heard
  <1>6. /\ opens \in Nat /\ opens >= now
        /\ \A u \in Nat : u >= now =>
             (HasRoom(e, limit, window, u) <=> u >= opens)
    <2>1. now <= now
      BY <1>1
    <2>2. opens \in Nat /\ opens >= now
      BY <1>1, <1>2, <2>1, BucketLater, Zenon
    <2>3. \A u \in Nat : u >= now =>
            (HasRoom(e, limit, window, u) <=> u >= opens)
      BY <1>1, <1>2, <1>3, BucketExact, Zenon
    <2> QED
      BY <2>2, <2>3
  <1>7. /\ heard = None => ChannelOpens(limiter, c, now) = now
        /\ heard # None => ChannelOpens(limiter, c, now) = heard + ChannelGap
    BY DEF ChannelOpens, heard
  <1> HIDE DEF opens, t
  <1>8. ASSUME NEW u \in Nat, u >= now
        PROVE  Permits(limiter, kind, c, u) <=> u >= t
    <2>1. CASE kind = "join"
      BY <1>4, <1>5, <1>6, <1>8, <2>1
    <2>2. CASE kind = "chat" /\ heard = None
      <3>1. t = opens
        BY <1>1, <1>4, <1>6, <1>7, <2>2 DEF Later
      <3> QED
        BY <1>5, <1>6, <1>8, <2>2, <3>1
    <2>3. CASE kind = "chat" /\ heard # None
      <3>1. t = Later(opens, heard + ChannelGap) /\ heard \in Nat
        BY <1>2, <1>4, <1>7, <2>3
      <3>2. u >= t <=> u >= opens /\ heard + ChannelGap <= u
        BY <1>6, <1>8, <3>1, LimiterAssumption DEF Later
      <3>3. HasRoom(e, limit, window, u) <=> u >= opens
        BY <1>6, <1>8
      <3> QED
        BY <1>5, <2>3, <3>2, <3>3, Zenon
    <2> QED
      BY <2>1, <2>2, <2>3
  <1>9. t \in Nat /\ t >= now
    <2>1. kind \in Kinds /\ c \in Channels \cup {None} /\ now <= now
      BY <1>1 DEF Kinds
    <2> QED
      BY <1>1, <2>1, NextAllowedType, NextAllowedLater, Zenon DEF t
  <1>10. Permits(limiter, kind, c, t)
    BY <1>8, <1>9
  <1>11. ASSUME NEW u \in now..(t - 1)
         PROVE  ~Permits(limiter, kind, c, u)
    <2>1. u \in Nat /\ u >= now /\ ~(u >= t)
      BY <1>1, <1>9
    <2> QED
      BY <1>8, <2>1
  <1> QED
    BY <1>9, <1>10, <1>11, Zenon DEF ExactFor, t

\* In every reachable state next_allowed answers, for every channel, with the
\* first instant at which fewer than the limit of completed writes lie in the
\* window before it and the channel has been quiet: pruning loses nothing and
\* delays nothing (RateLimiter::next_allowed and record).
THEOREM AnswersAreExact == Spec => []NextAllowedExact
PROOF
  <1>1. Init => OrderInv
    BY DEF Init, OrderInv, InOrder
  <1>2. IInv /\ OrderInv /\ [Next]_vars => OrderInv'
    BY OrderStep
  <1>3. IInv /\ OrderInv => NextAllowedExact
    BY AnswerIsExact DEF NextAllowedExact
  <1> QED
    BY <1>1, <1>2, <1>3, Invariance, PTL DEF Spec

-----------------------------------------------------------------------------
\* The writer never oversleeps.

\* The scan of schedule_write prunes, and changes no answer by it.
LEMMA ScanChangesNoAnswer ==
  ASSUME NEW lim \in Limiter, NEW queue, now \in Nat, NEW m \in Message
  PROVE  NextAllowed(PruneForScan(lim, queue), m.kind, m.channel, now) =
           NextAllowed(lim, m.kind, m.channel, now)
PROOF
  <1> DEFINE Same(l) == NextAllowed(l, m.kind, m.channel, now) =
                          NextAllowed(lim, m.kind, m.channel, now)
             joined == PruneBucket(lim, "join", now)
  <1>1. m.kind \in Kinds
    BY DEF Message
  <1>2. ASSUME NEW l \in Limiter, Same(l), NEW asked \in {"join", "chat"}
        PROVE  /\ PruneBucket(l, asked, now) \in Limiter
               /\ Same(PruneBucket(l, asked, now))
    <2>1. asked \in Kinds
      BY DEF Kinds
    <2>2. NextAllowed(PruneBucket(l, asked, now), m.kind, m.channel, now) =
            NextAllowed(l, m.kind, m.channel, now)
      BY <1>1, <1>2, NextAllowedPruned
    <2> QED
      BY <1>2, <2>1, <2>2, PruneBucketType, Zenon
  <1>3. Same(lim)
    OBVIOUS
  <1>4. PruneForScan(lim, queue) \in
          {lim, joined, PruneBucket(lim, "chat", now),
           PruneBucket(joined, "chat", now)}
    BY DEF PruneForScan
  <1>5. "join" \in {"join", "chat"} /\ "chat" \in {"join", "chat"}
    OBVIOUS
  <1> HIDE DEF Same
  <1>6. joined \in Limiter /\ Same(joined)
    BY <1>2, <1>3, <1>5, Zenon
  <1> HIDE DEF joined
  <1>7. /\ Same(PruneBucket(lim, "chat", now))
        /\ Same(PruneBucket(joined, "chat", now))
    BY <1>2, <1>3, <1>5, <1>6, Zenon
  <1>8. Same(PruneForScan(lim, queue))
    BY <1>3, <1>4, <1>6, <1>7, Zenon
  <1> QED
    BY <1>8 DEF Same

\* schedule_write leaves the session writing, or waiting for the earliest of
\* its messages, or without one.
LEMMA ScheduleWriteWakes ==
  ASSUME NEW queue \in SUBSET Message, NEW lim \in Limiter, now \in Nat,
         ScheduleWrite(queue, lim), now' = now, closed' = closed
  PROVE  Awake'
PROOF
  <1>1. CASE Rests(queue, lim)
    BY <1>1 DEF Rests, Awake
  <1>2. ASSUME NEW m \in queue, Waits(m, queue, lim)
        PROVE  Awake'
    <2>1. ASSUME NEW n \in queue
          PROVE  AllowedAt(n, limiter)' = AllowedAt(n, lim)
      <3>1. NextAllowed(limiter', n.kind, n.channel, now') =
              NextAllowed(lim, n.kind, n.channel, now)
        BY <1>2, ScanChangesNoAnswer DEF Waits
      <3> QED
        BY <3>1 DEF AllowedAt
    <2>2. write_timer' = AllowedAt(m, lim) /\ AllowedAt(m, lim) \in Nat
      BY <1>2, AllowedAtType DEF Waits
    <2>3. write_timer' # None
      BY <2>2, LimiterAssumption
    <2>4. \A n \in outbound' : write_timer' <= AllowedAt(n, limiter)'
      BY <1>2, <2>1, <2>2 DEF Waits
    <2> QED
      BY <2>3, <2>4, Zenon DEF Awake
  <1>3. ASSUME NEW m \in queue, StartsWriting(m, queue, lim)
        PROVE  Awake'
    <2>1. current_write' \in Write
      BY <1>3 DEF StartsWriting, Message, Write
    <2> QED
      BY <2>1, NoneAssumption DEF Awake
  <1> QED
    BY <1>1, <1>2, <1>3, ScheduleWriteCases

\* Every step leaves the session awake.
LEMMA AwakeStep ==
  ASSUME IInv, Awake, [Next]_vars
  PROVE  Awake'
PROOF
  <1>1. /\ limiter \in Limiter /\ now \in Nat
        /\ outbound \in SUBSET Message
        /\ write_op => current_write \in Write
        /\ write_timer \in Nat \cup {None}
    BY DEF IInv, TypeOK, PacingInv
  <1>2. ASSUME UNCHANGED <<now, limiter, closed, outbound, current_write,
                           write_timer, timer_fired>>
        PROVE  Awake'
    BY <1>2 DEF Awake, AllowedAt
  <1>3. ASSUME NEW r \in Requests, Enqueue(r[1], r[2], r[3])
        PROVE  Awake'
    <2> DEFINE m == [kind |-> r[1], channel |-> r[2], due |-> now + r[3],
                     sequence |-> next_sequence]
    <2>1. (outbound \cup {m}) \in SUBSET Message
      <3>1. m \in Message
        BY RequestsType DEF Message, IInv, TypeOK
      <3> QED
        BY <1>1, <3>1
    <2>2. now' = now /\ timer_fired' = timer_fired
      BY <1>3 DEF Enqueue
    <2>3. \/ UNCHANGED <<closed, outbound, current_write, write_timer, limiter>>
          \/ closed'
          \/ current_write # None /\ current_write' = current_write
          \/ ScheduleWrite(outbound \cup {m}, limiter) /\ closed' = closed
      BY <1>3, Zenon DEF Enqueue, Finish
    <2> HIDE DEF m
    <2>4. CASE ScheduleWrite(outbound \cup {m}, limiter) /\ closed' = closed
      BY <1>1, <2>1, <2>2, <2>4, ScheduleWriteWakes
    <2>5. CASE \/ closed'
               \/ current_write # None /\ current_write' = current_write
      BY <2>5 DEF Awake
    <2> QED
      BY <1>2, <2>2, <2>3, <2>4, <2>5
  <1>4. CASE TimerExpires
    BY <1>4 DEF TimerExpires, Awake
  <1>5. CASE TimerHandler
    <2>1. UNCHANGED <<now, closed>>
      BY <1>5 DEF TimerHandler
    <2>2. \/ current_write # None /\ current_write' = current_write
          \/ ScheduleWrite(outbound, limiter)
      BY <1>5 DEF TimerHandler
    <2>3. CASE ScheduleWrite(outbound, limiter)
      BY <1>1, <2>1, <2>3, ScheduleWriteWakes
    <2>4. CASE current_write # None /\ current_write' = current_write
      BY <2>4 DEF Awake
    <2> QED
      BY <2>2, <2>3, <2>4
  <1>6. CASE WriteDone
    <2>1. /\ write_op /\ UNCHANGED <<now, closed>>
          /\ ScheduleWrite(outbound, Record(limiter, current_write.kind,
                                            current_write.channel, now))
      BY <1>6 DEF WriteDone
    <2>2. Record(limiter, current_write.kind, current_write.channel, now)
            \in Limiter
      <3>1. /\ current_write.kind \in Kinds
            /\ current_write.channel \in Channels \cup {None}
            /\ current_write.kind = "chat" => current_write.channel \in Channels
        BY <1>1, <2>1 DEF Write
      <3> QED
        BY <1>1, <3>1, RecordType
    <2> QED
      BY <1>1, <2>1, <2>2, ScheduleWriteWakes
  <1>7. CASE WriteFailed
    BY <1>7 DEF WriteFailed, Awake
  <1>8. CASE SessionEnds
    BY <1>8 DEF SessionEnds, Finish, Awake
  <1>9. CASE NewSession
    BY <1>9 DEF NewSession, Awake
  <1>10. CASE Tick
    <2>1. /\ now' = now + 1
          /\ UNCHANGED <<limiter, closed, outbound, current_write,
                         write_timer, timer_fired>>
      BY <1>10 DEF Tick, sessionVars
    <2>2. ASSUME NEW m \in outbound
          PROVE  AllowedAt(m, limiter) <= AllowedAt(m, limiter)'
      <3>1. /\ m.kind \in Kinds /\ m.channel \in Channels \cup {None}
            /\ m.kind = "chat" => m.channel \in Channels
            /\ m.due \in Nat
        BY <1>1 DEF Message
      <3>2. now + 1 \in Nat /\ now <= now + 1
        BY <1>1
      <3>3. PICK x, y : /\ x = NextAllowed(limiter, m.kind, m.channel, now)
                        /\ y = NextAllowed(limiter, m.kind, m.channel, now + 1)
        OBVIOUS
      <3>4. x \in Nat /\ y \in Nat /\ x <= y
        BY <1>1, <3>1, <3>2, <3>3, NextAllowedType, NextAllowedLater, Zenon
      <3>5. /\ AllowedAt(m, limiter) = Later(m.due, x)
            /\ AllowedAt(m, limiter)' = Later(m.due, y)
        BY <2>1, <3>3 DEF AllowedAt
      <3> QED
        BY <3>1, <3>4, <3>5 DEF Later
    <2>3. ASSUME ~closed, current_write = None, ~timer_fired,
                 NEW m \in outbound
          PROVE  write_timer # None /\ write_timer <= AllowedAt(m, limiter)'
      <3>1. write_timer # None /\ write_timer <= AllowedAt(m, limiter)
        BY <2>3 DEF Awake
      <3>2. /\ AllowedAt(m, limiter) \in Nat
            /\ limiter' \in Limiter /\ now' \in Nat
        BY <1>1, <2>1, AllowedAtType
      <3>3. AllowedAt(m, limiter)' \in Nat
        <4>1. NextAllowed(limiter', m.kind, m.channel, now') \in Nat
              /\ m.due \in Nat
          BY <1>1, <3>2, NextAllowedType DEF Message
        <4> QED
          BY <4>1 DEF AllowedAt, Later
      <3> QED
        BY <1>1, <2>2, <3>1, <3>2, <3>3
    <2> QED
      BY <2>1, <2>3 DEF Awake
  <1>11. CASE UNCHANGED vars
    BY <1>2, <1>11 DEF vars, sessionVars
  <1> QED
    BY <1>3, <1>4, <1>5, <1>6, <1>7, <1>8, <1>9, <1>10, <1>11 DEF Next

\* The writer never sleeps on a message it could send: whatever is enqueued,
\* whenever writes end and however the handlers of the timer are delayed, a
\* session that writes nothing although a message may be written now has its
\* timer ended or ending (schedule_write and the handlers that call it).
THEOREM NeverOversleeps == Spec => []NoOversleep
PROOF
  <1>1. Init => Awake
    BY DEF Init, Awake
  <1>2. IInv /\ Awake /\ [Next]_vars => Awake'
    BY AwakeStep
  <1>3. ASSUME IInv, Awake
        PROVE  NoOversleep
    <2>1. now \in Nat /\ limiter \in Limiter /\ outbound \subseteq Message
          /\ write_timer \in Nat \cup {None}
          /\ timer_fired \in BOOLEAN
      BY <1>3 DEF IInv, TypeOK
    <2>2. ASSUME ~closed, current_write = None, NEW m \in outbound,
                 AllowedAt(m, limiter) <= now, ~timer_fired
          PROVE  write_timer # None /\ write_timer <= now
      <3>1. write_timer # None /\ write_timer <= AllowedAt(m, limiter)
        BY <1>3, <2>2 DEF Awake
      <3>2. AllowedAt(m, limiter) \in Nat
        BY <2>1, AllowedAtType
      <3> QED
        BY <2>1, <2>2, <3>1, <3>2
    <2> QED
      BY <2>2 DEF NoOversleep
  <1> QED
    BY <1>1, <1>2, <1>3, Invariance, PTL DEF Spec

-----------------------------------------------------------------------------
\* Who may overtake whom.

\* What the scan prefers to an older message is allowed strictly earlier.
LEMMA PreferredIsEarlier ==
  ASSUME NEW queue \in SUBSET Message, NEW lim \in Limiter, now \in Nat,
         NEW m \in queue, StartsWriting(m, queue, lim),
         NEW n \in queue, n.sequence < m.sequence
  PROVE  /\ AllowedAt(m, lim) < AllowedAt(n, lim)
         /\ now < AllowedAt(n, lim)
PROOF
  <1>1. /\ m.sequence \in Nat /\ n.sequence \in Nat
        /\ m.kind \in Kinds /\ m.channel \in Channels \cup {None}
        /\ m.kind = "chat" => m.channel \in Channels
    BY DEF Message
  <1>2. AllowedAt(m, lim) < AllowedAt(n, lim)
    BY <1>1 DEF StartsWriting, Precedes
  <1>3. NextAllowed(lim, m.kind, m.channel, now) >= now
    <2>1. now <= now
      OBVIOUS
    <2> QED
      BY <1>1, <2>1, NextAllowedLater, Zenon
  <1>4. /\ AllowedAt(m, lim) \in Nat /\ AllowedAt(n, lim) \in Nat
        /\ NextAllowed(lim, m.kind, m.channel, now) \in Nat
        /\ AllowedAt(m, lim) >= NextAllowed(lim, m.kind, m.channel, now)
    BY AllowedAtType
  <1> QED
    BY <1>2, <1>3, <1>4

\* The choice of schedule_write overtakes only where the limits ask for it.
LEMMA ChoiceOvertakesNothing ==
  ASSUME NEW queue \in SUBSET Message, NEW lim \in Limiter, now \in Nat,
         NEW m \in queue, StartsWriting(m, queue, lim),
         NEW n \in queue, n.sequence < m.sequence,
         n.kind # "chat" => n.due <= now
  PROVE  /\ n.kind # "system"
         /\ ~(n.kind = "join" /\ m.kind = "join")
         /\ ~(/\ n.kind = "chat" /\ m.kind = "chat"
              /\ n.channel = m.channel
              /\ n.due <= m.due)
PROOF
  <1> DEFINE x == NextAllowed(lim, m.kind, m.channel, now)
             y == NextAllowed(lim, n.kind, n.channel, now)
  <1>1. AllowedAt(m, lim) = Later(m.due, x) /\ AllowedAt(n, lim) = Later(n.due, y)
    BY DEF AllowedAt
  <1>2. /\ AllowedAt(m, lim) < AllowedAt(n, lim)
        /\ now < AllowedAt(n, lim)
        /\ AllowedAt(m, lim) <= now
    BY PreferredIsEarlier DEF StartsWriting
  <1>3. x \in Nat /\ y \in Nat /\ m.due \in Nat /\ n.due \in Nat
    BY AllowedAtType DEF Message
  <1>4. n.kind = "system" => y = now
    BY DEF NextAllowed
  <1>5. n.kind = "join" /\ m.kind = "join" => x = y
    BY DEF NextAllowed
  <1>6. n.kind = m.kind /\ n.channel = m.channel => x = y
    OBVIOUS
  <1> HIDE DEF x, y
  <1>7. n.kind # "system"
    BY <1>1, <1>2, <1>3, <1>4 DEF Later
  <1>8. ~(n.kind = "join" /\ m.kind = "join")
    BY <1>1, <1>2, <1>3, <1>5 DEF Later
  <1>9. ~(/\ n.kind = "chat" /\ m.kind = "chat" /\ n.channel = m.channel
          /\ n.due <= m.due)
    BY <1>1, <1>2, <1>3, <1>6 DEF Later
  <1> QED
    BY <1>7, <1>8, <1>9

\* schedule_write keeps both, whatever queue of numbered messages it scans.
LEMMA ScheduleWriteFair ==
  ASSUME NEW queue \in SUBSET Message, NEW lim \in Limiter, now \in Nat,
         ScheduleWrite(queue, lim), now' = now,
         \A m \in queue : /\ m.sequence < next_sequence'
                          /\ m.kind # "chat" => m.due <= now
  PROVE  NoOvertaking' /\ Numbered'
PROOF
  <1>1. ASSUME current_write' = None, outbound' = queue
        PROVE  NoOvertaking' /\ Numbered'
    BY <1>1 DEF NoOvertaking, Numbered
  <1>2. ASSUME NEW m \in queue, StartsWriting(m, queue, lim)
        PROVE  NoOvertaking' /\ Numbered'
    <2>1. /\ current_write'.sequence = m.sequence
          /\ current_write'.kind = m.kind
          /\ current_write'.channel = m.channel
          /\ current_write'.due = m.due
          /\ outbound' = queue \ {m}
      BY <1>2 DEF StartsWriting
    <2>2. Numbered'
      BY <2>1 DEF Numbered
    <2>3. ASSUME NEW n \in outbound', n.sequence < current_write'.sequence
          PROVE  /\ n.kind # "system"
                 /\ ~(n.kind = "join" /\ current_write'.kind = "join")
                 /\ ~(/\ n.kind = "chat" /\ current_write'.kind = "chat"
                      /\ n.channel = current_write'.channel
                      /\ n.due <= current_write'.due)
      <3>1. n \in queue /\ n.sequence < m.sequence
            /\ (n.kind # "chat" => n.due <= now)
        BY <2>1, <2>3
      <3>2. /\ n.kind # "system"
            /\ ~(n.kind = "join" /\ m.kind = "join")
            /\ ~(/\ n.kind = "chat" /\ m.kind = "chat"
                 /\ n.channel = m.channel
                 /\ n.due <= m.due)
        BY <1>2, <3>1, ChoiceOvertakesNothing
      <3> QED
        BY <2>1, <3>2
    <2>4. NoOvertaking'
      BY <2>3 DEF NoOvertaking
    <2> QED
      BY <2>2, <2>4
  <1> QED
    BY <1>1, <1>2, ScheduleWriteCases DEF Rests, Waits

\* Both are kept by every step.
LEMMA OvertakingStep ==
  ASSUME IInv, NoOvertaking, Numbered, [Next]_vars
  PROVE  NoOvertaking' /\ Numbered'
PROOF
  <1>1. /\ limiter \in Limiter /\ now \in Nat /\ next_sequence \in Nat
        /\ outbound \in SUBSET Message
        /\ \A m \in outbound : m.sequence < next_sequence
        /\ \A m \in outbound : m.kind # "chat" => m.due <= now
        /\ write_op => current_write \in Write
        /\ current_write \in Write \cup {None}
    BY DEF IInv, TypeOK, PacingInv, Numbered
  <1>2. ASSUME UNCHANGED <<now, outbound, current_write>>,
               next_sequence' \in {next_sequence, next_sequence + 1}
        PROVE  NoOvertaking' /\ Numbered'
    <2>1. NoOvertaking'
      BY <1>2 DEF NoOvertaking
    <2>2. current_write # None =>
            /\ current_write.sequence \in Nat
            /\ current_write.sequence < next_sequence
      BY <1>1 DEF Numbered, Write
    <2>3. Numbered'
      BY <1>1, <1>2, <2>2 DEF Numbered
    <2> QED
      BY <2>1, <2>3
  <1>3. ASSUME NEW r \in Requests, Enqueue(r[1], r[2], r[3])
        PROVE  NoOvertaking' /\ Numbered'
    <2> DEFINE m == [kind |-> r[1], channel |-> r[2], due |-> now + r[3],
                     sequence |-> next_sequence]
               queue == outbound \cup {m}
    <2>1. m \in Message /\ queue \in SUBSET Message
      <3>1. m \in Message
        BY RequestsType DEF Message, IInv, TypeOK
      <3> QED
        BY <1>1, <3>1
    <2>2. now' = now /\ next_sequence' = next_sequence + 1
      BY <1>3 DEF Enqueue
    <2>3. /\ m.sequence = next_sequence
          /\ m.kind # "chat" => m.due <= now
      <3>1. r[1] # "chat" => r[3] = 0
        BY DEF Requests
      <3> QED
        BY <1>1, <3>1
    <2>4. \A n \in queue : /\ n.sequence < next_sequence'
                           /\ n.kind # "chat" => n.due <= now
      <3>1. \A n \in outbound : n.sequence < next_sequence + 1
        BY <1>1 DEF Message
      <3>2. m.sequence < next_sequence + 1
        BY <1>1, <2>3
      <3> QED
        BY <1>1, <2>2, <2>3, <3>1, <3>2
    <2>5. \/ UNCHANGED <<outbound, current_write>>
          \/ /\ current_write # None
             /\ outbound' = queue /\ current_write' = current_write
          \/ ScheduleWrite(queue, limiter)
      BY <1>3, Zenon DEF Enqueue, Finish
    <2> HIDE DEF m
    <2>6. CASE UNCHANGED <<outbound, current_write>>
      BY <1>2, <2>2, <2>6
    <2>7. CASE /\ current_write # None
               /\ outbound' = queue /\ current_write' = current_write
      <3>1. /\ current_write.sequence \in Nat
            /\ current_write.sequence < next_sequence
        BY <1>1, <2>7 DEF Numbered, Write
      <3>2. ~(m.sequence < current_write.sequence)
        BY <1>1, <2>3, <3>1
      <3>3. NoOvertaking'
        BY <2>7, <3>2 DEF NoOvertaking
      <3>4. Numbered'
        BY <1>1, <2>2, <2>4, <2>7, <3>1 DEF Numbered
      <3> QED
        BY <3>3, <3>4
    <2>8. CASE ScheduleWrite(queue, limiter)
      <3> HIDE DEF queue
      <3> QED
        BY <1>1, <2>1, <2>2, <2>4, <2>8, ScheduleWriteFair
    <2> QED
      BY <2>5, <2>6, <2>7, <2>8
  <1>4. ASSUME NEW lim \in Limiter, ScheduleWrite(outbound, lim),
               UNCHANGED <<now, next_sequence>>
        PROVE  NoOvertaking' /\ Numbered'
    BY <1>1, <1>4, ScheduleWriteFair
  <1>5. CASE TimerExpires
    BY <1>2, <1>5 DEF TimerExpires
  <1>6. CASE TimerHandler
    <2>1. UNCHANGED <<now, next_sequence>>
      BY <1>6 DEF TimerHandler
    <2>2. \/ UNCHANGED <<outbound, current_write>>
          \/ ScheduleWrite(outbound, limiter)
      BY <1>6 DEF TimerHandler
    <2> QED
      BY <1>1, <1>2, <1>4, <2>1, <2>2
  <1>7. CASE WriteDone
    <2>1. /\ write_op /\ UNCHANGED <<now, next_sequence>>
          /\ ScheduleWrite(outbound, Record(limiter, current_write.kind,
                                            current_write.channel, now))
      BY <1>7 DEF WriteDone
    <2>2. Record(limiter, current_write.kind, current_write.channel, now)
            \in Limiter
      <3>1. /\ current_write.kind \in Kinds
            /\ current_write.channel \in Channels \cup {None}
            /\ current_write.kind = "chat" => current_write.channel \in Channels
        BY <1>1, <2>1 DEF Write
      <3> QED
        BY <1>1, <3>1, RecordType
    <2> QED
      BY <1>4, <2>1, <2>2
  <1>8. CASE WriteFailed
    BY <1>2, <1>8 DEF WriteFailed
  <1>9. CASE SessionEnds
    BY <1>2, <1>9 DEF SessionEnds, Finish
  <1>10. CASE NewSession
    BY <1>10 DEF NewSession, NoOvertaking, Numbered
  <1>11. CASE Tick
    <2>1. /\ now' = now + 1
          /\ UNCHANGED <<outbound, current_write, next_sequence>>
      BY <1>11 DEF Tick, sessionVars
    <2>2. \A m \in outbound : m.kind # "chat" => m.due <= now + 1
      BY <1>1 DEF Message
    <2> QED
      BY <2>1, <2>2 DEF NoOvertaking, Numbered
  <1>12. CASE UNCHANGED vars
    BY <1>2, <1>12 DEF vars, sessionVars
  <1> QED
    BY <1>3, <1>5, <1>6, <1>7, <1>8, <1>9, <1>10, <1>11, <1>12 DEF Next

\* A protocol line is overtaken by nothing, a JOIN by no JOIN, and a chat
\* message by no message to its channel that was due later or together,
\* whatever is enqueued meanwhile (the scan of schedule_write and its
\* tie-break by sequence number).
THEOREM OvertakesOnlyByLimit == Spec => []NoOvertaking
PROOF
  <1>1. Init => NoOvertaking /\ Numbered
    BY DEF Init, NoOvertaking, Numbered
  <1>2. IInv /\ NoOvertaking /\ Numbered /\ [Next]_vars =>
          NoOvertaking' /\ Numbered'
    BY OvertakingStep
  <1> QED
    BY <1>1, <1>2, Invariance, PTL DEF Spec

-----------------------------------------------------------------------------
\* JOINs begun and JOINs completed.

\* Whether the JOIN begun last is still without its completion; after a
\* failed write it stays so for the rest of the session.
Pending == IF current_write # None /\ current_write.kind = "join"
           THEN 1 ELSE 0

\* Since each attempt as many JOINs have completed as were begun from it on,
\* but for one in each session that has ended and the pending one.
Accounted(atts, joins, sess, pending, t) ==
  \A i \in DOMAIN atts :
    /\ atts[i].start <= t
    /\ \E c \in 0..Len(joins) :
         /\ \A k \in DOMAIN joins : k > c => joins[k].done >= atts[i].start
         /\ Len(joins) - c >=
              (Len(atts) - i + 1) - (sess - atts[i].session) - pending

\* AttemptsBounded, of any attempts.
Bounded(atts) ==
  \A i, j \in DOMAIN atts :
    i < j /\ j >= i + JoinLimit + (atts[j].session - atts[i].session) =>
      atts[j].start >= atts[i].start + JoinWindow

Attempt == [start : Nat, session : Nat]

\* The inductive invariant: the account is kept, and what it implies.
AttemptInv ==
  /\ attempts \in Seq(Attempt)
  /\ Accounted(attempts, joins_sent, session, Pending, now)
  /\ AttemptsBounded

\* An attempt carries a time and a session.
LEMMA AttemptType ==
  ASSUME NEW atts \in Seq(Attempt)
  PROVE  /\ Len(atts) \in Nat /\ DOMAIN atts = 1..Len(atts)
         /\ \A i \in DOMAIN atts : /\ atts[i].start \in Nat
                                   /\ atts[i].session \in Nat
PROOF
  <1>1. \A i \in DOMAIN atts : atts[i] \in Attempt
    OBVIOUS
  <1>2. \A x \in Attempt : x.start \in Nat /\ x.session \in Nat
    BY DEF Attempt
  <1> QED
    BY <1>1, <1>2

\* Two balances, of attempts (d), sessions (s) and completions (b).
LEMMA BalanceKept ==
  ASSUME NEW a \in Int, NEW b \in Int, NEW d \in Int, NEW e \in Int,
         NEW i \in Int, NEW f \in Int, NEW s \in Int, NEW s2 \in Int,
         NEW p \in Int, NEW p2 \in Int,
         b - f >= (d - i + 1) - (s - e) - p,
         a - b + (s2 - s) + (p2 - p) >= 0
  PROVE  a - f >= (d - i + 1) - (s2 - e) - p2
PROOF
  OBVIOUS

\* The account of an attempt when one more is pending.
LEMMA BalanceBegun ==
  ASSUME NEW a \in Int, NEW b \in Int, NEW e \in Int, NEW i \in Int,
         a >= (b - i + 1) - e
  PROVE  a >= (b + 1 - i + 1) - e - 1
PROOF
  OBVIOUS

\* If the next attempt is a limit or more after attempt i, then completion
\* c + 1 is a limit or more before the next completion.
LEMMA BalanceReached ==
  ASSUME NEW a \in Int, NEW b \in Int, NEW c \in Int, NEW e \in Int,
         NEW i \in Int, NEW limit \in Int,
         a - c >= (b - i + 1) - e,
         b + 1 >= i + limit + e
  PROVE  c + 1 + limit <= a + 1
PROOF
  OBVIOUS

\* JOINs that complete, sessions that end and time that passes leave the
\* account in balance as long as they make up for the attempt no longer
\* pending.
LEMMA AccountKept ==
  ASSUME NEW atts \in Seq(Attempt), NEW joins \in Seq(Sent),
         NEW more \in Seq(Sent), NEW sess \in Nat, NEW sess2 \in Nat,
         NEW p \in Int, NEW p2 \in Int, NEW t \in Nat, NEW t2 \in Nat,
         t <= t2,
         Len(more) >= Len(joins),
         \A k \in 1..Len(joins) : more[k] = joins[k],
         \A k \in 1..Len(more) : k > Len(joins) => more[k].done >= t,
         Len(more) - Len(joins) + (sess2 - sess) + (p2 - p) >= 0,
         Accounted(atts, joins, sess, p, t)
  PROVE  Accounted(atts, more, sess2, p2, t2)
PROOF
  <1> SUFFICES ASSUME NEW i \in DOMAIN atts
               PROVE  /\ atts[i].start <= t2
                      /\ \E c \in 0..Len(more) :
                           /\ \A k \in DOMAIN more :
                                k > c => more[k].done >= atts[i].start
                           /\ Len(more) - c >=
                                (Len(atts) - i + 1)
                                  - (sess2 - atts[i].session) - p2
    BY DEF Accounted
  <1>1. PICK c \in 0..Len(joins) :
          /\ \A k \in DOMAIN joins : k > c => joins[k].done >= atts[i].start
          /\ Len(joins) - c >=
               (Len(atts) - i + 1) - (sess - atts[i].session) - p
    BY DEF Accounted
  <1>2. atts[i].start <= t
    BY DEF Accounted
  <1>3. /\ Len(atts) \in Nat /\ i \in Nat
        /\ atts[i].start \in Nat /\ atts[i].session \in Nat
        /\ Len(joins) \in Nat /\ DOMAIN joins = 1..Len(joins)
        /\ Len(more) \in Nat /\ DOMAIN more = 1..Len(more)
        /\ \A k \in DOMAIN more : more[k].done \in Nat
    BY AttemptType, HistoryType
  <1>4. atts[i].start <= t2
    BY <1>2, <1>3
  <1>5. ASSUME NEW k \in DOMAIN more, k > c
        PROVE  more[k].done >= atts[i].start
    <2>1. CASE k <= Len(joins)
      <3>1. k \in DOMAIN joins /\ more[k] = joins[k]
        BY <1>3, <2>1
      <3> QED
        BY <1>1, <1>5, <3>1
    <2>2. CASE k > Len(joins)
      <3>1. more[k].done >= t
        BY <1>3, <2>2
      <3>2. PICK a, b : a = more[k].done /\ b = atts[i].start
        OBVIOUS
      <3>3. a \in Nat /\ b \in Nat
        BY <1>3, <3>2, Zenon
      <3>4. a >= t /\ b <= t
        BY <1>2, <3>1, <3>2, Zenon
      <3>5. a >= b
        BY <3>3, <3>4
      <3> QED
        BY <3>2, <3>5, Zenon
    <2> QED
      BY <1>3, <2>1, <2>2
  <1>6. c \in 0..Len(more)
    BY <1>3
  <1>7. Len(more) - c >=
          (Len(atts) - i + 1) - (sess2 - atts[i].session) - p2
    <2>1. PICK a, b, d, e, f : /\ a = Len(more) /\ b = Len(joins)
                               /\ d = Len(atts) /\ e = atts[i].session
                               /\ f = c
      OBVIOUS
    <2>2. /\ a \in Int /\ b \in Int /\ d \in Int /\ e \in Int /\ f \in Int
          /\ b - f >= (d - i + 1) - (sess - e) - p
          /\ a - b + (sess2 - sess) + (p2 - p) >= 0
          /\ p \in Int /\ p2 \in Int /\ sess \in Int /\ sess2 \in Int
          /\ i \in Int
      <3>1. a \in Int /\ b \in Int /\ d \in Int /\ e \in Int /\ i \in Int
        BY <1>3, <2>1
      <3>2. f \in Int
        BY <1>3, <2>1
      <3>3. b - f >= (d - i + 1) - (sess - e) - p
        BY <1>1, <2>1, Zenon
      <3>4. a - b + (sess2 - sess) + (p2 - p) >= 0
        BY <2>1, Zenon
      <3>5. p \in Int /\ p2 \in Int /\ sess \in Int /\ sess2 \in Int
        OBVIOUS
      <3> QED
        BY <3>1, <3>2, <3>3, <3>4, <3>5, Zenon
    <2>3. a - f >= (d - i + 1) - (sess2 - e) - p2
      BY <2>2, BalanceKept, Zenon
    <2> QED
      BY <2>1, <2>3
  <1> QED
    BY <1>4, <1>5, <1>6, <1>7

\* A JOIN begun when the limit is clear, none pending: it enters the account,
\* and keeps its distance from every attempt a limit ago.
LEMMA AttemptBegun ==
  ASSUME NEW atts \in Seq(Attempt), NEW joins \in Seq(Sent),
         NEW sess \in Nat, NEW t \in Nat,
         Accounted(atts, joins, sess, 0, t), Bounded(atts),
         Clear(joins, JoinLimit, JoinWindow, t)
  PROVE  LET more == Append(atts, [start |-> t, session |-> sess]) IN
         /\ more \in Seq(Attempt)
         /\ Accounted(more, joins, sess, 1, t)
         /\ Bounded(more)
PROOF
  <1> DEFINE new == [start |-> t, session |-> sess]
             more == Append(atts, new)
  <1>1. new \in Attempt /\ new.start = t /\ new.session = sess
    BY DEF Attempt
  <1> HIDE DEF new
  <1>2. /\ more \in Seq(Attempt)
        /\ Len(more) = Len(atts) + 1 /\ DOMAIN more = 1..(Len(atts) + 1)
        /\ \A i \in 1..Len(atts) : more[i] = atts[i]
        /\ more[Len(atts) + 1] = new
        /\ Len(atts) \in Nat /\ DOMAIN atts = 1..Len(atts)
    <2>1. PICK x \in Attempt : x = new
      BY <1>1, Zenon
    <2>2. /\ Append(atts, x) \in Seq(Attempt)
          /\ Len(atts) \in Nat /\ DOMAIN atts = 1..Len(atts)
      OBVIOUS
    <2>3. /\ Len(Append(atts, x)) = Len(atts) + 1
          /\ Append(atts, x)[Len(atts) + 1] = x
      OBVIOUS
    <2>4. DOMAIN Append(atts, x) = 1..(Len(atts) + 1)
      BY <2>2, <2>3
    <2>5. \A i \in 1..Len(atts) : Append(atts, x)[i] = atts[i]
      OBVIOUS
    <2> QED
      BY <2>1, <2>2, <2>3, <2>4, <2>5, Zenon
  <1> HIDE DEF more
  <1>3. /\ Len(joins) \in Nat /\ DOMAIN joins = 1..Len(joins)
        /\ \A k \in DOMAIN joins : joins[k].done \in Nat
        /\ \A i \in DOMAIN atts : /\ atts[i].start \in Nat
                                  /\ atts[i].session \in Nat
        /\ JoinLimit \in Nat \ {0} /\ JoinWindow \in Nat
    BY AttemptType, HistoryType, LimiterAssumption
  <1>4. ASSUME NEW i \in DOMAIN atts
        PROVE  /\ atts[i].start <= t
               /\ \E c \in 0..Len(joins) :
                    /\ \A k \in DOMAIN joins :
                         k > c => joins[k].done >= atts[i].start
                    /\ Len(joins) - c >=
                         (Len(atts) - i + 1) - (sess - atts[i].session)
    <2>1. PICK c \in 0..Len(joins) :
            /\ \A k \in DOMAIN joins : k > c => joins[k].done >= atts[i].start
            /\ Len(joins) - c >=
                 (Len(atts) - i + 1) - (sess - atts[i].session) - 0
      BY DEF Accounted
    <2>2. atts[i].start <= t
      BY DEF Accounted
    <2>3. Len(joins) - c >= (Len(atts) - i + 1) - (sess - atts[i].session)
      <3>1. PICK b : b = (Len(atts) - i + 1) - (sess - atts[i].session)
        OBVIOUS
      <3>2. b \in Int
        BY <1>2, <1>3, <3>1
      <3>3. b - 0 = b
        BY <3>2
      <3> QED
        BY <2>1, <3>1, <3>3, Zenon
    <2> QED
      BY <2>1, <2>2, <2>3
  <1>5. ASSUME NEW i \in DOMAIN more
        PROVE  /\ more[i].start <= t
               /\ \E c \in 0..Len(joins) :
                    /\ \A k \in DOMAIN joins :
                         k > c => joins[k].done >= more[i].start
                    /\ Len(joins) - c >=
                         (Len(more) - i + 1) - (sess - more[i].session) - 1
    <2>1. CASE i \in DOMAIN atts
      <3>1. PICK c \in 0..Len(joins) :
              /\ \A k \in DOMAIN joins : k > c => joins[k].done >= atts[i].start
              /\ Len(joins) - c >=
                   (Len(atts) - i + 1) - (sess - atts[i].session)
        BY <1>4, <2>1
      <3>2. Len(joins) - c >=
              (Len(more) - i + 1) - (sess - atts[i].session) - 1
        <4>1. PICK a, b, e : /\ a = Len(joins) - c /\ b = Len(atts)
                             /\ e = sess - atts[i].session
          OBVIOUS
        <4>2. /\ a \in Int /\ b \in Int /\ e \in Int /\ i \in Int
              /\ a >= (b - i + 1) - e
              /\ Len(more) = b + 1
          <5>1. a \in Int
            BY <1>3, <4>1
          <5>2. b \in Int /\ i \in Int
            BY <1>2, <2>1, <4>1
          <5>3. e \in Int
            BY <1>3, <2>1, <4>1
          <5>4. a >= (b - i + 1) - e
            BY <3>1, <4>1, Zenon
          <5>5. Len(more) = b + 1
            BY <1>2, <4>1, Zenon
          <5> QED
            BY <5>1, <5>2, <5>3, <5>4, <5>5, Zenon
        <4>3. a >= (b + 1 - i + 1) - e - 1
          BY <4>2, BalanceBegun, Zenon
        <4> QED
          BY <4>1, <4>2, <4>3
      <3>3. more[i] = atts[i] /\ atts[i].start <= t
        BY <1>2, <1>4, <2>1
      <3> QED
        BY <3>1, <3>2, <3>3
    <2>2. CASE i = Len(atts) + 1
      <3>1. more[i] = new
        BY <1>2, <2>2
      <3>2. Len(joins) - Len(joins) >= (Len(more) - i + 1) - (sess - sess) - 1
        BY <1>2, <1>3, <2>2
      <3>3. \A k \in DOMAIN joins : ~(k > Len(joins))
        BY <1>3
      <3>4. Len(joins) \in 0..Len(joins) /\ t <= t
        BY <1>3
      <3> QED
        BY <1>1, <3>1, <3>2, <3>3, <3>4
    <2> QED
      BY <1>2, <2>1, <2>2
  <1>6. Accounted(more, joins, sess, 1, t)
    BY <1>5 DEF Accounted
  <1>7. ASSUME NEW i \in DOMAIN atts,
               Len(atts) + 1 >= i + JoinLimit + (sess - atts[i].session)
        PROVE  t >= atts[i].start + JoinWindow
    <2>1. PICK c \in 0..Len(joins) :
            /\ \A k \in DOMAIN joins : k > c => joins[k].done >= atts[i].start
            /\ Len(joins) - c >= (Len(atts) - i + 1) - (sess - atts[i].session)
      BY <1>4
    <2>2. c + 1 + JoinLimit <= Len(joins) + 1
      <3>1. PICK a, b, e : /\ a = Len(joins) /\ b = Len(atts)
                           /\ e = sess - atts[i].session
        OBVIOUS
      <3>2. /\ a \in Int /\ b \in Int /\ e \in Int /\ i \in Int /\ c \in Int
            /\ JoinLimit \in Int
        BY <1>2, <1>3, <3>1
      <3>3. /\ a - c >= (b - i + 1) - e
            /\ b + 1 >= i + JoinLimit + e
        BY <1>7, <2>1, <3>1, Zenon
      <3>4. c + 1 + JoinLimit <= a + 1
        BY <3>2, <3>3, BalanceReached, Zenon
      <3> QED
        BY <3>1, <3>4
    <2>3. c + 1 \in DOMAIN joins /\ c + 1 > c
      BY <1>3, <2>2
    <2>4. /\ joins[c + 1].done >= atts[i].start
          /\ joins[c + 1].done + JoinWindow <= t
      BY <2>1, <2>2, <2>3 DEF Clear
    <2> QED
      BY <1>3, <2>3, <2>4
  <1>8. ASSUME NEW i \in DOMAIN more, NEW j \in DOMAIN more, i < j,
               j >= i + JoinLimit + (more[j].session - more[i].session)
        PROVE  more[j].start >= more[i].start + JoinWindow
    <2>1. CASE i \in DOMAIN atts /\ j \in DOMAIN atts
      BY <1>2, <1>8, <2>1 DEF Bounded
    <2>2. CASE i \in DOMAIN atts /\ j = Len(atts) + 1
      BY <1>1, <1>2, <1>7, <1>8, <2>2
    <2> QED
      BY <1>2, <1>8, <2>1, <2>2
  <1>9. Bounded(more)
    BY <1>8 DEF Bounded
  <1> QED
    BY <1>2, <1>6, <1>9 DEF more, new

\* A JOIN that schedule_write begins, it begins when the limit is clear.
LEMMA ScheduleWriteClear ==
  ASSUME NEW queue \in SUBSET Message, NEW lim \in Limiter, now \in Nat,
         NEW chats \in Seq(Sent), NEW joins \in Seq(Sent),
         LimiterTracks(lim, chats, joins, now),
         ScheduleWrite(queue, lim), write_op'
  PROVE  /\ current_write' # None
         /\ current_write'.kind = "join" =>
              Clear(joins, JoinLimit, JoinWindow, now)
PROOF
  <1>1. /\ current_write' # None
        /\ MayStart(current_write'.kind, current_write'.channel, chats, joins,
                    current_write'.start)
    BY ScheduleWriteStarts
  <1>2. current_write'.start = now
    BY ScheduleWriteCases DEF Rests, Waits, StartsWriting
  <1> QED
    BY <1>1, <1>2 DEF MayStart

\* The account after schedule_write, when no JOIN was pending before it.
LEMMA ScheduleWriteAccounts ==
  ASSUME attempts \in Seq(Attempt), AttemptsBounded,
         session \in Nat, session' = session, now \in Nat, now' = now,
         NEW joins \in Seq(Sent), joins_sent' = joins,
         Accounted(attempts, joins, session, 0, now),
         write_op' =>
           /\ current_write' # None
           /\ current_write'.kind = "join" =>
                Clear(joins, JoinLimit, JoinWindow, now),
         attempts' = IF Begins /\ current_write'.kind = "join"
                     THEN Append(attempts, [start |-> now, session |-> session])
                     ELSE attempts
  PROVE  AttemptInv'
PROOF
  <1>1. Bounded(attempts)
    BY DEF AttemptsBounded, Apart, Bounded
  <1>2. Pending' \in {0, 1}
    BY DEF Pending
  <1>3. CASE Begins /\ current_write'.kind = "join"
    <2> DEFINE more == Append(attempts, [start |-> now, session |-> session])
    <2>1. /\ Clear(joins, JoinLimit, JoinWindow, now)
          /\ current_write' # None
      BY <1>3 DEF Begins
    <2>2. /\ more \in Seq(Attempt)
          /\ Accounted(more, joins, session, 1, now)
          /\ Bounded(more)
      BY <1>1, <2>1, AttemptBegun
    <2>3. attempts' = more
      BY <1>3
    <2> HIDE DEF more
    <2>4. Pending' = 1
      BY <1>3, <2>1 DEF Pending
    <2>5. AttemptsBounded'
      BY <2>2, <2>3 DEF AttemptsBounded, Apart, Bounded
    <2> QED
      BY <2>2, <2>3, <2>4, <2>5 DEF AttemptInv
  <1>4. CASE ~(Begins /\ current_write'.kind = "join")
    <2>1. attempts' = attempts
      BY <1>4
    <2>2. Accounted(attempts, joins, session, Pending', now)
      <3>1. PICK p \in Int, p2 \in Int : p = 0 /\ p2 = Pending' /\ p2 >= 0
        BY <1>2
      <3>2. /\ now <= now /\ Len(joins) \in Nat
            /\ Len(joins) >= Len(joins)
            /\ \A k \in 1..Len(joins) : ~(k > Len(joins))
            /\ Len(joins) - Len(joins) + (session - session) + (p2 - p) >= 0
        <4>1. Len(joins) \in Int /\ Len(joins) \in Nat
          BY HistoryType
        <4>2. p2 - p >= 0 /\ p2 - p \in Int
          <5>1. p = 0 /\ p2 >= 0
            BY <3>1, Zenon
          <5> QED
            BY <5>1
        <4>3. Len(joins) - Len(joins) + (session - session) = 0
          BY <4>1
        <4> QED
          BY <4>1, <4>2, <4>3
      <3>3. Accounted(attempts, joins, session, p, now)
        BY <3>1
      <3>4. Accounted(attempts, joins, session, p2, now)
        BY <3>2, <3>3, AccountKept
      <3> QED
        BY <3>1, <3>4
    <2>3. AttemptsBounded'
      BY <2>1 DEF AttemptsBounded, Apart
    <2> QED
      BY <2>1, <2>2, <2>3 DEF AttemptInv
  <1> QED
    BY <1>3, <1>4

\* The account of JOINs is kept by every step.
LEMMA AttemptStep ==
  ASSUME IInv, AttemptInv, [AttemptNext]_<<vars, attempts>>
  PROVE  AttemptInv'
PROOF
  <1>1. /\ limiter \in Limiter /\ now \in Nat /\ session \in Nat
        /\ chats_sent \in Seq(Sent) /\ joins_sent \in Seq(Sent)
        /\ outbound \in SUBSET Message
        /\ write_op => current_write \in Write
        /\ LimiterTracks(limiter, chats_sent, joins_sent, now)
        /\ write_op \in BOOLEAN
    BY DEF IInv, TypeOK, PacingInv
  <1>2. /\ attempts \in Seq(Attempt) /\ AttemptsBounded
        /\ Accounted(attempts, joins_sent, session, Pending, now)
        /\ Pending \in {0, 1} /\ Pending' \in {0, 1}
    BY DEF AttemptInv, Pending
  <1>3. ASSUME NEW u \in Nat, now' = u, now <= u,
               joins_sent' = joins_sent, attempts' = attempts,
               \/ /\ session' = session /\ Pending' = Pending
               \/ session' = session + 1
        PROVE  AttemptInv'
    <2>1. PICK s2 \in Nat, p \in Int, p2 \in Int :
            /\ s2 = session' /\ p = Pending /\ p2 = Pending'
            /\ (s2 - session) + (p2 - p) >= 0
      <3>1. session' \in Nat /\ (session' - session) + (Pending' - Pending) >= 0
        BY <1>1, <1>2, <1>3
      <3> QED
        BY <1>2, <3>1
    <2>2. /\ Len(joins_sent) \in Nat /\ Len(joins_sent) >= Len(joins_sent)
          /\ \A k \in 1..Len(joins_sent) : ~(k > Len(joins_sent))
          /\ Len(joins_sent) - Len(joins_sent) + (s2 - session) + (p2 - p) >= 0
      <3>1. Len(joins_sent) \in Nat
        BY <1>1, HistoryType
      <3>2. \A n \in Nat : /\ n >= n /\ n - n = 0
                           /\ \A k \in 1..n : ~(k > n)
        OBVIOUS
      <3>3. 0 + (s2 - session) + (p2 - p) >= 0
        <4>1. PICK e \in Nat : e = session
          BY <1>1
        <4>2. (s2 - e) + (p2 - p) >= 0
          BY <2>1, <4>1, Zenon
        <4>3. 0 + (s2 - e) + (p2 - p) >= 0
          BY <4>2
        <4> QED
          BY <4>1, <4>3, Zenon
      <3> QED
        BY <3>1, <3>2, <3>3, Zenon
    <2>3. Accounted(attempts, joins_sent, session, p, now)
      BY <1>2, <2>1
    <2>4. Accounted(attempts, joins_sent, s2, p2, u)
      <3>1. /\ attempts \in Seq(Attempt) /\ joins_sent \in Seq(Sent)
            /\ session \in Nat /\ now \in Nat /\ now <= u
        BY <1>1, <1>2, <1>3
      <3>2. \A k \in 1..Len(joins_sent) :
              k > Len(joins_sent) => joins_sent[k].done >= now
        BY <2>2, Zenon
      <3> QED
        BY <2>2, <2>3, <3>1, <3>2, AccountKept
    <2>5. AttemptsBounded'
      BY <1>2, <1>3 DEF AttemptsBounded, Apart
    <2> QED
      BY <1>2, <1>3, <2>1, <2>4, <2>5 DEF AttemptInv
  <1>4. CASE UNCHANGED <<vars, attempts>>
    <2>1. /\ UNCHANGED <<now, joins_sent, session, current_write>>
          /\ attempts' = attempts
      BY <1>4 DEF vars, sessionVars, history
    <2>2. Pending' = Pending /\ now <= now
      BY <1>1, <2>1 DEF Pending
    <2> QED
      BY <1>1, <1>3, <2>1, <2>2
  <1>5. ASSUME AttemptNext PROVE AttemptInv'
    <2> DEFINE Noted == IF Begins /\ current_write'.kind = "join"
                        THEN Append(attempts,
                                    [start |-> now, session |-> session])
                        ELSE attempts
    <2>1. Next /\ attempts' = Noted
      BY <1>5 DEF AttemptNext
    <2> HIDE DEF Noted
    <2>2. ASSUME \/ write_op' = FALSE
                 \/ write_op' = write_op /\ current_write' = current_write
          PROVE  attempts' = attempts
      BY <1>1, <2>1, <2>2 DEF Noted, Begins
    <2>3. ASSUME NEW u \in Nat, now' = u, now <= u,
                 UNCHANGED <<joins_sent, session, current_write>>,
                 write_op' = FALSE \/ write_op' = write_op
          PROVE  AttemptInv'
      <3>1. Pending' = Pending
        BY <2>3 DEF Pending
      <3>2. attempts' = attempts
        BY <2>2, <2>3
      <3> QED
        BY <1>3, <2>3, <3>1, <3>2
    <2>4. ASSUME NEW queue \in SUBSET Message, ScheduleWrite(queue, limiter),
                 current_write = None,
                 UNCHANGED <<now, session, chats_sent, joins_sent>>
          PROVE  AttemptInv'
      <3>1. Pending = 0
        BY <2>4 DEF Pending
      <3>2. Accounted(attempts, joins_sent, session, 0, now)
        BY <1>2, <3>1
      <3>3. write_op' =>
              /\ current_write' # None
              /\ current_write'.kind = "join" =>
                   Clear(joins_sent, JoinLimit, JoinWindow, now)
        BY <1>1, <2>4, ScheduleWriteClear
      <3> QED
        BY <1>1, <1>2, <2>1, <2>4, <3>2, <3>3, ScheduleWriteAccounts DEF Noted
    <2>5. ASSUME NEW r \in Requests, Enqueue(r[1], r[2], r[3])
          PROVE  AttemptInv'
      <3> DEFINE m == [kind |-> r[1], channel |-> r[2], due |-> now + r[3],
                       sequence |-> next_sequence]
      <3>1. (outbound \cup {m}) \in SUBSET Message
        <4>1. m \in Message
          BY RequestsType DEF Message, IInv, TypeOK
        <4> QED
          BY <1>1, <4>1
      <3>2. UNCHANGED <<now, session, chats_sent, joins_sent>> /\ now <= now
        BY <1>1, <2>5 DEF Enqueue, history
      <3>3. \/ UNCHANGED <<current_write, write_op>>
            \/ current_write = None /\ ScheduleWrite(outbound \cup {m}, limiter)
        BY <2>5, Zenon DEF Enqueue, Finish
      <3> HIDE DEF m
      <3> QED
        BY <1>1, <2>3, <2>4, <3>1, <3>2, <3>3
    <2>6. CASE TimerExpires
      <3>1. /\ UNCHANGED <<now, session, joins_sent, current_write, write_op>>
            /\ now <= now
        BY <1>1, <2>6 DEF TimerExpires, history
      <3> QED
        BY <1>1, <2>3, <3>1
    <2>7. CASE TimerHandler
      <3>1. UNCHANGED <<now, session, chats_sent, joins_sent>> /\ now <= now
        BY <1>1, <2>7 DEF TimerHandler, history
      <3>2. \/ UNCHANGED <<current_write, write_op>>
            \/ current_write = None /\ ScheduleWrite(outbound, limiter)
        BY <2>7 DEF TimerHandler
      <3> QED
        BY <1>1, <2>3, <2>4, <3>1, <3>2
    <2>8. CASE WriteDone
      <3> DEFINE sent == [channel |-> current_write.channel,
                          start |-> current_write.start, done |-> now]
                 lim == Record(limiter, current_write.kind,
                               current_write.channel, now)
      <3>1. /\ write_op /\ Remember /\ now' = now /\ session' = session
            /\ ScheduleWrite(outbound, lim)
        BY <2>8 DEF WriteDone
      <3>2. /\ current_write \in Write /\ current_write # None
            /\ sent \in Sent /\ sent.done = now
        BY <1>1, <3>1, NoneAssumption DEF Write, Sent
      <3>3. lim \in Limiter
        <4>1. /\ current_write.kind \in Kinds
              /\ current_write.channel \in Channels \cup {None}
              /\ current_write.kind = "chat" =>
                   current_write.channel \in Channels
          BY <3>2 DEF Write
        <4> QED
          BY <1>1, <4>1, RecordType
      <3>4. LimiterTracks(lim, chats_sent', joins_sent', now)
        BY <1>1, <3>1, <3>2, RecordTracks DEF IInv
      <3>5. PICK chats \in Seq(Sent), joins \in Seq(Sent) :
              chats = chats_sent' /\ joins = joins_sent'
        BY <3>1, <3>2, RememberType DEF IInv
      <3>6. /\ Pending = 1 => joins = Append(joins_sent, sent)
            /\ Pending = 0 => joins = joins_sent
        BY <3>1, <3>2, <3>5 DEF Remember, Pending
      <3> HIDE DEF lim, sent
      <3>7. write_op' =>
              /\ current_write' # None
              /\ current_write'.kind = "join" =>
                   Clear(joins, JoinLimit, JoinWindow, now)
        BY <1>1, <3>1, <3>3, <3>4, <3>5, ScheduleWriteClear
      <3>8. Accounted(attempts, joins, session, 0, now)
        <4>1. CASE Pending = 0
          BY <1>2, <3>6, <4>1
        <4>2. CASE Pending = 1
          <5>1. joins = Append(joins_sent, sent)
            BY <3>6, <4>2
          <5>2. /\ Len(joins_sent) \in Nat /\ Len(joins) = Len(joins_sent) + 1
                /\ \A k \in 1..Len(joins_sent) : joins[k] = joins_sent[k]
                /\ joins[Len(joins_sent) + 1] = sent
            BY <1>1, <3>2, <5>1
          <5>3. /\ Len(joins) >= Len(joins_sent) /\ now <= now
                /\ \A k \in 1..Len(joins) :
                     k > Len(joins_sent) => joins[k].done >= now
            BY <1>1, <3>2, <5>2
          <5>4. PICK p \in Int, p2 \in Int : p = 1 /\ p2 = 0
            OBVIOUS
          <5>5. /\ Accounted(attempts, joins_sent, session, p, now)
                /\ Len(joins) - Len(joins_sent) + (session - session)
                     + (p2 - p) >= 0
            BY <1>1, <1>2, <4>2, <5>2, <5>4
          <5>6. Accounted(attempts, joins, session, p2, now)
            BY <1>1, <1>2, <5>2, <5>3, <5>5, AccountKept
          <5> QED
            BY <5>4, <5>6
        <4> QED
          BY <1>2, <4>1, <4>2
      <3> QED
        BY <1>1, <1>2, <2>1, <3>1, <3>5, <3>7, <3>8, ScheduleWriteAccounts
           DEF Noted
    <2>9. CASE WriteFailed
      <3>1. /\ UNCHANGED <<now, session, joins_sent, current_write>>
            /\ write_op' = FALSE /\ now <= now
        BY <1>1, <2>9 DEF WriteFailed, history
      <3> QED
        BY <1>1, <2>3, <3>1
    <2>10. CASE SessionEnds
      <3>1. /\ UNCHANGED <<now, session, joins_sent, current_write, write_op>>
            /\ now <= now
        BY <1>1, <2>10 DEF SessionEnds, Finish, history
      <3> QED
        BY <1>1, <2>3, <3>1
    <2>11. CASE NewSession
      <3>1. /\ UNCHANGED <<now, joins_sent>> /\ session' = session + 1
            /\ ~write_op /\ write_op' = write_op
        BY <2>11, Zenon DEF NewSession, history
      <3>3. write_op' = FALSE /\ now <= now
        BY <1>1, <3>1
      <3>2. attempts' = attempts
        BY <2>2, <3>3
      <3> QED
        BY <1>1, <1>3, <3>1, <3>2, <3>3
    <2>12. CASE Tick
      <3>1. /\ UNCHANGED <<session, joins_sent, current_write, write_op>>
            /\ now' = now + 1 /\ now + 1 \in Nat /\ now <= now + 1
        BY <1>1, <2>12 DEF Tick, sessionVars, history
      <3> QED
        BY <2>3, <3>1
    <2> QED
      BY <2>1, <2>5, <2>6, <2>7, <2>8, <2>9, <2>10, <2>11, <2>12 DEF Next
  <1> QED
    BY <1>4, <1>5

\* Failed writes cost at most one JOIN on top of the limit for every session
\* that ended in between, for every limit, window and number of sessions
\* (record runs only when async_write has completed, and finish ends the
\* session when it fails).
THEOREM FailuresAreBounded == AttemptSpec => []AttemptsBounded
PROOF
  <1>1. AttemptInit => IInv /\ AttemptInv
    <2>1. AttemptInit => AttemptInv
      BY DEF AttemptInit, Init, AttemptInv, Accounted, AttemptsBounded
    <2> QED
      BY <2>1, IInvInit DEF AttemptInit
  <1>2. IInv /\ AttemptInv /\ [AttemptNext]_<<vars, attempts>> =>
          IInv' /\ AttemptInv'
    <2>1. [AttemptNext]_<<vars, attempts>> => [Next]_vars
      BY DEF AttemptNext
    <2> QED
      BY <2>1, IInvStep, AttemptStep
  <1>3. AttemptInv => AttemptsBounded
    BY DEF AttemptInv
  <1> QED
    BY <1>1, <1>2, <1>3, PTL DEF AttemptSpec
=============================================================================
