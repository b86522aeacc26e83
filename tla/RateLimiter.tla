----------------------------- MODULE RateLimiter -----------------------------
(***************************************************************************)
(* The pacing state of src/rate_limiter.cpp: one deque of completion times *)
(* per bucket and the last chat time per channel.  It is a plain object    *)
(* owned by TwitchIrcClient::Impl, so it is modelled by operators on a     *)
(* record; OutboundQueue holds the record in a variable.                   *)
(*                                                                         *)
(* Times are integers (ticks of the steady clock).  The three windows and  *)
(* the two bucket sizes are constants; the code fixes them to 20 / 30 s,   *)
(* 20 / 10 s and 1 s.                                                      *)
(***************************************************************************)
EXTENDS Integers, Sequences, FiniteSets

CONSTANTS
  Channels,      \* Twitch channels, the keys of channel_chat_
  None,          \* an empty std::optional, or a key a map does not hold
  ChatLimit,     \* chat messages per ChatWindow
  ChatWindow,
  JoinLimit,     \* JOINs per JoinWindow
  JoinWindow,
  ChannelGap     \* distance of two chat messages to one channel

ASSUME LimiterAssumption ==
  /\ ChatLimit \in Nat \ {0}
  /\ JoinLimit \in Nat \ {0}
  /\ ChatWindow \in Nat
  /\ JoinWindow \in Nat
  /\ ChannelGap \in Nat
  /\ None \notin Int
  /\ None \notin Channels

Kinds == {"system", "join", "chat"}

Limiter ==
  [ global_chat  : Seq(Nat),
    joins        : Seq(Nat),
    channel_chat : [Channels -> Nat \cup {None}] ]

NewLimiter ==
  [ global_chat  |-> << >>,
    joins        |-> << >>,
    channel_chat |-> [c \in Channels |-> None] ]

\* std::max on two time points.
Later(s, t) == IF s >= t THEN s ELSE t

-----------------------------------------------------------------------------
\* How many entries the loop of prune pops: it stops at the first entry that
\* is newer than the cutoff, or at the end.
Expired(entries, cutoff) ==
  CHOOSE n \in 0..Len(entries) :
    /\ n < Len(entries) => entries[n + 1] > cutoff
    /\ \A i \in 1..n : entries[i] <= cutoff

Prune(entries, cutoff) ==
  SubSeq(entries, Expired(entries, cutoff) + 1, Len(entries))

\* The side effect of next_allowed: the bucket of the asked kind is pruned.
PruneBucket(lim, kind, now) ==
  CASE kind = "join" -> [lim EXCEPT !.joins = Prune(@, now - JoinWindow)]
    [] kind = "chat" -> [lim EXCEPT !.global_chat = Prune(@, now - ChatWindow)]
    [] OTHER         -> lim

\* Mutant: the bucket admits one entry more than its limit.
BucketOpens_OffByOne(entries, limit, window, now) ==
  IF Len(entries) <= limit THEN now ELSE entries[1] + window

\* When a pruned bucket next has room.
BucketOpens(entries, limit, window, now) ==
  IF Len(entries) < limit THEN now ELSE entries[1] + window

\* Mutant: the per-channel gap is forgotten.
ChannelOpens_NoGap(lim, channel, now) == now

\* When a channel may be written to again; a channel the map does not hold
\* has no restriction.
ChannelOpens(lim, channel, now) ==
  IF lim.channel_chat[channel] = None
  THEN now
  ELSE lim.channel_chat[channel] + ChannelGap

\* The value next_allowed returns.
NextAllowed(lim, kind, channel, now) ==
  LET pruned == PruneBucket(lim, kind, now) IN
  CASE kind = "join" ->
         BucketOpens(pruned.joins, JoinLimit, JoinWindow, now)
    [] kind = "chat" ->
         Later(BucketOpens(pruned.global_chat, ChatLimit, ChatWindow, now),
               ChannelOpens(lim, channel, now))
    [] OTHER -> now

\* Mutant: a JOIN is not remembered.
Record_ForgetsJoin(lim, kind, channel, sent_at) ==
  CASE kind = "chat" ->
         [lim EXCEPT !.global_chat = Append(@, sent_at),
                     !.channel_chat[channel] = sent_at]
    [] OTHER -> lim

Record(lim, kind, channel, sent_at) ==
  CASE kind = "join" -> [lim EXCEPT !.joins = Append(@, sent_at)]
    [] kind = "chat" ->
         [lim EXCEPT !.global_chat = Append(@, sent_at),
                     !.channel_chat[channel] = sent_at]
    [] OTHER -> lim

-----------------------------------------------------------------------------
\* Reference: what the limits mean, without deques or pruning.  A write at t
\* is permitted when fewer than `limit' recorded writes lie in the half-open
\* window that ends at t, and the channel has been quiet for ChannelGap.
HasRoom(entries, limit, window, t) ==
  Cardinality({i \in DOMAIN entries : entries[i] > t - window}) < limit

Permits(lim, kind, channel, t) ==
  /\ kind = "join" => HasRoom(lim.joins, JoinLimit, JoinWindow, t)
  /\ kind = "chat" =>
       /\ HasRoom(lim.global_chat, ChatLimit, ChatWindow, t)
       /\ \/ lim.channel_chat[channel] = None
          \/ lim.channel_chat[channel] + ChannelGap <= t

\* next_allowed is exact: it returns the first instant not before now at
\* which the limits permit the write (never too early, never later than
\* needed).
ExactFor(lim, kind, channel, now) ==
  LET t == NextAllowed(lim, kind, channel, now) IN
  /\ t >= now
  /\ Permits(lim, kind, channel, t)
  /\ \A u \in now..(t - 1) : ~Permits(lim, kind, channel, u)
=============================================================================
