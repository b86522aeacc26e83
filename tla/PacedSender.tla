----------------------------- MODULE PacedSender -----------------------------
(***************************************************************************)
(* What the output queue promises to Twitch (docs/ARCHITECTURE.md:54): two *)
(* logs, of the chat messages and of the JOINs that have been written, to  *)
(* which an entry is added only if its writing began when the limits       *)
(* allowed it.  Nothing is said of queues, timers, sessions or a limiter.  *)
(***************************************************************************)
EXTENDS Integers, Sequences

CONSTANTS Channels, ChatLimit, ChatWindow, JoinLimit, JoinWindow, ChannelGap

VARIABLES time, chats, joins

vars == <<time, chats, joins>>

Init == time = 0 /\ chats = << >> /\ joins = << >>

\* Fewer than `limit' entries of the log are younger than `window' at t.
Room(log, limit, window, t) ==
  \A i \in DOMAIN log :
    i + limit <= Len(log) + 1 => log[i].done + window <= t

Calm(channel, t) ==
  \A i \in DOMAIN chats :
    chats[i].channel = channel => chats[i].done + ChannelGap <= t

Entry(channel, start) == [channel |-> channel, start |-> start, done |-> time]

SendChat(channel, start) ==
  /\ Room(chats, ChatLimit, ChatWindow, start)
  /\ Calm(channel, start)
  /\ chats' = Append(chats, Entry(channel, start))
  /\ UNCHANGED <<time, joins>>

SendJoin(channel, start) ==
  /\ Room(joins, JoinLimit, JoinWindow, start)
  /\ joins' = Append(joins, Entry(channel, start))
  /\ UNCHANGED <<time, chats>>

Tick == time' = time + 1 /\ UNCHANGED <<chats, joins>>

Next ==
  \/ \E channel \in Channels, start \in 0..time :
       SendChat(channel, start) \/ SendJoin(channel, start)
  \/ Tick

Spec == Init /\ [][Next]_vars
=============================================================================
