----------------------- MODULE OutboundQueueRefinement -----------------------
(***************************************************************************)
(* The two abstractions OutboundQueue implements: the log of what Twitch   *)
(* receives, and the counted queue that Session is modelled with.          *)
(***************************************************************************)
EXTENDS OutboundQueue

Sender == INSTANCE PacedSender
            WITH time <- now, chats <- chats_sent, joins <- joins_sent

Count(kinds) == Cardinality({m \in outbound : m.kind \in kinds})

Paced == {"join", "chat"}

\* The record of Session that stands for the queue.  The fields of dialling,
\* reading and logging in stay as in a new session.
Counted ==
  [ closed      |-> closed,
    protocol    |-> [state |-> "disconnected", authenticated |-> FALSE,
                     acknowledged |-> {}],
    system      |-> Count({"system"}),
    paced       |-> Count(Paced),
    current     |-> CASE current_write = None -> "none"
                      [] current_write # None /\ current_write.kind \in Paced
                           -> "paced"
                      [] OTHER -> "system",
    dial        |-> "none",
    socket      |-> FALSE,
    read        |-> "none",
    write       |-> CASE write_op /\ ~closed -> "pending"
                      [] write_op /\ closed  -> "error"
                      [] OTHER -> "none",
    write_timer |-> {w \in {"armed", "fired"} :
                       IF w = "armed" THEN write_timer # None
                                      ELSE timer_fired},
    auth_timer  |-> {} ]

Queue == INSTANCE CountedQueue
           WITH MaxQueue <- QueueMax, Caps <- {"capability"},
                ChannelCount <- 1, s <- Counted

\* The log of what is written is one the limits of Twitch allow, whatever the
\* queue, the limiter, the timers and the sessions do in between.
KeepsPromise == Sender!Spec

\* Every step of the queue is one of Session's, with some answer of the
\* limits: pacing over a number of messages, as TwitchIrcClient has it, leaves
\* out no behaviour of the queue with messages, due times and a limiter.
IsCounted == Queue!Spec
=============================================================================
