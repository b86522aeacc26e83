---------------------------- MODULE CountedQueue ----------------------------
(***************************************************************************)
(* The output queue as Session and TwitchIrcClient see it: how many        *)
(* protocol lines and how many paced messages wait, and any answer of the  *)
(* limits.  Only the operators of Session act on it.  OutboundQueue, with  *)
(* its messages, clock and limiter, implements it, so what is checked of a *)
(* client with counted queues holds with the real one.                     *)
(***************************************************************************)
EXTENDS Session

VARIABLE s          \* the Session object, as far as the queue goes

Init == s = NewSession

Writing == s.write # "none"

EnqueueOne ==
  \E kind \in {"system", "join", "chat"}, pacing \in Pacing :
    s' = Enqueue(Running(s), kind, pacing).s

TimerExpires ==
  /\ "armed" \in s.write_timer
  /\ s' = [s EXCEPT !.write_timer = Expire(@)]

TimerHandler ==
  /\ "fired" \in s.write_timer
  /\ \E pacing \in Pacing : s' = WriteTimeout(s, pacing).s

\* A write ends well before or after the session does, or fails.
WriteDone == Writing /\ \E pacing \in Pacing : s' = Written(s, pacing).s

WriteFailed ==
  /\ Writing
  /\ s' = Finish(Running([s EXCEPT !.write = "none"]), "network_error").s

SessionEnds == s' = Finish(Running(s), "stopped").s

Next ==
  \/ EnqueueOne \/ TimerExpires \/ TimerHandler \/ WriteDone \/ WriteFailed
  \/ SessionEnds
  \/ s.closed /\ ~Held(s) /\ s' = NewSession

Spec == Init /\ [][Next]_s
=============================================================================
