---------------------------- MODULE JoinAttempts ----------------------------
(***************************************************************************)
(* OutboundQueue with a history of the JOINs begun, complete or not.  One  *)
(* whose write fails, or is cut off by the end of its session, may have    *)
(* reached Twitch; the limiter never hears of it.                          *)
(***************************************************************************)
EXTENDS OutboundQueueRefinement

VARIABLE attempts    \* history: instant and session of every JOIN begun

\* async_write is called in this step.
Begins == write_op' /\ (~write_op \/ current_write' # current_write)

AttemptInit == Init /\ attempts = << >>

AttemptNext ==
  /\ Next
  /\ attempts' = IF Begins /\ current_write'.kind = "join"
                 THEN Append(attempts, [start |-> now, session |-> session])
                 ELSE attempts

AttemptSpec == AttemptInit /\ [][AttemptNext]_<<vars, attempts>>

-----------------------------------------------------------------------------
Apart(i, j) == attempts[j].start >= attempts[i].start + JoinWindow

\* An attempt that failed is not counted, so "20 JOIN attempts per 10 seconds"
\* (docs/ARCHITECTURE.md:54-55) is not kept to the letter; but since one write
\* is in flight at a time, every session that ends gives at most one attempt
\* on top of the limit.
AttemptsBounded ==
  \A i, j \in DOMAIN attempts :
    /\ i < j
    /\ j >= i + JoinLimit + (attempts[j].session - attempts[i].session)
    => Apart(i, j)
=============================================================================
