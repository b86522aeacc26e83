-------------------------- MODULE MCOutboundQueue --------------------------
(***************************************************************************)
(* An instance of OutboundQueue for TLC: every kind of message, at once    *)
(* and delayed, to one channel over two sessions.  The limits and windows  *)
(* are a few ticks instead of 20 messages and 30, 10 and 1 seconds, in the *)
(* same order: ChannelGap < JoinWindow <= ChatWindow.                      *)
(***************************************************************************)
EXTENDS OutboundQueueRefinement

CONSTANT a                              \* the channel

OneChannel == {a}

SomeDelay == {0, 2}

AllKinds == {"system", "join", "chat"}
=============================================================================
