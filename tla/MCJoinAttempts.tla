--------------------------- MODULE MCJoinAttempts ---------------------------
(***************************************************************************)
(* An instance of JoinAttempts for TLC: chat messages and JOINs to two     *)
(* channels over two sessions.  The gap of a channel is shorter than the   *)
(* windows, so that each of the three limits decides somewhere.            *)
(***************************************************************************)
EXTENDS JoinAttempts, TLC

CONSTANTS a, b                          \* the channels

TwoChannels == {a, b}

NoDelay == {0}

JoinAndChat == {"join", "chat"}

Symmetry == Permutations(Channels)
=============================================================================
