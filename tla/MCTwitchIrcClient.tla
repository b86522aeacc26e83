------------------------- MODULE MCTwitchIrcClient -------------------------
(***************************************************************************)
(* Instances of TwitchIrcClient for TLC: one or two Session objects, one   *)
(* or two required capabilities instead of three, and the lines that       *)
(* matter to the question a configuration asks.                            *)
(***************************************************************************)
EXTENDS TwitchIrcClient, TLC

CONSTANTS s1, s2, tags, commands

OneSlot == {s1}

TwoSlots == {s1, s2}

OneCap == {tags}

TwoCaps == {tags, commands}

Symmetry == Permutations(Slots)

Plain(command) == [command |-> command]

Ack(add) == [command |-> "ACK", add |-> add, drop |-> {}]

Chat(n) == [command |-> "CHAT", responses |-> n]

\* Everything a server that follows its own protocol sends.
AllMessages ==
  {Plain(c) : c \in {"PING", "EMPTY_PING", "RECONNECT", "LOGIN_FAILURE",
                     "NAK", "WELCOME"}}
    \cup {Ack(add) : add \in SUBSET Caps}
    \cup {Chat(n) : n \in 0..1}

\* What decides the life of a Session.
LifeMessages ==
  {Plain("RECONNECT"), Plain("LOGIN_FAILURE"), Plain("WELCOME"), Ack(Caps)}

\* A server that says nothing.
NoMessages == {}

\* The lines of a login, and a capability taken back.
WithRemoval ==
  {Plain("WELCOME"), Ack(Caps), [command |-> "ACK", add |-> {}, drop |-> Caps]}
=============================================================================
