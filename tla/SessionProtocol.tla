--------------------------- MODULE SessionProtocol ---------------------------
(***************************************************************************)
(* The login and capability state machine of src/session_protocol.cpp.  It *)
(* is a plain object owned by a Session, so it is modelled by operators on *)
(* a record that return the new record and the list of actions the code    *)
(* returns; TwitchIrcClient holds the record and applies the actions.      *)
(*                                                                         *)
(* A message is the part of an IrcMessage that handle looks at.  A welcome *)
(* is 001 or GLOBALUSERSTATE.  Capabilities that are not required are left *)
(* out: they enter the set and nothing asks for them.                      *)
(***************************************************************************)
EXTENDS Integers, Sequences, FiniteSets

CONSTANTS
  Caps,            \* required_capabilities
  ChannelCount     \* number of configured channels

ASSUME ProtocolAssumption ==
  /\ IsFiniteSet(Caps) /\ Caps # {}
  /\ ChannelCount \in Nat \ {0}

\* tls_connected is left out: no line of the program assigns it.
SessionState ==
  { "disconnected", "authenticating", "capability_negotiation", "ready",
    "reconnect_requested", "failed" }

Protocol ==
  [ state         : SessionState,
    authenticated : BOOLEAN,
    acknowledged  : SUBSET Caps ]

NewProtocol ==
  [state |-> "disconnected", authenticated |-> FALSE, acknowledged |-> {}]

\* Kinds of action: a system line to send, a JOIN to send, ready, reconnect
\* and fatal.
ActionKind == {"send", "join", "ready", "reconnect", "fatal"}

Messages ==
  [command : {"PING", "EMPTY_PING", "RECONNECT", "LOGIN_FAILURE", "NAK",
              "WELCOME"}]
    \cup [command : {"ACK"}, add : SUBSET Caps, drop : SUBSET Caps]
    \cup [command : {"CHAT"}, responses : Nat]

-----------------------------------------------------------------------------
Outcome(p, actions) == [protocol |-> p, actions |-> actions]

\* PASS, NICK and CAP REQ.
Begin(p) ==
  IF p.state # "disconnected"
  THEN Outcome(p, << >>)
  ELSE Outcome([p EXCEPT !.state = "authenticating"],
               <<"send", "send", "send">>)

\* Mutant: an acknowledged capability is enough.
BecomeReadyIfPossible_AnyCap(p) ==
  IF \/ p.state \in {"ready", "failed", "reconnect_requested"}
     \/ ~p.authenticated
     \/ Caps \cap p.acknowledged = {}
  THEN Outcome(p, << >>)
  ELSE Outcome([p EXCEPT !.state = "ready"],
               <<"ready">> \o [i \in 1..ChannelCount |-> "join"])

BecomeReadyIfPossible(p) ==
  IF \/ p.state \in {"ready", "failed", "reconnect_requested"}
     \/ ~p.authenticated
     \/ ~(Caps \subseteq p.acknowledged)
  THEN Outcome(p, << >>)
  ELSE Outcome([p EXCEPT !.state = "ready"],
               <<"ready">> \o [i \in 1..ChannelCount |-> "join"])

\* CAP ACK: the listed capabilities are added, those listed with a minus are
\* dropped, and the state is capability_negotiation whatever it was.
Acknowledge(p, m) ==
  [p EXCEPT !.acknowledged = (@ \ m.drop) \cup m.add,
            !.state = "capability_negotiation"]

\* Mutant: only an acknowledgement looks whether the session is ready.
Handle_WelcomeWaits(p, m) ==
  CASE m.command = "PING"       -> Outcome(p, <<"send">>)
    [] m.command = "EMPTY_PING" -> Outcome(p, << >>)
    [] m.command = "RECONNECT"  ->
         Outcome([p EXCEPT !.state = "reconnect_requested"], <<"reconnect">>)
    [] m.command \in {"LOGIN_FAILURE", "NAK"} ->
         Outcome([p EXCEPT !.state = "failed"], <<"fatal">>)
    [] m.command = "ACK"     -> BecomeReadyIfPossible(Acknowledge(p, m))
    [] m.command = "WELCOME" -> Outcome([p EXCEPT !.authenticated = TRUE], << >>)
    [] OTHER                 -> Outcome(p, << >>)

Handle(p, m) ==
  CASE m.command = "PING"       -> Outcome(p, <<"send">>)
    [] m.command = "EMPTY_PING" -> Outcome(p, << >>)
    [] m.command = "RECONNECT"  ->
         Outcome([p EXCEPT !.state = "reconnect_requested"], <<"reconnect">>)
    [] m.command \in {"LOGIN_FAILURE", "NAK"} ->
         Outcome([p EXCEPT !.state = "failed"], <<"fatal">>)
    [] m.command = "ACK" -> BecomeReadyIfPossible(Acknowledge(p, m))
    [] m.command = "WELCOME" ->
         BecomeReadyIfPossible([p EXCEPT !.authenticated = TRUE])
    [] OTHER -> BecomeReadyIfPossible(p)
=============================================================================
