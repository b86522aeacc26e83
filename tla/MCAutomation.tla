---------------------------- MODULE MCAutomation ----------------------------
(***************************************************************************)
(* An instance of Automation for TLC.  A line carries, for the properties, *)
(* who really wrote it (author), where (room) and what was said.           *)
(***************************************************************************)
EXTENDS Automation

Rule(enabled, channel, contains, response, cooldown) ==
  [ enabled |-> enabled, sender |-> <<"a">>, channel |-> channel,
    contains |-> contains, response |-> response, delay |-> 1,
    cooldown |-> cooldown ]

\* Two rules that one text may trigger together, and a disabled one.
SomeRules ==
  << Rule(TRUE, None, <<"x">>, "r1", 2),
     Rule(TRUE, <<"b">>, <<"x", "y">>, "r2", 1),
     Rule(FALSE, None, <<"x">>, "r3", 0) >>

SomeHype ==
  [ enabled |-> TRUE, channel |-> <<"b">>, delay |-> 1, cooldown |-> 2,
    subscription_messages |-> <<"s1", "s2", "s3">>,
    gift_messages |-> <<"g1", "g2">> ]

Said(author, prefix, room, target, text) ==
  [ command |-> "PRIVMSG", prefix |-> prefix,
    parameters |-> <<target, text>>, event |-> None,
    author |-> author, room |-> room, said |-> text ]

\* The sender in two spellings, a name that begins like it, a server, a
\* channel that is none, and a line without a text; texts with one trigger,
\* with both, and with both of the symbols in the wrong order.
SomeChat ==
  { Said(<<"a">>, <<"a", "!", "u">>, <<"b">>, <<"#", "b">>, <<"x", "y">>),
    Said(<<"a">>, <<"A", "!", "u">>, <<"a">>, <<"#", "A">>, <<"y", "x", "y">>),
    Said(<<"a", "b">>, <<"a", "b", "!", "a">>, <<"b">>, <<"#", "b">>, <<"x">>),
    Said(<<"a">>, <<"a", "!", "u">>, <<"b">>, <<"#", "B">>, <<"y", "x">>),
    Said(<< >>, <<"a">>, <<"b">>, <<"#", "b">>, <<"x">>),
    Said(<<"a">>, <<"a", "!", "u">>, << >>, <<"#", "#", "b">>, <<"x">>),
    [ Said(<< >>, <<"a", "!", "u">>, <<"b">>, <<"#", "b">>, << >>)
        EXCEPT !.parameters = <<(<<"#", "b">>)>> ] }

Usernotice(event, room, target) ==
  [ command |-> "USERNOTICE", prefix |-> << >>,
    parameters |-> <<target>>, event |-> event,
    author |-> << >>, room |-> room, said |-> << >> ]

SomeNotices ==
  { Usernotice(event, <<"b">>, <<"#", "b">>) :
      event \in {"sub", "resub", "subgift", "submysterygift", "raid", None} }
    \cup { Usernotice("sub", <<"a">>, <<"#", "a">>) }

\* The room is known, and the line is of another kind.
Other ==
  [Usernotice("sub", <<"b">>, <<"#", "b">>) EXCEPT !.command = "ROOMSTATE"]

SomeLines == SomeChat \cup SomeNotices \cup {Other}
=============================================================================
