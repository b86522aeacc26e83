---------------------------- MODULE MCIrcMessage ----------------------------
(***************************************************************************)
(* Instances of IrcMessage for TLC: every line of a stem and a few pieces, *)
(* over an alphabet with everything the parser tells apart.                *)
(***************************************************************************)
EXTENDS IrcMessage

Single(symbols) == {<<symbol>> : symbol \in symbols}

\* From nothing, in a tag value, after a complete tag, after a prefix and
\* among the parameters.
LineStems ==
  { << >>, <<"@", "a", "=">>, <<"@", "a", "=", "s", ";", "a", "=">>,
    <<":", "a", " ">>, <<"PING", " ">>, <<"PING", " ", "a">> }

LinePieces == Single({"@", ";", "=", " ", ":", "\\", "s", "PING", "-", "LF"})
=============================================================================
