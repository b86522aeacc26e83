----------------------------- MODULE IrcMessage -----------------------------
(***************************************************************************)
(* The parser and the encoder of src/irc.cpp, with the answer to PING of   *)
(* src/session_protocol.cpp.  They are pure functions; a line is built     *)
(* from pieces, and every property is about all lines so built.            *)
(***************************************************************************)
EXTENDS Text

LOCAL INSTANCE SequencesExt

CONSTANTS
  MaxLine,         \* max_irc_line_bytes (8192 in the code)
  MaxPayload,      \* max_outgoing_payload_bytes (510 in the code)
  MaxParameters,   \* middle parameters (32 in the code)
  Stems,           \* what a line begins with
  Pieces,          \* what is appended to it
  MaxPieces        \* bound: pieces appended

\* The parser takes whatever the encoder sends.
ASSUME LimitsAssumption ==
  /\ {MaxLine, MaxPayload, MaxParameters} \subseteq Nat
  /\ MaxPayload <= MaxLine /\ MaxParameters >= 1

ASSUME TextsAssumption == \A text \in Stems \cup Pieces : IsList(text)

VARIABLES line, pieces

vars == <<line, pieces>>

Init == line \in Stems /\ pieces = 0

Grow(piece) ==
  /\ pieces < MaxPieces
  /\ line' = line \o piece
  /\ pieces' = pieces + 1

Next == \E piece \in Pieces : Grow(piece)

Spec == Init /\ [][Next]_vars

-----------------------------------------------------------------------------
\* What std::isalnum refuses, of the symbols in use.
Punctuation == {" ", ":", ";", "=", "@", "\\", "-", "#", "!", "CR", "LF"}

ContainsLineBreak(text) == Has(text, {"CR", "LF"})

\* What a symbol stands for behind a backslash in a tag value.
Unescape(c) ==
  CASE c = ":" -> ";"
    [] c = "s" -> " "
    [] c = "r" -> "CR"
    [] c = "n" -> "LF"
    [] OTHER   -> c

\* One round of unescape_irc_tag: its text so far, and whether the last symbol
\* is a backslash that waits for the next one.
ReadSymbol(before, c) ==
  IF before.escaped
  THEN [escaped |-> FALSE, text |-> Append(before.text, Unescape(c))]
  ELSE IF c = "\\" THEN [before EXCEPT !.escaped = TRUE]
  ELSE [before EXCEPT !.text = Append(@, c)]

UnescapeTag(value) ==
  LET n == Len(value)
      read[i \in 0..n] ==
        IF i = 0 THEN [escaped |-> FALSE, text |-> << >>]
        ELSE ReadSymbol(read[i - 1], value[i])
  IN  IF read[n].escaped THEN Append(read[n].text, "\\") ELSE read[n].text

\* Mutant: a key keeps its first value.
WithTag_FirstWins(tags, key, value) ==
  [k \in DOMAIN tags \cup {key} |-> IF k \in DOMAIN tags THEN tags[k] ELSE value]

\* insert_or_assign.
WithTag(tags, key, value) ==
  [k \in DOMAIN tags \cup {key} |-> IF k = key THEN value ELSE tags[k]]

\* The tags of a tag section, of its parts that end before position p.  An
\* empty key is kept for Parse to refuse.
Tags(section) ==
  LET n == Len(section)
      tags[p \in 0..(n + 1)] ==
        IF p = 0 THEN << >>
        ELSE IF p = n + 1 \/ section[p] = ";"
             THEN LET raw == PartBefore(section, ";", p)
                  IN  WithTag(tags[p - 1], Before(raw, "="),
                              UnescapeTag(After(raw, "=")))
             ELSE tags[p - 1]
  IN  tags[n + 1]

\* One round of the loop over the parameters: the next word, which is the last
\* parameter if it begins with a colon.
NextParameter(text, found, start) ==
  LET n == Len(text)
      end == Find(text, " ", start)
  IN  IF start > n THEN [found EXCEPT !.position = n + 1]
      ELSE IF text[start] = ":"
      THEN [found EXCEPT !.position = n + 1,
                         !.trailing = <<SubSeq(text, start + 1, n)>>]
      ELSE [found EXCEPT !.position = end + 1,
                         !.middle = Append(@, SubSeq(text, start, end - 1))]

NoParameters == [position |-> 1, middle |-> << >>, trailing |-> << >>]

\* Mutant: a second blank makes an empty parameter.
Parameters_EmptyMiddle(text) ==
  LET n == Len(text)
      found[k \in 0..n] ==
        IF k = 0 THEN NoParameters
        ELSE LET before == found[k - 1] IN
             IF before.position > n THEN before
             ELSE NextParameter(text, before, before.position)
  IN  found[n]

\* The parameters after k rounds: those in the middle, and the trailing one,
\* which alone may hold blanks or be empty.
Parameters(text) ==
  LET n == Len(text)
      found[k \in 0..n] ==
        IF k = 0 THEN NoParameters
        ELSE LET before == found[k - 1] IN
             IF before.position > n THEN before
             ELSE NextParameter(text, before, Skip(text, " ", before.position))
  IN  found[n]

\* Mutant: the colon stays in the prefix.
Prefix_WithColon(source) == Before(source, " ")

\* The name of the sender, between the colon and the first blank.
Prefix(source) == Tail(Before(source, " "))

\* std::nullopt.
NoMessage == [command |-> << >>]

\* parse_irc_message, after the checks of the whole line: the tags up to the
\* first blank, the prefix up to the next, the command and the parameters.
Parse(text) ==
  LET tagged   == StartsWith(text, "@")
      tags     == IF tagged THEN Tags(Tail(Before(text, " "))) ELSE << >>
      body     == IF tagged THEN After(text, " ") ELSE text
      source   == SubSeq(body, Skip(body, " ", 1), Len(body))
      prefixed == StartsWith(source, ":")
      prefix   == IF prefixed THEN Prefix(source) ELSE << >>
      tail     == IF prefixed THEN After(source, " ") ELSE source
      request  == SubSeq(tail, Skip(tail, " ", 1), Len(tail))
      command  == ToUpper(Before(request, " "))
      found    == Parameters(After(request, " "))
  IN  IF \/ text = << >> \/ Len(text) > MaxLine \/ ContainsLineBreak(text)
         \/ tagged /\ (~Has(text, {" "}) \/ << >> \in DOMAIN tags)
         \/ prefixed /\ (~Has(source, {" "}) \/ prefix = << >>)
         \/ command = << >> \/ Has(command, Punctuation)
         \/ Len(found.middle) > MaxParameters
      THEN NoMessage
      ELSE [ tags |-> tags, prefix |-> prefix, command |-> command,
             parameters |-> found.middle \o found.trailing ]

\* << >> stands for an exception: no text that is sent is empty.
EncodeLine(text) ==
  IF text = << >> \/ ContainsLineBreak(text) \/ Len(text) > MaxPayload
  THEN << >> ELSE text \o <<"CR", "LF">>

\* Mutant: the text is not marked as the last parameter.
MakePrivmsg_Unmarked(channel, text) ==
  IF channel = << >> \/ text = << >> \/ ContainsLineBreak(channel \o text)
  THEN << >>
  ELSE EncodeLine(<<"PRIVMSG", " ">>
                    \o (IF StartsWith(channel, "#") THEN channel
                        ELSE <<"#">> \o channel)
                    \o <<" ">> \o text)

MakePrivmsg(channel, text) ==
  IF channel = << >> \/ text = << >> \/ ContainsLineBreak(channel \o text)
  THEN << >>
  ELSE EncodeLine(<<"PRIVMSG", " ">>
                    \o (IF StartsWith(channel, "#") THEN channel
                        ELSE <<"#">> \o channel)
                    \o <<" ", ":">> \o text)

\* The answer of SessionProtocol::handle to PING.
Pong(message) ==
  IF message.parameters = << >> THEN << >>
  ELSE EncodeLine(<<"PONG", " ", ":">> \o message.parameters[1])

-----------------------------------------------------------------------------
\* Reference, by positions instead of a cursor: the first colon that begins a
\* word begins the trailing parameter; the words before it are the others.
WordStarts(text) ==
  {i \in DOMAIN text : text[i] # " " /\ (i = 1 \/ text[i - 1] = " ")}

\* The number of i among the members of S.
Rank(i, S) == Cardinality({j \in S : j <= i})

AreWords(words, text) ==
  LET starts == WordStarts(text) IN
  /\ Len(words) = Cardinality(starts)
  /\ \A i \in starts :
       words[Rank(i, starts)] = SubSeq(text, i, Find(text, " ", i) - 1)

ParametersExact ==
  LET colons == {i \in WordStarts(line) : line[i] = ":"}
      first == CHOOSE i \in colons : \A j \in colons : i <= j
      found == Parameters(line)
  IN  IF colons = {}
      THEN AreWords(found.middle, line) /\ found.trailing = << >>
      ELSE /\ AreWords(found.middle, SubSeq(line, 1, first - 1))
           /\ found.trailing = <<SubSeq(line, first + 1, Len(line))>>

\* What the IRCv3 message format prescribes for a tag value.
Special == {";", " ", "CR", "LF", "\\"}

Escape(c) ==
  CASE c = ";"  -> ":"
    [] c = " "  -> "s"
    [] c = "CR" -> "r"
    [] c = "LF" -> "n"
    [] OTHER    -> c

\* Whether text is what an escaped value was before: a backslash after an even
\* number of others marks the symbol that follows it, unless it is the last.
WasBefore(text, value) ==
  LET before(i) == CHOOSE n \in 0..(i - 1) :
                     /\ \A k \in (i - n)..(i - 1) : value[k] = "\\"
                     /\ n = i - 1 \/ value[i - n - 1] # "\\"
      marks == {i \in 1..(Len(value) - 1) :
                  value[i] = "\\" /\ before(i) % 2 = 0}
      kept == DOMAIN value \ marks
      meant(i) == LET meanings == {c \in Special : Escape(c) = value[i]}
                  IN  IF i - 1 \in marks /\ meanings # {}
                      THEN CHOOSE c \in meanings : TRUE ELSE value[i]
  IN  /\ Len(text) = Cardinality(kept)
      /\ \A i \in kept : text[Rank(i, kept)] = meant(i)

\* The tags of a section are its parts between semicolons; a key has the
\* value of the last part that begins with it and an equals sign or ends
\* there (the map of parse_irc_message is written once per part), as it was
\* before it was escaped (README.md:19).
TagsExact ==
  LET tags == Tags(line)
      ends == {i \in 1..(Len(line) + 1) : i = Len(line) + 1 \/ line[i] = ";"}
      part(e) == LET earlier == {d \in ends \cup {0} : d < e}
                 IN  SubSeq(line, 1 + CHOOSE d \in earlier :
                                        \A other \in earlier : other <= d, e - 1)
      of(key) == {e \in ends : Before(part(e), "=") = key}
      last(key) == CHOOSE e \in of(key) : \A d \in of(key) : d <= e
  IN  /\ DOMAIN tags = {Before(part(e), "=") : e \in ends}
      /\ \A key \in DOMAIN tags :
           WasBefore(tags[key], After(part(last(key)), "="))

EscapeTag(value) ==
  FlattenSeq([i \in DOMAIN value |->
    IF value[i] \in Special THEN <<"\\", Escape(value[i])>>
                            ELSE <<value[i]>>])

\* A line for a message; the last parameter is written as the trailing one.
Format(m) ==
  LET keys == SetToSeq(DOMAIN m.tags)
      tag(key) == key \o <<"=">> \o EscapeTag(m.tags[key])
      tags == FlattenSeq([k \in DOMAIN keys |->
                (IF k = 1 THEN <<"@">> ELSE <<";">>) \o tag(keys[k])])
      last == Len(m.parameters)
  IN  (IF keys = << >> THEN << >> ELSE tags \o <<" ">>)
        \o (IF m.prefix = << >> THEN << >>
            ELSE <<":">> \o m.prefix \o <<" ">>)
        \o m.command
        \o FlattenSeq([k \in DOMAIN m.parameters |->
             (IF k = last THEN <<" ", ":">> ELSE <<" ">>) \o m.parameters[k]])

\* What the parser understands is what was meant: the message it returns,
\* written again, is parsed to the same message, whatever blanks, repeated
\* keys, escapes and colons the line had.
CanonicalForm ==
  LET m == Parse(line) IN
  m # NoMessage /\ Len(Format(m)) <= MaxLine => Parse(Format(m)) = m

\* The one line the server reads when it is sent a wire text.
Arrives(wire) == Parse(SubSeq(wire, 1, Len(wire) - 2))

Request(command, parameters) ==
  [ tags |-> << >>, prefix |-> << >>, command |-> <<command>>,
    parameters |-> parameters ]

\* A response reaches its channel as exactly one message with exactly its
\* text, or is refused: it is empty, has a line break or is too long.
PrivmsgArrives ==
  LET wire == MakePrivmsg(<<"a">>, line) IN
  IF line = << >> \/ ContainsLineBreak(line) \/ Len(line) + 6 > MaxPayload
  THEN wire = << >>
  ELSE Arrives(wire) = Request("PRIVMSG", << <<"#", "a">>, line >>)

\* The PONG that answers a PING carries the exact payload of the line, its
\* blanks and colons included, or is too long to be sent.
PongExact ==
  LET m == Parse(line) IN
  m.command = <<"PING">> /\ m.parameters # << >> =>
    LET payload == m.parameters[1] IN
    IF Len(payload) + 3 > MaxPayload
    THEN Pong(m) = << >>
    ELSE Arrives(Pong(m)) = Request("PONG", <<payload>>)

\* What is sent arrives as it was meant, chat messages and PONGs (README.md:20,
\* "CRLF-safe output encoding").
SentAsMeant == PrivmsgArrives /\ PongExact
=============================================================================
