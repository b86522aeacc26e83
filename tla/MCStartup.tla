------------------------------ MODULE MCStartup ------------------------------
(***************************************************************************)
(* Worlds for Startup: a few argument vectors, files and variables for     *)
(* every way main can take, and every short text as the value of a line.   *)
(***************************************************************************)
EXTENDS Startup, TLC

EnvPath == <<".env">>
BotPath == <<"config/bot.json">>

\* Nothing, flags, paths, a path twice, an empty path, a flag that is a path,
\* an option that is a path, a path that is missing, an unknown word.
SomeArguments ==
  { << >>, << <<"--check-config">> >>, << <<"--config">>, <<"p">> >>,
    << <<"--config">>, <<"p">>, <<"--check-config">>, <<"--config">>, <<"q">> >>,
    << <<"--config">>, << >>, <<"--env">>, <<"p">> >>,
    << <<"--env">>, <<"--check-config">> >>,
    << <<"--env">>, <<"--config">>, <<"--config">>, <<"--env">> >>,
    << <<"--check-config">>, <<"-h">> >>, << <<"--config">> >>, << <<"p">> >> }

\* One line of an .env file, and what it was written for.
Entry(key, value) == [key |-> key, value |-> value]

Plain(entry) == entry.key \o <<"=">> \o entry.value

Quoted(entry, before, quote, after) ==
  before \o entry.key \o <<" ", "=", " ", quote>> \o entry.value
    \o <<quote>> \o after

Named(name) == Entry(<<"TWITCH_BOT_USERNAME">>, name)
Token(token) == Entry(<<"TWITCH_OAUTH_TOKEN">>, token)
Joins(channels) == Entry(<<"TWITCH_CHANNELS">>, channels)

Complete == << Named(<<"A">>), Token(<<"oauth:", "a", "a">>),
               Joins(<<"a", ",", "#", "b", ",", "A">>) >>

\* Nothing, all that is needed, or a second name and a path.
SomeEntries ==
  { << >>, Complete,
    Complete \o << Named(<<"b">>), Entry(<<"TWITCH_CONFIG_FILE">>, <<"f">>) >> }

SomeProcesses ==
  { << >>,
    (<<"TWITCH_BOT_USERNAME">> :> <<"b", "b">>)
      @@ (<<"TWITCH_CONFIG_FILE">> :> << >>) @@ (<<"HOME">> :> <<"a">>),
    (<<"TWITCH_BOT_USERNAME">> :> << >>),
    (<<"TWITCH_CHANNELS">> :> <<"b", ",">>)
      @@ (<<"TWITCH_LOG_RAW_IRC">> :> <<"no">>),
    (<<"TWITCH_LOG_RAW_IRC">> :> <<"a">>) }

Item(channel, contains, delay, cooldown) ==
  [ enabled |-> TRUE, sender |-> <<"A">>, channel |-> channel,
    contains |-> contains, response |-> <<"a">>,
    delaySeconds |-> delay, cooldownSeconds |-> cooldown ]

HypeItem(enabled, channel, gifts) ==
  [ enabled |-> enabled, channel |-> channel,
    subscriptionMessages |-> << <<"a">> >>, giftMessages |-> gifts,
    delaySeconds |-> None, cooldownSeconds |-> None ]

NoHype == HypeItem(FALSE, << >>, << >>)

Document(rules, hype) == [messageRules |-> rules, hype |-> hype]

Whole(number) == [type |-> "integer", val |-> number]

Float(halves, outside) == [type |-> "float", val |-> halves, outside |-> outside]

\* Ranges at their ends and beyond them, and beyond the int of 4 bits; a
\* boolean; fractions, two of them beyond int.
SomeSeconds ==
  {None} \cup {Whole(number) : number \in {-1, 0, 3, 4, 5, 6, 8, 18}}
         \cup {[type |-> "boolean", val |-> 1]}
         \cup {Float(-1, 0), Float(7, 0), Float(11, 0), Float(40, 2), Float(40, -8)}

SomeDocuments ==
  { None }
    \cup { Document(<<Item(None, <<"b">>, delay, cooldown)>>, NoHype) :
             delay \in SomeSeconds, cooldown \in SomeSeconds }
    \cup { Document(<<Item(channel, contains, Whole(1), Whole(1))>>, NoHype) :
             channel \in { <<"#", "B">>, <<"#", "#">> },
             contains \in { << >>, <<"b">>, <<"LF">>, <<"b", "b", "b">> } }
    \cup { Document(<< >>, HypeItem(enabled, channel, gifts)) :
             enabled \in BOOLEAN, channel \in { << >>, <<"#", "b">> },
             gifts \in { << >>, << <<"a">> >>, << <<"a">>, << >> >> } }
    \cup { Document(<< >>, [NoHype EXCEPT !.delaySeconds = seconds,
                                          !.cooldownSeconds = seconds]) :
             seconds \in SomeSeconds }

World(arguments, entries, lines, process, json) ==
  [ arguments |-> arguments, entries |-> entries, lines |-> lines,
    process |-> process, json |-> json ]

\* A comment before the entries.
Lines(entries) ==
  << <<"#", "a">> >> \o [i \in DOMAIN entries |-> Plain(entries[i])]

SomeText(symbols, longest) ==
  UNION {[1..n -> symbols] : n \in 0..longest}

Symbol == {"a", "A", "b", " ", ",", "#", "=", "\"", "oauth:"}

\* The line of an entry in single quotes, or exported in double quotes.
Written(entry, exported) ==
  IF exported THEN Quoted(entry, <<" ", "export", " ">>, "\"", <<" ", "CR">>)
              ELSE Quoted(entry, << >>, "'", << >>)

\* A line is added to a complete file.
Added(entry, exported) ==
  World(<< >>, Append(Complete, entry),
        Append(Lines(Complete), Written(entry, exported)), << >>,
        Document(<< >>, NoHype))

\* Every way to main's settings; every document; every text of a line.
SomeWorlds ==
  {World(arguments, entries, Lines(entries), process, json) :
     arguments \in SomeArguments, entries \in SomeEntries,
     process \in SomeProcesses, json \in {None, Document(<< >>, NoHype)}}
  \cup {World(arguments, Complete, Lines(Complete) \o more, << >>, json) :
          arguments \in { << >>, << <<"--check-config">> >> },
          more \in { << >>, << <<"a">> >> }, json \in SomeDocuments}
  \cup {Added(entry, exported) :
          exported \in BOOLEAN,
          entry \in {Joins(text) : text \in SomeText(Symbol, 4)}
                   \cup {Named(text) : text \in SomeText(Symbol, 3)}
                   \cup {Token(text) : text \in SomeText(Symbol \cup {"-"}, 3)}}

OnePlaceholder == { <<"a", "b">> }
=============================================================================
