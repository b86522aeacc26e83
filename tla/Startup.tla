------------------------------- MODULE Startup -------------------------------
(***************************************************************************)
(* main (src/main.cpp): options, .env file, process environment, choice    *)
(* and validation of the configuration file, and then either the end or    *)
(* TwitchIrcClient.  What is outside - the arguments, the files and the    *)
(* variables - is a world; the outcome of the client is any.               *)
(***************************************************************************)
EXTENDS Configuration

CONSTANTS
  Worlds,          \* records: arguments, a sequence of texts; lines of the
                   \* .env file, none if it is missing; process, a function
                   \* from names to texts; json, an object, or None for a file
                   \* that is not one; and, for the properties only, entries,
                   \* the names and values the lines were written for
  DefaultEnv,
  DefaultConfig    \* the two paths taken when none is given

ASSUME StartupAssumption == DefaultConfig # << >>

\* The members of a document have types that the library converts to those it
\* is asked for.
WellTyped(json) ==
  /\ IsList(json.messageRules)
  /\ \A i \in DOMAIN json.messageRules :
       LET item == json.messageRules[i] IN
       /\ item.enabled \in BOOLEAN
       /\ IsList(item.sender) /\ IsList(item.contains) /\ IsList(item.response)
       /\ item.channel # None => IsList(item.channel)
       /\ \A number \in {item.delaySeconds, item.cooldownSeconds} :
            number # None => IsNumber(number)
  /\ json.hype.enabled \in BOOLEAN
  /\ IsList(json.hype.channel)
  /\ IsList(json.hype.subscriptionMessages) /\ IsList(json.hype.giftMessages)
  /\ \A number \in {json.hype.delaySeconds, json.hype.cooldownSeconds} :
       number # None => IsNumber(number)

\* What is outside consists of texts, and of documents of these types: for
\* others the JSON library throws, and main fails as it does without one.
ASSUME WorldsAssumption ==
  \A w \in Worlds :
    /\ IsList(w.arguments)
    /\ IsList(w.lines) /\ \A i \in DOMAIN w.lines : IsList(w.lines[i])
    /\ \A key \in DOMAIN w.process : IsList(w.process[key])
    /\ w.json # None => WellTyped(w.json)

VARIABLES
  stage,           \* how far main has come
  exit_code,
  options,
  environment,
  config_path,
  config,
  world            \* what main finds; never changed

vars == <<stage, exit_code, options, environment, config_path, config, world>>

Options == [env_file |-> DefaultEnv, config_file |-> << >>,
            check_config |-> FALSE, help |-> FALSE]

Init ==
  /\ stage = "options"
  /\ exit_code = 0
  /\ options = Options
  /\ environment = << >>
  /\ config_path = << >>
  /\ config = Failed
  /\ world \in Worlds

-----------------------------------------------------------------------------
TakesPath == {<<"--env">>, <<"--config">>}
Flags == {<<"--check-config">>, <<"--help">>, <<"-h">>}

WithPath(taken, argument, path) ==
  IF argument = <<"--env">> THEN [taken EXCEPT !.env_file = path]
                            ELSE [taken EXCEPT !.config_file = path]

WithFlag(taken, argument) ==
  IF argument = <<"--check-config">> THEN [taken EXCEPT !.check_config = TRUE]
                                     ELSE [taken EXCEPT !.help = TRUE]

\* Mutant: the value of an option is looked at as an option too.
ParseOptions_NoSkip(arguments) ==
  LET n == Len(arguments)
      parsed[i \in 0..n] ==
        IF i = 0 THEN [ok |-> TRUE, options |-> Options]
        ELSE LET before == parsed[i - 1]
                 argument == arguments[i]
             IN  CASE argument \in TakesPath ->
                        [ ok |-> before.ok /\ i < n,
                          options |-> IF i = n THEN before.options
                                      ELSE WithPath(before.options, argument,
                                                    arguments[i + 1]) ]
                   [] argument \in Flags ->
                        [before EXCEPT !.options = WithFlag(@, argument)]
                   [] OTHER -> before
  IN  parsed[n]

\* parse_options: the options of the first i arguments, and whether the last
\* of them waits for its path.
ParseOptions(arguments) ==
  LET n == Len(arguments)
      parsed[i \in 0..n] ==
        IF i = 0 THEN [ok |-> TRUE, waits |-> FALSE, options |-> Options]
        ELSE LET before == parsed[i - 1]
                 argument == arguments[i]
             IN  CASE before.waits ->
                        [before EXCEPT
                           !.waits = FALSE,
                           !.options = WithPath(@, arguments[i - 1], argument)]
                   [] ~before.waits /\ argument \in TakesPath ->
                        [before EXCEPT !.waits = TRUE]
                   [] ~before.waits /\ argument \in Flags ->
                        [before EXCEPT !.options = WithFlag(@, argument)]
                   [] OTHER -> [before EXCEPT !.ok = FALSE]
  IN  [ok |-> parsed[n].ok /\ ~parsed[n].waits, options |-> parsed[n].options]

\* Any exception: a message, and main returns 1.
Fail == stage' = "failed" /\ exit_code' = 1

ReadOptions ==
  LET parsed == ParseOptions(world.arguments) IN
  /\ stage = "options"
  /\ options' = parsed.options
  /\ CASE ~parsed.ok -> Fail
       [] parsed.ok /\ parsed.options.help ->
            stage' = "helped" /\ UNCHANGED exit_code
       [] OTHER -> stage' = "environment" /\ UNCHANGED exit_code
  /\ UNCHANGED <<environment, config_path, config, world>>

LoadEnvironment ==
  LET loaded == LoadEnvFile(world.lines) IN
  /\ stage = "environment"
  /\ IF loaded.ok
     THEN /\ environment' = Overlay(loaded.environment, world.process)
          /\ stage' = "configuration"
          /\ UNCHANGED exit_code
     ELSE Fail /\ UNCHANGED environment
  /\ UNCHANGED <<options, config_path, config, world>>

ConfigPath ==
  LET key == <<"TWITCH_CONFIG_FILE">> IN
  CASE options.config_file # << >> -> options.config_file
    [] /\ options.config_file = << >>
       /\ key \in DOMAIN environment
       /\ environment[key] # << >> -> environment[key]
    [] OTHER -> DefaultConfig

ReadConfiguration ==
  LET parsed == IF world.json = None THEN Failed
                ELSE ParseRuntimeConfig(environment, world.json)
  IN  /\ stage = "configuration"
      /\ config_path' = ConfigPath
      /\ config' = parsed
      /\ CASE ~parsed.ok -> Fail
           [] parsed.ok /\ options.check_config ->
                stage' = "checked" /\ UNCHANGED exit_code
           [] OTHER -> stage' = "running" /\ UNCHANGED exit_code
      /\ UNCHANGED <<options, environment, world>>

\* The client is made, started and run (TwitchIrcClient); its constructor may
\* throw, and main returns its exit code.
RunClient ==
  /\ stage = "running"
  /\ \/ Fail
     \/ \E code \in {0, 1} : stage' = "ended" /\ exit_code' = code
  /\ UNCHANGED <<options, environment, config_path, config, world>>

Terminated ==
  /\ stage \in {"helped", "failed", "checked", "ended"}
  /\ UNCHANGED vars

Next ==
  \/ ReadOptions
  \/ LoadEnvironment
  \/ ReadConfiguration
  \/ RunClient
  \/ Terminated

Spec == Init /\ [][Next]_vars

-----------------------------------------------------------------------------
\* The positions of the argument that are options, not the path of the option
\* before: an even number of words that take a path stand right before it.
IsOption(arguments, i) ==
  LET start == CHOOSE s \in 1..i :
                 /\ s = 1 \/ arguments[s - 1] \notin TakesPath
                 /\ \A j \in s..(i - 1) : arguments[j] \in TakesPath
  IN  (i - start) % 2 = 0

\* The last path given for an option, << >> if there is none.
PathGiven(arguments, option) ==
  LET places == {i \in 1..(Len(arguments) - 1) :
                   arguments[i] = option /\ IsOption(arguments, i)}
  IN  IF places = {} THEN << >>
      ELSE arguments[1 + CHOOSE i \in places : \A j \in places : j <= i]

\* With --check-config the bot validates and never connects, and without it
\* it does not end as if it had (README.md:62); a word that is the path of
\* another option does not count.
CheckIsDry ==
  LET arguments == world.arguments
      asked == \E i \in DOMAIN arguments :
                 arguments[i] = <<"--check-config">> /\ IsOption(arguments, i)
  IN  /\ stage = "checked" => asked
      /\ stage \in {"running", "ended"} => ~asked

\* What was written for a key: in the process, or else in the .env file, whose
\* last entry for the key counts.
Supplied(key) ==
  LET places == {i \in DOMAIN world.entries : world.entries[i].key = key}
  IN  CASE key \in DOMAIN world.process -> world.process[key]
        [] key \notin DOMAIN world.process /\ places # {} ->
             world.entries[CHOOSE i \in places : \A j \in places : j <= i].value
        [] OTHER -> << >>

\* A variable of the process overrides the entry of the .env file, even when
\* it is empty, and of two entries the later one stands (README.md:105); a
\* value in quotes comes out as it was written, its blanks, quotes and equals
\* signs included, with or without `export' and CR; and the configuration is
\* the file named by the option, the variable or the default, in this order.
EnvironmentWins ==
  LET option == PathGiven(world.arguments, <<"--config">>)
      variable == Supplied(<<"TWITCH_CONFIG_FILE">>)
      paths == SelectSeq(<<option, variable, DefaultConfig>>,
                         LAMBDA path : path # << >>)
  IN  /\ stage = "configuration" =>
           \A key \in Keys :
             Supplied(key) = IF key \in DOMAIN environment THEN environment[key]
                             ELSE << >>
      /\ stage \in {"checked", "running"} => config_path = paths[1]

\* Everything in the text outside the positions i to j is blank.
Surrounded(text, i, j) == \A k \in DOMAIN text \ (i..j) : text[k] \in Blank

IsLogin(text, login) ==
  \E i, j \in DOMAIN text :
    /\ Surrounded(text, i, j)
    /\ ToLower(SubSeq(text, i, j)) = login

IsChannel(text, login) ==
  \/ IsLogin(text, login)
  \/ \E k \in DOMAIN text :
       /\ text[k] = "#"
       /\ \A i \in 1..(k - 1) : text[i] \in Blank
       /\ IsLogin(SubSeq(text, k + 1, Len(text)), login)

\* The parts of a text between commas; a comma may end it.
Parts(text) ==
  LET begins == {i \in DOMAIN text : /\ i = 1 \/ text[i - 1] = ","
                                    /\ ~Surrounded(text, 1, i - 1)}
  IN  {SubSeq(text, i, Find(text, ",", i) - 1) : i \in begins}

\* The bot is who it was told to be: its name is the one supplied but for case
\* and blanks, its token has the prefix once whether or not it was supplied
\* (README.md:103), and it joins each of the channels supplied exactly once,
\* whatever their spelling, and no other.
AsSupplied ==
  stage \in {"checked", "running"} =>
    LET token == Supplied(<<"TWITCH_OAUTH_TOKEN">>)
        parts == Parts(Supplied(<<"TWITCH_CHANNELS">>))
        joined == {config.channels[i] : i \in DOMAIN config.channels}
    IN  /\ IsLogin(Supplied(<<"TWITCH_BOT_USERNAME">>), config.username)
        /\ \E i, j \in DOMAIN token :
             /\ Surrounded(token, i, j)
             /\ config.oauth_token \in
                  {SubSeq(token, i, j), <<"oauth:">> \o SubSeq(token, i, j)}
        /\ {i \in DOMAIN config.oauth_token :
              config.oauth_token[i] = "oauth:"} = {1}
        /\ \A part \in parts : \E channel \in joined : IsChannel(part, channel)
        /\ \A channel \in joined : \E part \in parts : IsChannel(part, channel)
        /\ Cardinality(joined) = Len(config.channels)

\* The seconds are those that were written, without a fraction.  An integer
\* that int cannot hold may count as another, because it is converted before
\* its range is checked, but only as one with the same low bits.
AsWritten(written, seconds) ==
  written # None =>
    IF written.type = "float"
    THEN written.val \in 0..(2 * MaxInt + 1) =>
           written.val - 2 * seconds \in {0, 1}
    ELSE written.val % (2 * (MaxInt + 1)) = seconds

\* Whatever the files and the variables hold, a bot that runs has what the
\* other parts rely on without looking: settings the automation can work
\* with, channels to join, responses that fit in a line, and the delays and
\* cooldowns that were written (README.md:26, "validated environment and JSON
\* configuration").
RunningIsSound ==
  stage = "running" =>
    LET channels == {config.channels[i] : i \in DOMAIN config.channels} IN
    /\ config.username \in Login
    /\ channels # {} /\ channels \subseteq Login
    /\ Cardinality(channels) <= MaxChannels
    /\ Usable(config.rules, config.hype)
    /\ \A i \in DOMAIN config.rules :
         LET written == world.json.messageRules[i] IN
         /\ Sound(config.rules[i].response, MaxResponse)
         /\ AsWritten(written.delaySeconds, config.rules[i].delay)
         /\ AsWritten(written.cooldownSeconds, config.rules[i].cooldown)
    /\ \A i \in DOMAIN config.hype.gift_messages :
         Sound(config.hype.gift_messages[i], MaxResponse)
    /\ AsWritten(world.json.hype.delaySeconds, config.hype.delay)
    /\ AsWritten(world.json.hype.cooldownSeconds, config.hype.cooldown)
=============================================================================
