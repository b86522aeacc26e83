---------------------------- MODULE Configuration ----------------------------
(***************************************************************************)
(* Reading and validating the configuration (src/config.cpp): the lines of *)
(* an .env file, the process environment over it, the login, the token and *)
(* the channels, and the settings of the automation.                       *)
(*                                                                         *)
(* << >> and Failed stand for an exception; main catches every one alike,  *)
(* so their order and their texts are left out.                            *)
(***************************************************************************)
EXTENDS Names

CONSTANTS
  MaxChannels,     \* 100 in the code
  MinToken,        \* 10 in the code
  MaxToken,        \* longest token whose PASS line can be encoded
  Placeholders,    \* tokens of the examples
  MaxContains,     \* 400 in the code
  MaxResponse,     \* 450 in the code
  MaxDelay,        \* 3600 in the code
  MaxCooldown,     \* 86400 in the code
  MaxInt           \* greatest int (2^31 - 1 in the build)

ASSUME ConfigurationAssumption ==
  /\ {MaxChannels, MinToken, MaxContains, MaxResponse} \subseteq Nat \ {0}
  /\ {MaxToken, MaxDelay, MaxCooldown, MaxInt} \subseteq Nat
  /\ MaxDelay <= MaxInt /\ MaxCooldown <= MaxInt
  /\ None \notin Int

Failed == [ok |-> FALSE]

-----------------------------------------------------------------------------
\* A value without the quotes around it.
Unquote(entry) ==
  LET n == Len(entry) IN
  IF n >= 2 /\ entry[1] = entry[n] /\ entry[1] \in {"\"", "'"}
  THEN SubSeq(entry, 2, n - 1) ELSE entry

EntryValue(text) == Unquote(Trim(text))

\* One line of an .env file: nothing, an entry or an error.
EnvLine(line) ==
  LET value == Trim(line)
      entry == IF Len(value) >= 2 /\ value[1] = "export" /\ value[2] = " "
               THEN Trim(SubSeq(value, 3, Len(value))) ELSE value
  IN  CASE value = << >> \/ StartsWith(value, "#") -> << >>
        [] OTHER -> IF ~Has(entry, {"="}) \/ StartsWith(entry, "=")
                    THEN <<Failed>>
                    ELSE <<[ ok    |-> TRUE,
                             key   |-> Trim(Before(entry, "=")),
                             value |-> EntryValue(After(entry, "=")) ]>>

\* load_env_file, of the lines of the file: the last entry of a key stands.
LoadEnvFile(lines) ==
  LET entries == {i \in DOMAIN lines : EnvLine(lines[i]) # << >>}
      entry(i) == EnvLine(lines[i])[1]
      last(key) == CHOOSE i \in entries :
                     /\ entry(i).key = key
                     /\ \A j \in entries : entry(j).key = key => j <= i
  IN  IF \E i \in entries : ~entry(i).ok THEN Failed
      ELSE [ ok |-> TRUE,
             environment |-> [key \in {entry(i).key : i \in entries} |->
                                entry(last(key)).value] ]

Keys ==
  { <<"TWITCH_BOT_USERNAME">>, <<"TWITCH_OAUTH_TOKEN">>, <<"TWITCH_CHANNELS">>,
    <<"TWITCH_CONFIG_FILE">>, <<"TWITCH_LOG_RAW_IRC">> }

\* Mutant: the file overrides the process.
Overlay_FileWins(base, process) ==
  [key \in DOMAIN base \cup (DOMAIN process \cap Keys) |->
     IF key \in DOMAIN base THEN base[key] ELSE process[key]]

\* overlay_process_environment.
Overlay(base, process) ==
  [key \in DOMAIN base \cup (DOMAIN process \cap Keys) |->
     IF key \in DOMAIN process \cap Keys THEN process[key] ELSE base[key]]

\* The value of a variable, << >> when there is none.
Get(environment, key) ==
  IF key \in DOMAIN environment THEN Trim(environment[key]) ELSE << >>

-----------------------------------------------------------------------------
\* Letters and digits, the underscore and the dash.
TokenSymbol == LoginSymbol \cup DOMAIN Small \cup {"-"}

\* The token with its prefix, once.
NormalizeOauthToken(value) ==
  LET given == Trim(value)
      token == IF StartsWith(given, "oauth:") THEN Tail(given) ELSE given
  IN  IF \/ token \in Placeholders
         \/ Len(token) \notin MinToken..MaxToken
         \/ \E i \in DOMAIN token : token[i] \notin TokenSymbol
      THEN Rejected ELSE <<"oauth:">> \o token

\* std::getline with a comma: an item ends before a comma and at the end of
\* the text, but nothing follows a comma at the end.
EndsItem(text, p) ==
  IF p <= Len(text) THEN text[p] = ","
  ELSE text # << >> /\ text[Len(text)] # ","

Items(text) ==
  LET n == Len(text)
      items[p \in 0..(n + 1)] ==
        IF p = 0 THEN << >>
        ELSE IF EndsItem(text, p)
             THEN Append(items[p - 1], PartBefore(text, ",", p))
             ELSE items[p - 1]
  IN  items[n + 1]

\* Every element where it comes first.
Once(list) ==
  LET seen[n \in 0..Len(list)] ==
        IF n = 0 THEN << >>
        ELSE IF \E i \in DOMAIN seen[n - 1] : seen[n - 1][i] = list[n]
             THEN seen[n - 1] ELSE Append(seen[n - 1], list[n])
  IN  seen[Len(list)]

Channels(names) ==
  IF \/ Len(names) \notin 1..MaxChannels
     \/ \E i \in DOMAIN names : names[i] = Rejected
  THEN Rejected ELSE names

\* Mutant: names are compared before they are normalised.
ParseChannels_RawOnce(text) ==
  LET items == Once(Items(text))
  IN  Channels([i \in DOMAIN items |-> NormalizeChannel(items[i])])

\* The channels of TWITCH_CHANNELS: each once, in the order they come.
ParseChannels(text) ==
  LET items == Items(text)
  IN  Channels(Once([i \in DOMAIN items |-> NormalizeChannel(items[i])]))

\* TWITCH_LOG_RAW_IRC may be left out or empty.  A word stands for its
\* spellings in capital and small letters.
LogOn(text) == text \in {<<"true">>, <<"1">>, <<"yes">>}

LogValid(text) ==
  LogOn(text) \/ text \in {<< >>, <<"false">>, <<"0">>, <<"no">>}

-----------------------------------------------------------------------------
Ints == -(MaxInt + 1)..MaxInt

\* What json::get<int> converts: an integer, a boolean (0 or 1), or a number
\* with a fraction, in halves.  For one of these that int cannot hold the cast
\* is undefined; `outside' is what the build makes of it.
IsNumber(number) ==
  \/ number.type = "integer" /\ number.val \in Int
  \/ number.type = "boolean" /\ number.val \in {0, 1}
  \/ number.type = "float" /\ number.val \in Int /\ number.outside \in Ints

Truncated(halves) ==
  IF halves >= 0 THEN halves \div 2 ELSE -((-halves) \div 2)

\* json::get<int> casts: an integer keeps its low bits, a boolean is a number,
\* and a fraction is dropped.
GetInt(number) ==
  LET modulus == 2 * (MaxInt + 1)
      low == number.val % modulus
      whole == Truncated(number.val)
  IN  CASE number.type = "integer" ->
             IF low <= MaxInt THEN low ELSE low - modulus
        [] number.type = "boolean" -> number.val
        [] number.type = "float" ->
             IF whole \in Ints THEN whole ELSE number.outside

\* A number of seconds, -1 when it is out of range.
ReadSeconds(value, default, maximum) ==
  LET seconds == IF value = None THEN default ELSE GetInt(value)
  IN  IF seconds \in 0..maximum THEN seconds ELSE -1

Sound(text, longest) ==
  Len(text) \in 1..longest /\ ~Has(text, {"CR", "LF"})

\* One message rule as parse_bot_settings reads it.
ReadRule(item) ==
  [ enabled  |-> item.enabled,
    sender   |-> NormalizeLogin(item.sender),
    channel  |-> IF item.channel = None THEN None
                 ELSE NormalizeChannel(item.channel),
    contains |-> item.contains,
    response |-> item.response,
    delay    |-> ReadSeconds(item.delaySeconds, 0, MaxDelay),
    cooldown |-> ReadSeconds(item.cooldownSeconds, 0, MaxCooldown) ]

RuleValid(rule) ==
  /\ rule.sender # Rejected
  /\ rule.channel = None \/ rule.channel # Rejected
  /\ Sound(rule.contains, MaxContains)
  /\ Sound(rule.response, MaxResponse)
  /\ rule.delay >= 0 /\ rule.cooldown >= 0

ReadHype(item) ==
  [ enabled  |-> item.enabled,
    channel  |-> IF item.channel = << >> THEN << >>
                 ELSE NormalizeChannel(item.channel),
    subscription_messages |-> item.subscriptionMessages,
    gift_messages         |-> item.giftMessages,
    delay    |-> ReadSeconds(item.delaySeconds, 1, MaxDelay),
    cooldown |-> ReadSeconds(item.cooldownSeconds, 2, MaxCooldown) ]

\* Mutant: one list is enough.
HypeComplete_OneList(hype) ==
  /\ hype.channel # << >>
  /\ hype.subscription_messages # << >> \/ hype.gift_messages # << >>

\* What an enabled hype must have.
HypeComplete(hype) ==
  /\ hype.channel # << >>
  /\ hype.subscription_messages # << >>
  /\ hype.gift_messages # << >>

HypeValid(item, hype) ==
  /\ item.channel # << >> => hype.channel # Rejected
  /\ \A list \in {hype.subscription_messages, hype.gift_messages} :
       \A i \in DOMAIN list : Sound(list[i], MaxResponse)
  /\ hype.delay >= 0 /\ hype.cooldown >= 0
  /\ hype.enabled => HypeComplete(hype)

\* parse_bot_settings, of a document that is an object.
ParseBotSettings(json) ==
  LET rules == [i \in DOMAIN json.messageRules |->
                  ReadRule(json.messageRules[i])]
      hype == ReadHype(json.hype)
  IN  IF /\ \A i \in DOMAIN rules : RuleValid(rules[i])
         /\ HypeValid(json.hype, hype)
      THEN [ok |-> TRUE, rules |-> rules, hype |-> hype]
      ELSE Failed

\* parse_runtime_config.
ParseRuntimeConfig(environment, json) ==
  LET username == NormalizeLogin(Get(environment, <<"TWITCH_BOT_USERNAME">>))
      token == NormalizeOauthToken(Get(environment, <<"TWITCH_OAUTH_TOKEN">>))
      channels == ParseChannels(Get(environment, <<"TWITCH_CHANNELS">>))
      bot == ParseBotSettings(json)
  IN  IF \/ Rejected \in {username, token, channels}
         \/ ~LogValid(Get(environment, <<"TWITCH_LOG_RAW_IRC">>))
         \/ ~bot.ok
      THEN Failed
      ELSE [ ok |-> TRUE, username |-> username, oauth_token |-> token,
             channels |-> channels,
             log_raw_irc |-> LogOn(Get(environment, <<"TWITCH_LOG_RAW_IRC">>)),
             rules |-> bot.rules, hype |-> bot.hype ]
=============================================================================
