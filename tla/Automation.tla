----------------------------- MODULE Automation -----------------------------
(***************************************************************************)
(* AutomationEngine (src/automation.cpp): the answers of one Session to    *)
(* chat messages and to subscription notices.  Each Session owns an        *)
(* engine, so the cooldowns and the rotation begin anew with a Session.    *)
(*                                                                         *)
(* A message is what parse_irc_message returns, without the tags other     *)
(* than msg-id.  Texts are sequences of symbols as in Names.               *)
(***************************************************************************)
EXTENDS Names

CONSTANTS
  Rules,           \* messageRules, as validated
  Hype,            \* hype, as validated
  Lines,           \* the messages the server sends to a ready Session
  MaxHandled,      \* bound: lines handled
  MaxTime,         \* bound: last instant of the clock
  MaxSessions      \* bound: sessions one after the other

\* What the configuration guarantees (RunningIsSound in Startup).
ASSUME SettingsAssumption == Usable(Rules, Hype)

\* An absent value is neither an instant nor one of the tags.
ASSUME NoneAssumption ==
  None \notin Int \cup {"sub", "resub", "subgift", "submysterygift"}

VARIABLES
  now,
  session,             \* number of the Session
  rule_last_sent,      \* rule_last_sent_
  hype_last_sent,      \* hype_last_sent_
  subscription_index,  \* subscription_index_, from 0
  gift_index,          \* gift_index_, from 0
  handled              \* history: the messages handled and the answers to each

engine == <<rule_last_sent, hype_last_sent, subscription_index, gift_index>>
vars == <<now, session, engine, handled>>

NothingSent == [i \in DOMAIN Rules |-> None]

Init ==
  /\ now = 0
  /\ session = 1
  /\ rule_last_sent = NothingSent
  /\ hype_last_sent = None
  /\ subscription_index = 0
  /\ gift_index = 0
  /\ handled = << >>

-----------------------------------------------------------------------------
\* The login before the `!' of a prefix.
SenderFromPrefix(prefix) ==
  IF HasWord(prefix, <<"!">>) THEN NormalizeLogin(Before(prefix, "!"))
                               ELSE Rejected

ChannelFromMessage(m) ==
  IF m.parameters = << >> THEN Rejected ELSE NormalizeChannel(m.parameters[1])

\* A line carries its known parts beside its wire form: where it was said
\* (room), and of a chat line with a text who wrote it (author) and what was
\* said; another chat line has no author.
ASSUME LinesAssumption ==
  \A m \in Lines :
    /\ m.room = ChannelFromMessage(m)
    /\ m.command = "PRIVMSG" =>
         IF Len(m.parameters) >= 2
         THEN /\ m.author = SenderFromPrefix(m.prefix)
              /\ m.said = m.parameters[Len(m.parameters)]
         ELSE m.author = << >>

\* last is recent enough to forbid another answer.
Cooling(last, cooldown) == last # None /\ now - last < cooldown

\* Mutant: the prefix need only begin with the sender.
Matches_Prefix(rule, m) ==
  LET channel == ChannelFromMessage(m)
      text == m.parameters[Len(m.parameters)]
  IN  /\ rule.enabled
      /\ SubSeq(SenderFromPrefix(m.prefix), 1, Len(rule.sender)) = rule.sender
      /\ rule.channel # None => rule.channel = channel
      /\ HasWord(text, rule.contains)

Matches(rule, m) ==
  LET channel == ChannelFromMessage(m)
      text == m.parameters[Len(m.parameters)]
  IN  /\ rule.enabled
      /\ rule.sender = SenderFromPrefix(m.prefix)
      /\ rule.channel # None => rule.channel = channel
      /\ HasWord(text, rule.contains)

\* The cause of an answer is the index of its rule, or a notice.
Notice == 0

Answer(cause, channel, text, delay) ==
  [cause |-> cause, channel |-> channel, text |-> text, due |-> now + delay]

Handled(m, answers) ==
  handled' = Append(handled, [session |-> session, time |-> now,
                              message |-> m, answers |-> answers])

\* The rule answers the line now.
Fires(i, m) ==
  /\ Len(m.parameters) >= 2
  /\ SenderFromPrefix(m.prefix) # Rejected
  /\ ChannelFromMessage(m) # Rejected
  /\ Matches(Rules[i], m)
  /\ ~Cooling(rule_last_sent[i], Rules[i].cooldown)

\* handle_privmsg: every rule that matches and is not cooling down answers, in
\* the order of the configuration.
HandlePrivmsg(m) ==
  LET answer(i) == Answer(i, ChannelFromMessage(m), Rules[i].response,
                          Rules[i].delay)
      output[i \in 0..Len(Rules)] ==
        IF i = 0 THEN << >>
        ELSE IF Fires(i, m) THEN Append(output[i - 1], answer(i))
        ELSE output[i - 1]
  IN  /\ rule_last_sent' = [i \in DOMAIN Rules |->
                              IF Fires(i, m) THEN now ELSE rule_last_sent[i]]
      /\ Handled(m, output[Len(Rules)])
      /\ UNCHANGED <<now, session, hype_last_sent, subscription_index,
                     gift_index>>

\* The rotation moves on by one.
Following(index, list) == (index + 1) % Len(list)

\* A notice the engine answers, unless it is cooling down.
Hypes(m) ==
  /\ Hype.enabled
  /\ ChannelFromMessage(m) = Hype.channel
  /\ m.event # None

\* Mutant: one index serves both lists.
HypeAnswer_OneIndex(m) ==
  \/ /\ m.event \in {"sub", "resub"}
     /\ Handled(m, <<Answer(Notice, Hype.channel,
                            Hype.subscription_messages[subscription_index + 1],
                            Hype.delay)>>)
     /\ subscription_index' =
          Following(subscription_index, Hype.subscription_messages)
     /\ UNCHANGED gift_index
  \/ /\ m.event \in {"subgift", "submysterygift"}
     /\ Handled(m, <<Answer(Notice, Hype.channel,
                            Hype.gift_messages[
                              (subscription_index % Len(Hype.gift_messages)) + 1],
                            Hype.delay)>>)
     /\ subscription_index' =
          Following(subscription_index, Hype.subscription_messages)
     /\ UNCHANGED gift_index

HypeAnswer(m) ==
  \/ /\ m.event \in {"sub", "resub"}
     /\ Handled(m, <<Answer(Notice, Hype.channel,
                            Hype.subscription_messages[subscription_index + 1],
                            Hype.delay)>>)
     /\ subscription_index' =
          Following(subscription_index, Hype.subscription_messages)
     /\ UNCHANGED gift_index
  \/ /\ m.event \in {"subgift", "submysterygift"}
     /\ Handled(m, <<Answer(Notice, Hype.channel,
                            Hype.gift_messages[gift_index + 1], Hype.delay)>>)
     /\ gift_index' = Following(gift_index, Hype.gift_messages)
     /\ UNCHANGED subscription_index

\* Mutant: an event of another kind starts the cooldown too.
HandleUsernotice_AnyEvent(m) ==
  /\ IF Hypes(m) /\ ~Cooling(hype_last_sent, Hype.cooldown)
     THEN /\ hype_last_sent' = now
          /\ \/ HypeAnswer(m)
             \/ /\ m.event = "raid"
                /\ Handled(m, << >>)
                /\ UNCHANGED <<subscription_index, gift_index>>
     ELSE /\ Handled(m, << >>)
          /\ UNCHANGED <<hype_last_sent, subscription_index, gift_index>>
  /\ UNCHANGED <<now, session, rule_last_sent>>

\* handle_usernotice: one cooldown for both kinds of event; any other event
\* leaves no trace.
HandleUsernotice(m) ==
  /\ IF /\ Hypes(m)
        /\ ~Cooling(hype_last_sent, Hype.cooldown)
        /\ m.event \in {"sub", "resub", "subgift", "submysterygift"}
     THEN HypeAnswer(m) /\ hype_last_sent' = now
     ELSE /\ Handled(m, << >>)
          /\ UNCHANGED <<hype_last_sent, subscription_index, gift_index>>
  /\ UNCHANGED <<now, session, rule_last_sent>>

Handle(m) ==
  /\ Len(handled) < MaxHandled
  /\ \/ m.command = "PRIVMSG" /\ HandlePrivmsg(m)
     \/ m.command = "USERNOTICE" /\ HandleUsernotice(m)
     \/ /\ m.command \notin {"PRIVMSG", "USERNOTICE"}
        /\ Handled(m, << >>)
        /\ UNCHANGED <<now, session, engine>>

\* The client has connected again.
NewSession ==
  /\ session < MaxSessions
  /\ session' = session + 1
  /\ rule_last_sent' = NothingSent
  /\ hype_last_sent' = None
  /\ subscription_index' = 0
  /\ gift_index' = 0
  /\ UNCHANGED <<now, handled>>

Tick ==
  /\ now < MaxTime
  /\ now' = now + 1
  /\ UNCHANGED <<session, engine, handled>>

Next ==
  \/ \E m \in Lines : Handle(m)
  \/ NewSession
  \/ Tick

Spec == Init /\ [][Next]_vars

-----------------------------------------------------------------------------
AnsweredFor(n, cause) ==
  \E k \in DOMAIN handled[n].answers : handled[n].answers[k].cause = cause

\* An earlier line of the same Session was answered for the same cause less
\* than `cooldown' ago.
Recently(n, cause, cooldown) ==
  \E p \in 1..(n - 1) :
    /\ handled[p].session = handled[n].session
    /\ handled[n].time - handled[p].time < cooldown
    /\ AnsweredFor(p, cause)

\* A chat line is answered, in the channel it came from, by exactly the
\* enabled rules whose sender is the author to the letter, whose channel is
\* the channel if they have one, whose trigger stands in the text, and which
\* have answered nothing of this Session within their cooldown
\* (README.md:118).  The reference reads the line by its known parts and the
\* past from the history.
RulesExact ==
  \A n \in DOMAIN handled :
    LET m == handled[n].message IN
    /\ \A i \in DOMAIN Rules :
         AnsweredFor(n, i) <=>
           /\ m.command = "PRIVMSG"
           /\ Rules[i].enabled
           /\ m.author = Rules[i].sender
           /\ Rules[i].channel \in {None, m.room}
           /\ m.room # << >>
           /\ HasWord(m.said, Rules[i].contains)
           /\ ~Recently(n, i, Rules[i].cooldown)
    /\ \A k \in DOMAIN handled[n].answers :
         handled[n].answers[k].channel = m.room

Subscriptions == {"sub", "resub"}
Gifts == {"subgift", "submysterygift"}

\* Subscriptions and gifts share one cooldown, and nothing but an answer
\* starts it: a notice is answered exactly when its Session has answered
\* none within the cooldown, whatever other notices came in between.
HypeExact ==
  \A n \in DOMAIN handled :
    LET m == handled[n].message IN
      (AnsweredFor(n, Notice) <=>
         /\ m.command = "USERNOTICE"
         /\ Hype.enabled
         /\ m.room = Hype.channel
         /\ m.event \in Subscriptions \cup Gifts
         /\ ~Recently(n, Notice, Hype.cooldown))

\* The number of notices of these kinds answered in the Session of line n up
\* to line n.
Turn(n, events) ==
  Cardinality({p \in 1..n : /\ handled[p].session = handled[n].session
                            /\ handled[p].message.event \in events
                            /\ AnsweredFor(p, Notice)})

InTurn(list, turn) == list[((turn - 1) % Len(list)) + 1]

\* The two lists rotate independently (README.md:135): the k-th subscription
\* answered in a Session gets the k-th message of its list, round and round,
\* however many gifts came in between, and the other way round.
RotatesIndependently ==
  \A n \in DOMAIN handled :
    LET event == handled[n].message.event
        text  == handled[n].answers[1].text
    IN  AnsweredFor(n, Notice) =>
          /\ event \in Subscriptions =>
               text = InTurn(Hype.subscription_messages, Turn(n, Subscriptions))
          /\ event \in Gifts =>
               text = InTurn(Hype.gift_messages, Turn(n, Gifts))
=============================================================================
