-------------------------------- MODULE Names --------------------------------
(***************************************************************************)
(* Login and channel names (trim, normalize_login and normalize_channel of *)
(* src/config.cpp), used by the configuration and by the automation.       *)
(*                                                                         *)
(* Two letters and the underscore stand for what may stand in a login.     *)
(***************************************************************************)
EXTENDS Text

CONSTANTS
  None,            \* an absent value
  MaxLogin         \* length of the longest login (25 in the code)

ASSUME NamesAssumption == MaxLogin \in Nat \ {0}

LoginSymbol == {"a", "b", "_"}

\* The operators below return << >>, which is not a login, when the code
\* throws.
Rejected == << >>

Login == {login \in Seq(LoginSymbol) : Len(login) \in 1..MaxLogin}

NormalizeLogin(value) ==
  LET result == ToLower(Trim(value))
  IN  IF /\ Len(result) \in 1..MaxLogin
         /\ \A i \in DOMAIN result : result[i] \in LoginSymbol
      THEN result ELSE Rejected

NormalizeChannel(value) ==
  LET result == Trim(value)
  IN  NormalizeLogin(IF StartsWith(result, "#") THEN Tail(result) ELSE result)

-----------------------------------------------------------------------------
\* The settings the automation can work with: what the configuration promises
\* and the engine relies on without looking.
Usable(rules, hype) ==
  /\ IsList(rules)
  /\ IsList(hype.subscription_messages) /\ IsList(hype.gift_messages)
  /\ \A i \in DOMAIN rules :
       /\ rules[i].enabled \in BOOLEAN
       /\ rules[i].sender \in Login
       /\ rules[i].channel # None => rules[i].channel \in Login
       /\ rules[i].contains # << >>
       /\ {rules[i].delay, rules[i].cooldown} \subseteq Nat
  /\ hype.enabled => /\ hype.channel \in Login
                     /\ hype.subscription_messages # << >>
                     /\ hype.gift_messages # << >>
  /\ {hype.delay, hype.cooldown} \subseteq Nat
=============================================================================
