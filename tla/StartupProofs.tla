---------------------------- MODULE StartupProofs ----------------------------
(***************************************************************************)
(* Theorems about Startup, for every world and every limit: --check-config *)
(* never ends in a client, and no client ever runs without it; and what    *)
(* runs is sound, so that the settings Automation assumes are the settings *)
(* it gets.  The argument follows a text through the functions of          *)
(* config.cpp: each returns a text of its kind, or rejects.                *)
(***************************************************************************)
EXTENDS Startup, Foundations

-----------------------------------------------------------------------------
\* A list without its first element is a list.
LEMMA TailIsList ==
  ASSUME NEW text, IsList(text), text # << >>
  PROVE  IsList(Tail(text))
PROOF
  <1>1. PICK T : T = {text[i] : i \in DOMAIN text}
    OBVIOUS
  <1>2. text \in Seq(T)
    BY <1>1 DEF IsList
  <1>3. Tail(text) \in Seq(T)
    BY <1>2, HeadTailProperties
  <1> QED
    BY <1>3, ListOf

-----------------------------------------------------------------------------
\* What is trimmed, unquoted or cut is a list.
LEMMA TrimIsList ==
  ASSUME NEW text, IsList(text)
  PROVE  IsList(Trim(text))
PROOF
  <1> DEFINE kept == {i \in DOMAIN text : text[i] \notin Blank}
             first == CHOOSE i \in kept : \A j \in kept : i <= j
             last == CHOOSE i \in kept : \A j \in kept : j <= i
  <1>1. CASE kept = {}
    <2>1. Trim(text) = << >>
      BY <1>1 DEF Trim
    <2> QED
      BY <2>1, EmptyIsList
  <1>2. CASE kept # {}
    <2>1. kept \in SUBSET (1..Len(text)) /\ Len(text) \in Nat
      BY ListMeaning
    <2>2. kept \in SUBSET Nat
      BY <2>1
    <2>3. \E i \in kept : \A j \in kept : i <= j
      <3> HIDE DEF kept
      <3> QED
        BY <1>2, <2>2, LeastNumber
    <2>4. \E i \in kept : \A j \in kept : j <= i
      <3> HIDE DEF kept
      <3> QED
        BY <1>2, <2>1, GreatestNumber
    <2>5. first \in kept /\ last \in kept
      <3> HIDE DEF kept
      <3> QED
        BY <2>3, <2>4
    <2>6. first \in Int /\ last \in Int
      <3> HIDE DEF first, last, kept
      <3> QED
        BY <2>1, <2>5
    <2>7. Trim(text) = SubSeq(text, first, last)
      BY <1>2 DEF Trim
    <2> HIDE DEF first, last
    <2> QED
      BY <2>6, <2>7, PartIsList
  <1> QED
    BY <1>1, <1>2

\* std::string::find finds a place or the end.
LEMMA FindType ==
  ASSUME NEW text, IsList(text), NEW symbol
  PROVE  Find(text, symbol, 1) \in 1..(Len(text) + 1)
PROOF
  <1>1. PICK n : n = Len(text) + 1
    OBVIOUS
  <1>2. n \in Nat /\ n \in 1..n
    BY <1>1, ListMeaning
  <1> DEFINE Places == {p \in 1..n : p = n \/ text[p] = symbol}
  <1>3. Places \in SUBSET Nat /\ n \in Places
    BY <1>2
  <1>4. PICK p \in Places : \A q \in Places : p <= q
    <2> HIDE DEF Places
    <2> QED
      BY <1>3, LeastNumber
  <1>5. p \in 1..n /\ (p = n \/ text[p] = symbol)
    OBVIOUS
  <1>6. ASSUME NEW q \in 1..(p - 1)
        PROVE  text[q] # symbol
    <2>1. q \in 1..n /\ ~ (p <= q)
      BY <1>2, <1>5
    <2>2. q \notin Places
      BY <1>4, <2>1
    <2> QED
      BY <2>1, <2>2
  <1>7. \E x \in 1..n : /\ x = n \/ text[x] = symbol
                        /\ \A q \in 1..(x - 1) : text[q] # symbol
    BY <1>5, <1>6
  <1> QED
    BY <1>1, <1>7 DEF Find

\* The parts before and after a symbol.
LEMMA CutIsList ==
  ASSUME NEW text, IsList(text), NEW symbol
  PROVE  IsList(Before(text, symbol)) /\ IsList(After(text, symbol))
PROOF
  <1>1. Find(text, symbol, 1) - 1 \in Int /\ Find(text, symbol, 1) + 1 \in Int
    BY FindType, ListMeaning
  <1>2. Len(text) \in Int
    BY ListMeaning
  <1> QED
    BY <1>1, <1>2, PartIsList DEF Before, After

\* The value of an entry.
LEMMA ValueIsList ==
  ASSUME NEW text, IsList(text)
  PROVE  IsList(EntryValue(text))
PROOF
  <1>1. PICK entry : entry = Trim(text)
    OBVIOUS
  <1>2. IsList(entry) /\ Len(entry) - 1 \in Int
    BY <1>1, TrimIsList, ListMeaning
  <1>3. IsList(SubSeq(entry, 2, Len(entry) - 1))
    BY <1>2, PartIsList
  <1> QED
    BY <1>1, <1>2, <1>3 DEF EntryValue, Unquote

-----------------------------------------------------------------------------
\* A normalised login is a login, or there is none.
LEMMA LoginIsLogin ==
  ASSUME NEW value, IsList(value)
  PROVE  NormalizeLogin(value) \in Login \cup {Rejected}
PROOF
  <1>1. PICK kept : kept = Trim(value)
    OBVIOUS
  <1>2. PICK result : result = ToLower(kept)
    OBVIOUS
  <1>3. IsList(kept)
    BY <1>1, TrimIsList
  <1>4. PICK n : n = Len(kept)
    OBVIOUS
  <1>5. n \in Nat /\ DOMAIN kept = 1..n
    BY <1>3, <1>4, ListMeaning
  <1>6. result = [i \in 1..n |-> result[i]]
    BY <1>2, <1>5 DEF ToLower
  <1>7. IsList(result) /\ DOMAIN result = 1..n /\ Len(result) = n
    BY <1>5, <1>6, FunctionIsList
  <1>8. ASSUME Len(result) \in 1..MaxLogin,
               \A i \in DOMAIN result : result[i] \in LoginSymbol
        PROVE  result \in Login
    <2>1. result \in [1..n -> LoginSymbol]
      BY <1>6, <1>7, <1>8
    <2>2. result \in Seq(LoginSymbol)
      BY <1>5, <2>1
    <2> QED
      BY <1>8, <2>2 DEF Login
  <1>9. NormalizeLogin(value) =
          IF /\ Len(result) \in 1..MaxLogin
             /\ \A i \in DOMAIN result : result[i] \in LoginSymbol
          THEN result ELSE Rejected
    BY <1>1, <1>2 DEF NormalizeLogin
  <1> QED
    BY <1>8, <1>9

\* A login is not empty.
LEMMA LoginIsSomething ==
  ASSUME NEW login \in Login
  PROVE  login # Rejected /\ IsList(login)
PROOF
  <1>1. login \in Seq(LoginSymbol) /\ Len(login) \in 1..MaxLogin
    BY DEF Login
  <1>2. Len(<< >>) = 0 /\ ~ (0 \in 1..MaxLogin)
    BY NamesAssumption, EmptySeq
  <1>3. login # << >>
    BY <1>1, <1>2
  <1> QED
    BY <1>1, <1>3, ListOf DEF Rejected

\* A normalised channel is one too.
LEMMA ChannelIsLogin ==
  ASSUME NEW value, IsList(value)
  PROVE  NormalizeChannel(value) \in Login \cup {Rejected}
PROOF
  <1>1. PICK result : result = Trim(value)
    OBVIOUS
  <1>2. IsList(result)
    BY <1>1, TrimIsList
  <1>3. ASSUME StartsWith(result, "#")
        PROVE  IsList(Tail(result))
    <2>1. Len(result) # 0
      BY <1>3, <1>2, ListMeaning DEF StartsWith
    <2>2. result # << >>
      BY <1>2, <2>1, ListMeaning
    <2> QED
      BY <1>2, <2>2, TailIsList
  <1>4. PICK login : login = IF StartsWith(result, "#") THEN Tail(result)
                             ELSE result
    OBVIOUS
  <1>5. IsList(login)
    BY <1>2, <1>3, <1>4
  <1>6. NormalizeChannel(value) = NormalizeLogin(login)
    BY <1>1, <1>4 DEF NormalizeChannel
  <1> QED
    BY <1>5, <1>6, LoginIsLogin

-----------------------------------------------------------------------------
\* The loop of std::getline returns lists.
LEMMA ItemsAreLists ==
  ASSUME NEW text, IsList(text)
  PROVE  /\ IsList(Items(text))
         /\ \A i \in DOMAIN Items(text) : IsList(Items(text)[i])
PROOF
  <1> DEFINE n == Len(text)
             k == n + 1
             item(p) == PartBefore(text, ",", p)
             S == {item(p) : p \in 1..k}
             D == Seq(S)
             Body(x, p) == IF EndsItem(text, p) THEN Append(x, item(p)) ELSE x
             F == [d \in D \X (1..k) |-> Body(d[1], d[2])]
             Loop(f) == [p \in 0..(Len(text) + 1) |->
                           IF p = 0 THEN << >>
                           ELSE IF EndsItem(text, p)
                                THEN Append(f[p - 1], item(p))
                                ELSE f[p - 1]]
             items == CHOOSE f : f = Loop(f)
  <1>1. k \in Nat /\ n \in Nat
    BY ListMeaning
  <1>2. << >> \in D
    BY EmptySeq
  <1>3. ASSUME NEW p \in 1..k
        PROVE  item(p) \in S /\ IsList(item(p))
    <2>1. p \in Nat \ {0}
      BY <1>1
    <2> QED
      BY <2>1, PartBeforeIsList
  <1>4. \A x \in S : IsList(x)
    BY <1>3
  <1> HIDE DEF S, item
  <1>5. ASSUME NEW x \in D, NEW p \in 1..k
        PROVE  Body(x, p) \in D
    <2>1. CASE EndsItem(text, p)
      <3>1. Append(x, item(p)) \in Seq(S)
        BY <1>3, AppendProperties
      <3> QED
        BY <2>1, <3>1
    <2>2. CASE ~ EndsItem(text, p)
      BY <2>2
    <2> QED
      BY <2>1, <2>2
  <1> HIDE DEF D, k, n
  <1>6. F \in [D \X (1..k) -> D]
    <2> HIDE DEF Body
    <2> QED
      BY <1>5
  <1>7. \A x \in D, p \in 1..k : F[<<x, p>>] = Body(x, p)
    <2> HIDE DEF Body
    <2> QED
      OBVIOUS
  <1> HIDE DEF F, Body
  <1>8. PICK g : Loops(g, k, D, << >>, F)
    BY <1>1, <1>2, <1>6, LoopExists
  <1>9. g = Loop(g)
    <2>1. ASSUME NEW p \in 1..k
          PROVE  g[p] = Body(g[p - 1], p)
      <3>1. p - 1 \in 0..k
        BY <1>1
      <3>2. g[p - 1] \in D /\ g[p] = F[<<g[p - 1], p>>]
        BY <1>8, <3>1 DEF Loops
      <3> QED
        BY <1>7, <3>2
    <2>2. ASSUME NEW p \in 0..k
          PROVE  g[p] = Loop(g)[p]
      <3>1. CASE p = 0
        <4>1. 0 \in 0..(Len(text) + 1)
          BY <1>1 DEF k, n
        <4>2. Loop(g)[0] = << >>
          BY <4>1
        <4>3. g[0] = << >>
          BY <1>8 DEF Loops
        <4> HIDE DEF Loop
        <4> QED
          BY <3>1, <4>2, <4>3
      <3>2. CASE p \in 1..k
        <4>1. p # 0 /\ p \in 0..(Len(text) + 1)
          BY <1>1, <3>2 DEF k, n
        <4>2. Loop(g)[p] = Body(g[p - 1], p)
          BY <4>1 DEF Body
        <4>3. g[p] = Body(g[p - 1], p)
          BY <2>1, <3>2
        <4> HIDE DEF Loop
        <4> QED
          BY <4>2, <4>3, Zenon
      <3> QED
        BY <1>1, <3>1, <3>2
    <2>3. g \in [0..(Len(text) + 1) -> D]
      BY <1>8 DEF Loops, k, n
    <2> HIDE DEF D
    <2>4. Loop(g) = [p \in 0..(Len(text) + 1) |-> Loop(g)[p]]
      OBVIOUS
    <2>5. \A p \in 0..(Len(text) + 1) : g[p] = Loop(g)[p]
      BY <2>2 DEF k, n
    <2> HIDE DEF Loop
    <2> QED
      BY <2>3, <2>4, <2>5
  <1>10. items = Loop(items)
    BY <1>9, Zenon
  <1>11. Items(text) = items[k]
    BY DEF Items, k, n, item
  <1> HIDE DEF items
  <1>12. items[0] = << >>
    <2>1. 0 \in 0..(Len(text) + 1)
      BY <1>1 DEF k, n
    <2> QED
      BY <1>10, <2>1
  <1>13. ASSUME NEW p \in 1..k
         PROVE  items[p] = Body(items[p - 1], p)
    <2>1. p # 0 /\ p \in 0..(Len(text) + 1)
      BY <1>1 DEF k, n
    <2> QED
      BY <1>10, <2>1 DEF Body
  <1>14. \A p \in 0..k : items[p] \in D
    BY <1>1, <1>2, <1>5, <1>12, <1>13, LoopStays
  <1>15. Items(text) \in Seq(S)
    BY <1>1, <1>11, <1>14 DEF D
  <1>16. \A i \in DOMAIN Items(text) : Items(text)[i] \in S
    BY <1>15
  <1> QED
    BY <1>4, <1>15, <1>16, ListOf

\* Once keeps elements, each of them once.
LEMMA OnceKeeps ==
  ASSUME NEW list, IsList(list)
  PROVE  /\ IsList(Once(list))
         /\ \A i \in DOMAIN Once(list) :
              \E j \in DOMAIN list : Once(list)[i] = list[j]
PROOF
  <1> DEFINE k == Len(list)
             S == {list[j] : j \in 1..k}
             D == Seq(S)
             In(x, e) == \E i \in DOMAIN x : x[i] = e
             Body(x, n) == IF In(x, list[n]) THEN x ELSE Append(x, list[n])
             F == [d \in D \X (1..k) |-> Body(d[1], d[2])]
             Loop(f) == [n \in 0..Len(list) |->
                           IF n = 0 THEN << >>
                           ELSE IF \E i \in DOMAIN f[n - 1] :
                                     f[n - 1][i] = list[n]
                                THEN f[n - 1]
                                ELSE Append(f[n - 1], list[n])]
             seen == CHOOSE f : f = Loop(f)
  <1>1. k \in Nat /\ DOMAIN list = 1..k
    BY ListMeaning
  <1>2. << >> \in D
    BY EmptySeq
  <1>3. \A n \in 1..k : list[n] \in S
    OBVIOUS
  <1>4. \A e \in S : \E j \in DOMAIN list : e = list[j]
    BY <1>1
  <1> HIDE DEF S, In
  <1>5. ASSUME NEW x \in D, NEW n \in 1..k
        PROVE  Body(x, n) \in D
    <2>1. Append(x, list[n]) \in Seq(S)
      BY <1>3, AppendProperties
    <2> QED
      BY <2>1
  <1> HIDE DEF D, k
  <1>6. F \in [D \X (1..k) -> D]
    <2> HIDE DEF Body
    <2> QED
      BY <1>5
  <1>7. \A x \in D, n \in 1..k : F[<<x, n>>] = Body(x, n)
    <2> HIDE DEF Body
    <2> QED
      OBVIOUS
  <1> HIDE DEF F, Body
  <1>8. PICK g : Loops(g, k, D, << >>, F)
    BY <1>1, <1>2, <1>6, LoopExists
  <1>9. g = Loop(g)
    <2>1. ASSUME NEW n \in 1..k
          PROVE  g[n] = Body(g[n - 1], n)
      <3>1. n - 1 \in 0..k
        BY <1>1
      <3>2. g[n - 1] \in D /\ g[n] = F[<<g[n - 1], n>>]
        BY <1>8, <3>1 DEF Loops
      <3> QED
        BY <1>7, <3>2
    <2>2. ASSUME NEW n \in 0..k
          PROVE  g[n] = Loop(g)[n]
      <3>1. CASE n = 0
        BY <1>8, <3>1 DEF Loops, k
      <3>2. CASE n \in 1..k
        <4>1. n # 0 /\ n \in 0..Len(list)
          BY <1>1, <3>2 DEF k
        <4>2. Loop(g)[n] = IF In(g[n - 1], list[n]) THEN g[n - 1]
                           ELSE Append(g[n - 1], list[n])
          BY <4>1 DEF In
        <4> QED
          BY <2>1, <3>2, <4>2 DEF Body
      <3> QED
        BY <1>1, <3>1, <3>2
    <2>3. g \in [0..Len(list) -> D]
      BY <1>8 DEF Loops, k
    <2> HIDE DEF D
    <2>4. Loop(g) = [n \in 0..Len(list) |-> Loop(g)[n]]
      OBVIOUS
    <2>5. \A n \in 0..Len(list) : g[n] = Loop(g)[n]
      BY <2>2 DEF k
    <2> HIDE DEF Loop
    <2> QED
      BY <2>3, <2>4, <2>5
  <1>10. seen = Loop(seen)
    BY <1>9, Zenon
  <1>11. Once(list) = seen[k]
    BY DEF Once, k
  <1> HIDE DEF seen
  <1>12. seen[0] = << >>
    BY <1>1, <1>10 DEF k
  <1>13. ASSUME NEW n \in 1..k
         PROVE  seen[n] = Body(seen[n - 1], n)
    <2>1. n # 0 /\ n \in 0..Len(list)
      BY <1>1 DEF k
    <2> QED
      BY <1>10, <2>1 DEF Body, In
  <1>14. \A n \in 0..k : seen[n] \in D
    BY <1>1, <1>2, <1>5, <1>12, <1>13, LoopStays
  <1>15. Once(list) \in Seq(S)
    BY <1>1, <1>11, <1>14 DEF D
  <1>16. \A i \in DOMAIN Once(list) : Once(list)[i] \in S
    BY <1>15
  <1> QED
    BY <1>4, <1>15, <1>16, ListOf

-----------------------------------------------------------------------------
\* A number less than the modulus is its own remainder.
LEMMA SmallRemainder ==
  ASSUME NEW m \in Nat \ {0}, NEW v \in 0..(m - 1)
  PROVE  v % m = v
PROOF
  OBVIOUS

\* What a list of names may be is what it was, in some order, and its length
\* is a bound on the number of names.
LEMMA ChannelsAreSound ==
  ASSUME NEW text, IsList(text), ParseChannels(text) # Rejected
  PROVE  LET list == ParseChannels(text)
             channels == {list[i] : i \in DOMAIN list}
         IN  /\ channels # {} /\ channels \subseteq Login
             /\ Cardinality(channels) <= MaxChannels
PROOF
  <1>1. PICK items : items = Items(text)
    OBVIOUS
  <1>2. PICK n : n = Len(items)
    OBVIOUS
  <1>3. /\ n \in Nat /\ DOMAIN items = 1..n
        /\ \A i \in 1..n : IsList(items[i])
    BY <1>1, <1>2, ItemsAreLists, ListMeaning
  <1>4. PICK names : names = [i \in DOMAIN items |-> NormalizeChannel(items[i])]
    OBVIOUS
  <1>5. /\ names = [i \in 1..n |-> names[i]]
        /\ \A i \in 1..n : names[i] = NormalizeChannel(items[i])
    BY <1>3, <1>4
  <1>6. IsList(names) /\ DOMAIN names = 1..n
    BY <1>3, <1>5, FunctionIsList
  <1>7. \A i \in DOMAIN names : names[i] \in Login \cup {Rejected}
    BY <1>3, <1>5, <1>6, ChannelIsLogin
  <1>8. PICK list : list = Once(names)
    OBVIOUS
  <1>9. /\ IsList(list)
        /\ \A i \in DOMAIN list : list[i] \in Login \cup {Rejected}
    BY <1>6, <1>7, <1>8, OnceKeeps
  <1>10. ParseChannels(text) = Channels(list)
    BY <1>1, <1>4, <1>8 DEF ParseChannels
  <1>11. /\ Len(list) \in 1..MaxChannels
         /\ \A i \in DOMAIN list : list[i] # Rejected
         /\ ParseChannels(text) = list
    BY <1>10 DEF Channels
  <1>12. PICK k : k = Len(list)
    OBVIOUS
  <1>13. k \in Nat /\ DOMAIN list = 1..k /\ 1 \in 1..k /\ k <= MaxChannels
    BY <1>9, <1>11, <1>12, ConfigurationAssumption, ListMeaning
  <1>14. PICK channels : channels = {list[i] : i \in 1..k}
    OBVIOUS
  <1>15. channels # {}
    BY <1>13, <1>14
  <1>16. channels \subseteq Login
    BY <1>9, <1>11, <1>13, <1>14
  <1>17. Cardinality(channels) <= MaxChannels
    <2>1. IsFiniteSet(1..k) /\ Cardinality(1..k) = k
      BY <1>13, FS_Interval
    <2>2. PICK f : f = [i \in 1..k |-> list[i]]
      OBVIOUS
    <2>3. f \in Surjection(1..k, channels)
      BY <1>14, <2>2 DEF Surjection
    <2>4. IsFiniteSet(channels) /\ Cardinality(channels) <= k
      BY <2>1, <2>3, FS_Surjection
    <2>5. Cardinality(channels) \in Nat
      BY <2>4, FS_CardinalityType
    <2> QED
      BY <1>13, <2>4, <2>5, ConfigurationAssumption
  <1> QED
    BY <1>11, <1>13, <1>14, <1>15, <1>16, <1>17

-----------------------------------------------------------------------------
\* A line of the .env file has a text as its value.
LEMMA LineIsText ==
  ASSUME NEW line, IsList(line), EnvLine(line) # << >>, EnvLine(line)[1].ok
  PROVE  IsList(EnvLine(line)[1].value)
PROOF
  <1>1. PICK value : value = Trim(line)
    OBVIOUS
  <1>2. IsList(value) /\ Len(value) \in Int
    BY <1>1, TrimIsList, ListMeaning
  <1>3. PICK exports :
          exports = (Len(value) >= 2 /\ value[1] = "export" /\ value[2] = " ")
    OBVIOUS
  <1>4. PICK rest : rest = Trim(SubSeq(value, 3, Len(value)))
    OBVIOUS
  <1>5. IsList(rest)
    BY <1>2, <1>4, PartIsList, TrimIsList
  <1>6. PICK entry : entry = IF exports THEN rest ELSE value
    OBVIOUS
  <1>7. IsList(entry)
    BY <1>2, <1>5, <1>6
  <1>8. PICK none : none = (value = << >> \/ StartsWith(value, "#"))
    OBVIOUS
  <1>9. PICK bad : bad = (~ Has(entry, {"="}) \/ StartsWith(entry, "="))
    OBVIOUS
  <1>10. PICK key : key = Trim(Before(entry, "="))
    OBVIOUS
  <1>11. PICK text : text = EntryValue(After(entry, "="))
    OBVIOUS
  <1>12. IsList(text)
    BY <1>7, <1>11, CutIsList, ValueIsList
  <1>13. EnvLine(line) = CASE none -> << >>
                           [] OTHER -> IF bad THEN <<Failed>>
                                       ELSE <<[ok |-> TRUE, key |-> key,
                                               value |-> text]>>
    BY <1>1, <1>3, <1>4, <1>6, <1>8, <1>9, <1>10, <1>11, Zenon DEF EnvLine
  <1> QED
    BY <1>12, <1>13 DEF Failed

\* Every value of these is a text.
Texts(map) == \A key \in DOMAIN map : IsList(map[key])

\* So the file has texts as values.
LEMMA FileHasTexts ==
  ASSUME NEW lines, IsList(lines), \A i \in DOMAIN lines : IsList(lines[i]),
         LoadEnvFile(lines).ok
  PROVE  Texts(LoadEnvFile(lines).environment)
PROOF
  <1> DEFINE entries == {i \in DOMAIN lines : EnvLine(lines[i]) # << >>}
             entry(i) == EnvLine(lines[i])[1]
             last(key) == CHOOSE i \in entries :
                            /\ entry(i).key = key
                            /\ \A j \in entries : entry(j).key = key => j <= i
             keys == {entry(i).key : i \in entries}
             found == [key \in keys |-> entry(last(key)).value]
  <1>1. LoadEnvFile(lines) = IF \E i \in entries : ~ entry(i).ok THEN Failed
                             ELSE [ok |-> TRUE, environment |-> found]
    BY DEF LoadEnvFile
  <1>2. ~ Failed.ok
    BY DEF Failed
  <1>3. /\ \A i \in entries : entry(i).ok
        /\ LoadEnvFile(lines).environment = found
    <2> HIDE DEF entries, entry, found
    <2> QED
      BY <1>1, <1>2
  <1>4. \A i \in entries : IsList(entry(i).value)
    BY <1>3, LineIsText
  <1>5. Len(lines) \in Nat /\ entries \in SUBSET (1..Len(lines))
    BY ListMeaning
  <1>6. ASSUME NEW key \in keys
        PROVE  last(key) \in entries
    <2> DEFINE T == {i \in entries : entry(i).key = key}
    <2>1. T # {} /\ T \in SUBSET (1..Len(lines))
      <3> HIDE DEF entry, entries
      <3> QED
        BY <1>5
    <2>2. PICK i \in T : \A j \in T : j <= i
      <3> HIDE DEF T
      <3> QED
        BY <1>5, <2>1, GreatestNumber
    <2>3. \E x \in entries : /\ entry(x).key = key
                             /\ \A j \in entries : entry(j).key = key => j <= x
      <3> HIDE DEF entry, entries
      <3> QED
        BY <2>2
    <2> HIDE DEF entry, entries
    <2> QED
      BY <2>3
  <1> HIDE DEF entry, entries, last
  <1>7. \A key \in keys : IsList(found[key])
    BY <1>4, <1>6
  <1> QED
    BY <1>3, <1>7 DEF Texts

\* And the process does not change that.
LEMMA OverlayHasTexts ==
  ASSUME NEW base, Texts(base), NEW process, Texts(process)
  PROVE  Texts(Overlay(base, process))
PROOF
  BY DEF Texts, Overlay

\* A variable that is read is a text.
LEMMA GetIsList ==
  ASSUME NEW env, Texts(env), NEW key
  PROVE  IsList(Get(env, key))
PROOF
  BY TrimIsList, EmptyIsList DEF Texts, Get

-----------------------------------------------------------------------------
\* A number in range is a number, and the one that was written.
LEMMA SecondsAreRight ==
  ASSUME NEW value, value # None => IsNumber(value), NEW default \in Int,
         NEW maximum \in Nat, maximum <= MaxInt,
         ReadSeconds(value, default, maximum) >= 0
  PROVE  /\ ReadSeconds(value, default, maximum) \in Nat
         /\ AsWritten(value, ReadSeconds(value, default, maximum))
PROOF
  <1>1. PICK seconds : seconds = IF value = None THEN default ELSE GetInt(value)
    OBVIOUS
  <1>2. ReadSeconds(value, default, maximum) =
          IF seconds \in 0..maximum THEN seconds ELSE -1
    BY <1>1 DEF ReadSeconds
  <1>3. seconds \in 0..maximum /\ seconds \in 0..MaxInt /\ MaxInt \in Nat
    BY <1>2, ConfigurationAssumption
  <1>4. PICK modulus : modulus = 2 * (MaxInt + 1)
    OBVIOUS
  <1>5. modulus \in Nat \ {0} /\ modulus > MaxInt
    BY <1>3, <1>4
  <1>6. CASE value = None
    BY <1>2, <1>3, <1>6 DEF AsWritten
  <1>7. CASE value # None /\ value.type = "integer"
    <2>1. PICK low : low = value.val % modulus
      OBVIOUS
    <2>2. value.val \in Int
      BY <1>7 DEF IsNumber
    <2>3. low \in 0..(modulus - 1)
      BY <1>5, <2>1, <2>2
    <2>4. seconds = IF low <= MaxInt THEN low ELSE low - modulus
      BY <1>1, <1>4, <1>7, <2>1 DEF GetInt
    <2>5. seconds = low
      BY <1>3, <1>5, <2>3, <2>4
    <2> QED
      BY <1>2, <1>3, <1>4, <1>7, <2>1, <2>5 DEF AsWritten
  <1>8. CASE value # None /\ value.type = "boolean"
    <2>1. seconds = value.val
      BY <1>1, <1>8 DEF GetInt
    <2>2. seconds \in 0..(modulus - 1)
      BY <1>3, <1>5
    <2>3. value.val % modulus = seconds
      BY <1>5, <2>1, <2>2, SmallRemainder
    <2> QED
      BY <1>2, <1>3, <1>4, <1>8, <2>3 DEF AsWritten
  <1>9. CASE value # None /\ value.type = "float"
    <2>1. PICK whole : whole = Truncated(value.val)
      OBVIOUS
    <2>2. seconds = IF whole \in Ints THEN whole ELSE value.outside
      BY <1>1, <1>9, <2>1 DEF GetInt
    <2>3. ASSUME value.val \in 0..(2 * MaxInt + 1)
          PROVE  value.val - 2 * seconds \in {0, 1}
      <3>1. PICK halves \in 0..(2 * MaxInt + 1) : halves = value.val
        BY <2>3
      <3>2. whole = halves \div 2
        BY <1>3, <2>1, <3>1 DEF Truncated
      <3>3. whole \in 0..MaxInt /\ halves - 2 * whole \in {0, 1}
        BY <1>3, <3>2
      <3>4. seconds = whole
        BY <1>3, <2>2, <3>3 DEF Ints
      <3> QED
        BY <3>1, <3>3, <3>4
    <2> QED
      BY <1>2, <1>3, <1>9, <2>3 DEF AsWritten
  <1>10. value = None \/ value.type \in {"integer", "boolean", "float"}
    BY DEF IsNumber
  <1> QED
    BY <1>6, <1>7, <1>8, <1>9, <1>10

-----------------------------------------------------------------------------
\* A rule that is read and valid.
LEMMA RuleIsSound ==
  ASSUME NEW item, item.enabled \in BOOLEAN, IsList(item.sender),
         item.channel # None => IsList(item.channel),
         \A number \in {item.delaySeconds, item.cooldownSeconds} :
           number # None => IsNumber(number),
         NEW rule, rule = ReadRule(item), RuleValid(rule)
  PROVE  /\ rule.enabled \in BOOLEAN
         /\ rule.sender \in Login
         /\ rule.channel # None => rule.channel \in Login
         /\ rule.contains # << >>
         /\ rule.delay \in Nat /\ rule.cooldown \in Nat
         /\ Sound(rule.response, MaxResponse)
         /\ AsWritten(item.delaySeconds, rule.delay)
         /\ AsWritten(item.cooldownSeconds, rule.cooldown)
PROOF
  <1>1. /\ rule.enabled = item.enabled
        /\ rule.sender = NormalizeLogin(item.sender)
        /\ rule.channel = IF item.channel = None THEN None
                          ELSE NormalizeChannel(item.channel)
        /\ rule.contains = item.contains
        /\ rule.response = item.response
        /\ rule.delay = ReadSeconds(item.delaySeconds, 0, MaxDelay)
        /\ rule.cooldown = ReadSeconds(item.cooldownSeconds, 0, MaxCooldown)
    BY DEF ReadRule
  <1>2. /\ rule.sender # Rejected
        /\ rule.channel = None \/ rule.channel # Rejected
        /\ Sound(rule.contains, MaxContains)
        /\ Sound(rule.response, MaxResponse)
        /\ rule.delay >= 0 /\ rule.cooldown >= 0
    BY DEF RuleValid
  <1>3. rule.sender \in Login
    BY <1>1, <1>2, LoginIsLogin
  <1>4. ASSUME rule.channel # None PROVE rule.channel \in Login
    <2>1. item.channel # None /\ rule.channel = NormalizeChannel(item.channel)
      BY <1>1, <1>4
    <2> QED
      BY <1>2, <1>4, <2>1, ChannelIsLogin
  <1>5. rule.contains # << >>
    <2>1. Len(<< >>) = 0 /\ ~ (0 \in 1..MaxContains)
      BY EmptySeq, ConfigurationAssumption
    <2> QED
      BY <1>2, <2>1 DEF Sound
  <1>6. /\ item.delaySeconds # None => IsNumber(item.delaySeconds)
        /\ item.cooldownSeconds # None => IsNumber(item.cooldownSeconds)
        /\ MaxDelay \in Nat /\ MaxCooldown \in Nat /\ 0 \in Int
        /\ MaxDelay <= MaxInt /\ MaxCooldown <= MaxInt
    BY ConfigurationAssumption
  <1>7. rule.delay \in Nat /\ AsWritten(item.delaySeconds, rule.delay)
    BY <1>1, <1>2, <1>6, SecondsAreRight
  <1>8. rule.cooldown \in Nat /\ AsWritten(item.cooldownSeconds, rule.cooldown)
    BY <1>1, <1>2, <1>6, SecondsAreRight
  <1> QED
    BY <1>1, <1>2, <1>3, <1>4, <1>5, <1>7, <1>8

\* The hype settings, read and valid.
LEMMA HypeIsSound ==
  ASSUME NEW item, item.enabled \in BOOLEAN, IsList(item.channel),
         IsList(item.subscriptionMessages), IsList(item.giftMessages),
         \A number \in {item.delaySeconds, item.cooldownSeconds} :
           number # None => IsNumber(number),
         NEW hype, hype = ReadHype(item), HypeValid(item, hype)
  PROVE  /\ IsList(hype.subscription_messages) /\ IsList(hype.gift_messages)
         /\ hype.enabled => /\ hype.channel \in Login
                            /\ hype.subscription_messages # << >>
                            /\ hype.gift_messages # << >>
         /\ hype.delay \in Nat /\ hype.cooldown \in Nat
         /\ \A i \in DOMAIN hype.gift_messages :
              Sound(hype.gift_messages[i], MaxResponse)
         /\ AsWritten(item.delaySeconds, hype.delay)
         /\ AsWritten(item.cooldownSeconds, hype.cooldown)
PROOF
  <1>1. /\ hype.enabled = item.enabled
        /\ hype.channel = IF item.channel = << >> THEN << >>
                          ELSE NormalizeChannel(item.channel)
        /\ hype.subscription_messages = item.subscriptionMessages
        /\ hype.gift_messages = item.giftMessages
        /\ hype.delay = ReadSeconds(item.delaySeconds, 1, MaxDelay)
        /\ hype.cooldown = ReadSeconds(item.cooldownSeconds, 2, MaxCooldown)
    BY DEF ReadHype
  <1>2. /\ item.channel # << >> => hype.channel # Rejected
        /\ \A list \in {hype.subscription_messages, hype.gift_messages} :
             \A i \in DOMAIN list : Sound(list[i], MaxResponse)
        /\ hype.delay >= 0 /\ hype.cooldown >= 0
        /\ hype.enabled => HypeComplete(hype)
    BY DEF HypeValid
  <1>3. ASSUME hype.enabled
        PROVE  /\ hype.channel \in Login
               /\ hype.subscription_messages # << >>
               /\ hype.gift_messages # << >>
    <2>1. /\ hype.channel # << >>
          /\ hype.subscription_messages # << >>
          /\ hype.gift_messages # << >>
      BY <1>2, <1>3 DEF HypeComplete
    <2>2. item.channel # << >> /\ hype.channel = NormalizeChannel(item.channel)
      BY <1>1, <2>1
    <2> QED
      BY <1>2, <2>1, <2>2, ChannelIsLogin
  <1>4. /\ item.delaySeconds # None => IsNumber(item.delaySeconds)
        /\ item.cooldownSeconds # None => IsNumber(item.cooldownSeconds)
        /\ MaxDelay \in Nat /\ MaxCooldown \in Nat /\ 1 \in Int /\ 2 \in Int
        /\ MaxDelay <= MaxInt /\ MaxCooldown <= MaxInt
    BY ConfigurationAssumption
  <1>5. hype.delay \in Nat /\ AsWritten(item.delaySeconds, hype.delay)
    BY <1>1, <1>2, <1>4, SecondsAreRight
  <1>6. hype.cooldown \in Nat /\ AsWritten(item.cooldownSeconds, hype.cooldown)
    <2>1. PICK seconds : seconds = item.cooldownSeconds
      OBVIOUS
    <2>2. /\ hype.cooldown = ReadSeconds(seconds, 2, MaxCooldown)
          /\ ReadSeconds(seconds, 2, MaxCooldown) >= 0
          /\ seconds # None => IsNumber(seconds)
      BY <1>1, <1>2, <1>4, <2>1
    <2>3. 2 \in Int /\ MaxCooldown \in Nat /\ MaxCooldown <= MaxInt
      BY <1>4
    <2> QED
      BY <2>1, <2>2, <2>3, SecondsAreRight
  <1> QED
    BY <1>1, <1>2, <1>3, <1>5, <1>6

\* The settings of the automation, of a document of the right types.
LEMMA SettingsAreSound ==
  ASSUME NEW json, WellTyped(json), NEW bot, bot = ParseBotSettings(json),
         bot.ok
  PROVE  /\ Usable(bot.rules, bot.hype)
         /\ \A i \in DOMAIN bot.rules :
              LET written == json.messageRules[i] IN
              /\ Sound(bot.rules[i].response, MaxResponse)
              /\ AsWritten(written.delaySeconds, bot.rules[i].delay)
              /\ AsWritten(written.cooldownSeconds, bot.rules[i].cooldown)
         /\ \A i \in DOMAIN bot.hype.gift_messages :
              Sound(bot.hype.gift_messages[i], MaxResponse)
         /\ AsWritten(json.hype.delaySeconds, bot.hype.delay)
         /\ AsWritten(json.hype.cooldownSeconds, bot.hype.cooldown)
PROOF
  <1>1. PICK items : items = json.messageRules
    OBVIOUS
  <1>2. PICK item : item = json.hype
    OBVIOUS
  <1>3. PICK rules : rules = [i \in DOMAIN items |-> ReadRule(items[i])]
    OBVIOUS
  <1>4. PICK hype : hype = ReadHype(item)
    OBVIOUS
  <1>5. bot = IF /\ \A i \in DOMAIN rules : RuleValid(rules[i])
                 /\ HypeValid(item, hype)
              THEN [ok |-> TRUE, rules |-> rules, hype |-> hype] ELSE Failed
    BY <1>1, <1>2, <1>3, <1>4 DEF ParseBotSettings
  <1>6. ~ Failed.ok
    BY DEF Failed
  <1>7. /\ \A i \in DOMAIN rules : RuleValid(rules[i])
        /\ HypeValid(item, hype)
        /\ bot.rules = rules /\ bot.hype = hype
    BY <1>5, <1>6
  <1>8. PICK n : n = Len(items)
    OBVIOUS
  <1>9. IsList(items)
    BY <1>1 DEF WellTyped
  <1>10. n \in Nat /\ DOMAIN items = 1..n
    BY <1>8, <1>9, ListMeaning
  <1>11. /\ rules = [i \in 1..n |-> rules[i]]
         /\ \A i \in 1..n : rules[i] = ReadRule(items[i])
    BY <1>3, <1>10
  <1>12. IsList(rules) /\ DOMAIN rules = 1..n
    BY <1>10, <1>11, FunctionIsList
  <1>13. ASSUME NEW i \in 1..n
         PROVE  /\ rules[i].enabled \in BOOLEAN
                /\ rules[i].sender \in Login
                /\ rules[i].channel # None => rules[i].channel \in Login
                /\ rules[i].contains # << >>
                /\ rules[i].delay \in Nat /\ rules[i].cooldown \in Nat
                /\ Sound(rules[i].response, MaxResponse)
                /\ AsWritten(items[i].delaySeconds, rules[i].delay)
                /\ AsWritten(items[i].cooldownSeconds, rules[i].cooldown)
    <2>1. /\ items[i].enabled \in BOOLEAN /\ IsList(items[i].sender)
          /\ items[i].channel # None => IsList(items[i].channel)
          /\ \A number \in {items[i].delaySeconds, items[i].cooldownSeconds} :
               number # None => IsNumber(number)
      BY <1>1, <1>10 DEF WellTyped
    <2>2. rules[i] = ReadRule(items[i]) /\ RuleValid(rules[i])
      BY <1>7, <1>11, <1>12
    <2> QED
      BY <2>1, <2>2, RuleIsSound
  <1>14. /\ IsList(hype.subscription_messages) /\ IsList(hype.gift_messages)
         /\ hype.enabled => /\ hype.channel \in Login
                            /\ hype.subscription_messages # << >>
                            /\ hype.gift_messages # << >>
         /\ hype.delay \in Nat /\ hype.cooldown \in Nat
         /\ \A i \in DOMAIN hype.gift_messages :
              Sound(hype.gift_messages[i], MaxResponse)
         /\ AsWritten(item.delaySeconds, hype.delay)
         /\ AsWritten(item.cooldownSeconds, hype.cooldown)
    <2>1. /\ item.enabled \in BOOLEAN /\ IsList(item.channel)
          /\ IsList(item.subscriptionMessages) /\ IsList(item.giftMessages)
          /\ \A number \in {item.delaySeconds, item.cooldownSeconds} :
               number # None => IsNumber(number)
      BY <1>2 DEF WellTyped
    <2> QED
      BY <1>4, <1>7, <2>1, HypeIsSound
  <1>15. Usable(rules, hype)
    BY <1>12, <1>13, <1>14 DEF Usable
  <1> QED
    BY <1>1, <1>2, <1>7, <1>12, <1>13, <1>14, <1>15

\* What RunningIsSound says of a configuration and its document.
IsSound(parsed, json) ==
  /\ parsed.username \in Login
  /\ LET channels == {parsed.channels[i] : i \in DOMAIN parsed.channels}
     IN  /\ channels # {} /\ channels \subseteq Login
         /\ Cardinality(channels) <= MaxChannels
  /\ Usable(parsed.rules, parsed.hype)
  /\ \A i \in DOMAIN parsed.rules :
       LET written == json.messageRules[i] IN
       /\ Sound(parsed.rules[i].response, MaxResponse)
       /\ AsWritten(written.delaySeconds, parsed.rules[i].delay)
       /\ AsWritten(written.cooldownSeconds, parsed.rules[i].cooldown)
  /\ \A i \in DOMAIN parsed.hype.gift_messages :
       Sound(parsed.hype.gift_messages[i], MaxResponse)
  /\ AsWritten(json.hype.delaySeconds, parsed.hype.delay)
  /\ AsWritten(json.hype.cooldownSeconds, parsed.hype.cooldown)

\* A configuration that is accepted is one the other parts can rely on.
LEMMA ConfigurationIsSound ==
  ASSUME NEW env, Texts(env), NEW json, WellTyped(json),
         NEW parsed, parsed = ParseRuntimeConfig(env, json), parsed.ok
  PROVE  IsSound(parsed, json)
PROOF
  <1>1. PICK name : name = Get(env, <<"TWITCH_BOT_USERNAME">>)
    OBVIOUS
  <1>2. PICK text : text = Get(env, <<"TWITCH_CHANNELS">>)
    OBVIOUS
  <1>3. PICK token :
          token = NormalizeOauthToken(Get(env, <<"TWITCH_OAUTH_TOKEN">>))
    OBVIOUS
  <1>4. PICK log : log = Get(env, <<"TWITCH_LOG_RAW_IRC">>)
    OBVIOUS
  <1>5. PICK bot : bot = ParseBotSettings(json)
    OBVIOUS
  <1>6. IsList(name) /\ IsList(text)
    BY <1>1, <1>2, GetIsList
  <1>7. parsed = IF \/ Rejected \in {NormalizeLogin(name), token,
                                     ParseChannels(text)}
                    \/ ~ LogValid(log)
                    \/ ~ bot.ok
                 THEN Failed
                 ELSE [ ok |-> TRUE, username |-> NormalizeLogin(name),
                        oauth_token |-> token,
                        channels |-> ParseChannels(text),
                        log_raw_irc |-> LogOn(log),
                        rules |-> bot.rules, hype |-> bot.hype ]
    BY <1>1, <1>2, <1>3, <1>4, <1>5 DEF ParseRuntimeConfig
  <1>8. ~ Failed.ok
    BY DEF Failed
  <1>9. /\ NormalizeLogin(name) # Rejected /\ ParseChannels(text) # Rejected
        /\ bot.ok
        /\ parsed.username = NormalizeLogin(name)
        /\ parsed.channels = ParseChannels(text)
        /\ parsed.rules = bot.rules /\ parsed.hype = bot.hype
    BY <1>7, <1>8
  <1>10. parsed.username \in Login
    BY <1>6, <1>9, LoginIsLogin
  <1>11. LET channels == {parsed.channels[i] : i \in DOMAIN parsed.channels}
         IN  /\ channels # {} /\ channels \subseteq Login
             /\ Cardinality(channels) <= MaxChannels
    BY <1>6, <1>9, ChannelsAreSound
  <1> QED
    BY <1>5, <1>9, <1>10, <1>11, SettingsAreSound DEF IsSound

-----------------------------------------------------------------------------
\* s begins the run of words of T that ends right before i.
Begins(words, T, i, s) ==
  /\ s \in 1..i
  /\ s = 1 \/ words[s - 1] \notin T
  /\ \A j \in s..(i - 1) : words[j] \in T

\* There is one such position.
LEMMA RunBegins ==
  ASSUME NEW words, NEW T, NEW i \in Nat \ {0}
  PROVE  /\ \E s : Begins(words, T, i, s)
         /\ \A s, t : Begins(words, T, i, s) /\ Begins(words, T, i, t) => s = t
PROOF
  <1>1. \E s : Begins(words, T, i, s)
    <2> DEFINE Out == {q \in 1..(i - 1) : words[q] \notin T}
    <2>1. CASE Out = {}
      <3>1. 1 \in 1..i
        OBVIOUS
      <3> QED
        BY <2>1, <3>1 DEF Begins
    <2>2. CASE Out # {}
      <3>1. i - 1 \in Nat /\ Out \in SUBSET (1..(i - 1))
        OBVIOUS
      <3>2. PICK m \in Out : \A q \in Out : q <= m
        <4> HIDE DEF Out
        <4> QED
          BY <2>2, <3>1, GreatestNumber
      <3>3. m \in 1..(i - 1) /\ words[m] \notin T
        OBVIOUS
      <3>4. ASSUME NEW q \in (m + 1)..(i - 1)
            PROVE  words[q] \in T
        <4>1. q \in 1..(i - 1) /\ ~ (q <= m)
          BY <3>3
        <4> QED
          BY <3>2, <4>1
      <3>5. m + 1 \in 1..i /\ (m + 1) - 1 = m
        BY <3>3
      <3> QED
        BY <3>3, <3>4, <3>5 DEF Begins
    <2> QED
      BY <2>1, <2>2
  <1>2. ASSUME NEW s, NEW t, Begins(words, T, i, s), Begins(words, T, i, t), s < t
        PROVE  FALSE
    <2>1. s \in 1..i /\ t \in 1..i
      BY <1>2 DEF Begins
    <2>2. t - 1 \in s..(i - 1) /\ t # 1
      BY <1>2, <2>1
    <2> QED
      BY <1>2, <2>2 DEF Begins
  <1>3. ASSUME NEW s, NEW t, Begins(words, T, i, s), Begins(words, T, i, t)
        PROVE  s = t
    <2>1. s \in 1..i /\ t \in 1..i
      BY <1>3 DEF Begins
    <2>2. ~ (s < t) /\ ~ (t < s)
      BY <1>2, <1>3
    <2> QED
      BY <2>1, <2>2
  <1> QED
    BY <1>1, <1>3

\* The run decides.
LEMMA OptionBegins ==
  ASSUME NEW words, NEW i \in Nat \ {0}, NEW s, Begins(words, TakesPath, i, s)
  PROVE  IsOption(words, i) <=> (i - s) % 2 = 0
PROOF
  <1> DEFINE start == CHOOSE t \in 1..i :
                        /\ t = 1 \/ words[t - 1] \notin TakesPath
                        /\ \A j \in t..(i - 1) : words[j] \in TakesPath
  <1>1. \E t \in 1..i : /\ t = 1 \/ words[t - 1] \notin TakesPath
                        /\ \A j \in t..(i - 1) : words[j] \in TakesPath
    BY Zenon DEF Begins
  <1>2. Begins(words, TakesPath, i, start)
    BY <1>1, Zenon DEF Begins
  <1>3. IsOption(words, i) <=> (i - start) % 2 = 0
    BY Zenon DEF IsOption
  <1> HIDE DEF start
  <1>4. start = s
    BY <1>2, RunBegins
  <1> QED
    BY <1>3, <1>4

\* Even and odd.
LEMMA Parity ==
  ASSUME NEW n \in Nat
  PROVE  (n + 1) % 2 = 0 <=> ~ (n % 2 = 0)
PROOF
  OBVIOUS

\* A word is an option unless the word before it is one that takes a path.
LEMMA NextOption ==
  ASSUME NEW words, NEW i \in Nat \ {0}
  PROVE  /\ IsOption(words, 1)
         /\ IsOption(words, i + 1)
              <=> ~ (words[i] \in TakesPath /\ IsOption(words, i))
PROOF
  <1>1. IsOption(words, 1)
    <2>1. Begins(words, TakesPath, 1, 1)
      BY DEF Begins
    <2>2. (1 - 1) % 2 = 0
      OBVIOUS
    <2> QED
      BY <2>1, <2>2, OptionBegins
  <1>2. CASE words[i] \notin TakesPath
    <2>1. Begins(words, TakesPath, i + 1, i + 1)
      BY <1>2 DEF Begins
    <2>2. ((i + 1) - (i + 1)) % 2 = 0
      OBVIOUS
    <2>3. i + 1 \in Nat \ {0}
      OBVIOUS
    <2>4. IsOption(words, i + 1)
      BY <2>1, <2>2, <2>3, OptionBegins
    <2> QED
      BY <1>1, <1>2, <2>4
  <1>3. CASE words[i] \in TakesPath
    <2>1. PICK s : Begins(words, TakesPath, i, s)
      BY RunBegins
    <2>2. s \in 1..i
      BY <2>1 DEF Begins
    <2>3. Begins(words, TakesPath, i + 1, s)
      <3>1. \A j \in s..((i + 1) - 1) : j = i \/ j \in s..(i - 1)
        BY <2>2
      <3>2. s \in 1..(i + 1)
        BY <2>2
      <3> QED
        BY <1>3, <2>1, <3>1, <3>2 DEF Begins
    <2>4. PICK n : n = i - s
      OBVIOUS
    <2>5. n \in Nat /\ (i + 1) - s = n + 1 /\ i + 1 \in Nat \ {0}
      BY <2>2, <2>4
    <2>6. IsOption(words, i) <=> n % 2 = 0
      BY <2>1, <2>4, OptionBegins
    <2>7. IsOption(words, i + 1) <=> (n + 1) % 2 = 0
      BY <2>3, <2>5, OptionBegins
    <2> QED
      BY <1>1, <1>3, <2>5, <2>6, <2>7, Parity
  <1> QED
    BY <1>2, <1>3

\* No word is two options.
LEMMA WordsDiffer ==
  /\ TakesPath \cap Flags = {}
  /\ <<"--check-config">> \in Flags
PROOF
  <1>1. /\ <<"--env">>[1] = "--env" /\ <<"--config">>[1] = "--config"
        /\ <<"--check-config">>[1] = "--check-config"
        /\ <<"--help">>[1] = "--help" /\ <<"-h">>[1] = "-h"
    OBVIOUS
  <1> QED
    BY <1>1 DEF TakesPath, Flags

-----------------------------------------------------------------------------
\* The word that asks for a check.
Check == <<"--check-config">>

\* It is the option of one of the first j words.
Asked(arguments, j) ==
  \E i \in 1..j : arguments[i] = Check /\ IsOption(arguments, i)

\* What parse_options has read of the options in the first j words.
Read(arguments, j, x) ==
  /\ x.waits <=> /\ j # 0
                 /\ arguments[j] \in TakesPath /\ IsOption(arguments, j)
  /\ x.options.check_config <=> Asked(arguments, j)

\* The loop of parse_options finds the options that are there.
LEMMA OptionsAreRead ==
  ASSUME NEW arguments, IsList(arguments)
  PROVE  ParseOptions(arguments).options.check_config
           <=> Asked(arguments, Len(arguments))
PROOF
  <1> DEFINE n == Len(arguments)
             Paths == {arguments[i] : i \in 1..n} \cup {DefaultEnv, << >>}
             Opts == [env_file : Paths, config_file : Paths,
                      check_config : BOOLEAN, help : BOOLEAN]
             D == [ok : BOOLEAN, waits : BOOLEAN, options : Opts]
             Step(x, i, argument) ==
               CASE x.waits ->
                      [x EXCEPT !.waits = FALSE,
                                !.options = WithPath(@, arguments[i - 1],
                                                     argument)]
                 [] ~x.waits /\ argument \in TakesPath ->
                      [x EXCEPT !.waits = TRUE]
                 [] ~x.waits /\ argument \in Flags ->
                      [x EXCEPT !.options = WithFlag(@, argument)]
                 [] OTHER -> [x EXCEPT !.ok = FALSE]
             Body(x, i) == Step(x, i, arguments[i])
             r == [ok |-> TRUE, waits |-> FALSE, options |-> Options]
             F == [d \in D \X (1..n) |-> Body(d[1], d[2])]
             Loop(f) == [i \in 0..n |-> IF i = 0 THEN r
                                        ELSE Step(f[i - 1], i, arguments[i])]
             parsed == CHOOSE f : f = Loop(f)
             T == {j \in 0..n : Read(arguments, j, parsed[j])}
  <1>1. n \in Nat
    BY ListMeaning
  <1>2. r \in D
    BY DEF Options
  <1>3. ASSUME NEW x \in D, NEW i \in 1..n
        PROVE  Body(x, i) \in D
    <2>1. PICK o : o = x.options
      OBVIOUS
    <2>2. PICK w : w = arguments[i]
      OBVIOUS
    <2>3. PICK v : v = arguments[i - 1]
      OBVIOUS
    <2>4. o \in Opts /\ w \in Paths
      BY <2>1, <2>2
    <2>5. WithPath(o, v, w) \in Opts
      BY <2>4 DEF WithPath
    <2>6. WithFlag(o, w) \in Opts
      BY <2>4 DEF WithFlag
    <2> HIDE DEF Opts
    <2>7. Step(x, i, w) \in D
      BY <2>1, <2>3, <2>5, <2>6
    <2> QED
      BY <2>2, <2>7
  <1>4. \A x \in D : x.waits \in BOOLEAN
    OBVIOUS
  <1>5. ASSUME NEW x \in D, NEW i \in 1..n
        PROVE  /\ Step(x, i, arguments[i]).waits
                    <=> ~ x.waits /\ arguments[i] \in TakesPath
               /\ Step(x, i, arguments[i]).options.check_config
                    <=> \/ x.options.check_config
                        \/ ~ x.waits /\ arguments[i] = Check
    <2>1. PICK w : w = arguments[i]
      OBVIOUS
    <2>2. PICK v : v = arguments[i - 1]
      OBVIOUS
    <2>3. PICK o : o = x.options
      OBVIOUS
    <2>4. o \in Opts /\ x.waits \in BOOLEAN
      BY <2>3
    <2>5. WithPath(o, v, w).check_config = o.check_config
      BY <2>4 DEF WithPath
    <2>6. /\ w = Check => WithFlag(o, w).check_config
          /\ w # Check => WithFlag(o, w).check_config = o.check_config
      BY <2>4 DEF WithFlag, Check
    <2>7. ~ (w \in TakesPath /\ w \in Flags) /\ (w = Check => w \in Flags)
      BY WordsDiffer DEF Check
    <2> HIDE DEF Opts
    <2>8. CASE x.waits
      <3>1. Step(x, i, w) = [x EXCEPT !.waits = FALSE,
                                      !.options = WithPath(@, v, w)]
        BY <2>2, <2>8
      <3>2. /\ ~ Step(x, i, w).waits
            /\ Step(x, i, w).options = WithPath(o, v, w)
        BY <2>3, <3>1
      <3> QED
        BY <2>1, <2>3, <2>5, <2>8, <3>2
    <2>9. CASE ~ x.waits /\ w \in TakesPath
      <3>1. Step(x, i, w) = [x EXCEPT !.waits = TRUE]
        BY <2>7, <2>9, Zenon
      <3>2. Step(x, i, w).waits /\ Step(x, i, w).options = o
        BY <2>3, <3>1
      <3>3. w # Check
        BY <2>7, <2>9
      <3> QED
        BY <2>1, <2>3, <2>9, <3>2, <3>3
    <2>10. CASE ~ x.waits /\ w \notin TakesPath /\ w \in Flags
      <3>1. Step(x, i, w) = [x EXCEPT !.options = WithFlag(@, w)]
        BY <2>10
      <3>2. /\ Step(x, i, w).waits = x.waits
            /\ Step(x, i, w).options = WithFlag(o, w)
        BY <2>3, <3>1
      <3> QED
        BY <2>1, <2>3, <2>6, <2>10, <3>2
    <2>11. CASE ~ x.waits /\ w \notin TakesPath /\ w \notin Flags
      <3>1. Step(x, i, w) = [x EXCEPT !.ok = FALSE]
        BY <2>11
      <3>2. Step(x, i, w).waits = x.waits /\ Step(x, i, w).options = o
        BY <2>3, <3>1
      <3>3. w # Check
        BY <2>7, <2>11
      <3> QED
        BY <2>1, <2>3, <2>11, <3>2, <3>3
    <2> QED
      BY <2>8, <2>9, <2>10, <2>11
  <1> HIDE DEF Step
  <1>6. F \in [D \X (1..n) -> D]
    <2> HIDE DEF Body, D, n
    <2> QED
      BY <1>3
  <1>7. \A x \in D, i \in 1..n : F[<<x, i>>] = Body(x, i)
    <2> HIDE DEF Body, D, n
    <2> QED
      OBVIOUS
  <1> HIDE DEF F, D, r, n
  <1>8. PICK g : Loops(g, n, D, r, F)
    BY <1>1, <1>2, <1>6, LoopExists
  <1>9. g = Loop(g)
    <2>1. ASSUME NEW i \in 1..n
          PROVE  g[i] = Body(g[i - 1], i)
      <3>1. i - 1 \in 0..n
        BY <1>1
      <3>2. g[i - 1] \in D /\ g[i] = F[<<g[i - 1], i>>]
        BY <1>8, <3>1 DEF Loops
      <3> QED
        BY <1>7, <3>2
    <2>2. ASSUME NEW i \in 0..n
          PROVE  g[i] = Loop(g)[i]
      <3>1. CASE i = 0
        BY <1>8, <3>1 DEF Loops
      <3>2. CASE i \in 1..n
        <4>1. i # 0
          BY <1>1, <3>2
        <4> QED
          BY <2>1, <3>2, <4>1
      <3> QED
        BY <1>1, <3>1, <3>2
    <2>3. g \in [0..n -> D]
      BY <1>8 DEF Loops
    <2>4. Loop(g) = [i \in 0..n |-> Loop(g)[i]]
      OBVIOUS
    <2> HIDE DEF Loop
    <2> QED
      BY <2>2, <2>3, <2>4
  <1>10. parsed = Loop(parsed)
    BY <1>9, Zenon
  <1>11. ParseOptions(arguments).options = parsed[n].options
    BY DEF ParseOptions, Step, r, n
  <1> HIDE DEF parsed
  <1>12. parsed[0] = r
    BY <1>1, <1>10
  <1>13. ASSUME NEW i \in 1..n
         PROVE  parsed[i] = Body(parsed[i - 1], i)
    <2>1. i # 0 /\ i \in 0..n
      BY <1>1
    <2> QED
      BY <1>10, <2>1
  <1>14. \A i \in 0..n : parsed[i] \in D
    <2> HIDE DEF Body
    <2> QED
      BY <1>1, <1>2, <1>3, <1>12, <1>13, LoopStays
  <1>15. 0 \in T
    <2>1. ~ r.waits /\ ~ r.options.check_config
      BY DEF r, Options
    <2>2. ~ Asked(arguments, 0)
      BY DEF Asked
    <2>3. 0 \in 0..n
      BY <1>1
    <2> QED
      BY <1>12, <2>1, <2>2, <2>3 DEF Read
  <1>16. ASSUME NEW j \in 1..n, j - 1 \in T
         PROVE  j \in T
    <2>1. PICK x : x = parsed[j - 1]
      OBVIOUS
    <2>2. PICK y : y = parsed[j]
      OBVIOUS
    <2>3. /\ j - 1 \in 0..n /\ j \in 0..n /\ j # 0
          /\ j - 1 = 0 \/ j - 1 \in Nat \ {0}
          /\ (j - 1) + 1 = j
      BY <1>1
    <2>4. x \in D /\ y = Step(x, j, arguments[j]) /\ Read(arguments, j - 1, x)
      BY <1>13, <1>14, <1>16, <2>1, <2>2, <2>3
    <2>5. IsOption(arguments, j) <=> ~ x.waits
      <3>1. CASE j - 1 = 0
        <4>1. j = 1 /\ IsOption(arguments, 1) /\ ~ x.waits
          BY <2>3, <2>4, <3>1, NextOption DEF Read
        <4> QED
          BY <4>1
      <3>2. CASE j - 1 \in Nat \ {0}
        <4>1. IsOption(arguments, (j - 1) + 1)
                <=> ~ (arguments[j - 1] \in TakesPath
                         /\ IsOption(arguments, j - 1))
          BY <3>2, NextOption
        <4>2. j - 1 # 0
          BY <3>2
        <4> QED
          BY <2>3, <2>4, <4>1, <4>2 DEF Read
      <3> QED
        BY <2>3, <3>1, <3>2
    <2>6. Asked(arguments, j) <=> \/ Asked(arguments, j - 1)
                                  \/ arguments[j] = Check /\ IsOption(arguments, j)
      <3>1. \A i : i \in 1..j <=> i \in 1..(j - 1) \/ i = j
        BY <1>1
      <3> QED
        BY <3>1 DEF Asked
    <2>7. y.waits <=> j # 0 /\ arguments[j] \in TakesPath /\ IsOption(arguments, j)
      BY <1>5, <2>3, <2>4, <2>5
    <2>8. y.options.check_config <=> Asked(arguments, j)
      BY <1>5, <2>4, <2>5, <2>6 DEF Read
    <2>9. Read(arguments, j, y)
      BY <2>7, <2>8 DEF Read
    <2> QED
      BY <2>2, <2>3, <2>9
  <1>17. \A j \in 0..n : j \in T
    <2> HIDE DEF T
    <2> QED
      BY <1>1, <1>15, <1>16, UpTo
  <1>18. Read(arguments, n, parsed[n])
    <2>1. n \in 0..n
      BY <1>1
    <2> QED
      BY <1>17, <2>1
  <1> QED
    BY <1>11, <1>18 DEF Read, n

\* The options of the two ways to write it.
LEMMA AskedMeaning ==
  ASSUME NEW arguments, IsList(arguments)
  PROVE  Asked(arguments, Len(arguments)) <=>
           \E i \in DOMAIN arguments :
             arguments[i] = <<"--check-config">> /\ IsOption(arguments, i)
PROOF
  <1>1. DOMAIN arguments = 1..Len(arguments)
    BY ListMeaning
  <1> QED
    BY <1>1 DEF Asked, Check

-----------------------------------------------------------------------------
\* The inductive invariant.  main is past its options only with those the
\* words ask for, and whether it checks or runs is the first of them; the
\* environment consists of texts; and what runs has been found sound.
Checking == ParseOptions(world.arguments).options.check_config

Inv ==
  /\ world \in Worlds
  /\ stage \in {"environment", "configuration"} =>
       options = ParseOptions(world.arguments).options
  /\ stage = "checked" => Checking
  /\ stage \in {"running", "ended"} => ~ Checking
  /\ stage = "configuration" => Texts(environment)
  /\ RunningIsSound

\* It holds at first.
LEMMA InitInv == Init => Inv
PROOF
  BY DEF Init, Inv, RunningIsSound

\* Every step keeps it.
LEMMA NextInv ==
  ASSUME Inv, [Next]_vars
  PROVE  Inv'
PROOF
  <1>1. CASE ReadOptions
    <2>1. world' = world /\ environment' = environment
      BY <1>1 DEF ReadOptions
    <2>2. options' = ParseOptions(world.arguments).options
      BY <1>1 DEF ReadOptions
    <2>3. stage' \in {"failed", "helped", "environment"}
      BY <1>1 DEF ReadOptions, Fail
    <2> QED
      BY <2>1, <2>2, <2>3 DEF Inv, RunningIsSound
  <1>2. CASE LoadEnvironment
    <2>1. /\ stage = "environment"
          /\ UNCHANGED <<options, config_path, config, world>>
      BY <1>2 DEF LoadEnvironment
    <2>2. PICK loaded : loaded = LoadEnvFile(world.lines)
      OBVIOUS
    <2>3. \/ /\ loaded.ok /\ stage' = "configuration"
             /\ environment' = Overlay(loaded.environment, world.process)
          \/ stage' = "failed"
      BY <1>2, <2>2 DEF LoadEnvironment, Fail
    <2>4. ASSUME loaded.ok
          PROVE  Texts(Overlay(loaded.environment, world.process))
      <3>1. /\ IsList(world.lines)
            /\ \A i \in DOMAIN world.lines : IsList(world.lines[i])
            /\ Texts(world.process)
        BY WorldsAssumption DEF Inv, Texts
      <3>2. Texts(loaded.environment)
        BY <2>2, <2>4, <3>1, FileHasTexts
      <3> QED
        BY <3>1, <3>2, OverlayHasTexts
    <2>5. options' = ParseOptions(world'.arguments).options
      BY <2>1 DEF Inv
    <2> QED
      BY <2>1, <2>3, <2>4, <2>5 DEF Inv, RunningIsSound
  <1>3. CASE ReadConfiguration
    <2>1. /\ stage = "configuration"
          /\ UNCHANGED <<options, environment, world>>
      BY <1>3 DEF ReadConfiguration
    <2>2. PICK parsed : parsed = IF world.json = None THEN Failed
                                 ELSE ParseRuntimeConfig(environment, world.json)
      OBVIOUS
    <2>3. /\ config' = parsed
          /\ \/ stage' = "failed"
             \/ parsed.ok /\ options.check_config /\ stage' = "checked"
             \/ parsed.ok /\ ~ options.check_config /\ stage' = "running"
      BY <1>3, <2>2 DEF ReadConfiguration, Fail
    <2>4. options.check_config <=> Checking
      BY <2>1 DEF Inv, Checking
    <2>5. Checking' <=> Checking
      BY <2>1 DEF Checking
    <2>6. ASSUME stage' = "running" PROVE RunningIsSound'
      <3>1. parsed.ok
        BY <2>3, <2>6
      <3>2. world.json # None /\ parsed = ParseRuntimeConfig(environment, world.json)
        BY <2>2, <3>1 DEF Failed
      <3>3. WellTyped(world.json) /\ Texts(environment)
        BY <2>1, <3>2, WorldsAssumption DEF Inv
      <3>4. IsSound(parsed, world.json)
        BY <3>1, <3>2, <3>3, ConfigurationIsSound
      <3> QED
        BY <2>1, <2>3, <3>4 DEF RunningIsSound, IsSound
    <2>7. RunningIsSound'
      <3>1. CASE stage' = "running"
        BY <2>6, <3>1
      <3>2. CASE stage' # "running"
        BY <3>2 DEF RunningIsSound
      <3> QED
        BY <3>1, <3>2
    <2> QED
      BY <2>1, <2>3, <2>4, <2>5, <2>7 DEF Inv
  <1>4. CASE RunClient
    <2>1. /\ stage = "running" /\ stage' \in {"failed", "ended"}
          /\ UNCHANGED <<options, environment, config_path, config, world>>
      BY <1>4 DEF RunClient, Fail
    <2>2. ~ Checking'
      BY <2>1 DEF Inv, Checking
    <2> QED
      BY <2>1, <2>2 DEF Inv, RunningIsSound
  <1>5. CASE UNCHANGED vars
    BY <1>5 DEF vars, Inv, RunningIsSound, Checking
  <1>6. CASE Terminated
    BY <1>5, <1>6 DEF Terminated
  <1> QED
    BY <1>1, <1>2, <1>3, <1>4, <1>5, <1>6 DEF Next

\* It is an invariant.
THEOREM SpecInv == Spec => []Inv
PROOF
  <1> QED
    BY InitInv, NextInv, PTL DEF Spec

\* A bot that runs has what the other parts rely on without looking: what
\* Automation assumes of its settings (SettingsAssumption), channels to join,
\* and responses that fit in a line (parse_runtime_config).
THEOREM RunsSoundly == Spec => []RunningIsSound
PROOF
  <1>1. Inv => RunningIsSound
    BY DEF Inv
  <1> QED
    BY <1>1, SpecInv, PTL

\* --check-config ends after validation, and nothing else does: main never
\* makes a client with it and never stops short of one without it, and the
\* word counts as an option only where parse_options reads one.
THEOREM ChecksAreDry == Spec => []CheckIsDry
PROOF
  <1>1. ASSUME Inv PROVE CheckIsDry
    <2>1. IsList(world.arguments)
      BY <1>1, WorldsAssumption DEF Inv
    <2>2. Checking <=>
            \E i \in DOMAIN world.arguments :
              /\ world.arguments[i] = <<"--check-config">>
              /\ IsOption(world.arguments, i)
      BY <2>1, OptionsAreRead, AskedMeaning DEF Checking
    <2> QED
      BY <1>1, <2>2 DEF Inv, CheckIsDry
  <1> QED
    BY <1>1, SpecInv, PTL
=============================================================================
