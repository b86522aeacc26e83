-------------------------- MODULE IrcMessageProofs --------------------------
(***************************************************************************)
(* Theorems about the parser and the encoder, for every line and every     *)
(* limit.  The argument relates the cursor of each loop to the positions   *)
(* of the line it has passed: the parameters to the words that start there *)
(* (Scanned), the escaped symbols of a tag to the parity of the            *)
(* backslashes in front of them (Marks), the tags to the last part between *)
(* semicolons of each key (Mapped).                                        *)
(***************************************************************************)
EXTENDS IrcMessage, Foundations

-----------------------------------------------------------------------------
\* What std::string::find returns.
FindsAt(text, symbol, from, p) ==
  /\ p \in from..(Len(text) + 1)
  /\ p = Len(text) + 1 \/ text[p] = symbol
  /\ \A q \in from..(p - 1) : text[q] # symbol

\* Find returns the first place, or the end.
LEMMA FindIs ==
  ASSUME NEW text, IsList(text), NEW symbol, NEW from \in 1..(Len(text) + 1)
  PROVE  FindsAt(text, symbol, from, Find(text, symbol, from))
PROOF
  <1>1. PICK n : n = Len(text) + 1
    OBVIOUS
  <1>2. n \in Nat
    BY <1>1, ListMeaning
  <1> DEFINE T == {p \in from..n : text[p] = symbol}
  <1>3. PICK p \in from..n : /\ p = n \/ p \in T
                             /\ \A q \in from..(p - 1) : q \notin T
    <2> HIDE DEF T
    <2> QED
      BY <1>1, <1>2, FirstPlace
  <1>4. \A q \in from..(p - 1) : q \in from..n
    BY <1>2
  <1>5. \E x \in from..n : /\ x = n \/ text[x] = symbol
                           /\ \A q \in from..(x - 1) : text[q] # symbol
    BY <1>3, <1>4
  <1> QED
    BY <1>1, <1>5 DEF Find, FindsAt

\* And the only such place.
LEMMA FindUnique ==
  ASSUME NEW text, IsList(text), NEW symbol, NEW from \in 1..(Len(text) + 1),
         NEW p, FindsAt(text, symbol, from, p)
  PROVE  Find(text, symbol, from) = p
PROOF
  <1>1. PICK n : n = Len(text) + 1
    OBVIOUS
  <1>2. n \in Nat
    BY <1>1, ListMeaning
  <1>3. PICK f : f = Find(text, symbol, from)
    OBVIOUS
  <1>4. /\ f \in from..n /\ p \in from..n
        /\ f = n \/ text[f] = symbol
        /\ p = n \/ text[p] = symbol
        /\ \A q \in from..(f - 1) : text[q] # symbol
        /\ \A q \in from..(p - 1) : text[q] # symbol
    BY <1>1, <1>3, FindIs DEF FindsAt
  <1>5. ~ (f < p)
    <2>1. ASSUME f < p PROVE FALSE
      <3>1. f \in from..(p - 1) /\ f # n
        BY <1>2, <1>4, <2>1
      <3> QED
        BY <1>4, <3>1
    <2> QED
      BY <2>1
  <1>6. ~ (p < f)
    <2>1. ASSUME p < f PROVE FALSE
      <3>1. p \in from..(f - 1) /\ p # n
        BY <1>2, <1>4, <2>1
      <3> QED
        BY <1>4, <3>1
    <2> QED
      BY <2>1
  <1> QED
    BY <1>2, <1>3, <1>4, <1>5, <1>6

\* What the loop over blanks returns.
SkipsTo(text, symbol, from, p) ==
  /\ p \in from..(Len(text) + 1)
  /\ p = Len(text) + 1 \/ text[p] # symbol
  /\ \A q \in from..(p - 1) : text[q] = symbol

\* Skip returns the first place that is not a blank, or the end.
LEMMA SkipIs ==
  ASSUME NEW text, IsList(text), NEW symbol, NEW from \in 1..(Len(text) + 1)
  PROVE  SkipsTo(text, symbol, from, Skip(text, symbol, from))
PROOF
  <1>1. PICK n : n = Len(text) + 1
    OBVIOUS
  <1>2. n \in Nat
    BY <1>1, ListMeaning
  <1> DEFINE T == {p \in from..n : text[p] # symbol}
  <1>3. PICK p \in from..n : /\ p = n \/ p \in T
                             /\ \A q \in from..(p - 1) : q \notin T
    <2> HIDE DEF T
    <2> QED
      BY <1>1, <1>2, FirstPlace
  <1>4. \A q \in from..(p - 1) : q \in from..n
    BY <1>2
  <1>5. \E x \in from..n : /\ x = n \/ text[x] # symbol
                           /\ \A q \in from..(x - 1) : text[q] = symbol
    BY <1>3, <1>4
  <1> QED
    BY <1>1, <1>5 DEF Skip, SkipsTo

\* Where nothing is to be skipped it returns where it is.
LEMMA SkipNothing ==
  ASSUME NEW text, IsList(text), NEW symbol, NEW from \in 1..Len(text),
         text[from] # symbol
  PROVE  Skip(text, symbol, from) = from
PROOF
  <1>1. PICK p : p = Skip(text, symbol, from)
    OBVIOUS
  <1>2. Len(text) \in Nat /\ from \in 1..(Len(text) + 1)
    BY ListMeaning
  <1>3. /\ p \in from..(Len(text) + 1)
        /\ \A q \in from..(p - 1) : text[q] = symbol
    BY <1>1, <1>2, SkipIs DEF SkipsTo
  <1>4. ~ (from < p)
    <2>1. ASSUME from < p PROVE FALSE
      <3>1. from \in from..(p - 1)
        BY <1>2, <1>3, <2>1
      <3> QED
        BY <1>3, <3>1
    <2> QED
      BY <2>1
  <1> QED
    BY <1>1, <1>2, <1>3, <1>4
-----------------------------------------------------------------------------
\* Symbols the provers need by a name.
Space == " "

\* One round of the loop over the parameters.
Round(text, s) ==
  IF s.position > Len(text) THEN s
  ELSE NextParameter(text, s, Skip(text, Space, s.position))

\* What the loop holds.
Cuts(text) ==
  {SubSeq(text, i, j) : i \in 1..(Len(text) + 1), j \in 0..Len(text)}

Reading(text) ==
  [ position : Nat \ {0}, middle : Seq(Cuts(text)),
    trailing : {<< >>} \cup {<<w>> : w \in Cuts(text)} ]

\* A round of the parameter loop, with a name for the blank.
LEMMA NextParameterIs ==
  ASSUME NEW text, NEW found, NEW start
  PROVE  NextParameter(text, found, start) =
           LET n == Len(text)
               end == Find(text, Space, start)
           IN  IF start > n THEN [found EXCEPT !.position = n + 1]
               ELSE IF text[start] = ":"
               THEN [found EXCEPT !.position = n + 1,
                                  !.trailing = <<SubSeq(text, start + 1, n)>>]
               ELSE [found EXCEPT !.position = end + 1,
                                  !.middle = Append(@, SubSeq(text, start,
                                                              end - 1))]
PROOF
  BY Zenon DEF NextParameter, Space

\* What follows a colon, as the trailing parameter.
Behind(text, start) == <<SubSeq(text, start + 1, Len(text))>>

\* A word with a colon is the trailing parameter.
LEMMA NextIsTrailing ==
  ASSUME NEW text, NEW found \in Reading(text), NEW start,
         ~ (start > Len(text)), text[start] = ":",
         NEW next, next = NextParameter(text, found, start)
  PROVE  /\ next.position = Len(text) + 1
         /\ next.middle = found.middle
         /\ next.trailing = Behind(text, start)
PROOF
  <1>1. next = [found EXCEPT !.position = Len(text) + 1,
                             !.trailing = <<SubSeq(text, start + 1, Len(text))>>]
    BY Zenon, NextParameterIs
  <1>2. PICK x : x = <<SubSeq(text, start + 1, Len(text))>>
    OBVIOUS
  <1>3. PICK y : y = Len(text) + 1
    OBVIOUS
  <1>4. next = [found EXCEPT !.position = y, !.trailing = x]
    BY <1>1, <1>2, <1>3
  <1> QED
    BY <1>2, <1>3, <1>4 DEF Reading, Behind

\* Any other word is one of the middle.
LEMMA NextIsMiddle ==
  ASSUME NEW text, NEW found \in Reading(text), NEW start,
         ~ (start > Len(text)), text[start] # ":",
         NEW next, next = NextParameter(text, found, start)
  PROVE  /\ next.position = Find(text, Space, start) + 1
         /\ next.middle = Append(found.middle,
                           SubSeq(text, start, Find(text, Space, start) - 1))
         /\ next.trailing = found.trailing
PROOF
  <1> DEFINE end == Find(text, Space, start)
  <1>1. next = [found EXCEPT !.position = end + 1,
                             !.middle = Append(@, SubSeq(text, start, end - 1))]
    BY Zenon, NextParameterIs
  <1>2. PICK x : x = SubSeq(text, start, end - 1)
    OBVIOUS
  <1>3. PICK y : y = end + 1
    OBVIOUS
  <1>4. next = [found EXCEPT !.position = y, !.middle = Append(@, x)]
    BY <1>1, <1>2, <1>3
  <1> QED
    BY <1>2, <1>3, <1>4 DEF Reading

\* Where the loop begins.
LEMMA NoneRead ==
  ASSUME NEW text
  PROVE  NoParameters \in Reading(text)
PROOF
  <1>1. << >> \in Seq(Cuts(text))
    BY EmptySeq
  <1> QED
    BY <1>1 DEF NoParameters, Reading

\* A word as the code cuts it.
LEMMA CutIsCut ==
  ASSUME NEW text, NEW i \in 1..(Len(text) + 1), NEW j \in 0..Len(text)
  PROVE  SubSeq(text, i, j) \in Cuts(text)
PROOF
  BY DEF Cuts

\* A round keeps the types and moves the cursor.
LEMMA RoundType ==
  ASSUME NEW text, IsList(text), NEW s \in Reading(text)
  PROVE  Round(text, s) \in Reading(text)
PROOF
  <1>1. PICK n : n = Len(text)
    OBVIOUS
  <1>2. n \in Nat
    BY <1>1, ListMeaning
  <1>3. s.position \in Nat \ {0} /\ s.middle \in Seq(Cuts(text))
    BY DEF Reading
  <1>4. PICK start : start = Skip(text, Space, s.position)
    OBVIOUS
  <1>5. PICK end : end = Find(text, Space, start)
    OBVIOUS
  <1>6. CASE s.position > n
    BY <1>1, <1>6 DEF Round
  <1>7. CASE s.position \in 1..n
    <2>1. Round(text, s) = NextParameter(text, s, start)
      <3>1. ~ (s.position > Len(text))
        BY <1>1, <1>2, <1>7
      <3> QED
        BY <1>4, <3>1 DEF Round
    <2>2. start \in 1..(n + 1)
      <3>1. s.position \in 1..(Len(text) + 1)
        BY <1>1, <1>2, <1>7
      <3>2. start \in s.position..(n + 1)
        BY <1>1, <1>4, <3>1, SkipIs DEF SkipsTo
      <3> QED
        BY <1>2, <1>7, <3>2
    <2>3. end \in 1..(n + 1)
      <3>1. end \in start..(n + 1)
        BY <1>1, <1>5, <2>2, FindIs DEF FindsAt
      <3> QED
        BY <1>2, <2>2, <3>1
    <2>4. ASSUME start <= n
          PROVE  /\ SubSeq(text, start + 1, n) \in Cuts(text)
                 /\ SubSeq(text, start, end - 1) \in Cuts(text)
      <3>1. /\ start + 1 \in 1..(n + 1) /\ start \in 1..(n + 1)
            /\ n \in 0..n /\ end - 1 \in 0..n
        BY <1>2, <2>2, <2>3, <2>4
      <3> QED
        BY <1>1, <3>1, CutIsCut
    <2>5. start <= n => Append(s.middle, SubSeq(text, start, end - 1))
                          \in Seq(Cuts(text))
      BY <1>3, <2>4, AppendProperties
    <2>6. n + 1 \in Nat \ {0} /\ end + 1 \in Nat \ {0}
      BY <1>2, <2>3
    <2>7. NextParameter(text, s, start) \in Reading(text)
      <3>1. CASE start > n
        BY <1>1, <2>6, <3>1, NextParameterIs DEF Reading
      <3>2. CASE start <= n
        BY <1>1, <1>5, <2>4, <2>5, <2>6, <3>2, NextParameterIs
           DEF Reading
      <3> QED
        BY <1>2, <2>2, <3>1, <3>2
    <2> QED
      BY <2>1, <2>7
  <1> QED
    BY <1>2, <1>3, <1>6, <1>7

\* The loop over the parameters has its sequence of values.
LEMMA ParametersLoop ==
  ASSUME NEW text, IsList(text)
  PROVE  \E found : /\ found[0] = NoParameters
                    /\ \A k \in 0..Len(text) : found[k] \in Reading(text)
                    /\ \A k \in 1..Len(text) :
                         found[k] = Round(text, found[k - 1])
                    /\ Parameters(text) = found[Len(text)]
PROOF
  <1> DEFINE n == Len(text)
             D == Reading(text)
             F == [d \in D \X (1..n) |-> Round(text, d[1])]
             Loop(f) == [k \in 0..n |->
                           IF k = 0 THEN NoParameters
                           ELSE IF f[k - 1].position > n THEN f[k - 1]
                           ELSE NextParameter(text, f[k - 1],
                                  Skip(text, Space, f[k - 1].position))]
             found == CHOOSE f : f = Loop(f)
  <1>1. n \in Nat
    BY ListMeaning
  <1>2. NoParameters \in D
    BY NoneRead
  <1>3. \A x \in D : Round(text, x) \in D
    BY RoundType
  <1>4. Parameters(text) = found[n]
    BY Zenon DEF Parameters, Space
  <1>14. \A x : Round(text, x) = IF x.position > n THEN x
                                 ELSE NextParameter(text, x,
                                        Skip(text, Space, x.position))
    BY DEF Round
  <1> HIDE DEF D, n
  <1>5. F \in [D \X (1..n) -> D]
    BY <1>3
  <1>6. \A x \in D, k \in 1..n : F[<<x, k>>] = Round(text, x)
    OBVIOUS
  <1> HIDE DEF F
  <1>7. PICK g : Loops(g, n, D, NoParameters, F)
    BY <1>1, <1>2, <1>5, LoopExists
  <1>8. g = Loop(g)
    <2>1. ASSUME NEW k \in 1..n
          PROVE  g[k] = Round(text, g[k - 1])
      <3>1. k - 1 \in 0..n
        BY <1>1
      <3>2. g[k - 1] \in D /\ g[k] = F[<<g[k - 1], k>>]
        BY <1>7, <3>1 DEF Loops
      <3> QED
        BY <1>6, <3>2
    <2>2. ASSUME NEW k \in 0..n
          PROVE  g[k] = Loop(g)[k]
      <3>1. CASE k = 0
        <4>1. Loop(g)[0] = NoParameters
          BY <1>1
        <4>2. g[0] = NoParameters
          BY <1>7 DEF Loops
        <4> HIDE DEF Loop
        <4> QED
          BY <3>1, <4>1, <4>2
      <3>2. CASE k \in 1..n
        <4>2. k # 0 /\ k \in 0..n
          BY <1>1, <3>2
        <4>1. Loop(g)[k] = Round(text, g[k - 1])
          BY <1>14, <4>2
        <4> HIDE DEF Loop
        <4> QED
          BY <2>1, <3>2, <4>1
      <3> HIDE DEF Loop
      <3> QED
        BY <1>1, <3>1, <3>2
    <2>3. g \in [0..n -> D]
      BY <1>7 DEF Loops
    <2>4. Loop(g) = [k \in 0..n |-> Loop(g)[k]]
      OBVIOUS
    <2> HIDE DEF Loop
    <2> QED
      BY <2>2, <2>3, <2>4
  <1>9. found = Loop(found)
    BY <1>8, Zenon
  <1> HIDE DEF found
  <1>10. found[0] = NoParameters
    <2>1. Loop(found)[0] = NoParameters
      BY <1>1
    <2> HIDE DEF Loop
    <2> QED
      BY <1>9, <2>1
  <1>11. ASSUME NEW k \in 1..n
         PROVE  found[k] = Round(text, found[k - 1])
    <2>2. k # 0 /\ k \in 0..n
      BY <1>1
    <2>1. Loop(found)[k] = Round(text, found[k - 1])
      BY <1>14, <2>2
    <2> HIDE DEF Loop
    <2> QED
      BY <1>9, <2>1
  <1>12. \A k \in 1..n : found[k - 1] \in D => found[k] \in D
    BY <1>3, <1>11
  <1>13. \A k \in 0..n : found[k] \in D
    BY <1>1, <1>2, <1>10, <1>12, LoopStays
  <1> QED
    BY <1>4, <1>10, <1>11, <1>13 DEF D, n
\* A loop that has come to the end stays there.
LEMMA LoopEnds ==
  ASSUME NEW text, IsList(text), NEW found,
         \A k \in 1..Len(text) : found[k] = Round(text, found[k - 1]),
         NEW j \in 0..Len(text), found[j].position > Len(text)
  PROVE  found[Len(text)] = found[j]
PROOF
  <1>1. PICK n : n = Len(text)
    OBVIOUS
  <1>2. n \in Nat
    BY <1>1, ListMeaning
  <1> DEFINE T == {k \in 0..n : k >= j => found[k] = found[j]}
  <1>3. 0 \in T
    BY <1>1, <1>2
  <1>4. ASSUME NEW k \in 1..n, k - 1 \in T
        PROVE  k \in T
    <2>1. CASE k - 1 >= j
      <3>1. found[k - 1] = found[j]
        BY <1>4, <2>1
      <3>2. found[k] = Round(text, found[j])
        BY <1>1, <3>1
      <3> QED
        BY <1>1, <1>2, <3>2 DEF Round
    <2>2. CASE ~ (k - 1 >= j)
      BY <1>1, <1>2, <2>2
    <2> QED
      BY <2>1, <2>2
  <1>5. \A k \in 0..n : k \in T
    BY <1>2, <1>3, <1>4, UpTo
  <1>6. n \in T /\ n >= j
    BY <1>1, <1>2, <1>5
  <1> QED
    BY <1>1, <1>6

-----------------------------------------------------------------------------
\* A trailing parameter alone: what follows the colon is the parameter.
LEMMA OneParameter ==
  ASSUME NEW text, IsList(text), text # << >>, text[1] = ":"
  PROVE  /\ Parameters(text).middle = << >>
         /\ Parameters(text).trailing = <<SubSeq(text, 2, Len(text))>>
PROOF
  <1>1. PICK n : n = Len(text)
    OBVIOUS
  <1>2. n \in Nat \ {0}
    BY <1>1, ListMeaning
  <1>3. PICK found : /\ found[0] = NoParameters
                     /\ \A k \in 1..n : found[k] = Round(text, found[k - 1])
                     /\ Parameters(text) = found[n]
    BY <1>1, ParametersLoop
  <1>4. Skip(text, Space, 1) = 1
    <2>1. Space # ":"
      BY Zenon DEF Space
    <2> QED
      BY <1>1, <1>2, <2>1, SkipNothing
  <1>5. Round(text, NoParameters) = NextParameter(text, NoParameters, 1)
    BY <1>1, <1>2, <1>4 DEF Round, NoParameters
  <1>6. found[1] = NextParameter(text, NoParameters, 1)
    <2>1. 1 \in 1..n /\ 1 - 1 = 0
      BY <1>2
    <2> QED
      BY <1>3, <1>5, <2>1
  <1>8. /\ found[1].position = n + 1 /\ found[1].middle = << >>
        /\ found[1].trailing = <<SubSeq(text, 2, n)>>
    <2>1. ~ (1 > Len(text)) /\ 1 + 1 = 2
      BY <1>1, <1>2
    <2>2. NoParameters \in Reading(text) /\ NoParameters.middle = << >>
      BY NoneRead DEF NoParameters
    <2>3. /\ found[1].position = Len(text) + 1
          /\ found[1].middle = NoParameters.middle
          /\ found[1].trailing = Behind(text, 1)
      BY <1>6, <2>1, <2>2, NextIsTrailing
    <2>4. Behind(text, 1) = <<SubSeq(text, 2, Len(text))>>
      BY DEF Behind
    <2> QED
      BY <1>1, <2>1, <2>2, <2>3, <2>4
  <1>9. found[n] = found[1]
    BY <1>1, <1>2, <1>3, <1>8, LoopEnds
  <1> QED
    BY <1>1, <1>3, <1>8, <1>9

\* One in the middle and the trailing one: the first is what precedes the
\* blank in front of the colon.
LEMMA TwoParameters ==
  ASSUME NEW text, IsList(text), NEW b \in 2..(Len(text) - 1),
         \A i \in 1..(b - 1) : text[i] # Space, text[1] # ":",
         text[b] = Space, text[b + 1] = ":"
  PROVE  /\ Parameters(text).middle = <<SubSeq(text, 1, b - 1)>>
         /\ Parameters(text).trailing = <<SubSeq(text, b + 2, Len(text))>>
PROOF
  <1>1. PICK n : n = Len(text)
    OBVIOUS
  <1>2. n \in Nat \ {0, 1, 2} /\ b \in 2..(n - 1)
    BY <1>1, ListMeaning
  <1>3. PICK found : /\ found[0] = NoParameters
                     /\ \A k \in 1..n : found[k] = Round(text, found[k - 1])
                     /\ Parameters(text) = found[n]
    BY <1>1, ParametersLoop
  <1>4. Skip(text, Space, 1) = 1
    <2>1. 1 \in 1..Len(text) /\ text[1] # Space
      BY <1>1, <1>2
    <2> QED
      BY <2>1, SkipNothing
  <1>5. Find(text, Space, 1) = b
    <2>1. FindsAt(text, Space, 1, b) /\ 1 \in 1..(Len(text) + 1)
      BY <1>1, <1>2 DEF FindsAt
    <2> QED
      BY <2>1, FindUnique
  <1>6. found[1] = NextParameter(text, NoParameters, 1)
    <2>1. Round(text, NoParameters) = NextParameter(text, NoParameters, 1)
      BY <1>1, <1>2, <1>4 DEF Round, NoParameters
    <2>2. 1 \in 1..n /\ 1 - 1 = 0
      BY <1>2
    <2> QED
      BY <1>3, <2>1, <2>2
  <1>7. /\ found[1].position = b + 1 /\ found[1].trailing = << >>
        /\ found[1].middle = <<SubSeq(text, 1, b - 1)>>
    <2>1. ~ (1 > Len(text)) /\ text[1] # ":"
      BY <1>1, <1>2
    <2>2. /\ NoParameters \in Reading(text) /\ NoParameters.middle = << >>
          /\ NoParameters.trailing = << >>
      BY NoneRead DEF NoParameters
    <2>3. /\ found[1].position = Find(text, Space, 1) + 1
          /\ found[1].middle = Append(NoParameters.middle,
                                SubSeq(text, 1, Find(text, Space, 1) - 1))
          /\ found[1].trailing = NoParameters.trailing
      BY <1>6, <2>1, <2>2, NextIsMiddle
    <2>4. \A word : Append(<< >>, word) = <<word>>
      OBVIOUS
    <2> QED
      BY <1>5, <2>2, <2>3, <2>4
  <1>8. PICK s : s = found[1]
    OBVIOUS
  <1>9. Skip(text, Space, b + 1) = b + 1
    <2>1. Space # ":"
      BY Zenon DEF Space
    <2>2. b + 1 \in 1..Len(text) /\ text[b + 1] # Space
      BY <1>1, <1>2, <2>1
    <2> QED
      BY <2>2, SkipNothing
  <1>10. found[2] = NextParameter(text, s, b + 1)
    <2>1. Round(text, s) = NextParameter(text, s, b + 1)
      BY <1>1, <1>2, <1>7, <1>8, <1>9 DEF Round
    <2>2. 2 \in 1..n /\ 2 - 1 = 1
      BY <1>2
    <2> QED
      BY <1>3, <1>8, <2>1, <2>2
  <1>11. s \in Reading(text)
    <2>1. PICK g : /\ g[0] = NoParameters
                   /\ \A k \in 0..n : g[k] \in Reading(text)
                   /\ \A k \in 1..n : g[k] = Round(text, g[k - 1])
      BY <1>1, ParametersLoop
    <2>2. 1 \in 1..n /\ 1 \in 0..n /\ 1 - 1 = 0
      BY <1>2
    <2>3. g[1] = found[1]
      BY <1>3, <2>1, <2>2
    <2> QED
      BY <1>8, <2>1, <2>2, <2>3
  <1>13. /\ found[2].position = n + 1 /\ found[2].middle = s.middle
         /\ found[2].trailing = <<SubSeq(text, b + 2, n)>>
    <2>1. ~ (b + 1 > Len(text)) /\ (b + 1) + 1 = b + 2
      BY <1>1, <1>2
    <2>2. /\ found[2].position = Len(text) + 1 /\ found[2].middle = s.middle
          /\ found[2].trailing = Behind(text, b + 1)
      BY <1>10, <1>11, <2>1, NextIsTrailing
    <2>3. Behind(text, b + 1) = <<SubSeq(text, b + 2, Len(text))>>
      BY <2>1 DEF Behind
    <2> QED
      BY <1>1, <2>1, <2>2, <2>3
  <1>14. found[n] = found[2]
    <2>1. 2 \in 0..Len(text) /\ found[2].position > Len(text)
      BY <1>1, <1>2, <1>13
    <2> QED
      BY <1>1, <1>3, <2>1, LoopEnds
  <1> QED
    BY <1>1, <1>3, <1>7, <1>8, <1>13, <1>14

-----------------------------------------------------------------------------
\* Texts without a line break.
Clean(text) == IsList(text) /\ ~ ContainsLineBreak(text)

\* A clean text, symbol by symbol.
LEMMA CleanMeans ==
  ASSUME NEW text, IsList(text)
  PROVE  Clean(text) <=> \A i \in 1..Len(text) : text[i] \notin {"CR", "LF"}
PROOF
  <1>1. DOMAIN text = 1..Len(text)
    BY ListMeaning
  <1> QED
    BY <1>1, Zenon DEF Clean, ContainsLineBreak, Has

\* A part of such a text is one.
LEMMA PartIsClean ==
  ASSUME NEW text, Clean(text), NEW m \in Nat \ {0}, NEW n \in 0..Len(text)
  PROVE  Clean(SubSeq(text, m, n))
PROOF
  <1>1. PICK part : part = SubSeq(text, m, n)
    OBVIOUS
  <1>2. IsList(text) /\ Len(text) \in Nat
    BY ListMeaning DEF Clean
  <1>3. /\ IsList(part) /\ Len(part) = IF m <= n THEN n - m + 1 ELSE 0
        /\ \A i \in 1..(n - m + 1) : part[i] = text[m + i - 1]
    BY <1>1, <1>2, PartIs
  <1>4. ASSUME NEW i \in 1..Len(part)
        PROVE  part[i] \notin {"CR", "LF"}
    <2>1. /\ i \in 1..(n - m + 1) /\ m + i - 1 \in 1..Len(text)
      BY <1>2, <1>3
    <2>2. part[i] = text[m + i - 1]
      BY <1>3, <2>1
    <2>3. text[m + i - 1] \notin {"CR", "LF"}
      BY <1>2, <2>1, CleanMeans
    <2> QED
      BY <2>2, <2>3
  <1> QED
    BY <1>1, <1>3, <1>4, CleanMeans

\* So is what follows a symbol or some blanks.
LEMMA AfterIsClean ==
  ASSUME NEW text, Clean(text), NEW symbol
  PROVE  Clean(After(text, symbol))
PROOF
  <1>1. IsList(text) /\ Len(text) \in Nat
    BY ListMeaning DEF Clean
  <1>2. PICK p : p = Find(text, symbol, 1)
    OBVIOUS
  <1>3. p \in 1..(Len(text) + 1)
    <2>1. 1 \in 1..(Len(text) + 1)
      BY <1>1
    <2> QED
      BY <1>1, <1>2, <2>1, FindIs DEF FindsAt
  <1>4. p + 1 \in Nat \ {0} /\ Len(text) \in 0..Len(text)
    BY <1>1, <1>3
  <1>5. Clean(SubSeq(text, p + 1, Len(text)))
    BY <1>4, PartIsClean
  <1> QED
    BY <1>2, <1>5 DEF After

\* What follows a place of a clean text is clean.
LEMMA RestIsClean ==
  ASSUME NEW text, Clean(text), NEW symbol
  PROVE  Clean(SubSeq(text, Skip(text, symbol, 1), Len(text)))
PROOF
  <1>1. IsList(text) /\ Len(text) \in Nat
    BY ListMeaning DEF Clean
  <1>2. PICK p : p = Skip(text, symbol, 1)
    OBVIOUS
  <1>3. p \in 1..(Len(text) + 1)
    <2>1. 1 \in 1..(Len(text) + 1)
      BY <1>1
    <2> QED
      BY <1>1, <1>2, <2>1, SkipIs DEF SkipsTo
  <1>4. p \in Nat \ {0} /\ Len(text) \in 0..Len(text)
    BY <1>1, <1>3
  <1> QED
    BY <1>2, <1>4, PartIsClean

\* And the parameters of one.
LEMMA ParametersAreClean ==
  ASSUME NEW text, Clean(text), NEW found, found = Parameters(text)
  PROVE  /\ IsList(found.middle) /\ IsList(found.trailing)
         /\ \A i \in 1..Len(found.middle) : Clean(found.middle[i])
         /\ \A i \in 1..Len(found.trailing) : Clean(found.trailing[i])
PROOF
  <1>1. IsList(text) /\ Len(text) \in Nat
    BY ListMeaning DEF Clean
  <1>2. found \in Reading(text)
    <2>1. PICK g : /\ \A k \in 0..Len(text) : g[k] \in Reading(text)
                   /\ found = g[Len(text)]
      BY <1>1, ParametersLoop
    <2> QED
      BY <1>1, <2>1
  <1>3. \A w \in Cuts(text) : Clean(w)
    <2>1. ASSUME NEW w \in Cuts(text)
          PROVE  Clean(w)
      <3>1. PICK i \in 1..(Len(text) + 1), j \in 0..Len(text) :
              w = SubSeq(text, i, j)
        BY DEF Cuts
      <3>2. i \in Nat \ {0}
        BY <1>1
      <3> QED
        BY <3>1, <3>2, PartIsClean
    <2> QED
      BY <2>1
  <1>4. /\ found.middle \in Seq(Cuts(text))
        /\ found.trailing \in {<< >>} \cup {<<w>> : w \in Cuts(text)}
    BY <1>2 DEF Reading
  <1>5. found.trailing \in Seq(Cuts(text))
    <2>1. << >> \in Seq(Cuts(text))
      BY EmptySeq
    <2>2. \A w \in Cuts(text) : <<w>> \in Seq(Cuts(text))
      OBVIOUS
    <2> QED
      BY <1>4, <2>1, <2>2
  <1>6. ASSUME NEW s \in Seq(Cuts(text))
        PROVE  IsList(s) /\ \A i \in 1..Len(s) : Clean(s[i])
    <2>1. IsList(s) /\ \A i \in 1..Len(s) : s[i] \in Cuts(text)
      BY ListOf
    <2> QED
      BY <1>3, <2>1
  <1> QED
    BY <1>4, <1>5, <1>6

-----------------------------------------------------------------------------
\* The steps of the parser, with a name for the blank.
Steps(text, body, source, tail, request, command, found, tags, prefix, bad) ==
  /\ body = IF StartsWith(text, "@") THEN After(text, Space) ELSE text
  /\ source = SubSeq(body, Skip(body, Space, 1), Len(body))
  /\ tail = IF StartsWith(source, ":") THEN After(source, Space) ELSE source
  /\ request = SubSeq(tail, Skip(tail, Space, 1), Len(tail))
  /\ command = ToUpper(Before(request, Space))
  /\ found = Parameters(After(request, Space))
  /\ StartsWith(text, "@") \/ tags = << >>
  /\ StartsWith(source, ":") \/ prefix = << >>
  /\ bad => StartsWith(text, "@") \/ StartsWith(source, ":")
  /\ Parse(text) =
       IF \/ text = << >> \/ Len(text) > MaxLine \/ ContainsLineBreak(text)
          \/ bad
          \/ command = << >> \/ Has(command, Punctuation)
          \/ Len(found.middle) > MaxParameters
       THEN NoMessage
       ELSE [ tags |-> tags, prefix |-> prefix, command |-> command,
              parameters |-> found.middle \o found.trailing ]

\* Parse, with a name for each of its steps.
LEMMA ParseSteps ==
  ASSUME NEW text
  PROVE  \E body, source, tail, request, command, found, tags, prefix, bad :
           Steps(text, body, source, tail, request, command, found, tags,
                 prefix, bad)
PROOF
  <1> DEFINE
        tagged   == StartsWith(text, "@")
        tags     == IF tagged THEN Tags(Tail(Before(text, Space))) ELSE << >>
        body     == IF tagged THEN After(text, Space) ELSE text
        source   == SubSeq(body, Skip(body, Space, 1), Len(body))
        prefixed == StartsWith(source, ":")
        prefix   == IF prefixed THEN Prefix(source) ELSE << >>
        tail     == IF prefixed THEN After(source, Space) ELSE source
        request  == SubSeq(tail, Skip(tail, Space, 1), Len(tail))
        command  == ToUpper(Before(request, Space))
        found    == Parameters(After(request, Space))
        bad      == \/ tagged /\ (~Has(text, {Space}) \/ << >> \in DOMAIN tags)
                    \/ prefixed /\ (~Has(source, {Space}) \/ prefix = << >>)
  <1>1. Parse(text) =
          IF \/ text = << >> \/ Len(text) > MaxLine \/ ContainsLineBreak(text)
             \/ tagged /\ (~Has(text, {Space}) \/ << >> \in DOMAIN tags)
             \/ prefixed /\ (~Has(source, {Space}) \/ prefix = << >>)
             \/ command = << >> \/ Has(command, Punctuation)
             \/ Len(found.middle) > MaxParameters
          THEN NoMessage
          ELSE [ tags |-> tags, prefix |-> prefix, command |-> command,
                 parameters |-> found.middle \o found.trailing ]
    BY ZenonT(60) DEF Parse, Space
  <1>2. Parse(text) =
          IF \/ text = << >> \/ Len(text) > MaxLine \/ ContainsLineBreak(text)
             \/ bad
             \/ command = << >> \/ Has(command, Punctuation)
             \/ Len(found.middle) > MaxParameters
          THEN NoMessage
          ELSE [ tags |-> tags, prefix |-> prefix, command |-> command,
                 parameters |-> found.middle \o found.trailing ]
    <2> HIDE DEF tags, prefix, command, found, source
    <2> QED
      BY <1>1, Zenon
  <1>3. tagged \/ tags = << >>
    OBVIOUS
  <1>4. prefixed \/ prefix = << >>
    BY Zenon
  <1>5. bad => tagged \/ prefixed
    BY Zenon
  <1>6. Steps(text, body, source, tail, request, command, found, tags, prefix,
              bad)
    BY <1>2, <1>3, <1>4, <1>5, Zenon DEF Steps
  <1> QED
    BY <1>6

\* A request of a word and the rest, without tags and a prefix.
Word(command) ==
  /\ command \notin {"@", ":", "CR", "LF", Space}
  /\ command \notin Punctuation
  /\ ToUpper(<<command>>) = <<command>>

\* How a request is parsed: its word, and the parameters behind the blank.
LEMMA ParsedRequest ==
  ASSUME NEW command, Word(command), NEW rest, Clean(rest),
         Len(rest) + 2 <= MaxLine,
         Len(Parameters(rest).middle) <= MaxParameters
  PROVE  Parse(<<command, Space>> \o rest) =
           [ tags |-> << >>, prefix |-> << >>, command |-> <<command>>,
             parameters |-> Parameters(rest).middle
                              \o Parameters(rest).trailing ]
PROOF
  <1>1. PICK text : text = <<command, Space>> \o rest
    OBVIOUS
  <1>2. PICK n : n = Len(rest)
    OBVIOUS
  <1>3. n \in Nat /\ IsList(rest)
    BY <1>2, ListMeaning DEF Clean
  <1>4. /\ IsList(text) /\ Len(text) = n + 2
        /\ text[1] = command /\ text[2] = Space
        /\ \A i \in 1..n : text[i + 2] = rest[i]
    <2>1. PICK head : head = <<command, Space>>
      OBVIOUS
    <2>2. /\ Len(head) = 2 /\ IsList(head) /\ head[1] = command
          /\ head[2] = Space
      <3>1. head \in Seq({command, Space})
        BY <2>1
      <3> QED
        BY <2>1, <3>1, ListOf
    <2>3. /\ IsList(text) /\ Len(text) = 2 + n
          /\ \A i \in 1..(2 + n) :
               text[i] = IF i <= 2 THEN head[i] ELSE rest[i - 2]
      BY <1>1, <1>2, <1>3, <2>1, <2>2, ConcatIs
    <2>4. 1 \in 1..(2 + n) /\ 2 \in 1..(2 + n)
      BY <1>3
    <2>5. \A i \in 1..n : i + 2 \in 1..(2 + n) /\ ~ (i + 2 <= 2)
                          /\ (i + 2) - 2 = i
      BY <1>3
    <2>6. \A i \in 1..n : text[i + 2] = rest[i]
      BY <2>3, <2>5
    <2> QED
      BY <1>3, <2>2, <2>3, <2>4, <2>6
  <1>5. /\ text[1] \notin {"@", ":"} /\ text[1] # Space
        /\ command \notin {"CR", "LF"} /\ command # Space
    BY <1>4 DEF Word
  <1>6. ~ StartsWith(text, "@") /\ ~ StartsWith(text, ":")
    BY <1>5, Zenon DEF StartsWith
  <1>7. SubSeq(text, Skip(text, Space, 1), Len(text)) = text
    <2>1. Skip(text, Space, 1) = 1
      <3>1. 1 \in 1..Len(text)
        BY <1>3, <1>4
      <3> QED
        BY <1>4, <1>5, <3>1, SkipNothing
    <2>2. SubSeq(text, 1, Len(text)) = text
      <3>1. PICK part : part = SubSeq(text, 1, Len(text))
        OBVIOUS
      <3>2. /\ IsList(part) /\ Len(part) = Len(text)
            /\ \A i \in 1..Len(text) : part[i] = text[1 + i - 1]
        BY <1>3, <1>4, <3>1, PartIs
      <3>3. \A i \in 1..Len(part) : part[i] = text[i]
        BY <1>3, <1>4, <3>2
      <3> QED
        BY <1>4, <3>1, <3>2, <3>3, ListsEqual
    <2> QED
      BY <2>1, <2>2
  <1>8. Find(text, Space, 1) = 2
    <2>1. FindsAt(text, Space, 1, 2)
      BY <1>3, <1>4, <1>5 DEF FindsAt
    <2>2. 1 \in 1..(Len(text) + 1)
      BY <1>3, <1>4
    <2> QED
      BY <1>4, <2>1, <2>2, FindUnique
  <1>9. ToUpper(Before(text, Space)) = <<command>>
    <2>1. Before(text, Space) = SubSeq(text, 1, 1)
      BY <1>8 DEF Before
    <2>2. SubSeq(text, 1, 1) = <<command>>
      <3>1. PICK part : part = SubSeq(text, 1, 1)
        OBVIOUS
      <3>2. /\ IsList(part) /\ Len(part) = 1
            /\ \A i \in 1..1 : part[i] = text[1 + i - 1]
        BY <3>1, PartIs
      <3>3. part[1] = command
        BY <1>4, <3>2
      <3>4. <<command>> \in Seq({command}) /\ Len(<<command>>) = 1
            /\ <<command>>[1] = command
        OBVIOUS
      <3>5. IsList(<<command>>)
        BY <3>4, ListOf
      <3>6. \A i \in 1..Len(part) : part[i] = <<command>>[i]
        BY <3>2, <3>3, <3>4
      <3> QED
        BY <3>1, <3>2, <3>4, <3>5, <3>6, ListsEqual
    <2> QED
      BY <2>1, <2>2 DEF Word
  <1>10. After(text, Space) = rest
    <2>1. After(text, Space) = SubSeq(text, 3, n + 2)
      BY <1>4, <1>8 DEF After
    <2>2. PICK part : part = SubSeq(text, 3, n + 2)
      OBVIOUS
    <2>3. /\ IsList(part) /\ Len(part) = n
          /\ \A i \in 1..n : part[i] = text[3 + i - 1]
      BY <1>3, <2>2, PartIs
    <2>4. \A i \in 1..n : 3 + i - 1 = i + 2
      BY <1>3
    <2>5. \A i \in 1..n : part[i] = rest[i]
      BY <1>4, <2>3, <2>4
    <2> QED
      BY <1>2, <1>3, <2>1, <2>2, <2>3, <2>5, ListsEqual
  <1>11. ~ ContainsLineBreak(text)
    <2>1. ASSUME NEW i \in 1..Len(text)
          PROVE  text[i] \notin {"CR", "LF"}
      <3>1. CASE i = 1
        BY <1>4, <1>5, <3>1
      <3>2. CASE i = 2
        <4>1. Space \notin {"CR", "LF"}
          BY Zenon DEF Space
        <4> QED
          BY <1>4, <3>2, <4>1
      <3>3. CASE i - 2 \in 1..n
        <4>1. text[i] = rest[i - 2]
          BY <1>3, <1>4, <3>3
        <4>2. rest[i - 2] \notin {"CR", "LF"}
          BY <1>2, <1>3, <3>3, CleanMeans
        <4> QED
          BY <4>1, <4>2
      <3> QED
        BY <1>3, <1>4, <3>1, <3>2, <3>3
    <2> QED
      BY <1>4, <2>1, CleanMeans DEF Clean
  <1>12. ~ (text = << >>) /\ ~ (Len(text) > MaxLine)
    BY <1>2, <1>3, <1>4, ListMeaning, LimitsAssumption
  <1>13. <<command>> # << >> /\ ~ Has(<<command>>, Punctuation)
    <2>1. DOMAIN <<command>> = {1} /\ <<command>>[1] = command
      OBVIOUS
    <2>2. ~ Has(<<command>>, Punctuation)
      BY <2>1, Zenon DEF Has, Word
    <2> QED
      BY <2>2
  <1>14. PICK body, source, tail, request, upper, found, tags, prefix, bad :
           Steps(text, body, source, tail, request, upper, found, tags, prefix,
                 bad)
    BY ParseSteps
  <1>15. body = text /\ source = text /\ tail = text /\ request = text
    BY <1>6, <1>7, <1>14, Zenon DEF Steps
  <1>16. /\ upper = <<command>> /\ found = Parameters(rest)
         /\ tags = << >> /\ prefix = << >> /\ ~ bad
    BY <1>6, <1>9, <1>10, <1>14, <1>15, Zenon DEF Steps
  <1>17. ~ (Len(found.middle) > MaxParameters)
    <2>1. Len(found.middle) \in Nat
      <3>1. IsList(found.middle)
        BY <1>16, ParametersAreClean
      <3> QED
        BY <3>1, ListMeaning
    <2> QED
      BY <1>16, <2>1, LimitsAssumption
  <1>18. Parse(text) = [ tags |-> << >>, prefix |-> << >>,
                         command |-> <<command>>,
                         parameters |-> found.middle \o found.trailing ]
    BY <1>11, <1>12, <1>13, <1>14, <1>16, <1>17, Zenon
       DEF Steps
  <1> QED
    BY <1>1, <1>16, <1>18, Zenon

-----------------------------------------------------------------------------
\* More symbols with a name, and that they differ.
Privmsg == "PRIVMSG"
PongWord == "PONG"
Hash == "#"
Letter == "a"
Colon == ":"
Ending == <<"CR", "LF">>

\* The symbols in use are different.
LEMMA SymbolsDiffer ==
  /\ Hash # Space /\ Letter # Space /\ Hash # Colon /\ Space # Colon
  /\ Privmsg \notin {"CR", "LF"} /\ PongWord \notin {"CR", "LF"}
  /\ Hash \notin {"CR", "LF"} /\ Letter \notin {"CR", "LF"}
  /\ Space \notin {"CR", "LF"} /\ Colon \notin {"CR", "LF"}
  /\ Privmsg # Hash /\ PongWord # Hash /\ Letter # Hash
PROOF
  BY Zenon DEF Hash, Letter, Space, Colon, Privmsg, PongWord

\* PRIVMSG and PONG are commands.
LEMMA WordsAreWords ==
  Word(Privmsg) /\ Word(PongWord)
PROOF
  <1>1. ASSUME NEW command \in {Privmsg, PongWord}
        PROVE  /\ command \notin {"@", ":", "CR", "LF", Space}
               /\ command \notin Punctuation
               /\ command # "a" /\ command # "b"
    BY <1>1, Zenon DEF Privmsg, PongWord, Space, Punctuation
  <1>2. ASSUME NEW command \in {Privmsg, PongWord}
        PROVE  ToUpper(<<command>>) = <<command>>
    <2>1. ~ \E c \in DOMAIN Small : Small[c] = command
      <3>1. DOMAIN Small = {"A", "B"} /\ Small["A"] = "a" /\ Small["B"] = "b"
        BY DEF Small
      <3> QED
        BY <1>1, <3>1, Zenon
    <2>2. DOMAIN <<command>> = 1..1 /\ <<command>>[1] = command
      OBVIOUS
    <2>3. ToUpper(<<command>>) =
            [i \in 1..1 |->
               IF \E c \in DOMAIN Small : Small[c] = <<command>>[i]
               THEN CHOOSE c \in DOMAIN Small : Small[c] = <<command>>[i]
               ELSE <<command>>[i]]
      BY <2>2, Zenon DEF ToUpper
    <2>4. PICK upper : upper = ToUpper(<<command>>)
      OBVIOUS
    <2>5. upper = [i \in 1..1 |-> upper[i]] /\ upper[1] = command
      BY <2>1, <2>2, <2>3, <2>4
    <2>6. IsList(upper) /\ Len(upper) = 1
      BY <2>5, FunctionIsList
    <2>7. <<command>> \in Seq({command}) /\ Len(<<command>>) = 1
      OBVIOUS
    <2>8. IsList(<<command>>)
      BY <2>7, ListOf
    <2>9. \A i \in 1..Len(upper) : upper[i] = <<command>>[i]
      BY <2>2, <2>5, <2>6
    <2> QED
      BY <2>4, <2>6, <2>7, <2>8, <2>9, ListsEqual
  <1> QED
    BY <1>1, <1>2, Zenon DEF Word

\* Texts that are made clean.
LEMMA ConcatIsClean ==
  ASSUME NEW s, Clean(s), NEW t, Clean(t), NEW u, u = s \o t
  PROVE  Clean(u) /\ Len(u) = Len(s) + Len(t)
PROOF
  <1>1. /\ IsList(s) /\ IsList(t) /\ Len(s) \in Nat /\ Len(t) \in Nat
    BY ListMeaning DEF Clean
  <1>3. /\ IsList(u) /\ Len(u) = Len(s) + Len(t)
        /\ \A i \in 1..(Len(s) + Len(t)) :
             u[i] = IF i <= Len(s) THEN s[i] ELSE t[i - Len(s)]
    BY <1>1, ConcatIs
  <1>4. ASSUME NEW i \in 1..Len(u)
        PROVE  u[i] \notin {"CR", "LF"}
    <2>1. CASE i \in 1..Len(s)
      <3>1. u[i] = s[i]
        BY <1>1, <1>3, <2>1
      <3>2. s[i] \notin {"CR", "LF"}
        BY <1>1, <2>1, CleanMeans
      <3> QED
        BY <3>1, <3>2
    <2>2. CASE i - Len(s) \in 1..Len(t)
      <3>1. u[i] = t[i - Len(s)]
        BY <1>1, <1>3, <2>2
      <3>2. t[i - Len(s)] \notin {"CR", "LF"}
        BY <1>1, <2>2, CleanMeans
      <3> QED
        BY <3>1, <3>2
    <2> QED
      BY <1>1, <1>3, <2>1, <2>2
  <1> QED
    BY <1>3, <1>4, CleanMeans

\* Texts of one or two symbols.
LEMMA SymbolsAreClean ==
  ASSUME NEW x, x \notin {"CR", "LF"}, NEW y, y \notin {"CR", "LF"}
  PROVE  /\ Clean(<<x>>) /\ Len(<<x>>) = 1 /\ <<x>>[1] = x
         /\ Clean(<<x, y>>) /\ Len(<<x, y>>) = 2
         /\ <<x, y>>[1] = x /\ <<x, y>>[2] = y
PROOF
  <1>1. ASSUME NEW s \in Seq({x, y})
        PROVE  Clean(s)
    <2>1. IsList(s) /\ \A i \in 1..Len(s) : s[i] \in {x, y}
      BY ListOf
    <2>2. \A i \in 1..Len(s) : s[i] \notin {"CR", "LF"}
      BY <2>1
    <2> QED
      BY <2>1, <2>2, CleanMeans
  <1>2. <<x>> \in Seq({x, y}) /\ <<x, y>> \in Seq({x, y})
    OBVIOUS
  <1>3. /\ Len(<<x>>) = 1 /\ <<x>>[1] = x
        /\ Len(<<x, y>>) = 2 /\ <<x, y>>[1] = x /\ <<x, y>>[2] = y
    OBVIOUS
  <1> QED
    BY <1>1, <1>2, <1>3

\* The server reads the text that was encoded.
LEMMA ArrivesIs ==
  ASSUME NEW text, IsList(text)
  PROVE  Arrives(text \o Ending) = Parse(text)
PROOF
  <1>1. PICK n : n = Len(text)
    OBVIOUS
  <1>2. n \in Nat
    BY <1>1, ListMeaning
  <1>3. IsList(Ending) /\ Len(Ending) = 2
    <2>1. Ending \in Seq({"CR", "LF"}) /\ Len(Ending) = 2
      BY DEF Ending
    <2> QED
      BY <2>1, ListOf
  <1>4. PICK wire : wire = text \o Ending
    OBVIOUS
  <1>5. /\ IsList(wire) /\ Len(wire) = n + 2
        /\ \A i \in 1..(n + 2) :
             wire[i] = IF i <= n THEN text[i] ELSE Ending[i - n]
    <2>1. PICK ending : ending = Ending
      OBVIOUS
    <2>2. /\ IsList(text \o ending)
          /\ Len(text \o ending) = Len(text) + Len(ending)
          /\ \A i \in 1..(Len(text) + Len(ending)) :
               (text \o ending)[i] = IF i <= Len(text) THEN text[i]
                                     ELSE ending[i - Len(text)]
      BY <1>3, <2>1, ConcatIs
    <2> QED
      BY <1>1, <1>3, <1>4, <2>1, <2>2
  <1>6. PICK part : part = SubSeq(wire, 1, Len(wire) - 2)
    OBVIOUS
  <1>7. /\ IsList(part) /\ Len(part) = n
        /\ \A i \in 1..n : part[i] = wire[1 + i - 1]
    <2>1. part = SubSeq(wire, 1, n)
      BY <1>2, <1>5, <1>6
    <2>2. /\ IsList(part) /\ Len(part) = IF 1 <= n THEN n - 1 + 1 ELSE 0
          /\ \A i \in 1..(n - 1 + 1) : part[i] = wire[1 + i - 1]
      BY <1>2, <2>1, PartIs
    <2> QED
      BY <1>2, <2>2
  <1>8. \A i \in 1..n : part[i] = text[i]
    <2>1. \A i \in 1..n : 1 + i - 1 = i /\ i \in 1..(n + 2) /\ i <= n
      BY <1>2
    <2> QED
      BY <1>5, <1>7, <2>1
  <1>9. part = text
    BY <1>1, <1>7, <1>8, ListsEqual
  <1> QED
    BY <1>4, <1>6, <1>9, Zenon DEF Arrives

\* What the encoder makes of a request.
LEMMA EncodedIs ==
  ASSUME NEW text, Clean(text), Len(text) # 0
  PROVE  EncodeLine(text) = IF Len(text) > MaxPayload THEN << >>
                            ELSE text \o Ending
PROOF
  <1>1. text # << >> /\ ~ ContainsLineBreak(text)
    BY ListMeaning DEF Clean
  <1> QED
    BY <1>1, Zenon DEF EncodeLine, Ending

-----------------------------------------------------------------------------
\* A request whose only parameter is the trailing one.
LEMMA PongArrives ==
  ASSUME NEW payload, Clean(payload)
  PROVE  LET wire == EncodeLine(<<PongWord, Space, Colon>> \o payload) IN
         IF Len(payload) + 3 > MaxPayload THEN wire = << >>
         ELSE Arrives(wire) = [ tags |-> << >>, prefix |-> << >>,
                                command |-> <<PongWord>>,
                                parameters |-> <<payload>> ]
PROOF
  <1>1. PICK n : n = Len(payload)
    OBVIOUS
  <1>2. n \in Nat /\ IsList(payload)
    BY <1>1, ListMeaning DEF Clean
  <1>3. PICK colon : colon = <<Colon>>
    OBVIOUS
  <1>4. Clean(colon) /\ Len(colon) = 1 /\ colon[1] = Colon
    BY <1>3, SymbolsDiffer, SymbolsAreClean
  <1>5. PICK head : head = <<PongWord, Space>>
    OBVIOUS
  <1>6. Clean(head) /\ Len(head) = 2
    BY <1>5, SymbolsDiffer, SymbolsAreClean
  <1>7. PICK rest : rest = colon \o payload
    OBVIOUS
  <1>8. Clean(rest) /\ Len(rest) = n + 1
    <2>1. Clean(colon) /\ Clean(payload)
      BY <1>4
    <2>2. Clean(rest) /\ Len(rest) = Len(colon) + Len(payload)
      BY <1>7, <2>1, ConcatIsClean, Zenon
    <2> QED
      BY <1>1, <1>2, <1>4, <2>2
  <1>9. PICK text : text = head \o rest
    OBVIOUS
  <1>10. Clean(text) /\ Len(text) = n + 3
    <2>1. Clean(text) /\ Len(text) = Len(head) + Len(rest)
      BY <1>6, <1>8, <1>9, ConcatIsClean, Zenon
    <2> QED
      BY <1>2, <1>6, <1>8, <2>1
  <1>11. <<PongWord, Space, Colon>> \o payload = text
    <2>1. <<PongWord, Space, Colon>> = head \o colon
      BY <1>3, <1>5
    <2>2. PICK front : front = head \o colon
      OBVIOUS
    <2>3. IsList(head) /\ IsList(colon)
      BY <1>4, <1>6 DEF Clean
    <2>4. front \o payload = head \o rest
      BY <1>2, <1>7, <2>2, <2>3, ConcatThree
    <2> QED
      BY <1>9, <2>1, <2>2, <2>4, Zenon
  <1>12. EncodeLine(text) = IF n + 3 > MaxPayload THEN << >>
                            ELSE text \o Ending
    <2>1. Len(text) # 0
      BY <1>2, <1>10
    <2> QED
      BY <1>10, <2>1, EncodedIs
  <1>13. /\ Parameters(rest).middle = << >>
         /\ Parameters(rest).trailing = <<payload>>
    <2>1. IsList(rest) /\ rest # << >>
      BY <1>2, <1>8, ListMeaning DEF Clean
    <2>2. \A i \in 1..(n + 1) :
            rest[i] = IF i <= 1 THEN colon[i] ELSE payload[i - 1]
      <3>1. IsList(colon) /\ IsList(payload)
        BY <1>4 DEF Clean
      <3>2. \A i \in 1..(Len(colon) + Len(payload)) :
              (colon \o payload)[i] = IF i <= Len(colon) THEN colon[i]
                                      ELSE payload[i - Len(colon)]
        BY <3>1, ConcatIs
      <3>3. \A i \in 1..(1 + n) : rest[i] = IF i <= 1 THEN colon[i]
                                             ELSE payload[i - 1]
        BY <1>1, <1>4, <1>7, <3>2
      <3> QED
        BY <1>2, <3>3
    <2>3. rest[1] = Colon
      <3>1. 1 \in 1..(n + 1)
        BY <1>2
      <3> QED
        BY <1>4, <2>2, <3>1
    <2>4. SubSeq(rest, 2, Len(rest)) = payload
      <3>1. PICK part : part = SubSeq(rest, 2, Len(rest))
        OBVIOUS
      <3>2. part = SubSeq(rest, 2, n + 1)
        BY <1>8, <3>1
      <3>3. /\ IsList(part)
            /\ Len(part) = IF 2 <= n + 1 THEN (n + 1) - 2 + 1 ELSE 0
            /\ \A i \in 1..((n + 1) - 2 + 1) : part[i] = rest[2 + i - 1]
        BY <1>2, <3>2, PartIs
      <3>4. Len(part) = n /\ \A i \in 1..n : part[i] = rest[2 + i - 1]
        BY <1>2, <3>3
      <3>5. \A i \in 1..n : part[i] = payload[i]
        BY <1>2, <2>2, <3>4
      <3> QED
        BY <1>1, <1>2, <3>1, <3>3, <3>4, <3>5, ListsEqual
    <2>5. rest[1] = ":"
      BY <2>3 DEF Colon
    <2> QED
      BY <2>1, <2>4, <2>5, OneParameter
  <1>14. ASSUME ~ (n + 3 > MaxPayload)
         PROVE  Parse(text) = [ tags |-> << >>, prefix |-> << >>,
                                command |-> <<PongWord>>,
                                parameters |-> <<payload>> ]
    <2>1. Len(rest) + 2 <= MaxLine
      BY <1>2, <1>8, <1>14, LimitsAssumption
    <2>2. Len(Parameters(rest).middle) <= MaxParameters
      BY <1>13, LimitsAssumption
    <2>3. Parse(<<PongWord, Space>> \o rest) =
            [ tags |-> << >>, prefix |-> << >>, command |-> <<PongWord>>,
              parameters |-> Parameters(rest).middle
                               \o Parameters(rest).trailing ]
      BY <1>8, <2>1, <2>2, WordsAreWords, ParsedRequest
    <2>4. << >> \o <<payload>> = <<payload>>
      OBVIOUS
    <2> QED
      BY <1>5, <1>9, <1>13, <2>3, <2>4, Zenon
  <1>15. Arrives(text \o Ending) = Parse(text)
    BY <1>10, ArrivesIs DEF Clean
  <1> QED
    BY <1>1, <1>11, <1>12, <1>14, <1>15

\* What MakePrivmsg sends to a channel, with names for the symbols.
LEMMA PrivmsgIs ==
  ASSUME NEW text
  PROVE  MakePrivmsg(<<Letter>>, text) =
           IF text = << >> \/ ContainsLineBreak(<<Letter>> \o text)
           THEN << >>
           ELSE EncodeLine(<<Privmsg, Space>> \o (<<Hash>> \o <<Letter>>)
                             \o <<Space, Colon>> \o text)
PROOF
  <1>1. ~ StartsWith(<<Letter>>, Hash) /\ <<Letter>> # << >>
    <2>1. <<Letter>>[1] = Letter
      OBVIOUS
    <2>2. ~ StartsWith(<<Letter>>, Hash)
      BY <2>1, SymbolsDiffer DEF StartsWith
    <2> QED
      BY <2>2
  <1>2. MakePrivmsg(<<Letter>>, text) =
          IF <<Letter>> = << >> \/ text = << >>
             \/ ContainsLineBreak(<<Letter>> \o text)
          THEN << >>
          ELSE EncodeLine(<<Privmsg, Space>>
                            \o (IF StartsWith(<<Letter>>, Hash) THEN <<Letter>>
                                ELSE <<Hash>> \o <<Letter>>)
                            \o <<Space, Colon>> \o text)
    BY Zenon DEF MakePrivmsg, Privmsg, Space, Hash, Colon
  <1> QED
    BY <1>1, <1>2, Zenon

\* A chat message arrives, or is refused.
LEMMA PrivmsgReaches ==
  ASSUME NEW text, IsList(text)
  PROVE  LET wire == MakePrivmsg(<<Letter>>, text) IN
         IF text = << >> \/ ContainsLineBreak(text) \/ Len(text) + 6 > MaxPayload
         THEN wire = << >>
         ELSE Arrives(wire) = [ tags |-> << >>, prefix |-> << >>,
                                command |-> <<Privmsg>>,
                                parameters |-> << <<Hash, Letter>>, text >> ]
PROOF
  <1>1. PICK n : n = Len(text)
    OBVIOUS
  <1>2. n \in Nat /\ (text = << >> <=> n = 0)
    BY <1>1, ListMeaning
  <1>3. PICK letter : letter = <<Letter>>
    OBVIOUS
  <1>4. Clean(letter) /\ Len(letter) = 1
    BY <1>3, SymbolsDiffer, SymbolsAreClean
  <1>5. ContainsLineBreak(letter \o text) <=> ContainsLineBreak(text)
    <2>1. PICK u : u = letter \o text
      OBVIOUS
    <2>2. ASSUME Clean(text) PROVE Clean(u)
      BY <1>4, <2>1, <2>2, ConcatIsClean, Zenon
    <2>3. /\ IsList(u) /\ Len(u) = 1 + n
          /\ \A i \in 1..(1 + n) :
               u[i] = IF i <= 1 THEN letter[i] ELSE text[i - 1]
      <3>1. IsList(letter)
        BY <1>4 DEF Clean
      <3>2. /\ IsList(letter \o text)
            /\ Len(letter \o text) = Len(letter) + Len(text)
            /\ \A i \in 1..(Len(letter) + Len(text)) :
                 (letter \o text)[i] = IF i <= Len(letter) THEN letter[i]
                                       ELSE text[i - Len(letter)]
        BY <3>1, ConcatIs
      <3> QED
        BY <1>1, <1>4, <2>1, <3>2
    <2>4. ASSUME Clean(u) PROVE Clean(text)
      <3>1. ASSUME NEW i \in 1..Len(text)
            PROVE  text[i] \notin {"CR", "LF"}
        <4>1. /\ i + 1 \in 1..(1 + n) /\ ~ (i + 1 <= 1) /\ (i + 1) - 1 = i
              /\ i + 1 \in 1..Len(u)
          BY <1>1, <1>2, <2>3
        <4>2. u[i + 1] = text[i]
          BY <2>3, <4>1
        <4>3. u[i + 1] \notin {"CR", "LF"}
          BY <2>3, <2>4, <4>1, CleanMeans
        <4> QED
          BY <4>2, <4>3
      <3> QED
        BY <3>1, CleanMeans
    <2> QED
      BY <2>1, <2>2, <2>3, <2>4 DEF Clean
  <1>6. PICK wire : wire = MakePrivmsg(<<Letter>>, text)
    OBVIOUS
  <1>7. ASSUME text = << >> \/ ContainsLineBreak(text)
        PROVE  wire = << >>
    BY <1>3, <1>5, <1>6, <1>7, PrivmsgIs
  <1>8. ASSUME text # << >>, ~ ContainsLineBreak(text)
        PROVE  IF n + 6 > MaxPayload THEN wire = << >>
               ELSE Arrives(wire) = [ tags |-> << >>, prefix |-> << >>,
                                command |-> <<Privmsg>>,
                                parameters |-> << <<Hash, Letter>>, text >> ]
    <2>1. Clean(text)
      BY <1>8 DEF Clean
    <2>2. PICK head : head = <<Privmsg, Space>>
      OBVIOUS
    <2>3. PICK hash : hash = <<Hash>>
      OBVIOUS
    <2>4. PICK mark : mark = <<Space, Colon>>
      OBVIOUS
    <2>5. PICK channel : channel = <<Hash, Letter>>
      OBVIOUS
    <2>6. /\ Clean(head) /\ Clean(mark) /\ Clean(channel)
          /\ Len(head) = 2 /\ Len(mark) = 2 /\ Len(channel) = 2
      BY <2>2, <2>4, <2>5, SymbolsDiffer, SymbolsAreClean
    <2>7. hash \o letter = channel
      BY <1>3, <2>3, <2>5, ConcatTwo
    <2>8. PICK end : end = mark \o text
      OBVIOUS
    <2>9. Clean(end) /\ Len(end) = n + 2
      <3>1. Clean(end) /\ Len(end) = Len(mark) + Len(text)
        BY <2>1, <2>6, <2>8, ConcatIsClean, Zenon
      <3> QED
        BY <1>1, <1>2, <2>6, <3>1
    <2>10. PICK rest : rest = channel \o end
      OBVIOUS
    <2>11. Clean(rest) /\ Len(rest) = n + 4
      <3>1. Clean(rest) /\ Len(rest) = Len(channel) + Len(end)
        BY <2>6, <2>9, <2>10, ConcatIsClean, Zenon
      <3> QED
        BY <1>2, <2>6, <2>9, <3>1
    <2>12. PICK whole : whole = head \o rest
      OBVIOUS
    <2>13. Clean(whole) /\ Len(whole) = n + 6
      <3>1. Clean(whole) /\ Len(whole) = Len(head) + Len(rest)
        BY <2>6, <2>11, <2>12, ConcatIsClean, Zenon
      <3> QED
        BY <1>2, <2>6, <2>11, <3>1
    <2>14. ((head \o channel) \o mark) \o text = whole
      <3>1. IsList(head) /\ IsList(channel) /\ IsList(mark) /\ IsList(end)
        BY <2>6, <2>9 DEF Clean
      <3>2. PICK front : front = head \o channel
        OBVIOUS
      <3>3. IsList(front)
        BY <3>1, <3>2, ConcatIs
      <3>4. (front \o mark) \o text = front \o end
        BY <2>8, <3>1, <3>3, ConcatThree
      <3>5. front \o end = head \o rest
        BY <2>10, <3>1, <3>2, ConcatThree
      <3> QED
        BY <2>12, <3>2, <3>4, <3>5, Zenon
    <2>15. wire = EncodeLine(whole)
      <3>1. ~ ContainsLineBreak(<<Letter>> \o text)
        BY <1>3, <1>5, <1>8
      <3>2. wire = EncodeLine(<<Privmsg, Space>> \o (<<Hash>> \o <<Letter>>)
                                \o <<Space, Colon>> \o text)
        BY <1>6, <1>8, <3>1, PrivmsgIs, Zenon
      <3> QED
        BY <1>3, <2>2, <2>3, <2>4, <2>7, <2>14, <3>2, Zenon
    <2>16. wire = IF n + 6 > MaxPayload THEN << >> ELSE whole \o Ending
      <3>1. Len(whole) # 0
        BY <1>2, <2>13
      <3> QED
        BY <2>13, <2>15, <3>1, EncodedIs
    <2>17. /\ rest[1] = Hash /\ rest[2] = Letter /\ rest[3] = Space
           /\ rest[4] = Colon /\ \A i \in 1..n : rest[i + 4] = text[i]
      <3>1. \A i \in 1..(n + 4) :
              rest[i] = IF i <= 2 THEN channel[i] ELSE end[i - 2]
        <4>1. IsList(channel) /\ IsList(end)
          BY <2>6, <2>9 DEF Clean
        <4>2. \A i \in 1..(Len(channel) + Len(end)) :
                (channel \o end)[i] = IF i <= Len(channel) THEN channel[i]
                                      ELSE end[i - Len(channel)]
          BY <4>1, ConcatIs
        <4>3. Len(channel) + Len(end) = n + 4
          BY <1>2, <2>6, <2>9
        <4> QED
          BY <2>6, <2>10, <4>2, <4>3
      <3>2. \A i \in 1..(n + 2) :
              end[i] = IF i <= 2 THEN mark[i] ELSE text[i - 2]
        <4>1. IsList(mark) /\ IsList(text)
          BY <2>6 DEF Clean
        <4>2. \A i \in 1..(Len(mark) + Len(text)) :
                (mark \o text)[i] = IF i <= Len(mark) THEN mark[i]
                                    ELSE text[i - Len(mark)]
          BY <4>1, ConcatIs
        <4>3. Len(mark) + Len(text) = n + 2
          BY <1>1, <1>2, <2>6
        <4> QED
          BY <2>6, <2>8, <4>2, <4>3
      <3>3. rest[1] = channel[1] /\ rest[2] = channel[2]
        <4>1. 1 \in 1..(n + 4) /\ 2 \in 1..(n + 4)
          BY <1>2
        <4> QED
          BY <3>1, <4>1
      <3>4. rest[3] = end[1] /\ rest[4] = end[2]
        <4>1. 3 \in 1..(n + 4) /\ 4 \in 1..(n + 4) /\ 3 - 2 = 1 /\ 4 - 2 = 2
          BY <1>2
        <4> QED
          BY <3>1, <4>1
      <3>5. end[1] = mark[1] /\ end[2] = mark[2]
        <4>1. 1 \in 1..(n + 2) /\ 2 \in 1..(n + 2)
          BY <1>2
        <4> QED
          BY <3>2, <4>1
      <3>6. /\ channel[1] = Hash /\ channel[2] = Letter
            /\ mark[1] = Space /\ mark[2] = Colon
        BY <2>4, <2>5
      <3>7. ASSUME NEW i \in 1..n
            PROVE  rest[i + 4] = text[i]
        <4>1. /\ i + 4 \in 1..(n + 4) /\ ~ (i + 4 <= 2)
              /\ (i + 4) - 2 = i + 2 /\ i + 2 \in 1..(n + 2)
              /\ ~ (i + 2 <= 2) /\ (i + 2) - 2 = i
          BY <1>2
        <4>2. rest[i + 4] = end[i + 2]
          BY <3>1, <4>1
        <4>3. end[i + 2] = text[i]
          BY <3>2, <4>1
        <4> QED
          BY <4>2, <4>3
      <3> QED
        BY <3>3, <3>4, <3>5, <3>6, <3>7
    <2>18. SubSeq(rest, 1, 2) = channel
      <3>1. PICK part : part = SubSeq(rest, 1, 2)
        OBVIOUS
      <3>2. /\ IsList(part) /\ Len(part) = 2
            /\ \A i \in 1..2 : part[i] = rest[1 + i - 1]
        BY <3>1, PartIs
      <3>3. part[1] = Hash /\ part[2] = Letter
        BY <2>17, <3>2
      <3>4. IsList(channel) /\ channel[1] = Hash /\ channel[2] = Letter
        BY <2>5, <2>6 DEF Clean
      <3>5. \A i \in 1..Len(part) : part[i] = channel[i]
        BY <3>2, <3>3, <3>4
      <3> QED
        BY <2>6, <3>1, <3>2, <3>4, <3>5, ListsEqual
    <2>19. SubSeq(rest, 5, n + 4) = text
      <3>1. PICK part : part = SubSeq(rest, 5, n + 4)
        OBVIOUS
      <3>2. /\ IsList(part)
            /\ Len(part) = IF 5 <= n + 4 THEN (n + 4) - 5 + 1 ELSE 0
            /\ \A i \in 1..((n + 4) - 5 + 1) : part[i] = rest[5 + i - 1]
        BY <1>2, <3>1, PartIs
      <3>3. Len(part) = n /\ \A i \in 1..n : part[i] = rest[5 + i - 1]
        BY <1>2, <3>2
      <3>4. \A i \in 1..n : 5 + i - 1 = i + 4
        BY <1>2
      <3>5. \A i \in 1..Len(part) : part[i] = text[i]
        BY <2>17, <3>3, <3>4
      <3> QED
        BY <1>1, <3>1, <3>2, <3>3, <3>5, ListsEqual
    <2>20. /\ Parameters(rest).middle = <<channel>>
           /\ Parameters(rest).trailing = <<text>>
      <3>1. IsList(rest) /\ 3 \in 2..(Len(rest) - 1) /\ Len(rest) = n + 4
        BY <1>2, <1>8, <2>11 DEF Clean
      <3>2. \A i \in 1..(3 - 1) : rest[i] # Space
        BY <2>17, SymbolsDiffer
      <3>3. rest[1] # ":" /\ rest[3 + 1] = ":" /\ rest[3] = Space
        BY <2>17, SymbolsDiffer DEF Colon
      <3>4. /\ Parameters(rest).middle = <<SubSeq(rest, 1, 3 - 1)>>
            /\ Parameters(rest).trailing = <<SubSeq(rest, 3 + 2, Len(rest))>>
        BY <3>1, <3>2, <3>3, TwoParameters
      <3>5. 3 - 1 = 2 /\ 3 + 2 = 5
        OBVIOUS
      <3> QED
        BY <2>18, <2>19, <3>1, <3>4, <3>5
    <2>21. ASSUME ~ (n + 6 > MaxPayload)
           PROVE  Parse(whole) = [ tags |-> << >>, prefix |-> << >>,
                                   command |-> <<Privmsg>>,
                                   parameters |-> <<channel, text>> ]
      <3>1. Len(rest) + 2 <= MaxLine
        BY <1>2, <2>11, <2>21, LimitsAssumption
      <3>2. Len(Parameters(rest).middle) <= MaxParameters
        <4>1. Len(<<channel>>) = 1
          OBVIOUS
        <4> QED
          BY <2>20, <4>1, LimitsAssumption
      <3>3. Parse(<<Privmsg, Space>> \o rest) =
              [ tags |-> << >>, prefix |-> << >>, command |-> <<Privmsg>>,
                parameters |-> Parameters(rest).middle
                                 \o Parameters(rest).trailing ]
        BY <2>11, <3>1, <3>2, WordsAreWords, ParsedRequest
      <3>4. <<channel>> \o <<text>> = <<channel, text>>
        BY ConcatTwo
      <3> QED
        BY <2>2, <2>12, <2>20, <3>3, <3>4, Zenon
    <2>22. Arrives(whole \o Ending) = Parse(whole)
      BY <2>13, ArrivesIs DEF Clean
    <2> QED
      BY <2>5, <2>16, <2>21, <2>22
  <1> QED
    BY <1>1, <1>6, <1>7, <1>8

-----------------------------------------------------------------------------
\* A line is a list whatever was appended to it.
LinesAreLists == IsList(line)

\* Every line is a list: stems and pieces are.
LEMMA LinesAre ==
  Spec => []LinesAreLists
PROOF
  <1>1. Init => LinesAreLists
    BY TextsAssumption DEF Init, LinesAreLists
  <1>2. LinesAreLists /\ [Next]_vars => LinesAreLists'
    <2> SUFFICES ASSUME LinesAreLists, [Next]_vars
                 PROVE  LinesAreLists'
      OBVIOUS
    <2>1. ASSUME NEW piece \in Pieces, Grow(piece)
          PROVE  LinesAreLists'
      <3>1. IsList(line) /\ IsList(piece) /\ line' = line \o piece
        BY <2>1, TextsAssumption DEF LinesAreLists, Grow
      <3> QED
        BY <3>1, ConcatIs DEF LinesAreLists
    <2>2. CASE UNCHANGED vars
      BY <2>2 DEF vars, LinesAreLists
    <2> QED
      BY <2>1, <2>2 DEF Next
  <1> QED
    BY <1>1, <1>2, PTL DEF Spec

\* The parameters of a line that is a message have no line break.
LEMMA PayloadIsClean ==
  ASSUME NEW text, IsList(text), NEW m, m = Parse(text),
         m.command = <<"PING">>, m.parameters # << >>
  PROVE  Clean(m.parameters[1])
PROOF
  <1>1. PICK body, source, tail, request, command, found, tags, prefix, bad :
          Steps(text, body, source, tail, request, command, found, tags, prefix,
                bad)
    BY ParseSteps
  <1>2. m # NoMessage
    <2>1. <<"PING">> # << >>
      OBVIOUS
    <2> QED
      BY <2>1 DEF NoMessage
  <1>3. /\ ~ ContainsLineBreak(text)
        /\ m = [ tags |-> tags, prefix |-> prefix, command |-> command,
                 parameters |-> found.middle \o found.trailing ]
    BY <1>1, <1>2, Zenon DEF Steps
  <1>4. Clean(text)
    BY <1>3 DEF Clean
  <1>5. Clean(body)
    <2>1. body = After(text, Space) \/ body = text
      BY <1>1, Zenon DEF Steps
    <2> QED
      BY <1>4, <2>1, AfterIsClean, Zenon
  <1>6. Clean(source)
    <2>1. source = SubSeq(body, Skip(body, Space, 1), Len(body))
      BY <1>1, Zenon DEF Steps
    <2> QED
      BY <1>5, <2>1, RestIsClean
  <1>7. Clean(tail)
    <2>1. tail = After(source, Space) \/ tail = source
      BY <1>1, Zenon DEF Steps
    <2> QED
      BY <1>6, <2>1, AfterIsClean, Zenon
  <1>8. Clean(request)
    <2>1. request = SubSeq(tail, Skip(tail, Space, 1), Len(tail))
      BY <1>1, Zenon DEF Steps
    <2> QED
      BY <1>7, <2>1, RestIsClean
  <1>9. PICK words : words = After(request, Space)
    OBVIOUS
  <1>10. Clean(words) /\ found = Parameters(words)
    BY <1>1, <1>8, <1>9, AfterIsClean, Zenon DEF Steps
  <1>11. /\ IsList(found.middle) /\ IsList(found.trailing)
         /\ \A i \in 1..Len(found.middle) : Clean(found.middle[i])
         /\ \A i \in 1..Len(found.trailing) : Clean(found.trailing[i])
    BY <1>10, ParametersAreClean
  <1>12. PICK s : s = found.middle
    OBVIOUS
  <1>13. PICK t : t = found.trailing
    OBVIOUS
  <1>14. /\ IsList(s \o t) /\ Len(s \o t) = Len(s) + Len(t)
         /\ \A i \in 1..(Len(s) + Len(t)) :
              (s \o t)[i] = IF i <= Len(s) THEN s[i] ELSE t[i - Len(s)]
    <2>1. IsList(s) /\ IsList(t)
      BY <1>11, <1>12, <1>13
    <2> QED
      BY <2>1, ConcatIs
  <1>15. m.parameters = s \o t
    <2>1. PICK both : both = s \o t
      OBVIOUS
    <2>2. m = [ tags |-> tags, prefix |-> prefix, command |-> command,
                parameters |-> both ]
      BY <1>3, <1>12, <1>13, <2>1, Zenon
    <2>3. m.parameters = both
      BY <2>2
    <2> QED
      BY <2>1, <2>3
  <1>16. Len(s) \in Nat /\ Len(t) \in Nat /\ Len(s) + Len(t) # 0
    BY <1>11, <1>12, <1>13, <1>14, <1>15, ListMeaning
  <1>17. PICK first : first = m.parameters[1]
    OBVIOUS
  <1>18. CASE Len(s) # 0
    <2>1. 1 \in 1..(Len(s) + Len(t)) /\ 1 <= Len(s) /\ 1 \in 1..Len(s)
      BY <1>16, <1>18
    <2>2. first = s[1]
      BY <1>14, <1>15, <1>17, <2>1
    <2>3. Clean(s[1])
      BY <1>11, <1>12, <2>1
    <2> QED
      BY <1>17, <2>2, <2>3
  <1>19. CASE Len(s) = 0
    <2>1. 1 \in 1..(Len(s) + Len(t)) /\ ~ (1 <= Len(s)) /\ 1 \in 1..Len(t)
          /\ 1 - Len(s) = 1
      BY <1>16, <1>19
    <2>2. first = t[1]
      BY <1>14, <1>15, <1>17, <2>1
    <2>3. Clean(t[1])
      BY <1>11, <1>13, <2>1
    <2> QED
      BY <1>17, <2>2, <2>3
  <1> QED
    BY <1>18, <1>19

\* Whatever the line is, what is sent arrives.
LEMMA SentFromLists ==
  ASSUME LinesAreLists
  PROVE  SentAsMeant
PROOF
  <1>1. IsList(line)
    BY DEF LinesAreLists
  <1>2. PrivmsgArrives
    <2>1. LET wire == MakePrivmsg(<<Letter>>, line) IN
          IF line = << >> \/ ContainsLineBreak(line) \/ Len(line) + 6 > MaxPayload
          THEN wire = << >>
          ELSE Arrives(wire) = [ tags |-> << >>, prefix |-> << >>,
                                 command |-> <<Privmsg>>,
                                 parameters |-> << <<Hash, Letter>>, line >> ]
      BY <1>1, PrivmsgReaches, Zenon
    <2> QED
      BY <2>1, Zenon DEF PrivmsgArrives, Request, Letter, Privmsg, Hash
  <1>3. PongExact
    <2>1. PICK m : m = Parse(line)
      OBVIOUS
    <2>2. SUFFICES ASSUME m.command = <<"PING">>, m.parameters # << >>
                   PROVE  LET payload == m.parameters[1] IN
                          IF Len(payload) + 3 > MaxPayload
                          THEN Pong(m) = << >>
                          ELSE Arrives(Pong(m)) = Request("PONG", <<payload>>)
      BY <2>1, Zenon DEF PongExact
    <2>3. PICK payload : payload = m.parameters[1]
      OBVIOUS
    <2>4. Clean(payload)
      BY <1>1, <2>1, <2>2, <2>3, PayloadIsClean
    <2>5. Pong(m) = EncodeLine(<<PongWord, Space, Colon>> \o payload)
      BY <2>2, <2>3, Zenon DEF Pong, PongWord, Space, Colon
    <2>6. IF Len(payload) + 3 > MaxPayload THEN Pong(m) = << >>
          ELSE Arrives(Pong(m)) = [ tags |-> << >>, prefix |-> << >>,
                                    command |-> <<PongWord>>,
                                    parameters |-> <<payload>> ]
      BY <2>4, <2>5, PongArrives, Zenon
    <2> QED
      BY <2>3, <2>6, Zenon DEF Request, PongWord
  <1> QED
    BY <1>2, <1>3 DEF SentAsMeant

\* Whatever text is appended to whatever, a response reaches its channel as one
\* message with its text or is refused as a whole, and a PONG carries the exact
\* payload of its PING (make_privmsg, encode_irc_line, handle of PING and
\* parse_irc_message).
THEOREM SendsAsMeant ==
  Spec => []SentAsMeant
PROOF
  <1>1. LinesAreLists => SentAsMeant
    BY SentFromLists
  <1> QED
    BY <1>1, LinesAre, PTL

-----------------------------------------------------------------------------
\* Where the words of a text begin, and those that begin before a position.
LEMMA WordStartsIs ==
  ASSUME NEW text, IsList(text)
  PROVE  WordStarts(text) =
           {i \in 1..Len(text) :
              text[i] # Space /\ (i = 1 \/ text[i - 1] = Space)}
PROOF
  <1>1. DOMAIN text = 1..Len(text)
    BY ListMeaning
  <1>2. WordStarts(text) =
          {i \in DOMAIN text :
             text[i] # Space /\ (i = 1 \/ text[i - 1] = Space)}
    BY Zenon DEF WordStarts, Space
  <1> QED
    BY <1>1, <1>2, Zenon

Starts(text, p) == {i \in WordStarts(text) : i < p}

\* The words of a text that begin at the positions of S.
WordsAt(words, text, S) ==
  /\ Len(words) = Cardinality(S)
  /\ \A i \in S :
       words[Rank(i, S)] = SubSeq(text, i, Find(text, Space, i) - 1)

\* The reference, with a name for the blank.
LEMMA AreWordsIs ==
  ASSUME NEW words, NEW text
  PROVE  AreWords(words, text) <=> WordsAt(words, text, WordStarts(text))
PROOF
  BY Zenon DEF AreWords, WordsAt, Space

\* The ranks in a set of numbers up to n.
LEMMA RanksOf ==
  ASSUME NEW n \in Nat, NEW S \in SUBSET (1..n)
  PROVE  /\ IsFiniteSet(S) /\ Cardinality(S) \in Nat
         /\ \A i \in S : Rank(i, S) \in 1..Cardinality(S)
PROOF
  <1>1. IsFiniteSet(1..n)
    BY FS_Interval
  <1>2. IsFiniteSet(S) /\ Cardinality(S) \in Nat
    BY <1>1, FS_Subset, FS_CardinalityType
  <1>3. ASSUME NEW i \in S
        PROVE  Rank(i, S) \in 1..Cardinality(S)
    <2>1. PICK R : R = {j \in S : j <= i}
      OBVIOUS
    <2>2. R \subseteq S /\ i \in R
      BY <2>1
    <2>3. /\ IsFiniteSet(R) /\ Cardinality(R) \in Nat
          /\ Cardinality(R) <= Cardinality(S)
      BY <1>2, <2>2, FS_Subset, FS_CardinalityType
    <2>4. Cardinality(R) # 0
      BY <2>2, <2>3, FS_EmptySet
    <2>5. Rank(i, S) = Cardinality(R)
      BY <2>1 DEF Rank
    <2> QED
      BY <1>2, <2>3, <2>4, <2>5
  <1> QED
    BY <1>2, <1>3

\* What an element behind all others changes about the ranks.
LEMMA OneMore ==
  ASSUME NEW n \in Nat, NEW S \in SUBSET (1..n), NEW b \in 1..n,
         \A i \in S : i < b
  PROVE  /\ Cardinality(S \cup {b}) = Cardinality(S) + 1
         /\ Rank(b, S \cup {b}) = Cardinality(S) + 1
         /\ \A i \in S : Rank(i, S \cup {b}) = Rank(i, S)
PROOF
  <1>1. IsFiniteSet(S) /\ b \notin S
    <2>1. IsFiniteSet(S)
      BY RanksOf
    <2>2. ~ (b < b)
      OBVIOUS
    <2> QED
      BY <2>1, <2>2
  <1>2. Cardinality(S \cup {b}) = Cardinality(S) + 1
    BY <1>1, FS_AddElement
  <1>3. {j \in S \cup {b} : j <= b} = S \cup {b}
    <2>1. \A j \in S \cup {b} : j <= b
      OBVIOUS
    <2> QED
      BY <2>1, Zenon
  <1>4. ASSUME NEW i \in S
        PROVE  {j \in S \cup {b} : j <= i} = {j \in S : j <= i}
    <2>1. ~ (b <= i)
      OBVIOUS
    <2> QED
      BY <2>1
  <1> QED
    BY <1>2, <1>3, <1>4 DEF Rank

\* A sequence that lists the values of f at the numbers of S in their order,
\* and one more of them.
Lists(seq, S, f) ==
  Len(seq) = Cardinality(S) /\ \A i \in S : seq[Rank(i, S)] = f[i]

\* A list of one more element.
LEMMA ListsOneMore ==
  ASSUME NEW n \in Nat, NEW S \in SUBSET (1..n), NEW b \in 1..n,
         \A i \in S : i < b,
         NEW f, NEW seq, IsList(seq), Lists(seq, S, f), NEW x, x = f[b]
  PROVE  Lists(Append(seq, x), S \cup {b}, f)
PROOF
  <1>1. PICK m : m = Cardinality(S)
    OBVIOUS
  <1>2. m \in Nat /\ Len(seq) = m /\ \A i \in S : Rank(i, S) \in 1..m
    BY <1>1, RanksOf DEF Lists
  <1>3. PICK T : T = S \cup {b}
    OBVIOUS
  <1>4. /\ Cardinality(T) = m + 1 /\ Rank(b, T) = m + 1
        /\ \A i \in S : Rank(i, T) = Rank(i, S)
    BY <1>1, <1>3, OneMore
  <1>5. PICK more : more = Append(seq, x)
    OBVIOUS
  <1>6. /\ Len(more) = m + 1 /\ more[m + 1] = x
        /\ \A i \in 1..m : more[i] = seq[i]
    <2>1. /\ Len(more) = Len(seq) + 1 /\ more[Len(seq) + 1] = x
          /\ \A i \in 1..Len(seq) : more[i] = seq[i]
      BY <1>5, AppendIs
    <2> QED
      BY <1>2, <2>1
  <1>7. ASSUME NEW i \in S
        PROVE  more[Rank(i, T)] = f[i]
    <2>1. more[Rank(i, T)] = seq[Rank(i, S)]
      BY <1>2, <1>4, <1>6
    <2>2. seq[Rank(i, S)] = f[i]
      BY DEF Lists
    <2> QED
      BY <2>1, <2>2
  <1>8. more[Rank(b, T)] = f[b]
    BY <1>4, <1>6
  <1>9. \A i \in T : more[Rank(i, T)] = f[i]
    BY <1>3, <1>7, <1>8
  <1> QED
    BY <1>3, <1>4, <1>5, <1>6, <1>9 DEF Lists

\* One more word.
LEMMA OneMoreWord ==
  ASSUME NEW text, NEW n \in Nat, NEW S \in SUBSET (1..n), NEW b \in 1..n,
         \A i \in S : i < b,
         NEW words, IsList(words), WordsAt(words, text, S),
         NEW word, word = SubSeq(text, b, Find(text, Space, b) - 1)
  PROVE  WordsAt(Append(words, word), text, S \cup {b})
PROOF
  <1>1. PICK f : f = [i \in 1..n |-> SubSeq(text, i, Find(text, Space, i) - 1)]
    OBVIOUS
  <1>2. \A i \in 1..n : f[i] = SubSeq(text, i, Find(text, Space, i) - 1)
    BY <1>1
  <1>3. \A seq, T : T \in SUBSET (1..n) =>
                      (WordsAt(seq, text, T) <=> Lists(seq, T, f))
    BY <1>2 DEF WordsAt, Lists
  <1>4. Lists(words, S, f)
    BY <1>3
  <1>5. Lists(Append(words, word), S \cup {b}, f)
    BY <1>2, <1>4, ListsOneMore
  <1>6. S \cup {b} \in SUBSET (1..n)
    OBVIOUS
  <1> QED
    BY <1>3, <1>5, <1>6, Zenon

-----------------------------------------------------------------------------
\* The words in front of p, none with a colon, are those read so far.
PassedWords(text, p, words) ==
  /\ \A i \in Starts(text, p) : text[i] # ":"
  /\ WordsAt(words, text, Starts(text, p))

\* The cursor has passed words only.
Open(text, s) ==
  /\ s.trailing = << >>
  /\ s.position \in 1..(Len(text) + 2)
  /\ s.position = 1 \/ s.position > Len(text) \/ text[s.position - 1] = Space
  /\ PassedWords(text, s.position, s.middle)

\* It has passed a word with a colon, and with it the rest of the text.
Closed(text, s) ==
  /\ s.position = Len(text) + 1
  /\ \E c \in WordStarts(text) : /\ text[c] = ":"
                                 /\ s.trailing = Behind(text, c)
                                 /\ PassedWords(text, c, s.middle)

\* What every round of the parameter loop keeps.
Scanned(text, s) ==
  s \in Reading(text) /\ (Open(text, s) \/ Closed(text, s))

\* A round keeps what is known of the cursor, and moves it.
LEMMA RoundScans ==
  ASSUME NEW text, IsList(text), NEW s, Scanned(text, s),
         s.position <= Len(text)
  PROVE  /\ Scanned(text, Round(text, s))
         /\ Round(text, s).position > s.position
PROOF
  <1>1. PICK n : n = Len(text)
    OBVIOUS
  <1>2. PICK p : p = s.position
    OBVIOUS
  <1>3. /\ n \in Nat /\ s \in Reading(text) /\ Open(text, s) /\ p \in 1..n
    BY <1>1, <1>2, ListMeaning DEF Scanned, Open, Closed
  <1>4. /\ s.trailing = << >> /\ (p = 1 \/ text[p - 1] = Space)
        /\ PassedWords(text, p, s.middle)
    BY <1>1, <1>2, <1>3 DEF Open
  <1>5. PICK start : start = Skip(text, Space, p)
    OBVIOUS
  <1>6. /\ start \in p..(n + 1) /\ (start = n + 1 \/ text[start] # Space)
        /\ \A q \in p..(start - 1) : text[q] = Space
    <2>1. p \in 1..(Len(text) + 1)
      BY <1>1, <1>3
    <2> QED
      BY <1>1, <1>5, <2>1, SkipIs DEF SkipsTo
  <1>7. PICK r : r = Round(text, s)
    OBVIOUS
  <1>8. r = NextParameter(text, s, start) /\ r \in Reading(text)
    <2>1. r \in Reading(text)
      BY <1>3, <1>7, RoundType
    <2>2. ~ (s.position > Len(text))
      BY <1>1, <1>2, <1>3
    <2> QED
      BY <1>2, <1>5, <1>7, <2>1, <2>2 DEF Round
  <1>9. WordStarts(text) = {i \in 1..n : text[i] # Space
                                         /\ (i = 1 \/ text[i - 1] = Space)}
    BY <1>1, WordStartsIs
  <1>10. Starts(text, start) = Starts(text, p)
    <2>1. ASSUME NEW i \in WordStarts(text), i < start, ~ (i < p)
          PROVE  FALSE
      <3>1. i \in 1..n /\ text[i] # Space
        BY <1>9
      <3>2. i \in p..(start - 1)
        BY <1>3, <1>6, <2>1, <3>1
      <3> QED
        BY <1>6, <3>1, <3>2
    <2>2. \A i \in WordStarts(text) : i < p => i < start
      BY <1>3, <1>6, <1>9
    <2> QED
      BY <2>1, <2>2 DEF Starts
  <1>11. PassedWords(text, start, s.middle)
    BY <1>4, <1>10 DEF PassedWords
  <1>12. CASE start = n + 1
    <2>1. start > Len(text)
      BY <1>1, <1>3, <1>12
    <2>2. r = [s EXCEPT !.position = n + 1]
      BY <1>1, <1>8, <2>1, NextParameterIs, Zenon
    <2>3. /\ r.position = n + 1 /\ r.middle = s.middle
          /\ r.trailing = s.trailing
      BY <1>3, <2>2 DEF Reading
    <2>4. Open(text, r)
      BY <1>1, <1>3, <1>4, <1>11, <1>12, <2>3 DEF Open
    <2> QED
      BY <1>2, <1>3, <1>7, <1>8, <2>3, <2>4 DEF Scanned
  <1>13. ASSUME start # n + 1
         PROVE  /\ start \in 1..n /\ start \in WordStarts(text)
                /\ ~ (start > Len(text))
    <2>1. start \in 1..n /\ text[start] # Space
      BY <1>3, <1>6, <1>13
    <2>2. start = 1 \/ text[start - 1] = Space
      <3>1. CASE start = p
        BY <1>4, <3>1
      <3>2. CASE start # p
        <4>1. start - 1 \in p..(start - 1)
          BY <1>3, <1>6, <3>2
        <4> QED
          BY <1>6, <4>1
      <3> QED
        BY <3>1, <3>2
    <2> QED
      BY <1>1, <1>3, <1>9, <2>1, <2>2
  <1>14. CASE start # n + 1 /\ text[start] = ":"
    <2>1. /\ r.position = Len(text) + 1 /\ r.middle = s.middle
          /\ r.trailing = Behind(text, start)
      BY <1>3, <1>8, <1>13, <1>14, NextIsTrailing
    <2>2. Closed(text, r)
      BY <1>11, <1>13, <1>14, <2>1 DEF Closed
    <2> QED
      BY <1>1, <1>2, <1>3, <1>7, <1>8, <2>1, <2>2 DEF Scanned
  <1>15. CASE start # n + 1 /\ text[start] # ":"
    <2>1. PICK end : end = Find(text, Space, start)
      OBVIOUS
    <2>2. PICK word : word = SubSeq(text, start, end - 1)
      OBVIOUS
    <2>3. /\ r.position = end + 1 /\ r.middle = Append(s.middle, word)
          /\ r.trailing = s.trailing
      <3>1. /\ r.position = Find(text, Space, start) + 1
            /\ r.middle = Append(s.middle,
                            SubSeq(text, start, Find(text, Space, start) - 1))
            /\ r.trailing = s.trailing
        <4>1. /\ s \in Reading(text) /\ ~ (start > Len(text))
              /\ text[start] # ":" /\ r = NextParameter(text, s, start)
          BY <1>3, <1>8, <1>13, <1>15
        <4> QED
          BY <4>1, NextIsMiddle
      <3> QED
        BY <2>1, <2>2, <3>1
    <2>4. /\ end \in start..(n + 1) /\ (end = n + 1 \/ text[end] = Space)
          /\ \A q \in start..(end - 1) : text[q] # Space
      <3>1. start \in 1..(Len(text) + 1)
        BY <1>1, <1>3, <1>13, <1>15
      <3> QED
        BY <1>1, <2>1, <3>1, FindIs DEF FindsAt
    <2>5. end > start
      <3>1. text[start] # Space
        BY <1>9, <1>13, <1>15
      <3> QED
        BY <1>3, <1>6, <1>15, <2>4, <3>1
    <2>6. Starts(text, end + 1) = Starts(text, start) \cup {start}
      <3>1. ASSUME NEW i \in WordStarts(text), i < end + 1, ~ (i < start),
                   i # start
            PROVE  FALSE
        <4>1. i \in 1..n /\ text[i] # Space /\ (i = 1 \/ text[i - 1] = Space)
          BY <1>9
        <4>2. i - 1 \in start..(end - 1) /\ i # 1
          BY <1>13, <1>15, <2>4, <3>1, <4>1
        <4> QED
          BY <2>4, <4>1, <4>2
      <3>2. \A i \in WordStarts(text) : i < start => i < end + 1
        BY <1>3, <1>9, <1>13, <1>15, <2>4
      <3>3. start < end + 1
        BY <1>3, <1>13, <1>15, <2>4
      <3> QED
        BY <1>13, <1>15, <3>1, <3>2, <3>3 DEF Starts
    <2>7. PICK S : S = Starts(text, start)
      OBVIOUS
    <2>8. S \in SUBSET (1..n) /\ \A i \in S : i < start
      BY <1>9, <2>7 DEF Starts
    <2>9. IsList(s.middle)
      BY <1>3, ListOf DEF Reading
    <2>10. WordsAt(s.middle, text, S) /\ \A i \in S : text[i] # ":"
      BY <1>11, <2>7 DEF PassedWords
    <2>11. WordsAt(r.middle, text, S \cup {start})
      <3>1. start \in 1..n /\ word = SubSeq(text, start,
                                            Find(text, Space, start) - 1)
        BY <1>13, <1>15, <2>1, <2>2
      <3>2. WordsAt(Append(s.middle, word), text, S \cup {start})
        BY <1>3, <2>8, <2>9, <2>10, <3>1, OneMoreWord
      <3> QED
        BY <2>3, <3>2, Zenon
    <2>12. PassedWords(text, end + 1, r.middle)
      BY <1>15, <2>6, <2>7, <2>10, <2>11 DEF PassedWords
    <2>13. Open(text, r)
      <3>1. end + 1 \in 1..(n + 2) /\ (end + 1) - 1 = end
        BY <1>3, <1>13, <1>15, <2>4
      <3>2. end + 1 > n \/ text[end] = Space
        BY <1>3, <2>4
      <3> QED
        BY <1>1, <1>4, <2>3, <2>12, <3>1, <3>2 DEF Open
    <2> QED
      BY <1>2, <1>3, <1>6, <1>7, <1>8, <2>3, <2>4, <2>5, <2>13 DEF Scanned
  <1> QED
    BY <1>12, <1>14, <1>15

\* The loop scans the whole text: every round brings the cursor further.
LEMMA ParametersScanned ==
  ASSUME NEW text, IsList(text)
  PROVE  /\ Scanned(text, Parameters(text))
         /\ Parameters(text).position > Len(text)
PROOF
  <1>1. PICK n : n = Len(text)
    OBVIOUS
  <1>2. n \in Nat
    BY <1>1, ListMeaning
  <1>3. PICK found : /\ found[0] = NoParameters
                     /\ \A k \in 0..n : found[k] \in Reading(text)
                     /\ \A k \in 1..n : found[k] = Round(text, found[k - 1])
                     /\ Parameters(text) = found[n]
    BY <1>1, ParametersLoop
  <1> DEFINE T == {k \in 0..n : /\ Scanned(text, found[k])
                                /\ \/ found[k].position > n
                                   \/ found[k].position > k}
  <1>4. 0 \in T
    <2>1. PICK s : s = NoParameters
      OBVIOUS
    <2>2. s \in Reading(text)
      BY <2>1, NoneRead
    <2>3. s.position = 1 /\ s.middle = << >> /\ s.trailing = << >>
      BY <2>1 DEF NoParameters
    <2>4. Starts(text, 1) = {}
      <3>1. \A i \in WordStarts(text) : ~ (i < 1)
        BY <1>2, <1>1, WordStartsIs
      <3> QED
        BY <3>1 DEF Starts
    <2>5. Len(<< >>) = 0 /\ Cardinality({}) = 0
      BY FS_EmptySet
    <2>6. PassedWords(text, 1, << >>)
      BY <2>4, <2>5 DEF PassedWords, WordsAt
    <2>7. Open(text, s)
      BY <1>1, <1>2, <2>3, <2>6 DEF Open
    <2>8. Scanned(text, s) /\ s.position > 0
      BY <2>2, <2>3, <2>7 DEF Scanned
    <2> QED
      BY <1>2, <1>3, <2>1, <2>8
  <1>5. ASSUME NEW k \in 1..n, k - 1 \in T
        PROVE  k \in T
    <2>1. PICK s : s = found[k - 1]
      OBVIOUS
    <2>2. found[k] = Round(text, s) /\ Scanned(text, s)
      BY <1>3, <1>5, <2>1
    <2>3. s.position \in Nat
      BY <2>2 DEF Scanned, Reading
    <2>4. CASE s.position > n
      <3>1. Round(text, s) = s
        BY <1>1, <2>4 DEF Round
      <3> QED
        BY <2>2, <2>4, <3>1
    <2>5. CASE ~ (s.position > n)
      <3>1. s.position <= Len(text) /\ s.position > k - 1
        BY <1>1, <1>2, <1>5, <2>1, <2>3, <2>5
      <3>2. /\ Scanned(text, found[k])
            /\ found[k].position > s.position
        BY <2>2, <3>1, RoundScans
      <3>3. found[k].position \in Nat
        BY <3>2 DEF Scanned, Reading
      <3>4. found[k].position > k
        BY <1>2, <2>3, <3>1, <3>2, <3>3
      <3> QED
        BY <3>2, <3>4
    <2> QED
      BY <2>4, <2>5
  <1>6. n \in T
    <2>1. \A k \in 0..n : k \in T
      <3> HIDE DEF T
      <3> QED
        BY <1>2, <1>4, <1>5, UpTo
    <2> QED
      BY <1>2, <2>1
  <1> QED
    BY <1>1, <1>3, <1>6

\* The words before a word are those of the text that ends there.
LEMMA WordsBefore ==
  ASSUME NEW text, IsList(text), NEW c \in WordStarts(text), NEW words,
         WordsAt(words, text, Starts(text, c))
  PROVE  AreWords(words, SubSeq(text, 1, c - 1))
PROOF
  <1>1. PICK n : n = Len(text)
    OBVIOUS
  <1>2. n \in Nat
    BY <1>1, ListMeaning
  <1>3. WordStarts(text) = {i \in 1..n : text[i] # Space
                                         /\ (i = 1 \/ text[i - 1] = Space)}
    BY <1>1, WordStartsIs
  <1>4. c \in 1..n /\ (c = 1 \/ text[c - 1] = Space)
    BY <1>3
  <1>5. PICK head : head = SubSeq(text, 1, c - 1)
    OBVIOUS
  <1>6. /\ IsList(head) /\ Len(head) = c - 1
        /\ \A i \in 1..(c - 1) : head[i] = text[i]
    <2>1. /\ IsList(head) /\ Len(head) = IF 1 <= c - 1 THEN c - 1 - 1 + 1 ELSE 0
          /\ \A i \in 1..(c - 1 - 1 + 1) : head[i] = text[1 + i - 1]
      BY <1>4, <1>5, PartIs
    <2>2. \A i \in 1..(c - 1) : i \in 1..(c - 1 - 1 + 1) /\ 1 + i - 1 = i
      BY <1>4
    <2> QED
      BY <1>4, <2>1, <2>2
  <1>7. WordStarts(head) = Starts(text, c)
    <2>1. WordStarts(head) =
            {i \in 1..(c - 1) : head[i] # Space
                                /\ (i = 1 \/ head[i - 1] = Space)}
      BY <1>6, WordStartsIs
    <2>2. \A i \in 1..(c - 1) : /\ head[i] = text[i]
                                /\ i # 1 => head[i - 1] = text[i - 1]
      BY <1>4, <1>6
    <2>3. Starts(text, c) =
            {i \in 1..(c - 1) : text[i] # Space
                                /\ (i = 1 \/ text[i - 1] = Space)}
      BY <1>2, <1>3, <1>4 DEF Starts
    <2> QED
      BY <2>1, <2>2, <2>3
  <1>8. ASSUME NEW i \in Starts(text, c)
        PROVE  SubSeq(head, i, Find(head, Space, i) - 1)
                 = SubSeq(text, i, Find(text, Space, i) - 1)
    <2>1. i \in 1..(c - 1) /\ text[i] # Space
      BY <1>2, <1>3, <1>4 DEF Starts
    <2>2. text[c - 1] = Space
      BY <1>4, <2>1
    <2>3. PICK e : e = Find(text, Space, i)
      OBVIOUS
    <2>4. /\ e \in i..(n + 1) /\ (e = n + 1 \/ text[e] = Space)
          /\ \A q \in i..(e - 1) : text[q] # Space
      <3>1. i \in 1..(Len(text) + 1)
        BY <1>1, <1>2, <1>4, <2>1
      <3> QED
        BY <1>1, <2>3, <3>1, FindIs DEF FindsAt
    <2>5. e \in i..(c - 1) /\ text[e] = Space
      <3>1. ~ (e > c - 1)
        <4>1. ASSUME e > c - 1 PROVE FALSE
          <5>1. c - 1 \in i..(e - 1)
            BY <1>4, <2>1, <2>4, <4>1
          <5> QED
            BY <2>2, <2>4, <5>1
        <4> QED
          BY <4>1
      <3> QED
        BY <1>2, <1>4, <2>1, <2>4, <3>1
    <2>6. Find(head, Space, i) = e
      <3>1. /\ e \in i..(Len(head) + 1) /\ head[e] = Space
            /\ \A q \in i..(e - 1) : head[q] # Space
        <4>1. \A q \in i..e : q \in 1..(c - 1)
          BY <1>4, <2>1, <2>5
        <4>2. \A q \in i..(e - 1) : q \in i..e
          BY <1>4, <2>1, <2>5
        <4>3. e \in i..e /\ e \in i..(c - 1 + 1)
          BY <1>4, <2>1, <2>5
        <4> QED
          BY <1>6, <2>4, <2>5, <4>1, <4>2, <4>3
      <3>2. FindsAt(head, Space, i, e)
        BY <3>1 DEF FindsAt
      <3>3. i \in 1..(Len(head) + 1)
        BY <1>4, <1>6, <2>1
      <3> QED
        BY <1>6, <3>2, <3>3, FindUnique
    <2>7. PICK a : a = SubSeq(head, i, e - 1)
      OBVIOUS
    <2>8. PICK b : b = SubSeq(text, i, e - 1)
      OBVIOUS
    <2>9. i \in Int /\ e - 1 \in Int
      BY <1>4, <2>1, <2>5
    <2>10. /\ IsList(a) /\ Len(a) = IF i <= e - 1 THEN e - 1 - i + 1 ELSE 0
           /\ \A j \in 1..(e - 1 - i + 1) : a[j] = head[i + j - 1]
      BY <2>7, <2>9, PartIs
    <2>11. /\ IsList(b) /\ Len(b) = IF i <= e - 1 THEN e - 1 - i + 1 ELSE 0
           /\ \A j \in 1..(e - 1 - i + 1) : b[j] = text[i + j - 1]
      BY <2>8, <2>9, PartIs
    <2>12. ASSUME NEW j \in 1..Len(a)
           PROVE  a[j] = b[j]
      <3>1. j \in 1..(e - 1 - i + 1) /\ i + j - 1 \in 1..(c - 1)
        BY <1>4, <2>1, <2>5, <2>10
      <3> QED
        BY <1>6, <2>10, <2>11, <3>1
    <2>13. a = b
      BY <2>10, <2>11, <2>12, ListsEqual
    <2> QED
      BY <2>3, <2>6, <2>7, <2>8, <2>13
  <1>9. WordsAt(words, head, WordStarts(head))
    BY <1>7, <1>8 DEF WordsAt
  <1> QED
    BY <1>5, <1>9, AreWordsIs

\* The parameters of every list are exact.
LEMMA ParametersFromLists ==
  ASSUME LinesAreLists
  PROVE  ParametersExact
PROOF
  <1>1. IsList(line)
    BY DEF LinesAreLists
  <1>2. PICK colons : colons = {i \in WordStarts(line) : line[i] = ":"}
    OBVIOUS
  <1>3. PICK found : found = Parameters(line)
    OBVIOUS
  <1>4. PICK n : n = Len(line)
    OBVIOUS
  <1>5. n \in Nat
    BY <1>1, <1>4, ListMeaning
  <1>6. /\ Open(line, found) \/ Closed(line, found)
        /\ found.position > n
    BY <1>1, <1>3, <1>4, ParametersScanned DEF Scanned
  <1>7. WordStarts(line) \subseteq 1..n
    BY <1>1, <1>4, WordStartsIs
  <1>8. CASE Open(line, found)
    <2>1. PICK p : p = found.position
      OBVIOUS
    <2>2. p \in Int /\ p > n /\ PassedWords(line, p, found.middle)
          /\ found.trailing = << >>
      BY <1>4, <1>5, <1>6, <1>8, <2>1 DEF Open
    <2>3. Starts(line, p) = WordStarts(line)
      <3>1. \A i \in WordStarts(line) : i < p
        BY <1>5, <1>7, <2>2
      <3> QED
        BY <3>1, Zenon DEF Starts
    <2>4. colons = {}
      BY <1>2, <2>2, <2>3 DEF PassedWords
    <2>5. AreWords(found.middle, line)
      BY <2>2, <2>3, AreWordsIs DEF PassedWords
    <2> QED
      BY <1>2, <1>3, <2>2, <2>4, <2>5, Zenon DEF ParametersExact
  <1>9. CASE Closed(line, found)
    <2>1. PICK c \in WordStarts(line) :
            /\ line[c] = ":" /\ found.trailing = Behind(line, c)
            /\ PassedWords(line, c, found.middle)
      BY <1>9 DEF Closed
    <2>2. c \in colons
      BY <1>2, <2>1
    <2>3. ASSUME NEW j \in colons
          PROVE  c <= j
      <3>1. j \in WordStarts(line) /\ line[j] = ":"
        BY <1>2
      <3>2. ~ (j < c)
        BY <2>1, <3>1 DEF PassedWords, Starts
      <3>3. j \in 1..n /\ c \in 1..n
        BY <1>7, <3>1
      <3> QED
        BY <1>5, <3>2, <3>3
    <2>4. PICK first : first = CHOOSE i \in colons : \A j \in colons : i <= j
      OBVIOUS
    <2>5. first \in colons /\ \A j \in colons : first <= j
      BY <2>2, <2>3, <2>4
    <2>6. first = c
      <3>1. first <= c /\ c <= first
        BY <2>2, <2>3, <2>5
      <3>2. first \in 1..n /\ c \in 1..n
        BY <1>2, <1>7, <2>2, <2>5
      <3> QED
        BY <1>5, <3>1, <3>2
    <2>7. AreWords(found.middle, SubSeq(line, 1, first - 1))
      BY <1>1, <2>1, <2>6, WordsBefore DEF PassedWords
    <2>8. found.trailing = <<SubSeq(line, first + 1, Len(line))>>
      BY <2>1, <2>6 DEF Behind
    <2> QED
      BY <1>2, <1>3, <2>2, <2>4, <2>7, <2>8, Zenon DEF ParametersExact
  <1> QED
    BY <1>6, <1>8, <1>9

\* The loop over the parameters, which moves a cursor over blanks and words,
\* yields the words before the first one that begins with a colon, in their
\* order, and the rest of the line behind that colon (parse_irc_message).
THEOREM ParametersAreExact ==
  Spec => []ParametersExact
PROOF
  <1>1. LinesAreLists => ParametersExact
    BY ParametersFromLists
  <1> QED
    BY <1>1, LinesAre, PTL

-----------------------------------------------------------------------------
\* The symbols of a tag section.
Escaper == "\\"
Semicolon == ";"
Equals == "="

\* What the loop over a tag value holds.
Read(value) ==
  [ escaped : BOOLEAN,
    text : Seq({value[i] : i \in 1..Len(value)}
                 \cup {Unescape(value[i]) : i \in 1..Len(value)}) ]

NothingRead == [escaped |-> FALSE, text |-> << >>]

\* One symbol.
LEMMA ReadSymbolIs ==
  ASSUME NEW value, NEW s \in Read(value), NEW i \in 1..Len(value),
         NEW t, t = ReadSymbol(s, value[i])
  PROVE  /\ t \in Read(value)
         /\ s.escaped => /\ ~ t.escaped
                         /\ t.text = Append(s.text, Unescape(value[i]))
         /\ ~ s.escaped /\ value[i] = Escaper => t.escaped /\ t.text = s.text
         /\ ~ s.escaped /\ value[i] # Escaper =>
              ~ t.escaped /\ t.text = Append(s.text, value[i])
PROOF
  <1>1. PICK X : X = {value[j] : j \in 1..Len(value)}
                       \cup {Unescape(value[j]) : j \in 1..Len(value)}
    OBVIOUS
  <1>2. /\ s.escaped \in BOOLEAN /\ s.text \in Seq(X)
        /\ s = [escaped |-> s.escaped, text |-> s.text]
    BY <1>1 DEF Read
  <1>3. value[i] \in X /\ Unescape(value[i]) \in X
    BY <1>1
  <1>4. /\ Append(s.text, value[i]) \in Seq(X)
        /\ Append(s.text, Unescape(value[i])) \in Seq(X)
    BY <1>2, <1>3, AppendProperties
  <1>5. t = IF s.escaped
            THEN [escaped |-> FALSE, text |-> Append(s.text, Unescape(value[i]))]
            ELSE IF value[i] = Escaper THEN [s EXCEPT !.escaped = TRUE]
            ELSE [s EXCEPT !.text = Append(@, value[i])]
    BY Zenon DEF ReadSymbol, Escaper
  <1>6. ASSUME NEW b \in BOOLEAN, NEW w \in Seq(X),
               t = [escaped |-> b, text |-> w]
        PROVE  t \in Read(value) /\ t.escaped = b /\ t.text = w
    BY <1>1, <1>6 DEF Read
  <1>7. CASE s.escaped
    <2>1. PICK w : w = Append(s.text, Unescape(value[i]))
      OBVIOUS
    <2>2. w \in Seq(X) /\ t = [escaped |-> FALSE, text |-> w]
      BY <1>4, <1>5, <1>7, <2>1
    <2> QED
      BY <1>6, <1>7, <2>1, <2>2
  <1>8. CASE ~ s.escaped /\ value[i] = Escaper
    <2>1. t = [s EXCEPT !.escaped = TRUE]
      BY <1>5, <1>8
    <2>2. t = [escaped |-> TRUE, text |-> s.text]
      BY <1>2, <2>1
    <2> QED
      BY <1>2, <1>6, <1>8, <2>2
  <1>9. CASE ~ s.escaped /\ value[i] # Escaper
    <2>1. PICK w : w = Append(s.text, value[i])
      OBVIOUS
    <2>2. t = [s EXCEPT !.text = w]
      BY <1>5, <1>9, <2>1
    <2>3. w \in Seq(X) /\ t = [escaped |-> FALSE, text |-> w]
      BY <1>2, <1>4, <1>9, <2>1, <2>2
    <2> QED
      BY <1>6, <1>9, <2>1, <2>3
  <1> QED
    BY <1>7, <1>8, <1>9

\* The loop over a tag value has its sequence of values.
LEMMA UnescapeLoop ==
  ASSUME NEW value, IsList(value)
  PROVE  \E read : /\ read[0] = NothingRead
                   /\ \A i \in 0..Len(value) : read[i] \in Read(value)
                   /\ \A i \in 1..Len(value) :
                        read[i] = ReadSymbol(read[i - 1], value[i])
                   /\ UnescapeTag(value) =
                        IF read[Len(value)].escaped
                        THEN Append(read[Len(value)].text, Escaper)
                        ELSE read[Len(value)].text
PROOF
  <1> DEFINE n == Len(value)
             D == Read(value)
             F == [d \in D \X (1..n) |-> ReadSymbol(d[1], value[d[2]])]
             Loop(f) == [i \in 0..n |->
                           IF i = 0 THEN NothingRead
                           ELSE ReadSymbol(f[i - 1], value[i])]
             read == CHOOSE f : f = Loop(f)
  <1>1. n \in Nat
    BY ListMeaning
  <1>2. NothingRead \in D
    <2>1. PICK X : X = {value[j] : j \in 1..Len(value)}
                         \cup {Unescape(value[j]) : j \in 1..Len(value)}
      OBVIOUS
    <2>2. << >> \in Seq(X)
      BY EmptySeq
    <2> QED
      BY <2>1, <2>2 DEF NothingRead, Read
  <1>3. \A x \in D, i \in 1..n : ReadSymbol(x, value[i]) \in D
    BY ReadSymbolIs
  <1>4. UnescapeTag(value) = IF read[n].escaped
                             THEN Append(read[n].text, Escaper)
                             ELSE read[n].text
    BY Zenon DEF UnescapeTag, NothingRead, Escaper
  <1> HIDE DEF D, n
  <1>5. F \in [D \X (1..n) -> D]
    BY <1>3
  <1>6. \A x \in D, i \in 1..n : F[<<x, i>>] = ReadSymbol(x, value[i])
    OBVIOUS
  <1> HIDE DEF F
  <1>7. PICK g : Loops(g, n, D, NothingRead, F)
    BY <1>1, <1>2, <1>5, LoopExists
  <1>8. g = Loop(g)
    <2>1. ASSUME NEW i \in 1..n
          PROVE  g[i] = ReadSymbol(g[i - 1], value[i])
      <3>1. i - 1 \in 0..n
        BY <1>1
      <3>2. g[i - 1] \in D /\ g[i] = F[<<g[i - 1], i>>]
        BY <1>7, <3>1 DEF Loops
      <3> QED
        BY <1>6, <3>2
    <2>2. ASSUME NEW i \in 0..n
          PROVE  g[i] = Loop(g)[i]
      <3>1. CASE i = 0
        <4>1. Loop(g)[0] = NothingRead
          BY <1>1
        <4>2. g[0] = NothingRead
          BY <1>7 DEF Loops
        <4> HIDE DEF Loop
        <4> QED
          BY <3>1, <4>1, <4>2
      <3>2. CASE i \in 1..n
        <4>1. i # 0 /\ i \in 0..n
          BY <1>1, <3>2
        <4>2. Loop(g)[i] = ReadSymbol(g[i - 1], value[i])
          BY <4>1
        <4> HIDE DEF Loop
        <4> QED
          BY <2>1, <3>2, <4>2
      <3> HIDE DEF Loop
      <3> QED
        BY <1>1, <3>1, <3>2
    <2>3. g \in [0..n -> D]
      BY <1>7 DEF Loops
    <2>4. Loop(g) = [i \in 0..n |-> Loop(g)[i]]
      OBVIOUS
    <2> HIDE DEF Loop
    <2> QED
      BY <2>2, <2>3, <2>4
  <1>9. read = Loop(read)
    BY <1>8, Zenon
  <1> HIDE DEF read
  <1>10. read[0] = NothingRead
    <2>1. Loop(read)[0] = NothingRead
      BY <1>1
    <2> HIDE DEF Loop
    <2> QED
      BY <1>9, <2>1
  <1>11. ASSUME NEW i \in 1..n
         PROVE  read[i] = ReadSymbol(read[i - 1], value[i])
    <2>1. i # 0 /\ i \in 0..n
      BY <1>1
    <2>2. Loop(read)[i] = ReadSymbol(read[i - 1], value[i])
      BY <2>1
    <2> HIDE DEF Loop
    <2> QED
      BY <1>9, <2>2
  <1>12. \A i \in 1..n : read[i - 1] \in D => read[i] \in D
    BY <1>3, <1>11
  <1>13. \A i \in 0..n : read[i] \in D
    BY <1>1, <1>2, <1>10, <1>12, LoopStays
  <1> QED
    BY <1>4, <1>10, <1>11, <1>13 DEF D, n

\* What is written for a symbol is read as it.
LEMMA EscapeInverse ==
  /\ \A d \in Special : Unescape(Escape(d)) = d
  /\ \A c : (\A d \in Special : Escape(d) # c) => Unescape(c) = c
PROOF
  <1>1. /\ Escape(";") = ":" /\ Escape(" ") = "s" /\ Escape("CR") = "r"
        /\ Escape("LF") = "n" /\ Escape("\\") = "\\"
    BY Zenon DEF Escape
  <1>2. /\ Unescape(":") = ";" /\ Unescape("s") = " " /\ Unescape("r") = "CR"
        /\ Unescape("n") = "LF" /\ Unescape("\\") = "\\"
    BY Zenon DEF Unescape
  <1>3. \A c : c \notin {":", "s", "r", "n"} => Unescape(c) = c
    BY Zenon DEF Unescape
  <1> QED
    BY <1>1, <1>2, <1>3, Zenon DEF Special

\* The number of backslashes in front of a position.
RunOf(value, i, m) ==
  /\ m \in 0..(i - 1)
  /\ \A k \in (i - m)..(i - 1) : value[k] = Escaper
  /\ m = i - 1 \/ value[i - m - 1] # Escaper

Run(value, i) ==
  CHOOSE m \in 0..(i - 1) :
    /\ \A k \in (i - m)..(i - 1) : value[k] = Escaper
    /\ m = i - 1 \/ value[i - m - 1] # Escaper

Marks(value) ==
  {i \in 1..(Len(value) - 1) : value[i] = Escaper /\ Run(value, i) % 2 = 0}

\* There is one run of backslashes in front of a place.
LEMMA RunUnique ==
  ASSUME NEW value, NEW i \in Nat \ {0}, NEW m, RunOf(value, i, m)
  PROVE  Run(value, i) = m
PROOF
  <1>1. PICK r : r = Run(value, i)
    OBVIOUS
  <1>2. RunOf(value, i, r)
    BY <1>1 DEF Run, RunOf
  <1>3. ASSUME NEW a, NEW b, RunOf(value, i, a), RunOf(value, i, b)
        PROVE  ~ (a < b)
    <2>1. SUFFICES ASSUME a < b PROVE FALSE
      OBVIOUS
    <2>2. /\ a \in 0..(i - 1) /\ b \in 0..(i - 1)
          /\ a = i - 1 \/ value[i - a - 1] # Escaper
          /\ \A k \in (i - b)..(i - 1) : value[k] = Escaper
      BY <1>3 DEF RunOf
    <2>3. a # i - 1 /\ i - a - 1 \in (i - b)..(i - 1)
      BY <2>1, <2>2
    <2> QED
      BY <2>2, <2>3
  <1>4. ~ (r < m) /\ ~ (m < r)
    BY <1>2, <1>3
  <1>5. r \in Int /\ m \in Int
    BY <1>2 DEF RunOf
  <1> QED
    BY <1>1, <1>4, <1>5

\* What a position of a value stands for, if it is kept.
Meaning(value, i, escaped) == IF escaped THEN Unescape(value[i]) ELSE value[i]

\* The reference, with runs and marks in the place of its definitions.
LEMMA WasBeforeIs ==
  ASSUME NEW text, NEW value, NEW kept, kept = DOMAIN value \ Marks(value),
         Len(text) = Cardinality(kept),
         \A i \in kept : text[Rank(i, kept)]
                           = Meaning(value, i, i - 1 \in Marks(value))
  PROVE  WasBefore(text, value)
PROOF
  <1> DEFINE Meanings(i) == {c \in Special : Escape(c) = value[i]}
             Meant(i) == IF i - 1 \in Marks(value) /\ Meanings(i) # {}
                         THEN CHOOSE c \in Meanings(i) : TRUE ELSE value[i]
  <1>1. ASSUME NEW i
        PROVE  Meant(i) = Meaning(value, i, i - 1 \in Marks(value))
    <2>1. CASE i - 1 \in Marks(value)
      <3>1. ASSUME NEW c \in Meanings(i)
            PROVE  c = Unescape(value[i])
        <4>1. c \in Special /\ Escape(c) = value[i]
          OBVIOUS
        <4>2. Unescape(Escape(c)) = c
          BY <4>1, EscapeInverse, Zenon
        <4> QED
          BY <4>1, <4>2
      <3>2. CASE Meanings(i) # {}
        <4>1. PICK c : c = CHOOSE x \in Meanings(i) : TRUE
          OBVIOUS
        <4>2. c \in Meanings(i)
          BY <3>2, <4>1, Zenon
        <4>3. c = Unescape(value[i])
          <5> HIDE DEF Meanings
          <5> QED
            BY <3>1, <4>2
        <4>4. Meant(i) = c
          <5> HIDE DEF Meanings
          <5> QED
            BY <2>1, <3>2, <4>1
        <4> HIDE DEF Meant
        <4> QED
          BY <2>1, <4>3, <4>4 DEF Meaning
      <3>3. CASE Meanings(i) = {}
        <4>1. \A d \in Special : Escape(d) # value[i]
          BY <3>3, Zenon
        <4>2. Unescape(value[i]) = value[i]
          BY <4>1, EscapeInverse, Zenon
        <4>3. Meant(i) = value[i]
          <5> HIDE DEF Meanings
          <5> QED
            BY <3>3
        <4> HIDE DEF Meant
        <4> QED
          BY <4>2, <4>3 DEF Meaning
      <3> QED
        BY <3>2, <3>3
    <2>2. CASE i - 1 \notin Marks(value)
      <3>1. Meant(i) = value[i]
        <4> HIDE DEF Meanings
        <4> QED
          BY <2>2
      <3> HIDE DEF Meant
      <3> QED
        BY <2>2, <3>1 DEF Meaning
    <2> QED
      BY <2>1, <2>2
  <1>2. ASSUME NEW i \in kept
        PROVE  text[Rank(i, kept)] = Meant(i)
    <2> HIDE DEF Meant
    <2> QED
      BY <1>1
  <1>3. \A i \in DOMAIN value \ Marks(value) :
          text[Rank(i, DOMAIN value \ Marks(value))] = Meant(i)
    <2> HIDE DEF Meant
    <2> QED
      BY <1>2
  <1>4. Len(text) = Cardinality(DOMAIN value \ Marks(value))
    OBVIOUS
  <1> QED
    BY <1>3, <1>4, Zenon DEF WasBefore, Marks, Run, Escaper

\* unescape_irc_tag, whose flag says whether the last symbol was a backslash
\* that waits, counts the backslashes in front of every symbol.
LEMMA UnescapeIs ==
  ASSUME NEW value, IsList(value)
  PROVE  WasBefore(UnescapeTag(value), value)
PROOF
  <1>1. PICK n : n = Len(value)
    OBVIOUS
  <1>2. n \in Nat /\ DOMAIN value = 1..n
    BY <1>1, ListMeaning
  <1>3. PICK read : /\ read[0] = NothingRead
                    /\ \A i \in 0..n : read[i] \in Read(value)
                    /\ \A i \in 1..n :
                         read[i] = ReadSymbol(read[i - 1], value[i])
                    /\ UnescapeTag(value) =
                         IF read[n].escaped
                         THEN Append(read[n].text, Escaper)
                         ELSE read[n].text
    BY <1>1, UnescapeLoop
  <1> DEFINE Escaped(i) == read[i].escaped
  <1>4. /\ Escaped(0) = FALSE /\ read[0].text = << >>
        /\ \A i \in 0..n : Escaped(i) \in BOOLEAN /\ IsList(read[i].text)
    <2>1. Escaped(0) = FALSE /\ read[0].text = << >>
      BY <1>3 DEF NothingRead
    <2>2. ASSUME NEW i \in 0..n
          PROVE  Escaped(i) \in BOOLEAN /\ IsList(read[i].text)
      <3>1. read[i] \in Read(value)
        BY <1>3
      <3> QED
        BY <3>1, ListOf DEF Read
    <2> QED
      BY <2>1, <2>2
  <1>5. ASSUME NEW i \in 1..n
        PROVE  /\ Escaped(i - 1) =>
                    /\ ~ Escaped(i)
                    /\ read[i].text = Append(read[i - 1].text,
                                             Unescape(value[i]))
               /\ ~ Escaped(i - 1) /\ value[i] = Escaper =>
                    Escaped(i) /\ read[i].text = read[i - 1].text
               /\ ~ Escaped(i - 1) /\ value[i] # Escaper =>
                    /\ ~ Escaped(i)
                    /\ read[i].text = Append(read[i - 1].text, value[i])
    <2>1. PICK s : s = read[i - 1]
      OBVIOUS
    <2>2. PICK t : t = read[i]
      OBVIOUS
    <2>3. /\ s \in Read(value) /\ i \in 1..Len(value)
          /\ t = ReadSymbol(s, value[i])
      BY <1>1, <1>2, <1>3, <2>1, <2>2
    <2>4. /\ s.escaped => /\ ~ t.escaped
                          /\ t.text = Append(s.text, Unescape(value[i]))
          /\ ~ s.escaped /\ value[i] = Escaper => t.escaped /\ t.text = s.text
          /\ ~ s.escaped /\ value[i] # Escaper =>
               ~ t.escaped /\ t.text = Append(s.text, value[i])
      BY <2>3, ReadSymbolIs
    <2> QED
      BY <2>1, <2>2, <2>4
  <1>6. \A i \in 0..n : \E m : /\ RunOf(value, i + 1, m)
                               /\ Escaped(i) <=> m % 2 = 1
    <2> DEFINE T == {i \in 0..n : \E m : /\ RunOf(value, i + 1, m)
                                         /\ Escaped(i) <=> m % 2 = 1}
    <2>1. 0 \in T
      <3>1. RunOf(value, 0 + 1, 0)
        BY DEF RunOf
      <3>2. ~ (0 % 2 = 1) /\ 0 \in 0..n
        BY <1>2
      <3> QED
        BY <1>4, <3>1, <3>2
    <2>2. ASSUME NEW i \in 1..n, i - 1 \in T
          PROVE  i \in T
      <3>1. PICK m : /\ RunOf(value, (i - 1) + 1, m)
                     /\ Escaped(i - 1) <=> m % 2 = 1
        BY <2>2
      <3>2. /\ m \in 0..(i - 1)
            /\ \A k \in (i - m)..(i - 1) : value[k] = Escaper
            /\ m = i - 1 \/ value[i - m - 1] # Escaper
        <4>1. (i - 1) + 1 = i
          OBVIOUS
        <4> QED
          BY <3>1, <4>1 DEF RunOf
      <3>3. CASE value[i] = Escaper
        <4>1. RunOf(value, i + 1, m + 1)
          <5>1. /\ (i + 1) - (m + 1) = i - m /\ (i + 1) - 1 = i
                /\ m + 1 \in 0..i
                /\ (i + 1) - (m + 1) - 1 = i - m - 1
            BY <3>2
          <5>2. \A k \in (i - m)..i : value[k] = Escaper
            <6>1. \A k \in (i - m)..i : k = i \/ k \in (i - m)..(i - 1)
              BY <3>2
            <6> QED
              BY <3>2, <3>3, <6>1
          <5>3. m + 1 = i \/ value[i - m - 1] # Escaper
            BY <3>2
          <5> QED
            BY <5>1, <5>2, <5>3 DEF RunOf
        <4>2. (m + 1) % 2 = 1 <=> ~ (m % 2 = 1)
          BY <3>2
        <4>3. Escaped(i) <=> ~ Escaped(i - 1)
          <5> HIDE DEF Escaped
          <5> QED
            BY <1>5, <3>3
        <4>4. Escaped(i) <=> (m + 1) % 2 = 1
          <5> HIDE DEF Escaped
          <5> QED
            BY <3>1, <4>2, <4>3
        <4>5. i \in 0..n
          BY <1>2
        <4> HIDE DEF Escaped
        <4> QED
          BY <4>1, <4>4, <4>5
      <3>4. CASE value[i] # Escaper
        <4>1. RunOf(value, i + 1, 0)
          <5>1. (i + 1) - 0 - 1 = i /\ (i + 1) - 1 = i /\ 0 \in 0..i
                /\ (i + 1) - 0 = i + 1
            OBVIOUS
          <5>2. \A k \in (i + 1)..i : FALSE
            OBVIOUS
          <5> QED
            BY <3>4, <5>1, <5>2 DEF RunOf
        <4>2. ~ Escaped(i)
          <5> HIDE DEF Escaped
          <5> QED
            BY <1>5, <3>4
        <4>3. ~ (0 % 2 = 1) /\ i \in 0..n
          BY <1>2
        <4> HIDE DEF Escaped
        <4> QED
          BY <4>1, <4>2, <4>3
      <3> QED
        BY <3>3, <3>4
    <2>3. \A i \in 0..n : i \in T
      <3> HIDE DEF T
      <3> QED
        BY <1>2, <2>1, <2>2, UpTo
    <2> QED
      BY <2>3
  <1>7. ASSUME NEW i \in 1..n
        PROVE  Escaped(i - 1) <=> ~ (Run(value, i) % 2 = 0)
    <2>1. i - 1 \in 0..n /\ (i - 1) + 1 = i
      BY <1>2
    <2>2. PICK m : /\ RunOf(value, i, m)
                   /\ Escaped(i - 1) <=> m % 2 = 1
      <3> HIDE DEF Escaped
      <3> QED
        BY <1>6, <2>1
    <2>3. Run(value, i) = m
      BY <2>2, RunUnique
    <2>4. m % 2 = 1 <=> ~ (m % 2 = 0)
      BY <2>2 DEF RunOf
    <2> HIDE DEF Escaped
    <2> QED
      BY <2>2, <2>3, <2>4
  <1>8. \A i \in 1..n : Escaped(i) <=> value[i] = Escaper /\ ~ Escaped(i - 1)
    <2> HIDE DEF Escaped
    <2> QED
      BY <1>5
  <1>9. Marks(value) = {i \in 1..(n - 1) : Escaped(i)}
    <2>1. \A i \in 1..(n - 1) : i \in 1..n
      BY <1>2
    <2> HIDE DEF Escaped
    <2> QED
      BY <1>1, <1>7, <1>8, <2>1 DEF Marks
  <1> DEFINE f == [i \in 1..n |-> Meaning(value, i, i > 1 /\ Escaped(i - 1))]
             Kept(i) == {j \in 1..i : ~ Escaped(j)}
  <1>10. \A i \in 1..n : f[i] = Meaning(value, i, i > 1 /\ Escaped(i - 1))
    <2> HIDE DEF Escaped
    <2> QED
      OBVIOUS
  <1>11. ASSUME NEW i \in 1..n
         PROVE  i > 1 /\ Escaped(i - 1) <=> Escaped(i - 1)
    <2>1. i = 1 => i - 1 = 0
      OBVIOUS
    <2> HIDE DEF Escaped
    <2> QED
      BY <1>4, <2>1
  <1> HIDE DEF f
  <1>12. \A i \in 0..n : Lists(read[i].text, Kept(i), f)
    <2> DEFINE T == {i \in 0..n : Lists(read[i].text, Kept(i), f)}
    <2>1. 0 \in T
      <3>1. Kept(0) = {}
        OBVIOUS
      <3>2. Len(<< >>) = 0 /\ Cardinality({}) = 0
        BY FS_EmptySet
      <3>3. Lists(<< >>, {}, f)
        BY <3>2 DEF Lists
      <3>4. 0 \in 0..n
        BY <1>2
      <3> HIDE DEF Kept
      <3> QED
        BY <1>4, <3>1, <3>3, <3>4
    <2>2. ASSUME NEW i \in 1..n, i - 1 \in T
          PROVE  i \in T
      <3>1. /\ Lists(read[i - 1].text, Kept(i - 1), f)
            /\ IsList(read[i - 1].text) /\ i \in 0..n
        <4>1. i - 1 \in 0..n /\ i \in 0..n
          BY <1>2
        <4> HIDE DEF Kept, Escaped
        <4> QED
          BY <1>4, <2>2, <4>1
      <3>2. CASE Escaped(i)
        <4>1. Kept(i) = Kept(i - 1)
          <5>1. \A j \in 1..i : j = i \/ j \in 1..(i - 1)
            OBVIOUS
          <5>2. \A j \in 1..(i - 1) : j \in 1..i
            OBVIOUS
          <5> HIDE DEF Escaped
          <5> QED
            BY <3>2, <5>1, <5>2
        <4>2. read[i].text = read[i - 1].text
          <5> HIDE DEF Escaped
          <5> QED
            BY <1>4, <1>5, <1>8, <3>2
        <4> HIDE DEF Kept, Escaped
        <4> QED
          BY <3>1, <4>1, <4>2
      <3>3. CASE ~ Escaped(i)
        <4>1. Kept(i) = Kept(i - 1) \cup {i}
          <5>1. \A j \in 1..i : j = i \/ j \in 1..(i - 1)
            OBVIOUS
          <5>2. \A j \in 1..(i - 1) : j \in 1..i
            OBVIOUS
          <5>3. i \in 1..i
            OBVIOUS
          <5> HIDE DEF Escaped
          <5> QED
            BY <3>3, <5>1, <5>2, <5>3
        <4>2. f[i] = Meaning(value, i, Escaped(i - 1))
          <5> HIDE DEF Escaped
          <5> QED
            BY <1>10, <1>11 DEF Meaning
        <4>3. read[i].text = Append(read[i - 1].text, f[i])
          <5>1. i - 1 \in 0..n
            BY <1>2
          <5>2. Escaped(i - 1) \in BOOLEAN
            BY <1>4, <5>1
          <5>3. CASE Escaped(i - 1)
            <6>1. read[i].text = Append(read[i - 1].text, Unescape(value[i]))
              BY <1>5, <5>3
            <6>2. f[i] = Unescape(value[i])
              <7> HIDE DEF Escaped
              <7> QED
                BY <4>2, <5>3 DEF Meaning
            <6> QED
              BY <6>1, <6>2
          <5>4. CASE ~ Escaped(i - 1)
            <6>1. value[i] # Escaper
              BY <1>5, <3>3, <5>4
            <6>2. read[i].text = Append(read[i - 1].text, value[i])
              BY <1>5, <5>4, <6>1
            <6>3. f[i] = value[i]
              <7> HIDE DEF Escaped
              <7> QED
                BY <4>2, <5>4 DEF Meaning
            <6> QED
              BY <6>2, <6>3
          <5> QED
            BY <5>3, <5>4
        <4>4. Kept(i - 1) \in SUBSET (1..n) /\ \A j \in Kept(i - 1) : j < i
          <5> HIDE DEF Escaped
          <5> QED
            BY <1>2
        <4>5. PICK S : S = Kept(i - 1)
          OBVIOUS
        <4>6. PICK seq : seq = read[i - 1].text
          OBVIOUS
        <4>7. Lists(Append(seq, f[i]), S \cup {i}, f)
          <5>1. /\ S \in SUBSET (1..n) /\ \A j \in S : j < i
                /\ Lists(seq, S, f) /\ IsList(seq)
            <6> HIDE DEF Kept
            <6> QED
              BY <3>1, <4>4, <4>5, <4>6
          <5> HIDE DEF Kept
          <5> QED
            BY <1>2, <5>1, ListsOneMore
        <4> HIDE DEF Kept
        <4> QED
          BY <3>1, <4>1, <4>3, <4>5, <4>6, <4>7
      <3> QED
        BY <3>2, <3>3
    <2>3. \A i \in 0..n : i \in T
      <3> HIDE DEF T
      <3> QED
        BY <1>2, <2>1, <2>2, UpTo
    <2> QED
      BY <2>3
  <1>13. PICK kept : kept = DOMAIN value \ Marks(value)
    OBVIOUS
  <1>14. PICK text : text = UnescapeTag(value)
    OBVIOUS
  <1>15. Lists(text, kept, f)
    <2>1. n \in 0..n /\ Lists(read[n].text, Kept(n), f)
      <3>1. n \in 0..n
        BY <1>2
      <3> HIDE DEF Kept
      <3> QED
        BY <1>12, <3>1
    <2>2. CASE ~ Escaped(n)
      <3>1. kept = Kept(n)
        <4>1. \A j \in 1..n : j = n \/ j \in 1..(n - 1)
          BY <1>2
        <4>2. \A j \in 1..(n - 1) : j \in 1..n
          BY <1>2
        <4>3. n \notin 1..(n - 1)
          BY <1>2
        <4> HIDE DEF Escaped
        <4> QED
          BY <1>2, <1>9, <1>13, <2>2, <4>1, <4>2, <4>3
      <3>2. text = read[n].text
        BY <1>3, <1>14, <2>2
      <3> HIDE DEF Kept
      <3> QED
        BY <2>1, <3>1, <3>2
    <2>3. CASE Escaped(n)
      <3>1. n \in 1..n
        <4>1. n # 0
          BY <1>4, <2>3
        <4> QED
          BY <1>2, <4>1
      <3>2. value[n] = Escaper /\ ~ Escaped(n - 1)
        BY <1>8, <2>3, <3>1
      <3>3. kept = Kept(n) \cup {n} /\ Kept(n) \in SUBSET (1..n)
            /\ \A j \in Kept(n) : j < n
        <4>1. \A j \in 1..n : j = n \/ j \in 1..(n - 1)
          BY <1>2
        <4>2. \A j \in 1..(n - 1) : j \in 1..n /\ j < n
          BY <1>2
        <4>3. n \notin 1..(n - 1)
          BY <1>2
        <4> HIDE DEF Escaped
        <4> QED
          BY <1>2, <1>9, <1>13, <2>3, <3>1, <4>1, <4>2, <4>3
      <3>4. f[n] = Escaper
        <4> HIDE DEF Escaped
        <4> QED
          BY <1>10, <1>11, <3>1, <3>2 DEF Meaning
      <3>5. text = Append(read[n].text, Escaper)
        BY <1>3, <1>14, <2>3
      <3>6. PICK S : S = Kept(n)
        OBVIOUS
      <3>7. PICK seq : seq = read[n].text
        OBVIOUS
      <3>8. /\ S \in SUBSET (1..n) /\ \A j \in S : j < n
            /\ Lists(seq, S, f) /\ IsList(seq)
        <4> HIDE DEF Kept
        <4> QED
          BY <1>4, <2>1, <3>3, <3>6, <3>7
      <3>9. Lists(Append(seq, Escaper), S \cup {n}, f)
        <4> HIDE DEF Kept
        <4> QED
          BY <1>2, <3>1, <3>4, <3>8, ListsOneMore
      <3> HIDE DEF Kept
      <3> QED
        BY <3>3, <3>5, <3>6, <3>7, <3>9
    <2> QED
      BY <2>2, <2>3
  <1>16. ASSUME NEW i \in kept
         PROVE  text[Rank(i, kept)] = Meaning(value, i, i - 1 \in Marks(value))
    <2>1. i \in 1..n
      BY <1>2, <1>13
    <2>2. text[Rank(i, kept)] = f[i]
      BY <1>15 DEF Lists
    <2>3. i > 1 /\ Escaped(i - 1) <=> i - 1 \in Marks(value)
      <3>1. i > 1 => i - 1 \in 1..(n - 1)
        BY <1>2, <2>1
      <3>2. \A j \in 1..(n - 1) : j = i - 1 => i > 1
        BY <1>2, <2>1
      <3> HIDE DEF Escaped
      <3> QED
        BY <1>9, <3>1, <3>2
    <2>4. f[i] = Meaning(value, i, i - 1 \in Marks(value))
      <3> HIDE DEF Escaped
      <3> QED
        BY <1>10, <2>1, <2>3 DEF Meaning
    <2> QED
      BY <2>2, <2>4
  <1>17. Len(text) = Cardinality(kept)
    BY <1>15 DEF Lists
  <1>18. WasBefore(text, value)
    BY <1>13, <1>16, <1>17, WasBeforeIs
  <1> QED
    BY <1>14, <1>18

-----------------------------------------------------------------------------
\* The parts of a tag section.
EndsPart(section, p) == p = Len(section) + 1 \/ section[p] = Semicolon

KeyAt(section, p) == Before(PartBefore(section, Semicolon, p), Equals)

ValueAt(section, p) ==
  UnescapeTag(After(PartBefore(section, Semicolon, p), Equals))

\* One round of the loop over the tags.
TagRound(section, tags, p) ==
  IF EndsPart(section, p)
  THEN WithTag(tags, KeyAt(section, p), ValueAt(section, p)) ELSE tags

\* What the loop holds.
Maps(section) ==
  LET n == Len(section) IN
  UNION {[K -> {ValueAt(section, p) : p \in 1..(n + 1)}] :
           K \in SUBSET {KeyAt(section, p) : p \in 1..(n + 1)}}

\* A part of the section adds a key and a value of the section.
LEMMA TagRoundType ==
  ASSUME NEW section, NEW tags \in Maps(section), NEW p \in 1..(Len(section) + 1)
  PROVE  TagRound(section, tags, p) \in Maps(section)
PROOF
  <1>1. PICK keys : keys = {KeyAt(section, q) : q \in 1..(Len(section) + 1)}
    OBVIOUS
  <1>2. PICK values : values = {ValueAt(section, q) : q \in 1..(Len(section) + 1)}
    OBVIOUS
  <1>3. PICK K \in SUBSET keys : tags \in [K -> values]
    BY <1>1, <1>2 DEF Maps
  <1>4. PICK key : key = KeyAt(section, p)
    OBVIOUS
  <1>5. PICK value : value = ValueAt(section, p)
    OBVIOUS
  <1>6. key \in keys /\ value \in values
    BY <1>1, <1>2, <1>4, <1>5
  <1>7. WithTag(tags, key, value) \in [K \cup {key} -> values]
    BY <1>3, <1>6 DEF WithTag
  <1>8. K \cup {key} \in SUBSET keys
    BY <1>3, <1>6
  <1>9. ASSUME NEW L \in SUBSET keys, NEW m \in [L -> values]
        PROVE  m \in Maps(section)
    BY <1>1, <1>2 DEF Maps
  <1>10. WithTag(tags, key, value) \in Maps(section)
    BY <1>7, <1>8, <1>9
  <1> QED
    BY <1>4, <1>5, <1>10 DEF TagRound

\* Where the loop begins.
LEMMA NoTags ==
  ASSUME NEW section
  PROVE  << >> \in Maps(section) /\ DOMAIN << >> = {}
PROOF
  <1>1. PICK keys : keys = {KeyAt(section, q) : q \in 1..(Len(section) + 1)}
    OBVIOUS
  <1>2. PICK values : values = {ValueAt(section, q) : q \in 1..(Len(section) + 1)}
    OBVIOUS
  <1>3. << >> \in [{} -> values] /\ DOMAIN << >> = {}
    OBVIOUS
  <1>4. {} \in SUBSET keys
    OBVIOUS
  <1> QED
    BY <1>1, <1>2, <1>3, <1>4 DEF Maps

\* The loop over the tags has its sequence of values.
LEMMA TagsLoop ==
  ASSUME NEW section, IsList(section)
  PROVE  \E tags : /\ tags[0] = << >>
                   /\ \A p \in 0..(Len(section) + 1) : tags[p] \in Maps(section)
                   /\ \A p \in 1..(Len(section) + 1) :
                        tags[p] = TagRound(section, tags[p - 1], p)
                   /\ Tags(section) = tags[Len(section) + 1]
PROOF
  <1> DEFINE n == Len(section)
             D == Maps(section)
             F == [d \in D \X (1..(n + 1)) |-> TagRound(section, d[1], d[2])]
             Loop(f) == [p \in 0..(n + 1) |->
                           IF p = 0 THEN << >>
                           ELSE IF p = n + 1 \/ section[p] = Semicolon
                           THEN LET raw == PartBefore(section, Semicolon, p)
                                IN  WithTag(f[p - 1], Before(raw, Equals),
                                            UnescapeTag(After(raw, Equals)))
                           ELSE f[p - 1]]
             tags == CHOOSE f : f = Loop(f)
  <1>1. n \in Nat /\ n + 1 \in Nat
    BY ListMeaning
  <1>2. << >> \in D
    BY NoTags
  <1>3. \A x \in D, p \in 1..(n + 1) : TagRound(section, x, p) \in D
    BY TagRoundType
  <1>4. Tags(section) = tags[n + 1]
    BY Zenon DEF Tags, Semicolon, Equals
  <1>5. \A f, p : TagRound(section, f[p - 1], p) =
                    IF p = n + 1 \/ section[p] = Semicolon
                    THEN LET raw == PartBefore(section, Semicolon, p)
                         IN  WithTag(f[p - 1], Before(raw, Equals),
                                     UnescapeTag(After(raw, Equals)))
                    ELSE f[p - 1]
    BY Zenon DEF TagRound, EndsPart, KeyAt, ValueAt
  <1> HIDE DEF D, n
  <1>6. F \in [D \X (1..(n + 1)) -> D]
    BY <1>3
  <1>7. \A x \in D, p \in 1..(n + 1) : F[<<x, p>>] = TagRound(section, x, p)
    OBVIOUS
  <1> HIDE DEF F
  <1>8. PICK g : Loops(g, n + 1, D, << >>, F)
    BY <1>1, <1>2, <1>6, LoopExists
  <1>9. ASSUME NEW f
        PROVE  /\ Loop(f)[0] = << >>
               /\ \A p \in 1..(n + 1) :
                    Loop(f)[p] = TagRound(section, f[p - 1], p)
               /\ Loop(f) = [p \in 0..(n + 1) |-> Loop(f)[p]]
    <2>1. Loop(f)[0] = << >>
      BY <1>1
    <2>2. ASSUME NEW p \in 1..(n + 1)
          PROVE  Loop(f)[p] = TagRound(section, f[p - 1], p)
      <3>1. p # 0 /\ p \in 0..(n + 1)
        BY <1>1
      <3>2. Loop(f)[p] = IF p = n + 1 \/ section[p] = Semicolon
                         THEN LET raw == PartBefore(section, Semicolon, p)
                              IN  WithTag(f[p - 1], Before(raw, Equals),
                                          UnescapeTag(After(raw, Equals)))
                         ELSE f[p - 1]
        BY <3>1, Zenon
      <3> HIDE DEF Loop
      <3> QED
        BY <1>5, <3>2, Zenon
    <2>3. Loop(f) = [p \in 0..(n + 1) |-> Loop(f)[p]]
      OBVIOUS
    <2> HIDE DEF Loop
    <2> QED
      BY <2>1, <2>2, <2>3
  <1> HIDE DEF Loop
  <1>10. g = Loop(g)
    <2>1. ASSUME NEW p \in 1..(n + 1)
          PROVE  g[p] = TagRound(section, g[p - 1], p)
      <3>1. p - 1 \in 0..(n + 1)
        BY <1>1
      <3>2. g[p - 1] \in D /\ g[p] = F[<<g[p - 1], p>>]
        BY <1>8, <3>1 DEF Loops
      <3> QED
        BY <1>7, <3>2
    <2>2. ASSUME NEW p \in 0..(n + 1)
          PROVE  g[p] = Loop(g)[p]
      <3>1. CASE p = 0
        BY <1>8, <1>9, <3>1 DEF Loops
      <3>2. CASE p \in 1..(n + 1)
        BY <1>9, <2>1, <3>2
      <3> QED
        BY <1>1, <3>1, <3>2
    <2>3. g \in [0..(n + 1) -> D]
      BY <1>8 DEF Loops
    <2> QED
      BY <1>9, <2>2, <2>3
  <1>11. tags = Loop(tags)
    BY <1>10, Zenon
  <1> HIDE DEF tags
  <1>12. tags[0] = << >> /\ \A p \in 1..(n + 1) :
           tags[p] = TagRound(section, tags[p - 1], p)
    <2>1. PICK t : t = tags
      OBVIOUS
    <2>2. t = Loop(t)
      BY <1>11, <2>1
    <2>3. t[0] = << >>
      BY <1>9, <2>2
    <2>4. ASSUME NEW p \in 1..(n + 1)
          PROVE  t[p] = TagRound(section, t[p - 1], p)
      <3>1. Loop(t)[p] = TagRound(section, t[p - 1], p)
        BY <1>9
      <3> HIDE DEF Loop
      <3> QED
        BY <2>2, <3>1, Zenon
    <2> QED
      BY <2>1, <2>3, <2>4
  <1>13. \A p \in 1..(n + 1) : tags[p - 1] \in D => tags[p] \in D
    BY <1>3, <1>12
  <1>14. \A p \in 0..(n + 1) : tags[p] \in D
    BY <1>1, <1>2, <1>12, <1>13, LoopStays
  <1> QED
    BY <1>4, <1>12, <1>14 DEF D, n

\* Where parts end, up to a position.
EndsTo(section, p) == {e \in 1..p : EndsPart(section, e)}

\* A key has the value of the last part with it.
Mapped(section, tags, p) ==
  /\ DOMAIN tags = {KeyAt(section, e) : e \in EndsTo(section, p)}
  /\ \A e \in EndsTo(section, p) :
       (\A d \in EndsTo(section, p) :
          KeyAt(section, d) = KeyAt(section, e) => d <= e)
         => tags[KeyAt(section, e)] = ValueAt(section, e)

\* After every position the map is that of the parts passed.
LEMMA TagsMapped ==
  ASSUME NEW section, IsList(section)
  PROVE  Mapped(section, Tags(section), Len(section) + 1)
PROOF
  <1>1. PICK n : n = Len(section) + 1
    OBVIOUS
  <1>2. n \in Nat
    BY <1>1, ListMeaning
  <1>3. PICK tags : /\ tags[0] = << >>
                    /\ \A p \in 1..n : tags[p] = TagRound(section, tags[p - 1], p)
                    /\ Tags(section) = tags[n]
    BY <1>1, TagsLoop
  <1> DEFINE T == {p \in 0..n : Mapped(section, tags[p], p)}
  <1>4. 0 \in T
    <2>1. EndsTo(section, 0) = {}
      BY DEF EndsTo
    <2>2. DOMAIN << >> = {}
      BY NoTags
    <2>3. Mapped(section, << >>, 0)
      BY <2>1, <2>2 DEF Mapped
    <2> QED
      BY <1>2, <1>3, <2>3
  <1>5. ASSUME NEW p \in 1..n, p - 1 \in T
        PROVE  p \in T
    <2>1. PICK before : before = tags[p - 1]
      OBVIOUS
    <2>2. PICK after : after = tags[p]
      OBVIOUS
    <2>3. /\ Mapped(section, before, p - 1)
          /\ after = TagRound(section, before, p)
      BY <1>3, <1>5, <2>1, <2>2
    <2>4. PICK old : old = EndsTo(section, p - 1)
      OBVIOUS
    <2>5. PICK new : new = EndsTo(section, p)
      OBVIOUS
    <2>6. \A e \in old : e \in 1..(p - 1)
      BY <2>4 DEF EndsTo
    <2>7. CASE ~ EndsPart(section, p)
      <3>1. after = before
        BY <2>3, <2>7 DEF TagRound
      <3>2. new = old
        <4>1. \A e \in 1..p : e = p \/ e \in 1..(p - 1)
          OBVIOUS
        <4>2. \A e \in 1..(p - 1) : e \in 1..p
          OBVIOUS
        <4> QED
          BY <2>4, <2>5, <2>7, <4>1, <4>2 DEF EndsTo
      <3>3. Mapped(section, after, p)
        BY <2>3, <2>4, <2>5, <3>1, <3>2 DEF Mapped
      <3> QED
        BY <1>2, <2>2, <3>3
    <2>8. CASE EndsPart(section, p)
      <3>1. PICK key : key = KeyAt(section, p)
        OBVIOUS
      <3>2. PICK value : value = ValueAt(section, p)
        OBVIOUS
      <3>3. /\ DOMAIN after = DOMAIN before \cup {key}
            /\ after[key] = value
            /\ \A k \in DOMAIN before : k # key => after[k] = before[k]
        <4>1. after = WithTag(before, key, value)
          BY <2>3, <2>8, <3>1, <3>2 DEF TagRound
        <4>2. after = [k \in DOMAIN before \cup {key} |->
                         IF k = key THEN value ELSE before[k]]
          BY <4>1, Zenon DEF WithTag
        <4> QED
          BY <4>2
      <3>4. new = old \cup {p}
        <4>1. \A e \in 1..p : e = p \/ e \in 1..(p - 1)
          OBVIOUS
        <4>2. \A e \in 1..(p - 1) : e \in 1..p
          OBVIOUS
        <4>3. p \in 1..p
          OBVIOUS
        <4> QED
          BY <2>4, <2>5, <2>8, <4>1, <4>2, <4>3 DEF EndsTo
      <3>5. DOMAIN after = {KeyAt(section, e) : e \in new}
        <4>1. DOMAIN before = {KeyAt(section, e) : e \in old}
          BY <2>3, <2>4 DEF Mapped
        <4> QED
          BY <3>1, <3>3, <3>4, <4>1
      <3>6. ASSUME NEW e \in new,
                   \A d \in new : KeyAt(section, d) = KeyAt(section, e) => d <= e
            PROVE  after[KeyAt(section, e)] = ValueAt(section, e)
        <4>1. CASE e = p
          BY <3>1, <3>2, <3>3, <4>1
        <4>2. CASE e # p
          <5>1. e \in old /\ e \in 1..(p - 1)
            BY <2>6, <3>4, <4>2
          <5>2. KeyAt(section, e) # key
            <6>1. p \in new /\ ~ (p <= e)
              BY <3>4, <5>1
            <6> QED
              BY <3>1, <3>6, <6>1
          <5>3. before[KeyAt(section, e)] = ValueAt(section, e)
            <6>1. \A d \in old : d \in new
              BY <3>4
            <6> QED
              BY <2>3, <2>4, <3>6, <5>1, <6>1 DEF Mapped
          <5>4. KeyAt(section, e) \in DOMAIN before
            BY <2>3, <2>4, <5>1 DEF Mapped
          <5> QED
            BY <3>3, <5>2, <5>3, <5>4
        <4> QED
          BY <4>1, <4>2
      <3>7. Mapped(section, after, p)
        BY <2>5, <3>5, <3>6 DEF Mapped
      <3> QED
        BY <1>2, <2>2, <3>7
    <2> QED
      BY <2>7, <2>8
  <1>6. n \in T
    <2>1. \A p \in 0..n : p \in T
      <3> HIDE DEF T
      <3> QED
        BY <1>2, <1>4, <1>5, UpTo
    <2> QED
      BY <1>2, <2>1
  <1> QED
    BY <1>1, <1>3, <1>6

-----------------------------------------------------------------------------
\* The parts as TagsExact has them.
Part(text, ends, e) ==
  LET earlier == {d \in ends \cup {0} : d < e}
  IN  SubSeq(text, 1 + CHOOSE d \in earlier :
                         \A other \in earlier : other <= d, e - 1)

\* The reference and the code cut the same parts.
LEMMA PartsAgree ==
  ASSUME NEW text, IsList(text), NEW ends,
         ends = EndsTo(text, Len(text) + 1), NEW e \in ends
  PROVE  Part(text, ends, e) = PartBefore(text, Semicolon, e)
PROOF
  <1>1. PICK n : n = Len(text)
    OBVIOUS
  <1>2. n \in Nat /\ e \in 1..(n + 1)
    BY <1>1, ListMeaning DEF EndsTo
  <1>3. \A i \in 1..n : i \in ends <=> text[i] = Semicolon
    BY <1>1, <1>2 DEF EndsTo, EndsPart
  <1>4. PICK b \in 1..e : /\ b = 1 \/ text[b - 1] = Semicolon
                          /\ \A q \in b..(e - 1) : text[q] # Semicolon
    <2>1. e \in Nat \ {0}
      BY <1>2
    <2> QED
      BY <2>1, PlaceBefore
  <1>5. ASSUME NEW a \in 1..e, a = 1 \/ text[a - 1] = Semicolon,
               \A q \in a..(e - 1) : text[q] # Semicolon
        PROVE  a = b
    <2>1. ~ (a < b)
      <3>1. ASSUME a < b PROVE FALSE
        <4>1. b - 1 \in a..(e - 1) /\ b # 1
          BY <1>2, <3>1
        <4> QED
          BY <1>4, <1>5, <4>1
      <3> QED
        BY <3>1
    <2>2. ~ (b < a)
      <3>1. ASSUME b < a PROVE FALSE
        <4>1. a - 1 \in b..(e - 1) /\ a # 1
          BY <1>2, <3>1
        <4> QED
          BY <1>4, <1>5, <4>1
      <3> QED
        BY <3>1
    <2> QED
      BY <1>2, <2>1, <2>2
  <1>6. PartBefore(text, Semicolon, e) = SubSeq(text, b, e - 1)
    <2>1. PICK a : a = CHOOSE x \in 1..e :
                         /\ x = 1 \/ text[x - 1] = Semicolon
                         /\ \A q \in x..(e - 1) : text[q] # Semicolon
      OBVIOUS
    <2>2. /\ a \in 1..e /\ (a = 1 \/ text[a - 1] = Semicolon)
          /\ \A q \in a..(e - 1) : text[q] # Semicolon
      BY <1>4, <2>1
    <2>3. a = b
      BY <1>5, <2>2
    <2> QED
      BY <2>1, <2>3 DEF PartBefore
  <1>7. PICK earlier : earlier = {d \in ends \cup {0} : d < e}
    OBVIOUS
  <1>8. b - 1 \in earlier
    <2>1. CASE b = 1
      <3>1. 0 < e /\ b - 1 = 0
        BY <1>2, <2>1
      <3> QED
        BY <1>7, <3>1
    <2>2. CASE b # 1
      <3>1. b - 1 \in 1..n /\ b - 1 < e
        BY <1>2, <2>2
      <3>2. b - 1 \in ends
        BY <1>3, <1>4, <2>2, <3>1
      <3> QED
        BY <1>7, <3>1, <3>2
    <2> QED
      BY <2>1, <2>2
  <1>9. ASSUME NEW d \in earlier
        PROVE  d \in Int /\ d <= b - 1
    <2>1. (d = 0 \/ d \in ends) /\ d < e
      BY <1>7
    <2>2. CASE d = 0
      BY <1>2, <2>2
    <2>3. CASE d \in ends
      <3>1. d \in 1..n
        BY <1>1, <1>2, <2>1, <2>3 DEF EndsTo
      <3>2. text[d] = Semicolon
        BY <1>3, <2>3, <3>1
      <3>3. d \notin b..(e - 1)
        BY <1>4, <3>2
      <3> QED
        BY <1>2, <2>1, <3>1, <3>3
    <2> QED
      BY <2>1, <2>2, <2>3
  <1>10. PICK m : m = CHOOSE d \in earlier : \A other \in earlier : other <= d
    OBVIOUS
  <1>11. m \in earlier /\ \A other \in earlier : other <= m
    BY <1>8, <1>9, <1>10
  <1>12. 1 + m = b
    BY <1>2, <1>8, <1>9, <1>11
  <1>13. Part(text, ends, e) = SubSeq(text, 1 + m, e - 1)
    BY <1>7, <1>10, Zenon DEF Part
  <1> QED
    BY <1>6, <1>12, <1>13

\* What follows a symbol is a list.
LEMMA AfterIsList ==
  ASSUME NEW text, IsList(text), NEW symbol
  PROVE  IsList(After(text, symbol))
PROOF
  <1>1. Len(text) \in Nat /\ 1 \in 1..(Len(text) + 1)
    BY ListMeaning
  <1>2. PICK p : p = Find(text, symbol, 1)
    OBVIOUS
  <1>3. p + 1 \in Int
    BY <1>1, <1>2, FindIs DEF FindsAt
  <1>4. IsList(SubSeq(text, p + 1, Len(text)))
    BY <1>1, <1>3, PartIsList
  <1> QED
    BY <1>2, <1>4 DEF After

\* The tags of every list are exact.
LEMMA TagsFromLists ==
  ASSUME LinesAreLists
  PROVE  TagsExact
PROOF
  <1>1. IsList(line)
    BY DEF LinesAreLists
  <1>2. PICK n : n = Len(line) + 1
    OBVIOUS
  <1>3. n \in Nat
    BY <1>1, <1>2, ListMeaning
  <1> DEFINE ends == {i \in 1..(Len(line) + 1) :
                        i = Len(line) + 1 \/ line[i] = Semicolon}
             tags == Tags(line)
  <1>4. ends = EndsTo(line, n)
    BY <1>2, Zenon DEF EndsTo, EndsPart
  <1>5. tags = Tags(line)
    OBVIOUS
  <1> HIDE DEF ends, tags
  <1>6. Mapped(line, tags, n)
    BY <1>1, <1>2, <1>5, TagsMapped
  <1>7. \A e \in ends : Part(line, ends, e) = PartBefore(line, Semicolon, e)
    BY <1>1, <1>2, <1>4, PartsAgree
  <1>8. \A e \in ends : Before(Part(line, ends, e), Equals) = KeyAt(line, e)
    BY <1>7 DEF KeyAt
  <1>9. DOMAIN tags = {Before(Part(line, ends, e), Equals) : e \in ends}
    <2>1. DOMAIN tags = {KeyAt(line, e) : e \in ends}
      BY <1>4, <1>6 DEF Mapped
    <2> QED
      BY <1>8, <2>1
  <1> DEFINE Of(key) == {e \in ends : Before(Part(line, ends, e), Equals) = key}
             Last(key) == CHOOSE e \in Of(key) : \A d \in Of(key) : d <= e
  <1>10. ASSUME NEW key \in DOMAIN tags
         PROVE  WasBefore(tags[key], After(Part(line, ends, Last(key)), Equals))
    <2>1. PICK S : S = Of(key)
      OBVIOUS
    <2>2. \A e : e \in S <=> e \in ends /\ KeyAt(line, e) = key
      BY <1>8, <2>1
    <2>3. S # {} /\ S \in SUBSET (1..n)
      <3>1. PICK e \in ends : key = KeyAt(line, e)
        BY <1>4, <1>6 DEF Mapped
      <3>2. \A x \in ends : x \in 1..n
        BY <1>4 DEF EndsTo
      <3> QED
        BY <2>2, <3>1, <3>2
    <2>4. \E m \in S : \A k \in S : k <= m
      BY <1>3, <2>3, GreatestNumber
    <2>5. PICK e : e = CHOOSE m \in S : \A k \in S : k <= m
      OBVIOUS
    <2>6. e \in S /\ \A k \in S : k <= e
      BY <2>4, <2>5
    <2>7. Last(key) = e
      BY <2>1, <2>5, Zenon
    <2>8. tags[key] = ValueAt(line, e)
      <3>1. \A d \in EndsTo(line, n) : KeyAt(line, d) = KeyAt(line, e) => d <= e
        BY <1>4, <2>2, <2>6
      <3> QED
        BY <1>4, <1>6, <2>2, <2>6, <3>1 DEF Mapped
    <2>9. PICK part : part = PartBefore(line, Semicolon, e)
      OBVIOUS
    <2>10. Part(line, ends, e) = part
      BY <1>7, <2>2, <2>6, <2>9
    <2>11. PICK value : value = After(part, Equals)
      OBVIOUS
    <2>12. IsList(value)
      <3>1. IsList(part)
        <4>1. e \in Nat \ {0}
          BY <1>3, <2>3, <2>6
        <4> QED
          BY <2>9, <4>1, PartBeforeIsList
      <3> QED
        BY <2>11, <3>1, AfterIsList
    <2>13. tags[key] = UnescapeTag(value)
      BY <2>8, <2>9, <2>11 DEF ValueAt
    <2>14. WasBefore(tags[key], value)
      BY <2>12, <2>13, UnescapeIs
    <2> HIDE DEF Last
    <2> QED
      BY <2>7, <2>10, <2>11, <2>14
  <1> QED
    BY <1>9, <1>10, Zenon DEF TagsExact, ends, tags, Part, Semicolon, Equals

\* The tags of a section are those of its parts between semicolons: a key has
\* the value of the last part with it, as it was before it was escaped
\* (parse_irc_message and unescape_irc_tag).
THEOREM TagsAreExact ==
  Spec => []TagsExact
PROOF
  <1>1. LinesAreLists => TagsExact
    BY TagsFromLists
  <1> QED
    BY <1>1, LinesAre, PTL
=============================================================================
