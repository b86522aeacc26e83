-------------------------- MODULE AutomationProofs --------------------------
(***************************************************************************)
(* Theorems about Automation, for all rules and messages: an answer is     *)
(* given exactly when the configuration and the past of the session call   *)
(* for it.  The argument: the engine remembers, of each cause, the instant *)
(* of its last answer in this session, which decides whether an answer has *)
(* been given within the cooldown; and each index is the number of answers *)
(* taken from its list, modulo its length.                                 *)
(***************************************************************************)
EXTENDS Automation, Foundations

-----------------------------------------------------------------------------
\* A multiple of L that is not 0 is at least L, or at most -L.
LEMMA Multiple ==
  ASSUME NEW x \in Int, NEW L \in Nat \ {0}, NEW y \in Int, y = L * x
  PROVE  /\ x >= 1 => y >= L
         /\ x <= -1 => y <= - L
PROOF
  OBVIOUS

\* There is one remainder.
LEMMA ModUnique ==
  ASSUME NEW L \in Nat \ {0}, NEW q \in Int, NEW r \in 0..(L - 1),
         NEW b \in Int, b = L * q + r
  PROVE  b % L = r
PROOF
  <1>1. PICK p : p = b \div L
    OBVIOUS
  <1>2. PICK t : t = b % L
    OBVIOUS
  <1>3. p \in Int /\ t \in 0..(L - 1) /\ b = L * p + t
    BY <1>1, <1>2
  <1>4. PICK y : y = L * (p - q)
    OBVIOUS
  <1>5. y \in Int /\ y = r - t
    <2>1. L * (p - q) = L * p - L * q
      BY <1>3
    <2> QED
      BY <1>3, <1>4, <2>1
  <1>6. p - q \in Int /\ ~ (y >= L) /\ ~ (y <= - L)
    BY <1>3, <1>5
  <1>7. ~ (p - q >= 1) /\ ~ (p - q <= -1)
    BY <1>4, <1>5, <1>6, Multiple
  <1>8. p = q
    BY <1>3, <1>7
  <1> QED
    BY <1>2, <1>3, <1>8

\* The remainder goes round with the number.
LEMMA ModNext ==
  ASSUME NEW a \in Nat, NEW L \in Nat \ {0}
  PROVE  /\ a % L \in 0..(L - 1)
         /\ ((a % L) + 1) % L = (a + 1) % L
PROOF
  <1>1. PICK q : q = a \div L
    OBVIOUS
  <1>2. PICK r : r = a % L
    OBVIOUS
  <1>3. q \in Int /\ r \in 0..(L - 1) /\ a = L * q + r
    BY <1>1, <1>2
  <1>4. CASE r + 1 < L
    <2>1. /\ r + 1 \in 0..(L - 1) /\ a + 1 \in Int /\ a + 1 = L * q + (r + 1)
          /\ r + 1 = L * 0 + (r + 1)
      BY <1>3, <1>4
    <2>2. (a + 1) % L = r + 1
      BY <1>3, <2>1, ModUnique
    <2>3. (r + 1) % L = r + 1
      BY <2>1, ModUnique
    <2> QED
      BY <1>2, <1>3, <2>2, <2>3
  <1>5. CASE ~ (r + 1 < L)
    <2>1. r + 1 = L
      BY <1>3, <1>5
    <2>2. 0 \in 0..(L - 1) /\ a + 1 = L * (q + 1) + 0 /\ r + 1 = L * 1 + 0
      <3>1. L * (q + 1) = L * q + L
        BY <1>3
      <3> QED
        BY <1>3, <2>1, <3>1
    <2>3. (a + 1) % L = 0
      BY <1>3, <2>2, ModUnique
    <2>4. (r + 1) % L = 0
      BY <1>3, <2>2, ModUnique
    <2> QED
      BY <1>2, <1>3, <2>3, <2>4
  <1> QED
    BY <1>4, <1>5

-----------------------------------------------------------------------------
\* t is h and one more entry.
Extends(h, t, e) ==
  /\ IsList(h) /\ IsList(t)
  /\ Len(h) \in Nat /\ Len(t) = Len(h) + 1
  /\ DOMAIN h = 1..Len(h) /\ DOMAIN t = 1..(Len(h) + 1)
  /\ \A i \in 1..Len(h) : t[i] = h[i]
  /\ t[Len(h) + 1] = e

\* What Append makes of a list.
LEMMA AppendExtends ==
  ASSUME NEW h, IsList(h), NEW e, NEW t, t = Append(h, e)
  PROVE  Extends(h, t, e)
PROOF
  <1>1. PICK T : T = {h[i] : i \in DOMAIN h}
    OBVIOUS
  <1>2. PICK S : S = T \cup {e}
    OBVIOUS
  <1>3. h \in Seq(T)
    BY <1>1 DEF IsList
  <1>4. h \in Seq(S) /\ e \in S
    BY <1>2, <1>3, SeqMonotonic
  <1>5. /\ t \in Seq(S) /\ Len(t) = Len(h) + 1
        /\ \A i \in 1..Len(h) : t[i] = h[i]
        /\ t[Len(h) + 1] = e
    BY <1>4, AppendProperties
  <1>6. IsList(t) /\ DOMAIN t = 1..Len(t)
    BY <1>5, ListOf
  <1>7. Len(h) \in Nat /\ DOMAIN h = 1..Len(h)
    BY <1>3, ListOf
  <1> QED
    BY <1>5, <1>6, <1>7 DEF Extends

-----------------------------------------------------------------------------
\* AnsweredFor, Recently and Turn of a history h, with e = h[n].
Gives(e, cause) == \E k \in DOMAIN e.answers : e.answers[k].cause = cause

RecentlyIn(h, n, cause, cooldown) ==
  \E p \in 1..(n - 1) : /\ h[p].session = h[n].session
                        /\ h[n].time - h[p].time < cooldown
                        /\ Gives(h[p], cause)

TurnIn(h, n, events) ==
  Cardinality({p \in 1..n : /\ h[p].session = h[n].session
                            /\ h[p].message.event \in events
                            /\ Gives(h[p], Notice)})

\* No entry is of a later session or of a later instant.
Timed(h, s, t) ==
  \A p \in DOMAIN h : /\ h[p].session \in Nat /\ h[p].session <= s
                      /\ h[p].time \in Nat /\ h[p].time <= t

\* last is the instant of the last answer for the cause in session s, None if
\* there is none.
Remembers(h, s, cause, last) ==
  /\ last # None => \E p \in DOMAIN h : /\ h[p].session = s
                                        /\ Gives(h[p], cause)
                                        /\ h[p].time = last
  /\ \A p \in DOMAIN h :
       h[p].session = s /\ Gives(h[p], cause) =>
         last # None /\ h[p].time <= last

\* The answers taken in session s from the list for these events.
Taken(h, s, events) ==
  Cardinality({p \in DOMAIN h : /\ h[p].session = s
                                /\ h[p].message.event \in events
                                /\ Gives(h[p], Notice)})

\* A new entry changes nothing about an old one.
LEMMA Unchanged ==
  ASSUME NEW h, NEW t, NEW e, Extends(h, t, e), NEW n \in 1..Len(h)
  PROVE  /\ t[n] = h[n]
         /\ \A cause, cooldown : RecentlyIn(t, n, cause, cooldown)
                                   <=> RecentlyIn(h, n, cause, cooldown)
         /\ \A events : TurnIn(t, n, events) = TurnIn(h, n, events)
PROOF
  <1>1. /\ Len(h) \in Nat /\ n \in Nat
        /\ \A p \in 1..n : t[p] = h[p]
        /\ \A p \in 1..(n - 1) : t[p] = h[p]
    BY DEF Extends
  <1>2. t[n] = h[n]
    BY <1>1
  <1>3. ASSUME NEW cause, NEW cooldown
        PROVE  RecentlyIn(t, n, cause, cooldown)
                 <=> RecentlyIn(h, n, cause, cooldown)
    BY <1>1, <1>2 DEF RecentlyIn
  <1>4. ASSUME NEW events
        PROVE  TurnIn(t, n, events) = TurnIn(h, n, events)
    <2>1. {p \in 1..n : /\ t[p].session = t[n].session
                        /\ t[p].message.event \in events
                        /\ Gives(t[p], Notice)}
            = {p \in 1..n : /\ h[p].session = h[n].session
                            /\ h[p].message.event \in events
                            /\ Gives(h[p], Notice)}
      BY <1>1, <1>2
    <2> QED
      BY <2>1 DEF TurnIn
  <1> QED
    BY <1>2, <1>3, <1>4

\* The last answer decides whether one was given within the cooldown.
LEMMA RecentlyExact ==
  ASSUME NEW h, NEW t, NEW e, Extends(h, t, e),
         NEW s \in Nat, NEW instant \in Nat, Timed(h, s, instant),
         e.session = s, e.time = instant,
         NEW cause, NEW last \in Nat \cup {None}, Remembers(h, s, cause, last),
         NEW cooldown \in Nat
  PROVE  RecentlyIn(t, Len(h) + 1, cause, cooldown)
           <=> last # None /\ instant - last < cooldown
PROOF
  <1>1. PICK n : n = Len(h) + 1
    OBVIOUS
  <1>2. /\ n - 1 = Len(h) /\ t[n] = e /\ DOMAIN h = 1..(n - 1)
        /\ \A p \in 1..(n - 1) : t[p] = h[p]
    BY <1>1 DEF Extends
  <1>3. ASSUME RecentlyIn(t, n, cause, cooldown)
        PROVE  last # None /\ instant - last < cooldown
    <2>1. PICK p \in 1..(n - 1) : /\ t[p].session = t[n].session
                                  /\ t[n].time - t[p].time < cooldown
                                  /\ Gives(t[p], cause)
      BY <1>3 DEF RecentlyIn
    <2>2. /\ p \in DOMAIN h /\ h[p].session = s
          /\ instant - h[p].time < cooldown
          /\ Gives(h[p], cause)
      BY <1>2, <2>1
    <2>3. last # None /\ h[p].time <= last
      BY <2>2 DEF Remembers
    <2>4. h[p].time \in Nat /\ last \in Nat
      BY <2>2, <2>3 DEF Timed
    <2> QED
      BY <2>2, <2>3, <2>4
  <1>4. ASSUME last # None, instant - last < cooldown
        PROVE  RecentlyIn(t, n, cause, cooldown)
    <2>1. PICK p \in DOMAIN h : /\ h[p].session = s
                                /\ Gives(h[p], cause)
                                /\ h[p].time = last
      BY <1>4 DEF Remembers
    <2>2. /\ p \in 1..(n - 1) /\ t[p].session = t[n].session
          /\ t[n].time - t[p].time < cooldown
          /\ Gives(t[p], cause)
      BY <1>2, <1>4, <2>1
    <2> QED
      BY <2>2 DEF RecentlyIn
  <1> QED
    BY <1>1, <1>3, <1>4

\* The engine goes on remembering.
LEMMA RemembersNext ==
  ASSUME NEW h, NEW t, NEW e, Extends(h, t, e),
         NEW s \in Nat, NEW instant \in Nat, Timed(h, s, instant),
         e.session = s, e.time = instant,
         NEW cause, NEW last \in Nat \cup {None}, Remembers(h, s, cause, last),
         NEW next, next = IF Gives(e, cause) THEN instant ELSE last
  PROVE  Remembers(t, s, cause, next)
PROOF
  <1>1. PICK n : n = Len(h) + 1
    OBVIOUS
  <1>2. /\ n \in DOMAIN t /\ t[n] = e
        /\ DOMAIN h \subseteq DOMAIN t
        /\ \A p \in DOMAIN h : t[p] = h[p]
        /\ \A p \in DOMAIN t : p = n \/ p \in DOMAIN h
    BY <1>1 DEF Extends
  <1>3. None \notin Int
    BY NoneAssumption
  <1>4. CASE Gives(e, cause)
    <2>1. next = instant /\ next # None
      BY <1>3, <1>4
    <2>2. \A p \in DOMAIN h : h[p].time <= instant
      BY DEF Timed
    <2>3. \A p \in DOMAIN t : t[p].time <= instant
      BY <1>2, <2>2
    <2>4. t[n].session = s /\ Gives(t[n], cause) /\ t[n].time = instant
      BY <1>2, <1>4
    <2> QED
      BY <1>2, <2>1, <2>3, <2>4 DEF Remembers
  <1>5. CASE ~ Gives(e, cause)
    <2>1. next = last
      BY <1>5
    <2>2. ASSUME last # None
          PROVE  \E p \in DOMAIN t : /\ t[p].session = s
                                     /\ Gives(t[p], cause)
                                     /\ t[p].time = last
      <3>1. PICK p \in DOMAIN h : /\ h[p].session = s
                                  /\ Gives(h[p], cause)
                                  /\ h[p].time = last
        BY <2>2 DEF Remembers
      <3>2. p \in DOMAIN t /\ t[p] = h[p]
        BY <1>2
      <3> QED
        BY <3>1, <3>2
    <2>3. ASSUME NEW p \in DOMAIN t, t[p].session = s, Gives(t[p], cause)
          PROVE  last # None /\ t[p].time <= last
      <3>1. p \in DOMAIN h /\ t[p] = h[p]
        BY <1>2, <1>5, <2>3
      <3> QED
        BY <2>3, <3>1 DEF Remembers
    <2> QED
      BY <2>1, <2>2, <2>3 DEF Remembers
  <1> QED
    BY <1>4, <1>5

\* A new session remembers nothing.
LEMMA RemembersNothing ==
  ASSUME NEW h, NEW s \in Nat, NEW instant, Timed(h, s, instant), NEW cause
  PROVE  Remembers(h, s + 1, cause, None)
PROOF
  <1>1. \A p \in DOMAIN h : h[p].session # s + 1
    BY DEF Timed
  <1> QED
    BY <1>1 DEF Remembers

\* The answers taken are counted one by one.
LEMMA TakenNext ==
  ASSUME NEW h, NEW t, NEW e, Extends(h, t, e), NEW s, e.session = s, NEW events
  PROVE  /\ Taken(h, s, events) \in Nat
         /\ TurnIn(t, Len(h) + 1, events) = Taken(t, s, events)
         /\ e.message.event \in events /\ Gives(e, Notice) =>
              Taken(t, s, events) = Taken(h, s, events) + 1
         /\ ~ (e.message.event \in events /\ Gives(e, Notice)) =>
              Taken(t, s, events) = Taken(h, s, events)
PROOF
  <1>1. PICK n : n = Len(h) + 1
    OBVIOUS
  <1>2. /\ Len(h) \in Nat /\ n \in Nat /\ n - 1 = Len(h)
        /\ DOMAIN h = 1..(n - 1) /\ DOMAIN t = 1..n /\ t[n] = e
        /\ \A p \in DOMAIN h : t[p] = h[p]
    BY <1>1 DEF Extends
  <1> DEFINE Ours(r) == /\ r.session = s
                        /\ r.message.event \in events
                        /\ Gives(r, Notice)
             H == {p \in 1..(n - 1) : Ours(h[p])}
             T == {p \in 1..n : Ours(t[p])}
  <1>3. IsFiniteSet(1..(n - 1)) /\ H \in SUBSET (1..(n - 1))
    BY <1>2, FS_Interval
  <1>4. IsFiniteSet(H) /\ Cardinality(H) \in Nat
    BY <1>3, FS_Subset, FS_CardinalityType
  <1>5. Taken(h, s, events) = Cardinality(H)
    BY <1>2 DEF Taken
  <1>6. Taken(t, s, events) = Cardinality(T)
    BY <1>2 DEF Taken
  <1>7. TurnIn(t, n, events) = Cardinality(T)
    BY <1>2 DEF TurnIn
  <1>8. n \notin H
    BY <1>2
  <1>9. CASE Ours(e)
    <2>1. \A p : p \in T <=> p \in H \/ p = n
      BY <1>2, <1>9
    <2> HIDE DEF H, T
    <2>2. T = H \cup {n}
      BY <2>1
    <2>3. Cardinality(T) = Cardinality(H) + 1
      BY <1>4, <1>8, <2>2, FS_AddElement
    <2> QED
      BY <1>1, <1>4, <1>5, <1>6, <1>7, <1>9, <2>3
  <1>10. CASE ~ Ours(e)
    <2>1. \A p : p \in T <=> p \in H
      BY <1>2, <1>10
    <2> HIDE DEF H, T
    <2>2. T = H
      BY <2>1
    <2> QED
      BY <1>1, <1>4, <1>5, <1>6, <1>7, <1>10, <2>2
  <1> QED
    BY <1>9, <1>10

\* A new session has taken nothing.
LEMMA TakenNothing ==
  ASSUME NEW h, NEW s \in Nat, NEW instant, Timed(h, s, instant), NEW events
  PROVE  Taken(h, s + 1, events) = 0
PROOF
  <1>1. \A p \in DOMAIN h : h[p].session # s + 1
    BY DEF Timed
  <1>2. {p \in DOMAIN h : /\ h[p].session = s + 1
                          /\ h[p].message.event \in events
                          /\ Gives(h[p], Notice)} = {}
    BY <1>1
  <1> QED
    BY <1>2, FS_EmptySet DEF Taken

-----------------------------------------------------------------------------
\* What the loop of handle_privmsg puts into its output: one answer, in the
\* channel of the line, for each rule that fires.
LEMMA PrivmsgOutput ==
  ASSUME NEW m, HandlePrivmsg(m)
  PROVE  \E out :
           /\ Handled(m, out)
           /\ \A i \in 1..Len(Rules) :
                (\E q \in DOMAIN out : out[q].cause = i) <=> Fires(i, m)
           /\ \A q \in DOMAIN out :
                /\ out[q].cause \in 1..Len(Rules)
                /\ out[q].channel = ChannelFromMessage(m)
PROOF
  <1> DEFINE k == Len(Rules)
             room == ChannelFromMessage(m)
             answer(i) == Answer(i, room, Rules[i].response, Rules[i].delay)
             S == {answer(i) : i \in 1..k}
             D == Seq(S)
             Body(x, i) == IF Fires(i, m) THEN Append(x, answer(i)) ELSE x
             F == [d \in D \X (1..k) |-> Body(d[1], d[2])]
             Loop(f) == [i \in 0..Len(Rules) |->
                           IF i = 0 THEN << >>
                           ELSE IF Fires(i, m)
                                THEN Append(f[i - 1],
                                            Answer(i, ChannelFromMessage(m),
                                                   Rules[i].response,
                                                   Rules[i].delay))
                                ELSE f[i - 1]]
             output == CHOOSE f : f = Loop(f)
             Shows(x, j) == \A i \in 1..k :
                              (\E q \in DOMAIN x : x[q].cause = i)
                                <=> i <= j /\ Fires(i, m)
             T == {j \in 0..k : Shows(output[j], j)}
  <1>1. k \in Nat
    BY SettingsAssumption, ListOf DEF Usable, IsList
  <1>2. \A i \in 1..k : /\ answer(i) \in S /\ answer(i).cause = i
                        /\ answer(i).channel = room
    BY DEF Answer
  <1>3. \A a \in S : a.cause \in 1..k /\ a.channel = room
    BY <1>2
  <1>4. << >> \in D
    BY EmptySeq
  <1> HIDE DEF S, answer
  <1>5. ASSUME NEW x \in D, NEW i \in 1..k
        PROVE  Body(x, i) \in D
    <2>1. CASE Fires(i, m)
      <3>1. Append(x, answer(i)) \in Seq(S)
        BY <1>2, AppendProperties
      <3> QED
        BY <2>1, <3>1
    <2>2. CASE ~ Fires(i, m)
      BY <2>2
    <2> QED
      BY <2>1, <2>2
  <1> HIDE DEF D, k
  <1>6. F \in [D \X (1..k) -> D]
    <2> HIDE DEF Body
    <2> QED
      BY <1>5
  <1>7. \A x \in D, i \in 1..k : F[<<x, i>>] = Body(x, i)
    <2> HIDE DEF Body
    <2> QED
      OBVIOUS
  <1> HIDE DEF F, Body
  <1>8. PICK g : Loops(g, k, D, << >>, F)
    BY <1>1, <1>4, <1>6, LoopExists
  <1>9. g = Loop(g)
    <2>1. ASSUME NEW i \in 1..k
          PROVE  g[i] = Body(g[i - 1], i)
      <3>1. i - 1 \in 0..k
        BY <1>1
      <3>2. g[i - 1] \in D /\ g[i] = F[<<g[i - 1], i>>]
        BY <1>8, <3>1 DEF Loops
      <3> QED
        BY <1>7, <3>2
    <2>2. ASSUME NEW i \in 0..k
          PROVE  g[i] = Loop(g)[i]
      <3>1. CASE i = 0
        BY <1>8, <3>1 DEF Loops, k
      <3>2. CASE i \in 1..k
        <4>1. i # 0 /\ i \in 0..Len(Rules)
          BY <1>1, <3>2 DEF k
        <4>2. Loop(g)[i] = IF Fires(i, m) THEN Append(g[i - 1], answer(i))
                           ELSE g[i - 1]
          BY <4>1 DEF answer
        <4> QED
          BY <2>1, <3>2, <4>2 DEF Body
      <3> QED
        BY <1>1, <3>1, <3>2
    <2>3. g \in [0..Len(Rules) -> D]
      BY <1>8 DEF Loops, k
    <2> HIDE DEF D
    <2>4. Loop(g) = [i \in 0..Len(Rules) |-> Loop(g)[i]]
      OBVIOUS
    <2>5. \A i \in 0..Len(Rules) : g[i] = Loop(g)[i]
      BY <2>2 DEF k
    <2> HIDE DEF Loop
    <2> QED
      BY <2>3, <2>4, <2>5
  <1>10. output = Loop(output)
    BY <1>9, Zenon
  <1> HIDE DEF output
  <1>11. output[0] = << >>
    BY <1>1, <1>10 DEF k
  <1>12. ASSUME NEW i \in 1..k
         PROVE  output[i] = Body(output[i - 1], i)
    <2>1. i # 0 /\ i \in 0..Len(Rules)
      BY <1>1 DEF k
    <2> QED
      BY <1>10, <2>1 DEF Body, answer
  <1>13. \A i \in 0..k : output[i] \in D
    BY <1>1, <1>4, <1>5, <1>11, <1>12, LoopStays
  <1>14. 0 \in T
    <2>1. \A i \in 1..k : ~ (i <= 0)
      BY <1>1
    <2>2. DOMAIN output[0] = {}
      BY <1>11
    <2>3. 0 \in 0..k
      BY <1>1
    <2> QED
      BY <2>1, <2>2, <2>3
  <1>15. ASSUME NEW j \in 1..k, j - 1 \in T
         PROVE  j \in T
    <2>1. PICK x : x = output[j - 1]
      OBVIOUS
    <2>2. PICK y : y = output[j]
      OBVIOUS
    <2>3. j - 1 \in 0..k /\ j \in 0..k
      BY <1>1
    <2>4. x \in Seq(S) /\ y = Body(x, j) /\ Shows(x, j - 1)
      BY <1>12, <1>13, <1>15, <2>1, <2>2, <2>3 DEF D
    <2>5. \A i \in 1..k : i <= j <=> i <= j - 1 \/ i = j
      BY <1>1
    <2>6. ~ (j <= j - 1)
      BY <1>1
    <2>7. CASE Fires(j, m)
      <3>1. y = Append(x, answer(j))
        BY <2>4, <2>7 DEF Body
      <3>2. Extends(x, y, answer(j))
        BY <2>4, <3>1, ListOf, AppendExtends
      <3>3. ASSUME NEW i \in 1..k
            PROVE  (\E q \in DOMAIN y : y[q].cause = i)
                     <=> (\E q \in DOMAIN x : x[q].cause = i) \/ i = j
        <4>1. answer(j).cause = j
          BY <1>2
        <4> QED
          BY <3>2, <4>1 DEF Extends
      <3>4. Shows(y, j)
        BY <2>4, <2>5, <2>7, <3>3
      <3> QED
        BY <2>2, <2>3, <3>4
    <2>8. CASE ~ Fires(j, m)
      <3>1. y = x
        BY <2>4, <2>8 DEF Body
      <3>2. Shows(y, j)
        BY <2>4, <2>5, <2>8, <3>1
      <3> QED
        BY <2>2, <2>3, <3>2
    <2> QED
      BY <2>7, <2>8
  <1>16. \A j \in 0..k : j \in T
    <2> HIDE DEF T
    <2> QED
      BY <1>1, <1>14, <1>15, UpTo
  <1>17. PICK out : out = output[k]
    OBVIOUS
  <1>18. k \in 0..k /\ \A i \in 1..k : i <= k
    BY <1>1
  <1>19. out \in Seq(S) /\ Shows(out, k)
    BY <1>13, <1>16, <1>17, <1>18 DEF D
  <1>20. \A q \in DOMAIN out : out[q] \in S
    BY <1>19
  <1>21. Handled(m, out)
    <2>1. Handled(m, output[Len(Rules)])
      BY DEF HandlePrivmsg, output
    <2> QED
      BY <1>17, <2>1 DEF k
  <1>22. \A i \in 1..Len(Rules) :
           (\E q \in DOMAIN out : out[q].cause = i) <=> Fires(i, m)
    BY <1>18, <1>19 DEF k
  <1>23. \A q \in DOMAIN out : /\ out[q].cause \in 1..Len(Rules)
                               /\ out[q].channel = ChannelFromMessage(m)
    BY <1>3, <1>20 DEF k
  <1> QED
    BY <1>21, <1>22, <1>23

-----------------------------------------------------------------------------
\* The properties of one entry.
RulesRight(h, n) ==
  LET m == h[n].message IN
  /\ \A i \in DOMAIN Rules :
       Gives(h[n], i) <=>
         /\ m.command = "PRIVMSG"
         /\ Rules[i].enabled
         /\ m.author = Rules[i].sender
         /\ Rules[i].channel \in {None, m.room}
         /\ m.room # << >>
         /\ HasWord(m.said, Rules[i].contains)
         /\ ~ RecentlyIn(h, n, i, Rules[i].cooldown)
  /\ \A q \in DOMAIN h[n].answers : h[n].answers[q].channel = m.room

HypeRight(h, n) ==
  LET m == h[n].message IN
  Gives(h[n], Notice) <=>
    /\ m.command = "USERNOTICE"
    /\ Hype.enabled
    /\ m.room = Hype.channel
    /\ m.event \in Subscriptions \cup Gifts
    /\ ~ RecentlyIn(h, n, Notice, Hype.cooldown)

TurnRight(h, n) ==
  Gives(h[n], Notice) =>
    /\ h[n].message.event \in Subscriptions =>
         h[n].answers[1].text = InTurn(Hype.subscription_messages,
                                       TurnIn(h, n, Subscriptions))
    /\ h[n].message.event \in Gifts =>
         h[n].answers[1].text = InTurn(Hype.gift_messages,
                                       TurnIn(h, n, Gifts))

AllRight(h, n) == RulesRight(h, n) /\ HypeRight(h, n) /\ TurnRight(h, n)

\* The inductive invariant: beside the properties, what the engine remembers
\* is the past of its session.
Inv ==
  /\ now \in Nat /\ session \in Nat
  /\ rule_last_sent \in [DOMAIN Rules -> Nat \cup {None}]
  /\ hype_last_sent \in Nat \cup {None}
  /\ IsList(handled)
  /\ Timed(handled, session, now)
  /\ \A i \in DOMAIN Rules : Remembers(handled, session, i, rule_last_sent[i])
  /\ Remembers(handled, session, Notice, hype_last_sent)
  /\ Hype.enabled =>
       /\ subscription_index = Taken(handled, session, Subscriptions)
                                 % Len(Hype.subscription_messages)
       /\ gift_index = Taken(handled, session, Gifts)
                         % Len(Hype.gift_messages)
  /\ \A n \in DOMAIN handled : AllRight(handled, n)

\* What a handler may do with a line.
Entry(m, out) ==
  [session |-> session, time |-> now, message |-> m, answers |-> out]

AnswersRules(m, e) ==
  /\ \A i \in DOMAIN Rules : Gives(e, i) <=> m.command = "PRIVMSG" /\ Fires(i, m)
  /\ \A q \in DOMAIN e.answers : e.answers[q].channel = m.room
  /\ rule_last_sent' \in [DOMAIN Rules -> Nat \cup {None}]
  /\ \A i \in DOMAIN Rules :
       rule_last_sent'[i] = IF Gives(e, i) THEN now ELSE rule_last_sent[i]

AnswersNotice(m, e) ==
  /\ Gives(e, Notice) <=> /\ m.command = "USERNOTICE"
                          /\ Hypes(m)
                          /\ ~ Cooling(hype_last_sent, Hype.cooldown)
                          /\ m.event \in Subscriptions \cup Gifts
  /\ hype_last_sent' = IF Gives(e, Notice) THEN now ELSE hype_last_sent

Rotates(m, e) ==
  /\ subscription_index' =
       IF m.event \in Subscriptions /\ Gives(e, Notice)
       THEN Following(subscription_index, Hype.subscription_messages)
       ELSE subscription_index
  /\ gift_index' = IF m.event \in Gifts /\ Gives(e, Notice)
                   THEN Following(gift_index, Hype.gift_messages)
                   ELSE gift_index
  /\ Gives(e, Notice) =>
       /\ m.event \in Subscriptions =>
            e.answers[1].text
              = Hype.subscription_messages[subscription_index + 1]
       /\ m.event \in Gifts =>
            e.answers[1].text = Hype.gift_messages[gift_index + 1]

\* When a rule fires, by the known parts of the line.
LEMMA FiresMeaning ==
  ASSUME NEW m \in Lines, m.command = "PRIVMSG", NEW i \in DOMAIN Rules
  PROVE  Fires(i, m) <=> /\ Rules[i].enabled
                         /\ m.author = Rules[i].sender
                         /\ Rules[i].channel \in {None, m.room}
                         /\ m.room # << >>
                         /\ HasWord(m.said, Rules[i].contains)
                         /\ ~ Cooling(rule_last_sent[i], Rules[i].cooldown)
PROOF
  <1>1. /\ m.room = ChannelFromMessage(m)
        /\ IF Len(m.parameters) >= 2
           THEN /\ m.author = SenderFromPrefix(m.prefix)
                /\ m.said = m.parameters[Len(m.parameters)]
           ELSE m.author = << >>
    BY LinesAssumption
  <1>2. Rules[i].sender # << >>
    <2>1. Rules[i].sender \in Login
      BY SettingsAssumption DEF Usable
    <2>2. Len(Rules[i].sender) \in 1..MaxLogin
      BY <2>1 DEF Login
    <2>3. Len(<< >>) = 0
      OBVIOUS
    <2> QED
      BY <2>2, <2>3
  <1>3. CASE Len(m.parameters) >= 2
    BY <1>1, <1>2, <1>3 DEF Fires, Matches, Rejected
  <1>4. CASE ~ (Len(m.parameters) >= 2)
    BY <1>1, <1>2, <1>4 DEF Fires
  <1> QED
    BY <1>3, <1>4

\* The step of the invariant for a line, whatever its kind.
LEMMA LineStep ==
  ASSUME Inv, NEW m \in Lines, NEW out, NEW e, e = Entry(m, out),
         handled' = Append(handled, e), now' = now, session' = session,
         AnswersRules(m, e), AnswersNotice(m, e), Rotates(m, e)
  PROVE  Inv'
PROOF
  <1>1. PICK h : h = handled
    OBVIOUS
  <1>2. PICK t : t = handled'
    OBVIOUS
  <1>3. PICK n : n = Len(h) + 1
    OBVIOUS
  <1>4. /\ e.session = session /\ e.time = now /\ e.message = m
        /\ e.answers = out
    BY DEF Entry
  <1>5. /\ now \in Nat /\ session \in Nat /\ Timed(h, session, now)
        /\ rule_last_sent \in [DOMAIN Rules -> Nat \cup {None}]
        /\ hype_last_sent \in Nat \cup {None}
        /\ IsList(h)
        /\ \A i \in DOMAIN Rules : Remembers(h, session, i, rule_last_sent[i])
        /\ Remembers(h, session, Notice, hype_last_sent)
        /\ \A p \in DOMAIN h : AllRight(h, p)
    BY <1>1 DEF Inv
  <1>6. Extends(h, t, e)
    BY <1>1, <1>2, <1>5, AppendExtends
  <1>7. /\ DOMAIN h = 1..Len(h) /\ t[n] = e /\ IsList(t)
        /\ \A p \in DOMAIN h : t[p] = h[p]
        /\ \A p \in DOMAIN t : p \in DOMAIN h \/ p = n
    BY <1>3, <1>6 DEF Extends
  <1>8. /\ m.room = ChannelFromMessage(m)
        /\ \A i \in DOMAIN Rules : Rules[i].cooldown \in Nat
        /\ Hype.cooldown \in Nat
    BY LinesAssumption, SettingsAssumption DEF Usable
  <1>9. Timed(t, session, now)
    <2>1. /\ \A p \in DOMAIN h : /\ h[p].session \in Nat
                                 /\ h[p].session <= session
                                 /\ h[p].time \in Nat /\ h[p].time <= now
      BY <1>5 DEF Timed
    <2>2. session <= session /\ now <= now
      BY <1>5
    <2> QED
      BY <1>4, <1>5, <1>7, <2>1, <2>2 DEF Timed
  <1>10. ASSUME NEW i \in DOMAIN Rules
         PROVE  /\ RecentlyIn(t, n, i, Rules[i].cooldown)
                     <=> Cooling(rule_last_sent[i], Rules[i].cooldown)
                /\ Remembers(t, session, i, rule_last_sent'[i])
    <2>1. PICK last : last = rule_last_sent[i]
      OBVIOUS
    <2>2. PICK cooldown : cooldown = Rules[i].cooldown
      OBVIOUS
    <2>3. /\ last \in Nat \cup {None} /\ cooldown \in Nat
          /\ Remembers(h, session, i, last)
      BY <1>5, <1>8, <2>1, <2>2
    <2>4. RecentlyIn(t, n, i, cooldown) <=> last # None /\ now - last < cooldown
      BY <1>3, <1>4, <1>5, <1>6, <2>3, RecentlyExact
    <2>5. PICK next : next = rule_last_sent'[i]
      OBVIOUS
    <2>6. next = IF Gives(e, i) THEN now ELSE last
      BY <2>1, <2>5 DEF AnswersRules
    <2>7. Remembers(t, session, i, next)
      BY <1>4, <1>5, <1>6, <2>3, <2>6, RemembersNext
    <2> QED
      BY <2>1, <2>2, <2>4, <2>5, <2>7 DEF Cooling
  <1>11. /\ RecentlyIn(t, n, Notice, Hype.cooldown)
              <=> Cooling(hype_last_sent, Hype.cooldown)
         /\ Remembers(t, session, Notice, hype_last_sent')
         /\ hype_last_sent' \in Nat \cup {None}
    <2>1. RecentlyIn(t, n, Notice, Hype.cooldown)
            <=> /\ hype_last_sent # None
                /\ now - hype_last_sent < Hype.cooldown
      BY <1>3, <1>4, <1>5, <1>6, <1>8, RecentlyExact
    <2>2. hype_last_sent' = IF Gives(e, Notice) THEN now ELSE hype_last_sent
      BY DEF AnswersNotice
    <2>3. Remembers(t, session, Notice, hype_last_sent')
      BY <1>4, <1>5, <1>6, <2>2, RemembersNext
    <2>4. hype_last_sent' \in Nat \cup {None}
      BY <1>5, <2>2
    <2> QED
      BY <2>1, <2>3, <2>4 DEF Cooling
  <1>12. RulesRight(t, n)
    <2>1. ASSUME NEW i \in DOMAIN Rules
          PROVE  Gives(e, i) <=>
                   /\ m.command = "PRIVMSG"
                   /\ Rules[i].enabled
                   /\ m.author = Rules[i].sender
                   /\ Rules[i].channel \in {None, m.room}
                   /\ m.room # << >>
                   /\ HasWord(m.said, Rules[i].contains)
                   /\ ~ RecentlyIn(t, n, i, Rules[i].cooldown)
      <3>1. Gives(e, i) <=> m.command = "PRIVMSG" /\ Fires(i, m)
        BY DEF AnswersRules
      <3> QED
        BY <1>10, <3>1, FiresMeaning
    <2>2. \A q \in DOMAIN e.answers : e.answers[q].channel = m.room
      BY DEF AnswersRules
    <2> QED
      BY <1>4, <1>7, <2>1, <2>2 DEF RulesRight
  <1>13. HypeRight(t, n)
    <2>1. Gives(e, Notice) <=> /\ m.command = "USERNOTICE"
                               /\ Hypes(m)
                               /\ ~ Cooling(hype_last_sent, Hype.cooldown)
                               /\ m.event \in Subscriptions \cup Gifts
      BY DEF AnswersNotice
    <2>2. m.event \in Subscriptions \cup Gifts => m.event # None
      BY NoneAssumption DEF Subscriptions, Gifts
    <2>3. Hypes(m) <=> /\ Hype.enabled /\ m.room = Hype.channel
                       /\ m.event # None
      BY <1>8 DEF Hypes
    <2> QED
      BY <1>4, <1>7, <1>11, <2>1, <2>2, <2>3 DEF HypeRight
  <1>14. ASSUME Hype.enabled
         PROVE  /\ subscription_index' = Taken(t, session, Subscriptions)
                                           % Len(Hype.subscription_messages)
                /\ gift_index' = Taken(t, session, Gifts)
                                   % Len(Hype.gift_messages)
                /\ TurnRight(t, n)
    <2>1. /\ Len(Hype.subscription_messages) \in Nat \ {0}
          /\ Len(Hype.gift_messages) \in Nat \ {0}
      BY <1>14, SettingsAssumption, EmptySeq DEF Usable, IsList
    <2>2. PICK a : a = Taken(h, session, Subscriptions)
      OBVIOUS
    <2>3. PICK b : b = Taken(h, session, Gifts)
      OBVIOUS
    <2>4. /\ subscription_index = a % Len(Hype.subscription_messages)
          /\ gift_index = b % Len(Hype.gift_messages)
      BY <1>1, <1>14, <2>2, <2>3 DEF Inv
    <2>5. /\ a \in Nat
          /\ TurnIn(t, n, Subscriptions) = Taken(t, session, Subscriptions)
          /\ m.event \in Subscriptions /\ Gives(e, Notice) =>
               Taken(t, session, Subscriptions) = a + 1
          /\ ~ (m.event \in Subscriptions /\ Gives(e, Notice)) =>
               Taken(t, session, Subscriptions) = a
      BY <1>3, <1>4, <1>6, <2>2, TakenNext
    <2>6. /\ b \in Nat
          /\ TurnIn(t, n, Gifts) = Taken(t, session, Gifts)
          /\ m.event \in Gifts /\ Gives(e, Notice) =>
               Taken(t, session, Gifts) = b + 1
          /\ ~ (m.event \in Gifts /\ Gives(e, Notice)) =>
               Taken(t, session, Gifts) = b
      BY <1>3, <1>4, <1>6, <2>3, TakenNext
    <2>7. subscription_index' = Taken(t, session, Subscriptions)
                                  % Len(Hype.subscription_messages)
      <3>1. ((a % Len(Hype.subscription_messages)) + 1)
              % Len(Hype.subscription_messages)
              = (a + 1) % Len(Hype.subscription_messages)
        BY <2>1, <2>5, ModNext
      <3> QED
        BY <2>4, <2>5, <3>1 DEF Rotates, Following
    <2>8. gift_index' = Taken(t, session, Gifts) % Len(Hype.gift_messages)
      <3>1. ((b % Len(Hype.gift_messages)) + 1) % Len(Hype.gift_messages)
              = (b + 1) % Len(Hype.gift_messages)
        BY <2>1, <2>6, ModNext
      <3> QED
        BY <2>4, <2>6, <3>1 DEF Rotates, Following
    <2>9. TurnRight(t, n)
      <3>1. ASSUME Gives(e, Notice), m.event \in Subscriptions
            PROVE  e.answers[1].text
                     = InTurn(Hype.subscription_messages,
                              TurnIn(t, n, Subscriptions))
        <4>1. TurnIn(t, n, Subscriptions) - 1 = a
          BY <2>5, <3>1
        <4>2. e.answers[1].text
                = Hype.subscription_messages[subscription_index + 1]
          BY <3>1 DEF Rotates
        <4> QED
          BY <2>4, <4>1, <4>2 DEF InTurn
      <3>2. ASSUME Gives(e, Notice), m.event \in Gifts
            PROVE  e.answers[1].text
                     = InTurn(Hype.gift_messages, TurnIn(t, n, Gifts))
        <4>1. TurnIn(t, n, Gifts) - 1 = b
          BY <2>6, <3>2
        <4>2. e.answers[1].text = Hype.gift_messages[gift_index + 1]
          BY <3>2 DEF Rotates
        <4> QED
          BY <2>4, <4>1, <4>2 DEF InTurn
      <3> QED
        BY <1>4, <1>7, <3>1, <3>2 DEF TurnRight
    <2> QED
      BY <2>7, <2>8, <2>9
  <1>15. TurnRight(t, n)
    <2>1. CASE Hype.enabled
      BY <1>14, <2>1
    <2>2. CASE ~ Hype.enabled
      <3>1. ~ Gives(t[n], Notice)
        BY <1>7, <2>2 DEF AnswersNotice, Hypes
      <3> QED
        BY <3>1 DEF TurnRight
    <2> QED
      BY <2>1, <2>2
  <1>16. ASSUME NEW p \in DOMAIN t
         PROVE  AllRight(t, p)
    <2>1. CASE p = n
      BY <1>12, <1>13, <1>15, <2>1 DEF AllRight
    <2>2. CASE p \in DOMAIN h
      <3>1. p \in 1..Len(h)
        BY <1>7, <2>2
      <3>2. /\ t[p] = h[p]
            /\ \A cause, cooldown : RecentlyIn(t, p, cause, cooldown)
                                      <=> RecentlyIn(h, p, cause, cooldown)
            /\ \A events : TurnIn(t, p, events) = TurnIn(h, p, events)
        BY <1>6, <3>1, Unchanged
      <3>3. RulesRight(h, p) /\ HypeRight(h, p) /\ TurnRight(h, p)
        BY <1>5, <2>2 DEF AllRight
      <3>4. RulesRight(t, p)
        BY <3>2, <3>3 DEF RulesRight
      <3>5. HypeRight(t, p)
        BY <3>2, <3>3 DEF HypeRight
      <3>6. TurnRight(t, p)
        BY <3>2, <3>3 DEF TurnRight
      <3> QED
        BY <3>4, <3>5, <3>6 DEF AllRight
    <2> QED
      BY <1>7, <2>1, <2>2
  <1>17. rule_last_sent' \in [DOMAIN Rules -> Nat \cup {None}]
    BY DEF AnswersRules
  <1> QED
    BY <1>2, <1>5, <1>7, <1>9, <1>10, <1>11, <1>14, <1>16, <1>17 DEF Inv

\* A line that is not answered leaves the engine as it is.
LEMMA Ignored ==
  ASSUME NEW m \in Lines, NEW e, e = Entry(m, << >>), Inv,
         UNCHANGED <<rule_last_sent, hype_last_sent, subscription_index,
                     gift_index>>
  PROVE  /\ \A cause : ~ Gives(e, cause)
         /\ m.command # "PRIVMSG" => AnswersRules(m, e)
         /\ ~ (/\ m.command = "USERNOTICE"
               /\ Hypes(m)
               /\ ~ Cooling(hype_last_sent, Hype.cooldown)
               /\ m.event \in Subscriptions \cup Gifts) =>
              AnswersNotice(m, e)
         /\ Rotates(m, e)
PROOF
  <1>1. e.answers = << >> /\ DOMAIN e.answers = {}
    BY DEF Entry
  <1>2. \A cause : ~ Gives(e, cause)
    BY <1>1 DEF Gives
  <1>3. rule_last_sent \in [DOMAIN Rules -> Nat \cup {None}]
    BY DEF Inv
  <1>4. m.command # "PRIVMSG" => AnswersRules(m, e)
    BY <1>1, <1>2, <1>3 DEF AnswersRules
  <1>5. Rotates(m, e)
    BY <1>2 DEF Rotates
  <1> QED
    BY <1>2, <1>4, <1>5 DEF AnswersNotice

\* handle_privmsg keeps the invariant.
LEMMA PrivmsgStep ==
  ASSUME Inv, NEW m \in Lines, m.command = "PRIVMSG", HandlePrivmsg(m)
  PROVE  Inv'
PROOF
  <1>1. PICK out :
          /\ Handled(m, out)
          /\ \A i \in 1..Len(Rules) :
               (\E q \in DOMAIN out : out[q].cause = i) <=> Fires(i, m)
          /\ \A q \in DOMAIN out :
               /\ out[q].cause \in 1..Len(Rules)
               /\ out[q].channel = ChannelFromMessage(m)
    BY PrivmsgOutput
  <1>2. PICK e : e = Entry(m, out)
    OBVIOUS
  <1>3. e.answers = out /\ handled' = Append(handled, e)
    BY <1>1, <1>2 DEF Handled, Entry
  <1>4. /\ rule_last_sent' = [i \in DOMAIN Rules |->
                                IF Fires(i, m) THEN now ELSE rule_last_sent[i]]
        /\ UNCHANGED <<now, session, hype_last_sent, subscription_index,
                       gift_index>>
    BY DEF HandlePrivmsg
  <1>5. DOMAIN Rules = 1..Len(Rules) /\ Len(Rules) \in Nat
    BY SettingsAssumption, ListOf DEF Usable, IsList
  <1>6. \A i \in DOMAIN Rules : Gives(e, i) <=> Fires(i, m)
    BY <1>1, <1>3, <1>5 DEF Gives
  <1>7. ~ Gives(e, Notice)
    BY <1>1, <1>3, <1>5 DEF Gives, Notice
  <1>8. AnswersRules(m, e)
    <2>1. \A q \in DOMAIN e.answers : e.answers[q].channel = m.room
      BY <1>1, <1>3, LinesAssumption
    <2>2. /\ now \in Nat
          /\ rule_last_sent \in [DOMAIN Rules -> Nat \cup {None}]
      BY DEF Inv
    <2>3. rule_last_sent' \in [DOMAIN Rules -> Nat \cup {None}]
      BY <1>4, <2>2
    <2>4. \A i \in DOMAIN Rules :
            rule_last_sent'[i] = IF Gives(e, i) THEN now ELSE rule_last_sent[i]
      BY <1>4, <1>6
    <2> QED
      BY <1>6, <2>1, <2>3, <2>4 DEF AnswersRules
  <1>9. AnswersNotice(m, e)
    BY <1>4, <1>7 DEF AnswersNotice
  <1>10. Rotates(m, e)
    BY <1>4, <1>7 DEF Rotates
  <1> QED
    BY <1>2, <1>3, <1>4, <1>8, <1>9, <1>10, LineStep

\* handle_usernotice keeps the invariant.
LEMMA UsernoticeStep ==
  ASSUME Inv, NEW m \in Lines, m.command = "USERNOTICE", HandleUsernotice(m)
  PROVE  Inv'
PROOF
  <1>1. UNCHANGED <<now, session, rule_last_sent>>
    BY DEF HandleUsernotice
  <1> DEFINE Taking == /\ Hypes(m)
                       /\ ~ Cooling(hype_last_sent, Hype.cooldown)
                       /\ m.event \in Subscriptions \cup Gifts
  <1>2. CASE ~ Taking
    <2>1. /\ Handled(m, << >>)
          /\ UNCHANGED <<hype_last_sent, subscription_index, gift_index>>
      BY <1>2 DEF HandleUsernotice, Subscriptions, Gifts
    <2>2. PICK e : e = Entry(m, << >>)
      OBVIOUS
    <2>3. handled' = Append(handled, e)
      BY <2>1, <2>2 DEF Handled, Entry
    <2>4. AnswersRules(m, e) /\ AnswersNotice(m, e) /\ Rotates(m, e)
      BY <1>1, <1>2, <2>1, <2>2, Ignored
    <2> QED
      BY <1>1, <2>2, <2>3, <2>4, LineStep
  <1>3. CASE Taking
    <2>1. HypeAnswer(m) /\ hype_last_sent' = now
      BY <1>3 DEF HandleUsernotice, Subscriptions, Gifts
    <2>2. PICK text :
            /\ Handled(m, <<Answer(Notice, Hype.channel, text, Hype.delay)>>)
            /\ \/ /\ m.event \in Subscriptions
                  /\ text = Hype.subscription_messages[subscription_index + 1]
                  /\ subscription_index' =
                       Following(subscription_index, Hype.subscription_messages)
                  /\ UNCHANGED gift_index
               \/ /\ m.event \in Gifts
                  /\ text = Hype.gift_messages[gift_index + 1]
                  /\ gift_index' = Following(gift_index, Hype.gift_messages)
                  /\ UNCHANGED subscription_index
      BY <2>1, Zenon DEF HypeAnswer, Subscriptions, Gifts
    <2>3. PICK a : a = Answer(Notice, Hype.channel, text, Hype.delay)
      OBVIOUS
    <2>4. PICK e : e = Entry(m, <<a>>)
      OBVIOUS
    <2>5. handled' = Append(handled, e)
      BY <2>2, <2>3, <2>4 DEF Handled, Entry
    <2>6. /\ a.cause = Notice /\ a.channel = Hype.channel /\ a.text = text
      BY <2>3 DEF Answer
    <2>7. /\ e.answers = <<a>> /\ DOMAIN e.answers = {1} /\ e.answers[1] = a
      <3>1. e.answers = <<a>>
        BY <2>4 DEF Entry
      <3> QED
        BY <3>1
    <2>8. Gives(e, Notice)
      BY <2>6, <2>7 DEF Gives
    <2>9. \A i \in DOMAIN Rules : ~ Gives(e, i)
      <3>1. DOMAIN Rules = 1..Len(Rules) /\ Len(Rules) \in Nat
        BY SettingsAssumption, ListOf DEF Usable, IsList
      <3> QED
        BY <2>6, <2>7, <3>1 DEF Gives, Notice
    <2>10. AnswersRules(m, e)
      <3>1. m.room = Hype.channel
        BY <1>3, LinesAssumption DEF Hypes
      <3>2. rule_last_sent \in [DOMAIN Rules -> Nat \cup {None}]
        BY DEF Inv
      <3> QED
        BY <1>1, <2>6, <2>7, <2>9, <3>1, <3>2 DEF AnswersRules
    <2>11. AnswersNotice(m, e)
      BY <1>3, <2>1, <2>8 DEF AnswersNotice
    <2>12. Rotates(m, e)
      <3>1. ~ (m.event \in Subscriptions /\ m.event \in Gifts)
        BY DEF Subscriptions, Gifts
      <3> QED
        BY <2>2, <2>6, <2>7, <2>8, <3>1 DEF Rotates
    <2> QED
      BY <1>1, <2>4, <2>5, <2>10, <2>11, <2>12, LineStep
  <1> QED
    BY <1>2, <1>3

\* A line keeps the invariant.
LEMMA HandleStep ==
  ASSUME Inv, NEW m \in Lines, Handle(m)
  PROVE  Inv'
PROOF
  <1>1. CASE m.command = "PRIVMSG" /\ HandlePrivmsg(m)
    BY <1>1, PrivmsgStep
  <1>2. CASE m.command = "USERNOTICE" /\ HandleUsernotice(m)
    BY <1>2, UsernoticeStep
  <1>3. CASE /\ m.command \notin {"PRIVMSG", "USERNOTICE"}
             /\ Handled(m, << >>)
             /\ UNCHANGED <<now, session, engine>>
    <2>1. PICK e : e = Entry(m, << >>)
      OBVIOUS
    <2>2. handled' = Append(handled, e)
      BY <1>3, <2>1 DEF Handled, Entry
    <2>3. UNCHANGED <<now, session, rule_last_sent, hype_last_sent,
                      subscription_index, gift_index>>
      BY <1>3 DEF engine
    <2>4. AnswersRules(m, e) /\ AnswersNotice(m, e) /\ Rotates(m, e)
      BY <1>3, <2>1, <2>3, Ignored
    <2> QED
      BY <2>1, <2>2, <2>3, <2>4, LineStep
  <1> QED
    BY <1>1, <1>2, <1>3 DEF Handle

\* The rotation of either list begins with its first message.
LEMMA EmptyRotation ==
  Hype.enabled => /\ 0 % Len(Hype.subscription_messages) = 0
                  /\ 0 % Len(Hype.gift_messages) = 0
PROOF
  <1>1. SUFFICES ASSUME Hype.enabled
                 PROVE  /\ 0 % Len(Hype.subscription_messages) = 0
                        /\ 0 % Len(Hype.gift_messages) = 0
    OBVIOUS
  <1>2. /\ Len(Hype.subscription_messages) \in Nat \ {0}
        /\ Len(Hype.gift_messages) \in Nat \ {0}
    BY <1>1, SettingsAssumption, EmptySeq DEF Usable, IsList
  <1>3. \A L \in Nat \ {0} : 0 % L = 0
    <2>1. \A L \in Nat \ {0} : 0 = L * 0 + 0 /\ 0 \in 0..(L - 1)
      OBVIOUS
    <2> QED
      BY <2>1, ModUnique
  <1> QED
    BY <1>2, <1>3

\* A new session keeps it.
LEMMA NewSessionStep ==
  ASSUME Inv, NewSession
  PROVE  Inv'
PROOF
  <1>1. /\ session' = session + 1 /\ rule_last_sent' = NothingSent
        /\ hype_last_sent' = None /\ subscription_index' = 0
        /\ gift_index' = 0 /\ now' = now /\ handled' = handled
    BY DEF NewSession
  <1>2. /\ now \in Nat /\ session \in Nat /\ IsList(handled)
        /\ Timed(handled, session, now)
        /\ \A n \in DOMAIN handled : AllRight(handled, n)
    BY DEF Inv
  <1>3. Timed(handled, session + 1, now)
    BY <1>2 DEF Timed
  <1>4. \A cause : Remembers(handled, session + 1, cause, None)
    BY <1>2, RemembersNothing
  <1>5. \A events : Taken(handled, session + 1, events) = 0
    BY <1>2, TakenNothing
  <1>6. Hype.enabled => /\ 0 % Len(Hype.subscription_messages) = 0
                        /\ 0 % Len(Hype.gift_messages) = 0
    BY EmptyRotation
  <1>7. /\ NothingSent \in [DOMAIN Rules -> Nat \cup {None}]
        /\ \A i \in DOMAIN Rules : NothingSent[i] = None
    BY DEF NothingSent
  <1>8. /\ now' \in Nat /\ session' \in Nat
        /\ rule_last_sent' \in [DOMAIN Rules -> Nat \cup {None}]
        /\ hype_last_sent' \in Nat \cup {None}
        /\ IsList(handled')
        /\ Timed(handled', session', now')
    BY <1>1, <1>2, <1>3, <1>7
  <1>9. /\ \A i \in DOMAIN Rules :
             Remembers(handled', session', i, rule_last_sent'[i])
        /\ Remembers(handled', session', Notice, hype_last_sent')
    BY <1>1, <1>4, <1>7
  <1>10. Hype.enabled =>
           /\ subscription_index' = Taken(handled', session', Subscriptions)
                                      % Len(Hype.subscription_messages)
           /\ gift_index' = Taken(handled', session', Gifts)
                              % Len(Hype.gift_messages)
    BY <1>1, <1>5, <1>6
  <1> QED
    BY <1>1, <1>2, <1>8, <1>9, <1>10 DEF Inv

\* Time keeps it.
LEMMA TickStep ==
  ASSUME Inv, Tick
  PROVE  Inv'
PROOF
  <1>1. /\ now' = now + 1
        /\ UNCHANGED <<session, rule_last_sent, hype_last_sent,
                       subscription_index, gift_index, handled>>
    BY DEF Tick, engine
  <1>2. now \in Nat /\ Timed(handled, session, now)
    BY DEF Inv
  <1>3. Timed(handled, session, now + 1)
    BY <1>2 DEF Timed
  <1> QED
    BY <1>1, <1>2, <1>3 DEF Inv

\* It holds at first.
LEMMA InitInv == Init => Inv
PROOF
  <1>1. SUFFICES ASSUME Init PROVE Inv
    OBVIOUS
  <1>2. /\ now = 0 /\ session = 1 /\ rule_last_sent = NothingSent
        /\ hype_last_sent = None /\ subscription_index = 0 /\ gift_index = 0
        /\ handled = << >>
    BY <1>1 DEF Init
  <1>3. IsList(handled) /\ DOMAIN handled = {}
    <2>1. handled \in Seq({}) /\ Len(handled) = 0
      BY <1>2, EmptySeq
    <2>2. IsList(handled) /\ DOMAIN handled = 1..Len(handled)
      BY <2>1, ListOf
    <2> QED
      BY <2>1, <2>2
  <1>4. Timed(handled, 1, 0) /\ \A cause : Remembers(handled, 1, cause, None)
    BY <1>3 DEF Timed, Remembers
  <1>5. \A events : Taken(handled, 1, events) = 0
    <2>1. Timed(handled, 0, 0) /\ 0 + 1 = 1
      BY <1>3 DEF Timed
    <2> QED
      BY <2>1, TakenNothing
  <1>6. Hype.enabled => /\ 0 % Len(Hype.subscription_messages) = 0
                        /\ 0 % Len(Hype.gift_messages) = 0
    BY EmptyRotation
  <1>7. /\ NothingSent \in [DOMAIN Rules -> Nat \cup {None}]
        /\ \A i \in DOMAIN Rules : NothingSent[i] = None
    BY DEF NothingSent
  <1> QED
    BY <1>2, <1>3, <1>4, <1>5, <1>6, <1>7 DEF Inv

\* It is an invariant.
THEOREM SpecInv == Spec => []Inv
PROOF
  <1>1. Inv /\ [Next]_vars => Inv'
    <2>1. SUFFICES ASSUME Inv, [Next]_vars PROVE Inv'
      OBVIOUS
    <2>2. ASSUME NEW m \in Lines, Handle(m) PROVE Inv'
      BY <2>1, <2>2, HandleStep
    <2>3. CASE NewSession
      BY <2>1, <2>3, NewSessionStep
    <2>4. CASE Tick
      BY <2>1, <2>4, TickStep
    <2>5. CASE UNCHANGED vars
      BY <2>1, <2>5 DEF vars, engine, Inv, Cooling
    <2> QED
      BY <2>1, <2>2, <2>3, <2>4, <2>5 DEF Next
  <1> QED
    BY <1>1, InitInv, PTL DEF Spec

\* The properties of the entries are those of the module.
LEMMA RightMeaning ==
  ASSUME NEW n \in DOMAIN handled
  PROVE  /\ \A cause : AnsweredFor(n, cause) <=> Gives(handled[n], cause)
         /\ \A cause, cooldown : Recently(n, cause, cooldown)
                                   <=> RecentlyIn(handled, n, cause, cooldown)
         /\ \A events : Turn(n, events) = TurnIn(handled, n, events)
PROOF
  BY DEF AnsweredFor, Gives, Recently, RecentlyIn, Turn, TurnIn

\* A chat line is answered by exactly the rules that match it and have not
\* answered within their cooldown in this session (handle_privmsg).
THEOREM RulesAreExact == Spec => []RulesExact
PROOF
  <1>1. ASSUME Inv PROVE RulesExact
    <2>1. \A n \in DOMAIN handled : RulesRight(handled, n)
      BY <1>1 DEF Inv, AllRight
    <2> QED
      BY <2>1, RightMeaning DEF RulesExact, RulesRight
  <1> QED
    BY <1>1, SpecInv, PTL

\* A notice is answered exactly when none was within the cooldown in this
\* session, whatever came in between (handle_usernotice).
THEOREM HypeIsExact == Spec => []HypeExact
PROOF
  <1>1. ASSUME Inv PROVE HypeExact
    <2>1. \A n \in DOMAIN handled : HypeRight(handled, n)
      BY <1>1 DEF Inv, AllRight
    <2> QED
      BY <2>1, RightMeaning DEF HypeExact, HypeRight
  <1> QED
    BY <1>1, SpecInv, PTL

\* The k-th subscription answered in a session gets the k-th message of its
\* list, round and round, and so do the gifts (handle_usernotice).
THEOREM ListsRotate == Spec => []RotatesIndependently
PROOF
  <1>1. ASSUME Inv PROVE RotatesIndependently
    <2>1. \A n \in DOMAIN handled : TurnRight(handled, n)
      BY <1>1 DEF Inv, AllRight
    <2> QED
      BY <2>1, RightMeaning DEF RotatesIndependently, TurnRight
  <1> QED
    BY <1>1, SpecInv, PTL
=============================================================================
