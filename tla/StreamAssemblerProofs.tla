------------------------ MODULE StreamAssemblerProofs ------------------------
(***************************************************************************)
(* What push makes of the stream does not depend on how TCP cuts it: the   *)
(* loop of push is shown, round by round, to take from the buffer the next *)
(* line of the whole stream, which the reference finds by counting         *)
(* delimiters.                                                             *)
(***************************************************************************)
EXTENDS StreamAssembler, Foundations

\* The positions up to p.
Below(positions, p) == {q \in positions : q <= p}

\* std::string::find finds the first.
LEMMA FirstMeaning ==
  ASSUME NEW S \in SUBSET Nat, S # {}
  PROVE  /\ First(S) \in S
         /\ \A q \in S : First(S) <= q
PROOF
  <1>1. \E p \in S : \A q \in S : p <= q
    BY LeastNumber
  <1> QED
    BY <1>1 DEF First

\* The one position of a set of one.
LEMMA FirstOnly ==
  ASSUME NEW p \in Nat, NEW S, S = {p}
  PROVE  First(S) = p
PROOF
  <1>1. S \in SUBSET Nat /\ S # {}
    OBVIOUS
  <1> QED
    BY <1>1, FirstMeaning

\* A set of positions in a text is finite, and so is every part of it.
LEMMA PositionsFinite ==
  ASSUME NEW m \in Nat, NEW S \in SUBSET (1..m)
  PROVE  IsFiniteSet(S) /\ Cardinality(S) \in Nat
PROOF
  <1>1. IsFiniteSet(1..m)
    BY FS_Interval
  <1>2. IsFiniteSet(S)
    BY <1>1, FS_Subset
  <1> QED
    BY <1>2, FS_CardinalityType

\* There is an n-th position for every n up to their number.
LEMMA NthExists ==
  ASSUME NEW m \in Nat, NEW S \in SUBSET (1..m)
  PROVE  \A n \in 1..Cardinality(S) :
           \E p \in S : Cardinality(Below(S, p)) = n
PROOF
  <1> DEFINE Found(j) == \A n \in 1..Cardinality(Below(S, j)) :
                           \E p \in S : Cardinality(Below(S, p)) = n
             T == {j \in 0..m : Found(j)}
  <1>0. \A q \in S : q \in 1..m
    OBVIOUS
  <1>1. ASSUME NEW j
        PROVE  /\ Below(S, j) \in SUBSET (1..m)
               /\ IsFiniteSet(Below(S, j)) /\ Cardinality(Below(S, j)) \in Nat
    <2>1. Below(S, j) \in SUBSET (1..m)
      BY DEF Below
    <2> QED
      BY <2>1, PositionsFinite
  <1>2. 0 \in T
    <2>0. \A q \in S : ~ (q <= 0)
      BY <1>0
    <2>1. Below(S, 0) = {}
      BY <2>0 DEF Below
    <2>2. Cardinality(Below(S, 0)) = 0
      BY <2>1, FS_EmptySet
    <2> QED
      BY <2>2
  <1>3. ASSUME NEW j \in 1..m, j - 1 \in T
        PROVE  j \in T
    <2>1. CASE j \notin S
      <3>1. \A q \in S : q <= j <=> q <= j - 1
        BY <1>0, <2>1
      <3>2. Below(S, j) = Below(S, j - 1)
        BY <3>1 DEF Below
      <3> QED
        BY <1>3, <3>2
    <2>2. CASE j \in S
      <3>0. \A q \in S : q <= j <=> q <= j - 1 \/ q = j
        BY <1>0
      <3>1. Below(S, j) = Below(S, j - 1) \cup {j} /\ j \notin Below(S, j - 1)
        <4>1. \A q : q \in Below(S, j)
                       <=> q \in Below(S, j - 1) \cup {j}
          BY <2>2, <3>0 DEF Below
        <4>2. ~ (j <= j - 1)
          OBVIOUS
        <4>3. j \notin Below(S, j - 1)
          BY <4>2 DEF Below
        <4> QED
          BY <4>1, <4>3
      <3>2. Cardinality(Below(S, j)) = Cardinality(Below(S, j - 1)) + 1
        BY <1>1, <3>1, FS_AddElement
      <3> QED
        BY <1>1, <1>3, <2>2, <3>2
    <2> QED
      BY <2>1, <2>2
  <1>4. \A j \in 0..m : j \in T
    <2> HIDE DEF T
    <2> QED
      BY <1>2, <1>3, UpTo
  <1>5. Below(S, m) = S
    <2>1. \A q \in S : q <= m
      BY <1>0
    <2> QED
      BY <2>1 DEF Below
  <1>6. Found(m)
    BY <1>4
  <1> QED
    BY <1>5, <1>6

\* What Nth returns.
LEMMA NthMeaning ==
  ASSUME NEW m \in Nat, NEW S \in SUBSET (1..m), NEW n \in 1..Cardinality(S)
  PROVE  /\ Nth(S, n) \in S
         /\ Cardinality(Below(S, Nth(S, n))) = n
PROOF
  <1> DEFINE P == {p \in S : Cardinality({q \in S : q <= p}) = n}
  <1>1. P \in SUBSET Nat
    <2>1. \A q \in S : q \in Nat
      OBVIOUS
    <2>2. P \subseteq S
      OBVIOUS
    <2> HIDE DEF P
    <2> QED
      BY <2>1, <2>2
  <1>2. P # {}
    <2>1. PICK p \in S : Cardinality(Below(S, p)) = n
      BY NthExists
    <2>2. p \in P
      BY <2>1 DEF Below
    <2> QED
      BY <2>2
  <1>3. First(P) \in P
    BY <1>1, <1>2, FirstMeaning
  <1> QED
    BY <1>3 DEF Nth, Below

\* Later positions do not change the n-th.
LEMMA NthInitial ==
  ASSUME NEW m \in Nat, NEW T \in SUBSET (1..m), NEW S \in SUBSET T,
         \A p \in T \ S : \A q \in S : q < p,
         NEW n \in 1..Cardinality(S)
  PROVE  Nth(T, n) = Nth(S, n)
PROOF
  <1>1. IsFiniteSet(S) /\ Cardinality(S) \in Nat /\ S \in SUBSET (1..m)
    BY PositionsFinite
  <1>0. \A q \in T : q \in 1..m
    OBVIOUS
  <1>2. ASSUME NEW p \in S
        PROVE  {q \in T : q <= p} = {q \in S : q <= p}
    <2>1. \A q \in T : q <= p => q \in S
      BY <1>0
    <2> QED
      BY <2>1
  <1>3. ASSUME NEW p \in T \ S
        PROVE  Cardinality({q \in T : q <= p}) # n
    <2> DEFINE U == {q \in T : q <= p}
    <2>1. S \cup {p} \subseteq U
      BY <1>0
    <2>2. IsFiniteSet(U) /\ Cardinality(U) \in Nat
      <3>1. U \in SUBSET (1..m)
        OBVIOUS
      <3> HIDE DEF U
      <3> QED
        BY <3>1, PositionsFinite
    <2>3. Cardinality(S \cup {p}) = Cardinality(S) + 1
      BY <1>1, FS_AddElement
    <2>4. Cardinality(S \cup {p}) <= Cardinality(U)
      BY <2>1, <2>2, FS_Subset
    <2> HIDE DEF U
    <2>5. Cardinality(U) # n
      BY <1>1, <2>2, <2>3, <2>4
    <2> QED
      BY <2>5 DEF U
  <1>4. {p \in T : Cardinality({q \in T : q <= p}) = n}
          = {p \in S : Cardinality({q \in S : q <= p}) = n}
    BY <1>2, <1>3
  <1> QED
    BY <1>4 DEF Nth

\* The greatest position is the last.
LEMMA NthLast ==
  ASSUME NEW m \in Nat, NEW S \in SUBSET (1..m), NEW p \in S,
         \A q \in S : q <= p
  PROVE  Nth(S, Cardinality(S)) = p
PROOF
  <1>1. IsFiniteSet(S) /\ Cardinality(S) \in Nat
    BY PositionsFinite
  <1>2. {q \in S : q <= p} = S
    OBVIOUS
  <1>3. ASSUME NEW r \in S, r # p
        PROVE  Cardinality({q \in S : q <= r}) # Cardinality(S)
    <2> DEFINE U == {q \in S : q <= r}
    <2>0. \A q \in S : q \in 1..m
      OBVIOUS
    <2>1. U \subseteq S /\ U # S
      <3>1. ~ (p <= r)
        BY <1>3, <2>0
      <3> QED
        BY <3>1
    <2> HIDE DEF U
    <2>2. Cardinality(U) # Cardinality(S)
      BY <1>1, <2>1, FS_Subset
    <2> QED
      BY <2>2 DEF U
  <1>4. {r \in S : Cardinality({q \in S : q <= r}) = Cardinality(S)} = {p}
    BY <1>2, <1>3
  <1>5. p \in Nat
    OBVIOUS
  <1> QED
    BY <1>4, <1>5, FirstOnly DEF Nth

-----------------------------------------------------------------------------
\* Where a CR LF begins, byte by byte.
LEMMA DelimitersMeaning ==
  ASSUME NEW s \in Seq(Byte)
  PROVE  /\ Delimiters(s) \in SUBSET (1..Len(s))
         /\ \A p \in Int : p \in Delimiters(s)
              <=> /\ 1 <= p /\ p < Len(s)
                  /\ s[p] = "CR" /\ s[p + 1] = "LF"
PROOF
  <1>1. Len(s) \in Nat
    OBVIOUS
  <1> QED
    BY <1>1 DEF Delimiters

\* A part of a text, byte by byte.
LEMMA PartOf ==
  ASSUME NEW s \in Seq(Byte), NEW a \in 1..(Len(s) + 1),
         NEW b \in (a - 1)..Len(s)
  PROVE  /\ SubSeq(s, a, b) \in Seq(Byte)
         /\ Len(SubSeq(s, a, b)) = b - a + 1
         /\ \A i \in 1..(b - a + 1) : SubSeq(s, a, b)[i] = s[a + i - 1]
PROOF
  <1>1. a \in Int /\ b \in Int /\ \A i \in a..b : s[i] \in Byte
    OBVIOUS
  <1>2. /\ SubSeq(s, a, b) \in Seq(Byte)
        /\ Len(SubSeq(s, a, b)) = IF a <= b THEN b - a + 1 ELSE 0
        /\ \A i \in 1..(b - a + 1) : SubSeq(s, a, b)[i] = s[a + i - 1]
    BY <1>1, SubSeqProperties
  <1>3. (IF a <= b THEN b - a + 1 ELSE 0) = b - a + 1
    OBVIOUS
  <1> QED
    BY <1>2, <1>3

\* A part of a part is a part.
LEMMA PartOfPart ==
  ASSUME NEW s \in Seq(Byte), NEW a \in 1..(Len(s) + 1),
         NEW b \in (a - 1)..Len(s),
         NEW i \in 1..(b - a + 2), NEW j \in (i - 1)..(b - a + 1),
         NEW x, x = a + i - 1, NEW y, y = a + j - 1
  PROVE  SubSeq(SubSeq(s, a, b), i, j) = SubSeq(s, x, y)
PROOF
  <1>1. PICK v : v = SubSeq(s, a, b)
    OBVIOUS
  <1>2. v \in Seq(Byte) /\ Len(v) = b - a + 1
    BY <1>1, PartOf
  <1>3. \A k \in 1..(b - a + 1) : v[k] = s[a + k - 1]
    BY <1>1, PartOf
  <1>4. /\ SubSeq(v, i, j) \in Seq(Byte) /\ Len(SubSeq(v, i, j)) = j - i + 1
        /\ \A k \in 1..(j - i + 1) : SubSeq(v, i, j)[k] = v[i + k - 1]
    BY <1>2, PartOf
  <1>7. x \in 1..(Len(s) + 1) /\ y \in (x - 1)..Len(s) /\ y - x + 1 = j - i + 1
    OBVIOUS
  <1>8. /\ SubSeq(s, x, y) \in Seq(Byte) /\ Len(SubSeq(s, x, y)) = j - i + 1
        /\ \A k \in 1..(j - i + 1) : SubSeq(s, x, y)[k] = s[x + k - 1]
    BY <1>7, PartOf
  <1>9. ASSUME NEW k \in 1..(j - i + 1)
        PROVE  SubSeq(v, i, j)[k] = SubSeq(s, x, y)[k]
    <2>1. i + k - 1 \in 1..(b - a + 1) /\ a + (i + k - 1) - 1 = x + k - 1
      OBVIOUS
    <2> QED
      BY <1>3, <1>4, <1>8, <2>1
  <1>10. SubSeq(v, i, j) = SubSeq(s, x, y)
    <2>1. PICK f : f = SubSeq(v, i, j)
      OBVIOUS
    <2>2. PICK h : h = SubSeq(s, x, y)
      OBVIOUS
    <2>3. /\ f \in Seq(Byte) /\ h \in Seq(Byte) /\ Len(f) = Len(h)
          /\ \A k \in 1..Len(f) : f[k] = h[k]
      BY <1>4, <1>8, <1>9, <2>1, <2>2
    <2> QED
      BY <2>1, <2>2, <2>3, SeqEqual
  <1> QED
    BY <1>1, <1>10

\* A part of the first d bytes.
LEMMA PartOfPrefix ==
  ASSUME NEW s \in Seq(Byte), NEW d \in 0..Len(s),
         NEW i \in 1..(d + 1), NEW j \in (i - 1)..d
  PROVE  SubSeq(SubSeq(s, 1, d), i, j) = SubSeq(s, i, j)
PROOF
  <1>1. Len(s) \in Nat /\ d \in Nat /\ i \in Nat /\ j \in Nat
    OBVIOUS
  <1>2. /\ 1 \in 1..(Len(s) + 1) /\ d \in (1 - 1)..Len(s)
        /\ i \in 1..(d - 1 + 2) /\ j \in (i - 1)..(d - 1 + 1)
    BY <1>1
  <1>3. i = 1 + i - 1 /\ j = 1 + j - 1
    BY <1>1
  <1> QED
    BY <1>2, <1>3, PartOfPart

\* A part of what follows the first c bytes.
LEMMA PartOfSuffix ==
  ASSUME NEW s \in Seq(Byte), NEW c \in 0..Len(s),
         NEW i \in 1..(Len(s) - c + 1), NEW j \in (i - 1)..(Len(s) - c),
         NEW x, x = c + i, NEW y, y = c + j
  PROVE  SubSeq(SubSeq(s, c + 1, Len(s)), i, j) = SubSeq(s, x, y)
PROOF
  <1>1. PICK a : a = c + 1
    OBVIOUS
  <1>2. PICK e : e = Len(s)
    OBVIOUS
  <1>3. /\ e \in Nat /\ c \in Nat /\ i \in Nat /\ j \in Nat /\ c <= e
        /\ 1 <= i /\ i <= e - c + 1 /\ i - 1 <= j /\ j <= e - c
    BY <1>2
  <1>4. /\ a \in 1..(e + 1) /\ e \in (a - 1)..e
        /\ i \in 1..(e - a + 2) /\ j \in (i - 1)..(e - a + 1)
    BY <1>1, <1>3
  <1>5. x = a + i - 1 /\ y = a + j - 1
    BY <1>1, <1>3
  <1>6. SubSeq(SubSeq(s, a, e), i, j) = SubSeq(s, x, y)
    <2>1. a \in 1..(Len(s) + 1) /\ e \in (a - 1)..Len(s)
      BY <1>2, <1>4, Zenon
    <2> QED
      BY <1>4, <1>5, <2>1, PartOfPart
  <1> QED
    BY <1>1, <1>2, <1>6, Zenon

\* The delimiters in the first c bytes are those that begin before the c-th.
LEMMA PrefixDelimiters ==
  ASSUME NEW s \in Seq(Byte), NEW c \in 0..Len(s)
  PROVE  Delimiters(SubSeq(s, 1, c)) = {p \in Delimiters(s) : p < c}
PROOF
  <1>1. PICK u : u = SubSeq(s, 1, c)
    OBVIOUS
  <1>2. /\ u \in Seq(Byte) /\ Len(u) = c
        /\ \A i \in 1..c : u[i] = s[i]
    BY <1>1, PartOf
  <1>3. \A p \in Int : p \in Delimiters(u)
                         <=> p \in Delimiters(s) /\ p < c
    BY <1>2, DelimitersMeaning
  <1>4. Delimiters(u) \subseteq Int /\ Delimiters(s) \subseteq Int
    BY <1>2, DelimitersMeaning
  <1> QED
    BY <1>1, <1>3, <1>4

\* The delimiters after the first c bytes.
LEMMA SuffixDelimiters ==
  ASSUME NEW s \in Seq(Byte), NEW c \in 0..Len(s), NEW p \in Int
  PROVE  p \in Delimiters(SubSeq(s, c + 1, Len(s)))
           <=> p >= 1 /\ c + p \in Delimiters(s)
PROOF
  <1>1. PICK v : v = SubSeq(s, c + 1, Len(s))
    OBVIOUS
  <1>2. /\ v \in Seq(Byte) /\ Len(v) = Len(s) - c
        /\ \A i \in 1..(Len(s) - c) : v[i] = s[c + i]
    BY <1>1, PartOf
  <1>3. p \in Delimiters(v) <=> /\ 1 <= p /\ p < Len(v)
                                /\ v[p] = "CR" /\ v[p + 1] = "LF"
    BY <1>2, DelimitersMeaning
  <1>4. c + p \in Delimiters(s) <=> /\ 1 <= c + p /\ c + p < Len(s)
                                    /\ s[c + p] = "CR" /\ s[c + p + 1] = "LF"
    BY DelimitersMeaning
  <1>5. CASE 1 <= p /\ p < Len(v)
    <2>1. v[p] = s[c + p] /\ v[p + 1] = s[c + p + 1]
      <3>1. p \in 1..(Len(s) - c) /\ p + 1 \in 1..(Len(s) - c)
            /\ c + (p + 1) = c + p + 1
        BY <1>2, <1>5
      <3> QED
        BY <1>2, <3>1
    <2> QED
      BY <1>1, <1>2, <1>3, <1>4, <1>5, <2>1
  <1>6. CASE ~ (1 <= p /\ p < Len(v))
    BY <1>1, <1>2, <1>3, <1>4, <1>6
  <1> QED
    BY <1>5, <1>6

\* The n-th line begins in the text or at its end.
LEMMA StartType ==
  ASSUME NEW s \in Seq(Byte), NEW n \in 1..(Cardinality(Delimiters(s)) + 1)
  PROVE  Start(s, n) \in 1..(Len(s) + 1)
PROOF
  <1>1. CASE n = 1
    BY <1>1 DEF Start
  <1>2. CASE n # 1
    <2>0. Len(s) \in Nat /\ Delimiters(s) \in SUBSET (1..Len(s))
      BY DelimitersMeaning
    <2>1. Cardinality(Delimiters(s)) \in Nat
      BY <2>0, PositionsFinite
    <2>2. n - 1 \in 1..Cardinality(Delimiters(s))
      BY <1>2, <2>1
    <2>3. PICK p : p = Nth(Delimiters(s), n - 1)
      OBVIOUS
    <2>4. p \in Delimiters(s)
      BY <2>0, <2>2, <2>3, NthMeaning
    <2>5. p \in 1..Len(s) /\ p < Len(s)
      BY <2>0, <2>4, DelimitersMeaning
    <2>6. Start(s, n) = p + 2
      BY <1>2, <2>3 DEF Start
    <2> QED
      BY <2>5, <2>6
  <1> QED
    BY <1>1, <1>2

-----------------------------------------------------------------------------
\* A place in the stream that is not inside a line: its beginning, or the end
\* of a delimiter.
Cursor(s, c) == c \in 0..Len(s) /\ (c = 0 \/ c - 1 \in Delimiters(s))

\* The k lines of the text u are the first lines of s, and the next one begins
\* after c bytes.
Leads(u, k, s, c) ==
  /\ k \in 0..Cardinality(Delimiters(s))
  /\ Start(s, k + 1) = c + 1
  /\ \A n \in 1..k : Split(s)[n] = Split(u)[n]

\* The lines up to such a place are the first lines of the stream, and the
\* next one begins there.
LEMMA PrefixSplit ==
  ASSUME NEW s \in Seq(Byte), NEW c, Cursor(s, c),
         NEW u, u = SubSeq(s, 1, c),
         NEW k, k = Cardinality(Delimiters(u))
  PROVE  Leads(u, k, s, c)
PROOF
  <1>1. c \in 0..Len(s) /\ Len(s) \in Nat
    BY DEF Cursor
  <1>2. u \in Seq(Byte) /\ Len(u) = c
    BY <1>1, PartOf
  <1>3. PICK S : S = Delimiters(u)
    OBVIOUS
  <1>4. PICK T : T = Delimiters(s)
    OBVIOUS
  <1>5. T \in SUBSET (1..Len(s)) /\ S = {p \in T : p < c}
    BY <1>1, <1>3, <1>4, DelimitersMeaning, PrefixDelimiters
  <1>6. /\ IsFiniteSet(T) /\ Cardinality(T) \in Nat
    BY <1>1, <1>5, PositionsFinite
  <1>7. /\ S \in SUBSET T /\ S \in SUBSET (1..Len(s))
        /\ \A p \in T \ S : \A q \in S : q < p
    <2>1. \A p \in T : p \in Nat
      BY <1>5
    <2>2. \A p, q \in T : q < c /\ ~ (p < c) => q < p
      BY <1>1, <2>1
    <2> QED
      BY <1>5, <2>2
  <1>8. /\ k \in Nat /\ k <= Cardinality(T)
    BY <1>3, <1>6, <1>7, FS_Subset, FS_CardinalityType
  <1>9. ASSUME NEW n \in 1..k
        PROVE  Nth(T, n) = Nth(S, n)
    <2>1. n \in 1..Cardinality(S)
      BY <1>3
    <2>2. /\ Len(s) \in Nat /\ T \in SUBSET (1..Len(s)) /\ S \in SUBSET T
          /\ \A p \in T \ S : \A q \in S : q < p
      BY <1>1, <1>5, <1>7, Zenon
    <2> QED
      BY <2>1, <2>2, NthInitial
  <1>10. ASSUME NEW n \in 1..(k + 1)
         PROVE  Start(s, n) = Start(u, n)
    <2>1. CASE n = 1
      BY <2>1 DEF Start
    <2>2. CASE n # 1
      <3>1. n - 1 \in 1..k
        BY <1>8, <2>2
      <3>2. Nth(T, n - 1) = Nth(S, n - 1)
        BY <1>9, <3>1
      <3> QED
        BY <1>3, <1>4, <2>2, <3>2 DEF Start
    <2> QED
      BY <2>1, <2>2
  <1>11. Start(s, k + 1) = c + 1
    <2>1. CASE c = 0
      <3>1. \A p \in T : ~ (p < 0)
        BY <1>5
      <3>2. S = {}
        BY <1>5, <2>1, <3>1
      <3>3. k = 0
        BY <1>3, <3>2, FS_EmptySet
      <3> QED
        BY <2>1, <3>3 DEF Start
    <2>2. CASE c # 0
      <3>1. c - 1 \in S
        BY <1>1, <1>4, <1>5, <2>2 DEF Cursor
      <3>2. \A q \in S : q <= c - 1
        <4>1. \A q \in S : q \in 1..Len(s) /\ q < c
          BY <1>5, <1>7
        <4> QED
          BY <1>1, <4>1
      <3>3. k # 0
        <4>1. IsFiniteSet(S)
          BY <1>6, <1>7, FS_Subset
        <4>2. Cardinality(S) # 0
          BY <3>1, <4>1, FS_EmptySet
        <4> QED
          BY <1>3, <4>2
      <3>4. Nth(S, Cardinality(S)) = c - 1
        BY <1>1, <1>7, <3>1, <3>2, NthLast
      <3>5. Nth(T, k) = c - 1
        BY <1>3, <1>8, <1>9, <3>3, <3>4
      <3>6. Start(s, k + 1) = Nth(T, k) + 2
        BY <1>4, <1>8, <3>3 DEF Start
      <3> QED
        BY <1>1, <1>8, <3>3, <3>5, <3>6
    <2> QED
      BY <2>1, <2>2
  <1>12. ASSUME NEW n \in 1..k
         PROVE  Split(s)[n] = Split(u)[n]
    <2>1. PICK a : a = Start(u, n)
      OBVIOUS
    <2>2. PICK b : b = Nth(S, n)
      OBVIOUS
    <2>3. a \in 1..(c + 1)
      <3>1. n \in 1..(Cardinality(Delimiters(u)) + 1)
        BY <1>8
      <3>2. Start(u, n) \in 1..(Len(u) + 1)
        BY <1>2, <3>1, StartType
      <3> QED
        BY <1>2, <2>1, <3>2
    <2>4. b \in S
      <3>1. n \in 1..Cardinality(S)
        BY <1>3
      <3> QED
        BY <1>1, <1>7, <2>2, <3>1, NthMeaning
    <2>5. b \in 1..Len(s) /\ b < c
      BY <1>5, <1>7, <2>4
    <2>6. n \in 1..Cardinality(T)
      BY <1>6, <1>8
    <2>7. Split(s)[n] = SubSeq(s, a, b - 1)
      <3>1. n \in 1..(k + 1)
        BY <1>8
      <3>2. Start(s, n) = a /\ Nth(T, n) = b
        BY <1>9, <1>10, <2>1, <2>2, <3>1
      <3>3. Split(s)[n] = SubSeq(s, Start(s, n), Nth(T, n) - 1)
        BY <1>4, <2>6 DEF Split
      <3> QED
        BY <3>2, <3>3
    <2>8. Split(u)[n] = SubSeq(u, a, b - 1)
      BY <1>3, <2>1, <2>2 DEF Split
    <2>9. SubSeq(u, a, b - 1) = SubSeq(s, a, b - 1)
      <3>1. CASE a <= b
        <4>1. c \in 0..Len(s) /\ a \in 1..(c + 1) /\ b - 1 \in (a - 1)..c
          BY <1>1, <2>3, <2>5, <3>1
        <4> QED
          BY <4>1, PartOfPrefix
      <3>2. CASE ~ (a <= b)
        <4>1. a \in Int /\ b - 1 \in Int /\ b - 1 < a
          BY <2>3, <2>5, <3>2
        <4> QED
          BY <4>1, SubSeqEmpty
      <3> QED
        BY <3>1, <3>2
    <2> QED
      BY <2>7, <2>8, <2>9
  <1> QED
    BY <1>4, <1>6, <1>8, <1>11, <1>12 DEF Leads

\* The lines of a text are texts, one for each delimiter.
LEMMA SplitType ==
  ASSUME NEW s \in Seq(Byte)
  PROVE  /\ Split(s) \in Seq(Seq(Byte))
         /\ Len(Split(s)) = Cardinality(Delimiters(s))
         /\ Cardinality(Delimiters(s)) \in Nat
PROOF
  <1>1. Len(s) \in Nat /\ Delimiters(s) \in SUBSET (1..Len(s))
    BY DelimitersMeaning
  <1>2. PICK k : k = Cardinality(Delimiters(s))
    OBVIOUS
  <1>3. k \in Nat
    BY <1>1, <1>2, PositionsFinite
  <1>4. ASSUME NEW n \in 1..k
        PROVE  SubSeq(s, Start(s, n), Nth(Delimiters(s), n) - 1) \in Seq(Byte)
    <2>1. PICK a : a = Start(s, n)
      OBVIOUS
    <2>2. PICK b : b = Nth(Delimiters(s), n)
      OBVIOUS
    <2>3. a \in 1..(Len(s) + 1)
      <3>1. n \in 1..(Cardinality(Delimiters(s)) + 1)
        BY <1>2, <1>3
      <3> QED
        BY <2>1, <3>1, StartType
    <2>4. b \in 1..Len(s)
      <3>1. b \in Delimiters(s)
        BY <1>1, <1>2, <2>2, NthMeaning
      <3> QED
        BY <1>1, <3>1
    <2>5. a \in Int /\ b - 1 \in Int /\ \A i \in a..(b - 1) : s[i] \in Byte
      BY <2>3, <2>4
    <2>6. SubSeq(s, a, b - 1) \in Seq(Byte)
      BY <2>5, SubSeqProperties
    <2> QED
      BY <2>1, <2>2, <2>6
  <1>5. Split(s) \in [1..k -> Seq(Byte)]
    BY <1>2, <1>4 DEF Split
  <1> QED
    BY <1>2, <1>3, <1>5

\* L is the lines up to some place between lines, b is what follows.
Framed(s, L, b) ==
  \E c \in 0..Len(s) : /\ Cursor(s, c)
                        /\ b = SubSeq(s, c + 1, Len(s))
                        /\ L = Split(SubSeq(s, 1, c))

\* The kinds of the two.
LEMMA FramedType ==
  ASSUME NEW s \in Seq(Byte), NEW L, NEW b, Framed(s, L, b)
  PROVE  L \in Seq(Seq(Byte)) /\ b \in Seq(Byte)
PROOF
  <1>1. PICK c : /\ Cursor(s, c)
                 /\ b = SubSeq(s, c + 1, Len(s))
                 /\ L = Split(SubSeq(s, 1, c))
    BY DEF Framed
  <1>2. c \in 0..Len(s) /\ Len(s) \in Nat
    BY <1>1 DEF Cursor
  <1>3. SubSeq(s, 1, c) \in Seq(Byte) /\ b \in Seq(Byte)
    BY <1>1, <1>2, PartOf
  <1> QED
    BY <1>1, <1>3, SplitType

\* Bytes that arrive leave the lines as they are.
LEMMA FramedGrows ==
  ASSUME NEW s \in Seq(Byte), NEW L, NEW b, Framed(s, L, b),
         NEW t \in Seq(Byte)
  PROVE  Framed(s \o t, L, b \o t)
PROOF
  <1>1. PICK c : /\ Cursor(s, c)
                 /\ b = SubSeq(s, c + 1, Len(s))
                 /\ L = Split(SubSeq(s, 1, c))
    BY DEF Framed
  <1>2. c \in 0..Len(s) /\ Len(s) \in Nat
    BY <1>1 DEF Cursor
  <1>3. PICK r : r = s \o t
    OBVIOUS
  <1>4. /\ r \in Seq(Byte) /\ Len(r) = Len(s) + Len(t) /\ Len(t) \in Nat
        /\ \A i \in 1..Len(s) + Len(t) :
             r[i] = IF i <= Len(s) THEN s[i] ELSE t[i - Len(s)]
    BY <1>3, ConcatProperties
  <1>5. Cursor(r, c)
    <2>1. c \in 0..Len(r)
      BY <1>2, <1>4
    <2>2. CASE c # 0
      <3>1. c - 1 \in Delimiters(s)
        BY <1>1, <2>2 DEF Cursor
      <3>2. PICK q : q = c - 1
        OBVIOUS
      <3>3. /\ q \in 1..Len(s) /\ q < Len(s) /\ s[q] = "CR" /\ s[q + 1] = "LF"
        BY <1>2, <3>1, <3>2, DelimitersMeaning
      <3>4. r[q] = s[q] /\ r[q + 1] = s[q + 1]
        BY <1>4, <3>3
      <3>5. q \in Delimiters(r)
        <4>1. q \in Int /\ 1 <= q /\ q < Len(r)
          BY <1>4, <3>3
        <4>2. r[q] = "CR" /\ r[q + 1] = "LF"
          BY <3>3, <3>4
        <4> QED
          BY <1>4, <4>1, <4>2, DelimitersMeaning
      <3> QED
        BY <2>1, <3>2, <3>5 DEF Cursor
    <2> QED
      BY <2>1, <2>2 DEF Cursor
  <1>6. SubSeq(r, 1, c) = SubSeq(s, 1, c)
    <2>1. /\ SubSeq(s, 1, c) \in Seq(Byte) /\ Len(SubSeq(s, 1, c)) = c
          /\ \A i \in 1..c : SubSeq(s, 1, c)[i] = s[i]
      BY <1>2, PartOf
    <2>2. /\ SubSeq(r, 1, c) \in Seq(Byte) /\ Len(SubSeq(r, 1, c)) = c
          /\ \A i \in 1..c : SubSeq(r, 1, c)[i] = r[i]
      BY <1>2, <1>4, PartOf
    <2>3. \A i \in 1..c : r[i] = s[i]
      BY <1>2, <1>4
    <2> QED
      BY <2>1, <2>2, <2>3, SeqEqual
  <1>7. SubSeq(r, c + 1, Len(r)) = b \o t
    <2>1. PICK v : v = SubSeq(r, c + 1, Len(r))
      OBVIOUS
    <2>2. /\ v \in Seq(Byte) /\ Len(v) = Len(r) - c
          /\ \A i \in 1..(Len(r) - c) : v[i] = r[c + i]
      BY <1>2, <1>4, <2>1, PartOf
    <2>3. /\ b \in Seq(Byte) /\ Len(b) = Len(s) - c
          /\ \A i \in 1..(Len(s) - c) : b[i] = s[c + i]
      BY <1>1, <1>2, PartOf
    <2>4. PICK w : w = b \o t
      OBVIOUS
    <2>5. /\ w \in Seq(Byte) /\ Len(w) = Len(b) + Len(t)
          /\ \A i \in 1..Len(b) + Len(t) :
               w[i] = IF i <= Len(b) THEN b[i] ELSE t[i - Len(b)]
      BY <2>3, <2>4, ConcatProperties
    <2>6. Len(v) = Len(w)
      BY <1>2, <1>4, <2>2, <2>3, <2>5
    <2>7. ASSUME NEW i \in 1..Len(v)
          PROVE  v[i] = w[i]
      <3>1. v[i] = r[c + i] /\ c + i \in 1..Len(s) + Len(t)
        BY <1>2, <1>4, <2>2
      <3>2. CASE i <= Len(b)
        <4>1. i \in 1..(Len(s) - c) /\ c + i <= Len(s)
          BY <1>2, <2>3, <3>2
        <4>2. w[i] = b[i] /\ b[i] = s[c + i]
          BY <2>3, <2>5, <2>6, <3>2, <4>1
        <4> QED
          BY <1>4, <3>1, <4>1, <4>2
      <3>3. CASE ~ (i <= Len(b))
        <4>1. w[i] = t[i - Len(b)]
          BY <2>5, <2>6, <3>3
        <4>2. PICK j : j = c + i
          OBVIOUS
        <4>3. j \in 1..Len(s) + Len(t) /\ ~ (j <= Len(s))
              /\ j - Len(s) = i - Len(b)
          BY <1>2, <2>3, <3>1, <3>3, <4>2
        <4>4. r[j] = t[j - Len(s)]
          BY <1>4, <4>3
        <4> QED
          BY <3>1, <4>1, <4>2, <4>3, <4>4
      <3> QED
        BY <3>2, <3>3
    <2>8. v = w
      BY <2>2, <2>5, <2>6, <2>7, SeqEqual
    <2> QED
      BY <2>1, <2>4, <2>8
  <1>8. Framed(r, L, b \o t)
    BY <1>1, <1>5, <1>6, <1>7 DEF Framed, Cursor
  <1> QED
    BY <1>3, <1>8

\* When no delimiter is left the lines are all of them.
LEMMA LastLine ==
  ASSUME NEW s \in Seq(Byte), NEW L, NEW b, Framed(s, L, b),
         Delimiters(b) = {}
  PROVE  L = Split(s) /\ b = Remainder(s)
PROOF
  <1>1. PICK c : /\ Cursor(s, c)
                 /\ b = SubSeq(s, c + 1, Len(s))
                 /\ L = Split(SubSeq(s, 1, c))
    BY DEF Framed
  <1>2. c \in 0..Len(s) /\ Len(s) \in Nat
    BY <1>1 DEF Cursor
  <1>3. PICK u : u = SubSeq(s, 1, c)
    OBVIOUS
  <1>4. u \in Seq(Byte)
    BY <1>2, <1>3, PartOf
  <1>5. Delimiters(u) = Delimiters(s)
    <2>1. \A p \in Delimiters(s) : p < c
      <3>1. SUFFICES ASSUME NEW p \in Delimiters(s), ~ (p < c)
                     PROVE  FALSE
        OBVIOUS
      <3>2. /\ p \in Int /\ 1 <= p /\ s[p] = "CR"
        BY <1>2, DelimitersMeaning
      <3>3. CASE p = c
        <4>1. c - 1 \in Delimiters(s) /\ c - 1 \in Int /\ c - 1 + 1 = c
          BY <1>1, <1>2, <3>2, <3>3 DEF Cursor
        <4>2. s[c] = "LF"
          BY <4>1, DelimitersMeaning
        <4> QED
          BY <3>2, <3>3, <4>2
      <3>4. CASE p # c
        <4>1. p - c \in Int /\ p - c >= 1 /\ c + (p - c) = p
          BY <1>1, <1>2, <3>1, <3>2, <3>4
        <4>2. p - c \in Delimiters(b)
          BY <1>1, <1>2, <4>1, SuffixDelimiters
        <4> QED
          BY <4>2
      <3> QED
        BY <3>3, <3>4
    <2>2. Delimiters(u) = {p \in Delimiters(s) : p < c}
      BY <1>2, <1>3, PrefixDelimiters
    <2> QED
      BY <2>1, <2>2
  <1>6. PICK k : k = Cardinality(Delimiters(u))
    OBVIOUS
  <1>7. Start(s, k + 1) = c + 1 /\ \A n \in 1..k : Split(s)[n] = Split(u)[n]
    <2>1. Leads(u, k, s, c)
      BY <1>1, <1>3, <1>6, PrefixSplit
    <2> QED
      BY <2>1 DEF Leads
  <1>8. Remainder(s) = b
    BY <1>1, <1>5, <1>6, <1>7 DEF Remainder
  <1>9. /\ Split(s) \in Seq(Seq(Byte)) /\ Split(u) \in Seq(Seq(Byte))
        /\ Len(Split(s)) = k /\ Len(Split(u)) = k
    BY <1>4, <1>5, <1>6, SplitType
  <1>10. Split(s) = Split(u)
    BY <1>7, <1>9, SeqEqual
  <1> QED
    BY <1>1, <1>3, <1>8, <1>10

\* The first p - 1 bytes of b are the next line of s after the lines L, and
\* what follows their delimiter is the rest.
Taken(s, L, b, p) ==
  /\ p \in Delimiters(b)
  /\ Delimiters(SubSeq(b, 1, p - 1)) = {}
  /\ Len(L) < Len(Split(s))
  /\ L = SubSeq(Split(s), 1, Len(L))
  /\ Split(s)[Len(L) + 1] = SubSeq(b, 1, p - 1)
  /\ Framed(s, Append(L, SubSeq(b, 1, p - 1)), SubSeq(b, p + 2, Len(b)))

\* The next line of the stream is the one that the next delimiter ends.
LEMMA NextLine ==
  ASSUME NEW s \in Seq(Byte), NEW L, NEW b, Framed(s, L, b),
         Delimiters(b) # {}, NEW p, p = First(Delimiters(b))
  PROVE  Taken(s, L, b, p)
PROOF
  <1>1. PICK c : /\ Cursor(s, c)
                 /\ b = SubSeq(s, c + 1, Len(s))
                 /\ L = Split(SubSeq(s, 1, c))
    BY DEF Framed
  <1>2. c \in 0..Len(s) /\ Len(s) \in Nat
    BY <1>1 DEF Cursor
  <1>3. b \in Seq(Byte) /\ Len(b) = Len(s) - c
    BY <1>1, <1>2, PartOf
  <1>4. p \in Delimiters(b) /\ \A q \in Delimiters(b) : p <= q
    <2>1. Delimiters(b) \in SUBSET (1..Len(b))
      BY <1>3, DelimitersMeaning
    <2>2. Delimiters(b) \in SUBSET Nat
      BY <1>3, <2>1
    <2> QED
      BY <2>2, FirstMeaning
  <1>5. p \in Int /\ 1 <= p /\ p < Len(b)
    BY <1>3, <1>4, DelimitersMeaning
  <1>6. Delimiters(SubSeq(b, 1, p - 1)) = {}
    <2>1. p - 1 \in 0..Len(b)
      BY <1>5
    <2>2. \A q \in Delimiters(b) : ~ (q < p - 1)
      <3>1. \A q \in Delimiters(b) : q \in Int
        BY <1>3, DelimitersMeaning
      <3> QED
        BY <1>4, <1>5, <3>1
    <2>3. Delimiters(SubSeq(b, 1, p - 1))
            = {q \in Delimiters(b) : q < p - 1}
      BY <1>3, <2>1, PrefixDelimiters
    <2> QED
      BY <2>2, <2>3
  <1>7. PICK d : d = c + p + 1
    OBVIOUS
  <1>8. d \in 0..Len(s) /\ c < d /\ d - 1 = c + p
    BY <1>2, <1>3, <1>5, <1>7
  <1>9. d - 1 \in Delimiters(s)
    BY <1>1, <1>2, <1>4, <1>5, <1>8, SuffixDelimiters
  <1>10. Cursor(s, d)
    BY <1>8, <1>9 DEF Cursor
  <1>11. PICK u : u = SubSeq(s, 1, c)
    OBVIOUS
  <1>12. PICK v : v = SubSeq(s, 1, d)
    OBVIOUS
  <1>13. /\ v \in Seq(Byte) /\ Len(v) = d
    BY <1>8, <1>12, PartOf
  <1>14. u \in Seq(Byte)
    BY <1>2, <1>11, PartOf
  <1>15. Delimiters(v) = {q \in Delimiters(s) : q < d}
    BY <1>8, <1>12, PrefixDelimiters
  <1>16. Delimiters(u) = {q \in Delimiters(s) : q < c}
    BY <1>2, <1>11, PrefixDelimiters
  <1>17. d - 1 \in Delimiters(v) /\ \A q \in Delimiters(v) : q <= d - 1
    <2>1. \A q \in Delimiters(s) : q \in Int
      BY DelimitersMeaning
    <2>2. \A q \in Delimiters(s) : q < d => q <= d - 1
      BY <1>8, <2>1
    <2>3. d - 1 < d
      BY <1>8
    <2> QED
      BY <1>9, <1>15, <2>2, <2>3
  <1>18. PICK k : k = Cardinality(Delimiters(u))
    OBVIOUS
  <1>19. PICK m : m = Cardinality(Delimiters(v))
    OBVIOUS
  <1>20. /\ Split(u) \in Seq(Seq(Byte)) /\ Len(Split(u)) = k /\ k \in Nat
    BY <1>14, <1>18, SplitType
  <1>21. /\ Split(v) \in Seq(Seq(Byte)) /\ Len(Split(v)) = m /\ m \in Nat
    BY <1>13, <1>19, SplitType
  <1>22. m = k + 1
    <2>1. \A q \in Delimiters(s) : c <= q /\ q < d => q = d - 1
      <3>1. SUFFICES ASSUME NEW q \in Delimiters(s), c <= q, q < d, q # d - 1
                     PROVE  FALSE
        OBVIOUS
      <3>2. q \in Int /\ 1 <= q /\ s[q] = "CR"
        BY DelimitersMeaning
      <3>3. CASE q = c
        <4>1. c - 1 \in Delimiters(s) /\ c - 1 \in Int /\ c - 1 + 1 = c
          BY <1>1, <1>2, <3>2, <3>3 DEF Cursor
        <4>2. s[c] = "LF"
          BY <4>1, DelimitersMeaning
        <4> QED
          BY <3>2, <3>3, <4>2
      <3>4. CASE q # c
        <4>1. q < d - 1
          BY <1>2, <1>8, <3>1, <3>2
        <4>2. q - c \in Int /\ q - c >= 1 /\ c + (q - c) = q /\ q - c < p
          BY <1>2, <1>5, <1>8, <3>1, <3>2, <3>4, <4>1
        <4>3. q - c \in Delimiters(b)
          BY <1>1, <1>2, <4>2, SuffixDelimiters
        <4>4. p <= q - c
          BY <1>4, <4>3
        <4> QED
          BY <1>5, <4>2, <4>4
      <3> QED
        BY <3>3, <3>4
    <2>2. \A q \in Delimiters(s) : q < d <=> q < c \/ q = d - 1
      <3>1. \A q \in Delimiters(s) : q \in Int
        BY DelimitersMeaning
      <3>2. \A q \in Delimiters(s) : q < c => q < d
        BY <1>2, <1>8, <3>1
      <3>3. \A q \in Delimiters(s) : q < d => q < c \/ c <= q
        BY <1>2, <1>8, <3>1
      <3>4. d - 1 < d
        BY <1>8
      <3> QED
        BY <2>1, <3>2, <3>3, <3>4
    <2>3. Delimiters(v) = Delimiters(u) \cup {d - 1}
      BY <1>9, <1>15, <1>16, <2>2
    <2>4. d - 1 \notin Delimiters(u)
      <3>1. ~ (d - 1 < c)
        BY <1>2, <1>8
      <3> QED
        BY <1>16, <3>1
    <2>5. IsFiniteSet(Delimiters(u))
      <3>1. Len(u) \in Nat /\ Delimiters(u) \in SUBSET (1..Len(u))
        BY <1>14, DelimitersMeaning
      <3> QED
        BY <3>1, PositionsFinite
    <2>6. Cardinality(Delimiters(u) \cup {d - 1}) = Cardinality(Delimiters(u)) + 1
      BY <2>4, <2>5, FS_AddElement
    <2> QED
      BY <1>18, <1>19, <2>3, <2>6
  <1>23. Cursor(v, c) /\ u = SubSeq(v, 1, c)
    <2>1. c \in 0..Len(v)
      BY <1>2, <1>8, <1>13
    <2>2. c = 0 \/ c - 1 \in Delimiters(v)
      <3>1. c - 1 < d
        BY <1>2, <1>8
      <3> QED
        BY <1>1, <1>15, <3>1 DEF Cursor
    <2>3. SubSeq(SubSeq(s, 1, d), 1, c) = SubSeq(s, 1, c)
      <3>1. d \in 0..Len(s) /\ 1 \in 1..(d + 1) /\ c \in (1 - 1)..d
        BY <1>2, <1>8
      <3> QED
        BY <3>1, PartOfPrefix
    <2>4. SubSeq(v, 1, c) = u
      BY <1>11, <1>12, <2>3, Zenon
    <2> QED
      BY <2>1, <2>2, <2>4 DEF Cursor
  <1>24. /\ Start(v, k + 1) = c + 1
         /\ \A n \in 1..k : Split(v)[n] = Split(u)[n]
    <2>1. Leads(u, k, v, c)
      BY <1>13, <1>18, <1>23, PrefixSplit
    <2> QED
      BY <2>1 DEF Leads
  <1>25. /\ m \in 0..Cardinality(Delimiters(s))
         /\ \A n \in 1..m : Split(s)[n] = Split(v)[n]
    <2>1. Leads(v, m, s, d)
      BY <1>10, <1>12, <1>19, PrefixSplit
    <2> QED
      BY <2>1 DEF Leads
  <1>26. Nth(Delimiters(v), k + 1) = d - 1
    <2>1. Len(v) \in Nat /\ Delimiters(v) \in SUBSET (1..Len(v))
      BY <1>13, DelimitersMeaning
    <2>2. Nth(Delimiters(v), Cardinality(Delimiters(v))) = d - 1
      BY <1>17, <2>1, NthLast
    <2> QED
      BY <1>19, <1>22, <2>2
  <1>27. PICK l : l = SubSeq(b, 1, p - 1)
    OBVIOUS
  <1>28. l \in Seq(Byte)
    <2>1. p - 1 \in 0..Len(b)
      BY <1>5
    <2> QED
      BY <1>3, <1>27, <2>1, PartOf
  <1>29. Split(v)[k + 1] = l
    <2>1. k + 1 \in 1..Cardinality(Delimiters(v))
      BY <1>19, <1>20, <1>22
    <2>2. Split(v)[k + 1] = SubSeq(v, c + 1, d - 1 - 1)
      BY <1>24, <1>26, <2>1 DEF Split
    <2>3. SubSeq(SubSeq(s, 1, d), c + 1, d - 2) = SubSeq(s, c + 1, d - 2)
      <3>1. c \in Nat /\ d \in Nat /\ c + 2 <= d
        BY <1>2, <1>5, <1>7, <1>8
      <3>2. PICK i : i = c + 1
        OBVIOUS
      <3>3. PICK j : j = d - 2
        OBVIOUS
      <3>4. d \in 0..Len(s) /\ i \in 1..(d + 1) /\ j \in (i - 1)..d
        BY <1>8, <3>1, <3>2, <3>3
      <3>5. SubSeq(SubSeq(s, 1, d), i, j) = SubSeq(s, i, j)
        BY <3>4, PartOfPrefix
      <3> QED
        BY <3>2, <3>3, <3>5, Zenon
    <2>4. SubSeq(SubSeq(s, c + 1, Len(s)), 1, p - 1) = SubSeq(s, c + 1, d - 2)
      <3>1. /\ c \in 0..Len(s) /\ 1 \in 1..(Len(s) - c + 1)
            /\ p - 1 \in (1 - 1)..(Len(s) - c)
        BY <1>2, <1>3, <1>5
      <3>2. d - 2 = c + (p - 1)
        BY <1>2, <1>5, <1>7
      <3> QED
        BY <3>1, <3>2, PartOfSuffix
    <2>5. d - 1 - 1 = d - 2
      BY <1>8
    <2> QED
      BY <1>1, <1>12, <1>27, <2>2, <2>3, <2>4, <2>5, Zenon
  <1>30. Split(v) = Append(Split(u), l)
    <2>1. /\ Append(Split(u), l) \in Seq(Seq(Byte))
          /\ Len(Append(Split(u), l)) = k + 1
          /\ \A i \in 1..k : Append(Split(u), l)[i] = Split(u)[i]
          /\ Append(Split(u), l)[k + 1] = l
      BY <1>20, <1>28, AppendProperties
    <2>2. \A i \in 1..(k + 1) : Split(v)[i] = Append(Split(u), l)[i]
      <3>1. \A i \in 1..(k + 1) : i = k + 1 \/ i \in 1..k
        BY <1>20
      <3> QED
        BY <1>24, <1>29, <2>1, <3>1
    <2> QED
      BY <1>21, <1>22, <2>1, <2>2, SeqEqual
  <1>31. SubSeq(b, p + 2, Len(b)) = SubSeq(s, d + 1, Len(s))
    <2>1. PICK i : i = p + 2
      OBVIOUS
    <2>2. PICK j : j = Len(b)
      OBVIOUS
    <2>3. /\ c \in 0..Len(s) /\ i \in 1..(Len(s) - c + 1)
          /\ j \in (i - 1)..(Len(s) - c)
      BY <1>2, <1>3, <1>5, <2>1, <2>2
    <2>4. d + 1 = c + i /\ Len(s) = c + j
      BY <1>2, <1>3, <1>5, <1>7, <2>1, <2>2
    <2>5. PICK x : x = c + i
      OBVIOUS
    <2>6. PICK y : y = c + j
      OBVIOUS
    <2>7. SubSeq(SubSeq(s, c + 1, Len(s)), i, j) = SubSeq(s, x, y)
      BY <2>3, <2>5, <2>6, PartOfSuffix
    <2> QED
      BY <1>1, <2>1, <2>2, <2>4, <2>5, <2>6, <2>7, Zenon
  <1>32. Framed(s, Append(L, l), SubSeq(b, p + 2, Len(b)))
    BY <1>1, <1>10, <1>11, <1>12, <1>30, <1>31 DEF Framed, Cursor
  <1>33. /\ Split(s) \in Seq(Seq(Byte))
         /\ Len(Split(s)) = Cardinality(Delimiters(s))
         /\ Cardinality(Delimiters(s)) \in Nat
    BY SplitType
  <1>34. /\ \A n \in 1..k : Split(s)[n] = Split(u)[n]
         /\ Split(s)[k + 1] = l
         /\ k < Len(Split(s))
    <2>1. \A n \in 1..k : n \in 1..m
      BY <1>20, <1>22
    <2>2. k + 1 \in 1..m
      BY <1>20, <1>22
    <2>3. k < Cardinality(Delimiters(s))
      BY <1>20, <1>22, <1>25, <1>33
    <2> QED
      BY <1>24, <1>25, <1>29, <1>33, <2>1, <2>2, <2>3
  <1>35. SubSeq(Split(s), 1, k) = Split(u)
    <2>1. \A i \in 1..k : Split(s)[i] \in Seq(Byte)
      BY <1>20, <1>33, <1>34
    <2>2. /\ SubSeq(Split(s), 1, k) \in Seq(Seq(Byte))
          /\ Len(SubSeq(Split(s), 1, k)) = IF 1 <= k THEN k - 1 + 1 ELSE 0
          /\ \A i \in 1..(k - 1 + 1) :
               SubSeq(Split(s), 1, k)[i] = Split(s)[1 + i - 1]
      BY <1>20, <2>1, SubSeqProperties
    <2>3. /\ (IF 1 <= k THEN k - 1 + 1 ELSE 0) = k /\ k - 1 + 1 = k
          /\ \A i \in 1..k : 1 + i - 1 = i
      BY <1>20
    <2>4. \A i \in 1..k : SubSeq(Split(s), 1, k)[i] = Split(u)[i]
      BY <1>34, <2>2, <2>3
    <2> QED
      BY <1>20, <2>2, <2>3, <2>4, SeqEqual
  <1>36. Len(L) = k /\ L = Split(u)
    BY <1>1, <1>11, <1>20
  <1>37. Len(L) < Len(Split(s)) /\ L = SubSeq(Split(s), 1, Len(L))
    BY <1>34, <1>35, <1>36
  <1>38. Split(s)[Len(L) + 1] = l
    BY <1>34, <1>36
  <1> QED
    BY <1>4, <1>6, <1>27, <1>32, <1>37, <1>38 DEF Taken

-----------------------------------------------------------------------------
\* The state of the loop of push.
Assembled == [buffer : Seq(Byte), lines : Seq(Seq(Byte)), thrown : BOOLEAN,
              done : BOOLEAN]

\* L is every line before one that is too long.
LongNext(s, L) ==
  \/ L = Split(s) /\ Len(Remainder(s)) > MaxLine
  \/ /\ Len(L) < Len(Split(s))
     /\ L = SubSeq(Split(s), 1, Len(L))
     /\ Len(Split(s)[Len(L) + 1]) > MaxLine

\* What the loop of push keeps while it cuts the buffer b, the end of the
\* stream s of which the lines L have been delivered.  Once it has cut a line
\* less than the n bytes of the last read are left.
Going(s, L, b, n, x) ==
  /\ x \in Assembled
  /\ x.thrown => x.done /\ LongNext(s, L)
  /\ ~ x.thrown =>
       /\ Framed(s, L \o x.lines, x.buffer)
       /\ x.lines \in Seq(Line)
       /\ x.lines = << >> => x.buffer = b
       /\ x.lines # << >> => Len(x.buffer) < n
       /\ x.done => Delimiters(x.buffer) = {} /\ Len(x.buffer) <= MaxLine

\* A round ends the loop or takes something from the buffer.
Shorter(x, y) == y.done \/ Len(y.buffer) < Len(x.buffer)

\* A line that is appended comes last.
LEMMA AppendLast ==
  ASSUME NEW S, NEW a \in Seq(S), NEW b \in Seq(S), NEW e \in S
  PROVE  a \o Append(b, e) = Append(a \o b, e)
PROOF
  <1>1. PICK g : g = <<e>>
    OBVIOUS
  <1>2. g \in Seq(S) /\ Append(b, e) = b \o g
    BY <1>1, AppendIsConcat
  <1>3. a \o b \in Seq(S)
    BY ConcatProperties
  <1>4. Append(a \o b, e) = (a \o b) \o g
    BY <1>1, <1>3, AppendIsConcat
  <1>5. (a \o b) \o g = a \o (b \o g)
    BY <1>2, ConcatAssociative
  <1> QED
    BY <1>2, <1>4, <1>5, Zenon

\* One round keeps it, and ends the loop or shortens the buffer.
LEMMA RoundGood ==
  ASSUME NEW s \in Seq(Byte), NEW L \in Seq(Line), NEW n \in Nat,
         n <= MaxLine + 1, NEW b \in Seq(Byte),
         \A p \in Delimiters(b) : Len(b) - n <= p,
         NEW x, Going(s, L, b, n, x)
  PROVE  Going(s, L, b, n, Round(x)) /\ Shorter(x, Round(x))
PROOF
  <1>1. CASE x.done
    BY <1>1 DEF Round, Shorter
  <1>2. CASE ~ x.done
    <2>1. /\ x \in Assembled /\ ~ x.thrown
          /\ Framed(s, L \o x.lines, x.buffer)
          /\ x.lines \in Seq(Line)
          /\ x.lines = << >> => x.buffer = b
          /\ x.lines # << >> => Len(x.buffer) < n
      BY <1>2 DEF Going
    <2>2. PICK B : B = x.buffer
      OBVIOUS
    <2>3. PICK l : l = x.lines
      OBVIOUS
    <2>4. PICK M : M = L \o l
      OBVIOUS
    <2>5. /\ B \in Seq(Byte) /\ Len(B) \in Nat /\ l \in Seq(Line)
          /\ Framed(s, M, B)
          /\ l = << >> => B = b
          /\ l # << >> => Len(B) < n
      BY <2>1, <2>2, <2>3, <2>4 DEF Assembled
    <2>6. MaxLine \in Nat
      BY AssemblerAssumption
    <2>7. l = << >> => M = L
      BY <2>4, ConcatEmptySeq
    <2>8. CASE Delimiters(B) # {}
      <3>1. PICK p : p = First(Delimiters(B))
        OBVIOUS
      <3>2. PICK h : h = SubSeq(B, 1, p - 1)
        OBVIOUS
      <3>3. PICK t : t = SubSeq(B, p + 2, Len(B))
        OBVIOUS
      <3>4. /\ p \in Delimiters(B)
            /\ Delimiters(h) = {}
            /\ Len(M) < Len(Split(s))
            /\ M = SubSeq(Split(s), 1, Len(M))
            /\ Split(s)[Len(M) + 1] = h
            /\ Framed(s, Append(M, h), t)
        <4>1. Taken(s, M, B, p)
          BY <2>5, <2>8, <3>1, NextLine
        <4> QED
          BY <3>2, <3>3, <4>1, Zenon DEF Taken
      <3>5. p \in Int /\ 1 <= p /\ p < Len(B)
        BY <2>5, <3>4, DelimitersMeaning
      <3>6. h \in Seq(Byte) /\ Len(h) = p - 1
        <4>1. p - 1 \in 0..Len(B)
          BY <2>5, <3>5
        <4>2. /\ SubSeq(B, 1, p - 1) \in Seq(Byte)
              /\ Len(SubSeq(B, 1, p - 1)) = p - 1 - 1 + 1
          BY <2>5, <4>1, PartOf
        <4> QED
          BY <3>2, <3>5, <4>2
      <3>7. t \in Seq(Byte) /\ Len(t) = Len(B) - p - 1
        <4>1. PICK a : a = p + 2
          OBVIOUS
        <4>2. a \in 1..(Len(B) + 1) /\ Len(B) \in (a - 1)..Len(B)
          BY <2>5, <3>5, <4>1
        <4>3. /\ SubSeq(B, a, Len(B)) \in Seq(Byte)
              /\ Len(SubSeq(B, a, Len(B))) = Len(B) - a + 1
          BY <2>5, <4>2, PartOf
        <4> QED
          BY <2>5, <3>3, <3>5, <4>1, <4>3
      <3>8. PICK y : y = Round(x)
        OBVIOUS
      <3>9. y = [buffer |-> t, lines |-> Append(l, h),
                 thrown |-> p - 1 > MaxLine, done |-> p - 1 > MaxLine]
        BY <1>2, <2>2, <2>3, <2>8, <3>1, <3>2, <3>3, <3>8 DEF Round, Cut
      <3>10. l \in Seq(Seq(Byte)) /\ Append(l, h) \in Seq(Seq(Byte))
        <4>1. l \in Seq(Seq(Byte))
          BY <2>1, <2>3 DEF Assembled
        <4> QED
          BY <3>6, <4>1, AppendProperties
      <3>11. y \in Assembled
        BY <3>7, <3>9, <3>10 DEF Assembled
      <3>12. /\ y.buffer = t /\ y.lines = Append(l, h)
             /\ y.thrown = (p - 1 > MaxLine) /\ y.done = (p - 1 > MaxLine)
        BY <3>9
      <3>13. Shorter(x, y)
        BY <2>2, <2>5, <3>5, <3>7, <3>12 DEF Shorter
      <3>14. CASE p - 1 > MaxLine
        <4>1. l = << >>
          <5>1. ~ (Len(B) < n)
            BY <2>5, <2>6, <3>5, <3>14
          <5> QED
            BY <2>5, <5>1
        <4>2. LongNext(s, L)
          BY <2>7, <3>4, <3>6, <3>14, <4>1 DEF LongNext
        <4>3. y.thrown /\ y.done
          BY <3>12, <3>14
        <4>4. Going(s, L, b, n, y)
          BY <3>11, <4>2, <4>3 DEF Going
        <4> QED
          BY <3>8, <3>13, <4>4
      <3>15. CASE ~ (p - 1 > MaxLine)
        <4>1. h \in Line
          BY <2>6, <3>4, <3>5, <3>6, <3>15 DEF Line
        <4>2. Append(l, h) \in Seq(Line) /\ Append(l, h) # << >>
          BY <2>5, <4>1, AppendProperties
        <4>3. L \o Append(l, h) = Append(M, h)
          BY <2>4, <2>5, <4>1, AppendLast
        <4>4. Framed(s, L \o Append(l, h), t)
          BY <3>4, <4>3
        <4>5. Len(t) < n
          <5>1. CASE l = << >>
            <6>1. Len(B) - n <= p
              BY <2>5, <3>4, <5>1
            <6> QED
              BY <2>5, <3>5, <3>7, <6>1
          <5>2. CASE l # << >>
            BY <2>5, <3>5, <3>7, <5>2
          <5> QED
            BY <5>1, <5>2
        <4>6. ~ y.thrown /\ ~ y.done
          BY <3>12, <3>15
        <4>7. Going(s, L, b, n, y)
          BY <3>11, <3>12, <4>2, <4>4, <4>5, <4>6 DEF Going
        <4> QED
          BY <3>8, <3>13, <4>7
      <3> QED
        BY <3>14, <3>15
    <2>9. CASE Delimiters(B) = {}
      <3>1. PICK y : y = Round(x)
        OBVIOUS
      <3>2. y = [x EXCEPT !.thrown = Len(B) > MaxLine, !.done = TRUE]
        BY <1>2, <2>2, <2>9, <3>1 DEF Round, Rest
      <3>3. /\ y \in Assembled /\ y.buffer = B /\ y.lines = l
            /\ y.thrown = (Len(B) > MaxLine) /\ y.done
        <4>1. y = [buffer |-> B, lines |-> l, thrown |-> Len(B) > MaxLine,
                   done |-> TRUE]
          BY <2>1, <2>2, <2>3, <3>2 DEF Assembled
        <4>2. B \in Seq(Byte) /\ l \in Seq(Seq(Byte))
          BY <2>1, <2>2, <2>3 DEF Assembled
        <4> QED
          BY <4>1, <4>2 DEF Assembled
      <3>4. Shorter(x, y)
        BY <3>3 DEF Shorter
      <3>5. CASE Len(B) > MaxLine
        <4>1. l = << >>
          <5>1. ~ (Len(B) < n)
            BY <2>5, <2>6, <3>5
          <5> QED
            BY <2>5, <5>1
        <4>2. L = Split(s) /\ B = Remainder(s)
          BY <2>5, <2>7, <2>9, <4>1, LastLine
        <4>3. LongNext(s, L)
          BY <3>5, <4>2 DEF LongNext
        <4>4. y.thrown
          BY <3>3, <3>5
        <4>5. Going(s, L, b, n, y)
          BY <3>3, <4>3, <4>4 DEF Going
        <4> QED
          BY <3>1, <3>4, <4>5
      <3>6. CASE ~ (Len(B) > MaxLine)
        <4>1. ~ y.thrown /\ Len(B) <= MaxLine
          <5>1. Len(B) <= MaxLine
            BY <2>5, <2>6, <3>6
          <5>2. ~ y.thrown
            BY <3>3, <3>6
          <5> QED
            BY <5>1, <5>2
        <4>2. Going(s, L, b, n, y)
          BY <2>4, <2>5, <2>9, <3>3, <4>1 DEF Going
        <4> QED
          BY <3>1, <3>4, <4>2
      <3> QED
        BY <3>5, <3>6
    <2> QED
      BY <2>8, <2>9
  <1> QED
    BY <1>1, <1>2

\* The loop ends, within one round more than there are bytes.
LEMMA AssembleGood ==
  ASSUME NEW s \in Seq(Byte), NEW L \in Seq(Line), NEW n \in Nat,
         n <= MaxLine + 1, NEW b \in Seq(Byte),
         \A p \in Delimiters(b) : Len(b) - n <= p,
         Framed(s, L, b)
  PROVE  Going(s, L, b, n, Assemble(b)) /\ Assemble(b).done
PROOF
  <1> DEFINE k == Len(b) + 1
             r == [buffer |-> b, lines |-> << >>, thrown |-> FALSE,
                   done |-> FALSE]
             D == {x \in Assembled : Going(s, L, b, n, x)}
             F == [d \in D \X (1..k) |-> Round(d[1])]
             Loop(f) == [j \in 0..k |-> IF j = 0 THEN r ELSE Round(f[j - 1])]
             after == CHOOSE f : f = Loop(f)
             T == {j \in 0..k : after[j].done
                                  \/ Len(after[j].buffer) + j <= Len(b)}
  <1>0. k = Len(b) + 1
    OBVIOUS
  <1>1. k \in Nat /\ Len(b) \in Nat
    OBVIOUS
  <1>2. r \in D /\ r.buffer = b
    <2>1. L \o << >> = L
      BY ConcatEmptySeq
    <2>2. << >> \in Seq(Line) /\ << >> \in Seq(Seq(Byte))
      BY EmptySeq
    <2>3. r \in Assembled
      BY <2>2 DEF Assembled
    <2>4. /\ r.buffer = b /\ r.lines = << >> /\ ~ r.thrown /\ ~ r.done
      OBVIOUS
    <2> HIDE DEF r
    <2>5. Going(s, L, b, n, r)
      BY <2>1, <2>2, <2>3, <2>4 DEF Going
    <2> QED
      BY <2>3, <2>4, <2>5
  <1>3. ASSUME NEW x \in D
        PROVE  Round(x) \in D /\ Shorter(x, Round(x))
    <2>1. Going(s, L, b, n, x)
      OBVIOUS
    <2>2. Going(s, L, b, n, Round(x)) /\ Shorter(x, Round(x))
      BY <2>1, RoundGood
    <2> QED
      BY <2>2 DEF Going
  <1>4. \A x \in D : Going(s, L, b, n, x) /\ x.buffer \in Seq(Byte)
    BY DEF Assembled
  <1> HIDE DEF D, k, r
  <1>5. F \in [D \X (1..k) -> D]
    BY <1>3
  <1>6. \A x \in D, j \in 1..k : F[<<x, j>>] = Round(x)
    OBVIOUS
  <1> HIDE DEF F
  <1>7. PICK g : Loops(g, k, D, r, F)
    BY <1>1, <1>2, <1>5, LoopExists
  <1>8. g = Loop(g)
    <2>1. ASSUME NEW j \in 1..k
          PROVE  F[<<g[j - 1], j>>] = Round(g[j - 1])
      <3>1. j - 1 \in 0..k
        BY <1>1
      <3> QED
        BY <1>6, <1>7, <3>1 DEF Loops
    <2>2. ASSUME NEW j \in 0..k
          PROVE  g[j] = IF j = 0 THEN r ELSE Round(g[j - 1])
      <3>1. CASE j = 0
        BY <1>7, <3>1 DEF Loops
      <3>2. CASE j \in 1..k
        BY <1>1, <1>7, <2>1, <3>2 DEF Loops
      <3> QED
        BY <1>1, <3>1, <3>2
    <2> QED
      BY <1>7, <2>2 DEF Loops
  <1>9. after = Loop(after)
    BY <1>8, Zenon
  <1> HIDE DEF after
  <1>10. after[0] = r
    BY <1>1, <1>9
  <1>11. \A j \in 1..k : after[j] = Round(after[j - 1])
    BY <1>1, <1>9
  <1>12. \A j \in 0..k : after[j] \in D
    BY <1>1, <1>2, <1>3, <1>10, <1>11, LoopStays
  <1>13. 0 \in T
    BY <1>1, <1>2, <1>10
  <1>14. ASSUME NEW j \in 1..k, j - 1 \in T
         PROVE  j \in T
    <2>1. PICK x : x = after[j - 1]
      OBVIOUS
    <2>2. PICK y : y = after[j]
      OBVIOUS
    <2>3. j - 1 \in 0..k /\ j \in 0..k
      BY <1>1
    <2>4. x \in D /\ y \in D /\ y = Round(x)
      BY <1>11, <1>12, <2>1, <2>2, <2>3
    <2>5. y.done \/ Len(y.buffer) < Len(x.buffer)
      BY <1>3, <2>4 DEF Shorter
    <2>6. x.done => y.done
      BY <2>4 DEF Round
    <2>7. x.done \/ Len(x.buffer) + (j - 1) <= Len(b)
      BY <1>14, <2>1
    <2>8. Len(x.buffer) \in Nat /\ Len(y.buffer) \in Nat
      BY <1>4, <2>4
    <2>9. y.done \/ Len(y.buffer) + j <= Len(b)
      BY <1>1, <2>5, <2>6, <2>7, <2>8
    <2> QED
      BY <2>2, <2>3, <2>9
  <1>15. \A j \in 0..k : j \in T
    <2> HIDE DEF T
    <2> QED
      BY <1>1, <1>13, <1>14, UpTo
  <1>16. after[k].done
    <2>1. k \in 0..k /\ after[k] \in D
      BY <1>1, <1>12
    <2>2. PICK i : i = Len(after[k].buffer)
      OBVIOUS
    <2>3. after[k].done \/ i + k <= Len(b)
      BY <1>15, <2>1, <2>2
    <2>4. i \in Nat
      BY <1>4, <2>1, <2>2
    <2>5. ~ (i + k <= Len(b))
      BY <1>0, <1>1, <2>4
    <2> QED
      BY <2>3, <2>5
  <1>17. Assemble(b) = after[k]
    BY DEF Assemble, after, k, r
  <1> QED
    BY <1>1, <1>4, <1>12, <1>16, <1>17

-----------------------------------------------------------------------------
\* The inductive invariant.  While the session lives the lines delivered are
\* those up to some place between lines and the buffer is the rest, without a
\* delimiter; when push has thrown, the next line, or what follows the last, is
\* too long.
Inv ==
  /\ buffer \in Seq(Byte)
  /\ lines \in Seq(Line)
  /\ failed \in BOOLEAN
  /\ received \in Seq(Byte)
  /\ ~ failed => /\ Framed(received, lines, buffer)
                 /\ Delimiters(buffer) = {}
                 /\ Len(buffer) <= MaxLine
  /\ failed => LongNext(received, lines)

\* Nothing has arrived.
LEMMA InitInv == Init => Inv
PROOF
  <1>1. SUFFICES ASSUME Init PROVE Inv
    OBVIOUS
  <1>2. PICK e : e = << >>
    OBVIOUS
  <1>3. buffer = e /\ lines = e /\ received = e /\ ~ failed /\ failed \in BOOLEAN
    BY <1>1, <1>2 DEF Init
  <1>4. e \in Seq(Byte) /\ Len(e) = 0 /\ e \in Seq(Line)
    BY <1>2, EmptySeq
  <1>5. Delimiters(e) = {}
    <2>1. 1..(Len(e) - 1) = {}
      BY <1>4
    <2> QED
      BY <2>1 DEF Delimiters
  <1>6. Framed(e, e, e)
    <2>1. Cursor(e, 0)
      BY <1>4 DEF Cursor
    <2>2. SubSeq(e, 0 + 1, Len(e)) = e /\ SubSeq(e, 1, 0) = e
      BY <1>2, <1>4, SubSeqEmpty
    <2>3. Split(e) = e
      <3>1. /\ Split(e) \in Seq(Seq(Byte))
            /\ Len(Split(e)) = Cardinality(Delimiters(e))
        BY <1>4, SplitType
      <3>2. Len(Split(e)) = 0
        BY <1>5, <3>1, FS_EmptySet
      <3> QED
        BY <1>2, <3>1, <3>2, EmptySeq
    <2> QED
      BY <2>1, <2>2, <2>3 DEF Framed, Cursor
  <1>7. MaxLine \in Nat
    BY AssemblerAssumption
  <1> QED
    BY <1>3, <1>4, <1>5, <1>6, <1>7 DEF Inv

\* What the handler of a read pushes keeps it.
LEMMA PushInv ==
  ASSUME Inv, NEW n \in 1..MaxRead, NEW bytes \in [1..n -> Byte], Push(bytes)
  PROVE  Inv'
PROOF
  <1>1. /\ MaxLine \in Nat /\ MaxRead \in Nat /\ MaxBuffer \in Nat
        /\ MaxRead <= MaxLine + 1 /\ MaxLine + MaxRead <= MaxBuffer
    BY AssemblerAssumption
  <1>2. bytes \in Seq(Byte) /\ Len(bytes) = n /\ n \in Nat
    BY <1>1
  <1>3. /\ buffer \in Seq(Byte) /\ lines \in Seq(Line) /\ received \in Seq(Byte)
        /\ Framed(received, lines, buffer)
        /\ Delimiters(buffer) = {} /\ Len(buffer) <= MaxLine
    BY DEF Inv, Push
  <1>4. PICK b : b = buffer \o bytes
    OBVIOUS
  <1>5. PICK s : s = received \o bytes
    OBVIOUS
  <1>6. PICK x : x = Assemble(b)
    OBVIOUS
  <1>7. /\ b \in Seq(Byte) /\ Len(b) = Len(buffer) + Len(bytes)
        /\ \A i \in 1..Len(buffer) + Len(bytes) :
             b[i] = IF i <= Len(buffer) THEN buffer[i]
                    ELSE bytes[i - Len(buffer)]
    BY <1>2, <1>3, <1>4, ConcatProperties
  <1>8. s \in Seq(Byte)
    BY <1>2, <1>3, <1>5, ConcatProperties
  <1>9. Framed(s, lines, b)
    BY <1>2, <1>3, <1>4, <1>5, FramedGrows
  <1>10. \A p \in Delimiters(b) : Len(b) - n <= p
    <2>1. SUFFICES ASSUME NEW p \in Delimiters(b), p < Len(buffer)
                   PROVE  FALSE
      <3>1. \A p \in Delimiters(b) : p \in Int
        BY <1>7, DelimitersMeaning
      <3>2. Len(buffer) \in Nat /\ Len(b) - n = Len(buffer)
        BY <1>2, <1>3, <1>7
      <3> QED
        BY <3>1, <3>2
    <2>2. /\ p \in Int /\ 1 <= p /\ p < Len(b)
          /\ b[p] = "CR" /\ b[p + 1] = "LF"
      BY <1>7, DelimitersMeaning
    <2>3. b[p] = buffer[p] /\ b[p + 1] = buffer[p + 1]
      BY <1>2, <1>3, <1>7, <2>1, <2>2
    <2>4. p \in Delimiters(buffer)
      BY <1>3, <2>1, <2>2, <2>3, DelimitersMeaning
    <2> QED
      BY <1>3, <2>4
  <1>11. Going(s, lines, b, n, x) /\ x.done
    <2>1. n <= MaxLine + 1
      BY <1>1
    <2> QED
      BY <1>2, <1>3, <1>6, <1>7, <1>8, <1>9, <1>10, <2>1, AssembleGood
  <1>12. ~ (Len(buffer) + Len(bytes) > MaxBuffer)
    BY <1>1, <1>2, <1>3
  <1>13. /\ received' = s /\ failed' = x.thrown /\ buffer' = x.buffer
         /\ lines' = IF x.thrown THEN lines ELSE lines \o x.lines
    BY <1>4, <1>5, <1>6, <1>12, Zenon DEF Push
  <1>14. /\ x \in Assembled /\ x.buffer \in Seq(Byte) /\ x.thrown \in BOOLEAN
    BY <1>11 DEF Going, Assembled
  <1>15. CASE x.thrown
    <2>1. LongNext(s, lines)
      BY <1>11, <1>15 DEF Going
    <2>2. LongNext(received', lines')
      BY <1>13, <1>15, <2>1
    <2> QED
      BY <1>3, <1>8, <1>13, <1>14, <1>15, <2>2 DEF Inv
  <1>16. CASE ~ x.thrown
    <2>1. /\ Framed(s, lines \o x.lines, x.buffer)
          /\ x.lines \in Seq(Line)
          /\ Delimiters(x.buffer) = {} /\ Len(x.buffer) <= MaxLine
      BY <1>11, <1>16 DEF Going
    <2>2. lines' = lines \o x.lines
      BY <1>13, <1>16
    <2>3. lines' \in Seq(Line)
      BY <1>3, <2>1, <2>2, ConcatProperties
    <2>4. /\ Framed(received', lines', buffer')
          /\ Delimiters(buffer') = {} /\ Len(buffer') <= MaxLine
      BY <1>13, <2>1, <2>2
    <2> QED
      BY <1>8, <1>13, <1>14, <1>16, <2>3, <2>4 DEF Inv
  <1> QED
    BY <1>15, <1>16

\* It is an invariant.
THEOREM SpecInv == Spec => []Inv
PROOF
  <1>1. Init => Inv
    BY InitInv
  <1>2. Inv /\ [Next]_vars => Inv'
    <2>1. SUFFICES ASSUME Inv, [Next]_vars PROVE Inv'
      OBVIOUS
    <2>2. CASE Next
      BY <2>1, <2>2, PushInv DEF Next
    <2>3. CASE UNCHANGED vars
      BY <2>1, <2>3 DEF vars, Inv
    <2> QED
      BY <2>1, <2>2, <2>3
  <1> QED
    BY <1>1, <1>2, PTL DEF Spec

\* However TCP cuts the stream, push has delivered the lines of the whole
\* stream and keeps what follows them.
THEOREM FramingHolds == Spec => []Framing
PROOF
  <1>1. Inv => Framing
    BY LastLine DEF Inv, Framing
  <1> QED
    BY <1>1, SpecInv, PTL

\* buffer_ never holds more than a line between reads, no delimiter, and the
\* parser is given no line longer than max_irc_line_bytes.
THEOREM BoundedHolds == Spec => []Bounded
PROOF
  <1>1. Inv => Bounded
    BY DEF Inv, Bounded
  <1> QED
    BY <1>1, SpecInv, PTL

\* push has thrown exactly when a line of the stream, or what follows the last
\* one, is too long.
THEOREM LongLineOnlyHolds == Spec => []LongLineOnly
PROOF
  <1>1. ASSUME Inv PROVE LongLineOnly
    <2>1. received \in Seq(Byte) /\ lines \in Seq(Line) /\ MaxLine \in Nat
      BY <1>1, AssemblerAssumption DEF Inv
    <2>2. Split(received) \in Seq(Seq(Byte))
      BY <2>1, SplitType
    <2>3. CASE failed
      <3>1. LongNext(received, lines)
        BY <1>1, <2>3 DEF Inv
      <3>2. CASE Len(Remainder(received)) > MaxLine
        BY <2>3, <3>2 DEF LongLineOnly
      <3>3. CASE /\ Len(lines) < Len(Split(received))
                 /\ Len(Split(received)[Len(lines) + 1]) > MaxLine
        <4>1. Len(lines) + 1 \in DOMAIN Split(received)
          BY <2>1, <2>2, <3>3
        <4> QED
          BY <2>3, <3>3, <4>1 DEF LongLineOnly
      <3> QED
        BY <3>1, <3>2, <3>3 DEF LongNext
    <2>4. CASE ~ failed
      <3>1. lines = Split(received) /\ buffer = Remainder(received)
        BY <1>1, <2>1, <2>4, LastLine DEF Inv
      <3>2. ~ (Len(Remainder(received)) > MaxLine)
        BY <1>1, <2>1, <2>4, <3>1 DEF Inv
      <3>3. \A i \in DOMAIN lines : ~ (Len(lines[i]) > MaxLine)
        <4>1. SUFFICES ASSUME NEW i \in DOMAIN lines
                       PROVE  ~ (Len(lines[i]) > MaxLine)
          OBVIOUS
        <4>2. lines[i] \in Line
          BY <2>1
        <4>3. Len(lines[i]) <= MaxLine /\ Len(lines[i]) \in Nat
          BY <4>2 DEF Line
        <4> QED
          BY <2>1, <4>3
      <3> QED
        BY <2>4, <3>1, <3>2, <3>3 DEF LongLineOnly
    <2> QED
      BY <2>3, <2>4
  <1> QED
    BY <1>1, SpecInv, PTL

\* When push throws, every line before the one that is too long has been
\* delivered, however TCP cuts the stream.
THEOREM PrefixDeliveredHolds == Spec => []PrefixDelivered
PROOF
  <1>1. Inv => PrefixDelivered
    BY DEF Inv, LongNext, PrefixDelivered
  <1> QED
    BY <1>1, SpecInv, PTL
=============================================================================
