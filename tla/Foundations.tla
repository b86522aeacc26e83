---------------------------- MODULE Foundations ------------------------------
(***************************************************************************)
(* What the proofs about loops and texts share.  Induction over the        *)
(* natural numbers for sets and functions, from the least-number principle *)
(* of WellFoundedInduction: what the provers can apply to the loops of the *)
(* model, which are recursive functions over an interval.  And facts about *)
(* sequences of whatever (IsList), for which no set of elements is known.  *)
(***************************************************************************)
EXTENDS Text, TLAPS, WellFoundedInduction, SequenceTheorems, FiniteSetTheorems

\* A non-empty set of numbers has a least element.
LEMMA LeastNumber ==
  ASSUME NEW T \in SUBSET Nat, T # {}
  PROVE  \E n \in T : \A k \in T : n <= k
PROOF
  <1>1. PICK n \in T : \A k \in T : ~ (<<k, n>> \in OpToRel(<, Nat))
    BY WFMin, NatLessThanWellFounded, Zenon
  <1>2. \A k \in T : ~ (k < n)
    BY <1>1 DEF OpToRel
  <1> QED
    BY <1>2

\* A set of numbers that holds 0, and with a number up to k the next one, holds
\* every number up to k.
LEMMA UpTo ==
  ASSUME NEW k \in Nat, NEW T, 0 \in T,
         \A n \in 1..k : n - 1 \in T => n \in T
  PROVE  \A n \in 0..k : n \in T
PROOF
  <1> DEFINE Missing == {n \in 0..k : n \notin T}
  <1>1. SUFFICES ASSUME Missing # {} PROVE FALSE
    OBVIOUS
  <1>2. Missing \in SUBSET Nat
    OBVIOUS
  <1>3. PICK n \in Missing : \A j \in Missing : n <= j
    BY <1>1, <1>2, LeastNumber
  <1>4. n \in 1..k /\ n - 1 \in 0..k
    BY <1>3
  <1>5. n - 1 \notin Missing
    BY <1>2, <1>3, <1>4
  <1> QED
    BY <1>3, <1>4, <1>5

\* A function that begins in D and does not leave it ends in D.
LEMMA LoopStays ==
  ASSUME NEW k \in Nat, NEW D, NEW f, f[0] \in D,
         \A n \in 1..k : f[n - 1] \in D => f[n] \in D
  PROVE  \A n \in 0..k : f[n] \in D
PROOF
  <1> DEFINE T == {n \in 0..k : f[n] \in D}
  <1>1. 0 \in T
    OBVIOUS
  <1>2. \A n \in 1..k : n - 1 \in T => n \in T
    OBVIOUS
  <1>3. \A n \in 0..k : n \in T
    BY <1>1, <1>2, UpTo
  <1> QED
    BY <1>3

\* The values that a loop with body F takes from r on.
Loops(g, k, D, r, F) ==
  /\ g \in [0..k -> D]
  /\ g[0] = r
  /\ \A n \in 1..k : g[n] = F[<<g[n - 1], n>>]

\* A loop whose step maps D to D has its sequence of values.
LEMMA LoopExists ==
  ASSUME NEW k \in Nat, NEW D, NEW r \in D, NEW F \in [D \X (1..k) -> D]
  PROVE  \E g : Loops(g, k, D, r, F)
PROOF
  <1> DEFINE T == {j \in 0..k : \E g : Loops(g, j, D, r, F)}
  <1>1. 0 \in T
    <2> DEFINE g == [n \in 0..0 |-> r]
    <2>1. Loops(g, 0, D, r, F)
      BY DEF Loops
    <2>2. 0 \in 0..k
      OBVIOUS
    <2> HIDE DEF g
    <2> QED
      BY <2>1, <2>2
  <1>2. ASSUME NEW j \in 1..k, j - 1 \in T
        PROVE  j \in T
    <2>1. PICK g : Loops(g, j - 1, D, r, F)
      BY <1>2
    <2> DEFINE h == [n \in 0..j |-> IF n = j THEN F[<<g[j - 1], j>>] ELSE g[n]]
    <2>2. F[<<g[j - 1], j>>] \in D
      <3>1. g[j - 1] \in D
        BY <2>1 DEF Loops
      <3> QED
        BY <3>1
    <2>3. h \in [0..j -> D]
      BY <2>1, <2>2 DEF Loops
    <2>4. h[0] = r
      BY <2>1 DEF Loops
    <2>5. ASSUME NEW n \in 1..j
          PROVE  h[n] = F[<<h[n - 1], n>>]
      <3>1. n - 1 \in 0..j /\ n - 1 # j
        OBVIOUS
      <3>2. h[n - 1] = g[n - 1]
        BY <3>1
      <3>3. CASE n = j
        <4>1. h[j] = F[<<g[j - 1], j>>]
          OBVIOUS
        <4> HIDE DEF h
        <4> QED
          BY <3>2, <3>3, <4>1
      <3>4. CASE n # j
        <4>1. n \in 1..(j - 1) /\ h[n] = g[n]
          BY <3>4
        <4>2. g[n] = F[<<g[n - 1], n>>]
          BY <2>1, <4>1 DEF Loops
        <4> QED
          BY <3>2, <4>1, <4>2
      <3> QED
        BY <3>3, <3>4
    <2> HIDE DEF h
    <2>6. Loops(h, j, D, r, F)
      BY <2>3, <2>4, <2>5 DEF Loops
    <2>7. j \in 0..k
      OBVIOUS
    <2> QED
      BY <2>6, <2>7
  <1>3. \A n \in 0..k : n \in T
    BY <1>1, <1>2, UpTo
  <1> QED
    BY <1>3

-----------------------------------------------------------------------------
\* A sequence of anything is a list.
LEMMA ListOf ==
  ASSUME NEW S, NEW h \in Seq(S)
  PROVE  IsList(h) /\ Len(h) \in Nat /\ DOMAIN h = 1..Len(h)
PROOF
  <1>1. Len(h) \in Nat /\ DOMAIN h = 1..Len(h) /\ h \in [1..Len(h) -> S]
    BY LenProperties
  <1>2. PICK T : T = {h[i] : i \in DOMAIN h}
    OBVIOUS
  <1>3. h \in [1..Len(h) -> T]
    BY <1>1, <1>2
  <1>4. h \in Seq(T)
    BY <1>1, <1>3
  <1> QED
    BY <1>1, <1>2, <1>4 DEF IsList

\* What a list is.
LEMMA ListMeaning ==
  ASSUME NEW h, IsList(h)
  PROVE  /\ Len(h) \in Nat /\ DOMAIN h = 1..Len(h)
         /\ h = << >> <=> Len(h) = 0
         /\ h = [i \in 1..Len(h) |-> h[i]]
PROOF
  <1>1. PICK T : T = {h[i] : i \in DOMAIN h}
    OBVIOUS
  <1>2. h \in Seq(T)
    BY <1>1 DEF IsList
  <1>3. Len(h) \in Nat /\ DOMAIN h = 1..Len(h) /\ h \in [1..Len(h) -> T]
    BY <1>2, LenProperties
  <1>4. h = << >> <=> Len(h) = 0
    BY <1>2, <1>3, EmptySeq
  <1> QED
    BY <1>3, <1>4

\* A function on 1 to n is a list.
LEMMA FunctionIsList ==
  ASSUME NEW n \in Nat, NEW f, f = [i \in 1..n |-> f[i]]
  PROVE  IsList(f) /\ Len(f) = n /\ DOMAIN f = 1..n
PROOF
  <1>1. PICK T : T = {f[i] : i \in 1..n}
    OBVIOUS
  <1>2. f \in [1..n -> T]
    BY <1>1
  <1>3. f \in Seq(T) /\ Len(f) = n
    BY <1>2
  <1> QED
    BY <1>2, <1>3, ListOf

\* Nothing is a list.
LEMMA EmptyIsList == IsList(<< >>)
PROOF
  <1>1. << >> \in Seq({})
    BY EmptySeq
  <1> QED
    BY <1>1, ListOf

\* A part of anything is a list.
LEMMA PartIsList ==
  ASSUME NEW text, NEW m \in Int, NEW n \in Int
  PROVE  IsList(SubSeq(text, m, n))
PROOF
  <1>1. PICK T : T = {text[i] : i \in m..n}
    OBVIOUS
  <1>2. \A i \in m..n : text[i] \in T
    BY <1>1
  <1>3. SubSeq(text, m, n) \in Seq(T)
    BY <1>2, SubSeqProperties
  <1> QED
    BY <1>3, ListOf

\* What a part of a text consists of.
LEMMA PartIs ==
  ASSUME NEW text, NEW m \in Int, NEW n \in Int
  PROVE  /\ IsList(SubSeq(text, m, n))
         /\ Len(SubSeq(text, m, n)) = IF m <= n THEN n - m + 1 ELSE 0
         /\ DOMAIN SubSeq(text, m, n) = 1..Len(SubSeq(text, m, n))
         /\ \A i \in 1..(n - m + 1) : SubSeq(text, m, n)[i] = text[m + i - 1]
PROOF
  <1>1. PICK T : T = {text[i] : i \in m..n}
    OBVIOUS
  <1>2. \A i \in m..n : text[i] \in T
    BY <1>1
  <1>3. /\ SubSeq(text, m, n) \in Seq(T)
        /\ Len(SubSeq(text, m, n)) = IF m <= n THEN n - m + 1 ELSE 0
        /\ \A i \in 1..(n - m + 1) : SubSeq(text, m, n)[i] = text[m + i - 1]
    BY <1>2, SubSeqProperties
  <1> QED
    BY <1>3, ListOf

\* Two lists with the same elements are one.
LEMMA ListsEqual ==
  ASSUME NEW s, IsList(s), NEW t, IsList(t), Len(s) = Len(t),
         \A i \in 1..Len(s) : s[i] = t[i]
  PROVE  s = t
PROOF
  <1>1. /\ s = [i \in 1..Len(s) |-> s[i]]
        /\ t = [i \in 1..Len(s) |-> t[i]]
    BY ListMeaning
  <1> QED
    BY <1>1

\* What two lists make together.
LEMMA ConcatIs ==
  ASSUME NEW s, IsList(s), NEW t, IsList(t)
  PROVE  /\ IsList(s \o t) /\ Len(s \o t) = Len(s) + Len(t)
         /\ \A i \in 1..(Len(s) + Len(t)) :
              (s \o t)[i] = IF i <= Len(s) THEN s[i] ELSE t[i - Len(s)]
PROOF
  <1>1. PICK T : T = {s[i] : i \in DOMAIN s} \cup {t[i] : i \in DOMAIN t}
    OBVIOUS
  <1>2. {s[i] : i \in DOMAIN s} \subseteq T /\ {t[i] : i \in DOMAIN t} \subseteq T
    BY <1>1
  <1>3. s \in Seq(T) /\ t \in Seq(T)
    BY <1>2, SeqMonotonic DEF IsList
  <1> QED
    BY <1>3, ConcatProperties, ListOf

\* What is one more element.
LEMMA AppendIs ==
  ASSUME NEW s, IsList(s), NEW e
  PROVE  /\ IsList(Append(s, e)) /\ Len(Append(s, e)) = Len(s) + 1
         /\ \A i \in 1..Len(s) : Append(s, e)[i] = s[i]
         /\ Append(s, e)[Len(s) + 1] = e
PROOF
  <1>1. PICK T : T = {s[i] : i \in DOMAIN s} \cup {e}
    OBVIOUS
  <1>2. {s[i] : i \in DOMAIN s} \subseteq T /\ e \in T
    BY <1>1
  <1>3. s \in Seq(T)
    BY <1>2, SeqMonotonic DEF IsList
  <1>4. /\ Append(s, e) \in Seq(T) /\ Len(Append(s, e)) = Len(s) + 1
        /\ \A i \in 1..Len(s) : Append(s, e)[i] = s[i]
        /\ Append(s, e)[Len(s) + 1] = e
    BY <1>2, <1>3, AppendProperties
  <1> QED
    BY <1>4, ListOf

\* Texts behind each other.
LEMMA ConcatTwo ==
  ASSUME NEW x, NEW y
  PROVE  <<x>> \o <<y>> = <<x, y>>
PROOF
  <1>1. PICK s : s = <<x>>
    OBVIOUS
  <1>2. PICK t : t = <<y>>
    OBVIOUS
  <1>3. PICK u : u = <<x, y>>
    OBVIOUS
  <1>4. /\ s \in Seq({x, y}) /\ t \in Seq({x, y}) /\ u \in Seq({x, y})
        /\ Len(s) = 1 /\ s[1] = x /\ Len(t) = 1 /\ t[1] = y
        /\ Len(u) = 2 /\ u[1] = x /\ u[2] = y
    BY <1>1, <1>2, <1>3
  <1>5. PICK z : z = s \o t
    OBVIOUS
  <1>6. /\ IsList(s) /\ IsList(t) /\ IsList(u)
    BY <1>4, ListOf
  <1>7. /\ IsList(z) /\ Len(z) = 2
        /\ \A i \in 1..2 : z[i] = IF i <= 1 THEN s[i] ELSE t[i - 1]
    <2>1. /\ IsList(s \o t) /\ Len(s \o t) = Len(s) + Len(t)
          /\ \A i \in 1..(Len(s) + Len(t)) :
               (s \o t)[i] = IF i <= Len(s) THEN s[i] ELSE t[i - Len(s)]
      BY <1>6, ConcatIs
    <2>2. Len(s) + Len(t) = 2
      BY <1>4
    <2> QED
      BY <1>4, <1>5, <2>1, <2>2
  <1>8. \A i \in 1..Len(z) : z[i] = u[i]
    BY <1>4, <1>7
  <1>9. z = u
    BY <1>4, <1>6, <1>7, <1>8, ListsEqual
  <1> QED
    BY <1>1, <1>2, <1>3, <1>5, <1>9, Zenon

\* And three of them.
LEMMA ConcatThree ==
  ASSUME NEW s, IsList(s), NEW t, IsList(t), NEW u, IsList(u),
         NEW st, st = s \o t, NEW tu, tu = t \o u
  PROVE  st \o u = s \o tu
PROOF
  <1>1. PICK T : T = {s[i] : i \in DOMAIN s} \cup {t[i] : i \in DOMAIN t}
                       \cup {u[i] : i \in DOMAIN u}
    OBVIOUS
  <1>2. /\ {s[i] : i \in DOMAIN s} \subseteq T
        /\ {t[i] : i \in DOMAIN t} \subseteq T
        /\ {u[i] : i \in DOMAIN u} \subseteq T
    BY <1>1
  <1>3. s \in Seq(T) /\ t \in Seq(T) /\ u \in Seq(T)
    BY <1>2, SeqMonotonic DEF IsList
  <1> QED
    BY <1>3, ConcatAssociative

\* A non-empty set of numbers up to n has a greatest element.
LEMMA GreatestNumber ==
  ASSUME NEW n \in Nat, NEW T \in SUBSET (1..n), T # {}
  PROVE  \E m \in T : \A k \in T : k <= m
PROOF
  <1> DEFINE U == {n - k : k \in T}
  <1>1. U \in SUBSET Nat /\ U # {}
    <2>1. \A k \in T : k \in 1..n /\ n - k \in Nat
      OBVIOUS
    <2> QED
      BY <2>1
  <1>2. PICK u \in U : \A v \in U : u <= v
    BY <1>1, LeastNumber
  <1>3. PICK m \in T : u = n - m
    OBVIOUS
  <1>4. ASSUME NEW k \in T
        PROVE  k <= m
    <2>1. n - k \in U
      OBVIOUS
    <2>2. n - m <= n - k
      BY <1>2, <1>3, <2>1
    <2> QED
      BY <2>2
  <1> QED
    BY <1>4

\* From a place on there is a first one with a property, or the end.
LEMMA FirstPlace ==
  ASSUME NEW n \in Nat, NEW from \in 1..n, NEW T
  PROVE  \E p \in from..n : /\ p = n \/ p \in T
                            /\ \A q \in from..(p - 1) : q \notin T
PROOF
  <1> DEFINE Places == {p \in from..n : p = n \/ p \in T}
  <1>1. Places \in SUBSET Nat /\ n \in Places
    OBVIOUS
  <1>2. PICK p \in Places : \A q \in Places : p <= q
    <2> HIDE DEF Places
    <2> QED
      BY <1>1, LeastNumber
  <1>3. p \in from..n /\ (p = n \/ p \in T)
    OBVIOUS
  <1>4. ASSUME NEW q \in from..(p - 1)
        PROVE  q \notin T
    <2>1. q \in from..n /\ ~ (p <= q)
      BY <1>3
    <2>2. q \notin Places
      BY <1>2, <2>1
    <2> QED
      BY <2>1, <2>2
  <1> QED
    BY <1>3, <1>4

\* A part begins at the first position or behind the last symbol.
LEMMA PlaceBefore ==
  ASSUME NEW text, NEW symbol, NEW p \in Nat \ {0}
  PROVE  \E b \in 1..p : /\ b = 1 \/ text[b - 1] = symbol
                        /\ \A q \in b..(p - 1) : text[q] # symbol
PROOF
  <1> DEFINE T == {q \in 1..(p - 1) : text[q] = symbol}
  <1>1. CASE T = {}
    <2>1. 1 \in 1..p
      OBVIOUS
    <2> QED
      BY <1>1, <2>1
  <1>2. CASE T # {}
    <2>1. p - 1 \in Nat /\ T \in SUBSET (1..(p - 1))
      OBVIOUS
    <2>2. PICK m \in T : \A q \in T : q <= m
      <3> HIDE DEF T
      <3> QED
        BY <1>2, <2>1, GreatestNumber
    <2>3. m \in 1..(p - 1) /\ text[m] = symbol
      OBVIOUS
    <2>4. ASSUME NEW q \in (m + 1)..(p - 1)
          PROVE  text[q] # symbol
      <3>1. q \in 1..(p - 1) /\ ~ (q <= m)
        BY <2>3
      <3> QED
        BY <2>2, <3>1
    <2>5. m + 1 \in 1..p /\ (m + 1) - 1 = m
      BY <2>3
    <2> QED
      BY <2>3, <2>4, <2>5
  <1> QED
    BY <1>1, <1>2

\* So the part is a list too.
LEMMA PartBeforeIsList ==
  ASSUME NEW text, NEW symbol, NEW p \in Nat \ {0}
  PROVE  IsList(PartBefore(text, symbol, p))
PROOF
  <1>1. PICK b : b = CHOOSE x \in 1..p :
                       /\ x = 1 \/ text[x - 1] = symbol
                       /\ \A q \in x..(p - 1) : text[q] # symbol
    OBVIOUS
  <1>2. b \in 1..p
    BY <1>1, PlaceBefore
  <1>3. IsList(SubSeq(text, b, p - 1))
    BY <1>2, PartIsList
  <1> QED
    BY <1>1, <1>3 DEF PartBefore
=============================================================================
