-------------------------------- MODULE Text --------------------------------
(***************************************************************************)
(* Texts as sequences of symbols, with the operations of std::string and   *)
(* <cctype> that the program uses on them.  A symbol stands for a byte or, *)
(* where the program never looks inside, for a word.  Some letters have a  *)
(* capital.                                                                *)
(***************************************************************************)
EXTENDS Integers, Sequences, FiniteSets

\* A sequence, of whatever.
IsList(list) == list \in Seq({list[i] : i \in DOMAIN list})

Blank == {" ", "CR", "LF"}

Small == [A |-> "a", B |-> "b"]

StartsWith(text, symbol) == Len(text) > 0 /\ text[1] = symbol

Has(text, symbols) == \E i \in DOMAIN text : text[i] \in symbols

\* The first position from `from' on that holds (does not hold) the symbol,
\* one beyond the end if there is none.
Find(text, symbol, from) ==
  CHOOSE p \in from..(Len(text) + 1) :
    /\ p = Len(text) + 1 \/ text[p] = symbol
    /\ \A q \in from..(p - 1) : text[q] # symbol

Skip(text, symbol, from) ==
  CHOOSE p \in from..(Len(text) + 1) :
    /\ p = Len(text) + 1 \/ text[p] # symbol
    /\ \A q \in from..(p - 1) : text[q] = symbol

Before(text, symbol) == SubSeq(text, 1, Find(text, symbol, 1) - 1)

After(text, symbol) == SubSeq(text, Find(text, symbol, 1) + 1, Len(text))

\* The part of a text between two symbols that ends before position p.
PartBefore(text, symbol, p) ==
  SubSeq(text, CHOOSE b \in 1..p : /\ b = 1 \/ text[b - 1] = symbol
                                   /\ \A q \in b..(p - 1) : text[q] # symbol,
         p - 1)

HasWord(text, word) ==
  \E i \in 0..(Len(text) - Len(word)) :
    SubSeq(text, i + 1, i + Len(word)) = word

Trim(text) ==
  LET kept == {i \in DOMAIN text : text[i] \notin Blank}
  IN  IF kept = {} THEN << >>
      ELSE SubSeq(text, CHOOSE i \in kept : \A j \in kept : i <= j,
                        CHOOSE i \in kept : \A j \in kept : j <= i)

ToLower(text) ==
  [i \in DOMAIN text |->
     IF text[i] \in DOMAIN Small THEN Small[text[i]] ELSE text[i]]

ToUpper(text) ==
  [i \in DOMAIN text |->
     IF \E c \in DOMAIN Small : Small[c] = text[i]
     THEN CHOOSE c \in DOMAIN Small : Small[c] = text[i] ELSE text[i]]
=============================================================================
