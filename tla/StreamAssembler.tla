--------------------------- MODULE StreamAssembler ---------------------------
(***************************************************************************)
(* IrcStreamAssembler of src/irc.cpp: bytes arrive from TCP in pieces of   *)
(* any size, push cuts them into lines at CR LF and keeps the rest.  A     *)
(* byte is CR, LF or anything else, which is all push tells apart.         *)
(***************************************************************************)
EXTENDS Integers, Sequences, FiniteSets

CONSTANTS
  MaxLine,         \* max_irc_line_bytes (8192 in the code)
  MaxBuffer,       \* max_irc_buffer_bytes (65536 in the code)
  MaxRead,         \* size of the read buffer (4096 in the code)
  MaxStream        \* bound: bytes the server sends on one connection

ASSUME AssemblerAssumption ==
  /\ {MaxLine, MaxRead, MaxBuffer} \subseteq Nat \ {0}
  /\ MaxStream \in Nat
  /\ MaxRead <= MaxLine + 1
  /\ MaxLine + MaxRead <= MaxBuffer

Byte == {"x", "CR", "LF"}

-----------------------------------------------------------------------------
\* The positions at which a CR LF begins.
Delimiters(bytes) ==
  {p \in 1..(Len(bytes) - 1) : bytes[p] = "CR" /\ bytes[p + 1] = "LF"}

\* std::string::find.
First(positions) == CHOOSE p \in positions : \A q \in positions : p <= q

\* What the parser may be given.
Line == {l \in Seq(Byte) : Len(l) <= MaxLine /\ Delimiters(l) = {}}

-----------------------------------------------------------------------------

VARIABLES
  buffer,          \* buffer_
  lines,           \* the lines returned by push so far
  failed,          \* push has thrown, the session ends
  received         \* history: every byte pushed so far

vars == <<buffer, lines, failed, received>>

Init ==
  /\ buffer = << >>
  /\ lines = << >>
  /\ failed = FALSE
  /\ received = << >>

-----------------------------------------------------------------------------
\* Mutant: only the CR is erased with the line.
Cut_LeavesLineFeed(state) ==
  LET p == First(Delimiters(state.buffer)) IN
  [ buffer |-> SubSeq(state.buffer, p + 1, Len(state.buffer)),
    lines  |-> Append(state.lines, SubSeq(state.buffer, 1, p - 1)),
    thrown |-> p - 1 > MaxLine,
    done   |-> p - 1 > MaxLine ]

\* Mutant: the size of the buffer is taken for the length of the line.
Cut_BufferSize(state) ==
  LET p == First(Delimiters(state.buffer)) IN
  [ buffer |-> SubSeq(state.buffer, p + 2, Len(state.buffer)),
    lines  |-> Append(state.lines, SubSeq(state.buffer, 1, p - 1)),
    thrown |-> Len(state.buffer) > MaxLine,
    done   |-> Len(state.buffer) > MaxLine ]

\* A line is taken from the front of the buffer, or it is too long.
Cut(state) ==
  LET p == First(Delimiters(state.buffer)) IN
  [ buffer |-> SubSeq(state.buffer, p + 2, Len(state.buffer)),
    lines  |-> Append(state.lines, SubSeq(state.buffer, 1, p - 1)),
    thrown |-> p - 1 > MaxLine,
    done   |-> p - 1 > MaxLine ]

\* Mutant: what is left over is not bounded.
Rest_Unbounded(state) == [state EXCEPT !.done = TRUE]

\* Mutant: the longest line that is allowed is refused.
Rest_OffByOne(state) ==
  [state EXCEPT !.thrown = Len(state.buffer) >= MaxLine, !.done = TRUE]

\* No delimiter is left: the rest must not be too long.
Rest(state) ==
  [state EXCEPT !.thrown = Len(state.buffer) > MaxLine, !.done = TRUE]

\* One round of the loop of push.
Round(state) ==
  IF state.done THEN state
  ELSE IF Delimiters(state.buffer) # {} THEN Cut(state) ELSE Rest(state)

\* The loop of push, which ends: a line takes its delimiter with it.
Assemble(bytes) ==
  LET rounds == Len(bytes) + 1
      after[n \in 0..rounds] ==
        IF n = 0 THEN [buffer |-> bytes, lines |-> << >>, thrown |-> FALSE,
                       done |-> FALSE]
        ELSE Round(after[n - 1])
  IN  after[rounds]

\* The handler of a read pushes what it has read.  When push throws nothing
\* is delivered and the session ends.
Push(bytes) ==
  LET result == Assemble(buffer \o bytes) IN
  /\ ~failed
  /\ Len(received) + Len(bytes) <= MaxStream
  /\ received' = received \o bytes
  /\ IF Len(buffer) + Len(bytes) > MaxBuffer
     THEN failed' = TRUE /\ UNCHANGED <<buffer, lines>>
     ELSE /\ failed' = result.thrown
          /\ buffer' = result.buffer
          /\ lines' = IF result.thrown THEN lines ELSE lines \o result.lines

Next == \E n \in 1..MaxRead : \E bytes \in [1..n -> Byte] : Push(bytes)

Spec == Init /\ [][Next]_vars

-----------------------------------------------------------------------------
\* Reference: the lines of a byte stream, and what follows the last of them,
\* by the positions of the delimiters.
Nth(positions, n) ==
  First({p \in positions : Cardinality({q \in positions : q <= p}) = n})

Start(bytes, n) == IF n = 1 THEN 1 ELSE Nth(Delimiters(bytes), n - 1) + 2

Split(bytes) ==
  [n \in 1..Cardinality(Delimiters(bytes)) |->
     SubSeq(bytes, Start(bytes, n), Nth(Delimiters(bytes), n) - 1)]

Remainder(bytes) ==
  SubSeq(bytes, Start(bytes, Cardinality(Delimiters(bytes)) + 1), Len(bytes))

\* However TCP cuts the stream, the lines are those of the whole stream, and
\* the buffer holds what follows them.
Framing ==
  ~failed => lines = Split(received) /\ buffer = Remainder(received)

\* The buffer of a live session holds no complete line and is bounded by one
\* line, so with the next read it never reaches max_irc_buffer_bytes; and what
\* the parser is given is never longer than a line may be.
Bounded ==
  /\ ~failed => Len(buffer) <= MaxLine /\ Delimiters(buffer) = {}
  /\ lines \in Seq(Line)

\* push throws only for a line that is too long, wherever TCP cuts the stream
\* (README.md, "fragmentation-safe IRC stream parsing"): a CR at the end may
\* still turn out to belong to a delimiter.
FragmentationSafe ==
  failed =>
    \/ \E i \in DOMAIN Split(received) : Len(Split(received)[i]) > MaxLine
    \/ LET rest == Remainder(received) IN
       \/ Len(rest) > MaxLine + 1
       \/ Len(rest) = MaxLine + 1 /\ rest[Len(rest)] # "CR"

\* What does hold: push has thrown exactly when a complete line was too long,
\* or what followed the last one was, a CR at its end included.
LongLineOnly ==
  failed <=>
    \/ \E i \in DOMAIN Split(received) : Len(Split(received)[i]) > MaxLine
    \/ Len(Remainder(received)) > MaxLine

\* push throws away the lines it has cut before it throws, and yet none is
\* lost: when a line is too long every line before it has been delivered,
\* wherever TCP cuts the stream.  A read that completes a line brings no more
\* than the longest line after it, so only the first line in the buffer can be
\* too long.
PrefixDelivered ==
  failed => LET all == Split(received) IN
            \/ lines = all
            \/ /\ Len(lines) < Len(all)
               /\ lines = SubSeq(all, 1, Len(lines))
               /\ Len(all[Len(lines) + 1]) > MaxLine
=============================================================================
