# A TLA+ model of the Twitch chat bot

This directory models the bot from `main` to the lines it writes: start-up and
configuration, the life of the client and of a session, the login protocol, the
assembly, parsing and encoding of IRC lines, the automation, and the output
queue with its rate limiter. TLC checks the models on small instances; TLAPS
proves, for every instance, all safety properties of the output queue, of the
client with its sessions, of the stream assembler and of the automation; of the
parser and encoder, that tags and parameters are what the line says and that what
is sent arrives; of the start-up, that what runs is sound and that a check never
connects; and the three refinements. Paths such as `src/twitch_irc_client.cpp` are
relative to the repository.

    tlc -workers 2 -config Pacing.cfg MCJoinAttempts.tla
    tlapm TwitchIrcClientProofs.tla

## 1. The system

One thread runs one `io_context`. Everything below happens in completion
handlers, each of which runs to its end before the next begins. So there are no
data races; what is hard is the order of handlers, and what was queued before a
handler changed the state.

| Component | State | Operations | Interacts with |
| --- | --- | --- | --- |
| rate limiter (`rate_limiter.cpp`) | completion times of chat and JOIN, last chat time per channel | `next_allowed` (prunes), `record` | called by the writer of every session; owned by the client, so it survives reconnects |
| output queue (`Session`, lines 209-272) | `outbound_`, `current_write_`, `write_in_progress_`, `next_sequence_`, `write_timer_` | `enqueue`, `schedule_write`, handlers of `async_write` and `write_timer_` | filled by protocol actions and responses; asks the limiter |
| session protocol (`session_protocol.cpp`) | `state_`, `authenticated_`, `acknowledged_capabilities_` | `begin`, `handle` | returns actions that the session applies |
| session (`Session`) | socket, resolver, timers, `closed_`, the three above | `start`, `connect`, `handshake`, `read`, `handle_line`, `apply_action`, `finish`, and their handlers | calls the client back when it is ready or has ended |
| client (`TwitchIrcClient::Impl`) | `session_`, `reconnect_timer_`, `reconnect_attempt_`, `stopping_`, `exit_code_` | `start`, `stop`, `schedule_connection`, `connect`, `handle_session_end` | makes a session after another; stopped by a signal or a fatal end |
| stream assembler (`irc.cpp`) | `buffer_` | `push` | called by the read handler |
| IRC parser and encoder (`irc.cpp`) | none | `parse_irc_message`, `encode_irc_line`, `make_privmsg` | called by the session and the protocol |
| automation (`automation.cpp`) | cooldowns, round-robin indices | `handle` | turns a line into responses, in a ready session |
| configuration (`config.cpp`) | none; returns the validated settings | `load_env_file`, `overlay_process_environment`, `parse_runtime_config`, `parse_bot_settings`, `normalize_*` | called by `main`; the automation normalises names with it |
| start-up (`main.cpp`) | options, environment, exit status | `parse_options`, `main` | before anything else runs; `main` waits for a signal once |
| TLS setup, release tooling | | | not modelled (section 6) |

Hard behaviour and what makes each part correct:

- **Queue and limiter.** A write takes time and is recorded when it completes;
  timers fire late; sessions end at any moment and the limiter does not. Correct
  means: the limits hold over all sessions, the writer never sleeps while it
  could write, it overtakes only where it must, and starves nobody.
- **Protocol.** Lines arrive in any order and in pieces. Correct means: Ready is
  reached exactly when authentication and all capabilities have arrived, no JOIN
  is sent earlier, and a session that is not ready is watched by a timeout.
- **Session and client.** Operations that have completed when a session ends
  still run their handlers, next to those of the new session. Correct means: at
  most one session is open, it is kept alive through its own `finish`, every end
  leads to one reconnect unless the client stops, and a stop is final.
- **Assembler.** TCP cuts anywhere. Correct means: the lines do not depend on
  the cuts, the buffer is bounded, and no line before a bad one is lost.
- **Parser and encoder.** One cursor moves through parts that may each be
  missing, empty or repeated. Correct means: what it finds is what the positions
  in the line say, and what the bot sends is understood as it was meant.
- **Automation.** Cooldowns and rotations are per session and are advanced by
  answers, not by lines. Correct means: a line is answered exactly when the
  history of its session says so.
- **Configuration and start-up.** Four sources supply the same settings, each
  with its own quoting and normalisation. Correct means: the right source wins,
  nothing is changed on the way but case and blanks, a check never connects, and
  what runs is what the other parts use without looking.

## 2. The modules

| Module | Models | Used by |
| --- | --- | --- |
| `RateLimiter` | the limiter as operators on a record, and a reference of what the limits mean | `OutboundQueue` |
| `OutboundQueue` | the queue, writer, write timer, clock, and sessions one after the other | `OutboundQueueRefinement` |
| `PacedSender` | abstract: the log of what Twitch receives, under the limits | implemented by `OutboundQueue` |
| `CountedQueue` | abstract: the queue as `Session` has it, counted | implemented by `OutboundQueue` |
| `OutboundQueueRefinement` | the two refinement mappings | `JoinAttempts`, `MCOutboundQueue` |
| `JoinAttempts` | `OutboundQueue` with a history of the JOINs begun | `MCJoinAttempts` |
| `OutboundQueueProofs` | lemmas about the limiter; the queue keeps the limits; the writer neither oversleeps nor overtakes; attempts | `OutboundQueueRefinementProofs` |
| `OutboundQueueRefinementProofs` | the queue implements `PacedSender` and `CountedQueue` | |
| `Foundations` | induction over natural numbers, for loops, and facts about lists | the proofs about sessions, assembler, parser, automation and start-up |
| `TwitchIrcClientProofs` | what every handler of a session keeps; theorems about the client | |
| `SessionProtocol` | the login state machine as operators on a record | `Session` |
| `Session` | one connection: its members as a record, its methods and handlers as operators | `TwitchIrcClient`, `CountedQueue` |
| `ClientLifecycle` | abstract: waiting, connecting, ready, stopping, done | implemented by `TwitchIrcClient` |
| `TwitchIrcClient` | the client and its `Session` objects, every handler and every outside event as an action | `MCTwitchIrcClient` |
| `StreamAssembler` | `push` over a byte stream | `MCStreamAssembler` |
| `StreamAssemblerProofs` | theorems about the assembler | |
| `Text` | texts as sequences of symbols, and the library functions used on them | the modules below |
| `IrcMessage` | parser, tag decoder, encoder, PRIVMSG and PONG, as functions on a growing line | `MCIrcMessage` |
| `IrcMessageProofs` | theorems about the parser and the encoder | |
| `Names` | logins and channels, and the settings the automation can work with (`Usable`) | `Automation`, `Configuration` |
| `Automation` | the engine of each session, with a clock | `MCAutomation` |
| `AutomationProofs` | theorems about the automation | |
| `Configuration` | the functions of `config.cpp` | `Startup` |
| `Startup` | `main` up to the client, and its exit status | `MCStartup` |
| `StartupProofs` | theorems about the start-up | |

A definition carries the name of the code it stands for, in TLA+ spelling:
`ScheduleWrite` is `schedule_write`, `BecomeReadyIfPossible` is
`become_ready_if_possible`. A definition named `X_Y` under a comment "Mutant" is
`X` with a plausible mistake; no specification uses it. It shows that the
properties notice the mistake (`PROJECT.json`, "mutants").

How the state corresponds to the code:

- **Operations** (`Session`). A read is `none`, `pending`, or `data`/`error`:
  the operation has completed and its handler is queued. Writes and the three
  steps of dialling are alike. A timer is a subset of `{"armed", "fired"}`:
  `cancel` and `expires_after` remove `armed`, never `fired`, as asio does; both
  may be there when a handler is queued and the timer has been armed again.
- **Closing.** `Aborted` is what closing the socket does to operations that are
  outstanding: they fail. A name lookup cannot be aborted; its handler runs
  later with whatever result it had. A `connect` that has succeeded fails in its
  handler if the socket is closed by then; a handshake, read or write that has
  completed keeps its result.
- **Lifetime** (`TwitchIrcClient`). A `Session` lives while the client points to
  it or a handler holds it (`Held`). A slot whose object is destroyed is free.
- **Lines.** A message is what `handle` looks at: its kind, the capabilities it
  acknowledges or removes, the number of responses it causes.
- **Two views of the queue.** `OutboundQueue` has the messages, their kinds,
  channels, delays and the clock. `Session` only counts them and lets the
  environment choose what the limits say (`Pacing`): whether a JOIN or chat
  message may go, before the protocol lines or after them. Protocol lines are
  always due at once, so a timer is armed only when none is queued.
- **The queue as a set.** `outbound_` is a vector whose order decides nothing:
  the scan breaks ties by sequence number. `TypeOK` includes the reason that
  makes a set enough: queued messages have numbers already handed out.
- **Texts** (`Text` and the modules on it) are sequences of symbols: a symbol is
  a byte or a word the code never looks into (`oauth:`, `PRIVMSG`). Two letters
  with capitals and the underscore stand for what may be in a name. An exception
  is `<< >>`, `Failed` or `NoMessage`; `main` treats all of them alike.
- **Recursion.** The loops of `Session` (`EnqueueAll`, `ApplyActions`,
  `HandleLines`), of `push` (`Assemble`) and over the rules (`HandlePrivmsg`) are
  recursive functions of a counter, those of the parsers of the position, or folds
  over the text. A line of the parser grows by a piece at a time, so a run visits
  every line that can be built.
- **What a property knows and the code does not.** A line of `Automation` carries
  its author, room and text beside the wire form, and a world of `Startup` the
  names and values its lines were written for (`entries`). The model reads the
  wire form only; the properties compare with the other. That the two forms of a
  line of `Automation` agree is an assumption (`LinesAssumption`), which TLC
  evaluates on the lines of the run and the proofs use for all lines.

### How the parts fit together

`TwitchIrcClient` composes `Session` objects, each with a `SessionProtocol`, and
counts messages instead of keeping them. That this leaves out no behaviour of
the real queue is the refinement `IsCounted`: `OutboundQueue`, with messages, due
times and a limiter, implements `CountedQueue`, whose steps are the operators
`Session` uses. `KeepsPromise` is the other side of the queue: what leaves it is a
behaviour of `PacedSender`. `FollowsLifecycle` says the client implements
`ClientLifecycle`, the picture of the client in `docs/ARCHITECTURE.md`.
`RunningIsSound` of `Startup` establishes `Usable`, which `Automation` assumes
(`SettingsAssumption`); `RunsSoundly` proves it. The lines `StreamAssembler` delivers are no longer than
the `MaxLine` that `IrcMessage` accepts (`Bounded`), and a response that
`RunningIsSound` lets through is one `SentAsMeant` lets arrive.

## 3. The runs

| Run | Properties | Bounds | States |
| --- | --- | --- | --- |
| `Pacing` | `PacingInv`, `ChatPaced`, `JoinPaced`, `ChannelPaced`, `NextAllowedExact`, `AttemptsBounded`, `KeepsPromise` | chat and JOIN, 2 channels, 3 messages per session until instant 2, 2 sessions, 5 ticks, symmetry on channels | 1,337,701 |
| `Order` | `NoOversleep`, `NoOvertaking`, `IsCounted`, `EveryMessageLeaves` | all kinds, 1 channel, delays 0 and 2, queue of 2, 3 messages per session until instant 2, 2 sessions, 12 ticks | 674,613 |
| `Lifecycle` | `TypeOK`, `OneLiveSession`, `KeepAlive`, `NeverIdle`, `StopIsFinal`, `FollowsLifecycle` | 2 sessions that may overlap, 1 line per read, queue of 2 | 674,437 |
| `Login` | `NotReadyIsWatched`, `NoMissedReady`, `JoinGated`, `NoLostWakeup`, `ClosedIsQuiet` | 1 session, 2 capabilities, 2 channels, 2 lines per read, queue of 3 | 12,002 |
| `Liveness` | `StopEnds`, `LoginDecided`, `Reconnects` | 1 session at a time | 2,556 |
| `Framing` | `Framing`, `Bounded`, `LongLineOnly`, `PrefixDelivered` | lines of 3, reads of up to 4, streams of up to 10 bytes | 34,141 |
| `Automation` | `RulesExact`, `HypeExact`, `RotatesIndependently` | 3 rules, 15 kinds of line, 3 lines, 2 sessions, 4 ticks | 1,213,435 |
| `Parser` | `ParametersExact`, `TagsExact`, `CanonicalForm`, `SentAsMeant` | 6 stems, 10 pieces, up to 5 of them; lines of 11, payloads of 9 | 666,666 |
| `Startup` | `CheckIsDry`, `EnvironmentWins`, `AsSupplied`, `RunningIsSound` | 19,960 worlds: see below | 82,740 |
| `StopWhileDialling`, `CapabilityRemoved`, `SplitDelimiter` | one each, violated (section 5) | | |

What the later runs ask:

- `Pacing` lets a write fail or be cut off, and counts the JOINs that were begun
  beside those that completed: `JoinPaced` is about the latter, `AttemptsBounded`
  about the former, which exceed the limit by one per session at most.
- `Automation` compares every answer with a reference that reads the history of
  the session instead of the engine's cooldowns and indices.
- `Parser` compares the cursor with a reference by positions, and sends what the
  parser understood, and every line as a message and as a PING payload, through
  the encoder back to the parser.
- `Startup` runs `main` in worlds of three kinds: ten argument vectors (flags,
  paths, a flag as a path, an option as a path, a path twice or missing) with
  every .env file and environment; 260 documents with integers, fractions and a
  boolean at both ends of the ranges and beyond an `int` of four bits; and every text of up to four
  symbols (three for name and token) as the quoted value of a line.

Why the bounds are enough:

- **Limits and windows** are a few ticks instead of 20 messages and 30, 10 and 1
  seconds, in the same order (`ChannelGap < JoinWindow <= ChatWindow`); the
  limiter only compares sums of them. Three messages per session over two
  sessions exceed each limit of the run, and `MaxTime` exceeds each window. `Pacing`
  has two channels, which are interchangeable, so symmetry is sound for its
  safety properties. `Order` has one: its properties compare messages of one
  channel or of one kind, and liveness allows no symmetry. The pacing theorems
  need none of these bounds. In `Order` messages arrive until instant 2 and all
  have left before instant 12, otherwise `EveryMessageLeaves` would fail.
- **`MaxLag`** and **`MaxWrite`** let timer handlers run late and writes take
  time by one tick, which is enough to put them in either order with anything.
- **Two slots** let the handlers of an ended session run beside the next one;
  a third could only add another ended session, which can no longer reach the
  client (`OneLiveSession`, `ClosedIsQuiet`). In the `Login` and `Liveness` runs
  the next session starts when the last one has no handler left; the properties
  are about one session each.
- **The queue** is bounded by 2 or 3 instead of 1000. `Login` needs three for
  PASS, NICK and CAP REQ, and reaches the limit with JOINs and responses.
- **`Framing`** includes lines of the maximum length, one more and two more,
  every position of CR and LF, and more than one line per read.
- **`Automation`** handles three lines within four ticks, with a cooldown of two:
  enough for an answer, a line that must not prolong its cooldown and a third
  that shows it, for three answers in a row, which go round the list of two, and
  for a session that ends anywhere between them.
- **`Parser`** has every symbol the code looks for, and five pieces after stems
  that stand in a tag value, a second tag, a prefix, a command and a parameter;
  more middle parameters than `MaxParameters`, lines longer than `MaxLine` and
  payloads longer than `MaxPayload` all occur.
- `MaxMessages`, `MaxSessions`, `MaxTime` and `MaxArrival` end the runs of
  `OutboundQueue`, `MaxStream` those of `StreamAssembler`, `MaxHandled` and
  `MaxTime` those of `Automation`, `MaxPieces` those of `IrcMessage`; deadlock is
  not checked there, because a run that has reached its bounds stops. `Startup`
  checks it, and stops only where `main` returns (`Terminated`).
  `TwitchIrcClient` is not bounded that way: its runs check deadlock, and its
  only end is the return from `io.run` (`Terminated`).

**Fairness.** `TwitchIrcClient` assumes that the event loop runs queued handlers,
that armed timers expire, and that dialling ends: connection and handshake have
timeouts of 30 s, and the resolver of the operating system has its own. It does
not assume that the server sends or accepts anything, nor that a signal comes.
`OutboundQueue` assumes that a write ends one way or the other; this is used for
`EveryMessageLeaves` only, where a write that never ends would indeed stop
the queue, since the code has no timeout for it. It does not assume that anybody
enqueues. `Tick` is fair: time passes.

`Automation`, `IrcMessage` and `StreamAssembler` have safety properties only;
`Startup` is a sequence of steps that ends.

## 4. What is proved

Everything here holds for every value of the constants that satisfies their
assumptions: all channels, limits, windows, delays, numbers of sessions, lines
and messages, all byte streams, rules and chat lines. The inductive invariants
are `IInv` of the queue, `IInv` of the client, and `Inv` of `StreamAssemblerProofs`,
`AutomationProofs` and `StartupProofs`; TLC has checked each of them on the instance
of its run. The lines of `IrcMessage` need no more than that they are sequences
(`LinesAreLists`): its theorems are facts about functions on every text.

### The output queue

From `LimiterAssumption`, `QueueAssumption` and `NoneAssumption` (limits are at
least one, windows are natural numbers, `None` is no time, channel or write).

`OutboundQueueProofs` proves `Invariance`, `TypeCorrect`, `LimiterKnows`
(`PacingInv`), and `ChatPacing`, `JoinPacing` and `ChannelPacing` (`ChatPaced`,
`JoinPaced`, `ChannelPaced`). The pacing properties speak of a history that the
code does not keep: they are not inductive, because nothing in them relates the
history to the limiter, whose deques have been pruned. `IInv` adds `PacingInv`:

1. each deque holds the last entries of its history, and every entry it has lost
   is at least a window old (`Tracks`); `channel_chat_` holds the last chat time
   of every channel in the history (`Heard`);
2. the write in flight began when the limits allowed it (`MayStart`).

`TracksPrune` and `TracksAppend` show that pruning and recording keep (1);
`AllowedMayStart` and `ScheduleWriteStarts` show that a write begins only when
`next_allowed` is not in the future, and that (1) then gives (2); and since one
write is in flight at a time, nothing enters the history until it completes,
when `SpacedAppend` adds it. The end of a session touches neither the limiter
nor the history, which is why the limits hold across reconnects.

The second part of the module asks the opposite: not whether the writer is slow enough, but
whether it is fast and fair. Each theorem adds one invariant to `IInv`.

| Theorem | Property | What it needs beside `IInv` |
| --- | --- | --- |
| `AnswersAreExact` | `NextAllowedExact` | `OrderInv`: the histories are in the order of time, so the entry the code looks at (`front`) is the one that expires first |
| `NeverOversleeps` | `NoOversleep` | `Awake`: an idle session waits no longer than until the first instant at which one of its messages may go. Time moves and the scan prunes the limiter while it waits: `NextAllowedLater` and `NextAllowedPruned` show that neither changes an answer that is still in the future |
| `OvertakesOnlyByLimit` | `NoOvertaking` | `Numbered`: what is enqueued later has a higher number, and all but chat is due at once, so the choice of the scan is one that passes nothing |
| `FailuresAreBounded` | `AttemptsBounded` | `Accounted`: every JOIN begun is a JOIN completed, the one in flight, or the last of a session that has ended; what completed after a given attempt is counted from its start |

The proof of the last one found an error in the property. `AttemptsBounded` used
to compare an attempt also with those before it: as soon as more sessions have
ended in between than the limit allows JOINs, it asked an earlier attempt to be
later. The run has too few sessions to show it. It now asks this of later attempts
only (`i < j`).

`OutboundQueueRefinementProofs` proves both refinements.

- `KeepsItsPromise` (`KeepsPromise`): the mapping takes the clock and the two
  histories. `WriteDone` of a chat message or a JOIN is the step of `PacedSender`
  that appends it, which `IInv` shows to be allowed (`MayStart` is the guard of the
  abstract step); `LogInv` says that what is sent has a channel.
- `CountsItsQueue` (`IsCounted`): the mapping counts the queue by kind and forgets
  messages, times and limiter. `ScheduleWriteCounted` is the core: whatever the
  scan finds, there is an answer of the limits (`Pacing`) for which `ScheduleWrite`
  of `Session` does the same to the counters. It needs `Numbered`, since a timer
  may be armed only when no protocol line waits, and `CountInv`: the queue is
  finite, and a closed session has no timer armed. One lemma per action then
  compares a handler with that of `Session`. This is what justifies that
  `TwitchIrcClient` counts messages instead of keeping them.

### Sessions and the client

From the assumptions on the constants of `Session` and `TwitchIrcClient`.

The first part of `TwitchIrcClientProofs` has a lemma for every method and handler
of a session. What they keep is `Whole`, a conjunction of named parts: `Sound` (the types, the bound of the
queue, a message in flight exactly when a write is, and a protocol that leaves
its login states as soon as it has all it needs), `Waking` (an open session with
something queued has a write or the write timer outstanding), `Watched` (a login
has its timer), `Alive` (an open session has an operation of dialling, or its
read, outstanding) and `Logged` (how far the session is and the state of its
protocol agree). Within a handler they do not all hold: `GoodResult` is what holds
between two of its calls, `Follows` what the calls may do to the operations of
the session.

The loops over responses, actions and lines may stop anywhere, because an action
may end the session. They are recursive functions of a counter; that each round
keeps `GoodResult` is carried through the loop by induction over the counter.
The induction theorems of the library take an operator as parameter, which the
provers cannot instantiate; `Foundations` therefore derives a form with a set
(`LoopStays`) from the least element of a set of numbers.

The second part proves `Invariant`, `Spec => []IInv`: the types, every session
`Whole`, `OneLiveSession`, `NeverIdle`, and `StoppedBySignal` (while the loop runs,
the client is stopping exactly when the wait for signals is over, which makes
`stop` happen once). `OneLiveSession` says that a session which ends is the one the
client holds, so that `handle_session_end` arms the timer of a client that has no
session left; `NeverIdle` says that the timer that then expires finds no session.
From `IInv` follow

- `TypeCorrect`, `OneSession`, `StaysAlive`, `AlwaysAtWork`, `ReadyIsNoticed`,
  `QueueIsServed`: `TypeOK`, `OneLiveSession`, `KeepAlive`, `NeverIdle`, `NoMissedReady`,
  `NoLostWakeup` in every state;
- `StoppedForGood`, `FinishedIsQuiet`: the action properties `StopIsFinal` and
  `ClosedIsQuiet`;
- `JoinsAreGated`, `LoginsAreWatched`, `ImplementsLifecycle`: `JoinGated`,
  `NotReadyIsWatched` and the refinement `FollowsLifecycle`, under `Lasting`: the
  server takes no capability back.

`Lasting` is a hypothesis about the server, not about the code, and holds in all
passing runs. Without it a ready session falls back into its login: the run
`CapabilityRemoved` shows `NotReadyIsWatched` violated, JOINs still queued are then
written in a session that is not ready, and the life cycle of the documents has
no such step. The other theorems do without it.

### The stream assembler

From `AssemblerAssumption`: the sizes are at least one, a buffer holds a line and a
read (`MaxLine + MaxRead <= MaxBuffer`), and a read is no longer than a line and its
CR (`MaxRead <= MaxLine + 1`). The code has 8192, 4096 and 65536.

`push` loops over a buffer and forgets the stream; the properties speak of the
stream, cut by a reference that counts delimiters (`Nth`, `Start`, `Split`). What
relates the two is `Framed`: the lines delivered so far are the first pieces of the
stream, and the buffer is what follows them (`Cursor`: it begins at the start of the
stream or right behind a delimiter). `NextLine` shows that cutting at the first
CR LF of the buffer gives the next piece of the whole stream, although a delimiter
may begin in one read and end in another: the buffer of a live session ends where
the stream ends, so it holds the CR. `Going` is the invariant of the loop
(`RoundGood` shows that a round keeps it and makes the buffer shorter,
`AssembleGood` that `Len(bytes) + 1` rounds end it), and `Inv` that of `push`. From
`Inv` follow `FramingHolds`, `BoundedHolds`, `LongLineOnlyHolds` and
`PrefixDeliveredHolds`, one for each property of the run `Framing`.

The last one is where the assumption on `MaxRead` comes from. `push` drops the lines
it has cut when it throws. None is lost: before a push the buffer holds no
delimiter, so what follows a line that it cuts has come with the last read, behind
the LF, and is at most `MaxRead - 1` bytes. With `MaxRead <= MaxLine + 1` that is not
too long to be kept. With `MaxLine + 2` TLC finds the property violated: a read may
end one line and bring too much of the next. The code is far from that limit, but
nothing in it says that there is one.

### The parser and the encoder

From `LimitsAssumption` (the limits are natural numbers, a line may hold a payload,
and one middle parameter is allowed) and `TextsAssumption` (stems and pieces are
texts). Stems and pieces are any texts, so the theorems hold of every line over any
alphabet.

- `ParametersAreExact` (`ParametersExact`): the loop over the parameters has a cursor
  that skips blanks and stops at a colon; the property speaks of the positions
  where words start. `Scanned` relates them: after each round the cursor is behind
  the words found so far, which are those that start in front of it (`Lists`), and
  no word that starts there has a colon. `RoundScans` shows that a round keeps it,
  `ParametersScanned` that as many rounds as there are symbols end the loop.
- `TagsAreExact` (`TagsExact`): the decoder of a tag value keeps one bit; the property
  counts the backslashes in front of each symbol. `UnescapeIs` shows that the bit
  is set behind a symbol exactly if it is a backslash after an even number of
  others, so that the bit and the parity agree for every run of them, and that the
  text so far is what the kept symbols meant. The map of the tags is written once
  per part: `Mapped` says that each key has the value of the last part so far
  that has it.
- `SendsAsMeant` (`SentAsMeant`): what `make_privmsg` and the answer to PING encode is
  one line; `ParseSteps` follows its parts through the parser, and `OneParameter`
  and `TwoParameters` show that the loop finds the channel as a word and behind the
  colon exactly the text. `Clean` (no line break in it) passes from a line to every
  part of it, which is why the payload of a PING can be sent back.

`LimitsAssumption` is what these proofs need of the constants and the code does not
say: `max_outgoing_payload_bytes` must not exceed `max_irc_line_bytes`, or what is
sent could not be read by the same parser. The code has 510 and 8192.

### The automation

From `SettingsAssumption` (the rules and lists are `Usable`, as those of a
configuration that runs: `RunsSoundly` below), `NoneAssumption` (`None` is neither
an instant nor an event) and `LinesAssumption` (section 2).

The engine keeps an instant per rule, one for notices and two indices; the
properties look at the history of its answers instead. `Inv` relates them: of each
cause the engine remembers the instant of the last answer given in this session,
or that there was none (`Remembers`); each index is the number of answers taken
from its list in this session, modulo the length of the list (`Taken`); and no
entry of the history is later than the clock or of a later session (`Timed`). So
comparing with the last answer is comparing with all of them (`RecentlyExact`),
and the next index is the next turn (`ModNext`). `PrivmsgOutput` shows by induction
over the rules that the loop of `handle_privmsg` gives one answer per rule that
fires. The entries of the past do not change (`Unchanged`), so that the properties,
which say something of every entry, need only be shown of the new one:
`RulesAreExact`, `HypeIsExact`, `ListsRotate`.

### The start-up

From `ConfigurationAssumption` (limits and ranges are natural numbers, the ranges fit
in an `int`), `StartupAssumption` (the default path is not empty) and
`WorldsAssumption`: arguments, lines and variables are texts, and a document is either
none or has members that the library converts to the types it is asked for (for an
`int`: integers, fractions and booleans), since it throws for others. Nothing is assumed of what these texts say.

- `RunsSoundly` (`RunningIsSound`): whatever the files and variables hold, what runs
  has a login, channels and settings of the kinds the other parts use without
  looking. The argument follows a text through the functions of `config.cpp`: a
  line gives no entry, an error or a text (`LineIsText`), the file and the overlay
  give texts (`FileHasTexts`, `OverlayHasTexts`), `NormalizeLogin` of a text is a login
  or nothing (`LoginIsLogin`), the list of channels has each once and stays within
  its limit (`ChannelsAreSound`), and a number that passes its range is the one
  written: without its fraction, and for an integer beyond `int` one with the same
  low bits (`SecondsAreRight`). It discharges
  `SettingsAssumption`: the theorems about the automation hold of what the start-up
  lets run.
- `ChecksAreDry` (`CheckIsDry`): `parse_options` skips the path of an option by moving
  its index; the property says which words are options by counting how many words
  that take a path stand in front of each (`IsOption`). `OptionsAreRead` relates the
  two by induction over the words: the loop waits for a path exactly after a word
  that takes one and is an option itself, and that is so for every second word of
  a row of them (`Parity`).

`Inv` is small: past the options `main` holds what the words ask for, between
the `.env` file and the configuration the environment consists of texts, and
what runs is sound.

### What is only model-checked

- **Liveness**: `EveryMessageLeaves`, `StopEnds`, `LoginDecided`, `Reconnects`. Neither
  fairness nor ENABLED is in the reach of the prover.
- **`CanonicalForm`** of `IrcMessage`: it writes a message again and parses that, so
  that a proof would need the inverse of each function of the parser, for every
  set of tags in every order. TLC compares them on all short lines.
- **`EnvironmentWins`** and **`AsSupplied`** of `Startup`: they compare what is read with
  what the lines were written for. Which line is written for which entry is
  known of the worlds of `MCStartup` only.

## 5. Where code and documents disagree

- **A stopped session dials on** (`StopWhileDialling`). `Session::connect` and
  the handler of the handshake do not look at `closed_`. If the session is
  stopped when its lookup has completed, it connects, shakes hands and arms the
  authentication timer; the program ends up to 80 s late, and a second signal
  does nothing. `StopEnds` holds all the same: it ends.
- **Losing a capability is silent** (`CapabilityRemoved`). An ACK that removes a
  capability moves a ready session back to `capability_negotiation`, where no
  timer runs.
- **A delimiter split in two** (`SplitDelimiter`). A line of exactly
  `max_irc_line_bytes` is refused when its CR arrives without its LF.
  `LongLineOnly` states what holds instead.

`Login` uses servers that never take a capability back.

Seen in the code while modelling it, and excepted by the properties named:

- A JOIN whose write failed is not recorded (`Session::schedule_write`, line 266),
  so "20 JOIN attempts per 10 seconds" (docs/ARCHITECTURE.md:54-55) may be exceeded
  by one per session that ends. `AttemptsBounded` states what holds.
- A JSON number that `int` cannot hold is converted before its range is checked
  (`src/config.cpp`, line 63): 4294967298 is accepted as 2, 1.5 as 1 and `true` as
  1. `RunningIsSound` states what each counts as. A fraction beyond `int` is undefined
  behaviour, so nothing is claimed of its value but its range.
- A read that has completed when its session ends still handles its first line
  (line 146), and may call the ready handler of a session that is over, which
  starts the backoff of the client over. `FollowsLifecycle` and `ClosedIsQuiet`
  hold all the same.

## 6. What is not modelled

- **JSON**: the syntax and the types of members are the library's; a document is
  an object with the members the code reads, or none. Conversion of
  integers, fractions and booleans to `int` is modelled (`GetInt`); what a fraction
  beyond `int` becomes is any number the build may make of it.
- **Texts of errors**, and which of two errors is reported first.
- **What becomes of an answer** of the automation when it reaches a full queue is
  modelled in `OutboundQueue` and `Session`, not in `Automation`: the cooldown
  starts all the same.
- **TLS** options and certificates: calls into a library.
- **The backoff delay**: `TwitchIrcClient` has no clock; a timer expires at any
  time, so what is checked holds for every delay. The attempt counter is kept;
  the exponential delay and its jitter are not.
- **`std::bad_alloc`** and exceptions of the standard library out of handlers.
- **Wall-clock effects**: `steady_clock` never goes back.
- `RateLimiter::reset`, `IrcStreamAssembler::reset`,
  `AutomationEngine::reset_session` and `SessionState::tls_connected`: nothing in
  the program uses them.
- `scripts/`, the tests, CMake and Docker files.

## 7. Plan

Done: all components of section 1 but the two of section 6, their runs, the
three refinements, and the proofs of section 4: every safety property of the
runs `Pacing`, `Order`, `Lifecycle`, `Login`, `Framing` and `Automation`, three of
`Parser` and two of `Startup`.

What could follow: `CanonicalForm`, from the inverses of the functions of the
parser, of which `EscapeInverse` and `UnescapeIs` are the first; `EnvironmentWins` and
`AsSupplied`, once a world says which line is written for which entry for all
lines, as `LinesAssumption` does for the automation.
