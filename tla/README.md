# A TLA+ development of ft_irc

`ircserv` (under `src/`) is an IRC server in C++98: one process, one thread, one
`poll()` loop. Nothing runs in parallel inside it; what is hard is that its
objects point to each other with raw pointers, that clients and the kernel
choose the order of everything, that TCP cuts lines where it likes, that
connections are closed later than they are given up, that an allocation may fail
between any two assignments of a handler or in any phase of the loop and the loop goes
on, and that one command (MODE) is interpreted in two passes. This directory models all of those, checks them with
TLC on small instances and proves every safety property of a passing run, and the
safety of both refinements, with TLAPS for every instance.

## Inventory of the system

| Part | State | Operations | Interacts with |
|---|---|---|---|
| `Channel` (`channel/`) | name, topic, key, limit, `_members`, `_operators`, `_invitedUsers`, `+i`, `+t` | `handleJoin/Part/Kick/Topic/Invite/Mode/ModeOperator/ChannelPrivmsg` | `Client` lists, write buffers |
| Channel registry (`network/ChannelHandler.cpp`, `ServerDisconnect.cpp`) | `_channels`, keyed by the lower-case name | find, create, delete, remove a client everywhere | `Channel`, every `Client` |
| `Client` (`Client.cpp`) | nickname, username, password verdict, `_is_registered`, `_joinedChannels`, `_invitedChannels`, buffers, timers | `sendReply`, `popLine`, `tryCompleteRegistration`, `broadcastQuit`, `broadcastNickChange` | channels, event loop |
| Commands (`common/commandlist/`) | none | `execute` | all of the above |
| MODE (`Mode.cpp`, `Channel::handleMode`) | local variables of two loops | one reading for `o`, a second for `i t k l` | `Channel` |
| Message parser (`parse/Message.cpp`, `Parser.cpp`) | the fields of a `Message` | split a line | dispatcher |
| Dispatcher (`parse/CommandRegistry.cpp`) | table of commands | 421, 451, `execute` | commands |
| Event loop (`Server.cpp`, `ServerConnection.cpp`, `ServerDisconnect.cpp`) | `_clients`, `_poll_fds`, `_to_disconnected`, `_closing` | refresh, poll, accept, receive, send, cleanup, idle check | `Client`, commands |
| Text and replies (`common/`) | none | `toLower`, `makeReply`, `makeCommand`, validity of names | everything |
| Process (`main.cpp`, `Server::init`, `~Server`) | `g_stop`, `_server_fd`, `_port` | arguments, signals, system calls of `init`, clean-up | event loop |

Hard behaviours, and what makes each part correct:

- **Raw pointers both ways.** A channel lists clients, a client lists channels
  (once by spelled name, once by address), both are deleted. Correct: no list
  ever names a deleted object, and the two sides agree. When an allocation fails
  half-way they need not agree any more; correct then: no pointer that is followed
  dangles.
- **Commands that loop over what they change.** JOIN 0 parts channels while
  walking a copy of the map; a MODE line can remove the right of the client that
  runs it. Correct: the pointers such a loop holds stay valid, and a right that is
  gone cannot be used by the rest of the line.
- **Two readings of MODE.** Correct: the effect is that of one reading from left
  to right (except in the one case stated in `TwoReadings`), and the members are
  told exactly what changed.
- **Registration in any order, names that move between clients.** Correct:
  nicknames are unique up to case at any moment, nobody registers without the
  password, nobody waits for nothing, and a client that only reads its lines knows
  who is in its channels, by name.
- **Deferred disconnection and reused descriptors.** Correct: the tables agree, a
  client that was told it is closed is closed, for the reason it was told, in time.
- **Timers, slow readers, failed accepts, signals.** Correct: they end.
- **Bytes.** Lines arrive in pieces, are cut at 510 bytes, at 300 (topics) and at
  8192 without a newline (floods); replies leave in pieces. Correct: no character
  is split, no line is lost, joined or read as something else, and the limits are
  the ones that were meant.

The hazards, line by line, are in `PROJECT.json`.

## Modules

```
Channel ── ModeCommand ── ChannelServer ─┬─ ChannelView ───────┐
                                         ├─ ChannelRefinement ─┴─ MCChannels
                            Membership ──┘ (INSTANCE)
                                         ├─ ChannelFaults ─────── MCFaults
                                         ├─ ModeReference ─────── MCModeReference
                                         ├─ IrcServer ─────────── MCIrcServer
                        Registration ────┘ (INSTANCE)
ChannelRefinement ── ChannelServerProofs ─┬─ ChannelViewProofs (ChannelView, ModeReference)
                                          ├─ ChannelFaultsProofs (ChannelFaults)
                                          └─ IrcServerProofs (IrcServer; INSTANCE RegistrationProofs)
Registration ─┬─ MCRegistration
              └─ RegistrationProofs
PollLoop ── PollRefinement ── MCPollLoop
ConnectionLife ┘ (INSTANCE) └─ PollLoopProofs
IrcText ─┬─ MessageParser ── Replies ─┬─ MCLongName
         ├─ ReadBuffer                │
         ├─ WriteBuffer               ├─ MCParts
         ├─ Naming                    │
         └─ NameList        Lifecycle ┘
PartsProofs: Replies, ReadBuffer, WriteBuffer, Naming, NameList, Lifecycle
RecursionProofs: facts about recursive functions, used by PartsProofs and ChannelViewProofs
```

**Channel** holds the state of clients and channels and the commands JOIN, PART,
JOIN 0, KICK, TOPIC, INVITE, PRIVMSG and the notice of a NICK. One handler is one
step. A `Client*` is an element of `Client`, a `Channel*` the registry key of the
channel; both can be used again after a deletion, so that a pointer left behind
silently denotes the next object, as in the program. A vector of pointers is a
set (every insertion is guarded, every removal removes all copies). Channel names
are abstract, with a function `lower` that identifies spellings. `sent` holds the
lines the last step appended to each write buffer; a line is a record of sender,
command, channel and argument. The entry of a key that has no channel holds what
the constructor would give, so creation is only a change of `channels` and `name`.
A nickname is identified with its client: that this is sound is `NickUnique` of
`Registration`, and `IrcServer` does without it.

**ModeCommand** is MODE. Each iteration of either loop is a step; `frame` holds
the loop's local variables, and while it is not idle no other action is enabled,
because one thread runs everything. `x` stands for every unknown letter. The
limit goes through `parseLimit` and `atoi`, while the announcement carries the
string as it came.

**ChannelServer** adds connections, registration and disconnection to them
(`Server::disconnect` with `removeClientFromAllChannels`), `Init`, `Next`, and the
invariants. Two modules add history variables to it: **ChannelView**, what each
client knows from the lines it was sent; **ModeReference**, the MODE line and the
channel as they were when the command began, with the reference reading of a line,
one character after the other (`Through`).

**Membership** is what all of this promises its users: who is in a channel, who
runs it, who may come in while it is locked or full, and that only operators change
what it asks for. **ChannelRefinement** maps
`ChannelServer` to it (`Implements`). Topics, names, the loops' local variables and
every refusal are stutters. Of the gates of JOIN the invitation and the limit are part
of the promise; the key is so only as far as it is set and removed: the key a JOIN
brings is not kept, so no later state can tell that it was the right one.

**ChannelFaults** is `ChannelServer` with `std::bad_alloc`: a handler may be left
between any two of its assignments, the exception marks the client ("Internal
error"), and the cleanup itself may fail after some channels were left.
`PointersSurvive` and `ChannelSideFirst` are what remains of the agreement. Here a JOIN
may leave a channel without members behind, and the next PART or KICK that is refused
on it deletes it (`notOnChannel`: `isEmpty()` is asked whatever `handlePart` did).

**Registration** is PASS, NICK, USER, QUIT, PING and the refusals of the dispatcher,
with the search for taken nicknames. A connection may be lost at any moment.

**IrcServer** composes `Registration` and `ChannelServer`: they share the clients
and who is registered, a line goes to one of them, a registered client's NICK is a
step of both. Commands name clients by nickname (`findClientByNickname`), and a
closing client still is a member until it is disconnected. `roster` is what a
reader knows, by name.

**PollLoop** is `Server::run`, phase by phase: refresh, poll, accept, one visit per
ready descriptor (with one step per line read), cleanup, idle check. The kernel
and the peers choose what `poll`, `accept`, `recv` and `send` return. What a line
does is reduced to what the loop can tell apart: it answers some clients,
registers, closes the link, or throws. Time passes while `poll()` waits.
An allocation may fail in the loop's own functions too. In the visit of one descriptor
`run` marks the client ("Internal error"). Elsewhere, or if that mark fails, the
exception reaches the outer `catch` and the iteration is given up: `Throwing` is the set
of phases in which that may happen, `refresh`, `events`, `cleanup` and `idle`. It may
leave a mark without its text (`Blank`), a cleanup that has forgotten whom to
disconnect, or a client that was sent its ERROR line but is not in `_closing`
(`ServerDisconnect.cpp:79-80`). `told` is a history variable: the reason in the ERROR
line. **ConnectionLife** is what the loop
promises one connection (open, then one reason to close it, then gone, without a way
back and in finite time); **PollRefinement** maps `PollLoop` to it.

**IrcText** holds the functions on bytes: the two truncations, case folding, the
checks of nicknames, channel names, keys and limits, `find` and `substr`. The
others are small machines on top of it:

- **MessageParser**: `spliter`, one step per field, then `operate` and `dispatch`.
  Its reference definition `Meaning` reads the same line by its words, all at once.
- **Replies**: `makeReply`, `makeCommand`, `IrcReply`, the server's own PING, PONG and
  ERROR, and the truncation of `sendReply`; what they make is read by the parser of the
  same code. A line has a text after a colon or none (JOIN, MODE, INVITE, 004, 324, 341).
  The parameters before it may be anything that a client has sent: 432, 403, 401, 476
  and 421 repeat it as it came, spaces and a leading colon included, if it was the last
  of its line. `Legible` says how far such a line can be read.
- **ReadBuffer**: `recv`, `_read_buffer`, `popLine`, the flood limit.
- **WriteBuffer**: `sendReply`, `_write_buffer`, partial `send`, the link that closes
  when its buffer is empty, and the limit on the send queue.
- **Naming**: a parameter typed byte by byte, as a name, a topic or a limit.
- **NameList**: the loop that puts the members on 353 lines.
- **Lifecycle**: `main`, `init`, the skeleton of the loop, signals, `~Server`.

In every module the definitions marked *Mutant* are not part of the model: each is
a plausible mistake in the definition that follows it, and `PROJECT.json` names
the property that the mistake breaks.

## Runs

| Run | Question | Instance | Distinct states |
|---|---|---|---|
| `channels` | do members, operators, invitations and channels live and die together, do readers know, is every step one of `Membership`? | 3 clients, 1 channel in 2 spellings, 1 topic, 1 limit, 1 key, 9 mode strings | 217 thousand |
| `faults` | what remains when allocations fail? | 2 clients, 2 channels | 72 thousand |
| `modes` | do two readings of MODE do what one would, and is it announced? | 2 clients, 14 mode strings, 10 parameter lists | 233 thousand |
| `registration` | is every order of PASS, NICK, USER harmless? | 3 connections, 3 nicknames | 124 thousand |
| `whole_server` | does a reader know its channels by nickname? | 3 clients, 4 nicknames in 3 classes, 1 channel | 35 thousand |
| `poll_tables` | does a reused descriptor start clean, even after exceptions in any phase? | 1 descriptor, buffers of 2 | 81 thousand |
| `poll_told` | is a client told the truth, in time, beside another one? | 2 descriptors | 2.8 million |
| `poll_live` | do silent and slow clients go, does the listener come back, does each connection live as promised? | 1 descriptor | 10 thousand |
| `parts` | the byte-level modules and the process | see below | 256 thousand |
| `wrong_password`, `cleanup_throws`, `long_name` | see *Disagreements* | | violations |

**`parts`.** The parser with the replies, the two buffers, names, name lists and the
process share no state. One run checks them all: `part` says which of them a
behaviour is about, and the others stand still. Lines: every line of up to five of
the bytes the parser tells apart (space, colon, CR, NUL, a letter, a command), lines
with one parameter too many (`MaxMiddle` is 3 instead of 14), and lines around the
limit (`MaxLine` 19 instead of 510) with a character of two bytes at every offset.
Replies: every one with a source or without, up to two parameters, names or echoes
(empty, of several words, with a colon first), and a text or none, in more and less room
than it needs.
Input: every stream of seven bytes over CR, LF and a letter in every partition into
`recv` calls of up to three, with a flood limit of two. Output: three replies, some
over the limit, and every partition into `send` calls. Names: every text of up to
four of 15 bytes that stand for the classes the checks tell apart, leading and
continuation bytes included; a limit has three digits and an int holds 1024, so that
one digit more would wrap around. Name lists: up to four members with entries of one
to three bytes under five prefixes, from ample to just enough. Process: ports on both
sides of both bounds.

**Why the other bounds are enough.** The channel invariants relate one client and
one channel; a second client is needed for KICK, INVITE and for a channel that
survives a departure, a third for an operator, a target and a bystander. Two
channels are needed only where a client is in both (`faults`, where a JOIN 0 therefore
walks over two entries; for any number of them the theorems about `ChannelServer` and
`ChannelFaults` hold); two spellings where keys and names can be confused. A limit
of two among three clients is reached, and put on a channel that is over it. The mode strings include more than three letters
with parameters, a `-k` that consumes one, missing and ill-formed parameters,
repeated letters, and lines that take or give operator status in the middle. Four
nicknames for three clients let one be given up by one client and taken by another.
In `PollLoop` seconds are scaled: limits of 1 to 3 with steps of one second keep the
order of all events that 300, 60 and 5 seconds allow, because the code only
compares a clock with its limit; clocks stop above what a comparison can reach, and
a buffer counts up to one line over its limit. `MaxLines` bounds the lines of one
`recv`.

**Symmetry and views.** Clients and descriptors are symmetric in runs for invariants
and action properties only; `poll_live` and `parts`, which check liveness, have no
symmetry. The view `ButSent` leaves out `sent`, which no guard reads: properties
about it are action properties, which TLC evaluates on every step, also on one to a
state it knows.

**Time.** `MaxStep` is the longest time from one iteration to the next; the code
asks `poll()` to wait for at most one second. `PingBeforeTimeout` needs that a
stall is not longer than half of `TIMEOUT_SECONDS` (`StepAssumption`).

**Fairness.** `PollLoop`: `WF(Loop)`, the process goes on running, and `SF` of a poll
in which at least a second passes, the clock does not stand still however busy the
loop is. `Lifecycle`: `WF(Run)`, the process is scheduled and `poll()` returns after
its timeout. Nothing is assumed of peers: they may be silent, never read, or send
for ever; and no event is assumed to wake the `poll()` that a signal has missed.
`DeafOnlyWhenBusy` is weaker than "the listener comes back", because the code does
not guarantee that: with an event in every second and no disconnection it stays off.
`ConnectionLife` has no fairness of its own; that a closing connection ends (`Ends`)
is derived from that of `PollLoop`.

The `poll_*` runs and `parts` do not check for deadlock: the server stops on a signal,
and a part ends when its line, stream or process does. All other passing runs do.

## What is proved

Every theorem holds for every value of the constants that satisfies the named
assumptions. These say what kind a string is (`NameAssumption`: lower-casing is
idempotent and keeps names names; `ParamAssumption`, `LineAssumption`, `NickAssumption`,
`PasswordAssumption`, `ReplyAssumption`, ...) and in what order the limits of the code
stand (`TimeAssumption`, `StepAssumption`, `LimitsAssumption`, `MaxLineAssumption`,
`DigitsAssumption`); TLC evaluates each of them on the instances it checks.

What a recursive definition computes is proved without the induction theorems that
take a predicate: `RecursionProofs` states `Recursion` (a recursive function exists and
obeys its equation) and `UpTo` (induction, with the predicate as a set) from the least
element of a set of numbers. A loop of the code and its reference definition are then
compared position by position.

### Channels

- `TypeCorrect` (`ChannelServerProofs`): `Spec => []TypeOK`, one lemma per command.
- `ChannelIntegrity` (`ChannelServerProofs`): `NoDanglingPointer`,
  `MembershipAgrees`, `OperatorsAreMembers`, `InvitesAgree`, `NoEmptyChannel`, the last
  four also as theorems of their own. None of them is inductive alone. The inductive
  invariant `IndInv` adds that a key without a channel has the constructor's values
  (so the first JOIN is never refused and leaves no empty channel), that a channel is
  registered under the lower-case form of its name (so erasing by spelled name erases
  the right entry), and what a running loop holds (`FramePointers`: what is left of
  JOIN 0's copy is still joined; `handleMode` runs for operators only). TLC checks the
  parts of `IndInv` that are properties of their own; the proof is one lemma per
  command for `Core` and one per kind of loop for `FramePointers`.
- `OperatorlessIsFrozen`: the action property `FrozenWithoutOperators`, from `IndInv`:
  a channel without operators never gets one and its modes stay.
- `NothingLeftOver` (`ChannelServerProofs`): `NoBranchLeft`. That the letter at the head
  of the copy has its parameter does not follow from the copy's length; `LettersInv`
  says that the letters that want a parameter can be matched with the parameters in
  order, and that the last sign written is the sign `handleMode` will be under.
- `MembersKnowTheirChannels` (`ChannelViewProofs`): `MirrorExact`. `IndInv` of the
  server is enough (the history variable restricts nothing); one lemma says what each
  kind of line does to a view (`ViewGone`, `ViewJoined`, `ViewOper`, `ViewTopic`,
  `ViewEnter`), one per command that the step's lines tell exactly its changes
  (`Knows`). `JoinedIsMember` is where it would fail: QUIT finds its readers through
  `_joinedChannels`.
- `ChannelsImplementMembership` (`ChannelServerProofs`): `Spec => Implements`, limits and
  keys included. Under
  `IndInv` every action of `ChannelServer` maps to one action of `Membership` or to a
  stutter: a step lemma per command, and for the loops one per kind of iteration. The
  invariant is needed where the code relies on it without a test: an empty channel is
  neither locked nor limited, an invitation names a registered client, `handleMode` runs for operators.
- `TwoReadingsAreOne`, `ChangesAreAnnounced` (`ChannelViewProofs`): `TwoReadings` and
  `Announced`, for MODE lines and parameter lists of any length. Both compare what the two
  loops did with a reading of the whole line, of which the loops only hold the rest, so
  the invariant (`RefInv`) says what is to come: while `Mode::execute` copies, reading the
  rest of the line from where it stands is reading the line (`Scanned`); while
  `handleMode` applies, hearing the rest of the copy is (`Applied`). In both, what was
  copied or announced so far `Tells` the modes reached, and uses up exactly its own
  parameters *whatever parameters follow*: without that quantifier the next letter could
  take one that belongs to a letter after it.
- `PointersSurviveFaults`, `ChannelRecordsFirst` (`ChannelFaultsProofs`):
  `PointersSurvive`, `ChannelSideFirst` when any allocation may fail. `IndInv` is false there: channels may be empty, an invitation may
  be on the channel's list only. `FaultInv` keeps the direction that the order of the
  assignments guarantees, and every interrupted handler has a lemma of its own.

### Clients and the event loop

- `NicknamesAreUnique`, `RegisteredStaysComplete`, `RegistrationEnds`
  (`RegistrationProofs`): the invariants of `Registration` are inductive together,
  because `TypeOK` includes that an address without a client holds nothing.
- `ServerRegisters`, `ServerIntegrity`, `ServerImplementsMembership` (`IrcServerProofs`): the
  composed server is a behaviour of `Registration` (with `registered` and the clients shared),
  keeps what `ChannelServer` keeps and implements `Membership`, although commands find
  clients by a nickname that may just have changed hands and a closing client still is a
  member. The step lemmas of the two components are used as they are; what is new is that
  a name finds a client of the right kind or nobody.
- `NamesAreKnown` (`IrcServerProofs`): `RosterExact`, for a server with any number of clients,
  channels and nicknames. It needs both components: a line says a *name*, and it stands for
  one client only because `NickUnique` holds at that moment (`LoginInv`) and the lists agree
  (`IndInv`); a NICK must reach every client that shares a channel before the old name is
  taken again.
- `TablesStayInStep` (`PollLoopProofs`): `TablesAgree`, with or without exceptions in
  any phase. `TableInv` adds that a free descriptor has no past (`Fresh`).
- `ToldStaysTold`, `PingComesFirst`, `DeadlinesAreKept`: `ToldIsClosed`,
  `PingBeforeTimeout`, `DeadlinesHold`, from `LoopInv`. It adds where a client that was
  told can be in each phase (`Condemned`), that silence for half the limit means a PING
  was sent (`Pinged`), and how far each clock can be over its limit at each point of an
  iteration (`Timed`, `slack`): by one `MaxStep` after `poll()`, by two when the limit was
  just passed at the last check. Hypothesis `Throwing = {}`, no iteration is given up; the
  exceptions that only mark a client (`lineThrows`, `sendThrows`, ...) are allowed. The run
  `cleanup_throws` shows that `ToldIsClosed` fails without it.
- `LoopImplementsLife`: `LifeSteps`, the safety part of the refinement of `ConnectionLife`,
  under the same hypothesis: every phase of the loop changes the stages of connections
  only as promised, several of them in one step.

### Bytes and the process (`PartsProofs`)

- `NothingLeftOpen`: `ClosedAtExit`, from `LifeInv`: what is open at each point of `main`.
- `NoNameIsLost`: `EveryoneListed`, for any number of members and names of any length up
  to the limit (`ListInv`: the string that is being built fits its line).
- `NamesStaySafe`: `NamesAreSafe`. `ParametersAreKept`: `KeptAsMeant`; its part about topics is
  `TopicsStayWhole`, its part about limits compares the loop of `atoi` with the digits at
  their places (`AtoiIsNumber`), under the bound that keeps every partial value within an
  int (`NoOverflow`). Both truncations of the code are one operator, `Shorten`, and `CutKeeps` says of
  it that it cuts before the first byte of a character, loses less than one, and keeps
  UTF-8 what was UTF-8.
- `MessagesAreClean`, `CharactersAreKept`: `CleanMessage`, `KeepsCharacters`. `ParseInv` says
  that the parser always stands at the beginning of a word; `Slice` that a text of whole
  characters cut between characters is one.
- `LinesReadAsMeant`: `ReadsAsMeant`, for lines of any length. `MeantInv` says which word of the
  declarative reading the parser stands at: the k-th parameter it has is the k-th word
  after the command, and none of them began with a colon.
- `RepliesReadBack`: `ReadBack`, for lines put together from any names, texts and echoed
  parameters, in any room. A reader finds the source and the command as soon as there is
  room for them (`Legible`; the run `long_name` shows a line in which there is none), every
  parameter up to the first that is too long or not a single word, and if there is no such
  parameter, no other parameters and the text in whole characters. `CutAfter` says that
  the cut takes whole characters of the end of a line and nothing before it, `Shape` that
  the line then is its opening, the words `G` that can be read, and a rest `y`; `Standing`
  is where the parser is among them. `WireInv` quantifies over `G` and `y`: nothing is
  assumed of the rest, because what a parameter holds cannot reach back.
  `WireAssumption` says that none of the parts holds a byte that ends a line: those of
  clients came in lines (`MessagesAreClean`), the others are literals of the server.
- `LinesArriveWhole`, `FloodIsBounded`: `ChunkingInvisible`, `FloodLimit`. In `ReadInv` the
  buffer is the rest of the stream after `Taken` bytes, `Taken` ends a line, and as many
  lines were popped as end there. `FloodLimit` needs `ShortTails` (a suffix without a
  newline is never longer than the limit while the link is open) and `LimitsAssumption`:
  one `recv` does not fill more than the limit and a byte, 1024 against 8192 in the code.
- `RepliesArriveWhole`, `ErrorIsSent`: `PeerReadsReplies`, `FlushedHasError`. In `WriteInv` what
  was sent and what waits are together the formatted replies, line by line (`AsLines`).

TLC has checked the inductive invariants on the instances above, `RefInv` on a smaller
one and with short continuations only (it quantifies over all sequences of parameters);
`WireInv` and `Tells` speak of what TLC cannot enumerate and rest on the proofs. One proof
attempt corrected the model: the reading of a line in `IrcServer` was a `CASE` with
overlapping guards, which says less than the order of tests in the code; it is now the
same chain of conditions.

### Only model-checked

Liveness, which is out of the prover's reach: `SilentIsClosed`, `SlowReaderIsClosed`,
`DeafOnlyWhenBusy`, `StopsOnSignal`, and the part of `LifeKept` that says that a closing
connection ends. The safety part of `LifeKept` is `LoopImplementsLife`.

## Disagreements between code and documentation

- `wrong_password`: `src/README.md:123` says that a wrong password is answered with
  464 and the connection closed. `Pass::execute` only remembers the verdict; a
  later right PASS replaces it and the connection registers.
- `cleanup_throws`: `cleanupDisconnected` empties the table of marks before it
  handles them, so an exception there forgets the rest, although `run` catches it
  and goes on. The same promise is lost when `checkIdleClients` throws between the ERROR
  line and the entry of `_closing` (`ServerDisconnect.cpp:79-80`; `Throwing = {"idle"}`).
- `long_name`: `src/README.md:126-128` says that the members of a channel see the QUIT
  of a client that times out. `User::execute` does not bound the username, and
  `sendReply` cuts every line at 510 bytes: with a username of nearly 500 bytes the
  source fills the line and the command is cut off.

Noted while modelling, without a run of their own:

- A closing connection may stay up to two seconds longer than the "5 seconds at most"
  of `src/README.md:108`: the comparison is `> 5` in whole seconds and the cleanup
  comes an iteration later. `DeadlinesHold` states the bound that holds.
- The flood limit (`src/README.md:129`) is tested only when the buffer holds no newline:
  a line of up to 8192 + 1024 bytes is accepted if its newline comes with the `recv`
  that crosses the limit. `FloodLimit` states what holds.
- An INVITE whose second record fails (`Channel.cpp:356`) leaves an address on the
  channel's list that the client does not know of; `ChannelSideFirst` states the
  direction that survives. A `deleteChannel` that fails may leave an empty channel with
  its modes.
- `+i-o me` sets nothing but the operator change, because `o` is applied first; a MODE
  announcement carries no argument for `-k`, and a key that begins with a colon is
  announced as it is, so that readers take the colon for syntax.
- What a client has sent is repeated to it without a colon, so that a reader takes the
  echo of a trailing parameter for several: `NICK :a b` before registration is answered
  `:ircserv 432 * a b :Erroneous nickname` (`Nick.cpp:60`; likewise 403, 401, 476 and
  421). `ReadBack` states what can still be read.
- One command may append the same line twice to a buffer: `MODE #c +xx` is answered by two
  identical 472 lines (`Mode.cpp:91-94`).
- After a failed `accept` steady traffic keeps the listener off.

## Not modelled

The wording of replies and of log lines, the text of the welcome replies, the reading of
`errno` beyond the cases the code tells apart, the copy constructors the code declares
and never uses, the build files. Which lines had been queued when an allocation failed
(`ChannelFaults` shows such a step as silent). `MessageParser` stands for the names of
the commands by short words; the handlers behind them are the other modules.

## Plan

More of the system could be composed (the buffers under the event loop, the faults
under the whole server), at the price of instances too small to say anything; the
proofs of the parts would carry such a composition as they carry `IrcServer`.
