# A TLA+ model of mupen64plus-netplay

mupen64plus-netplay adds *deterministic lock-step netplay* to the mupen64plus
emulator (`src/README.md`). Every player runs the whole game; only controller
input crosses the network. The games stay identical because, for every frame
and every controller port, every machine is given the same input. A port's
input is delayed by some frames, so that it can reach the other machines
before they need it.

These modules model that client library (`src/netplay/client`) and the plugin
built on it (`src/netplay/client/plugins/mupen64`): TLC checks them on small
instances; TLAPS proves, for all values of their constants, every safety property
the runs check: of the queue, of a handler, of all clients in lock-step (which are
never all waiting), of the start of a game and of the button coder, and that each
client in lock-step is a handler.

Paths below are relative to `src/netplay/client` unless they say otherwise.

## 1. The system

| Component | State it keeps | Operations |
|---|---|---|
| `InputQueue` (`input-queue.h`, `.hpp`) | a map from frames to buttons, the latest frame requested, the delay; a mutex and a condition variable | `PutButtons`, `GetButtons` (with or without a deadline), `QueueSize` |
| `EventStreamHandler` (`event-stream-handler.h`, `.hpp`) | one queue per connected port, the stream, `status_` | `ClientReady`, `WaitForConsoleStart`, `PutButtons`, `GetButtons`, `TryCancel`, accessors |
| `NetplayClient` (`client.h`, `.hpp`) | console id, client id, local ports | `PlugControllers`, `MakeEventStreamHandler` |
| `PluginImpl`, `host_utils` | the client, its handler, the dialogue's answers, the emulator's controllers | `InitiateNetplay`, `PutButtons`, `GetButtons`, `InteractiveConfig`, `InteractiveStartConsole`, `PermuteNetplayControllers`; `MakeConsole`, `StartGame` |
| mupen64 entry points (`mupen64.cc`, `config-handler.cc`) | `l_PluginImpl`, the configuration, the emulator's `Enabled` | `PluginStartup`, `InitiateNetplay`, `PutKeys`, `GetKeys` |
| port conversions (`util.cc`) | none | conversions between four numberings of the ports |
| `Mupen64ButtonCoder` (`coder.cc`) | none | `EncodeButtons`, `DecodeButtons` |
| scripts (`scripts/`) | none | `make-console`, `start-game` |
| server and protocol buffers | consoles, who is plugged in, who is ready | a git submodule that is not in the repository: external |
| emulator core and UI | the game | git submodules that are not in the repository: external |
| dynamic library wrapper, macOS application, build files, tests | nothing of the netplay's | not modelled, see section 8 |

How they interact: the emulator calls the entry points, which call
`PluginImpl`. It asks the player for a console (`host_utils` makes one by RPC),
plugs the controllers through `NetplayClient` (an RPC), gets an
`EventStreamHandler` from it, sends `client_ready` on a bidirectional stream
and blocks until the server sends `start_game`. From then on the game calls
`PutButtons` and `GetButtons` once per port and frame. A put goes into the queue of
the local port and, at the delayed frame, to the stream. A get takes from the
queue of the port and, when that has nothing yet, reads events off the stream,
of any player and frame, until it has.

What is hard about it:

* **Concurrency.** The queue is a monitor for several threads, which notifies
  after it has released its mutex. The machines run concurrently, and each may
  be blocked on the input of the others.
* **Ordering.** Keys of several players and frames come in any order and
  grouping. Two queues of one port, the local one and the remote one on another machine,
  shift frames differently (`input-queue.hpp:17-34`).
* **Failure.** A call stops in the middle of a batch or event; a stream breaks
  while others go on; an RPC fails before or after the server acted, and what
  it did stays. A second game is started after such an attempt, or the emulator
  is ended and started again, while the server keeps what it was told.
* **Timeouts.** A deadline of `GetButtons` races a late put.

What makes the components correct:

* *InputQueue*: frames come out once each, in order, with the buttons accepted
  for them (or the default ones in the delay); no consumer sleeps on a frame
  that is there.
* *EventStreamHandler*: what is sent, queued and played are the same inputs;
  the stream is read only for what is missing; there are queues exactly for the
  game that was started.
* *All clients together*: agreement on the input of each port and frame; no game
  ends but for its own broken stream; bounded skew; no input lost between two
  streams that hold; the games never all wait for each other; and each client
  does what its handler does.
* *Starting a game*: who gets to play has the controllers of the server's
  console, and no two players put input for the same one; nobody plays before the others are ready; an earlier failure does
  not break a later game; whoever waits for ever waits for a request to start a
  console that is ready, or for a client that was given up.
* *Coder*: what was encoded is decoded again.

## 2. Modules

```
InputTape                 abstract: what a port promises the game
InputQueueData            the data of one queue; Accepts, Insert, Take ...
 |- InputQueue            the queue as a monitor        implements InputTape
 |   |- InputQueueProofs  (with InputQueueLemmas)
 |- EventStreamHandler    one client, arbitrary server
 |   |- EventStreamHandlerProofs  (with InputQueueLemmas)
 |- Lockstep              all clients, relaying server  implements InputTape
 |   |- LockstepHandlers  each of its clients           implements EventStreamHandler
 |   |- LockstepProofs    (with InputQueueLemmas)
 |       |- LockstepPhaseProofs
 |           |- LockstepHandlersProofs  (of LockstepHandlers)
Session                   from emulator start to the first frame, all machines
 |- SessionProofs
ButtonCoder               the bits of a BUTTONS on the wire
 |- ButtonCoderProofs
MC*                       instances for TLC
```

`map` in `PROJECT.json` gives the source lines of each definition. The names
are the code's where TLA+ allows it.

**Operators marked "A bug".** Each module holds a few definitions, next to the
right one, of the mistake a programmer could make in its place (a dropped early
return, a missing delay, a reset forgotten). Nothing uses them. Put in the place of
their neighbour they must make a run fail; `mutants` in `PROJECT.json` lists
which property notices which.

### InputTape

A tape of inputs indexed by frame. `Write` fills a cell nobody has written,
`Read` hands the game the next cell once it is written. The cells of the initial
delay are written at the start. A queue must implement it, and so must each
client's view of each port, all with *one* tape per port: lock-step in
its shortest form.

### InputQueueData and InputQueue

`InputQueueData` has the four data members as a record, and the computations of the locked
sections. `Accepts` is the negation of the four early returns of `PutButtons`
(`input-queue.hpp:58-78`); `Ready`, `Answer` and `Advance` describe a get that
does not wait, for the modules where one thread uses the queue.

`InputQueue` models the threads. A section that holds `m_` is an action; what
the lock leaves open is state in between: `notifying` (a producer has released
`m_` and not called `notify_all` yet) and, per consumer, `waiting` (asleep),
`woken` (awake, without `m_`), `expired` (out of time, without `m_`). Spurious
wakeups are allowed. `wait_for` tests its predicate once more on expiry, as the
standard says. A return value is not a variable: a refused put or get
changes nothing, and the histories `accepted` and `delivered` record the
successes.

### EventStreamHandler

One handler, used by one thread as the plugin does. A method that does not
block is one action. One that blocks in `Read` is split there. The
server is arbitrary: any event of `Events` at any time, with keys for wrong
ports, of local ports, contradictory, undecodable, or a `start_game` that does not
fit. A stream may break for writing (`broken`) and later for reading (`closed`).
Loops over batches and events stop at the first element that fails and leave
the earlier ones queued: `Passed` counts them. Histories record what was put,
sent, received and played.

The constructor's aborts (no id, ports out of range or doubled) are
assumptions on the constants here, and an outcome in `Session`. The other assumptions
are the types of the code: `Batches` are vectors of (port, frame, buttons)
(`Tuple`), and `Events` are messages with the fields the handler reads
(`IncomingEventPB`), with any content.
`ClientReady` may be called at any time and opens a stream in place of the one there
was. `WaitForConsoleStart` is not called again once it has succeeded, as in
`plugin-impl.cc:101`; after a failure it is, as in `event-stream-handler_test.cc:214-263`.

### Lockstep

All clients of a started console. Each has a queue per port, in the state
`EventStreamHandler` leaves them in after `start_game`. The game loop is that of
`integration_tests/integration-tests.cc`: put the input of the local ports, get
that of every port, next frame. (The plugin converts the emulator's controllers to ports first;
of a controller that `PermuteNetplayControllers` has filled in that never fails.) The server relays a key to every other client;
`incoming` is a set, so order and grouping are arbitrary. `StreamBreaks` cuts a
client off and loses any part of what was on its way. A game whose stream cannot be
written to goes on as long as it can: the put has queued its input
and the loop ignores the error.

`integration-tests.cc` calls a constructor and a method
(`ReadyAndWaitForConsoleStart`) that the handler no longer has. It is read for the
intended game loop and for what it expects of the server.

### LockstepHandlers

The composition of the two. `Lockstep` describes a client in terms of its game
(which ports it has still to get, what it has played); `EventStreamHandler`
describes the same code call by call, against an arbitrary server. Here every
client of `Lockstep` is mapped to a handler: what it has put, received and
played is computed from the inputs, queues and games, and one history, `sent`,
is added. `ClientsAreHandlers` says that each step of `Lockstep` is one step of
each handler (a put, a get, an event read, a break), or leaves it alone. So the two
modules agree on every early return and on every key written. The steps of
`HandlerStep` are the disjuncts of `EventStreamHandler!Next` with their witnesses: the
batch that is put, the port asked for, the event that is read. An event has its keys
in the order of `SetToSeq`, so a key set must be finite: `FinitePortsAssumption`
(the ports are an enumeration of the protocol) sees to it.

### Session

`InitiateNetplay` of every machine, stage by stage. `at` is the stage: each
ends in a call to the player or to the server, so the machines interleave
between stages. An RPC may fail (before or after the server acted), be refused
(the code often does not look at the status), or succeed. A machine may open several
games in a row; `l_PluginImpl` is replaced by each, except when netplay is
disabled in the configuration (`mupen64.cc:80-82`). `PermuteNetplayControllers`
is modelled with its two containers walked in parallel (`ChannelOf`).

Around it are the entry points. Reading the configuration has three outcomes
(`ConfigMissing`, `ConfigDisabled`, `ConfigEnabled`). `enabled` is the emulator's
`Enabled`, and `handler` says whether the plugin has a `stream_handler_`; `Keys` is
a `PutKeys` or `GetKeys` that finds none. The emulator is assumed to call
them in every game it runs with `Enabled` set, and to keep its `NETPLAY_INFO` from
one game to the next: it is not in the repository. `Restart` ends the emulator
at any stage and starts it again, with nothing but the server remembering. The
scripts `make-console` and `start-game` run at any time.

The server is external: it plugs free ports of a console that has not started,
starts a console whose clients are all ready, as `integration-tests.cc:96-136`
expects, and never forgets a client, so that the ports of a failed attempt stay
plugged. A refused request is answered with client id 0, the default of the
field in the protocol buffer.

### ButtonCoder

`EncodedFrom` and `DecodedFrom` say which field each assignment copies, as two
tables; `Signed8` is the conversion of the protocol's `int32` into the signed
8-bit field of `BUTTONS`. `Send` and `Receive` are the uses of the coder in the
handler.

## 3. Runs

| Run | Instance | What it shows |
|---|---|---|
| `input_queue` | 2 producers, 2 consumers, delays -1, 0, 1, frames -1..2, 2 buttons (54 052 states) | type; `NoLostWakeup`, `DeliveredInOrder`, `NothingLost`, `OneFrameAtATime`; the queue implements `InputTape`; under fairness `BufferedFrameReturned`, `TimedCallReturns` |
| `event_stream_handler` | 1 local port, 1 remote, 1 not connected, `PORT_ANY`; 9 batches, 17 events (48 863) | what is sent, received, queued and played agree; reads only what is missing; queues match the start |
| `event_stream_handler_status` | the same | **violation**: `status()` never leaves `NOT_YET_STARTED` |
| `lockstep` | 2 clients, delays 1 and 0, frames 0..2, 2 buttons, streams may break (390 584) | `Agreement`, `StopsOnlyWhenBroken`, `SkewBound`, `QueueBound`, `KeysDelivered`, `SomebodyGoesOn`; every view of a port implements the one tape, and every client implements `EventStreamHandler` |
| `lockstep_live` | 2 clients and 3 ports, two of them on one machine, frames 0..1, 1 button, streams may break (59 410) | every game gets to its end, or fails when its own stream breaks, if no other does |
| `session` | 2 machines (2 + 1 controllers; 2 + 1 attempts), 2 consoles, 4 configurations (916 112) | `ControllersMatchConsole`, `OneOwnerPerPort`, `PlaysTogether`, `PluggedNeverAborts` |
| `session_live` | the same machines, 1 console, the 2 valid configurations (37 000) | `WaitsOnlyForRequest` under fairness |
| `session_null` | 1 console, 1 attempt each | **violation**: a refused client makes a handler that aborts |
| `session_created` | the same | **violation**: the id of a console that was not made is used |
| `session_start` | the same | **violation**: a machine waits for a start that was refused |
| `session_disabled` | 1 console, 2 + 1 attempts | **violation**: a disabled game keeps `Enabled` of the game before |
| `button_coder` | pairs of fields, the ends of the axes (4 932) | `RoundTrip` |

All state spaces are explored to the end. Deadlock is checked in the queue's
and the handler's runs. In `Lockstep` and `Session` games end, attempts run out
and machines abort, so their runs say `CHECK_DEADLOCK FALSE`.

### Bounds, and why they are enough

* `InputQueue`: two consumers are needed for a stale frame and for a lost
  wakeup; two producers for a race of puts. Delays 0, 1 and negative ones are
  the three cases of `InInitialDelay`. Frames up to 2 reach the frame after the
  delay and the one after that. The proofs remove all these bounds.
* `EventStreamHandler`: one port of each kind the code distinguishes
  (local, remote, not connected, `PORT_ANY`). The batches and events contain,
  for each early return, one that takes it in the middle, after an element that
  passed.
* `Lockstep`: with delays 1 and 0, three frames let the games be as far apart
  as `SkewBound` permits: it was checked that the bound is reached, so it cannot
  be made smaller. `QueueBound` is reached once there are two remote ports and three
  frames, in more states than a run should have; it is proved for all.
  `lockstep_live` has a machine with two ports: it puts two inputs at once, and
  the other machine may read the one while it waits for the other. `MaxFrame`
  ends the games.
* `Session`: one machine has two controllers with a gap between the channels,
  the configurations ask for any port, a given one, one that is no port (the code
  gives up, or asks for `UNKNOWN`: that depends on the protocol's enumeration) and none.
  Two attempts are what a retry or a restart needs; two consoles so that the
  retry may be elsewhere. Both machines playing at once is reachable.
  `session_live` has one console: what a machine waits for is one console. (With
  two it holds as well, in more time than a run should take.)

### Fairness

* `InputQueue`: `WF` of `NotifyAll`, `Resume` and `ResumeExpired`: a thread that
  can run runs, and a mutex is granted in the end. `SF` of `Expire`: a consumer
  can be woken in vain again and again, but a deadline that has passed expires
  the next wait. Nothing is assumed of who calls the queue.
* `Lockstep`: `WF` of the next step of each client, be it a put, a get, a read
  or the failure of a read: the game loop goes on, the server delivers what it
  was sent, and a read of a broken stream returns. No assumption relates the speed
  of the machines, and nothing makes a stream break. When one does, the others may
  wait for its player for good, since `Read` has no deadline; so
  `EveryGameAdvances` promises a game its end, or a failure of its own, only while
  all other streams hold.
* `Session`: `WF` of `MakeEventStreamHandler`, `ClientReady` and
  `WaitForConsoleStart`: a machine goes on where it does not wait for anyone, and
  reads what it was sent. `WF` of `ReceiveReady`: the server reads. Nothing is
  assumed of the players: a machine may stay at a question, fail at any call or be
  ended. In particular nobody need ask for the start: the plugin asks once, when
  its player presses enter, and ignores a refusal (`plugin-impl.cc:96-99`, `304-324`), and
  the repeated calls of `integration-tests.cc:96-130` are a helper of that test. So who
  waits may wait for ever (`session_start`), and `WaitsOnlyForRequest` says what for: in
  the end either all clients of the console are ready, and one request would start
  it (`start-game`, run by hand), or one was given up before it was
  ready (`Abandoned`), which nothing unplugs. Nobody waits on when the console was started.

## 4. Findings

* **`status()` is constant** (`event-stream-handler.hpp:23`). The header
  promises `NOT_YET_STARTED` before and `CONSOLE_RUNNING` after the start
  (`event-stream-handler.h:28-40`). Nothing after the constructor assigns `status_`.
* **A handler for nobody** (`client.hpp:93`, `plugin-impl.cc:79-87`). The header
  promises a null pointer on failure (`client.h:73-74`). The status of
  `PlugControllers` is not looked at, and the constructor aborts.
* **An id that was not written** (`plugin-impl.cc:282`). `MakeConsole` returns true
  when the RPC went through, also when the server refused; `console_id_int` is
  then read uninitialised.
* **A refused start** (`plugin-impl.cc:317`). `StartGame` returns true in the
  same way. The player who pressed enter too early waits in
  `WaitForConsoleStart` and is not asked again; only the script `start-game`,
  run by hand, helps.
* **A disabled game is not reset** (`mupen64.cc:80`). The test
  `InitiateNetplayNetplayDisabled` expects `Enabled` to be false and no controllers
  (`plugin-impl_test.cc:434-445`), but the entry point returns before
  `PluginImpl` does that. After a game with netplay the flag stays set. If the
  emulator then calls `PutKeys`, it reaches the plugin of the game before, or a null
  `stream_handler_` if that game had failed (`Keys`).

Met while reading, without a run: the comment at `client.hpp:32-34` says that a
request of no ports is fine while the `switch` that follows refuses it (and the test expects
that); two consumers that wait *for ever* for the same frame of an `InputQueue`
do not both return, as one takes it and no put can bring it again (the handler never does this;
`BufferedFrameReturned` is stated accordingly).

## 5. What is proved

**The queue** (`InputQueueProofs`, with the lemmas of `InputQueueLemmas`): for
every set of threads, buttons and delays and every `MaxFrame`:

* `TypeCorrect`, `WakeupsKept` (`NoLostWakeup`), `InOrder` (`DeliveredInOrder`),
  `Conservation` (`NothingLost`): the safety invariants.
* `LockStep`: the action property `OneFrameAtATime`.
* `QueueImplementsTape`: `InputQueue` implements `InputTape`.

The argument is one inductive invariant, `IInv`. `DeliveredInOrder` is not
inductive: a consumer that has slept might return a frame that is not the next
one. That it cannot rests on three facts: a buffered frame is later than the
latest requested (`NothingLost`), a consumer never waits for a frame past the
next (`NeverAhead`), and as many frames were delivered as the queue has counted
(`Counted`). From these follows `FrameIsNext`, the heart of the proof: if the frame
of a consumer is in the map, it is the expected one, *however stale its call*.
`AcceptedAfterDelay` keeps the puts out of the frames that were promised the
default buttons. The steps of the refinement are proved from the same
invariant: a put is a `Write`, a successful get a `Read`, all else stutters.

Assumptions: `DefaultAssumption` (the default buttons are buttons),
`DelaysAssumption` (delays are integers, negative ones included),
`MaxFrameAssumption` and `ThreadsAssumption` (no thread is at once a producer
and a consumer).

**A handler** (`EventStreamHandlerProofs`): for every set of ports, local ports,
frames, batches and events of the types above, and a stream that may fail
between any two steps:

* `HandlerTypeCorrect`, `StartsOnlyWhatMatches` (`QueuesMatchStart`),
  `PlaysInOrder` (`PlayedInOrder`), `FoundIsReady` (`GotButtonsMeansReady`),
  `BlocksOnlyOnWhatIsMissing` (`ReadsOnlyWhatIsMissing`), `WritesWhatItQueues`
  (`UnsentOnlyAfterFailure`), `PlaysWhatItReads` (`ReceivedIsPlayed`),
  `PlaysWhatItWrites` (`SentIsPlayed`).

The inductive invariant is `HInv` (`HandlerInductive`). To these properties it
adds three. `BufferedAhead`: a queue holds only frames still to be played, so that
what was played is never in the map as well. `PutIsPlayed`: `SentIsPlayed`
for everything that was put, because a batch that fails half way leaves keys in the
queues that are not sent. `StartsOnce`: no key and no call is left from
before the start, so that the queues of a new start have no history. The proofs of
a put and of an event are about the tape of a port and frame, `TapeAt`: inserting
accepted keys adds to it just those keys (`InsertedLemma`, `TapesLemma`), and playing
moves a key from the map to the history without changing it (`PlayLemma`).
`PassedLemma` says what the loops that stop at the first failure have passed.
That the branch "Probable logic error." is dead follows: all keys of an event up to
the requested one were accepted, so it is in its queue, and it is the next.

Assumptions: `DefaultAssumption`, `PortsAssumption` (what the constructor
checks), `ButtonsAssumption`, `FramesAssumption`, `BatchesAssumption` and
`EventsAssumption` (types).

**All clients in lock-step** (`LockstepProofs`, `LockstepPhaseProofs`): for every
set of clients and ports, every owner and delay, every `MaxFrame`, with streams
that break or not:

* `LockstepTypeCorrect`, `PlaysInputs` (`PlayedIsInput`), `GamesAgree`
  (`Agreement`).
* `GamesShareTapes` (`SharedTapes`): every client's view of a port implements
  one tape, the same for all.
* `EndsOnlyWhenBroken` (`StopsOnlyWhenBroken`), `SkewBounded` (`SkewBound`),
  `QueuesBounded` (`QueueBound`).
* `NoInputIsLost` (`KeysDelivered`) and `NeverAllWaiting` (`SomebodyGoesOn`):
  deadlock freedom.

`Agreement` compares two clients that never look at each other, so it is not
inductive. It follows from `PlayedIsInput`, which compares each with the input of
the player. `LInv` adds what keeps that true: whatever a queue holds, or is on
its way, is an input of its port for its frame (`IsInput`), and the queue of the
player's own machine has had every input of the port (`QueueOK`), so that it
refuses to take a second one for a frame (`PutIsNew`) and no input is ever changed. `LInv`
says nothing of the order in which the game calls its handler, nor of the order
of keys: agreement does not depend on them.

That no call is *refused* does. `PhaseInv` adds the phase of the frame a game is in:
which ports it has still to get (`pending`) fixes the latest frame requested of
each of its queues (`Requested`) and the last input of its own ports
(`LastInput`), and a key on its way is one that its receiver has not had
(`KeyIsNew`). The bounds follow: a game that has finished a frame had the
input of every player for it, so no player's tape can end before it.

Waiting needs more (`WaitInv`): what a player did is on its way, queued or
played wherever both streams hold (`KeysDelivered`), and a game is blocked in one get,
for input that is missing (`ReadsMissing`). Then a game that waits, and has nothing on its
way to it, waits for one that is further back, or is at the same frame and in no get,
having yet to put its input (`WaitsForAnother`). Of the games with frames left take
one that is furthest back: it goes on, or one at its frame does. That there
is a furthest one is `LeastNat`, the well-ordering of the naturals as an instance of
the library's `WFMin`: the induction theorems themselves are out of the prover's reach.

Assumptions: `OwnerAssumption` (each port is local to one client),
`DelayAssumption` (delays are naturals), `MaxFrameAssumption`,
`DefaultAssumption`. What the proof takes from outside `src/` is in the actions:
the server relays each key to the others at most once, and the game loop is that of the
integration tests.

**Each client is a handler** (`LockstepHandlersProofs`), from the same assumptions
and `PortAnyAssumption`, `GarbageAssumption`, `FinitePortsAssumption`:

* `ClientsImplementHandlers` (`ClientsAreHandlers`).
* `ClientsRefineHandlers`: under the mapping `Handler(c)`, every step is a step of
  `EventStreamHandler!Next` or a stutter. TLC cannot check this form, in which
  the events are infinitely many.

`HandlersInv` adds to `WaitInv` what the mapping needs: what was written was put,
an event has finitely many keys, a game that still gets its input has a frame left, a game
that failed is in no call. The mapped histories are computed, so the main
work is how they change: a get moves a key from the queue to what was played
(`PlayHistories`), an event adds its keys to the queues (`HeldInserted`), a put adds
new keys of the local ports (`PutHistories`). Then `GetIsGet`, `ReadIsRead` and
`PutIsPut` compare the actions branch by branch. The loops of the handler run to
their end (`AllPassed`), since by `PhaseInv` nothing is refused: the
failure branches of `PutButtons` and of `ReadUntilButtons` are reached
with an arbitrary server only, apart from a broken stream.

**The start of a game** (`SessionProofs`): for every set of machines, their channels,
delays, attempts and configurations, any number of consoles, and RPCs that
fail before or after the server acted:

* `SessionTypeCorrect`, `PlaysWhatIsPlugged` (`ControllersMatchConsole`),
  `NobodySharesAPort` (`OneOwnerPerPort`: what `Lockstep` assumes of `owner`),
  `AbortsOnlyRefused` (`PluggedNeverAborts`), `WaitsForEveryClient`
  (`PlaysTogether`).

The inductive invariant is `SInv` (`SessionInductive`). `ClientFits` ties the client to the
stage a machine is in: a game starts with a client that has no ports (which is
why `PluginImpl` is replaced for each game) and goes on with one the handler's
constructor accepts. `PortsArePlugged` ties it to the server: its ports are those plugged for
it there. `NotReadyYet`, `OneClientEach` and `ConsoleOK` say that a console starts only with all
its clients ready, and that a client is ready only once its machine has a handler; from these
`PlaysTogether` follows. The server and the other machines go on between two
steps of a machine; `ServerStep` is what they may change, and each part of `SInv` that
looks at the server survives that (`PortsKept`, `OthersKept`). For
`ControllersMatchConsole` the two containers that `PermuteNetplayControllers` walks side by
side are shown to pair the k-th local port with the k-th channel: in a finite set of n
elements sorted by a key, each of the places 0..n-1 is taken once (`Places`).

Assumptions: `ChannelsAssumption` (channels are 0..3), `DelayAssumption`,
`ConfigurationsAssumption` (four integers) and `BoundsAssumption`.

**The coder** (`ButtonCoderProofs`): `RoundTripCorrect`, for every value of
`BUTTONS`. The two tables are inverse to each other (`TablesMatch`), and a
value in the range of a signed 8-bit field is left as it is (`Signed8InRange`).

## 6. What is only model-checked

Liveness (`BufferedFrameReturned`, `TimedCallReturns`, `EveryGameAdvances`,
`WaitsOnlyForRequest`): liveness under fairness is out of the prover's reach. `NeverAllWaiting`
proves the part of `EveryGameAdvances` that is about a state: never are all
waiting; that they therefore advance is checked on the instance.

All other properties of the passing runs are proved. The violations of section 4 are
found by TLC; a counterexample needs no proof.

## 7. Hazards

`hazards` in `PROJECT.json` lists what is hard to test in this code, at its
line, with the properties that would notice. Those without one say why: a null dereference
that no state leads to, or code and values that are not in the repository.

## 8. What is not modelled

* Timings (`TimingsPb`), logging, and the wording of the dialogue: no
  property depends on them.
* `QueueSize`, `DebugString` and the accessors: they only read.
* The server, the protocol buffers, the emulator: not in the repository. They
  are modelled as far as the client's behaviour depends on them, and are marked
  external.
* What becomes of a key press that the handler drops because it comes in the same
  event as `start_game` or a management field. Such events are among those of
  `event_stream_handler`, and are dropped there as well; whether a server sends
  them is not known, and `Lockstep` has a server that does not.
* The values in the configuration (inputs of `Session`) and their defaults; a
  second `PluginStartup` in one process, which is refused.
* The dynamic library wrapper (one `dlsym`), the macOS application (a project
  template), build files and tests (the fixture that starts the server's JVM
  among them).

## 9. Plan

Done: queue, all clients together, handler, their composition, entry points,
start of a game, scripts and coder are modelled and checked; every safety
property of the runs, both refinements of `InputTape` and the one of
`EventStreamHandler` are proved.

*The stages together* is left: a game that starts as in `Session` enters `Lockstep`
with the owners and delays of the server's console. That a port has one owner is
proved of `Session` (`OneOwnerPerPort`); that the queues `EventStreamHandler` starts
with (`StartedQueues`) are those of `NewHandler` is to be shown.
