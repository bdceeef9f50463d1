# NornSockets in TLA+

NornSockets is one process that connects webapps, over WebSockets, to a
Creatures game, over TCP (Linux, macOS), shared memory (Windows) or DDE
(Creatures 1 and 2). This directory models the program's control: who opens,
announces, uses and deletes the connection to the game, on which thread, under
which lock; what a webapp hears of it; which sockets the server opens itself;
which files it may change; how a request travels to the game and an answer back.
All paths below are relative to `src/src/`.

## The parts of the program

| Part | Source | State | Operations | Hard to get right |
|---|---|---|---|---|
| Main loop | `main.cpp` | `g_running`, the `unique_ptr` to the interface | open, announce, check, poll, scan, close, shut down | owns the object others point to; runs beside the connection threads |
| WebsocketServer | `WebsocketServer.cpp:16-301` | `_interface` (raw pointer), `_allConnections`, `_mutex` | `OnGameOpened`, `OnGameClosed`, `OnConnection`, `OnMessageCallback` | registration against broadcast; messages use the pointer without the lock |
| Client sockets | `WebsocketServer.cpp:304-458`, `:116-163` | `_clients`, `socketsByProtocol` | `Parse` (from the debug log or OOPE), removal when the game closes, the destructor | sockets destroyed, and so joined, under the lock; search and insertion |
| LocalServer | `localserver.cpp` | `_files` (log of its own files), `_interface` | SAVE LOAD DLTE MOVE QRCD PATH, `Load`, `Save` | check, then act; exceptions on a callback thread; log saved only on exit |
| SharedMemoryInterface | `SharedMemoryInterface.cpp` | none | `Open`, `send`, text conversion | three engines behind one interface; two switches that must be inverse |
| PosixSMI | `Posix/PosixSMI.cpp` | two statics, a static buffer, `_isClosed`, the port | `Create`, `send1252`, `isClosed` | end of the game is noticed only through errors; calls overlap |
| WindowsSMI | `Windows/WindowsSMI.cpp` | handles, `_isClosed` | `Open`, `send1252`, `isClosed` | waits without timeout, missed pulses, abandoned mutex |
| Vivarium, DDE | `Windows/VivariumInterface.cpp`, `CreaturesSession.cpp`, `DdeSession.cpp` | `_isOpen`, global `g_isDdeOpen` | `OpenVivarium`, `send1252`, `isClosed` | global flag shared by threads; exceptions from `isClosed` |
| ChunkMessage | `Support.cpp:50-90` | none | split a script at `endm`, merge up to a limit | loop that may not end |
| DebugLog | `DebugLog.cpp` | queue under a mutex | `WriteDebugMessage`, `GetDebugLog` | little |
| IXWebSocket | external (empty submodule) | one socket and one thread per connection | Open, Message, Close callbacks; `stop()` closes and joins | modelled from how the code uses it |

How they interact: main calls `SharedMemoryInterface::Open()` about once a second
until it yields an object, passes the raw pointer to `WebsocketServer` and
`LocalServer` (`OnGameOpened`), polls the object, looks through the polled text for
directives (`Parse`), and when `isClosed()` says so withdraws the pointers
(`OnGameClosed`) and deletes the object. The connection threads of IXWebSocket call
into `WebsocketServer`, and from there into `LocalServer`, `Parse` or the same
object; a socket that `Parse` opens has a thread of its own that does the same.
`WebsocketServer::_mutex` guards the lists and the broadcasts, `LocalServer::_mutex`
each access to its log; nothing guards a message's use of the pointers.

What makes each part correct:

- *main loop, announcements*: no server keeps a pointer to a deleted object;
  every open connection knows which game is open, hears every change once and in
  order, whenever it connected; the object outlives the threads at shutdown; a
  signal ends the program; a game is announced closed only when it is.
- *client sockets*: one socket per peer and protocol; the tables agree with the
  sockets; no callback meets a destroyed socket; nobody joins a thread under the
  lock that thread wants; the destructor ends.
- *LocalServer*: only files the server wrote are overwritten, moved or deleted;
  the log vouches for nothing else and survives a restart; a request that runs alone
  does not end the program.
- *PosixSMI*, *WindowsSMI*: a running game is reached; a game that has gone is given
  up; every call returns; whoever asks gets the answer to what he asked; and both do
  what the main loop and the webapps' threads assume of an engine.
- *chunks, frames, arguments, text*: nothing is lost, doubled or read out of
  bounds; chunking ends; what the two switches convert comes back.

## Modules

| Module | What it is |
|---|---|
| `EngineLink` | The game and the interface object as main and the threads see it: what `send()` may answer and `isClosed()` may report for each of the four kinds (`posix`, `shm`, `dde`, `ddeNoPid`, a DDE server whose process id is unknown), and the flags both touch. |
| `NornServer` | Main loop, both broadcasts, the connection callbacks, shutdown. Extends `EngineLink`. |
| `GameFeed` | Abstract: what a subscriber is promised about the open game. No lock, no list, no threads. |
| `NornServerInv`, `NornServerProofs` | The inductive invariant, in named parts; theorems and proofs. |
| `ClientSockets`, `ClientSocketsProofs` | The sockets the server opens itself. |
| `LocalFiles`, `LocalFilesProofs` | The requests that change files, the log, exits, kills and restarts, the user and the clock. |
| `PosixLink`, `PosixLinkProofs` | Port file, statics of `Create()`, constructor, main's calls and their errors, over several games in a row. |
| `PosixCall`, `PosixCallProofs` | `PosixSMI::send1252()` as several threads call it at once; shown to implement the `posix` kind of `EngineLink`. |
| `WindowsShm`, `WindowsShmProofs` | `WindowsSMI::send1252()` on mutex, memory and events, with the engine and other tools; shown to implement the `shm` kind of `EngineLink`. |
| `Chunking`, `ChunkingProofs` | `ChunkMessage()`, one step per turn of its loops. |
| `Requests` | The layout of a binary frame; the splitting of an argument string. Operators; a loop is the function of its states. |
| `TextConv` | `cp1252FromUtf8()` and back, `cleanWhitespace()`. Likewise. |
| `TextProofs` | Theorems about both, for inputs of every length, over the specification of `MCText`. |
| `MCNornServer`, `MCClientSockets`, `MCLocalFiles`, `MCPosixLink`, `MCPosixCall`, `MCWindowsShm`, `MCText` | Instances for TLC. `MCText` composes `Chunking`, `Requests` and `TextConv`. |

`NornServer` is built on `EngineLink`, which says in a few lines what a call may
answer. `PosixCall` and `WindowsShm` hold the detail of two of its kinds and each is
proved to take only steps that `EngineLink` allows, so that what is checked of the
main loop rests on the code of the two classes and not on a guess about them.

### NornServer

`mainPc` follows `main()`: `top` (`main.cpp:93`), `localOpen`, `lockOpen`, `sendOpen`
(inside `OnGameOpened`), `check` (`:110`), `poll` (`:142`), `scan` (`:159-184`),
`localClose`, `lockClose`, `sendClose`, `destroy` (`:115`), `stop`, `join` (`:209`),
`done`. A broadcast is one step per entry of `_allConnections`, with `mutex = Main`
throughout, so that connections can close, send and be answered between two of them.
With `Directives`, the polled text may hold a line that `Parse()` accepts; main then
finds that line again for ever and stays in `scan`.

`conn[c]` is `new`, `accepted` (after `OnConnection`), `registered` (in the list,
lock still held), `open` (greeted), `closing`, `gone`. `thread[c]` is what its
callback is doing with a message. The use of a pointer is two steps: `TextMessage`
reads `_interface` and remembers it in `callee`, `SendReturn` comes back from the
call; likewise `PathMessage` and `PathRead`. If main has deleted or withdrawn the
object in between, the outcome is undefined in C++, and the model chooses between
an answer and `crashed`. A call takes effect when it returns; a call that overlaps
the end of the game is thereby ordered before or after it. Before the call sends
anything it may be caught in `ChunkMessage()` for ever (`SendSpins`, for engines that
chunk: `Cuts`); OOPE is `ParseMessage`, up to the lock, and `ParseSection`, under it,
which while `~WebsocketServer()` runs may wait for ever with the lock held, as the run
`exit` shows in detail. `Throw` is an exception that leaves a callback (`thread` is then
`threw`, which tells this end of the program from a bad pointer).

Interface objects are numbered, so that a stale pointer differs from the new one.
`feed[c]` is the sequence of announcements written to `c`; `Told(c)` is what its last
one says. The wording of announcements and the content of answers are left out; an
answer is `text`, `empty` or `error`, because `OnMessageCallback` tells these three
apart.

### ClientSockets

A thread belongs to a webapp or to a socket the server opened, and is `idle`, about to
`register` its socket, about to `ask` for one (OOPE), or inside `Parse()`, and so inside
the lock: `search` (the loop over the sockets of the protocol, `WebsocketServer.cpp:398`),
`parse` (make or reuse, `:409-439`), `send` (the loop that sends a message, `:445`), or
`joinSearch`, `joinSend`, waiting there for a thread whose socket it destroys. `line` is
what `Parse()` was called with; `match` the `shared_ptr` it holds at the moment: the
temporary of either loop, or the socket found or made; `looked` the ones a loop has
held. `sock[s]` is the life of
a socket: `none`, `connecting`, `open`, `aborting` and `stopping` (its destructor
runs and joins), `gone`. There is no reference count: `Listed` and `HeldWithout` say
who else holds a socket (`LastHolder`), and dropping the last reference is what starts
`aborting`.
`mainPc` is main's `loop`, its `scan`, the closing of a game, and how far
`~WebsocketServer()` has come: `clear` (`_clients`, without the lock), `stop`
(`ix::WebSocketServer::stop()`, which joins the webapps' threads), `members`, `done`.
`crashed` is a callback that meets a destroyed socket, a null weak pointer or a
destroyed vector; `threw` an exception of `std::stoi()` (`:347`), which a line with an
empty port raises on whichever thread calls `Parse()`. Whether a line carries a message is
left to the loop that would send it.

Two behaviours that hold only by accident are worth knowing. A line that was
accepted is never passed (see `scan`), so main, once it has made a socket, does not
reach `OnGameClosed()`, whose destruction of such sockets under the lock would
deadlock with their callbacks: `CrashOnlyAtExit` and `NoJoinUnderLock` break when the
scan is repaired (`MainParseNext`, their mutant, is that repair). And the branch that
gives a socket a second protocol (`WebsocketServer.cpp:433`) cannot be reached.

### LocalFiles

A request (`job[w]`) advances at each access to the file system and each section
under `LocalServer::_mutex`: `CanModifyExists` is `exists()` before the lock,
`CanModifyLookup` the section under it. MOVE runs it for the destination and then
for the source. `mtime` and the log hold whole seconds, as the code does; `owner` is
a history variable: who wrote the contents. An exception that leaves a
callback ends the program without the destructor (`Terminate`), so the log on disk
(`saved`) is then the old one. `Throws` are the calls outside any `try` that may raise one
by themselves: `exists()` and `last_write_time()` on a disk that fails, and the buffer of
QRCD, which may be more than memory holds. `Exit` writes the log, or fails and leaves the
old one, or is killed inside `Save()`: then some lines are there, the last of them cut
anywhere (`cut`).

A line of the log is written bare and read up to the first white space. `ReadBack` says
which path `Load()` takes from the line of each path, and `Broken` which paths hold a line
feed, whose second line ends `Load()`; `LoadLog` reads the lines in any order. A user may
put files in place with any time that is not in the future (`UserWrite`), as `mv`, `cp -p`
and archives do. `owner` is `exposed` for a file of his in the two cases in which
`CanModify()`, which knows a file by path and time only, must take it for the server's: its
time is no later than what the log has for that path, or the log has for it the line of
another path. SAVE really does nothing to the disk: it opens the wrong path. `overlap`, a
second history variable, tells whether a request has had the server to itself. With
`IoFails` every file operation of a request may fail or throw; with `UserQuiet` the user
changes files only while no request is under way.

### PosixLink and PosixCall

In `PosixLink`, `CreateStat` and `CreateRead` are the two halves of `Create()`, between
which the file can change; `Construct` is the constructor's call, after which `Open()`
drops an object without a name; `Connect` and `Exchange` are one call of main's
poll. `Manners` says how games of a run may behave, `orderly` (chosen at the start)
how they do: orderly games listen before they write the port file, write it at once
and answer the first call. Others may create it empty first, with the same time as
its final version perhaps, before they listen, and may fail the first call.
Orderly games do not reset a connection while they run either. `NeverMissed` and
`GameReached` are about orderly games, `ExitNoticed` about all. What the model shows
but no property forbids: a game that takes over the port of the last one between two
polls is taken for it (`PosixSMI.cpp:199-203`); `ExitNoticed` excepts that case.

`PosixCall` takes one object and one game and any number of calls at once. A thread
goes through `chunk`, `connect`, `send`, `recv`, `copy`, `return`, from `connect` to
`refused`, or from `chunk` to `spin`, where it stays: what `ChunkMessage()` does is
left open for the texts of `Webapps`; main's own texts are short. Calls are numbered,
and the contents of an answer is the number of its call: `buffer` is what the static buffer of `read_message()` holds, `response[t]` the
set of calls whose answers have bytes in the text of `t`. `Copy` may repeat, since
the bytes are copied one after the other while other threads overwrite the buffer.
`during[t]` is a history variable: the calls that overlapped this one. `reply[t]`
tells a whole answer from the first piece of one. Any system call may fail
(`SocketFails`, `Refused`): the game may have gone, or a signal may interrupt it.
In the refinement the game counts as running for as long as a call that was
connected before its end is under way, because such a call may still be answered.

### WindowsShm

The engine is `waiting` for the request event, `busy`, `serving` or `exited`.
`PulseEvent()` reaches it only if it is waiting. The mutex has an `owner`, may be
`abandoned` by a thread or tool that died, and is `kept` by a thread that was given it
as abandoned and returned without releasing it (`WindowsSMI.cpp:120`). `memory` is the
one piece of memory in which request and answer stand. A thread is in `lock`, then
with the mutex in `chunk`, `pulse`, `wait`, `done`, or in `spin` if `ChunkMessage()`
does not end. Another tool takes the mutex, asks and releases it, may give up waiting
while the engine serves it (`OtherGivesUp`), and may die at any time; `otherLeft`
remembers the last two. The handle of the process is assumed to open while the game runs.

### Chunking, Requests, TextConv

A message is a sequence of tokens `endm`, `scrp ` and `x` of 4, 5 and 1 bytes, a chunk
the pair `<<from, to>>` of token positions; sizes are computed modulo `Word`, because
`message.size()-5` wraps. `Requests` has bytes of base `Base`, and strings of plain
characters, spaces and two kinds of quotes. `TextConv` has the ASCII bytes that the
loops tell apart and, as leader bytes, the 27 characters of the two switches, one of
U+00A0 to U+00FF and one that CP1252 has not; `ToCp1252` and `FromCp1252` are the two
switches, each translated entry by entry. `EngineInside` is not the code's: it is the
engine's rule for strings as the comment at `SharedMemoryInterface.cpp:163-164` states it,
against which what the code sends is measured.

## Runs

| Run | Configuration | Checks | States |
|---|---|---|---|
| `feed` | shared memory and DDE, 2 interchangeable webapps that send at any time, 2 games, directives, 1 request each | `TypeOK`, `PointersLive`, `FeedCurrent`, `FeedAlternates`, `ShutdownOrder`, `ShmClosedMeansExited`, `FeedSpec` (`NornServer` implements `GameFeed`) | 2.1 M |
| `live` | posix, 2 patient webapps, 1 game, no directives, fairness | `OnlyCloseCrashes`, `OpenIsHeard`, `CloseIsHeard`, `Stops` | 175 k |
| `scan` | posix, 1 webapp, directives, fairness | `Stops` fails | |
| `crash` | shared memory, 1 patient webapp | `PatientNeverCrashes` fails | |
| `dde` | DDE, 1 webapp | `ClosedMeansExited` fails | |
| `sockets` | 1 webapp, 4 sockets, 2 urls, 2 protocols, 3 events, fairness | `OneSocketPerPeer`, `EntriesAgree`, `CrashOnlyAtExit`, `NoJoinUnderLock`, `OnlyEntangledStuck`, `ExitCompletes` | 749 k |
| `exit` | 1 webapp, 3 sockets, 1 url, 1 protocol, fairness | `ServerCanBeStopped` fails | |
| `files` | 3 requests, 2 at a time, 2 files, one of which the log gives back as the other, quiet user, operations may fail | `LogIsTrue`, `OwnFilesOnly`, `LoneRequestsEnd`, `LogSurvives` | 1.0 M |
| `posix` | 3 games, orderly or not, 2 ports, fairness | `NeverMissed`, `GameReached`, `ExitNoticed` | 13 k |
| `call` | 2 threads, 4 calls, fairness | `NoStaleAnswer`, `PosixImplements`, `CallReturns` | 124 k |
| `shm` | 2 threads, another tool, 4 requests, fairness | `AnswersMatch`, `MutexGivenBack`, `ShmImplements`, `SendReturns` | 371 k |
| `text` | all messages, frames, arguments and texts up to a size, fairness | `Contiguous`, `ChunksFit`, `OneChunk`, `Returns`, `FrameRead`, `ArgsKept`, `EngineEchoKept`, `SentIsClean`, `StringsArrive` | 290 k |

Passing runs check for deadlock, but for `sockets`, where the server really can hang
while it is being destroyed; `ExitCompletes` says in which one way, and `exit` shows
it.

What the failing runs show:

- `crash`: main withdraws and deletes the object while a message of a webapp, which
  did wait to be told of the game, is on its way or inside the call
  (`WebsocketServer.cpp:280`).
- `dde`: `isClosed()` stores the negation of "is running" in `_isOpen`
  (`VivariumInterface.cpp:121`); the second call reports a running game closed.
- `scan`: main does not advance past a line that `Parse()` accepted (`main.cpp:174`);
  no signal ends the program any more.
- `exit`: the destructor empties `_clients` without the lock (`WebsocketServer.cpp:54`)
  while `Parse()` holds one of the sockets; `match` (`:396`) is then the last reference
  and is dropped inside the lock that the callback of the socket waits for. So are the
  references that the two loops hold for a turn (`:407`, `:454`).

Disagreements between code and documents that are plain from one line, and have no
run of their own:

- SAVE checks `dst` and opens `src`, which is empty (`localserver.cpp:304`); LOAD sizes
  its answer with `sizeof(8)` (`:361`); a file that appears after `CanModify()` found
  none is deleted by DLTE (`:394`); a quote in the middle of a word forgets the word
  before it (`:229`, against the comment at `:211`).
- README.md:58-61 lets the server change only files it made. A logged path with a space
  (every file under `My Agents`) comes back from the log as what stands before the space:
  `Save()` writes it bare (`:98`) and `Load()` extracts a path (`:66`). It may then cover a
  file of the user's with that name, or displace the entry of another file; a line feed in
  a path ends `Load()`. And `CanModify()` rejects only files that are younger than their
  entry (`:202`): an older one that the user moved or unpacked onto a logged path is taken
  for the server's. `OwnFilesOnly`, `LogIsTrue` and `LogSurvives` except these cases
  (`exposed`, `ReadBack`, `Broken`) and no others.
- A name that is too long, a directory that may not be read (`exists()`, `:189`) or the text
  of a QR code that is too long for memory (`:488`) ends the program, from a callback
  outside any `try`; so does `ws://h:[p]`, whose empty port `std::stoi()` rejects
  (`WebsocketServer.cpp:347`).
- `read_message()` receives into a static buffer (`PosixSMI.cpp:284`) that all threads
  share: a webapp that asks for "the targ norn's moniker" (README.md:32) may get the
  answer to another webapp's CAOS, or what main polled. `NoStaleAnswer` says how far
  that can go. `auto retn` hides the `string_view` that the loop over `recv()` tests
  (`:166-168`), so that an answer in two pieces is cut off after the first.
- A version of the port file is tried once, whatever came of it (`PosixSMI.cpp:41`),
  and a reconnection uses port 0 (`:41-48`, `:64`). For an empty message,
  `chunk.back()` is taken of an empty chunk (`:143`).
- `ChunkMessage()` never returns when two neighbouring pieces reach the limit together
  (`Support.cpp:77-86`; called at `PosixSMI.cpp:131`, `WindowsSMI.cpp:156`), whoever sends
  such a text; and a tail of up to four bytes behind the last `endm` is dropped (`:63`).
  `Returns` and `Contiguous` except these two cases.
- README.md:51-56 puts the length of the data behind the zero that ends the arguments; the
  code reads it from that zero on (`WebsocketServer.cpp:254-257`). Data is therefore accepted
  only in multiples of 256 bytes, and, up to 2^24 bytes of it, every frame with data as README.md
  describes it is refused; `FrameRead` says both, and that nothing is read outside the
  message. The message of `ws[protocol]:message` is never sent (`:366`); the port of `ws://url:port` is ignored
  (`:389`). QRCD falls through to LOG. `IsPrivateIp()` compares characters, not octets
  (`:488`). `m_tls` is followed untested (`:175`). A client socket that reconnects is
  registered once more (`:204`).
- "Other characters map directly", says the comment at `SharedMemoryInterface.cpp:62`, and
  README.md:6 that the engine's CP1252 is converted; in either direction U+00A0 to U+00FF,
  the accented letters, become `?` (`:60`, `:153`). `EngineEchoKept` promises the 27
  characters of the switches only.
- `\]` still ends a string for the engine (`SharedMemoryInterface.cpp:164`) and not for
  `cleanWhitespace()` (`:181`): of `[a\]  b` both spaces reach a DDE engine, which `:165`
  says crashes it. `SentIsClean` takes strings as the engine does and promises nothing
  behind the first such bracket. The bracket that closes an open string is put even behind a
  backslash. A malformed UTF-8 leader
  swallows the ASCII bytes after it. `WindowsSMI.cpp:199` leaks a handle.

### Bounds

- Two connections are enough for one to be ahead of the cursor of a broadcast and one
  behind it, one registering while the other is open, one calling while the other
  closes. Nothing in the code depends on more; the proofs are for any number.
- Two games give a stale pointer something to be confused with, and a second
  announcement to be ordered after the first. `MaxGames`, `MaxRequests` end up in the
  guards of `MainOpen` and `Submit` only.
- One webapp and four sockets: a webapp and the thread of a socket that is already open,
  or main, ask for the same peer at once while the other sockets lead to the other peer or
  protocol; `MaxEvents = 3` lets two requests meet a reconnection. A second webapp would
  add a thread that does what a socket's thread does as well.
- Two files and two requests at a time: MOVE relates two paths; the races are between two
  requests on the same path. Three requests (`MaxRequests`) log a file, use its entry,
  and overlap. `MaxTime = 2` lets a file be younger than its log entry, older, or of
  the same second. One path is read back as the other and ends `Load()`.
- In `files` the user is quiet: he changes files only between requests.
- Three games with two ports: a third can take over the port of the first after the
  second has come and gone.
- Two threads and four calls in `call` and `shm`: each thread has a finished call behind
  it while both are inside one, so that a stale answer and a foreign one differ.
- `text`: messages of up to 5 tokens with a limit of 12 bytes, so that two neighbours
  may or may not fit together, and `Word = 64`, so that short messages wrap; frames of
  up to 11 bytes of base 3, long enough for three bytes of data, which the code accepts, and
  for README.md's layout; up to 2 arguments of up to 2 characters; up to 4 characters of
  UTF-8 of every length and kind, and every pair of the characters of the switches; up to 5
  bytes for a DDE engine.

### Fairness

`NornServer`: weak fairness of the main thread's steps together (`MainStep`), and of
each connection thread while it is answering a message or greeting (`Answering`) or
being shut down (`Ending`). These are threads of one process that the operating
system schedules; the steps in which they wait for the lock are not given
more, and it is enough because nobody can take the lock for ever (connections are
finite in number and each takes it at most twice), except a thread that is stuck in
`Parse()` while the server is destroyed. Games, webapps, signals and
the user owe nothing. No fairness excludes `SendSpins`, nor the thread that gets stuck:
`Stops` names both, and `OpenIsHeard` and `CloseIsHeard` hold in spite of a thread that
spins, which holds no lock. The liveness runs use `posix` because there a call that is
chunked returns (`CallReturns`, from the 60 s socket timeouts); `WindowsSMI` waits with no
timeout (`WindowsSMI.cpp:118`, `:204`), so that a promise of progress would not be the
program's to make.

`ClientSockets`: weak fairness of main's steps and of each thread's. Requests, lost
connections, late handshakes, the end of a game and the signal (`Ask`, `Reconnect`,
`Connect`, `OnGameClosed`, `MainExit`) owe nothing, and neither does `ParseThrows`.

`PosixLink`: weak fairness of main's steps together. `PosixCall`: weak fairness of each
thread inside a call, which does not count on a failing socket, and of the end of a
copy. Whether a webapp's text is one that spins is left open, so `CallReturns` excepts
those, and main's calls never.

`WindowsShm`: weak fairness of each thread inside a call, and of an engine that has
taken up a request. The mutex of Windows is handed on in the order of arrival:
strong fairness of `Locks(t)`. The other tool asks (weak) and gives the mutex back
(strong, since it may also die or give up). Pulses may be missed for ever: `SendReturns` names
that, a message that cannot be cut, and a kept mutex as the only ways in which a call
does not return.

`Chunking`: the loop runs.

## Proofs

| Module | Theorem | Statement |
|---|---|---|
| `NornServerProofs` | `TypeCorrect` | `Spec => [](TypeOK /\ PtrInv)` |
| | `PointersSafe` | `Spec => []PointersLive` |
| | `LockDiscipline` | `Spec => [](MutexInv /\ ThreadInv)` |
| | `ShutdownSafe` | `Spec => []ShutdownOrder` |
| | `FeedIsCurrent` | `Spec => []FeedCurrent` |
| | `Inductive` | `Spec => [](TypeOK /\ IInv)` |
| | `FeedsAlternate` | `Spec => []FeedAlternates` |
| | `FeedImplemented` | `Spec => FeedSpec` |
| | `ClosesTruly` | `Spec => []ShmClosedMeansExited` |
| | `PatientUntilClose` | `Spec => []OnlyCloseCrashes` |
| `ClientSocketsProofs` | `TypeCorrect` | `Spec => [](TypeOK /\ LockInv)` |
| | `OneSocketEach` | `Spec => []OneSocketPerPeer` |
| | `TablesAgree` | `Spec => []EntriesAgree` |
| | `CrashesAtExit` | `Spec => []CrashOnlyAtExit` |
| | `JoinsUnlocked` | `Spec => []NoJoinUnderLock` |
| | `OnlyOneDeadlock` | `Spec => []OnlyEntangledStuck` |
| `LocalFilesProofs` | `TypeCorrect` | `Spec => []TypeOK` |
| | `LogTrue` | `UserQuiet` implies `Spec => []LogIsTrue` |
| | `UsersFilesSafe` | `UserQuiet` implies `Spec => OwnFilesOnly` |
| | `LoneEnds` | `UserQuiet` implies `Spec => LoneRequestsEnd` |
| | `LogLasts` | `Spec => LogSurvives` |
| `PosixLinkProofs` | `TypeCorrect` | `Spec => []TypeOK` |
| | `NoGameMissed` | `Spec => []NeverMissed` |
| `PosixCallProofs` | `TypeCorrect` | `Spec => []TypeOK` |
| | `NeverStale` | `Spec => []NoStaleAnswer` |
| | `LinkImplemented` | `Spec => PosixImplements` |
| `WindowsShmProofs` | `TypeCorrect` | `Spec => []TypeOK` |
| | `AnswersAreOwn` | `Spec => []AnswersMatch` |
| | `MutexReturned` | `Spec => []MutexGivenBack` |
| | `LinkImplemented` | `Spec => ShmImplements` |
| `ChunkingProofs` | `NothingLost` | `ChunkSpec => []Contiguous` |
| | `AllFit` | `ChunkSpec => []ChunksFit` |
| | `OnlyOne` | `ChunkSpec => []OneChunk` |
| `TextProofs` | `FramesRead` | `MCSpec => []FrameRead` |
| | `ArgsWhole` | `MCSpec => []ArgsKept` |
| | `EchoWhole` | `MCSpec => []EngineEchoKept` |
| | `SentClean` | `MCSpec => []SentIsClean` |
| | `StringsWhole` | `MCSpec => []StringsArrive` |

They hold for every value of the constants and use nothing but the named assumptions
on them, which TLC evaluates in the runs: `ConnsAssumption`, `DirectivesAssumption`,
`BoundsAssumption`, `EnginesAssumption`; `ThreadsAssumption`, `PeersAssumption`,
`EventsAssumption`; `PathAssumption`; `PortAssumption`, `MannersAssumption`;
`WebappsAssumption`, `SendsAssumption`; `MessagesAssumption`, `LimitAssumption`, `SizeAssumption`;
`BaseAssumption`, `MaxLenAssumption`. `MaxLen` may be any number, so that the theorems of
`TextProofs` speak of frames and texts of every length; the lemmas they follow from
(`ArgumentsKept`, `EchoedText`, `TextKept`, `Inside`, `Multiples`, `DocumentedRead`) are stated for every
sequence and mention no bound.

The types themselves (`TypeOK`) are checked by TLC in the run `feed` only; for the other
modules the theorem `TypeCorrect` is the statement.

*The feed.* `FeedCurrent` is not inductive: it says nothing while the lock is held, and
everything about a broadcast happens then. The argument goes through

1. `PtrInv`: at every `mainPc`, which of the three pointers are null and which are
   main's own. Only main writes them, so it is inductive by itself and gives
   `PointersLive`.
2. `MutexInv`, `ThreadInv`: the lock is main's exactly in a broadcast, a thread's
   exactly between `push_back` and the greeting, or if it is stuck in `Parse()`; only open connections run
   callbacks; after the join nobody is left, because a closed listener accepts
   nobody. This gives `ShutdownOrder`.
3. `ListInv`: every connection that is or is about to be open is in the list, once.
4. `ToldInv`: outside a broadcast everyone open has been told `wsInterface`; inside
   one, exactly those before the cursor. A greeting cannot fall inside a broadcast
   (2), a turn changes one connection only (3: listed once), and at the end the
   cursor has passed everyone open (3: all listed). This gives `FeedCurrent`.
5. `FeedInv`: feeds alternate and mention no game that is still to be announced,
   by what `Told` says of the last entry (4).

The refinement maps the abstract game to `wsInterface`, subscribers to open
connections and views to `Told`; `ToldInv` is what allows `OpenGame` and `CloseGame`
to happen only when every subscriber is up to date. `ClosesTruly` rests on `ShmInv`:
with shared memory `broken` is set only when the process has gone.

*Patient webapps.* `PatientUntilClose` is the positive side of the run `crash`. By
`PatientInv`, until a game has been withdrawn, whoever has a message under way has been
told of the game, and a call is made on the very object main holds; `PtrInv` says that
this one is not deleted. What remains is the step in which main withdraws it, and that
is what `crash` shows.

*Client sockets.* Whoever is inside `Parse()` owns the lock (`LockInv`), so what its
search found is still true when it inserts: the match is listed under the protocol
(`SearchInv`), or there is none and a new socket is the only one for its peer and
protocol. With `MadeInv` and `TableInv` (a socket is in the tables from the moment it is
made) this gives `OneSocketPerPeer` and `EntriesAgree`. `EarlyInv` says that before the
destructor begins every socket made is alive and listed, callbacks run on live ones,
and a socket made for the game means that main is in its scan; it gives
`CrashOnlyAtExit` and `NoJoinUnderLock`. The steps of one thread inside the lock keep all
of this together (`InsideStep`), whichever socket it holds. `JoinInv` says who waits for
whom: the owner of the lock is inside `Parse()`, the thread of a socket that `Parse()`
destroys is idle or asks for the lock, and a socket main destroys is held by nobody else. A
cycle of waiting threads therefore closes only through the lock and a socket destroyed
under it, which is the case `Entangled` that `exit` shows; `OnlyEntangledStuck` says there
is no other.

*Files.* A file of the user's that is not exposed is younger than its entries, in memory
and on disk (`Ages`): the clock does not run backwards, and `UserWrite` and `LoadLog` say
which files are exposed. Of every path a request has permission to write or remove, the
owner is not such a user (`Permitted`), through each point of a request. `LoneEnds`
rests on `Alone`: what a request that is alone has seen on the disk is still there.
`LogLasts` needs only that after a proper end the saved log is the whole log (`Down`), and
that the entry for a path comes from its own line.

*Reaching a game.* Of an orderly game that takes connections the port file names its port
(`Wrote`), `Create()` runs only while there is no object (`OneAtATime`), and if the file
is remembered as tried, then either the attempt is still under way with the right port or
main's object talks to that game (`Tried`). `GameExit`, a new game on an old port and
the errors of a call all keep this; it gives `NeverMissed`, the safety half of
`GameReached`. It fails as soon as a file may be written in two steps, or a running game
may reset a connection, which is why `orderly` is in it.

*The engines.* `NoStaleAnswer` rests on `Overlap` (calls under way know of each other):
the buffer under a copy was written by its own call or by one that was under way
meanwhile. `AnswersMatch` rests on `Exchange`: while nobody has died with the mutex, the
engine serves only who waits for it, and a signalled result event means that the memory
holds the answer to the waiting call. `KeptInv` follows the mutex out of the call:
who owns it outside has `kept` it, and it is kept or abandoned only after another tool
died. Both refinements are one lemma per kind of step
over these invariants.

*Chunking.* The chunks are contiguous from the first byte to `start` or the end; sizes
add up over contiguous chunks; merging replaces two neighbours by their union.

*Frames, arguments and texts.* These are statements about loops over data of any length.
The library's induction theorems take an operator as parameter and cannot be used;
`TextProofs` goes back to well-founded orders instead. `Least` (a set of numbers has a
least element) gives `Induction` over a set, and that gives `Recursion`: a step for each
of the first n numbers has a function of states that solves it. So each loop of the
source is, in the model, the function of its states byte by byte (`Converting`, `Scan`,
`Splitting`), and `ConvertTurns`, `ScanTurns`, `SplitTurns` say that it is what the loop
body makes of it. Then

1. *Concatenations.* `Flattening` and `Pieces`: where each character of a text, and each
   quoted argument, stands in the whole.
2. *Echo.* `SwitchesAgree`: each of the 27 rows of the one switch is a row of the other.
   `EncodedRead`: after the last byte of a character the loop of
   `cp1252FromUtf8()` is exactly behind it and has written what is left of it, so that
   no continuation byte is taken for a character. `EchoedText` is the way back.
3. *Arguments.* `ReadsArgument`: from the opening quote the loop of `Parse()` passes over
   the argument, its spaces and the other quotes, and ends behind the closing one with
   one more token. `ArgumentsKept` goes from argument to argument.
4. *Clean text.* `Replay`: scanning what was written passes, byte by byte, through the
   states in which it was written. So a second scan keeps what the first one wrote
   (`CleanedTwice`), there are no two bytes of white space in a row (`NoTwoInARow`), and
   what is not white space outside strings is the same before and after (`HardReplay`,
   `CleanedIsWhole`). All of it needs that `cp1252FromUtf8()` passes no CR (`Converted`).
   `EngineStrings` compares the scan's strings with the engine's: the engine's lie inside
   the scan's, and the other way round up to the first escaped bracket.
5. *Frames.* `Inside` and `Multiples` follow from where the zero stands. `DocumentedRead`
   compares the length the code reads with the one README.md describes, which begins a
   byte later: the one is `Base` times the other, and so never what is left of the message.

Only model-checked is what the proof system cannot reach, liveness under fairness:
`OpenIsHeard`, `CloseIsHeard`, `Stops`, `ExitCompletes`, `GameReached`, `ExitNoticed`,
`CallReturns`, `SendReturns`, `Returns`. Every invariant and every action property of a
passing run, and each of the three refinements, is a theorem.

## Not modelled

- The `DebugLog` queue: two operations, each one section under one mutex, for a window
  that is never opened. The debug windows (`PosixDebugLog`, `WindowsDebugLog`) themselves:
  `main.cpp:198` is commented out.
- LOAD and LIST, which only read the disk; `GetPath`'s choice of directory: a path is a
  model value. How `GetParseResult()` takes a line apart: its results are
  enumerated, the exception of `std::stoi()` among them. In `NornServer` that exception is
  part of `ParseMessage`; for a line of the debug output it is in `ClientSockets` only.
- The two branches of `WindowsSMI::isClosed()` for a process that cannot be opened or asked
  (`WindowsSMI.cpp:237-240`, `:251-256`): an object with a name has opened its process in
  `Initialize()`.
- The classification of addresses: a connection is refused or not. `m_tls` is fixed
  before the server listens.
- The handles of the DDE session and of the failing paths of `WindowsSMI`, which are only
  resources. The name and version asked of a new game, and its working directory.
- `_allConnections` in `ClientSockets`, so that repeated registration after a
  reconnection is not seen there. `CloseUnaffiliatedClients()`, which is never called.
- The Windows console handler, which waits on a condition that nobody notifies: it
  changes nothing but `g_running`, which `Signal` has.
- `stb_bmp_write.h`, the QR code library, `example.htm`: third-party code, a sample.
- Loss of the WebSocket itself: TCP delivers in order or the connection closes, which
  `OnClose` has at any time.

## Plan

Done: all modules above. What could follow:

1. `_allConnections` in `ClientSockets`, with the announcements to client sockets.
2. `ExitNoticed` as safety: what the errors of a call say about the game, after the
   manner of `NeverMissed` for `GameReached`.
3. The table of `GetPath` and the classification of addresses, as operators of
   `Requests`.
