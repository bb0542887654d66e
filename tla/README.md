# TLA+ verification of fry-tftp-server

fry-tftp-server is a TFTP server (RFC 1350, 2347, 2348, 2349, 7440) written in
Rust on tokio, with a headless mode, a TUI and a GUI. This directory holds TLA+
models of it, the TLC configurations that check them, and TLAPS proofs. Paths
such as `core/state.rs` are below `src/src/`.

## 1. The system

| Component | State | Operations | Interacts with |
|---|---|---|---|
| Main loop (`core/mod.rs`) | listening socket, `ServerState`, tasks | bind, receive a request, check rate limit, limits and ACL, spawn a session; stop, grace period | everything below |
| Read session (`core/session/mod.rs`) | file contents, `base_block`, window, retries | OACK handshake, send window, ACK, timeout | client (UDP), session table, buffer pool, shutdown token |
| Write session (`core/session/mod.rs`) | `expected_block`, `window_buf`, data received | receive DATA, ACK, timeout, size limit, write the file | the same, and the file system |
| Session table (`core/state.rs`) | active sessions, history, totals, the log of transfers | register, update, complete, clean up stale sessions; load the log | sessions, main loop, UIs |
| Rate limiter (`core/state.rs`) | requests per address and window | check, clean up | main loop |
| Configuration (`core/config`, watcher in `core/mod.rs`) | `ArcSwap<Config>`, config file | load, env and CLI overrides, reload, save | sessions take a snapshot; TUI and GUI edit it |
| Buffer pool (`core/buffer_pool.rs`) | free buffers, buffer size | acquire, release, resize | sessions, reload |
| Life cycle (`core/mod.rs`, `core/state.rs`, `platform/`) | `ServerState`, shutdown token | start, stop, restart, signals, IPC, service control | all tasks |
| ACL (`core/acl`), paths (`core/fs`), packets (`core/protocol`), netascii, option negotiation | none, or fixed at load | pure functions | main loop, sessions |
| Logs (`core/log_buffer.rs`, rotation) | ring, daily files | append, rotate, load at a start | UIs |
| TUI (`tui/app.rs`) | flags of the mode, cursors, copies of rows and rules | one handler for every key | configuration, life cycle |
| GUI (`gui/`) | two forms, dirty flags, tray | type, apply, reset, import; start, stop, close | configuration, life cycle |

Each session is a tokio task of its own. It owns a socket, talks to one client,
shares the atomics and maps of `AppState`, and looks at the shutdown token and
its socket in one `select!`. The rest of the program runs in parallel with it.

What is hard here, and what makes each part correct:

* **Sessions**: packets are lost, repeated and reordered, timers race late
  packets, block numbers are 16 bits wide, windows of the two sides get out of
  step. The receiver must end up with the file, the sender must not count what
  the receiver does not hold, and every session must end and be recorded
  truthfully.
* **Uploads**: the file is written at the end, by a blocking task, after the
  final ACK. Nothing may be written for an upload that is too large, no file of
  somebody else may be overwritten unless configured, and two uploads of a path
  may meet, also because a client repeats a request that was already accepted.
* **Session table**: clean-up and completion race for the same session, a restart
  overtakes both; limits are read in steps of their own before the session is
  registered. Each session must be recorded once and the counters must add up.
* **Configuration**: six things replace it in different threads (the watcher,
  SIGHUP, the control socket, a restart, two interfaces), none holds a lock from
  its read to its store, and a file is rewritten in more than one step. The
  overrides must hold, the pool must fit, an edit must be found again.
* **Life cycle**: one token stops both the main loop and the sessions; a restart
  replaces it while other tasks still hold the old one. Nothing may be left
  behind that nobody can stop, and the program must end when told to.
* **Interfaces**: they keep indices and copies of a configuration that changes
  elsewhere, and one key means several things. An edit must hit what was opened.
* **Peers and inputs**: both ends must read an option, a text or a packet alike;
  the limits and the access list must mean what the configuration says.

`PROJECT.json` lists every hazard with the line where it bites and the properties
that cover it.

## 2. Modules

| Module | Models |
|---|---|
| `TftpBlocks` | block arithmetic: `compute_total_blocks`, `get_block_payload`, `block_to_absolute`; `WireMod` stands for 65536 |
| `BlockWalk` | reference for `TftpBlocks`: a file walked block by block |
| `BlockTransfer` | abstract specification of a transfer, in either direction |
| `ReadSession` | `spawn_read_session`, `run_read_session`, `oack_handshake`, `spawn_session_task`, with client and network |
| `WriteSession` | `spawn_write_session`, `run_write_session`, `spawn_session_task`, the target file, with client and network |
| `Uploads` | all uploads of one path: requests, repeated requests, lost answers, opening and writing the file, receive buffers across a reload |
| `SessionTable` | `AppState`'s sessions, history and totals; the main loop's admission, `spawn_session_task`, `cleanup_stale_sessions`, `reset_for_restart` |
| `TransferLog` | the file of past transfers and its loading at a start, across crashes |
| `LogFiles` | log ring, daily files, rotation, loading at a start |
| `ServerLifecycle` | `run_server` and its tasks, the shutdown token, and every user of them: TUI, GUI, tray, signals, control socket, service |
| `Configuration` | load, save, overrides, watcher, SIGHUP, restart and edits, in the order of their reads and stores |
| `TextConsole` | `handle_key` of the TUI and everything it calls that changes state |
| `Forms` | the GUI's settings and access rules |
| `ReceiveTimer` | how long a session waits: attempts, backoff, the timer every packet restarts, with a clock |
| `BufferPool` | the queue of receive buffers and its resize, step by step |
| `RateLimiter` | the entry of one address: requests, the clean-up task and the clock in any order |
| `Negotiation`, `Netascii`, `PacketCodec`, `AccessControl`, `VirtualPaths` | pure algorithms, each with the definition it is checked against |
| `Lists` | a list filtered, and its texts joined, as two modules need it |
| `MCSessionTable`, `MCConfiguration` | instances: symmetry sets, sessions followed, starts |
| `MCSessionLife`, `MCAlgorithms`, `MCInterfaces` | one run for several instances; a variable `kind` (or a tagged `input`) says which one a behaviour is about |
| `TftpBlocksProofs`, `ReadSessionProofs`, `WriteSessionProofs`, `SessionTableProofs`, `UploadsProofs` | theorems of the module they are named after |
| `ControlProofs` | theorems of `ServerLifecycle`, `Configuration` and `TextConsole` |
| `DataProofs` | induction over data; lemmas and theorems of `Negotiation`, `ReceiveTimer`, `LogFiles`, `TransferLog`, `Lists` and `Forms` |
| `AlgorithmsProofs` | lemmas and theorems of `BlockWalk`, `BufferPool`, `RateLimiter`, `AccessControl`, `Netascii`, `PacketCodec` and `VirtualPaths`; theorems of `MCAlgorithms` |

`SessionTable` takes a session as a black box that returns some outcome at some
time; `ReadSession` and `WriteSession` say which and that it does. `Uploads`
takes the transfer of one upload as one step, which is `WriteSession`'s subject.
`ServerLifecycle` takes the admission of requests from `SessionTable`. The
client and the network are external: the network is written from what UDP
allows, the client from RFC 1350 and 7440, with the freedom both leave (a
receiver may acknowledge any block and must acknowledge the last one of a
window; a sender may or may not repeat a window on a repeated ACK).

### From code to model

Sessions:

* A packet carries the absolute number of its block; what the server computes
  with is `WireBlock(n)`, and `BlockToAbsolute` recovers the block from it. So
  the wrong block in the right place is visible in the model.
* Channels are sets of packets. A packet is delivered and removed, or, with
  `"duplicate"`, delivered and kept. Without `"reorder"` none overtakes one with
  a lower number. What a peer may have sent a moment ago is always delivered: in a
  download an ACK sent since the window before this one began and a block of this
  window or the one before it, in an upload the client's window and an ACK sent
  since the window before it began. Only an older packet can be too old, and only
  when it has become a full turn of the block numbers old (`AckAlive`, `DataAlive`):
  65536 newer blocks have then been sent, more than half of them since it was
  overtaken.
* One iteration of the `select!` loop is one action: the packet, the answer to
  it and the bookkeeping up to the next `await` on the socket. A window is sent
  in one action, since no token or socket is looked at between its packets; a
  `send_to` that fails in the middle of it is the window sent, its rest lost,
  and `IoError`.
* `spawn_session_task` is `Finish`: `Completed`, `Failed` (which counts an
  error) or `Cancelled`. The per-session `cancel` token is never cancelled by
  the program; only the shutdown token is modelled. A client's ERROR message
  that contains "cancelled" or "shutdown" is classified as a cancellation, so
  `RecvError` allows both outcomes.
* A client that has given up or aborted reads nothing more; what is in flight to it
  holds up no timer.
* Packets from another address are answered with an ERROR to that address and
  change nothing; they are left out.
* The length of a timeout is abstracted: `TimerMayExpire` is always true with
  `"early_timeout"`, else true when nothing is in flight. `ReceiveTimer` has the
  clock and leaves out what the packets say instead.
* `WriteSession.file` is the target: `absent`, `foreign` (not of this session),
  `partial` (opened by this session) or `written`. `OpenFile` and `FillFile` are
  the steps of the blocking task. In `Uploads` the file is the sequence of the
  tasks that wrote its pieces; `create_new` and truncation are the two ways of
  opening it, and either may fail. A DATA packet that is longer than the receive
  buffer is cut, as on Unix, and ends the transfer (`data` is then `"cut"`); on
  Windows `recv_from` returns an error and the session fails, which is one of the
  steps of `WriteSession`.

Table and life cycle:

* `active_sessions` and `transfer_history` have a lock each and the
  counters are atomics, so every acquisition is an action: `complete_session` is
  `Remove` and `Push`, called by the session's task and by the clean-up task of
  each run of the server. Requests are admitted one at a time because the main
  loop awaits `spawn_read_session`. Rate limit, ACL and the other reasons to
  refuse a request are the choice not to go on. `last_activity` is the flag
  `stale`, set by `GoStale` and reset by `update_session`.
* A run of `run_server` is a number with a program counter in `pc`; a shutdown
  token is a number, the current one the last that was created. `loopToken`,
  `helperToken` and `session` say which token each task has cloned, so a task
  that is left with a replaced one is visible.

Configuration and interfaces:

* Two settings stand for all: the port (environment and command line override
  it) and the largest block size (the pool follows it). An empty file parses
  and has every default; a file that is rewritten in place is empty first.
  `reload_config` and a restart read, resize the pool and store in steps of
  their own. A server starts with files that parse: `main` ends otherwise.
* The watcher lives with a run (`serving`, `watched`, `unseen`). One that still waits
  for its token when the server has stopped may handle one more event; it is gone
  when the next one begins. Two at once would be two reloads in a race, which the
  properties except.
* An edit of the TUI and an Apply of the GUI clone, save and store; the steps after
  the clone are one action of their own, and a reload may come in between. Moving
  the cursor with the mouse wheel is the key that does it. The text of the TUI's
  filter and the field of a rule that is typed into (Tab) are left out.
* Texts are words of small sets; `"bad"` stands for one that does not parse.
  What is typed between two other keys is one step.

Data:

* A name is a sequence of components' characters without an empty component, and the
  file system a set of locations with links below a root; the build is that for Unix.
  `Storable` says which uploads can be stored at all. It leaves out a target that is
  a link itself: with `allow_overwrite` the file it leads to is written.
* Log lines are numbers. A line goes to the log tab at once and to the file by way of
  the queue of `tracing_appender::non_blocking`, whose guard is forgotten
  (`main.rs:215-216`, 322-323): it is dropped when the queue is full, and what waits is
  lost when the process ends.

History variables are marked as such where they are declared (`taint`, `raced`,
`fresh`, `opened`, `typed`, `moved`, `accounted`...). They record what happened,
no guard reads them, and the properties use them to say under which
circumstances they hold.

## 3. What TLC checks

| Run | Shows | Bounds |
|---|---|---|
| `read_safety` | outcome, no wrong block, no retransmission on a repeated ACK and none that is not paid for (`SendsLeft`), refinement of `BlockTransfer`, under every fault of the model | five blocks, the last one empty and numbered 0; windows of two, the largest `HalfRange` allows of five numbers; one retry, one loss, one needless ACK |
| `write_safety` | outcome, no wrong block, foreign files, refinement of `BlockTransfer` | five blocks, the last one empty and numbered 0; windows of two, the largest `HalfRange` allows of five numbers; one retry, one loss; the client repeats a window when an ACK is repeated to it, and gives up on its own timer (it repeats one then in `session_life`) |
| `session_life` | every download, every upload and every entry of the table comes to its end; as many losses as the retry limit tolerates do not cost a download; an upload that is too large leaves no trace on disk | five instances (`MCSessionLife`): two losses and two retries; all faults but duplication; one byte too large (`WriteSession` itself, with the constants of the cfg); one place for two sessions |
| `write_reordered` | **violated**: see Findings | three blocks in one window, reordering only |
| `write_wide` | **violated**: see Findings | windows of two of three block numbers, one loss, one repeated window |
| `table` | limits while sessions are admitted, end and are cleaned up; each session in one place, one record each, true outcomes, failures counted | three sessions of two clients in one run, two of them across a restart (`MaxInRuns`): sessions, clean-up and a record in transit of the first run meet the second |
| `table_parallel` | **violated**: see Findings | one session allowed |
| `uploads` | one upload lies under the path, never pieces of two; a complete file stays; the buffer holds the block, and where it does not what is stored is a part of the upload; everyone gets an answer | two clients, two tasks, both settings of `allow_overwrite`, one loss, one needless repetition, block sizes 1 and 3, files of 1 to 3 (within the small buffer, one block longer than it, two blocks), one reload or edit, a disk that fails to open or to write |
| `server` | what is shown as stopped is quiet; nothing is left that nobody can stop; starts and stops come to an end; the program ends when told to | three runs, one session, one signal, all three modes |
| `interfaces` | the overrides hold and the pool fits; edits are found again and hit what was opened; keys have one meaning; forms show and apply what they say; single changes of the file are seen | two changes of a file, reloads, restarts or edits in every order, four ways of writing a file, a socket that cannot be bound, a watcher that comes and goes with its run; two rules, two settings, cursors to 2, two modes of the access list; one reload under the TUI and under the GUI, which changes one setting (`Reloaded`) |
| `hot_reload` | **violated**: see Findings | one rewrite in place |
| `algorithms` | block walk; what one end sends the other reads (options, netascii, packets); limits (options, waits, rates, buffers); access list, virtual roots; logs and history across rotation, crashes and restarts | files to 24 bytes and blocks to 5, 4 block numbers; all pairs of 21 options; texts to 5 bytes cut anywhere; five requests of a client, a clock to 8, limits 0 to 2, windows of 2 and 3; two rules; names to four characters and files two directories deep, on three disks (no link, a link inside a root, links out of their roots), with every setting of `follow_symlinks` and `create_dirs`; six log lines and a queue of two (128,000 in `tracing-appender`); three attempts, two windows and three other packets of a waiting session; two sessions, one place in the pool, two resizes |

The three runs of `MCSessionLife`, `MCAlgorithms` and `MCInterfaces` put several
instances side by side that do not touch each other's variables. Their
properties are conjunctions of named parts, each with its own comment:
`BlocksAddUp`, `PeersAgree`, `LimitsAreKept`, `RequestsAreJudged`, `LogsAreKept`,
`EverythingEnds`, `StoreIsSound`, `FormsAreTrue`, `KeysAreSafe`, `EditsAreExact`,
`FormsApply`; likewise `RecordsAreTrue`, `StartsAndStops`, `ProgramEnds` and
`EveryoneGetsThrough`.

The bounds on losses, repeated ACKs, repeated windows and junk packets only
limit how often a fault happens, and the theorems below hold without them being
small. `MaxRuns` bounds the restarts in the same way; three are enough for a run
that ends while the next one is started by one user and stopped by another. Two
blocks per window and two windows are enough for every branch: a partial window,
a full one, one cut at the end of the file, an ACK before, inside and beyond the
window. Two changes of the configuration are enough for one to overtake another;
the third and later ones meet the same states, as the theorems confirm. The
options, rates and rules are bounded sets around every comparison the code
makes: a value below, at and above each limit.
`CHECK_DEADLOCK FALSE` is set because sessions end, and the server may stop.

**Fairness.** In the sessions, `WF_vars(Server)`: tokio polls a task whose socket
or timer is ready; `WF_vars(Client)`: packets that are not lost arrive, and the
client runs. In the table, a session's future returns (`EverythingEnds` shows
it) and its task is polled; the clean-up is polled once it has started, but
nothing makes it start, nor a session go stale. In `Uploads`, the main loop and
the tasks go on, and a client that waits repeats its request. In
`ServerLifecycle`, a run goes on, background tasks look at their token every
second, and a `main` that has returned leaves; nothing is assumed of users,
signals, requests or sessions. In `Configuration`, what has begun goes on and
the watcher gets to its events. Nothing is assumed of any fault. Duplication is
left out of the liveness instances: each packet restarts the receive timer in
the code, so a peer that repeats packets faster than the timeout keeps a session
open, and no fairness excludes that. `OnlyPacketsProlong` bounds what it can do:
each such packet buys one wait.

## 4. What is proved

The theorems hold for every value of the constants under the modules' named
assumptions (`WireModAssumption`, `WalkAssumption`, `ReadAssumption`,
`WriteAssumption`, `TableAssumption`, `LifecycleAssumption`, `UploadAssumption`,
`ConfigurationAssumption`, `StartsAssumption`, `ConsoleAssumption`,
`TimerAssumption`, `PoolAssumption`, `RateAssumption`, `LogAssumption`,
`TransferAssumption`, `FormsAssumption`), which TLC evaluates on the instances.

* `TftpBlocksProofs`: `BlockToAbsolute` is exact up to a full turn ahead of its
  base; a block behind the base is not taken for one of the window, as long as it
  and the end of the window are less than a full turn apart; exactly the last
  block of a file is short. The argument goes through two lemmas on `%` and `\div`.
* `ReadSessionProofs`: type correctness, `NeverAheadOfClient`, `FileIntact`,
  `CompletedMeansDelivered`, `ReportedBytes`, `NoAmplification`, the bound on a
  session's work and the losses it survives (below), and the refinement of
  `BlockTransfer`. `FileIntact` and the rest are not inductive by themselves: `IInv` adds that what is in flight is bounded by what was sent
  (`PacketsInv`: DATA up to `windowEnd`, ACKs up to what the client holds), the
  locals of each phase (`PhaseInv`) and the telescoped byte count (`BytesInv`).
  With `PacketsInv` the two 16-bit comparisons become exact (`AckIsExact`,
  `AppendIsExact`), which takes `HalfRange`: an ACK that was overtaken is up to two
  windows behind the end of the current one, and has to be less than a turn behind
  it.
* `WriteSessionProofs`: type correctness, `UploadIntact`, `AckedIsReceived`,
  `CompletedMeansStored`, `SizeLimit`, `NeverOverwrites`, `LargeIsStopped`, the
  bound on a session's work (below), and the refinement of `BlockTransfer`, in
  which the client is the sender. `LargeIsStopped` speaks of one of the instances of
  `MCSessionLife`, which is why the module extends that one: no other kind of
  behaviour turns into it, and its steps are those of one write session. `IInv` adds that ACKs in
  flight are below `expected`, that DATA in flight is at most the client's
  window, and that the window buffer misses the block it waits for
  (`BufferInv`); `FlushFacts` shows that the flush loop moves `expected` by
  exactly the run of buffered blocks. All of these but `NeverOverwrites` take
  `HalfRange`, a window of less than half the block numbers, which the program does
  not enforce: `DataIsExact` needs that a repeated block, a full turn further on,
  lies beyond the window, and `write_wide` (Findings) shows what happens otherwise.
  `NeverOverwrites` rests on nothing but that a session fills a file it opened
  itself. The theorems of the read session take `HalfRange` as well.
* The work of a session, in both modules. `SendsLeft` counts the transmissions the
  server still has, `max_retries + 1` for each block that is left and for the
  opening, less the retries already used; `Fuel` adds the phases that lie ahead
  and the junk the handshake of a download tolerates.
  `ServerWorkIsBounded`: every step that moves the server lowers `Fuel`, and every
  packet it sends lowers `SendsLeft`, under every fault, so that repeated, replayed
  and junk packets never buy a peer more than
  `(Total + 1) * (max_retries + 1)` transmissions (a window counts as one). The other
  steps of the server are an ignored ACK of a download and a block of an upload
  that is ignored or only stored in `window_buf`; with duplication these may go on
  for ever. `EveryStepCounts`: without it
  every step of anybody lowers `Work`, a natural number: a unit of `Fuel` weighs more
  than all the packets it may put in flight (`Flight`), and each packet more than
  what its receiver answers with. A session therefore has no infinite run,
  whatever the constants. This is the safety half of `EverythingEnds`; that a
  session which can go no further has also been recorded needs the fairness, and
  is what TLC checks.
* Losses of a download. `LossesAreSurvived`: when packets are only lost and
  repeated, `max_retries` losses or fewer, wherever in the session they fall, never
  end it in `Failed`, `Cancelled` or a rejection (`OnlyLosses`; the handshake meets
  no more junk than it tolerates). `LossInv` gives every timeout a loss of its own:
  as long as a window has met no more losses than timeouts, something is in flight
  that will bring the server forward by itself (`UnderWay`: an ACK of the window, a
  repeated block that the client answers with one, or all of the window that the
  client misses), so that the timer cannot expire. This is the safety half of
  `SurvivesLosses` for all constants.
* The lifetime of packets, in both modules. `NothingDies`: where the network keeps
  the order of packets, nothing in flight gets a full turn of the block numbers old
  (`NothingDead`), since a window moves only when the oldest ACK or block is read.
  The lifetime the model gives packets (`AckAlive`, `DataAlive`) is therefore an
  assumption about reordering only, and with `HalfRange` only about packets that
  were overtaken by more than half a turn of blocks.
* `SessionTableProofs`: type correctness, `LimitsHold`, `OnePlaceEach`,
  `RecordsAreTrue`, `NoFailureUncounted`. `LimitsInv` carries what the main loop has read up to the
  insertion; it is inductive because between registrations the table only
  shrinks (`TableShrinks`). `PlaceInv` adds to `OnePlaceEach` that at most one
  actor is about to push a session's record (`Pushers`), that an unregistered
  session is nowhere, and that a restart in progress is exempt; `PushersSteps`
  shows that a pusher appears only when a removal finds the session, and
  disappears only into `accounted`. `accounted`, the ids pushed in this run, is a
  history variable: without it a record dropped beyond `MaxHistory` could not be
  told from one never made. For `NoFailureUncounted` the failures in the history
  are a finite set that a push enlarges by at most one (`PushAddsOne`), and every
  failure that is not pushed yet has its error counted before or after
  (`CountedType`, `CountedNext`, `FailureStep`).
* `ControlProofs`, life cycle: type correctness, `StoppedIsQuiet`,
  `NothingOrphaned`. `LifeInv` is the types, `TokenBound` (no token without a run), and, while no two
  starts raced, `Orderly`: at most one run is busy, what the interfaces show
  follows its program counter, and every loop, background task and session has
  the current token or a cancelled one.
* `UploadsProofs`: type correctness, `OneUpload`, `CompleteFileStays`,
  `BufferHoldsBlock`, `AckedIsWritten`. `IInv` adds who may have written which
  piece (`OwnPieces`), that a buffer is at least its negotiated block unless the
  pool shrank or was bypassed (`BuffersGrow`), that only a smaller buffer cuts
  (`CutsAreSmall`; with the one before it, nothing is cut: `NothingCut`), that client and task agree on
  whom they talk to (`Partners`), and that something under the path has a writer
  that did not fail (`Origin`).
* `ControlProofs`, configuration: `StoreIsSound` (types, `PoolFits`, `OverridesHold`,
  `NotReset`) and `EditIsReloaded`. Neither is inductive, since the promise only
  holds at rest: `Solo` says that without a race one actor works at a time,
  `PoolFollows` and `OverridesFollow` carry pool and overrides through the
  phases of a reload and a restart, `SavedIsThere` follows an edit to the file a
  load asks first, and `WholeActors` with `WholeFiles` shows that a default can
  only come from a file that is being rewritten.
* `ControlProofs`, terminal: `KeysAreSafe` and `EditsAreExact`, for any rules,
  texts and reloads. `OpenedIsThere` (the rule that was opened is still at its place until
  a reload), `OneMode` and `SavingInv` (an edit that has cloned stores the clone with
  that edit alone) make the two action properties follow key by key.

* `DataProofs`: what is defined by recursion over its input. The provers cannot
  instantiate the library's induction theorems, whose parameter is an operator, so
  induction is done on sets: `NatSet` says that a set of numbers that holds 0 and
  every successor is all of them, from the least-element principle, and
  `RecursionExists` that a function defined by recursion on the numbers exists, so
  that its equation may be used. From these: the options (`OnlyAsked`,
  `ViewShared`, for any number of options in any order), the waits
  (`BackoffFacts`; `TimerInv` bounds the wait by the sum of the waits of the
  attempts so far), the log files (`LogInv`: the files hold what was logged in
  order with gaps only where lines were dropped, `FilesInv`; what was read for a
  rotation is a prefix of the file it goes back to, `SnapshotInv`; the tab shows
  the end, `TabInv`) and the transfer history (`TransferInv`: every line is
  records of the set, each id on one line, `LinesInv`; the glued ones are those
  on lines of two, `GluedInv`; the history is written, `HistoryInv`).
  `SelectPlaces` says what filtering does to a list: the elements kept stand in
  their order, each at the place counted so far. With it `FormsAreTrue` and
  `FormsApply` hold for any fields, texts, rules and reloads (`FormsInv`; `ApplyInv`
  says what an Apply that has cloned will store).
  `JoinedPiece` says that each piece of a concatenation lies behind the ones
  before it, which the blocks and the packets below rest on.
* `AlgorithmsProofs`: `BlocksAddUp`, `LimitsAreKept`, `LogsAreKept`, `PeersAgree`
  and `RequestsAreJudged`, for the specification that puts the parts side
  by side: a step of it is a step of one machine and leaves the others alone
  (`EachMachineSteps`), so that the invariants of the parts are conjoined.
  `WalkInv` says that the number and the sum are those of the block the walk is
  at. `PoolInv` says that no buffer is in two hands. `RateInv` says that an
  entry's count is the number of requests allowed since its start, that the
  windows of the answers follow each other, and that with and without the
  clean-up the entries differ only once they are over; `NoBurst` follows because
  an interval of the window's length meets at most two windows, each of which lets
  `Allowance` through (one request when the limit is zero), `NeverPunished`
  because a refused request has `limit` others in its window. The options are
  proved for a configuration with the protocol's defaults, 512 bytes and one
  block (`ShippedDefaults`): the code does not validate `default_blksize` and
  `default_windowsize`, and `build_oack` leaves out what equals the protocol's
  defaults, so that other defaults are not told to the client.
* `AlgorithmsProofs`, functions: the inputs of `MCAlgorithms` are bounded sets, but
  each property of a function is a theorem of its own for every input, from which
  `PeersReadTheSame` and `RequestsFollowTheConfiguration` follow by the types of the
  inputs (`InputInv`).
  `TextSurvivesAll`: both netascii directions are functions of a byte and the one
  before it, so that decoding byte `i` of the encoding only needs its neighbours,
  and joining the blocks again gives back the text whatever the cut (`BlocksJoin`).
  `PacketRereads` and `RequestCut`: the terminators of a packet are a rising list of
  places (`RisesOnce`), the texts are what lies between them (`TextFacts`), writing
  them reproduces the places (`TextsWritten`), and a prefix of the packet has a
  prefix of them (`TextsCut`).
  `ListReads`: the rules the engine keeps are the usable ones in their order, so the
  first that matches is the topmost of the list.
  `AnyOrder`: the stable sort puts each root at a place of its own (`PlacesFill`), so
  the loop finds a longest alias the name begins with (`LongestFound`), and two of
  the same length are the same (`OneBeginning`).
  `StoredIsFound`: the directories above a new file are those above its parent
  (`WayToFile`), so both requests follow the same links and pass the same checks. It
  takes an upload that can be stored (`Storable`), and excepts only what
  `create_dirs` lets through without a check (`Unchecked`).

Only model-checked: the liveness properties (`SurvivesLosses`, `EverythingEnds`,
`EveryoneGetsThrough`, `StartsAndStops`, `ProgramEnds`, `WatchedIsSeen`), which
are beyond the prover, since their fairness speaks of `ENABLED`. For the sessions
`EveryStepCounts` and `LossesAreSurvived` prove the part that needs no fairness:
a session has no endless run, and few losses do not end it badly. `ReportedBytes`,
`FileIntact`, `AckedIsReceived` and the types of the session table are proved and
take no run.

## 5. Findings

* `write_reordered`: when the short last block of a windowed upload arrives
  before an earlier block of its window, the gap is filled by a full block, and
  `is_last && window_buf.is_empty()` (`core/session/mod.rs:787`) is false for
  that packet. The client is acknowledged and finished; the server times out,
  records `Failed` and never writes the file. `CHANGELOG.md:34` lists "WRQ with
  windowsize>1 truncation on out-of-order blocks" as fixed. Losing the earlier
  block and having it repeated leads to the same state.

* `write_wide`: when the ACK of a full window is lost, the server waits for the
  window after the one the client repeats. `block_to_absolute` takes a repeated
  block for the next one with its number at or after `expected_block`, 65536 blocks
  further on, and the window test (`core/session/mod.rs:759`) accepts it when the
  window is that long, which takes a `windowsize` above 32768: the block is buffered
  there and appended in the place of another. `max_windowsize` is a `u16` that is
  not checked (`core/config/mod.rs:146`); its default, 64, is far from it. The
  comment of the function (`core/session/mod.rs:544`) promises "accounting for
  rollover". With windows of less than half the numbers `NothingMisplaced` proves
  that it does.

  A download misreads late ACKs in the same way (`core/session/mod.rs:485-502`, with
  546-554), and needs no loss for it: `BlockToAbsolute` looks for the number of an
  ACK at or after `base_block`. With a window of 40000 a client acknowledges block
  10000, because a block was missing, and then block 40000; the second ACK arrives
  first and the window moves to 40001; the first one is then taken for the ACK of
  block 75536, which lies in the new window, and the server goes on behind it. The
  client misses the blocks in between, and the session may be recorded as
  `Completed`. The smallest instance is `ReadSession` with `WireMod` 3, windows of
  two, three blocks and reordering as the only fault: `ACK(2)` is read first,
  `ACK(1)` is taken for `ACK(4)`, and `CompletedMeansDelivered` and
  `NeverAheadOfClient` fail while the client has two of the blocks. Therefore
  `read_safety` and the theorems take `HalfRange`.

* `table_parallel`: `cleanup_stale_sessions` takes a session out of the table
  when nothing was acknowledged for `session_timeout` (`core/state.rs:332`, 120 s
  by default). A read session that retransmits with the default timeout, retries
  and backoff lives 3+6+12+24+48+96 = 189 s without an acknowledgement, and
  nothing cancels its task. The main loop counts the table only, so that more
  sessions run than `max_sessions`, which `README.md:229` calls "Maximum parallel
  sessions".

* `hot_reload`: the watcher reloads at the first event and drops those of the
  next two seconds (`core/mod.rs:338`) without looking again. A file that is
  rewritten in place is empty at the first event, which parses as a
  configuration of defaults; the event of its content is dropped, and the server
  goes on with the defaults until the next change. `README.md:54` promises
  "TOML config with hot-reload (file watcher + SIGHUP)". `WatchedIsSeen` says what
  remains true: single changes outside the two seconds are seen.

Three disagreements with a document have no run of their own; the properties name
the exceptions:

* `README.md:248` calls RFC 2349 "Fully implemented". A requested `timeout` is used by
  the session (`core/session/mod.rs:155-163`) but `build_oack` never confirms it
  (lines 183-203): the client has to assume that the server did not take it. A
  request with no other option gets an OACK without any option. A `tsize` in a write
  request is not echoed, since `file_size` is `None` there (line 166). `SharedView`
  speaks of the block and the window size only.
* `SECURITY.md:28` says "all paths canonicalized and validated". A name is freed of
  its slashes and then of its backslashes, once each (`core/fs/mod.rs:45`, 49, 108):
  of a backslash and a slash the slash stays, and `join` puts the rest in the place
  of the root. A read checks the canonical path afterwards; a write checks its
  directory only where there is one (lines 154-171), and with `create_dirs`
  `core/session/mod.rs:600-610` creates the missing ones, also through a link. What
  is stored there is not read back. `ReadsBack` holds for every other name
  (`Unchecked` is the exception), and without `create_dirs` for all.
* `README.md:278` describes the key `r` as "Reload config & files". It reads the rows
  of the running configuration again (`tui/app.rs:640-643`), not the file.
Observed, not disagreements with a document:

* A limit of zero of the rate limiter is no ban: the request that finds an expired
  entry passes (`core/state.rs:269-273`), so one request passes per window. A request
  from an unknown address, or one the clean-up has removed, is refused, which is the
  one way in which the clean-up can be seen. `NoBurst` and `CleanupInvisible` say
  both.
* A session that is cleaned up and then fails is counted twice in `total_errors`,
  once by the clean-up and once by its task (`core/state.rs:341`,
  `core/session/mod.rs:293`), which is why `NoFailureUncounted` is an inequality;
  a session of the last run that completes during `reset_for_restart` leaves its
  record or its error in the new run's statistics.
* The final ACK of an upload is sent before the file is opened
  (`core/session/mod.rs:790`), so a client that is done may find its file
  refused, partly written or not written; `CompletedMeansStored` is a property of
  the server's record, and `AckedIsWritten` names the reasons, a path that cannot be
  opened (`core/session/mod.rs:812`) included. A partial file
  left by a failed write blocks every retry when `allow_overwrite` is off.
* An upload whose DATA packets do not fit its receive buffer is stored in part. The
  buffer has the pool's size when the session acquires it
  (`core/session/mod.rs:732`), not that of the negotiated block; an interface that
  stores another `max_blksize` leaves the pool as it is, and a reload may make it
  smaller in between. `recv_from` then cuts the packet, `data.len() < blksize`
  (line 760) takes it for the last one, and the part is acknowledged, written and
  recorded as `Completed`. A client whose file was a single block is done; one with
  more to send is never answered again. `BufferHoldsBlock`, `OneUpload` and
  `AckedIsWritten` say that these two ways are the only ones.
* Two starts in quick succession run two servers (`tui/app.rs:620`: the state is
  still Stopped until the spawned task has reloaded); the properties of the life
  cycle exclude it by `raced`. A tray Stop between a start and its reset cancels
  the token that is replaced next, and is lost.
* An edit in an interface saves the running configuration, so what the command
  line or the environment had overridden gets into the file; the filter of the
  TUI hides rules but `d` still deletes the one under the cursor.
* Every edit of the TUI (`tui/app.rs:390-458`, 463-480, 484-488) and both Apply
  buttons of the GUI (`gui/tabs/config_tab.rs:396-406`, `gui/tabs/acl_tab.rs:469-472`)
  clone the configuration, save the clone and then store it. A reload that stores
  in between is taken back, in memory and in the file. `EditsAreExact` and
  `FormsApply` except exactly that, by the history variables `overtaken` and
  `crossed`.
* The watcher belongs to a run of the server (`core/mod.rs:105-114`). A change of the
  file while the server is stopped, or between the load of a start and the new
  `watch`, raises no event for anybody. Every start of an interface loads the file
  (`tui/app.rs:620-634`, `gui/app.rs:199-203`), so only a change in that gap goes
  unseen, until the next load. `WatchedIsSeen` excepts it by `unseen`.
* `VirtualPaths` compares an alias with the start of a name, also inside a path
  component (`core/fs/mod.rs:47`).
* The size a client announces for an upload is never compared with
  `max_file_size` in advance, since `params.tsize` is always `None` for a WRQ
  (`core/session/mod.rs:626`); the check while receiving is what `SizeLimit`
  proves.

## 6. Not modelled

* `core/i18n.rs` (tables of texts), drawing, exports, the file browser and the
  tabs of the interfaces that only show.
* Socket options, binding to several addresses, the Windows event log and the
  registration of the service, the set-up of logging: calls into the operating
  system. That binding fails, or finds the address in use, is a choice in
  `ServerLifecycle`.
* The bandwidth sample and the byte counters the interfaces show;
  `parse_log_line`, which splits a line into columns; `parse_size` and the
  language of the system; `FileHandle`, which maps or reads the same bytes; the
  pool's counters of hits and misses; the status text
  and the limit of connections of the control socket.
* The prefix match of addresses, TOML and UTF-8 decoding belong to libraries and
  are modelled by what they return.
