# Verification of tucode

tucode is an editor with two frontends (a terminal UI in Node, a native Mac app)
over VS Code's services and one Rust backend. The frontend starts the backend as
a child process (`tscode-host`) and talks to it in JSON lines: channel calls,
which run concurrently, and subscriptions, which stream events back. These TLA+
modules model that boundary and the stateful parts of the backend behind it. They
are translated from the source; paths below are relative to the repository.

Three kinds of results are kept here: runs of TLC on small instances, theorems
checked by TLAPS for every value of the constants, and counterexamples in which
the code does something other than its documentation says.

## Inventory

| Component | State | Operations | What is hard, and what makes it correct |
|---|---|---|---|
| Resource locks, `tscode-fs/src/locks.rs` | a table of weak pointers to async mutexes, a sweep threshold | `acquire`, `acquire_pair`, drop | The look-up and the wait are two steps; dead entries are swept in between. One resource must never have two mutexes; waiting is FIFO. |
| Disk provider, file channel: `tscode-fs/src/provider.rs`, `tscode-app/src/channels/file.rs` | handles with their locks, each connection's own handles, retries | `open`, `write`, `close`, `writeFile` (in place and atomic), `readFile` (atomic), `cloneFile` | A stream's lock lives across calls; atomic writes and clones take two; a closing window reclaims handles under calls in flight. Writers never interleave; everything finishes; nothing leaks. |
| Connection, `tscode-app/src/rpc.rs` | the calls in flight, the dispatcher | dispatch, close | Subscription changes run inline in arrival order, calls are spawned. The close cancels subscriptions, joins the calls, closes the handles, shuts the terminals down, in that order. |
| Channel registry, `tscode-app/src/channel.rs`, and `ipc.tauri.ts` | subscriptions, their teardowns, sinks with an `active` flag; the emitter's cycles of listening | `channel_listen`, `channel_unlisten`, `emit`, first and last listener | Listeners leave while a subscription is opening and come back before it is torn down. Events are neither repeated, lost in the middle nor late; nothing is subscribed that nobody disposes. |
| Watch channel, `channels/watch.rs`, and `diskFileSystemProviderClient.ts` | sessions with a sink, stored watchers | listen, `watch`, `unwatch`, end of a session, close | A `watch` awaits the disk twice between looking its session up and storing its watcher. No watcher may outlive whatever would drop it, and none that is wanted may go. |
| File watcher, `tscode-fs/src/watcher.rs` | a batch, two deadlines | debounce, coalesce | Changes cancel out, renames change case, batches end anywhere. The batches must add up to what is on disk, and none may be put off for ever. |
| Host process, `ipc.host.ts`, `tscode-app/src/host.rs` | pending calls, why the host is gone, the progress of `stop` | `invoke`, `receive`, `die`, `stop` | Exit, close, pipe errors and `stop` each declare the host gone in any order. No call hangs, no written reply is lost, a drain loses nothing, `stop` returns. |
| Flow control, `tscode-pty/src/flow.rs`, `spawn_reader`, `AckDataBufferer` | unacknowledged count, pause; the client's leftover | read, acknowledge, replay, dispose | Three thresholds and three strict comparisons on two sides of a boundary. The window is bounded and a pause ends. |
| Terminal commands, `tauriTerminalProcess.ts` | one queue of commands | `input`, `shutdown`, acks, replays | One command at a time, one of which can block on the shell. |
| Terminals, `tscode-pty/src/process.rs`, `registry.rs`, `channels/pty.rs` | registry, sinks, launch, reader and waiter threads, supervisor | `create`, listen, `start`, `input`, `shutdown`, exit, `shutdown_all` | Three tasks and threads report one life; the window may go anywhere in it. `ready` first, `exit` last and once, no shell left. |
| Repositories, `tscode-fs/src/registry.rs`, `tscode-git`, `channels/scm.rs`, and `contrib/scm/tauri` | open repositories, an epoch; a refresh loop, a batching window, what is shown and painted | open, close, status, mutate, discover, refresh, schedule | Polls race mutations, discoveries and file events. A stale snapshot must be recognised, the view at rest be current, a stream of triggers not put the poll off. |
| Search, `tscode-search`, `channels/search.rs`, and the two clients in `services/search/tauri` | a token per search, shared counters, a queue, a batch with a timer | search, cancel | Threads that share one limit and one count; a success that misses a batch; a result that waits behind a slow file. |
| Shell detection, titles, process trees (`tscode-pty`), roots and paths (`tscode-fs`), readers of git and Sapling, `tscode-proc` | none that lasts | readings of the system | |
| Terminal service, `ptyService.ts` | persistent terminals, grace timers | attach, detach, replay | Reconnection races with expiry. |
| Terminal UI (`src/tui`, `src/workbench`, `src/terminal`), Mac app (`mac/`, `tscode-mac`) | presentation of VS Code's models | | One event loop each; windows are connections. |
| VS Code's workbench, vendored packages | reused | | Not this project's code. |

How they interact: the frontend calls `HostProcess.invoke`, whose lines the
connection dispatches. A call runs in a task of the connection's `JoinSet` and
answers when it ends. A `listen` stores a sink under an id; watchers, terminals
and searches emit through it until the id is unlistened or the connection closes.
All connections (a Mac window each, or the terminal's one) share one disk provider
and with it the lock table; everything else is the connection's own.

`PROJECT.json` lists every component with its status, and each hazard at its line
with the properties that would catch it.

## Modules

Each module keeps the names of the source. Two steps of the code are two actions
wherever a lock is let go of, a future awaited or a message sent between them.

| Module | Models | State and actions |
|---|---|---|
| `LockService` | what `acquire` promises: one FIFO queue per resource | `Join`, `Leave` |
| `ResourceLocks` | `locks.rs` | `LookupExisting`/`LookupFresh` are the critical section with its sweep, `Enqueue` the first poll of `lock_owned`, `Release` the drop. An entry is dead when no caller references its mutex |
| `FileProvider` | `provider.rs`, `channels/file.rs`, the close of `rpc.rs`, the write queue of `fileService.ts` | an operation is a record of its kind and files that runs through `pc`; handles are named by it. It uses `LockService` (`INSTANCE`), not the table: that the table implements it is proved |
| `WatchChannel` | `channels/watch.rs`, the dispatcher, the client | the request stream `frames`, one action per stretch of a call between two awaits, `EndSession`/`RetainWatchers` for the two locks of `end_session` |
| `ChannelIpc` | `ipc.tauri.ts`, the handlers of `ipc.host.ts`, `channel.rs`, the dispatcher | the emitter's cycles, both streams, `CheckActive` then `Emit` as `EventSink::emit` has them. Readline emits all lines of a chunk in one task: `Receive` is a line of it, `Run` one of the microtasks that come after the last; `attached` is who still has a handler, `jobs` what is due |
| `HostProcess` | `ipc.host.ts`, `host.rs` | a JavaScript task is one action, but for the chunk, which is read reply by reply (`delivering`); no other task starts before the continuations of the promises it settled have run (`NewTask`) |
| `FlowThresholds` | `flow_control` in `types.rs` | the constants of the next two modules and what `flow.rs` tests of them |
| `FlowControl` | `flow.rs`, `spawn_reader`, `AckDataBufferer` | counters of characters in each place between the child and the parser |
| `PtyCommands` | the queue of `TauriTerminalProcess` and the device around `FlowControl` | acknowledgements are elements of the queue; it implements `FlowControl` with `acking` and `clearing` read off the queue. `Write` fills a device that may be smaller than the input; `Shutdown` is answered at once and `SupervisorKills` comes later |
| `TerminalProcess` | `process.rs`, `registry.rs`, `channels/pty.rs`, the client's launch, the close | client, launch, threads, supervisor and connection as separate program counters |
| `SourceControl` | `coalescingRefresh.ts`, `git.contribution.ts`, `channels/scm.rs`, the registry and `GitService` | a repository is a counter that each write advances, a painted one the counter at which its snapshot began to be read; polls, mutations and discoveries step from await to await |
| `FileWatcher` | one watch of `watcher.rs`, with the tree below it and the client's view of it. `Rename` moves a folder with all that is in it and reports the folder; `lost` keeps the keys of what it moved | `Process` and `Coalesced` are the coalescer, `Receive`, `Tick` and `Flush` the branches of the debounce loop |
| `Search` | `engine.rs`, `batch.rs`, the two searches, the channel's event and the client | `walker` is where each thread is between two atomic steps; text, file and `exists` queries are one module, told apart by `kind` |
| `ResourceLocksProofs`, `FileProviderProofs`, `FlowControlProofs`, `SourceControlProofs`, `SearchProofs` | | theorems about the module each extends |
| `WatchChannelProofs` | | theorems about `WatchChannel` and `FileWatcher`, whose batches are the events of such a session |
| `ConnectionProofs` | | theorems about `ChannelIpc` and `HostProcess`, the two halves of the frontend's connection |
| `TerminalProcessProofs` | | theorems about `TerminalProcess` and `PtyCommands`, the two sides of a terminal; what holds of the window comes from `FlowControlProofs`, an instance |
| `MC...` | | instances for TLC |

Two modules with theorems in one place have no name in common: hence `HostSpec` and
`HostTypeOK`, `WatcherSpec` and `WatcherTypeOK`, `CommandsSpec` and `CommandsTypeOK`.

An operator described as "Mutant of X" is a plausible slip in the code X stands
for. It is used nowhere in the model; replacing X by it must break a property.

Composition: `FileProvider` stands on `LockService`, which `ResourceLocks`
implements; `PtyCommands` puts `FlowControl` behind a queue and implements it;
`WatchChannel`, `FileProvider` and `TerminalProcess` each close the connection as
`Connection::close` does, for the part of it they own. They share no other state.
`SourceControl` takes in the frontend's loop and the backend's registry at once,
because what makes a snapshot current is on both sides of the boundary.

Where a model departs from the code's own steps, it allows more: `discover` asks the
folders in any order; the coalescer folds each change as it arrives instead of the batch
at its end, which is the same fold; a mutation writes one repository, where a
multi-selection may run several one after the other; a line of a searched file has one
match. A poll whose call is rejected is not modelled: only a host that is gone rejects it.

External, and modelled from how the code uses it: tokio's mutex is a FIFO queue; a shell may
write, read, exit or do neither whenever it likes, and dies when it is killed; git and other
programs write to a working tree at any moment; the OS reports each change of a watched tree
in order; Node emits `close` after `exit` once the output has been read; a host that is
killed exits.

## What is checked

Twelve runs; a pass is exhaustive for its instance. Type invariants carry, besides
the types, one or two relations between variables that their mutants break.

| Run | Instance | Shows |
|---|---|---|
| `lock_table` | 3 callers, 3 resources, 4 mutexes, `MinSweep` 1 | `MutualExclusion`, `ImplementsLockService`, `EventuallyOwns` |
| `files` | 3 operations of 2 windows on 2 files and their temporary siblings, 1 retry; window `c1` may close | `NoInterleaving`, `NothingLeftBehind`, `NobodyWaitsForEver` |
| `file_drain_starves` | a stream and a write of one window, a clone by another | violates `OtherWindowsServed` |
| `watch` | 2 sessions, a watch each | `NoWatcherLeaks`, `KeepsWantedWatchers`, `WatchesAreArmed` |
| `subscriptions` | 2 listeners, 2 cycles, 3 events, a channel that may refuse, chunks of any length | `FiredInOrder`, `NoOrphan`, `CyclesServed` |
| `host` | 3 calls, one made by the continuation of another | `NoCallHangs`, `NoAnswerLost`, `StopEnds` |
| `flow` | high 9, low 3, ack 3, reads of up to 4 | violates `NeverStranded` |
| `commands` | high 3, low 2, ack 2, reads of up to 2, one replay; a device of 2, 8 characters of output, one input of 3 | `ImplementsFlow`, `QueueMemoryBounded`, `QueueStrandedOnlyByFullAck`, `QueueReaderReleased`, `QueueDelivers` |
| `terminal` | one terminal, up to 2 reads, either build | `ReadyFirstExitLast`, `NoShellLeft`, `TerminalsEnd` |
| `scm` | one repository, one mutation, two discoveries that may overlap, two writes | `RestIsCurrent`, `StaleIsAMiss`, `ViewCatchesUp` |
| `watcher` | a folder with a file and two spellings of another, 3 changes of the tree, 2 changes in the channel, deadlines of 1 and 2 ticks | `NothingUntold`, `BatchesAreExact`, `WritesAreRead` |
| `search` | 3 walkers, 2 folders of 5 files, one of them slow, limits below and above what there is, batches of 2 | `SuccessIsWhole`, `OverrunBounded`, `FoundArrives`, `SearchEnds` |

Some properties join what one question asks: `NobodyWaitsForEver` is that operations finish
and connections close; `NoWatcherLeaks` that stored watchers are reachable and closed
connections have none; `CyclesServed` that producers end, listeners that return are
subscribed and events arrive; `NoAnswerLost` that neither a drain nor a host that closes by
itself loses a reply; `QueueMemoryBounded` that the window and the client's lag are bounded;
`QueueDelivers` that output and a shutdown get through or come to one of the two stops it
names; `TerminalsEnd` that an exit is reported, a running process is killed and a window is
done with its terminals. The type invariants of `ResourceLocks`, `WatchChannel` and
`HostProcess` are proved and not run, and `FlowControl`'s is part of the one of
`PtyCommands`.

**Why the bounds are enough to be interesting.** Locks need an owner and two that wait for
barging to show, and more resources than the sweep threshold for the sweep to run while
callers are in every stage; one mutex more than resources keeps a fresh one available. Files
need a second pair of locks in the other direction and a third operation to block on:
`MCFileProvider` lists the mixes. Watching needs two sessions because ending one sweeps the
table of both. Two subscription cycles are the one that is let go of and the one that follows
it; `ConnectionProofs` has any number of them. The flow's thresholds are ordered as
the real ones are, with the ack size equal to the low watermark, and reads of any size make
every remainder by the ack size occur; its unbounded counters are bounded by the window
itself, and `MaxReplays` bounds the one thing that adds to the lag. The input of `commands`
is larger than its device, so that a write can block the queue. Terminals of a window share
only the registry, which the close takes whole; one is enough for the orders of its own
tasks. One repository is enough for every order of a poll's two reads, a mutation's writes
and end, and a folder that goes and comes back while the two run; two writes let a second
fall behind a snapshot of the first, two discoveries are enough to overlap. Repositories
share only the epoch, which any one of them moves, and the pass, which waits for all:
`SourceControlProofs` has what must hold between several. A watched tree needs a folder with
something in it, a name with two spellings and three changes for a pair to cancel and its
key to be taken again. A search needs a batch that waits while a walker is stuck, which the
second folder makes, and more walkers than the limit leaves results. `MaxData`, `MaxEvent`,
`MaxCycle`, `MaxInputs`, `Output` bound what would otherwise go on for ever; each is
reached.

**Fairness.** Weak fairness of every task, thread and timer that is running: tokio polls
spawned tasks, threads are scheduled, timers expire, JavaScript's event loop turns. `files`
also has strong fairness of closing a stream: a client closes in the end what it opens,
however often it writes in between. `scm` has every call answered, git processes end, the
window run out and file events arrive, and lets other programs touch files for ever.
`watcher` has the loop and its sleep go on while writes never stop. `search` schedules its
threads, except one that is reading a slow file. `HostProcess` demands nothing of the host,
except that a killed one exits; `TerminalProcess` nothing of a shell, not even that it reads
what is typed. Nothing is assumed about what users do. `commands` assumes a shell that
writes what it has to and reads, at the latest, when it has nothing left to write: it may
leave its input alone while it is blocked in a write. `CHECK_DEADLOCK FALSE` is said where a
system may come to rest: every call made, every window closed, every terminal gone.
`lock_table` never rests and checks it.

**Conditions in the properties.** `OperationsFinish` (in `NobodyWaitsForEver`) excuses
operations whose own window closes, whose client will not close its stream any more;
`NothingLeftBehind` says what then becomes of it. `ConnectionsClose` holds in `files`
because no other window clones between a file that the closing window streams to and one it
is writing; with such a clone it fails, which is `file_drain_starves`. `CloseCompletes` and
`RunningIsKilled` (in `TerminalsEnd`) excuse a shell that does not read what was typed (see
below). `FiredInOrder` is about what a cycle fires until it has been answered and let go of;
what one that was let go of fires behind its answer in the same chunk is `stray`.
`RestIsCurrent` allows what a repository lost before its watch was armed (`missed`), what
could not be read, and what overlapping discoveries leave: `crossed` has those that ran side
by side since one last ran alone. `ViewCatchesUp` speaks of writes the watch reported
and excuses `crossed`, too.
`QueueDelivers` excuses two states, `Stalemate` and `Stranded`, which are states of the code
(below). `NothingUntold` and `BatchesAreExact` speak of the paths that are `Known`: no
rename of a folder has moved them or what they are in. `SuccessIsWhole` allows a text search
files that could not be read to their end, and counts what they used up.

## What the code does otherwise than it says

Two runs find their property violated:

- `file_drain_starves` (`rpc.rs:119`). A window streams to file 3 and writes
  file 1; another clones 1 onto 3, holds 1 and waits for 3. The first window closes.
  The close joins the write before it closes the stream: write, clone and stream
  wait for each other, though "Other windows continue serving".
- `flow`, with the ack size and the low watermark both 3 as in `types.rs` they are both 5000
  (`types.rs:16-18,28`). `NeverStranded` is what
  `the_ack_size_can_never_strand_a_paused_terminal` says by its name. A leftover of exactly
  one ack size is never acknowledged, since the bufferer's comparison is strict, and does not
  resume the terminal, since the other one is. "must stay less than or equal to" should be
  "less than". `OnlyAFullAckStrands` proves that this leftover is the only way to it.

Met while modelling, and refuted by TLC in seconds with the constants given, each as the
definition in its module; the runs were given up to others:

- `WatchChannel!UnwatchedIsDropped`, with the constants of `watch` (`watch.rs:196`). Both
  calls are spawned; an `unwatch` that runs while its `watch` awaits the disk removes
  nothing, and the watcher is stored afterwards and stays until its session ends, though
  `diskFileSystemProviderClient.ts:252-253` correlates the two "when we ask to dispose the
  watcher later".
- `TerminalProcess!ShutdownKills`, with the constants of `terminal` and no output
  (`process.rs:589`). A shutdown that arrives during the launch finds nothing running, and
  the shell is launched for a terminal that is gone.
- `SourceControl!DiscoveriesAgree`, with the constants of `scm` and
  `MaxWrites` 1 (`git.contribution.ts:144,164`). Each change of the folders starts a
  `discover()` of its own and nothing orders them: the older of two may be the last to
  finish, and leaves the view with the folders of before, though it is to "Reconcile the
  open repositories with what the workspace folders contain".

Met while modelling, and read off the code:

- A snapshot known to be stale is painted before it is polled again
  (`git.contribution.ts:307`), where `coalescingRefresh.ts` speaks of a result that is
  asked for again; the next pass repairs it.
- A refresh that arrives between the loop's last test and its `finally` is lost
  (`coalescingRefresh.ts:61,94`); `RefreshIsLost` is that step, and `RestIsCurrent` holds
  through it only because the file watch reports the same write. A repository whose watch
  is not armed yet is shown out of date until something else polls.
- A mutation that answers late opens its repository again after a discovery has closed
  it, and no later discovery closes it, since `discover()` closes only what it shows, while
  `git.contribution.ts:296-297` says "closed on the next reconciliation". The entry is
  polled and never shown.
- On macOS a rename that changes only case is reported with both spellings resolved
  against a disk that finds either (`watcher.rs:166-182`), so that the old spelling need
  not be deleted, where `watcher.rs:264-265` wants it to disappear.
- A text search whose limit was reached by matches in a file that then cannot be read
  reports the limit with fewer results (`text_search.rs:173,219`).
- `input` is a command of the one queue (`tauriTerminalProcess.ts:218`) and is answered
  when the device has taken it all (`process.rs:515-529`). A paste larger than the
  device takes, to a shell that is writing and paused, blocks the acknowledgements
  that would resume it and the shutdown: `Stalemate`, which `commands` reaches and
  `QueueDelivers` names as one of the two stops.
- `Connection::close` joins such an `input` before `shutdown_all`, the one thing that
  would end it (`rpc.rs:119`).
- An event can be fired twice (`ipc.host.ts:106-107`, `ipc.tauri.ts:180-189`). A listener
  leaves while its subscription opens and another comes. If one chunk has both answers and an
  event of each subscription, all four lines are delivered before the microtask that detaches
  the first: the emitter fires the event of the abandoned one, too.
- A folder is renamed with a file in it, and in the same batch a folder of the old name is
  made (`watcher.rs:268-278`). Deletion and addition become an update, so that the client is
  never told that the file went: what it took for granted of a deleted folder does not follow
  from an updated one.
- A failed launch is never swept from the registry before its window closes, whatever
  `pty.rs:386-388` says: only a supervisor forgets a process, and it has none.
- The frontend's exit timer (`ipc.host.ts:46`) is not longer than what the host may
  need by its own bounds.

## What is proved

All from the assumptions named in the modules, for any value of the constants. Each
theorem rests on an invariant that is inductive, which the property by itself is not; what
had to be added to it is said here.

- **`ResourceLocksProofs`** (any finite set of resources, any callers, mutexes and
  threshold; assumes `None` is no mutex and no resource). `LockInv` is inductive with
  the types: whoever is inside `acquire` or owns its result references the mutex the
  table names for its resource (`OneMutexPerKey`). That needs that the sweep keeps
  what is referenced, that references and stages agree, that no two entries share a
  mutex, and that a queue holds each caller once. From it follow `TypeCorrect`,
  `Exclusion` and `Refinement`: a look-up and a sweep leave the queues of
  `LockService` as they are, `Enqueue` joins one, `Release` leaves one.
- **`FileProviderProofs`** (any operations, windows, files and calls that are well formed,
  any number of retries). Two invariants. `Control` says where a handle can be while its
  operation is at each stage, and that a stream is always known to somebody who will close
  it: to its window's own handles while the window is open or drains, to the list the
  window closes after that; no call of a window goes on once it has drained. `Locking`,
  which needs `Control`, says that an operation holds the lock of a file or has it still to
  come, holds all of them from its open on, and is in no queue when it is over. An
  operation's own locks are what a stream's later write and its close by another task
  depend on, so `NoInterleaving` cannot be shown without the life of the handles. From them:
  `TypeCorrect`, `WritersExclude`, `ClosedHoldsNothing`, and `UsesLockService`: every step
  is one of `LockService` or none, so that what `ResourceLocksProofs` shows of the table is
  of use here.
- **`WatchChannelProofs`** (any sessions, requests and owners). `WatchInv`: a stored
  watcher has a live session, a call about to re-check, or a teardown about to sweep;
  each request's frames and calls follow the client once each; while the connection is
  open only what a client let go of is torn down; what a close has given up stays
  given up. From it: `NoWatcherStranded`, `NothingWatchedAfterClose`, both together
  `NothingLeaks`, and, as an action property, `WantedWatchersKept`.
  - *Batches* (any deadlines and any tree). `Ahead` says, without summing anything, how the
    client is behind the disk: there is a tree for each change in the channel, each made of
    the one before by that change; what the client was told and the first of them are parted
    by the coalescer's entries (`Parts`); and a file it has not read is named by the batch
    or by a change that no deletion follows. Its heart is `ProcessParts`: each pair of an
    entry and a change keeps the entries the exact difference. That needs `Indexed`, that a
    key stands at the one addition or update of its spellings, and that a file system which
    folds case has one of them at a time. `BatchApplied` then is that with a deleted folder
    goes what is in it and nothing else. All this is said of the paths that are `Known`,
    with the entries of the others masked out (`Masked`): a change of a known path does to
    the masked coalescer what it does to the whole one (`ProcessMasked`), and another
    changes nothing of it (`ProcessBeside`), because known paths come with all their
    spellings and folders (`Whole`). A rename of a folder only makes fewer paths known
    (`AheadNarrowed`). From these `WatchTyped`, `NothingIsUntold` and `BatchesExact`. The
    last two assume that folders have one spelling each, `FoldersSpeltOneWay`, and need it:
    let one with a file in it be emptied, renamed to another spelling and back, and the file
    be created again, all in one batch. The batch deletes and adds the folder and updates
    the file, and a client that does no more than apply it has lost the file. The instance
    of `watcher` meets the hypothesis.
- **`ConnectionProofs`**. *Subscriptions* (any number of cycles, listeners and events).
  `ChannelInv` is the types, `Cycles` and `Payloads`. `Cycles` has the one place where the
  request of an opening cycle is (to be dispatched, being answered, answered), and the order
  of the requests. `Payloads` has what `FiredInOrder` says of the past also of the future:
  the events of a producer in the pipe are all it has reported since the first of them
  (`Reported`), and those that will still be fired go on where the last one fired ended
  (`Joined`, `Continued`). The heart is `Apart`: two cycles can be attached at once, and
  then the answer that ends the older is in the pipe ahead of every event of the younger,
  whose producer begins no earlier than the older one's events before that answer had come.
  It ends it for `fired`; what is delivered behind it before its microtask has run is
  `stray`, of which nothing is claimed. `Queued` says which microtasks can be due, and that
  whoever has a handler beyond its time is to lose it in one of them. From it:
  `TypeCorrect`, `EventsInOrder`, `NothingOrphaned`.
  - *The host* (any set of calls, any continuations that make each call
    once). `HostInv`: nothing is pending once the host is gone; a reply is to be read or
    has been settled; until the host is gone nothing fails and callers run on; and what
    each reason for being gone says of the rest. `DrainIsLossless` rests on `Healthy`:
    the drain ends in a state without continuations. From it: `HostTyped`,
    `NothingHangs`, `DrainIsLossless`, `EveryReplyDelivered`, and of the last two
    `AnswersArrive`.
- **`FlowControlProofs`** (any thresholds with `AckSize <= Low <= High`, any read
  size). `IInv` ties the pause to both watermarks and the reader to the pause it has
  waited for: the window is bounded only because a thread that comes to its read has
  found the terminal not paused, and nobody else pauses. From it: `WindowHolds`,
  `LagHolds`, both together `MemoryHolds`, and `OnlyAFullAckStrands`.
- **`TerminalProcessProofs`**. *Terminals* (any number of terminals and reads). `Launching`:
  a terminal is in the registry, or in the list `shutdown_all` took from it, from its
  creation until its supervisor has disposed it; a shell that lives has a launch that went
  on and a supervisor that has not killed it; no launch goes on once the calls of the window
  are joined. `Telling` adds what is sent: a terminal has a sink while its window is open
  and its process lasts, nothing precedes the `ready` of the launch, and after an exit is
  sent the supervisor is past its loop. From them `TypeCorrect`, `ClientIsSentInOrder`, and
  `EveryShellIsTold`, which needs `Launching` because a shell may still be launched when its
  window goes.
  - *The queue of commands* (any size of the device, the input and the output).
    `QueueRefinesFlow`: `PtyCommands` implements `FlowControl`. It comes
    down to counting the commands of a kind as they join and leave the queue
    (`PlacesAppended`, `PlacesTaken`, `PlacesJoined`), to the bufferer's division
    (`AcksWhole`: what it takes off is exactly the acknowledgements it queues), and to
    `Queued`: no replay is in the queue that was not asked for. `QueueTyped` has its types. The theorems
    on the window carry over the refinement: `QueueMemoryHolds` and `QueueStrandsNothing` say
    that both sides' memory stays bounded, and that only a leftover of a full acknowledgement
    keeps a paused terminal paused, however long acknowledgements wait behind other commands.
- **`SourceControlProofs`** (any finite set of repositories, any mutations, any discoveries
  of which one is the first, any number of writes). `Dated` is inductive with the
  types: while a pass computes and its date is still the epoch, what it has read is no older
  than the last mutation that ended. It needs that a date is never ahead of the epoch, so
  that a bump parts them for good, and that the disk is never behind what has landed. From
  it `StaleIsNeverWrong`, an action property. `RestsCurrent` is `RestIsCurrent` of
  any discoveries, those that overlap included: when all is at rest and the last discovery
  that ran had the view to itself, whatever those before it had left, the view is right. It
  needs two invariants: `Reconciled`, of each discovery what it has gathered, of one that runs
  alone exactly what it has still to close or to create, and of what is shown that it is what
  the folders have once none runs and nothing is left of an overlap; and `Fresh`, from then on, that whatever a repository's paint lacks of the disk is on its way, as
  an event, a timer, a pass that has still to read it, a pass that will be discarded, or a
  mutation under way. Two writings of the model came out of this proof: a disjunction of
  `FoldersChange` that was laid out to mean something else, and the assumption that there is a
  first discovery, the constructor's (`DiscoveriesAssumption`). The instance of `scm` has two
  discoveries, so that a third that puts right what two have left is only proved.
- **`SearchProofs`** (any finite set of walkers, any folders of files, any limits).
  `Bounded`: until the limit is stored, the count is past what is allowed
  by no more than the walkers that are about to store it; from then on, count and walkers
  still about to count are together past it by no more than all walkers. From it
  `SearchStaysWithinLimit`, which is `OverrunBounded` of any search.
  - *The whole result.* `SearchGivesTheWhole` is `SuccessIsWhole` of any search: a client
    told of success has found what was counted, all of it unless the limit was hit. The
    property speaks of the end and is not inductive. `Ledger` says that while the client listens
    each file can be entered in one place (`Books`): ahead of the walkers, held by one of them,
    sent and still in the queue or the batch, given to the client, failed, or gone; that its
    entry names a count; and that the counts add up to what has passed the shared counter
    (`Passed`). Which files those are cannot be told from the counters, so the invariant only
    claims that there are such books, and each step shows how to write them on. Beside it:
    `StageSteady`, that before and after the walk nothing waits and nobody is at work,
    `LimitSteady`, that the limit is stored only once it is reached, and `ClientSteady`, that
    nobody is told of success before the end. A sum over files is the cardinality of a set of
    numbered units (`Total`, `TotalGrows`, `TotalSplit`), so that finite sets suffice and no
    induction is needed. `SearchTyped` has the types, `TypeOK`.

Only model-checked: every liveness property (`EventuallyOwns`, `NobodyWaitsForEver`,
`WatchesAreArmed`, `CyclesServed`, `StopEnds`, `QueueReaderReleased`, `QueueDelivers`,
`TerminalsEnd`, `ViewCatchesUp`, `FoundArrives`, `SearchEnds`, `WritesAreRead`). Liveness
under fairness and `ENABLED` are out of this prover's reach. Every safety property of a
passing run has a theorem. Two of them, `NothingIsUntold` and `BatchesExact`, have a
hypothesis that TLC's instance meets and the code does not ensure, `FoldersSpeltOneWay`;
what happens without it is said above.

The modules have no recursive operators and no folds, whose values for every input the prover
could not tell.

## What is not modelled

- Of the modelled components: operations that take no lock (`stat`, `readdir`, `mkdir`,
  `delete`, `rename`, `copy`), which change no state of the provider; what an atomic
  write leaves on disk when it fails; resize, titles, properties, signals and working
  directories of terminals, which touch none of the state above; the suppression of
  acknowledgements during a replay's own output; the decoder's loop, which only
  decides how many characters a read has; the writer task and the durations of all
  timers, which may expire at any moment here.
- Of the file watcher: `normalize_fsevent`, which asks the disk what an event of macOS
  meant, globs and filters, and the last batch of a watcher that is dropped, which nobody
  receives any more.
- Of repositories: the Sapling service and its view, which have caches of their own; the
  config stamp of a git repository, which decides only whether it is read again; history
  and diffs; commands without a repository. Of search: open editors outside the workspace,
  the caches of `rawSearchService`, and the trimming above the two clients.
- Path validation, shell detection, readers of git and Sapling: functions of the system
  without state or order of their own.
- The frontends' presentation and VS Code's own code.

## Plan

Done, in this order: locks and their proofs; files over the lock service; watching and
its proofs; flow control and its proofs, with the command queue that implements it;
terminals; subscriptions; the host process and its proofs; source control over the
registry, with its proofs; the file watcher's batches; search; the proofs of files,
subscriptions, terminals, the command queue, batches, of the view at rest, and of search.

Next, by weight:

1. `AtomicWrite` over `FileProvider` (`provider.rs:208-277`): what is on disk after each
   failure, short writes and the end of the process; abstractly a register.
2. The persistent terminals of `ptyService.ts`: attach, detach, grace timers, replay.
3. Sapling's view, whose caches outlive the status they were read with.
4. Watch reference counting of `fileService.ts`, the dialog queue and pending work.

New runs replace runs that ask less, so that the whole stays quick to check.

Theorems to prove next: that the lock table holds no more entries than twice the live
callers at a sweep and one; that a register is what `AtomicWrite` implements.
