# BedrockUtils in TLA+

BedrockUtils is a library that is injected into Minecraft Bedrock for Windows.
It hooks the game's packet handlers, offers every packet to modules through a
pipeline, and keeps services beside it: a tracker of the players the server
announced and a manager of the commands modules send to the server.

This directory specifies its stateful parts in TLA+, checks them with TLC on
small instances, and proves the most important results with TLAPS for instances
of every size.  Line numbers refer to `src/src/...`.

## 1. Inventory

Three kinds of threads meet in the library: the *network thread*, on which the
game calls the hooked packet handlers; the *run thread*, `dllmain.cpp`'s loop
which calls `AppCore::tick()` every 50 ms and `AppCore::stop()` at the end; and
*any other thread*: the game's render thread where chat is typed, the workers of
the thread pool, whatever a module starts.

| Component | State | Operations | Talks to | What makes it correct |
|---|---|---|---|---|
| `PlayerTracker` (services) | players by UUID; indices by runtime ID, entity ID, name, nametag; callbacks | upserts, removals, movement, despawn, world clear, reset, shutdown, queries | Pipeline (handlers), modules (callbacks outside the lock) | no index is stale; nobody is lost; callbacks in order |
| `CommandManager` (sdk) | queue, active requests, time of the last dispatch | execute, cancel, text, form, tick, reset, shutdown | Pipeline (handlers, dropping), PacketSender, modules (callbacks) | each caller answered once, fittingly and in the end; order kept; cooldown kept |
| `Pipeline` | handler lists, their atomic counts, shared mutex | on, off, clear, process | everything that listens | no handler missed, none run after `off` |
| `PacketInterceptor` (intercept) | hooks, trampolines, session pointers, queue of injected packets | traps, inject, flush, install, uninstall, resetSession | MinHook, the game, Pipeline | injected packets delivered once, in order, on the network thread; no trap runs in removed hooks |
| `Async::ThreadPool` (sdk) | workers, tasks, stop flag | enqueue, init, shutdown | modules | every task runs or its future breaks; shutdown waits for all workers |
| `Module`, `ModuleRegistry` | enabled flags, module list | load, enable, disable, tick, unload, clear | Pipeline, CommandDispatcher | life-cycle hooks paired; nothing runs after unload |
| `CommandDispatcher` (core) | `;;` commands | register, unregister, dispatch | Pipeline (outbound chat), modules | a line with the prefix never reaches the server; a command of a module that is gone is not run |
| `PacketDumper` (services) | armed flag and filter | arm, disarm, checkPacket | Pipeline | dumps what was asked for, and is released |
| `AppCore`, `dllmain` | session flags, eject request | start, tick, stop | all of the above | services are shut down after the last handler ran; what a world taught them is forgotten with it; an ejection ends |
| `SafeString`, `JsonUtils`, `ChatUtils` (sdk) | none | cleaning names, parsing chat and forms | packets' texts, the tracker, modules | names are settled; author and message come apart; quoting is undone |
| `SigScan` (sdk) | none | parsing and searching patterns | the executable | the first match, or none |
| `DataItem` (sdk) | vtables found so far | set, get, flags, harvest | metadata of actors | what is set is read |
| `Chat`, `Factory`, `PacketSender` (sdk) | none | building and sending packets | the game, `PacketInterceptor` | the queue they use is in `PacketInterceptor` |
| `Game`, `Addresses`, `SafeMem`, `CrashHandler`, `Logger` | addresses, cached pointers, log file | guarded reads, logging | the game's memory | process memory and I/O: not modelled |
| packet structs | none | layouts | the game | not modelled |
| `Http` | none | blocking requests | WinHTTP | pure I/O: not modelled |

## 2. How the parts meet

* **Calls.** Every packet goes through `Pipeline::process` (`pipeline/Pipeline.cpp:85`),
  called by the traps of `PacketInterceptor` on whatever thread the game is on.
  `PlayerTracker`, `CommandManager`, `CommandDispatcher`, `PacketDumper` and the
  modules are handlers.  `AppCore::tick` calls `CommandManager::tick` and, when it
  sees the return to the menu, `shutdown`/`reset` of the services; `AppCore::stop`
  unloads the modules, empties the Pipeline, takes the hooks off and stops the pool.
* **Shared state.** The Pipeline's lists are under a `shared_mutex`, its counts are
  atomics read before it; the tracker and the command manager have a recursive
  mutex each; the injection queue a mutex and a count beside it; the dumper five
  atomics; a module its `m_enabled`; the pool a mutex, and a vector that
  `shutdown()` walks without it.
* **Callbacks.** Every service copies or moves its callbacks out under its lock and
  makes them after it.  `onComplete` is thus called on the network thread or on the
  run thread, and a tracker callback possibly after the player left.
* **What is hard.** The interleavings of those threads; locks taken again from
  inside a handler; state that is read and acted upon later (counts, flags, copies
  of commands, stored handlers); shutdowns and resets in the middle of anything;
  replies that race timeouts; the drain at ejection, which is bounded.

The hazards, each at its line and with the properties about it, are listed in
`PROJECT.json`.

## 3. The modules

| Module | Models | Composes or uses |
|---|---|---|
| `PlayerTracker` | `services/PlayerTracker.*` | - |
| `PlayerTrackerProofs` | proofs about it | `PlayerTracker` |
| `CommandManager` | `sdk/CommandManager.*` | implements `Desk` |
| `Desk` | what `execute()` promises, abstractly | - |
| `CommandHistory` | the same, watched by the server | `CommandManager` |
| `CommandManagerProofs` | proofs, and that it implements `Desk` | `CommandManager` |
| `Pipeline` | `pipeline/Pipeline.*` | - |
| `PipelineProofs` | proofs | `Pipeline` |
| `PacketInterceptor` | `intercept/PacketInterceptor.*` | implements `Mailbox` |
| `PacketInterceptorProofs` | proofs, and that it implements `Mailbox` | `PacketInterceptor` |
| `Mailbox` | what `injectInbound` promises, abstractly | - |
| `ThreadPool` | `sdk/Async.h` | - |
| `ThreadPoolProofs` | proofs | `ThreadPool` |
| `ModuleLife` | `modules/Module.h`, `modules/ModuleRegistry.cpp`, `core/CommandDispatcher.cpp`, with the Pipeline's mutex | - |
| `AppCore` | `core/dllmain.cpp`, `core/AppCore.cpp`, with the locks of Pipeline and `CommandManager`, the pool, the sessions | `ModuleLife` |
| `AppCoreProofs` | proofs about `ModuleLife` and `AppCore`, and that the second implements the first | `AppCore` |
| `PacketDumper` | `services/PacketDumper.*` | - |
| `PacketDumperProofs` | proofs | `PacketDumper` |
| `SafeString` | `sdk/SafeString.h`: layout, assignment, reading, cleaning of names | - |
| `CommandLine` | `core/CommandDispatcher.cpp`: what a chat line means | `SafeString` |
| `ChatUtils` | `sdk/ChatUtils.h` | `SafeString` |
| `JsonUtils` | `sdk/JsonUtils.h` | - |
| `SigScan` | `sdk/SigScan.cpp` | - |
| `ActorData` | `sdk/DataItem.h` and the harvest of vtables | - |
| `MCTexts` | inputs for the six modules above | all of them |
| `TextsProofs` | proofs about `ActorData`, `SigScan`, `SafeString`, `CommandLine` and the escapes of `JsonUtils` | `MCTexts` |
| `MCPlayerTracker`, `MCCommandManager`, `MCCommandHistory`, `MCThreadPool` | instances for TLC | |

Operators named `Mut...` stand before the definition they are a mutation of: each
is a plausible bug, and one of the properties fails if it replaces the original.

### PlayerTracker

`roster`, `byRid`, `byEid`, `byName`, `byTag` are the five maps of the class, as
total functions with `Null` for an absent key; `heap` holds the `TrackedPlayer`
objects, which the roster, the runtime-ID index and pending callbacks share.
Every critical section is one action (`AddPlayer`, `PlayerListAdd`,
`AddPlayerPacket`, `RemovePlayerByUuid`, `PlayerListRemove`, `RemovePlayer`,
`RemoveActor`, `Move`, `ClearWorldActors`, `Reset`, `Shutdown`): the recursive
mutex makes it one.  What differs from one upsert to the other, which field is
overwritten and which only filled in, is `Update` and `FillIn`; the unbinding and
binding around each is `Reindex`.  A section leaves the callbacks it owes in
`calls[t]`, and `Deliver(t)` makes them one by one; `removePlayer(runtimeId)` holds
its lock meanwhile (`lockOwner`), since the inner `removePlayerByUuid` releases
only its own level of the recursive mutex.

Names and nametags are texts, byte by byte, and `Listed`, `Spoken`, `NameKey` and `TagKey`
are what the upserts and the indices make of them with the functions of `SafeString`:
a name from the player list loses its colours, one from a packet its tags too, and
neither if nothing would be left.  `FindByName` has all passes of `findPlayerByName`: the
indices, the scans for an exact match, for a beginning (UUIDs too) and for a part.

Left out: fields that no property tells apart (XUID, device, rotation, times), and
callbacks that call the tracker themselves: they run outside the mutex, or in its
recursive sections, and nothing in the repository subscribes one.

### CommandManager

A request is a model value with constant attributes (`Attr[r]`); `phase[r]` says in
which container it is; `stamp` keeps the order of `m_pendingQueue` and
`m_activeRequests`; `held` are the requests whose `onComplete` was not moved out
yet, `owed[t]` the calls a thread collected under the mutex and makes after it,
`told[r]` those it made.  Time is the set `expired[r]` of timers that ran out since
they were restarted, and `cool`: a timer may run out whenever the request is in the
phase that reads it.  A text packet is three critical sections, as in
`handleInboundText`: the look at the active requests (`CheckText`), the lock
(`LockText`) and one step per line (`ScanLine`), then the calls (`Fire`).  Since
`shutdown()` does not remove the handlers and the next `execute()` registers them
again, `regs` handlers get each packet in turn (`NextHandler`).

`CommandHistory` adds what the server knows: when commands arrived and which lines
it sent.

`AtDesk == INSTANCE Desk` is what a caller may rely on, without packets, timers, threads or
filters: requests draw numbers, the one with the least is sent in its turn or fails, each that was
sent is closed with one fitting answer, and its caller is told that one.  `Standing` maps the phases
(a request that squelches is over, though it is still active; one whose caller is still inside
`execute()` is not made yet), `stamp` and `clock` are the numbers, `cool` is whether the next may
go, and `Answers` says that a request is closed with an answer as soon as the call is *owed*, so
that making it later, on whichever thread, is the separate step `Tell`.  `AtDesk!Spec` is the
property `Serves`.

### Pipeline

`entries` are the lists, `count` the atomic counts, `frames[t]` the calls of
`process()` a thread is in (two when a handler sends a packet; `t_isProcessing`
stops a third).  A thread of `Registrars` may also call `on()` or `off()` from inside a
handler (`Enrol`), as `;;trycmd` does through `CommandManager::execute`: it then waits for
the mutex it holds itself.  `process()` is a load of the count of `kAnyPacket`, a load of the
other count if the first is zero, the shared lock, an offer per entry, and the
handler's return.  `on()` and `off()` are the call, the change under the exclusive
lock, and the change of the count.  `frames[t][i].must` is history: the handlers
registered, enabled and not being removed since the packet came.

`std::shared_mutex` is Windows' slim reader/writer lock: a reader that comes while
a writer is queued waits behind it.  This is what makes a handler that sends hang;
one that registers hangs whatever the others do (`SelfLocked` is either).

### PacketInterceptor

One action per step of a trap: `Guard`, `Check`, `Session`, `Store`, `ReadCount`, `Swap`,
`Deliver`, `EndFlush`, `Offer`, `Drop` or `Call`, `Leave`; the run thread installs
and uninstalls step by step beside them; `Push` and `CountUp` are the two halves of
`injectInbound`.  Of the client's handler the trap first stores the vtable (`Session`)
and then the handler itself (`Store`), so that another trap may deliver between the two; a packet
is `whole` if it comes with both the network ID and the handler, and only then does the trap flush.
`Patient` says that no handler in a trap takes longer than the drain: the code looks 50 times,
10 ms apart, and goes on whatever it sees (`Drain`).  It is an assumption about time, which the
model does not have, and section 5 shows `Drained` failing without it.  Left out: server
names, the harvest of `DataItem` vtables, checkpoints for the crash handler, and
the ring of 64 delivered packets kept alive at `PacketInterceptor.cpp:649`, which a
burst longer than 64 would overrun.

`Box == INSTANCE Mailbox` maps the two queues, the batches and what the client was
called with to a mailbox that knows only which packets wait; `Box!Spec` is the
property `Delivers`.  With one receiver the mailbox is ordered; with several, two
batches may pass each other, and the mailbox promises no order.

### ThreadPool

`worker[w]` is where a thread is in `workerLoop()`; the future of a task is
`state[t]`; `caller` walks the vector of threads as `shutdown()` does, without the
mutex.  If the vector grows meanwhile (a task submitted during the shutdown), the
walk is undefined behaviour: `StartThreads` lets it meet any subset of the threads it
still had to meet.  A worker's wait ends after 25 ms at the latest, so
notifications are left out.

### ModuleLife

`run` walks through `ModuleRegistry::init` and `clear` and through `~Module`;
`body[t]` is what a thread of the game does inside the Pipeline: a listener, or a
command that the dispatcher copied, checked and calls, which may toggle a module.
`Typists` are the threads on which the player's chat is sent.

### AppCore

`stage` is where the run thread is, from `DllMain` to `FreeLibraryAndExitThread`;
each value is a point of `run()`, `start()`, `tick()` or `stop()` between two calls
that another thread can see.  The modules are those of `ModuleLife`, whose actions are
conjoined with what the rest of the program does in the same step (`LoadModules`,
`ClearModules`, `Inner`, `Offer`).  Three locks are in the model: the Pipeline's
(a thread inside is `body[t].at # "out"`; `Exclusive` says nobody is; `writer` waits),
`CommandManager`'s (`stage = "sending"` holds it across the send; `want` are handlers that
wait for it), and the pool's join.  `of[t]` is the session of the packet a thread is handling,
`kept` the sessions `PlayerTracker` and the interceptor remember something of, `asked` the session
in which the request `CommandManager` has was made.

`Slow` and `Settled` are two assumptions about the game that the code makes without
saying so: the menu lasts until a tick has seen it (ticks are 50 ms apart), and no
packet of a world is still being handled when the world is gone.  Section 5 tells
what happens without them.  `Patient` is the same assumption as in `PacketInterceptor`: the half
second for which `uninstall()` waits is long enough.  Without it `Free` waits for nobody, and
`NothingAfterFree` fails.

### Texts, patterns, metadata

A text is a sequence of bytes; a byte is a short string or a number.  `SafeString` keeps
the layout (inline up to a length, a pointer above it), the checks of reading and
the search of a packet's texts; stripping, trimming and tag removal are one fold or
recursive function each, byte by byte as in the code, so that what happens to two-byte letters
is visible.  `CommandLine`, `ChatUtils` and `JsonUtils` are built on it in the same way.
`SigScan` parses a pattern and finds its first match in memory with unreadable bytes.
`ActorData` is a small state machine: `set`, `get`, the flags and the harvest, over
metadata whose items the server and the library both change; the vtables it needs are
known one type at a time.

`MCTexts` writes inputs glyph by glyph (a colour code is one glyph and three bytes) and
checks each finished or unfinished input against a definition that never mentions the scan.

### PacketDumper

`latch` is the four atomics that decide; `arm()` stores them in the order of
`Stores`, `checkPacket()` loads them in the order of `Loads`.  On x64 plain loads
and stores keep these orders.  `arm()` takes the ID 0 like any other, and no packet matches it:
such a latch stays armed until the next `arm()` or the user's cancellation.  A second `arm()` while a check runs may mix two
requests: `AsAsked` says what holds nevertheless, and `check[t].alone` records
that no `arm()` was under way.

## 4. What the runs check

Every module with a state has a type invariant.  Those of `PlayerTracker`, `PacketInterceptor`
and `AppCore` (with that of `ModuleLife`) are checked by a run and proved; those of
`CommandManager`, `Pipeline`, `ThreadPool` and `PacketDumper` are only proved (`TypeCorrect`),
which says more.

| Run | Instance | Shows |
|---|---|---|
| `tracker_shared` | 2 UUIDs and the empty one, 2 objects, 1 ID, names of 2 keys of which one begins with the other, plain and in colour, 8 queries; anybody may get anything | `TypeOK`, `IndexSound`, `NameLookup` |
| `tracker_distinct` | 2 UUIDs, 3 objects, 2 IDs, 2 keys, join/spawn/leave callbacks; a server that keeps keys distinct | `Findable`, `JoinFirst` |
| `command` | a text request for 2 lines and a form request, 2 submitting threads, 5 text packets, 1 form, handlers registered up to twice | `AtMostOnce`, `NobodyForgotten`, `FittingAnswer`, `EventuallyAnswered`, `EventuallyErased`, and `Serves`: the manager implements `Desk` |
| `command_lines` | 2 text requests | violates `ExpectedLinesHeard` |
| `pipeline` | 2 threads, one of which sends and registers from handlers, a module and a service, 1 ID and `kAnyPacket`, 2 handles | `NoneMissed`, `NoneAfterOff`, `EverybodyGoesOn` |
| `interceptor_safety` | 1 receiver, 1 sender, 2 packets, 1 reset | `TypeOK`, `NoneSwallowed`, `Drained`, and `Delivers`: the interceptor implements `Mailbox` |
| `interceptor_live` | 2 receivers, 1 packet, no reset | `FlushedByTrap`, `EventuallyTaken`, `UninstallEnds` |
| `pool` | 2 threads per start, 6 in all, 3 tasks of which one waits for another | `RunByOne`, `Quiet`, `EverySettles`, `ShutdownEnds` |
| `dumper` | 2 threads, 2 calls of `arm()`, the packet ids 0 and 1 in both directions | `AsAsked`, `EventuallyReleased` |
| `app` | 1 module, the game's thread and the network thread, 2 worlds, requests from the tick, from a command and from a task | `AppTypeOK`, `ListenersDetached`, `HooksAgree`, `SeenSessionsForgotten`, `NothingAfterFree`, `EjectEnds` |
| `app_hang` | 1 module that starts enabled, the game's thread, 1 world | violates `TrycmdReturns` |
| `texts` | names of 5 glyphs out of 7, chat lines of 6 out of 5, authors with messages of 5 out of 7, forms of 5 out of 7, memories of 6 cells out of 3, metadata of 2 items of 2 IDs | `NameSettled`, `ChatConsumed`, `ChatAttributed`, `FormRead`, `ScanFirst`, `SetIsRead` |

What the properties of `app` and `texts` say:

* `ListenersDetached`, `HooksAgree`: while the player toggles modules from a command and the
  run thread unloads them, no listener of a destroyed module is left in the Pipeline, and `onEnable`,
  `onDisable` pair.
* `SeenSessionsForgotten`: once a tick has seen the menu or another world, nothing is
  remembered of the one before it: no player, no packet, no request that waits or was sent.
* `NothingAfterFree`: the order of `stop()` leaves no thread, task or hook in the code when
  the library is released, provided no trap outlasts the drain (`Patient`).
* `EjectEnds`: an ejection ends, except when somebody registers handlers from inside a handler
  (or from a task the pool waits for), which never returns.
* `NameSettled`: cleaning a name is idempotent, ignores colours and tags, and agrees with the
  search by name.
* `ChatConsumed`: a chat line is kept from the server if and only if it begins with exactly two
  semicolons, wherever the packet carries it, and then runs the command its first word names in any
  case, on the words that follow.
* `ChatAttributed`: author and message come apart.  Both may hold separators: in a text with
  both, each of four layouts is taken apart while its own separator, and those looked for before it,
  stand nowhere else (`Layouts` says where, one condition at a time); in a packet that names the
  author, the author always, and the message if it holds no separator; in a translation, always.
* `FormRead`: buttons and properties of a form are read as they were written, whatever they
  quote.
* `ScanFirst`: a pattern is found at its first match, and nowhere past unreadable memory.
* `SetIsRead`: what `set()` stored is what `get()` reads, and flags set singly read singly.

Why the bounds are enough:

* Sharing a key takes two players; losing a player to a shared key takes a second
  key to fall back on; two objects for three UUIDs make objects be reused.
  `tracker_distinct` has a third object so that a callback may keep a departed
  player's object while both players are back.
* A race for one callback takes two threads and one request; squelching and
  overtaking take a second request.  Two registrations of the handlers are enough
  for a packet to be handled twice, and a third only repeats that.  `LineCap` is
  above every `expectedLines`.
* A lookup by name that skips a pass, or takes them in another order, takes a name that begins
  with another, a UUID that begins with a part of a name, and queries for each.
* A handler missed or run too late takes a list change by another thread between
  two loads: one module, one other, and two handles cover lists of length 0 to 2 in
  both orders and in both lists.
* Batches that pass each other take two packets; a flush that leaves with another
  thread's packet takes two receivers.
* A request mixed with another takes two calls of `arm()`, and a latch cleared under
  another check two threads.
* A pool of two with a restart and a further restart uses six threads.
* In `app` the three locks are taken by the run thread, the network thread, the game's thread and a
  task: each waits for each in some behaviour.  A second world is what a session can be mistaken for; a
  second module unloads after the first and meets nothing new (`MCLife.cfg` checks `ModuleLife`
  alone with two).
* The longest thing the text functions look for is a separator of two bytes, with a colour code or a tag on
  either side: five glyphs hold one of each.  Forms of five glyphs hold two buttons with a
  quoted quote in each; memories of six cells hold two overlapping matches of a
  pattern of three.

What limits each model is a constant: `LineCap`, `MaxRegs`, `MaxHandle`,
`MaxResets`, `MaxThreads`, `MaxArms`, `MaxSessions`, `MaxItems`, and the five lengths of
`MCTexts`.  Each is a guard and none hides a state of the others.  `Inline`, `Longest`, `Enough` and
`Most` stand for lengths the code compares with (15 bytes inline, the longest text
read, items harvested); they are small so that both sides occur.

### Fairness

Fairness is only assumed of what the program or the system runs anyway.

* `CommandManager`: the network thread finishes its packet and each thread its
  callbacks (weak); `AppCore::tick` is called every 50 ms and gets the mutex
  eventually though others take it again and again (strong); clocks advance (weak).
  No packet is assumed to come, no `debounce` to run out.
* `Pipeline`: handlers return (weak); whoever waits for the mutex gets it if it is
  free again and again (strong, as the lock queues its waiters).
* `PacketInterceptor`: threads in a trap go on and the run thread goes on with what
  it began (weak); for `EventuallyTaken` the server sends packets again and again,
  as a connected server does (strong, since the trap may be entered only between
  two packets).  The *start* of an uninstall is not fair.
* `ThreadPool`: workers and `shutdown()` go on; tasks end.
* `ModuleLife`: bodies end, `clear()` goes on, and a packet is not offered forever.
* `AppCore`: the run thread goes on, and so does a thread of the game that waits for a lock which is
  let go again and again (strong, as Windows hands its locks to those that wait); a task ends, and so
  does what a thread does inside a module (weak).  Nobody has to join a world, type a command or
  request an ejection.
* `PacketDumper`: `arm()` and `checkPacket()` block nowhere; packets of the kind asked for
  keep coming (without that a latch stays armed, as it should).

### Deadlock

`CHECK_DEADLOCK FALSE` stands in the cfgs of `Pipeline` (a self-locked handler
stops it for good), `PacketInterceptor` (nothing happens once the hooks are gone),
`ThreadPool` (all tasks done, no threads left to start), `ModuleLife` (over),
`AppCore` (the library is gone, or a thread waits for itself) and `MCTexts` (an input of full length).
`PlayerTracker`, `CommandManager` and `PacketDumper` are checked for deadlock.

## 5. Disagreements between code and documentation

Two are runs that TLC finds violated:

* `command_lines` - `shutdown()` clears `m_initialized` and leaves the handlers in the
  Pipeline; the next `execute()` registers them again, so every line counts twice and a
  request for two lines completes after one.
* `app_hang` - `;;trycmd` is documented to execute a command and capture the response.
  After a return to the menu `CommandManager` is shut down, so the `execute()` in the
  command's callback registers handlers; the callback itself runs in a handler, under the
  Pipeline's shared lock, and `on()` waits for that lock for ever, with the game's thread.

Others met while modelling are stated as properties the code does not keep.
Each fails in a small instance, whose cfg is kept here though it is not among the
runs.

| Property | Module | cfg | Instance on which it fails |
|---|---|---|---|
| `CooldownKept` | `CommandHistory` | `MCCommandCooldown` | that of `command_lines`: `reset()` and `shutdown()` set the cooldown back, so two commands may leave within 3 s |
| `TagFindable` | `PlayerTracker` | `MCTrackerTag` | that of `tracker_shared`: with a shared nametag, the index forgets the other holder |
| `DespawnsNamedActor` | `PlayerTracker` | `MCTrackerDespawn` | 2 players, 2 IDs: an ID is read as a runtime ID before it is read as a unique ID |
| `Drained` | `PacketInterceptor` | `MCInterceptorDrain` | `Patient = FALSE`: a handler longer than the 500 ms of the drain |
| `ShutdownEnds` | `ThreadPool` | `MCPoolLate` | `Late = TRUE`: a task submitted during the shutdown clears the stop flag |
| `EverySettles` | `ThreadPool` | `MCPoolWait` | `Children <- AllParents`, 4 tasks: both threads wait for tasks that no thread is left to run |
| `SendsImmediately` | `Pipeline` | `MCPipelineNested` | that of `pipeline`: a writer queued between the two shared locks |
| `CommandsDetached` | `ModuleLife` | `MCLifeCommand` | 1 module, 1 thread: a copied command outlives its module |
| `ListenersWhole` | `ModuleLife` | `MCLifeListener` | 1 module, 1 thread: `~Module` calls `off()` when the derived class is destroyed already, and until then a listener of it may run |
| `DetachedOnDisable` | `ModuleLife` | `MCLifeDisabled` | 1 module, not `Requiring`: commands of a disabled module still run |
| `FlushedByTrap` | `PacketInterceptor` | `MCInterceptorReset` | 1 reset: `resetSession()` zeroes `m_inboundQueueCount` and keeps `m_inboundQueue`, so packets wait and traps pass by until another is injected |
| `DetachedOnUnload` | `ModuleLife` | `MCLifeDisabled` | the same (with `-continue`, TLC shows both): between `onUnload` and `~Module` its listeners still run |
| `SeenSessionsForgotten` | `AppCore` | `MCAppQuick` | `Slow = FALSE`: a menu shorter than 50 ms is never seen, and the roster of the old world is kept in the new one |
| `SeenSessionsForgotten` | `AppCore` | `MCAppUnsettled` | `Settled = FALSE`: a packet of the old world handled after the reset is remembered |
| `NameSettled` | `MCTexts` | `MCTextsCedilla` | a name with `ç` (C3 A7) or `Ч` (D0 A7): the byte A7 alone is taken for a section sign, and it and the next byte are lost |
| `FiresOnce` | `PacketDumper` | `MCDumperTwice` | 2 threads: both load `m_armed` before either clears it |

Seen and not modelled, or only around the place:

* `modules/core/CoreCommands.cpp:153`: `;;players` keeps a reference to a local of `onLoad()`, and calls
  a destroyed function when it is given a name.
* `sdk/ChatUtils.h:126-135`: in a packet that names its author the message is still cut at the first
  separator in it: "at 5:30" becomes "30".  `ChatAttributed` claims the message there only if
  it holds no separator, and the author always.
* `sdk/JsonUtils.h:158`: a property that ends with a backslash (`\\"` in the JSON) is read past
  its end; `FormRead` leaves such texts out.
* `sdk/DataItem.h:466`: `set()` looks for an item by ID and type, `get()` by ID alone: an item
  of another type that stands before hides the new one; `SetIsRead` leaves it out (`Hidden`).

## 6. What is proved

Eight modules hold machine-checked proofs for every value of the constants: one beside each
module with a state, one for `ModuleLife` and `AppCore` together, and one for the functions on
texts, patterns and metadata.  The assumptions are those the modules name and TLC evaluates:
special values are not ordinary ones, constant functions map what they should, there is a module
(the one of the commands), threads are finitely many, the flags of an actor have an ID, and texts
that lie inline are not longer than the longest.  A theorem that needs a condition on the
environment or on its inputs states it as its hypothesis, and section 5 shows the behaviour
without it.

**PlayerTracker.**  `IndexSoundness` (`Spec => []IndexSound`): no index is stale, for
any number of players, threads and shared keys.  `IndexSound` is not inductive: an
upsert that updates only a name binds the old runtime ID again, and the player must
then be in the world.  The strengthening is `Inv == TypeOK /\ IndexSound /\
RidSpawned`: whoever has a runtime ID is spawned.  The argument has three
lemmas: `ReindexSound` (unbinding then binding keeps every index sound),
`ForgetStep` and `RewriteSound` (a change that keeps the keys).
`NameLookupComplete` follows from the invariant alone, through what each pass selects: a pass
that finds nobody means that nobody on the roster matches in its way, and whoever a pass finds is
on the roster.
`Findability` (`DistinctSpec => []Findable`) adds that keys are distinct and that
free objects are blank; it is where unbinding could lose another player.
`JoinComesFirst` is about the order of callbacks, for one thread (the code promises none for
more): `JoinsLead` says that a join is only ever the first call of a section, and a section
begins when the thread's earlier calls are made.

**CommandManager.**  `CalledAtMostOnce` and `NobodyIsForgotten` rest on `Inv`, which says
where a callback is: `Once` (held, owed by one thread, or made, and never two of
these), `Kept` (at least one, unless dropped), `Released` (a completed request holds
none), and `CallersSound` (threads inside `execute()` have different, unsubmitted
requests).  `Completion` and `Completed` treat at once the six actions that
complete requests.  `PacketSound` is the small invariant that says a packet being
scanned has lines left.  `SentInOrder` adds `Ordered`: no stamp is above the clock,
so whoever is submitted last is the youngest, and only the oldest of the queue is
sent.  Its property `InOrder` and `Serves` were also checked by TLC on three requests
alike; the run keeps two, which cannot break `InOrder`.

`AnswersFit` takes a second invariant, `FitInv`: a request that is not sent yet has captured nothing
(`Waiting`), one that is not settled has no answer told or owed (`Open`), only requests that do
not want a form have lines, and every answer told or owed fits the lines there are.  `FitStep` is the
heart of it: lines grow only while a request is open, so an answer that fitted when it was chosen
still does.  `Answers`, which the property quantifies over, counts the answers that are owed as
well as those that were told.

`ImplementsDesk` (`Spec => AtDesk!Spec`) needs all of these and `DeskInv`: only callbacks that were
given are held, and no two requests that were made have one number.  Two lemmas carry it: a request that
is open is held by the manager and has no answer (`OpenHeld`), and a step that completes a set of
requests gives each caller among them exactly the one chosen for it (`NewAnswers`).  Then each step is one of
the desk's: `Submit` arrives; a line, a form or a tick serves (the desk's `Serve` lets a tick send the
oldest and close several in one step, as `tick()` does); `Fire` tells; cancelling withdraws;
`Reset` clears, `Shutdown` closes, the cooldown that ends is `Pause`; and everything between them,
the looks before the locks and the second registration of the handlers among it, stutters.  The desk
knows nothing of doubled handlers: that they count lines twice changes when a request is closed
(`command_lines`), never how often.

**ModuleLife.**  `ListenersAreDetached` rests on `ListenerInv`: a listener that runs is in
the Pipeline's list, nothing in the list is gone, and `~Module` gets to the commands
only when the list does not have the module; the step that matters is `Detach`, where
`off()` finds nobody inside.  `HooksAlwaysAgree` rests on `HookInv`: whoever changed a
flag and has yet to call the hook carries what the flag says.  It holds for one thread
that toggles (`FewTypists` turns the cardinality in the property into that); two could
call their hooks in the other order.

**AppCore.**  `ImplementsModuleLife` (`AppSpec => Spec`) says that the rest of the program does
nothing to the modules that `ModuleLife` does not say; `ListenersAreDetachedInApp` and
`HooksAgreeInApp` follow without another look at a step.  `NothingRunsAfterFree` rests on
`EndInv`: before the hooks are in, nothing runs; once the pool is joined no task does; a thread
enters only through a hook; it assumes `Patient`.  `SessionsAreForgotten` assumes `Slow` and `Settled`, the two
conditions section 5 shows to be necessary, and rests on `SessionInv`: packets in
hand are of the present world, and a world that was met is one the tick remembers (`was`), so that
the tick that sees the menu empties everything.  A request is of the world it was queued in until it
is dropped (`AskedStep`), so it goes the same way.

**Pipeline.**  `HandlersAreNotMissed` and `HandlersEndWithOff` rest on one invariant in parts.
`ExclusiveInv`: who is inside `on()` or `off()` is alone under the mutex.  `EntryInv` and
`HandleInv`: every entry has a handle of its own, held by its owner unless that is adding or removing
it.  `CountInv` is what makes the reads without the lock safe: a count differs from
the length of its list only while an operation is between the two: it is too high while a
handler is removed, and too low only by the handler being added, which `must` does not have.  `FrameInv` carries
this through `process()`: who a packet must still be offered to is registered, and lies ahead of the
place the walk has reached or in the list whose count is still to be read.

**PacketInterceptor.**  `DrainedBeforeRemoval` and `NothingSwallowed` assume `Patient`: no trap
takes longer than the bounded drain of `PacketInterceptor.cpp:508` and the pause after it.
`CountInv` says that `active` is the number of traps the guard counted, whence `DrainInv`: once the
drain has seen zero, a trap can only be in the steps that call no handler (`Brief`);
`HookInv` and `OriginalInv` say that a trap that may still look for its original function finds it.
`FlushedBeforeReset` is stated while `resets = 0`, since `resetSession()` zeroes the count of a
queue it leaves full; until then `QueueCounted` says that a packet whose injection has ended is
counted while it is queued, so a trap that reads zero leaves none behind.
`ImplementsMailbox` (`Spec => Box!Spec`) shows every step to be one of the mailbox or a stutter:
a push posts, a delivery takes, and a swap moves packets between places the mailbox does not
tell apart.  `PlaceInv` (a packet waits in one place) and, for one receiver, `OrderInv` (what waits is
the end of what was pushed, the batch first) make the mapping work.

**ThreadPool.**  `TasksAreRunByOne` rests on `TaskInv`: a task's state tells whether it is in the
queue, once, or in the hands of one thread.  `QuietAfterShutdown` assumes `~Late` (no task is
submitted while `shutdown()` runs) and adds `ThreadInv`: whoever is at work is in the vector, the
request to stop stands while the caller walks, and who was joined has ended.  Without the hypothesis
a submitted task clears the stop flag, and `MCPoolLate` shows a shutdown that never ends.

**PacketDumper.**  `DumpsAsAsked` takes an invariant that follows the four stores and the four
loads at once: `LatchInv` says what the stores of the latest `arm()` have reached, `CheckInv` what a
check has loaded, and that it is of one request if no other was there to mix it with.  The order of
both matters: the flag is stored last and loaded first.

**Texts, patterns and metadata.**  The functions of `SafeString`, `SigScan`, `CommandLine` and `JsonUtils`
recur over a sequence.  The prover knows no recursion and cannot instantiate an induction theorem over an operator, so
`TextsProofs` argues without one: a function that recurs from each place to the next, or from the
end, exists and has its type because a least place where it has not leads to a contradiction
(`UpInduction`, `DownInduction`, `UpRecursion`, `DownRecursion`, `StepsExist`).  `FlattenPlaces` says where
each part of a flattened sequence lies.  On these rest the following, for inputs of every length.

* `SetIsReadAlways`: `SelectInSeq` finds the least place, an item that is not hidden is
  the first of its ID, and what `set()` writes or appends is then what `get()` finds.
* `PatternsAreRead`, `MatchesAreFound` and `PatternsAreFound` (`Spec => []ScanFirst`): a pattern written byte
  after byte is read word by word (`ReadsForward`, `ReadWord`), so `Parse` returns what was written; and from
  each place on, the search returns the first match at which no cell before its end is unreadable
  (`FindsFirst`, kept by `ScanStep`).
* `NamesAreSettled` (`Spec => []NameSettled`) assumes `Settled(NameGlyphs)`: no glyph is half of the section sign
  or holds its second byte, which is what `MCTextsCedilla` breaks.  `StrippedIsShown` reads a text glyph by
  glyph and says that stripping leaves what the player sees; `TrimTells` and `TrimIs` characterise `Trim` as
  the part between the outermost bytes that are not blank, `BeforeTells` and `BeforeJoined` what is before
  a byte; `TagBefore`, `TagBehind` and `NameStays` show that cutting tags leaves the name.
* `LinesAreConsumed` (`Spec => []ChatConsumed`) assumes `Settled(ChatGlyphs)` and that a line, at most
  three times as long in bytes as in glyphs, can be read (`3 * ChatLength =< Longest`).  `LineIsHeld` shows
  that each of the packets holds the line and at most the author's name; `LineIsHandled` that the dispatcher
  then does what it does with the line alone; `WordsTell` that there are as many words as places where one
  begins, and what the first is; `LowerIs` and `RegisteredIs` that the command is found whatever its case and
  prefixes.
* `QuotingIsUndone`: `Unescape(EscapeJson(text)) = text` for every text over every set of bytes, those that look
  like escapes among them.  `UnescapeSteps` says what is read at each place and where the reader goes on,
  `EscapeIsRead` that at the beginning of a byte's escape this is the byte, and `ReadThrough` carries it along
  the text; `CodeSteps` and `CodeOfControl` read the four digits of a control character.

**Only model-checked.**  Every liveness property, for the prover handles neither fairness nor
`ENABLED`: `EventuallyAnswered`, `EventuallyErased`, `EverybodyGoesOn`, `EventuallyTaken`,
`UninstallEnds`, `EverySettles`, `ShutdownEnds`, `EventuallyReleased`, `EjectEnds`.  And, of the
run `texts`, `ChatAttributed` and `FormRead`: the first is a claim about each of several layouts of
text, the second about a parser that goes back and forth in a text that nests.  Of `FormRead` the
escapes are proved (`QuotingIsUndone`); that the parser finds where a quoted text ends is not.  Every other property of a passing run is stated by a theorem.

## 7. Not modelled

* `Game`, `Addresses`, `SafeMem`: reads of another program's memory at addresses found in it, with a
  structured exception behind each.  They keep caches of addresses and nothing a property
  could be about without the game.
* `CrashHandler`, `Logger`, `Http`: crash reports, a file behind a mutex, blocking requests that keep no
  state between calls.
* `Chat`, `Factory`, `PacketSender`: they build packets of the game and call its functions; what becomes
  of an injected packet is in `PacketInterceptor`.
* The packet structs are layouts.  Of `DataItem` two of the six types stand for all.  Of `SigScan` the
  choice of the section is left out, of `SafeString` the formatting of UUIDs.
* `dllmain.cpp:50` wraps `stop()` in one structured `__try`: what an access violation in the middle leaves
  undone, and which locks stay locked, depends on the build.  No module shows it.
* `CommandDispatcher`: clashes of names, `unregisterCommand` by hand and the sorted list.
* `CoreCommands`: what the commands print.
* MinHook is vendored.

## 8. Plan

Written: the modules of section 3, in that order, most important first.

To extend the model: name clashes and removal in `CommandDispatcher`.

To prove: `ChatAttributed`, from the lemmas about `Trim`, `Before` and `StripColorCodes` that
`NamesAreSettled` uses; `FormRead`, from `QuotingIsUndone` and what one step of `JsonUtils`' reader
keeps of the nesting.

Not worth stating: a set of handlers with atomic `on`, `off` and `process` that `Pipeline` would
implement.  It does not: `process()` reads its two counts apart, so a handler of `kAnyPacket` may be
added and the last of the packet's own removed between them, and the packet is offered to nobody though
somebody was registered all the time.  What holds is the promise to each handler alone, `NoneMissed` and
`NoneAfterOff`.
