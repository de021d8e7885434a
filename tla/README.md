# zsim in TLA+

zsim simulates a multicore machine by running a real multithreaded program
under Pin. Every thread of the program executes natively and, from the
instrumentation of its own instructions, simulates the core it is scheduled on.
Time advances in *phases* of some thousand cycles. During a phase (the *bound*
phase) the threads run concurrently, call the caches directly, and stop at a
barrier when their core's clock reaches the end of the phase; between two phases
(the *weave* phase) a few simulation threads execute the timing events the cores
recorded. The program's own concurrency is therefore the simulator's: caches are
locked objects walked by many threads at once, and the simulator has a scheduler
that gives contexts (hardware threads) to more program threads than there are.

The source is under `src/zsim/src/`; paths below are relative to that directory
unless they say otherwise. This directory holds TLA+ models of the simulator, TLC
configurations that check them on small instances, and TLAPS proofs of theorems
about them for instances of any size.

To run: `tlc -config X.cfg M.tla` for a model, `tlapm M.tla` for a proof
(`CoherenceProofs` takes a quarter of an hour, `SchedulerProofs` seven minutes, the others a minute or two).
`PROJECT.json` lists every run, what each definition stands for in the source
(`map`), the deliberate faults each property detects (`mutants`: operators whose
comment begins with "Mutant:"; a run with the mutant in place of the definition
that follows it violates the property), the hazards that motivated the
properties, and the theorems.

## 1. Inventory

### Components

| component | state | operations | modules |
|---|---|---|---|
| Futex locks (`locks.h`) | one word: 0 free, 1 held, 2 held and perhaps waited for | lock (spinning or not), try-lock with a timeout, unlock | `Mutex`, `FutexLock`, *`LockProofs`* |
| Reader-writer mutex (`mutex.h`) | a count of readers, two mutexes `wq`, `rb` | read and write lock and unlock, upgrade, downgrade | `RWMutex`, *`LockProofs`* |
| Phase barrier (`barrier.h`) | per thread: state, futex word, place; the run list and its cursor; two counters | join, leave, sync; internally wake the next, end the phase, clean up, shuffle | `PhaseBarrier`, `Barrier`, *`BarrierProofs`* |
| Scheduler (`scheduler.h/.cpp`) | per thread: state, context, futex word, hand-over, sleep deadline; per context: its thread; free list, run queue, out queue, sleep queue, fake-leave list; the counters of futex wakes | start, finish, join, leave, sync, callback at the end of a phase, sleep and its end, futex wake and wait, watchdog | `Scheduler`, `FutexWakes`, *`SchedulerProofs`* |
| Coherence controllers and caches (`coherence_ctrls.*`, `cache.cpp`) | per line: MESI state, sharers, exclusive flag; two locks per cache | GETS, GETX, PUTS, PUTX going up, INV and INVX going down | `Coherence`, *`CoherenceProofs`* |
| Filter cache (`filter_cache.h`) | per set: last line loaded, last stored; a lock | load, store, replace, invalidate, context switch | `FilterCache`, *`UnitProofs`* |
| Weave phase (`contention_sim.*`, `timing_event.*`) | per domain: event queue, clock; per thread: wake-up lock; finished count; per event: state, parents, minimum start cycle | simulate a phase, run events, requeue, cross domains | `Weave`, `HandOff` |
| Core recorders (`core_recorder.*`, `ooo_core_recorder.*`) | RUNNING, DRAINING, HALTED; previous response event; the skew | record, join, leave, notify | `Weave` |
| Priority and event queues (`prio_queue.h`, `event_queue.h`) | array of blocks of 64 cycles and a map of far events; a map of phases to events, with `qLock` | enqueue, dequeue, first cycle; insert, tick, reschedule | `SortedBag`, `PrioQueue`, `AdaptiveEvent`, `FastForward` |
| Slab allocator (`slab_alloc.h`) | slabs with live counts, free list | alloc, free, recycle | `SlabAlloc`, *`UnitProofs`* |
| Replacement policies (`repl_policies.h`, `rrip_repl.h`, `ship_repl.h`, `hawkeye_repl.h`) | ages, predictors, OPTgen vectors | update, replaced, rank | `StampRepl`, `RRIPRepl`, `Hawkeye` |
| Cache arrays (`cache_arrays.*`, `ideal_arrays.h`) | tags; the candidates of a zcache walk; LRU lists | lookup, preinsert, postinsert | `StampRepl`, `ZArray`, `IdealPart` |
| Partitioning (`part_repl_policies.h`, `lookahead.cpp`, `utility_monitor.*`, `monitor.*`) | sizes, targets and setpoints of partitions; shadow tags | replace, access, repartition | `WayPart`, `Vantage`, `IdealPart` |
| Timing caches (`timing_cache.*`) | MSHRs, pending queue, the port's last cycle, event chains | access, the events of a miss | `TimingCache` |
| Memory controllers (`detailed_mem.*`, `ddr_mem.*`) | cycles of last commands, data bus log, queues, refreshes | access, schedule, refresh | `MemChannel`, `MemSched`, `DDRMem` |
| Core models (`ooo_core.*`) | window of ports, reorder buffer and queues, predictor, forwarding | load, store, branch, basic block, join, leave | `OOOCore` |
| Decoder (`decoder.*`) | uops of an instruction, cycles of a block | decode, fuse | `Decoder` |
| Global heap (`galloc.cpp`, `g_heap/dlmalloc.h.c`) | chunks with boundary tags, small bins, trees, the designated victim | malloc, free, memalign, calloc, independent_calloc | `GlobalHeap` |
| Fast-forward and termination (`zsim.cpp`) | flags and counters of processes, their control threads, the end of a phase | toggles, magic operations, FFI points, end of phase, SimEnd | `FastForward`, *`FastForwardProofs`* |
| Processes and harness (`process_tree.*`, `zsim.cpp`, `zsim_harness.cpp`) | process nodes, counts of the active, children of the harness | launch, fork, restart, crash, reap, detect deadlocks | `Processes` |
| Thread callbacks (`zsim.cpp`, `virt/`) | per thread: function pointers, cid, marks, patches under way | start, join, syscall enter and exit, vdso, end | `ThreadCalls` |
| Virtualisation (`virt/`) | faked paths, port maps, clock offsets, cpu masks | open, bind, connect, getsockname, clock_gettime, getcpu | `SyscallVirt` |
| Simple, timing and null cores | cycle counts | basic block, load, store | the recorder of the timing core in `Weave`; the rest no: sequential sums |
| Process and thread statistics, initialisation, configuration, statistics output | counters, construction | - | no: I/O and counters |
| Prefetcher, network (`prefetcher.*`, `network.*`) | stream table; a table of latencies | access | no |
| Traces and tools | files | - | no: I/O |

Modules in italics hold proofs only; `HandOff`, `DDRMem` hold their own.

### How they interact

A program thread calls `Scheduler::join` before it simulates, `sync` at the end of
each phase and `leave` when it enters a system call (`zsim.cpp`). Those take
`schedLock`, a futex lock, and call the barrier of the same name with it held; the
barrier blocks the thread on its own futex word and releases the lock meanwhile.
Whoever completes the phase, inside the barrier and still with the lock, calls back
`Scheduler::callback`, which runs the end-of-phase actions of `zsim.cpp` (the weave
phase, the event queue, termination), wakes sleepers, and hands contexts over. A
watchdog thread executes leaves that were put off and moves time when nobody runs.
While it is simulated, a thread's loads and stores test its `FilterCache` without a
lock, and on a miss walk the `Cache` objects up to the memory by nested calls, taking
two futex locks per cache on the way; invalidations walk down from any cache to all
its children in the thread that caused them. Caches and memories leave records of
timing events, allocated from the core's slabs, which its recorder links and queues
for the weave phase; there the simulation threads run them by domain, and events of
two domains meet in crossings. A control thread in every process switches it to
fast-forward and back, and ends it, by events at the end of a phase. All of it lives
in one shared segment of several processes, which the harness launches and reaps.

### What is hard, and what correctness means

* *Locks.* Every interleaving of a few atomic instructions and futex calls, with
  spurious returns and timeouts. One holder; a sleeper that nobody wakes is a hang
  of the whole simulation.
* *Reader-writer mutex.* Mutexes that are released by another thread than the one
  that took them. Exclusion through hand-overs; no forgotten release.
* *Barrier.* A member tests its own state without the lock while another one sets
  it and then swaps the futex word; members leave and rejoin in the middle of a phase,
  or are removed while they wait; the list is reordered every phase and compacted
  now and then. Nobody skipped, nobody run twice in a phase, not more than the allowed
  number at once, and the phase ends exactly once when all have synced.
* *Scheduler.* Contexts change hands in many ways (a join, a leave, a hand-over, a
  sleep, an end). Each thread in the one place its state says; no context lost or given
  twice; whoever waits is promised a context; sleepers wake; the watchdog's unlocked
  step may meet the thread's own.
* *Coherence.* An access gives up the child's lock before it takes the parent's,
  so invalidations slip in between. One writer, inclusion, exact directory, no lost
  writeback, no deadlock between the accesses that go up, the invalidations that
  go down and the evictions that go sideways.
* *Filter cache.* A copy of a permission, read without a lock. It must not
  outlive the permission.
* *Weave phase.* Hand-off of phases between threads; two domains that wait for each
  other's clocks, read without a lock; crossings handed over while they are polled;
  elements freed by several threads.
* *Data structures.* Long sequences of legal calls: a heap whose bins and tags must
  agree; candidates that move in chains; queues at their limits; cycles that must keep
  distances over many commands.
* *End of a phase.* Events, control threads and programs of several processes that
  switch fast-forwarding about the same phase; counts that decide whether anybody is
  left to simulate, or to wait for.

The individual hazards, each with its line and with the properties that catch it,
are the `hazards` of `PROJECT.json`.

## 2. Plan

Everything that was planned is modelled; what follows is what could still be added, in
order of importance.

1. Proofs: the steps of `Weave` as steps of `HandOff` (which needs its walk over the graph of
   events without RECURSIVE); `PrioQueue` as a `SortedBag`.
2. The cleanup of killed threads in the scheduler (`processCleanup`), termination inside
   it, and several processes at once.
3. Prefetches and the non-inclusive option in `Coherence`.
4. The prefetcher's streams.

The composition of the real `Barrier` inside `Scheduler` was considered and left
out: the barrier's own module shows what the scheduler relies on for any caller that
respects the lock, and the product of the two is beyond TLC. For the same reason `Weave`
abstracts what the memories' own events do, `FastForward` the barrier, and
`Processes` and `ThreadCalls` the scheduler; each says in its header what it takes over.

## 3. The models

Common conventions. An action is what one thread does between two points where
another thread can see or change the shared state: an atomic instruction or a futex
call in `FutexLock` and `RWMutex`, a store visible to an unlocked reader in
`Barrier` and `Weave`, a critical section elsewhere; sequential code is one action per call.
A thread's place in the code is `pc[t]`. A failed assertion or a panic is a state of the
model (`pc = "panic"`, `failed`, `s.failed`), never a disabled action, so that the properties can
speak of it. Where the code's assertions do fail, a property names the states in which they do and says that they fail in no others. Logging and statistics are left out.

### Mutex, FutexLock (`locks.h`)

`Mutex` is what the callers rely on: an owner, and threads that want to be the
owner. `FutexLock` has the word (`lock`) and the kernel's queue (`waiters`); each
thread goes through `Test` and `Cas` at most `SpinTries` times (none for the
variants that do not spin), `Swap1`, then `FutexWait`/`Swap2` until it gets the
word. `unlock` is `FetchDec`, `StoreZero`, `FutexWake`. `WaitReturns` is a futex wait
that ends by itself: by the timeout of `futex_trylock_nospin_timeout`, which then
gives up, or by a signal. The system calls are external: `FUTEX_WAIT` compares and
sleeps in one step, `FUTEX_WAKE` wakes one.

### RWMutex (`mutex.h`)

The two mutexes are abstract (they are what `ImplementsMutex` gives), the reader
count is changed by one atomic instruction per action. `Downgrade` and `DgUnlock` are the
sequence the code runs (not the one it keeps under `#if 0`, which is a mutant);
`upgrade` is `RdUnlock` followed by the write lock.

### PhaseBarrier, Barrier (`barrier.h`)

`PhaseBarrier` is the promise: sets of threads that are out, running, or done in this
phase. `Barrier` is the code: the states, futex words and places of the thread
table, the run list with its cursor, the two counters. `Join`, `Sync` and `Leave` are the
parts before `tryWakeNext`; the scan of the list then takes a step per visible store
(`SetRunning`, `CasWord`, `WakeWord`), because a woken thread tests its state without the
lock (`CheckState`, `Retest`), and ends in `EndPhase` with the callback, the
cleanup and the shuffle, or in `Unlock`. Indices are one higher than in the code.
When there are more members than slots, `EndPhase` shuffles the list into any order, with
the places the code's Fisher-Yates loop stores (an entry that stays first is not
touched). The variable `kills`, chosen at the start, admits `LeaveWaiting`, the `leave`
that the scheduler executes on behalf of a thread that died while it waited.
The refinement maps a thread that is WAITING and behind the cursor in the run list to
"done", and counts phases modulo the cleanup period. Waking (`SetRunning`) is the
step `Start`. A member that was removed keeps its old place; when it joins again and that
place is at or behind the cursor, the code takes it for one that had its turn. So with removals,
and only then, the promise has `JoinLate`, a join that waits for the next phase.

### Scheduler, FutexWakes (`scheduler.h`, `scheduler.cpp`, callers in `zsim.cpp`, `virt/`)

Everything `schedLock` protects is one record `s`; the operators named as in the
code (`schedule`, `deschedule`, `schedThread`, `schedContext`, `schedTick`,
`callback`, `leave`) take it and return it, and an action is one critical section or
one unlocked step of a thread or of the watchdog. `Do` ends a critical section: a
failed assertion is recorded in `s.failed` and everything stops. The barrier is its
promise, with as many slots as contexts: `s.bar[c]` says whether context `c` is out,
running, or done in this phase.

* join: `JoinFake` (its leave was put off), `JoinOut` (nobody took its context),
  `JoinBlocked` (find a context: the last one, a free one, that of a thread that
  is out; otherwise wait in the run queue until `GotContext`).
* sync: `sync`, `Synced` (the unlocked test of `handoffThread` after the barrier),
  `HandOff`.
* System calls: `syscallLeave` decides, as the blacklist of syscalls may, whether the leave is
  real (`Leave`) or put off (a *fake* leave); `markForSleep` is the wrapper of a
  sleep, `EventComes` and `notifySleepEnd` that of a syscall with a timeout whose
  event comes first.
* The end of a thread: `FinishRunning`, `FinishLeave`, `FinishEnd` are the three
  critical sections of `finish`, which gives the lock up twice.
* The watchdog: `BreakStall`/`WatchdogLeave`/`WatchdogNext` end fake leaves;
  `DriveTime` runs the callback when nobody is scheduled and somebody sleeps.

Data abstracted: a sleeper's deadline is the number of phases to it; the phase
number is kept modulo the quantum; the names of syscalls are gone; the shuffle
of contexts is any order (`Orders`). One process; each thread starts and finishes
once. The watchdog's polling interval and stall count are not modelled: it may judge a
phase stalled whenever it runs, and any syscall may match the blacklist's pattern, which
admits more behaviours than the code's threshold does. `FakeBound` stands for the
number 8 of line scheduler.cpp:170; with 0 the loop over several fake leaves is exercised
by three threads.

`FutexWakes` is the part that matches futex wakes with the threads they wake, so that
these come back in the same phase: the calls virt/timeout.cpp makes around a futex call and
the two counters. `happens` chooses what a run admits beside the plain case: wakes
that fail, wakes by somebody the simulator does not see, threads that come back late.

### Coherence (`coherence_ctrls.*`, `cache.cpp`, `mem_ctrls.cpp`)

A core is a thread with a stack of frames, an access frame per cache it climbs
through and an invalidation frame per cache it goes down to, as the nested calls of
the code. What happens between two lock operations is one action. `TakeTcc`/`TakeBcc`
take the locks of a cache in the code's order and decide the MESI race (`Raced`,
`LegalRace`, `SkipAccess`, `TypeNow`: `CheckForMESIRace`), then a miss picks a victim and goes
through `EvictChildren`, `EvictSelf` and `Insert`; `Fetch`/`Fetched` go to the parent, `GetS`,
`GetX` and `Put` are the directory's part, `End` releases. `InvLock`, `InvChildren` and
`InvSelf` are an invalidation on its way down and back. The replacement policy is any
choice. States are indexed by line, a slot of the array by `present`. The memory is
`SimpleMemory`, which grants E unless the request is flagged NOEXCL. `dirty` is a
history variable: what was stored to since memory last had it.

The hierarchy is any tree with levels in which a line has one parent for a given cache
(`TreeAssumption`), banks included, a core's terminal caches are its own
(`TerminalAssumption`), and the caches below memory that serve one line are one
(`RootAssumption`): what init.cpp builds.

### FilterCache (`filter_cache.h`)

A filter in front of its own cache, the core that uses it and the thread that
invalidates it. A line is a pair of process and virtual line, because the code ors a
mask of the process into the address. The cache above is the environment: it does one
thing at a time for this child, as `Coherence` shows.

### Weave, HandOff (`contention_sim.*`, `timing_event.*`, `*core_recorder.*`, `weave_md1_mem.h`)

In the bound phase a core joins, leaves and accesses memory (`Join`, `Leave`, `Access`,
`Sync`); each access leaves a response event after the previous one, whatever the memories
of both domains attach to it, and crossings where parent and child are of different domains.
`StartPhase` is `simulatePhase` up to the wait, `EndPhase` its end. A simulation thread has one
domain (the simple loop) or several (the loop with three lists of domains that are ready or
stalled). `Run` executes an event; a crossing that is run before its source is done
looks at the source domain's clock (`ReadClock`), at the core's slack (`ReadSlack`) and at
`called` once more (`TestAgain`), one unlocked read per action, because the source may be done
in between. `Finish`, `Reset` and `Unlock` hand the phase back. Both recorders, their states and the
skew of the core's clock are in the actions that call them. `HandOff` is the same hand-off for any number
of threads, the events abstracted to work. The bounds: `PhaseLength` cycles, `MaxPhases`
phases, `moves` of the cores per configuration.

### PrioQueue, SortedBag, AdaptiveEvent, SlabAlloc

`PrioQueue` is the array of blocks, the cursor and the map of far elements (64 blocks of 64 cycles in
the code, `Blocks` of `Width` here) with the refill at half the array. `SortedBag` is what
it promises. `AdaptiveEvent` is the event that estimates when a count can have reached its target at
the highest rate of one core; the threads of the process that is counted are a parameter, because fast-forwarding may end with several of them, and the target is the user's. `SlabAlloc` has one thread that allocates and several that free;
`freeElem`'s decrement and the recycling are steps of their own. `Crossings` admits
crossing events, which contain a second event and free both.

### The structures of the memory system (`MCMemory`)

Eleven models of sequential code, each an action per call, over small sets of addresses:
`StampRepl` (LRU with and without sharers, NRU, LFU; LRU's score is computed in full and cut to `ScoreBits` bits where `rank` keeps it in 32), `RRIPRepl`
(SRRIP, SHiP), `Hawkeye` (OPTgen with its ring of history and occupancy and the arithmetic of `wrap_index`, the predictor; `set` is the geometry),
`ZArray` (the breadth-first walk, the moves), `WayPart` (policy, monitors, lookahead),
`Vantage` (demotions, setpoints with 8-bit-style timestamps of a few bits), `IdealPart`;
`MemChannel` with `MemSched` (detailed_mem: every latency from the last commands, the data bus log;
read and write queues with watermarks, ticks, refresh and power down; `P` is one of the configurations), `DDRMem` (ddr_mem: queues,
banks, one scheduling event that earlier ones replace, refreshes), `GlobalHeap` (dlmalloc's
chunks, bins and trees on one segment), `TimingCache` (the event graph of an access; tag port and
MSHRs in the weave phase). The history variables hold what the properties compare with: the uses of each line (`used`, `uses`), the
program's accesses and OPTgen's first answers to them (`program`, `answers`) beside what OPTgen was given (`trace`), the commands of each rank and the bursts on the bus with the
penalty they were delayed by (`cmds`, `onBus`, `acts`, `bursts`), the writes that were accepted and not sent (`unsent`), a read that was served by memory before such a write of its line (`stale`), the
owner of each piece of heap (`owned`). An assertion that fails (`assert(curWay == ways)`, `assert(linesLeft > 0)`) or a loop that never ends (`stuck`) is a state the properties speak of.

### OOOCore, Decoder

`OOOCore` simulates a block when the next one is announced, as `bblAndRecord` does: `Uop` is one
turn of its loop. Latencies, ports and sizes are small; `Blocks` are some blocks with loads, stores, fences
and branches. `Decoder` turns an instruction (an opcode for each group that is decoded alike, and operands)
into uops and a block into cycles; the blocks are all single instructions of `Shapes`, fused pairs, and
sequences of fillers.

### FastForward, Processes, ThreadCalls, SyscallVirt (`MCHost`)

`FastForward` has one program thread per process, the thread that ends a phase (`stage`), the
event queue with its lock, and the control thread of every process (`fc`). `use` says which processes
use which way of fast-forwarding, and which may end. An FFI event (`TickFFI`) comes back later as long as the process is short of its target; when it has reached it, the event
fires and waits for `ffLock` with `qLock` in hand (`FFIFires`).

`Processes` has the life of a process (`pc`, `code`), its node, and the harness's
loop with its SIGCHLD handler, which may interrupt it anywhere: also between the fork of a child (`Launches`) and its entry in `childInfo` (`Records`). The panics of `eraseChild` and
`getNextChild` end the harness and the process. `ThreadCalls` has the callbacks of
a thread: `fPtrs`, cid, marks and the patch that waits for a syscall's end, while fast-forwarding begins and ends at
any time. A syscall may come before an instruction has joined after the last one, signals end any syscall and any sleep (`ContextChange` runs `SyscallExit`), fatal or not, a sleep may be for an invalid time; vDSO calls
nest. `SyscallVirt` has four independent parts: opening a path component by
component through symlinks (against what the kernel would open, which skips "." where `resolvepath` keeps it), binding ports of two domains by two processes,
clocks that stop during fast-forward, and cpu masks.

## 4. The runs

A run that holds several units begins in one of them (`which`, `host`) and never leaves it; the variables of the
others keep one initial value, so that the states are the sum and not the product of the units'.

| run | instance | asks |
|---|---|---|
| `units` | futex lock: 3 threads, 2 spins; rwmutex: 4 threads; filter: 3 lines in 2 sets of 1 way; queue: 3 elements, 4 blocks of 2; slabs: 3 of 6 units, 2 freeing threads; 7 adaptive events, with one to three threads and targets above and below a phase's worth; an out-of-order core of 3 blocks | no lost wake-up and the refinement of `Mutex` with its fairness; a writer is alone and everybody who waits goes on; no stale filter hit; slabs are recycled empty; the event fires in time, or is late by a bounded factor; the core keeps its ports, queues and fences; the queue is a sorted bag |
| `barrier` | 3 threads, 2 slots, cleanup every 2nd phase, with and without removals of waiting members | wake-ups never race, counters, list, refinement of `PhaseBarrier`; waiters run |
| `barrier_swap` | 3 threads, 1 slot, removals | *violated:* the assertion in join |
| `scheduler` | 3 threads, one pinned, 2 contexts, sleeps of 1 or 2 phases, quantum 2 | places, promises, work conservation, assertions |
| `scheduler_live` | 3 threads on 1 context, sleeps of 1 phase, quantum 1 | whoever is queued runs, sleepers wake |
| `scheduler_watchdog` | as `scheduler`, sleeps of 1 phase | *violated:* the assertion of join |
| `coherence` | 2 cores, one with a second level, a data and an instruction cache, a last level of 2 banks; 2 lines, 1 way | single writer, exact directory, no assertion fails, no lost writeback, no circular wait |
| `weave` | 2 domains on 1 or 2 threads, timing or out-of-order cores, 2 phases of 10 cycles | assertions, no event stranded, crossings on time, refinement of `HandOff`, phases end |
| `slab_crossings` | slabs as in `units`, with crossing events | *violated:* slabs are recycled empty |
| `memory` | each structure of the memory system alone | see below |
| `host` | 3 processes in 4 uses of fast-forward; the decoder; the callbacks of a thread; 3 futex threads; 3 processes under the harness; paths, ports, clocks, cpus | counters of fast-forward, the decoder, the program's view; no end of phase hangs but by two races of a toggle; everything ends |
| `ff_toggles` | 2 processes toggled in one phase | *violated:* every end of phase ends |

### What they show, and why the bounds are enough

**units.** *Futex lock.* One thread unlocks, one sleeps or is about to, and a third takes the word at
each value it passes through; a fourth would only be a second sleeper, and the kernel's
queue is a set. Two spins exercise both outcomes of the spin loop. `ImplementsMutex` includes the abstract
fairness: a lock that stays free while it is wanted is taken. *RWMutex.* Four threads: a reader, a writer, one
that waits behind each; `rb` admits one arrival at a time and at most one waits in `wq`. *Filter.* Two lines that collide in
filter and cache and one that does not, invalidations of both kinds at every moment. One process only: with two, an
invalidation computes the filter's line with the mask of the process that runs it (`filter_cache.h:155`, a FIXME of the source). *Queue.* Delays of 0 to 13 cycles over an
array of 8 cycles: near, far, around the end of the array, and more than once around. *Slabs.* Two sizes of elements that fill a slab unevenly; a slab is recycled
by either thread while the allocator has left it or not. *Core* (`CoreSound`): a port starts one uop per cycle, the window's count is
what it holds, the queues retire in order, loads and stores respect fences, the predictor learns, a block's loads and stores match.

**barrier.** Three threads on two slots: one runs, one is woken, one waits, leaves
or rejoins; the list has room for a swap with a member that is neither the first
nor the last. A cleanup every second phase (32 in the code) meets threads that left
in this phase and in the one before. `ListSound` is the consistency of list, cursor and
places that the swap of `join` relies on, and that with the lock free no slot is idle while a member waits
behind the cursor, which is why `leave` may return without a scan for a member that waits. In half of the behaviours
members are removed while they wait; `EveryWaiterRuns` is about the other half. In **barrier_swap** the removal makes `lastIdx` stale, because it is
written when a member is woken or moved, never when it is queued: see the findings.

**scheduler.** Three threads on two contexts is the smallest instance with a hand-over
whose victim may or may not find another context; the pinned thread makes the masks overlap in part,
which reaches the branch the source marks "untested code path". Sleeps of
one and two phases give the sleep queue an order to keep. A quantum of two has phases
with and without a tick. `PlacesExact` includes that the barrier's members are the contexts whose thread is RUNNING.
`AssertsHold` names the two assertions that fail, and when. In
**scheduler_live** everybody competes for one context; a thread may block in a syscall for ever and
all may be out at once.

**coherence.** Two lines that collide in a single way at every level: each access
evicts at each level, and the victim is the line the other core uses. The two cores' paths have different
lengths, so that an invalidation of the last level reaches a middle level that is itself in
the middle of an access. The instruction cache is the only source of NOEXCL, and makes one core a sharer twice. Two banks are the
one case in which an access takes locks sideways: an access to one bank evicts, above the second level, a line of the other. Here the
run and the proofs complement each other: the theorems hold for any tree, the run (3.3 million states) shows that the model does
reach the races the proofs rule out of order.

**weave.** Two domains on one simulation thread (the loop with stalled lists) or on two (unlocked reads of
the other's clock); every crossing of a request and of a response. A phase of 10 cycles with accesses of 8 cycles makes events of one
phase run in the next; two phases show that the counter, the locks and the clocks are handed back. A core may leave with an access
outstanding, drain, and join again. `CrossingOnTime` is the form in which a commented-out assertion (timing_event.cpp:164) is true.

**memory.** `ArraysSound`:
* *Hawkeye.* Of the trace it is given, in which every miss stands twice, OPTgen counts exactly the hits of Belady's policy (`OptgenIsOptimal`, compared with the best of all choices of intervals); of the
  program's own accesses its answers are a set that Belady's policy can hit together (`NeverAboveBelady`), but not all that it can: the second of the two accesses occupies the cache. The sets see traces of nine accesses:
  one of one way with a ring of 4, which forgets most of them, one of two ways with a ring of 8, and one of three ways with a ring of 6. The length of the last does not divide 2^32, `wrap_index(-1)` is not its last position, and its search may never end: only then (`SearchEnds`).
* *Arrays.* A zcache finds every line it holds, once, after any sequence of moves; the ideal arrays' lists are exact.
* *Way partitioning.* The monitors' curves are the misses of LRU caches of every size, sizes are what happened (`Accounted`). The lookahead algorithm gives away every way once with one partition; with two it gives away
  two more than there are, whatever it is told (`GivesAway`), and `assert(curWay == ways)` fails at the first repartition, and never else (`AssertsHold`). An instance has one partition or two, so that both are seen.
* *Vantage.* Sizes and setpoints (`SizesMatch`); a growing partition finds one to take a line from as long as the targets are not more than there is; else `assert(linesLeft > 0)` may fail (`AssertsHold`), as with what the lookahead algorithm gives away.

`VictimsInOrder`: LRU, NRU and LFU take the victim that
their definition says, computed from the history of uses; a scan does not evict a line used again under SRRIP and SHiP. LRU's score has three bits here and the timestamp goes to eight, so that the cut of line 125 happens as soon as
a line has sharers: the order is that of the comment on `score` exactly as far as two scores lose as much (`CutAlike`), and it is wrong beyond.

`DramSound`: the slots found on the data bus are disjoint, with the turnaround between ranks, in every configuration; so are the bursts but for one of a rank that was powered down, whose penalty is added after its slot was found (`BurstsDisjoint`; run with
power down after 4 cycles). Commands keep tRRD, tRC, tRAS, tRCD, tRP, the distances of reads and writes to each other and to a precharge, and the window of activates, which does not delay the first activate of a bank (`CommandsSpaced`, three banks in one window).
The write buffer is filled and overrun with three entries and five writes; it holds an address once and grows from then on (`WritesUnique`); no write is lost, and no read passes one of its line (`WritesKept`); each tick serves somebody,
except that with a buffer of one entry reads wait behind writes that are not there (`TicksServe`). For ddr_mem: activates, bursts and requests keep their distances and order, whoever waits is woken, row hits do not starve.
No assertion fails in either.

`HeapSound`: boundary tags, bins, trees and owners
agree after any sequence of calls on six chunks' worth of segment, sizes that fall in small bins, in trees, and that split or exhaust it. `CacheTimingSound`: one lookup per cycle, an MSHR for each
miss under way and no more, nobody waits for one that is free, no event before its bound time. The bounds on operations (`MaxOps`, `MaxFeeds`, `MaxReqs`, ...) are named in each module and are the shortest at which the
policy wraps: every line evicted and reused, every ring overrun, every queue full.

**host.** *Fast-forward.* Four uses of the simulator: toggles, hooks, FFI points,
and stops of the others, also beside each other: a toggled process beside another one's FFI points, and one that may end with its event queued. `OnlyTogglesHang`: an end of phase comes to its end except in two states, which need a toggle. `LocksCrossed`:
the end of the phase waits, with `qLock`, for `ffLock`, which a control thread holds that waits for `qLock` to insert its event; the end of the phase may be waiting itself, because an FFI event fires, or for the other control
thread it let go (finding 1), or the process ended with the lock. `Orphaned`: the SyncEvent of a process that ended since waits for its control thread, which is gone (zsim.cpp:1313-1316). `Terminates` holds in all uses: after the termination condition every process ends, unless toggles
keep a control thread waiting or process 0 fails the assertion that `FFCounted` names. **ff_toggles** is the smallest use in which an end of phase does not end.

*Decoder.* `DecoderSound`: as many load and store uops as a thread reports accesses, temporaries written
before they are read, no operand lost (with the exceptions the comment names), cycles in order and within the widths.

*Programs.* `ProgramSound` joins four parts. The pointers of a thread match
its state in the scheduler (`ThreadsSound`; one thread, because of the others only the flags are seen, which change at any time), and assertions fail in four kinds of states and no others: `MarkedEarly`, a timed call that comes before an instruction
has joined after the last call, or with sim.blockingSyscalls, leaves a mark that no leave uses up, which fails at scheduler.h:300 among others; `CutShort`, fast-forwarding begins or the thread ends in a sleep that a signal has cut short; `NotJoined`, with sim.blockingSyscalls a thread that has
not joined yet gets the pointers of a core that is null (zsim.cpp:929); `NoPatch`, a nanosleep for an invalid time is given an empty function. Futex wakes match waits (`FutexSound`). Active processes are counted and process 0 is the last; `childInfo` has each child of the harness but one that was just forked, and
`eraseChild` panics only because that one has ended already (`ProcessesSound`). A virtualised program sees one machine (`VirtSound`): no file that is faked is opened under another name, except by an absolute name that comes with a dirfd and by names
with a "." in them or in a link, against the comment of `PatchOpen` that it will "always catch" them (the other direction is not claimed: prefixes match by characters, so that "/system" is faked with "/sys"); a virtual port has one owner and maps back, a clock never runs backwards (but after a read
late in the end of a fast-forward), a cpu number is one of the mask's.

CHECK_DEADLOCK is FALSE where the system may stop: threads finish (`scheduler`), processes end (`host`), or the program has ended at an
assertion (`slab_crossings`). In the others a bound that is reached is a stuttering action (`Done`, `Bounded`), so that a deadlock of the modelled code is still an error.

### Fairness

* `FutexLock`, `RWMutex`: weak fairness of the steps of a thread inside the
  lock functions and of the owner's unlock. The kernel schedules every
  runnable thread, and critical sections end. Not assumed: that a sleeper returns by
  itself, or that anybody calls lock.
* `Barrier`: weak fairness of the steps inside the barrier, strong fairness of `Sync`:
  a running member that keeps being scheduled reaches the end of its phase because its simulated clock
  advances, although it may leave and rejoin any number of times before.
* `Scheduler`: a thread inside the scheduler whose wait is over goes on; a simulated
  thread reaches the end of its phase (strong, as above); the watchdog runs, because it
  polls, and takes back any fake leave, as the default pattern `.*` allows. Not assumed: that a syscall ever
  returns, that an event comes, or that a sleeper wakes up otherwise than by its futex word.
* `Weave`: weak fairness of each simulation thread that is awake, and of the caller that waits for `waitLock`. Not assumed:
  that cores go on.
* `FastForward`: weak fairness of the program threads' steps, of the control threads, of the thread that ends a phase, and of process 0's end.
  Not assumed: that anybody toggles, that programs end or call the system, or that the target of an FFI interval is reached.
* `Processes`: weak fairness of each process, of the signal handler, of process 0's end and of the harness's loop. Not assumed: crashes, forks, or signals of the user.

`Coherence` has no liveness property: an unfair futex lock can keep a thread out for
ever (locks.h says that it is "quite unfair"), so that without assuming that the others stop nothing more can be said
than `NoCircularWait`.

## 5. Proofs

All proofs hold for every value of the constants that satisfies the assumptions of the modules: any finite set of threads or
processes (any set, for the futex lock), any number of caches, lines, ways, slabs. TLC evaluates the assumptions
on every run that extends the module.

`LockProofs`, futex lock. The inductive invariant `LockInv` joins the types, exclusion, and
two facts exclusion does not imply: the word is not 0 exactly if somebody
holds the lock (`WordTellsHolder`), and the kernel's queue is exactly the threads
inside the wait (`QueueTellsSleepers`). The first is needed because a `Cas` or a `Swap`
that finds 0 must imply that nobody holds; the second because a wake moves a member of the
queue and must not move anyone else. `NoLostWakeup` is then inductive relative to `LockInv`:
a thread goes to sleep only on a 2, and whoever takes the 2 away is an unlocker on its way to the
wake. `MutexSafety` shows that each step is a step of `Mutex`, or a
stutter, under the mapping that makes the unique thread in a holding position the owner.

`LockProofs`, reader-writer mutex (`WriterAlwaysAlone`). `RWInv`: the count is the number of threads that have counted
themselves in and not out; `rb` has one owner; `wq` belongs to one thread, or to the readers as a group, or, between the
two steps of a downgrade, to nobody while the waiting reader keeps `rb`. Each of these says who will release what another thread took.

`BarrierProofs`. `Positions` relates each thread's place in the code to its
state, its futex word, the lock and the thread being woken; none of it depends on the
order of the list, so that it is inductive by itself, with removals
of waiting members and without. It contains that between `SetRunning` and `CasWord` the word of the woken thread is
still 1, that is `NoWakeupRace`: whatever the thread does meanwhile without the lock, it cannot
come back to `sync` and reset its word, because that takes the lock. `Counters` says by how
much the two counters differ from the numbers of threads in these states
at each place of the lock's holder; it needs the cardinality of sets that gain or lose one
member (`FiniteSetTheorems`). `CountersAlwaysMatch` and `ParallelismIsControlled` follow.

The order of the list is next. `ListInv`: the list holds each thread that is not OFFLINE once,
and where no waiting member is ever removed, a thread that runs or has left is at the place its `lastIdx` says (a removed one need
not be, see finding 3). The shuffle permutes the list and stores the places; the cleanup is a loop of as many rounds as the list is long
(`CleanupRounds`, a recursive function), of which `CleanAfter` is the invariant: each round keeps an entry or
drops one that has left. That the function is defined at all is proved from prefixes of it, of which the first that failed
to exist would be the one after one that does (`LeastNatural`). `Quiet` says what the second scan knows at each of its steps: either there is nothing to do,
or nobody it has passed waits to be woken; with the counting argument that as many have left as the list is long
only if all have (`AllLeft`), the scan that finds nobody can release the lock. These give `ListIsSound`.

`BarrierRefines`: each step of `Barrier` is a step of `PhaseBarrier` or a stutter. The mapping takes a
waiting thread for done if it is before the cursor in the list (`Passed`); the invariant added for it is that whoever runs has been passed too (`RunnersPassed`), so that a sync moves it
to the set of those done and not back into the set of those to run. The proof is by the effect a step has on the list and the cursor: none, one
passed, a new last entry, a new phase. Its first attempt failed, and rightly so: a removed thread that joins again in the same phase may miss its turn, which takes four
threads and so does not happen in the run `barrier`. That is `JoinLate`; it is admitted only where members are removed, and the theorem covers any number of threads.

`CoherenceProofs`. All five safety properties of the MESI controllers, for any tree of caches. The proofs are built in layers.

1. *Calls and locks* (`LockInv`). The frames of a core climb level by level and then go down, perhaps sideways once, at an
   eviction; a core holds exactly the locks its frames say, and a lock has at most one holder. A core that waits for a bottom lock on its way
   down holds only bottom locks of higher levels and top locks; one that waits for a top lock on its way up holds only top
   locks of lower levels. In a set of cores that wait for each other in a circle, if one waits on its way down, the one that waits lowest waits for
   a lock nobody in the circle can hold; if none does, the one that waits highest does (`LeastNatural` gives the extreme element): `NeverCircular`.
2. *What is known* (`MesiInv`). At each label a frame says what its core knows: of its cache's line and its child's
   (`Accesses`, `Asks`, `Answered`), of the victim, which children are still on an invalidation's list (`Called`), what
   data it brings back (`WbInv`). `DirInv` relates a directory to the states of the children, except for a store on its way up, which an invalidation may have taken
   off the list (`ChildOK`, `Upgrading`). `PresentInv` is inclusion. Each fact is about caches the core has locked;
   since a step changes only lines of caches its core has locked (`Touches`), what the other cores know stays true (`OthersKeep`), and it remains to show that a step
   establishes what its own core will know next: one lemma per action.
3. *Consequences.* No assertion fails where `MesiInv` holds, in particular every race is one that `CheckForMESIRace` expects (`NeverFails`). `AlwaysExact` is `DirInv`
   where nobody is at work. For `AlwaysSingleWriter` take two terminal copies of a line, one of them exclusive, and climb from each towards
   memory: inclusion keeps both copies in every cache on the way and exclusivity in the one, the paths meet because a line has one last-level cache, and below the meeting
   point they are siblings of which the directory says that one is exclusive and both are listed. `NeverLost` follows the dirty data (`KeptInv`): a line stored to is in M somewhere
   or written back by a frame that holds the parent's lock.

The second layer was found with TLC: each part was a checked invariant of run `coherence` before it was proved, and the stronger `TerminalAssumption` and `RootAssumption`
are what the counterexamples to weaker ones showed to be needed.

`SchedulerProofs`. All four safety invariants of the scheduler, for any number of threads and contexts, any masks, any quantum. What makes the proof long is that the
four depend on each other: that no context is given twice needs that a promised thread is nowhere else, which needs that a thread in the run queue is
not running, which needs to know what the unlocked steps of every thread assume. The inductive invariant `SchedulerInv` is therefore one statement about
the whole record `s`, in parts:

1. *Places.* `Placed`: the out queue lists the threads that are OUT, the sleep queue those that are SLEEPING, each once, and a thread and its context point to each
   other. `FreeListed`: the free list lists the contexts that are not used. `Bars`: a context takes part in the barrier exactly while its thread is RUNNING.
2. *Promises.* `Promises`: whoever is QUEUED is in the run queue or has been promised the context of exactly one other thread, never both. `Conserved`: whoever is in the run
   queue may use no context that is free or that its thread has left.
3. *The rest that is needed.* `Sorted`: sleepers in the order of their deadlines, with their words at 1, so that the end of a phase wakes the first ones only. `Knows`: what each place in the code
   implies for the state, the word, the hand-over and the marks of its thread; `Watch`: what the watchdog remembers, between its two critical sections, of the thread it is about to leave for.

A critical section breaks these and restores them, so that they are stated of a record in the middle of one: `Inv(x, k, H, b)` is the invariant of `x` but for the contexts in `H`, which are being passed on, and the thread
`b` that is at work. Each operation of the code has a lemma of its own about `Inv`: a thread gets the context that is passed on (`schedule`, `wakeup`), gives its own up (`deschedule`), starts to wait, `schedThread` and `schedContext` find what
they should, `leave` and `join` follow from these. `schedTick` goes through the run queue with what is left of the running contexts; it is a recursive function over the length of the queue, of
which `Assigning` is the invariant, and that the function is defined is proved as for the barrier's cleanup. The callback at the end of a phase wakes a prefix of the sleep queue and hands contexts over. On top there is one lemma per action of
a thread and of the watchdog (`NextKeeps`). An assertion that fails ends the model; `AssertsHold` is part of the invariant, and of the two races it admits the proof shows that no other state leads to them.
`Scheduler` has the place of a list's member by its first occurrence and the pass of `schedTick` as a recursive function, both of which the provers can reason about.

`UnitProofs`. `AlwaysInTime`: the next look at the count is never later than the first phase at whose end the target can be exceeded, because between looks it grows by at most `maxRate` per phase and thread (`InReach`). It assumes nothing of the target and of the number of threads: below a phase's worth,
or with several threads, it says by how much the event is late, and its assertion may fail.
`RecycledAlwaysEmpty`: without crossings `liveElems` of a slab is the number of its events not done, plus those whose thread is between its two steps; a slab is in use, in the free list once, or fresh; at most one thread
recycles it. The theorem assumes that there are no crossings because with them it is false (`slab_crossings`). `FilterAlwaysCoherent`: an entry is backed by the cache except for the set being
replaced, from the eviction to the fill, whose entry the replacement has already overwritten; it assumes one process, for the reason given above.

`FastForwardProofs` (`FastForwardCounts`). `FFInv` says when the simulation is stopped (at the end of a phase, and after termination, no thread simulates), that at most one control thread is
released by an event and then the end of the phase waits for it, that control threads only work where somebody toggles, that an ended process is out of everything, and that the counters are
cardinalities as long as no assertion failed. That no assertion fails has the two conditions stated in `FFCounted`, which are limits of the code and not of the proof: FFI points do not go together with other ways to
switch, and process 0 must not have them and be ended by its control thread. The FFI part is the longest: an interval's event is queued once and nobody else switches the process meanwhile (`IntervalsOnce`).

`HandOff` holds its own theorems: between phases nobody is awake (`Alone`), and a phase ends after everybody has counted (`EndsAfterAll`). `DDRMem`: `TranslatesBack`, the lemma about rounding that the scheduling of events relies on.

### Only model-checked, and why

* Liveness and refinement of fairness: `EveryWaiterRuns`, `Progress`, `QueuedRun`, `SleepersWake`, `PhaseEnds`, `OnlyTogglesHang`, `AllEnds`. The provers have no rule for fairness and ENABLED.
* `Weave` and `SyscallVirt`, which declare RECURSIVE operators (the walk over a graph of events, over a path), and what recursive definitions or
  folds compute for every input: `OptgenIsOptimal`, `EveryLineIsFound`, the decoder, the heap's trees. Induction over data is out of the provers' reach.
* The refinements of `SortedBag` and `HandOff`, and the sequential structures of the memory system and of the out-of-order core: bounded
  inputs with wide arithmetic, for which a check says most per line.

## 6. Findings

1. `zsim.cpp:1350` (`ff_toggles`). The control thread of a process inserts its event with `ffLock` held, and `insert` takes `qLock`; `tick` holds `qLock` while the event of another process waits for that
   process's control thread, which must take `ffLock` first. Two processes toggled about the same end of phase stop the simulation for ever, with the scheduler's lock held.
2. `timing_event.h:337` (`slab_crossings`). A crossing event contains its source-side event, and `done` of each frees the same slab element: the slab counts two for one and is
   recycled while an event in it is not done.
3. `barrier.h:133-137` (`barrier_swap`). A member that is removed while it waits before
   it was ever woken in its place has a stale `lastIdx`; if it joins again in the same
   phase, `assert(tid == runList[lastIdx])` fails. Only `Scheduler::processCleanup`
   removes waiting members.
4. `scheduler.cpp:158` (`scheduler_watchdog`). The watchdog ends a fake leave, drops
   the lock, and calls `leave` for the thread; if the syscall returns in
   between, `join` finds the thread RUNNING and its assertion fails. The same gap lets the
   watchdog and `finish` execute `leave` twice (`AssertsHold` names both).

### Observed on the way, without a violated run

What a passing run shows as a named exception of its property is in section 4; it is listed here again.


Locks, scheduler, end of phase:
* `futex_haswaiters` says "No false positives" (locks.h:218), but the word stays at 2 after the last waiter's exchange and after a
  try-lock that timed out, with nobody waiting.
* The loop of the watchdog compares the process of the thread it just handled, not of the next one in the list, and reads it after
  `finish` may have deleted it (scheduler.cpp:163).
* The failing states of `ThreadsSound`: two system calls back to back with a timed one assert at `markedForSleep` (scheduler.h:300); a sleep ended by a signal and a fast-forward
  runs `finish` on a sleeping thread; the nanosleep patch returns an empty function for an invalid time, which throws when called; sim.blockingSyscalls follows a null pointer (zsim.cpp:929).
* A SIGCHLD between a fork and `childInfo` (zsim_harness.cpp:238-242) panics in `eraseChild`; one process too many panics in `getNextChild`.
* A toggled process that ends with its SyncEvent queued stops the next end of phase for ever (zsim.cpp:1313-1316); so does an FFI event that fires while a control thread holds `ffLock` on its way to `insert`.
* `futexWakeJoin`'s assertion (scheduler.cpp:347) fails with wakes the simulator does not see, such as the kernel's at a thread's end, or late waiters; a wake that
  fails keeps its allowance.
* FFI points combined with hooks, fftoggle or programs that end by themselves break the assertions of the FFI code, or put an ended process in fast-forward (zsim.cpp:284,
  298, 346); a synced fast-forward by an FFI event while a thread is in a syscall waits for ever (zsim.cpp:483 has a comment).
* A control thread's timeout may end its process inside the end-of-phase actions, with the scheduler's lock; a `FFThread` insert between `tick` and the next phase panics (event_queue.h:97).
* A change of the synced mode by a fork, while in fast-forward, leaves the count of synced processes wrong; a process that panics at its start stays counted; a process that crashes before it is attached is not noticed by the harness; a
  forked child inherits `restartsLeft` that nobody uses.

Coherence, memories, cores:
* filter_cache.h:155: an invalidation on account of another process does not clear the entry (a FIXME of the source).
* A commented-out assertion, timing_event.cpp:164, is indeed false; `CrossingOnTime` is the true form. `ContentionSim::finish` has no caller.
* `TimingCache`: `cycle - 1` underflows at cycle 0; one way with several candidates loops for ever.
* `LRU`'s score is cut to 32 bits (repl_policies.h:125, against the comment at 135); NRU's `youngLines` counts too many; Hawkeye shifts the line address twice, gives OPTgen every miss twice, and wraps wrongly, perhaps for ever, when the number of ways is not a power of 2; SHiP never decrements its table.
* `lookahead.cpp:83-90` hands out more than there is with two or more partitions, which fails part_repl_policies.h:232 at the first repartition, and may fail 630 with smooth transients; the last point of a partition's curve is the first of the next one's (monitor.cpp:69-106); Vantage's setpoint wraps below 0; the ideal partitioned policy's constructor writes one partition too many (ideal_arrays.h:142).
* detailed_mem: tRRD and tFAW are not applied to a bank never activated; the window's array has as many entries as banks but is indexed to 4 (detailed_mem.cpp:42); a memset writes 128 bytes over 16 (detailed_mem_params.cpp:36); a burst of a rank that powers up may lie on another one (413-419); after one overflow the write buffer
  never evicts again (`==`, line 895) and grows; a write buffer of one entry starves reads (906-910). ddr_mem: a new request passes older ones in the overflow queue.
* Decoder: the last uop of a chain reads a source already read (decoder.cpp:418); a conditional move from memory writes no register (291); the limit of four decoders is tested as `== 4` (1439). The reorder buffer retires one more than its width per cycle (ooo_core.h:321); a store whose predicate is false still accesses address -1.

Virtualisation: a path or a symlink with a "." component is not normalised and escapes the fakes; openat prepends the directory to an absolute path; prefixes match by characters, "/system" as "/sys"; mappings of ports outlive the sockets; a clock read between the end of a fast-forward and the
next basic block is ahead of the virtual time.

## 7. Not modelled

The components of the table that are marked so, and in the others: the spin and ticket locks and `futex_haswaiters` of `locks.h`; of the coherence controllers the
non-inclusive option, prefetches and the FWD request, which nothing sends; of the scheduler the cleanup of killed threads,
termination, several processes at once, and the parameter `needsJoin`, which is false in every call; random replacement and the profiling wrapper of LRU;
which partition an access belongs to (any); power and bandwidth estimates, DRAMSim, and the controllers of fixed latency; growing the heap's segment and realloc; the
simple, timing and null cores' sums; exec, nested processes and other signals; vdso entry points other than as a call. The notes of the components in `PROJECT.json` are more detailed.
Overflow of the phase number and of cycle counts (64 bits) is not modelled.
