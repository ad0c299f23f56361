# HashLink with Python mods: specifications and proofs

This directory is the verification development that goes with the sources under
`src/`: the HashLink virtual machine (HL, which runs compiled Haxe programs) with
`hlmod`, which embeds CPython in it so that Python mods can hook, call and
subclass the code of a running game. It has TLA+ modules translated from the C
code, TLC configurations that check them on small instances, and theorems that
TLAPS has checked for every instance. `PROJECT.json` lists the runs, the
properties, the source lines each definition stands for, the hazards and the
theorems.

The modules are about what makes this program hard: a stop-the-world collector
whose handshake with the threads is hand written; a second garbage collector and
a global interpreter lock that were not made for it; and a bridge that keeps one
identity for objects that live in both heaps.

## 1. Inventory

### 1.1 Components, their state and their operations

**Runtime core** (`src/src`)

| component | state | operations | correct when |
|---|---|---|---|
| thread registry and handshake (`gc.c`) | `gc_threads` (list, `stopping_world`, `global_lock`), per thread `gc_blocking` and the saved context, `gc_roots` | `hl_register_thread`, `hl_unregister_thread`, `hl_blocking`, `hl_gc_safepoint`, `gc_global_lock`, `gc_stop_world`, `gc_major` | no thread runs HL code during a mark; what is scanned is up to date; nothing freed is read; a collection ends |
| mark phase (`gc.c`) | mark bits, a mark stack per worker, `mark_threads_active`, the semaphores, the deferred roots | `gc_mark`, `gc_dispatch_mark`, `gc_flush_mark`, `mark_thread_main` | exactly what is reachable is marked; every pass ends; the foreign bridge observes exactly what HL reaches alone |
| block allocator (`allocator.c`, pages in `gc.c`) | pages by partition, free lists, sizes, mark bits, `gc_free_pages` | allocation, the flush after a collection, finalizers, pages taken and given back | allocations are disjoint; nothing used is on a free list; one finalizer call per block |
| threads (`std/thread.c`) | mutexes, conditions, semaphores, locks, deques, thread-local cells | acquire, release, wait, timed wait, push, add, pop, set | no lost wake-up; a wait does not hold up a collection; what is in transit stays alive |
| exceptions (`std/error.c`) | the trap stack of a thread, `exc_value` | trap, throw, rethrow | the innermost trap is the one that catches |
| maps, objects, virtuals (`std/maps.h`, `std/obj.c`, `std/types.c`) | tables with free lists, runtime layouts | get, set, remove, resize, lookup | a map is a function; layouts agree with lookups; a virtual that views an object casts what it declares to cast and nothing else |
| bytecode, linking, hot reload (`code.c`, `module.c`) | `hl_code`, tables of functions and globals | read, link, `hl_module_patch` | a patched function keeps its callers |
| JIT (`jit.c`), debugger, profiler | machine code, sampled threads | compile, sample | sampling touches no freed thread |

**Mods** (`src/src/hlmod*.c`, `hook_registry.c`, `native_hook.c`, `mod_loader.c`, `src/python`)

| component | state | operations | correct when |
|---|---|---|---|
| GIL crossings | the GIL, who waits for it, and how | hooks and callbacks in, `hlmod_invoke` out, the waits of CPython itself | no circular wait with a collection; nobody waits for the GIL under the GC lock |
| bridge of the two collectors (`hlmod_python.c`, `hlmod_ptr.c`) | `python_roots`, `python_peers` with strong and weak references, `native_live`, the snapshot | wrap, bind, convert, the two callbacks of Python's collector, the three hooks of HL's | nothing in use is freed by either; one instance per bound object; cycles through both heaps are reclaimed |
| hook registry, dispatch, passthrough | `hook_slots`, a stack of bypassed functions per thread, return registers | register, unregister, dispatch, call the original | a removed hook is not called; the original is called once; nested calls keep their results |
| native detours (`native_hook.c`) | patched entry points and their records | install | one installation per native; no thread runs half of a jump |
| REPL (`hlmod_repl.c`) | sockets, a thread, stop flags | start, serve, bounded stop | ends, and leaves nothing dangling |
| mod order (`mod_sorter.py`) | none | topological sort | dependencies first, or an error |
| start and shutdown (`main.c`) | the order of everything above | | nothing is used once it is gone |

The rest (casts, field access, the Python API, stubs, crash handlers, game
profiles, strings, files, sockets, the libraries under `libs/`, vendored code) is
listed in `PROJECT.json` with the reason it is left out.

### 1.2 How they interact

```
   HL threads --- hl_blocking, gc_global_lock ---> handshake <--- gc_major
       |  ^                                            |
 hooks,|  | hlmod_invoke                           gc_mark (workers)
 callb.v  |                                            |  defer, observe, trace
     GIL, Python code --- wrap, bind, convert ---> bridge of the two heaps
       |                                               ^
       +--- Python's collector: "start" and "stop" ----+
```

Everything allocates, so everything meets the handshake. A hook takes the GIL; a
mod that calls HL gives it up. A Python collection asks for an HL collection to
learn what HL reaches, and an HL collection calls the bridge while the world is
stopped.

### 1.3 What is hard

* The handshake works by plain loads and stores of two variables, in a program
  where every wait must be announced first.
* Two locks, the GIL and the collector's, are taken in many places, and CPython
  takes and gives up one of them on its own.
* Each collector sees half of the object graph; what it is told of the other half
  is a snapshot, used while other threads move references.
* Free lists, mark bits and counters at their limits: a 16-bit cursor on a page
  of 65536 blocks, memory that runs out, leftover semaphore tokens.
* Shutdown, with HL threads still running.

* Messages between threads: a message is somewhere at every moment, and a collection
  may come at every moment; condition variables wake one waiter, who has to pass
  the signal on.
* Hooks nest: originals called from hooks, methods overridden in Python, exceptions
  through both languages, and per thread only one place for what a dispatch returns.
* Structures that other structures point into: a virtual holds addresses of fields of
  an object whose layout changes; a map's free list is resized with its cells.

`PROJECT.json` lists 40 hazards at the lines where they bite, each with the
properties that would catch it, or with a note when none does.

## 2. Modules

| module | models | state, in terms of the code |
|---|---|---|
| `StoppedWorld` | what the handshake promises | `running`, `marking` |
| `StopWorld` | the handshake and the thread registry | `threads`, `gc_blocking`, `stopping_world`, `owner` of the lock, `fresh` (is the saved context up to date), `rooted`, `alive` (is the `hl_thread_info` allocated), `pc` |
| `StopWorldTSO` | the same with the store buffers of x86 | a buffer per thread and what memory holds |
| `GilWorld` | threads that cross between HL and Python, over `StopWorld` | `gil`, `phase`, `returned` |
| `MarkThreads` | the mark phase | `bmp`, `stack`, `cur`, `mark_threads_active`, `ready`, `mark_threads_done`, and the heap that is marked |
| `ForeignGC` | the bridge between the collectors | both heaps (`heap`, `refs`, `native`; `handle`, `inst`, `pyrefs`, `held`), the registry (`peers`, `dead`, `strong`, `native_live`), the snapshot (`snapshot_edges`, `count`, `edges`) |
| `Allocator` | pages, free lists, finalizers | `pages`, `free`, `current`, `need_flush`, `sizes`, `bmp`, and what the program uses (`used`) and is owed (`owed`) |
| `ThreadSync` | deques, locks, mutexes and the start of threads, over what `StoppedWorld` promises | `first`, `last`, `next` (the nodes of a deque), `counter`, the owners of the mutexes, `depth` (of the recursive one), `hand` (the message in a register), `held` (those on a stack), `param` (the start block), `pc`, `registered`, `blocked` |
| `AtomicDeque` | what a deque promises: a sequence, with sending and receiving as two steps each | `items`, `sent`, `received` |
| `HookDispatch` | hooks, overrides, and calls from Python into HL, as they nest | `stack` (frames of a thread), `passthrough`, `bypass`, `return` (who stored the return registers), `slot`, `refs` |
| `NativeHook` | detours installed in natives | `entry` (what the first bytes of a function or stub are), `stubs`, `installed`, `hooked` |
| `HashMap` | `maps.h`: set, remove, resize, clear, with indexes in signed chars while the map is small | one record `m`: `cells`, `entries` (with `nexts` and `values`), the free list |
| `AbstractMap` | what a map promises: a function with finite domain | `map` |
| `DynObj` | dynamic objects, the virtuals that look into them, and what the first of these casts | one record `o`: `fields` (the lookup), `raw`, `values`, the virtuals |
| `AbstractObject` | what an object promises: typed fields that a set, a delete and the first view change, and no later view | `fields`, `views` |
| `ModOrder` | the order of the mods and their loading | `found`, `mods`, `indegree`, `ready`, `order`, `loaded` |
| `...Proofs` | theorems about the module of that name; `StopWorldProofs` has those about `GilWorld` too, `HookDispatchProofs` those about `NativeHook`, and `StructureProofs` those about `ModOrder`, `HashMap` and `DynObj` | |
| `Recursion` | lemmas on induction over the naturals, for proofs about recursive functions | |
| `MC...` | instances for TLC | |

Names follow the code. In `StopWorld` every statement that reads or writes a
variable another thread uses is a step of its own; `pc` says which is next. What
is done under a lock nobody else can observe is one step. In `GilWorld` the steps
of `StopWorld` are reused unchanged: a crossing is a step of the handshake
together with what becomes of the GIL, so that all that is proved of the handshake
carries over. `ForeignGC` has collections as single steps, since the world is
stopped for them (`StopWorld` shows that it is) and they mark what is reachable
(`MarkThreads` shows that they do); Python code has the GIL, so a step of it is
one too, but HL code of other threads runs between any two of them, and between
the parts of a Python collection. Of the two kinds of pages, `Allocator` takes one
partition of any kind: partitions share nothing but memory.

`ThreadSync` stands on the handshake as `StopWorld` has been shown to implement it: a
thread in a blocking region or parked does not go on while a collector wants the
world, and a collector marks once nobody runs. A stretch of code under a pthread
mutex is one step; the waits for the mutex, and the points at which a collection may
come in between (`hl_blocking` before and after), are labels. Each message is in one
place: on a stack, in a register of a call, in the deque, or in a start block; only
some of these a mark can see. In `HookDispatch` the frames of a thread are data, since
the properties relate them to what the code keeps beside them: the passthrough stack,
the bypass, the return registers and the reference counts. What a C function keeps in
local variables is in its frame. `NativeHook` is about the jumps that natives begin
with; that a hooked native dispatches is what `HookDispatch` starts from. The
sequential structures (`HashMap`, `DynObj`, `ModOrder`) have an operation per step; a
loop of the code is an operator or a recursive function.

Mutated forms of a definition stand before it, marked `Mutant` in a comment: each
is a plausible mistake in that code that the property named in `PROJECT.json`
detects.

## 3. What is checked

| run | shows | instance |
|---|---|---|
| `stop_world` | no HL code runs during a mark (`WorldStopped`), every context read is newer than the last HL step (`ScanSeesEveryThread`), no freed thread is read (`NothingDangling`), the handshake implements `StoppedWorld` (`WorldSpec`); with the GIL, a bracketed wait never holds up a collection, nobody waits for the GIL under the GC lock, and a collection that never ends is held up by a circular wait with a bare wait, or by Python code that itself never ends (`CollectionEndsOrStuck`) | `main()`, which nests blocking regions twice, and 2 threads that register and end; or `main()` and a thread that cross into Python |
| `stop_world_tso` | **violated**: with store buffers a thread runs HL code during a mark | 2 threads, 2 pending stores |
| `gil_deadlock` | **violated**: a circular wait of the GIL and a collection exists | `main()` and 1 thread |
| `mark_threads` | what is marked, and what the bridge observes, is exactly what is reachable; no assertion fails; the collector is always woken | 2 workers, 7 blocks, 2 heaps, 2 collections |
| `foreign_bridge` | neither collector frees what is in use (`NothingUsedIsFreed`, `IdentityKept`); observation and snapshot stay true while HL code runs on (`ObservationHolds`, `SnapshotCovers`) | 2 addresses, one reference each, one concurrent collection recorded |
| `foreign_reclaim` | garbage is reclaimed, cycles through both heaps included | every graph of 2 blocks |
| `foreign_trace` | **violated**: a second trace doubles the counts of the first | as `foreign_bridge` |
| `thread_sync` | no waiter sleeps on while there is something for it (`NoWaiterForgotten`); a mark finds every message in use but those on the stack of a worker or in hand of `hl_deque_pop` (`OnlyTheseAreMissed`); whoever holds which lock, a collection ends (`CollectionEnds`); the deque is one (`DequeSpec`) | `main()` and 2 threads, 2 messages, counter up to 2, mutex taken twice |
| `worker_stack` | **violated**: a mark finds what is on the stack of a thread | the same |
| `hooks` | passthroughs are taken back exactly, no hook re-triggers from its own original, the bypass hits the call it was set for, each dispatch returns its own result, callbacks live while they run; detours lead to the body and to every hook that was accepted, whatever allocation fails | 1 thread, 2 functions, 1 callback, 6 frames; 3 natives, 2 of which share a function, 4 stubs |
| `structures` | allocator: allocations never overlap (`HeapIntact`), the free list has only free blocks, each once (`FreeIsFree`), the flush rebuilds it exactly (`FlushExact`), finalizers run once and in time (`FinalizersOwed`). Map: every entry is in a chain or free (`EntriesAccounted`), and it is a function (`MapSpec`). Object: a virtual's addresses are those of the fields (`VirtualsFollow`), fields do not share places (`LayoutIntact`), and it is a set of typed fields, of which the first view casts those it should and nothing else (`ObjectSpec`). Mods: all, once, after what they depend on, or an error (`LoadsInOrder`) | memory for 6 blocks; 4 keys; 3 fields and 2 virtuals; up to 3 mods |
| `allocator_full` | **violated**: memory is given up as exhausted although the collection freed a page | as in `structures` |

The parts of `structures`, and the two of `hooks`, share no state: a behaviour of the
run is a behaviour of one part, from every initial state of it. Of `stop_world` a
behaviour either has threads that call Python or has them register and end.

### 3.1 The bounds

* *Threads.* Two threads suffice for any race of the handshake with one collector,
  the third makes two compete for the lock, and one register or end, while another
  collects. What holds of any number is proved. The run has no symmetry, because
  it has liveness.
* *`MaxBlocking`* 2 has a region in a region: the case in which only the outermost
  one may save the context and test `stopping_world`. `main()`
  nests (`OneNests`), the others' regions are flat; the crossings of the GIL are not
  nested in the code.
* *Mark.* The heaps have a block with several children (work to hand over), shared
  blocks, cycles, a cycle through a deferred root, a block only Python reaches, and
  one that is never scanned. `MaxRounds` = 1 is a second collection after the
  first, with the tokens the first left on the semaphores.
* *Bridge.* Two addresses with one reference each give all cycles of one and of two
  blocks, in either heap and through both, and the reuse of an address. With
  `MaxRecorded` = 1 another thread's collection comes between the call of
  `hl_gc_major` and its lock. The proofs have no bound.
* *Allocator.* The cursor counts modulo 5, so that a page of 5 blocks is what a page
  of 65536 is to 16 bits; the sizes take 1 block of a page. Memory for 6 blocks is
  one such page, or two of 3. One unused block may be marked per collection,
  which is enough for a stale mark next to a free run. `CursorSuffices`
  leaves out one case, here and in the proofs: with `GC_PROFILE_MEM`, pages without
  sizes that have as many blocks as the cursor counts. Without sizes, a run of that
  many has the count 0, and it is read as empty if the page is flushed twice without
  an allocation in between, which only the statistics do; a stale mark then makes two
  runs that overlap. The run has statistics for pages with sizes only, the proofs for
  the others as well.

* *Threads that synchronise.* Two sleepers and one that wakes them, or one sleeper, one
  that is woken and one that takes what it was woken for: three threads have both.
  Two messages make a deque with two ends. What can meet in one object is explored
  together (`Mixes`): the deque, the lock, the two mutexes.
* *Hooks.* Six frames hold a hook of `f` that calls its original, in which `g` is hooked
  and calls its own, or an override, a conversion that calls, and an exception across
  any of them. Threads meet in the registry only, which changes at any moment here,
  so that one thread is enough. Four stubs make a chain longer than the two hops that
  `resolve_jmp_chain` follows here (8 in the code).
* *Structures.* A map grows from 1 entry to 2, 3 and 5 (`SizeInit`, `MaxEntries`). From 3 on
  its cells are ints: `Limit` and `CharRange` are 3 as both are 128 in the code. A map of 5
  has indexes that a signed char does not hold, the step from 2 to 3 changes the width,
  and those before and after it are between chars and between ints. Its ranges of free entries are split and merged. An object
  of three fields has values of 1, 2, 4 and 8 bytes, hence padding between them, and
  every change of layout. Its two virtuals declare, between them, each of the five
  cases of `should_recast`; one of the values cannot be cast, so that the first view may
  stop in the middle of its casts. Three files give every graph of dependencies up to
  three mods, duplicates, missing ones and files that are refused included.

`CHECK_DEADLOCK FALSE` stands where the system really may stop: a circular wait (of
the GIL; of the program's own locks, in `ThreadSync`), a crashed process (bridge),
exhausted memory and a full or failed structure, after the last collection (mark), a
stack of calls at its bound where Python code went on.

### 3.2 Fairness

* `StopWorld`: the steps of the runtime are straight-line code, hence weakly fair.
  A thread in HL code is assumed to call the runtime now and then: compiled code
  does not poll (`hl_gc_safepoint` has no caller in this tree), so a loop that never
  allocates nor blocks does hold up a collection. Nothing is assumed of a thread in
  a blocking region, nor of who gets the lock.
* `GilWorld`: in addition, a crossing is straight-line code, as is what `hlmod_api.c`
  does between `Py_BEGIN` and `Py_END_ALLOW_THREADS`, and a thread that waits for a GIL
  that is free again and again gets it (strong fairness of `TakeGil` and `RetakeGil`).
  Nothing is assumed of Python code: it may compute for ever, block for ever in a call
  that CPython gives the GIL up for (`GoAway`; `ComeBack` has no fairness), never
  allocate in HL's heap and never leave. `gc_blocking` is 0 meanwhile, so that a
  collection then never ends: `CollectionEndsOrStuck` says that nothing else holds
  one up for ever but the circular wait of `gil_deadlock`.
* `MarkThreads`: each marker is a thread that the operating system schedules. A
  new collection is never owed.
* `ForeignGC`: both collectors run again and again, and now and then Python's has
  the memory for its snapshot and covers all generations, as CPython's thresholds
  make it do in a program that allocates. The program itself is owed nothing: in
  `foreign_reclaim` it is at rest, from every graph it can have built.
* `ThreadSync`: the steps of the runtime are weakly fair, as in `StopWorld`, and HL code
  allocates again and again, so that it parks when another thread collects (strong
  fairness of `Park`: a thread in a blocking region comes and goes). No thread is owed
  a mutex, a message or a signal.
* The other modules have safety only: what they describe is sequential.

### 3.3 Where the code and what it says disagree

Each of these is a run with one property, quoted from the sources, that TLC finds
violated.

1. `stop_world_tso` (`gc.c:1123`). Neither side of the handshake orders its store
   before its load. A thread that leaves a blocking region can go on while the
   collector marks, although callbacks are documented to run with the world stopped.
2. `gil_deadlock` (`main.c:299`). `PyEval_RestoreThread` waits outside of
   `hl_blocking`; the same holds for `Py_END_ALLOW_THREADS` in `hlmod_api.c` and for
   CPython's own switches. The collector then waits for a thread that waits for
   the GIL its own thread holds.
3. `foreign_trace` (`hlmod_python.c:158`). A root's second trace goes on counting
   where the first ended; entries are read that were not recorded for it.
4. `allocator_full` (`gc.c:407`). The retry after a failed page allocation depends on
   a counter that a collection does not change.
5. `worker_stack` (`std/thread.c:858`). A thread registers the address of a heap block as
   the top of its stack, where `main()` gives that of a local variable; the range
   that is scanned is empty wherever the heap is mapped below the stacks.

Seen in the modules, without a run of their own: a dead peer is taken for a binding of
the new block at its address, and `bind_instance` refuses it (`hlmod_python.c:607`,
`BindRefused`); the message that `hl_deque_pop` has unlinked is in no place a mark looks
at until the call leaves its blocking region (`std/thread.c:677`, the second case of
`OnlyTheseAreMissed`); `hl_tls_set` frees its cell before it removes the root
(`std/thread.c:537`); a page of fixed blocks, as many as a cursor counts, lists its blocks twice after
two flushes without an allocation (`CursorSuffices`); natives that share a function share their hooks (`NativeHook`); in
the original of `f`, a call of `f` on an instance of a Python subclass skips its
override too, since the passthrough is tested first (`hlmod_jit_hook.c:19`).

## 4. What is proved

The proofs have no bound on threads, workers, blocks, nesting or references; they
rest on the named assumptions of the constants only (a thread is not `NoThread`,
`Main` is a thread, workers, blocks, messages and functions are finite sets, raw blocks have no
pointers; a page has at most as many blocks as a cursor counts, and fewer if its sizes
fit into its header; the maps' and the objects' are given below).

**`StopWorldProofs`.** `IInv` says of every thread where it is in `gc_global_lock`
or `hl_blocking`: only the owner of the lock is at a label under it (`LockOwned`);
from the increment to the decrement `gc_blocking` is raised (`LockRaised`); a raised
counter, or one about to be raised, has a saved context (`ContextSaved`); and
further parts tie the registry, the roots and the spin together. `WorldStopped` is
not inductive: that the threads the spin has passed stay blocked needs the test of
`stopping_world` to be ahead of each of them. From `IInv` follow `TypeOK`,
`WorldStopped`, `ScanSeesEveryThread`, `NothingDangling` and `RunningIsRegistered` (whoever runs HL code is one the collector waits for),
and that each step is a step of `StoppedWorld` or a stutter
(`ImplementsStoppedWorld`).

The second part of `StopWorldProofs` is about `GilWorld`. Every step with the GIL is a step of the handshake or leaves it
alone, so `IInv` is kept; `GilInv` adds who has the GIL and that a thread between
two `hl_blocking` calls of a crossing runs no HL code. From it: bracketed waits are
safe, the two locks have an order, and a circular wait always involves a bare wait
(`OnlyBareWaitsDeadlock`), which says that the bracketing is the whole remedy.

**`MarkThreadsProofs`.** The invariant says that a marked block waits on a stack or
has its pointers marked or in hand (`NothingLost`), that all that is marked comes
from the roots of the pass (`FromRoots`), that a worker whose bit is clear has
nothing in its hands (`Counted`), and where the tokens of the semaphores are
(`Tokens`, `Sharing`). When no bit is set, marked is the same as reachable
(`MarkIsExact`); the shares of `gc_dispatch_mark` always take all roots, which is its
assertion (`AssertionsHold`).

**`ForeignGCProofs`.** Reachability is used through four lemmas (it contains its
roots, is closed, is the least such set, and stays within its type). `BridgeInv`
ties registry and heaps; `ObservationHolds` and `SnapshotCovers` say that what was
observed of HL and recorded of each wrapper still covers what they reach: HL code
can only move references to what it already reaches, so its reach never grows but
by new blocks. `IdentityKept` needs both: Python's collector sees every reference
an instance in use hangs from, either as a strong reference or as an edge.

**`ThreadSyncProofs`.** For any number of threads and messages. `IInv` has who is in a
blocking region or under which lock (`Placed`, `Stopped`), who can have a message where
(`Carried`), that the nodes of the deque are linked one after the other (`QueueLinked`)
and that a message is in one place (`OnePlace`). `NoWaiterForgotten` is part of it: it says that while there is
something to take and somebody sleeps, somebody else is awake that will take it or
pass the signal on, and it is inductive only because both `hl_lock_wait` and
`hl_deque_pop` do pass it on. `OnlyTheseAreMissed` follows from `IInv`: a sender with a
message in hand is not in a blocking region, so it runs, and nobody runs during a mark.
The mapping of `DequeSpec` follows the links from `first` as often as there are
messages (`Chain`, a recursive function). `Linked(f, l, links, s)` says that the nodes `s`,
no two alike, are linked from `f` to `l` and that no other node has a link; the chain
then reads as `s` (`Reads`), for which `s` is no longer than there are messages. What
`hl_deque_add`, `hl_deque_push` and `hl_deque_pop` write to the links keeps them linked with
a node more or less at an end (`Appended`, `Pushed`, `Popped`), and these are the
steps of `AtomicDeque` (`ImplementsDeque`).

**`HookDispatchProofs`.** For any callbacks, any finite sets of threads and functions,
and any depth of calls. A step does one of five things to a thread's stack: the frame at the
top goes on, a frame is pushed, one is removed, an exception leaves several, or a
call that has its arguments enters HL; each part of `IInv` is shown for these.
`PassthroughMatches` numbers the frames that pass through by a cardinality (`Rank`), so
that no recursion over the stack is needed. `BypassHitsItsCall` is not
inductive: calls in progress have put aside the bypass they found, and will restore it.
`BypassWaits` says that every bypass, set or put aside, is for the call about to be
dispatched or for a function that is passed through, which does not take it.
`ReturnIsOwn` needs where the value of each dispatch is while destructors and
conversions run above it (`ReturnIsKept`): in the registers, or in the lowest call of
theirs that will restore it. `RefsExact` counts two sets, the slots and the dispatches
that run a callback.

The second part is about `NativeHook`, for any natives, any functions, any targets they
share, and any number of hops that `resolve_jmp_chain` follows. The processor's way is a
recursive function, so that the invariant speaks of the jumps instead: every
stub goes on with instructions that are no jump, behind a place that was there before it
and whose entry jumps to it (`StubsChained`). Hence no place is patched twice, the chain
from a function passes each stub at most once, ends at the last, comes back from stub to stub, and
is over within the steps that `Route` allows, with the body passed (`Arrives`). That a
stub is on the way from its native's function (`LeadsTo`: it is in every set that
contains the function and is closed under the jumps) stays true as stubs are added at the
end of a chain (`StillLeads`), which is where a jump chain resolves to when its end is
near enough; when it is not, the entry found is a jump and the installation is refused
(`Resolved`). `HookIsReached` has in its invariant that a native is hooked or recorded
only once it has such a stub. Functions and stubs are assumed to be different places.

**`StructureProofs`, the load order.** For any ids and any number of modules found. `OrderedSoFar` says
what the loop keeps: a counter is the number of dependencies that are not in the order
yet, what is ready is what has none, and each mod in the order has its dependencies
before it. `LoadsInOrder` follows: a cycle would have a first member in the order, whose
dependency in the cycle comes before it; and when nothing is ready and a mod is left,
each that is left has a dependency among them, which is a cycle. So the sort refuses what
has no order, and nothing else.

**`StructureProofs`, the hash map.** For any keys, values, initial size and primes
(`MapAssumption`: the keys are naturals, and for each size there is a prime that is large
enough, as `H_PRIMES` has). The free list is two sequences, of where its ranges begin and
end, apart and in order (`Spans`); a range added finds a gap (`Gap`) and joins the one
before, the one behind, both or none, and what is covered is what was and the new range
(`AddRangeKeeps`); what is taken was covered, and nothing else is taken (`GetTakes`). A
walk along `nexts` is a function of the number of steps (`Following`), and a chain what it
comes by until it ends (`ChainIs`); `Linked` has each entry in the chain of its key's
cell, once, and no two entries with one key. It is kept when an entry is put at the head
of a chain (`LinkedPush`) and when a chain is closed around one (`LinkedCut`). With it
`find` finds the entry of a key if there is one and ends (`FindIs`), the chains together
are the entries, each once (`ChainsTogether`), and a new entry has a key that no other
has. `MapInv` joins this with the free list: its ranges cover what is no entry
(`RestIsFree`). So a list that is empty means that every entry is used (`NoneLeft`, which
`resize` asserts), and new arrays are filled with one entry left at each step
(`RemapKeeps`). An index is stored whole (`StoredWhole`): a small map has fewer entries than
a signed char counts, and its arrays are copied as they are only where the width stays. What the map says is a relation (`Binds`): each operation changes it at
one key or not at all, which is the refinement (`MapIsAMap`). `EntriesAccounted` and
`MapSpec` are not inductive: they say nothing of which chain an entry is in.

**`StructureProofs`, dynamic objects.** For any names, values, pointer types and virtuals
(`ObjectAssumption`: names are naturals with a last one, as hashes are; a type is of
pointers or of raw data and not both; a virtual declares names and types there are; what a
torn read yields is no value; a cast yields a value or throws). `ObjectInv` says of the object that the indexes number
the pointers, and the orders all fields, from 0 on without a gap (`Numbered`); that raw data is
aligned, in its array and apart (`Placed`); that each virtual is the view one would make now
(`Follows`); and that every field holds one value, in all its cells (`Full`). An
operation is taken apart: a field added behind the others (`AddedIs`), an array that
moves with the addresses into it (`MovedAll`), a field looked up again (`RelookedAll`), one
erased with the indexes, orders and addresses above it lowered (`DeletedIs`), another type
in place (`RetypedValid`), a value stored (`StoreIs`). Packing is a loop over the names
with an invariant (`PackedTo`): what is packed is apart and holds what it held, what is
not packed is where it was (`PackedIs`, `PackedValid`); so is the object made for a
virtual (`MadeIs`), and so are the casts of the first view, in any order of its fields
(`RecastOne`, `RecastIs`): each is cast once, from what it held before the first of them. Of each,
`Keeps` says that the fields it does not name hold what they held, wherever they are
now; with it the object is the typed fields of `AbstractObject` (`ObjectIsTypedFields`): a set or a
delete changes one field, the first view those it casts, a later view none. The invariant is needed: that virtuals follow does
not imply that they do after a field is erased, unless the indexes are those of a packed array; and
`ObjectSpec` says nothing of a place that two fields share.

**`AllocatorProofs`.** For any pages, of any number of blocks. The flush is a loop over
a record (`bid`, the runs that are `left`, those of the new list), and the loop is a
recursive function (`Walk` in `Allocator`). Its invariant is `Valid`: as a rule the new
runs and those left are in order and apart, and what is behind `bid` is free, a listed
block or a marked object (`Normal`); the other two cases are a whole free page whose run
has the count 0, before and after it is passed (`AtStart`, `Full`). `Rest` falls in every round, so
that the rounds the model allows are enough (`Walks`, `Flushes`). The prover has no
induction scheme that it could instantiate; `Least`, that a set of naturals has a first
member, follows from the library's theorems of well-founded sets and does instead
(`Induction`, `Iteration` in `Recursion`). `FlushSound` says what the flush makes of a page.
`FlushExact` is close to it; `HeapIntact` and `FreeIsFree` are not inductive, since a
page waits for its flush with a list and sizes of which the blocks that died are part:
`IInv` has of every page that the runs that are still ahead are in order and touch no
object, dead or not (`Sound`), that what is used is marked while a flush is due, and
that a mark is on an object (`MarksHold`). The theorems are of `HeapSpec`, the
specification with `CursorSuffices` (3.1); without it `FreeIsFree` is false.

**Only model-checked**: liveness (`CollectionEndsOrStuck`, `CollectionEnds`, `MarkEnds`,
`Reclaimed`), which is out of the prover's reach; the runs that refute.

## 5. What is not modelled, and the plan

In the modules at hand: the unthreaded mode of the collector (`GC_NO_THREADS`), debug and
dump code; in the allocator large blocks, growth of pages and finalizers that
allocate; in the bridge callbacks as peers, resurrection by `__del__` and the
shutdown; several wrappers of one block (alike for both collectors). A thread in
`GilWorld` has crossings, not the work between them. In `ThreadSync` conditions,
semaphores and thread-local values; spurious wake-ups; and that a waiter that times out
may have consumed a signal; where `pthread_create` fails, `hl_thread_start` returns NULL and
has changed nothing. In `DynObj` what a cast does besides its result: the virtuals it makes of
other objects, the code of a class's `castFun`, and a field that refers to the object
itself, whose cast comes back to it; and virtuals of more than 63 fields, which the bits of
`need_recast` do not cover. In `HookDispatch` the values that are passed,
and Python code that raises a thread of its own; in `NativeHook` the decoding of
instructions and threads that execute an entry while it is patched.

Not modelled at all, in the order in which they would be next:

1. `Shutdown` (`main.c`, `hlmod_repl.c`, `hook_registry.c`, the shutdown of the bridge): the
   bounded stop of the REPL, and the order in which things go away under running
   workers. The code does not wait for workers, so that there is little to be proved
   before it does.
2. `HotReload` (`module.c`): functions patched under callers.
3. Classes (`hl_get_obj_rt`, `hl_get_obj_proto` in `obj.c`): layouts and prototypes made on
   first use, read without the lock.
4. The page map (`hl_is_gc_ptr`), large blocks.

The remaining components are listed in `PROJECT.json` with the reason: text generation,
wrappers of system calls, conversions case by case, a compiler, readers of files, and
the vendored libraries, which are most of the lines of the tree.

## 6. Running

`tlc -config MCGilWorld.cfg MCGilWorld`, and so on for the runs of
`PROJECT.json`; `tlapm StopWorldProofs.tla`, and so on for the modules of proofs.
The longest runs take two to three minutes, the longest proofs (`StructureProofs`) twelve.
