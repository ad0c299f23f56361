---------------------------- MODULE MarkThreads -----------------------------
(***************************************************************************)
(* The mark phase of src/src/gc.c: the collector pushes the roots on its   *)
(* mark stack, shares them out among the mark threads, and waits until no  *)
(* mark thread is active.  A mark thread scans the blocks of its stack,    *)
(* and now and then hands a part of it to the idle ones.  Once everything  *)
(* the program itself reaches is marked, the foreign (Python) bridge       *)
(* observes it, and the roots it had deferred are marked as well.          *)
(*                                                                         *)
(* A mark stack is a set: nothing depends on the order of its blocks.  The *)
(* world is stopped, so the heap does not change during a mark.            *)
(***************************************************************************)
EXTENDS Integers, FiniteSets

CONSTANTS
  Worker,      \* mark_threads
  Main,        \* the collector, with global_mark_stack
  Object,      \* allocated blocks
  Raw,         \* those in pages without pointers: marked, never scanned
  Heap,        \* the heaps to mark: of each block, the blocks it points to
  Roots,       \* blocks the roots and the stacks of the HL threads name
  Foreign,     \* blocks the deferred roots of the bridge name
  MaxRounds    \* bound on the number of collections

ASSUME WorkerAssumption == Main \notin Worker
ASSUME FiniteAssumption == IsFiniteSet(Worker) /\ IsFiniteSet(Object)
ASSUME RoundAssumption == MaxRounds \in Nat
ASSUME RootAssumption == Roots \subseteq Object /\ Foreign \subseteq Object
ASSUME HeapAssumption ==
  /\ Raw \subseteq Object
  /\ \A h \in Heap : h \in [Object -> SUBSET Object]
  /\ \A h \in Heap : \A o \in Raw : h[o] = {}

Marker == Worker \cup {Main}

VARIABLES
  points,               \* the heap
  bmp,                  \* the blocks whose mark bit is set
  stack,                \* mark stack of each marker
  cur,                  \* pointers of the block in hand still to visit
  mark_threads_active,  \* the workers whose bit is set
  ready,                \* semaphore of each worker
  mark_threads_done,    \* semaphore of the collector
  todo,                 \* the workers a dispatch loop has still to try
  count,                \* blocks it gives to each
  pc,
  foreign,              \* is this the pass over the deferred roots?
  observed,             \* what was marked when the bridge observed
  round

vars == <<points, bmp, stack, cur, mark_threads_active, ready,
          mark_threads_done, todo, count, pc, foreign, observed, round>>

Label == {"idle",     \* worker: waits for ready
          "flush",    \* gc_flush_mark: takes the next block
          "offer",    \* gc_dispatch_mark(stack, false)
          "scan",     \* gc_flush_mark: visits the pointers of the block
          "unset",    \* worker: its stack is empty
          "check",    \* worker: its bit is cleared
          "roots",    \* collector: clears the mark bits, pushes the roots
          "share",    \* gc_dispatch_mark(st, true), filling the stacks
          "release",  \* gc_dispatch_mark(st, true), releasing the workers
          "wait",     \* about to read mark_threads_active
          "acquire",  \* waits for mark_threads_done
          "end",      \* gc_mark is over
          "fatal"}    \* an assertion failed

TypeOK ==
  /\ points \in Heap
  /\ bmp \subseteq Object
  /\ stack \in [Marker -> SUBSET Object]
  /\ cur \in [Marker -> SUBSET Object]
  /\ mark_threads_active \subseteq Worker
  /\ ready \in [Worker -> Nat]
  /\ mark_threads_done \in Nat
  /\ todo \in [Marker -> SUBSET Worker]
  /\ count \in [Marker -> Nat]
  /\ pc \in [Marker -> Label]
  /\ foreign \in BOOLEAN
  /\ observed \subseteq Object
  /\ round \in 0..MaxRounds

Init ==
  /\ points \in Heap
  /\ bmp = {}
  /\ stack = [m \in Marker |-> {}]
  /\ cur = [m \in Marker |-> {}]
  /\ mark_threads_active = {}
  /\ ready = [w \in Worker |-> 0]
  /\ mark_threads_done = 0
  /\ todo = [m \in Marker |-> {}]
  /\ count = [m \in Marker |-> 0]
  /\ pc = [m \in Marker |-> IF m = Main THEN "roots" ELSE "idle"]
  /\ foreign = FALSE
  /\ observed = {}
  /\ round = 0

Goto(m, l) == pc' = [pc EXCEPT ![m] = l]

\* Blocks of a set that are pushed once marked (MEM_HAS_PTR).
Scannable(S) == S \ Raw
-----------------------------------------------------------------------------
(* gc_mark, on the collector.                                              *)

\* Mutant: the roots of the bridge are not deferred to the second pass.
PushRoots_NotDeferred ==
  /\ pc[Main] = "roots"
  /\ bmp' = Roots \cup Foreign
  /\ stack' = [stack EXCEPT ![Main] = Scannable(Roots \cup Foreign)]
  /\ Goto(Main, "share")
  /\ todo' = [todo EXCEPT ![Main] = Worker]
  /\ count' = [count EXCEPT ![Main] = Cardinality(Roots \cup Foreign)]
  /\ UNCHANGED <<points, cur, mark_threads_active, ready, mark_threads_done,
                 foreign, observed, round>>

\* The mark bits are cleared, and the blocks named by the roots and by the
\* stacks of the HL threads are marked and pushed.
PushRoots ==
  /\ pc[Main] = "roots"
  /\ bmp' = Roots
  /\ stack' = [stack EXCEPT ![Main] = Scannable(Roots)]
  /\ IF Worker = {} THEN Goto(Main, "flush") ELSE Goto(Main, "share")
  /\ todo' = [todo EXCEPT ![Main] = Worker]
  /\ count' = [count EXCEPT ![Main] =
       IF Worker = {} THEN 0
       ELSE (Cardinality(Scannable(Roots)) + Cardinality(Worker) - 1)
              \div Cardinality(Worker)]
  /\ UNCHANGED <<points, cur, mark_threads_active, ready, mark_threads_done,
                 foreign, observed, round>>

Least(a, b) == IF a < b THEN a ELSE b

\* gc_dispatch_mark(st, true): one worker's bit is set and it gets its share.
Share(w) ==
  /\ pc[Main] = "share"
  /\ count[Main] > 0
  /\ w \in todo[Main]
  /\ todo' = [todo EXCEPT ![Main] = @ \ {w}]
  /\ mark_threads_active' = mark_threads_active \cup {w}
  /\ IF stack[w] # {}
     THEN /\ Goto(Main, "fatal")
          /\ UNCHANGED stack
     ELSE /\ \E S \in SUBSET stack[Main] :
               /\ Cardinality(S) =
                    Least(count[Main], Cardinality(stack[Main]))
               /\ stack' = [stack EXCEPT ![w] = S, ![Main] = @ \ S]
          /\ UNCHANGED pc
  /\ UNCHANGED <<points, bmp, cur, ready, mark_threads_done, count, foreign,
                 observed, round>>

\* Every share is dealt out; without a root to scan, nobody gets one.
Shared ==
  /\ pc[Main] = "share"
  /\ \/ /\ count[Main] = 0
        /\ Goto(Main, "wait")
        /\ UNCHANGED todo
     \/ /\ count[Main] > 0
        /\ todo[Main] = {}
        /\ todo' = [todo EXCEPT ![Main] = Worker]
        /\ Goto(Main, "release")
  /\ UNCHANGED <<points, bmp, stack, cur, mark_threads_active, ready,
                 mark_threads_done, count, foreign, observed, round>>

\* The workers are released one by one, once all of them have their share.
Release(w) ==
  /\ pc[Main] = "release"
  /\ w \in todo[Main]
  /\ ready' = [ready EXCEPT ![w] = @ + 1]
  /\ todo' = [todo EXCEPT ![Main] = @ \ {w}]
  /\ UNCHANGED <<points, bmp, stack, cur, mark_threads_active,
                 mark_threads_done, count, pc, foreign, observed, round>>

\* The collector's stack must be empty now.
Released ==
  /\ pc[Main] = "release"
  /\ todo[Main] = {}
  /\ Goto(Main, IF stack[Main] = {} THEN "wait" ELSE "fatal")
  /\ UNCHANGED <<points, bmp, stack, cur, mark_threads_active, ready,
                 mark_threads_done, todo, count, foreign, observed, round>>

\* while( mark_threads_active ) hl_semaphore_acquire(mark_threads_done).
Wait ==
  /\ pc[Main] = "wait"
  /\ mark_threads_active # {}
  /\ Goto(Main, "acquire")
  /\ UNCHANGED <<points, bmp, stack, cur, mark_threads_active, ready,
                 mark_threads_done, todo, count, foreign, observed, round>>

AcquireDone ==
  /\ pc[Main] = "acquire"
  /\ mark_threads_done > 0
  /\ mark_threads_done' = mark_threads_done - 1
  /\ Goto(Main, "wait")
  /\ UNCHANGED <<points, bmp, stack, cur, mark_threads_active, ready, todo,
                 count, foreign, observed, round>>

\* No worker is active: every stack must be empty, the bridge observes what is
\* marked, and the collector marks and pushes the deferred roots.
Observe ==
  /\ pc[Main] = "wait"
  /\ ~ foreign
  /\ mark_threads_active = {}
  /\ \/ /\ \E w \in Worker : stack[w] # {}
        /\ Goto(Main, "fatal")
        /\ UNCHANGED <<bmp, stack, foreign, observed>>
     \/ /\ \A w \in Worker : stack[w] = {}
        /\ observed' = bmp
        /\ bmp' = bmp \cup Foreign
        /\ stack' = [stack EXCEPT ![Main] = Scannable(Foreign \ bmp)]
        /\ foreign' = TRUE
        /\ Goto(Main, "flush")
  /\ UNCHANGED <<points, cur, mark_threads_active, ready, mark_threads_done,
                 todo, count, round>>

\* The second pass is over.
MarkOver ==
  /\ pc[Main] = "wait"
  /\ foreign
  /\ mark_threads_active = {}
  /\ Goto(Main, "end")
  /\ UNCHANGED <<points, bmp, stack, cur, mark_threads_active, ready,
                 mark_threads_done, todo, count, foreign, observed, round>>

\* The program runs, and a later collection finds another heap.
Collect ==
  /\ pc[Main] = "end"
  /\ round < MaxRounds
  /\ round' = round + 1
  /\ points' \in Heap
  /\ foreign' = FALSE
  /\ observed' = {}
  /\ bmp' = {}
  /\ Goto(Main, "roots")
  /\ UNCHANGED <<stack, cur, mark_threads_active, ready, mark_threads_done,
                 todo, count>>
-----------------------------------------------------------------------------
(* gc_flush_mark, on a worker or on the collector.                         *)

\* The next block is taken off the stack.  Every 65536 blocks, from the first,
\* a part of the rest is offered to the idle workers.
Pop(m) ==
  /\ pc[m] = "flush"
  /\ \E o \in stack[m] :
       /\ stack' = [stack EXCEPT ![m] = @ \ {o}]
       /\ cur' = [cur EXCEPT ![m] = points[o]]
  /\ \/ /\ Goto(m, "scan")
        /\ UNCHANGED <<todo, count>>
     \/ LET idle == Cardinality(Worker \ mark_threads_active)
        IN  /\ idle > 0
            /\ count' = [count EXCEPT ![m] =
                           Cardinality(stack'[m]) \div (idle + 1)]
            /\ count'[m] > 0
            /\ todo' = [todo EXCEPT ![m] = Worker]
            /\ Goto(m, "offer")
  /\ UNCHANGED <<points, bmp, mark_threads_active, ready, mark_threads_done,
                 foreign, observed, round>>

\* Mutant: the bit of the worker is tested but not set.
Offer_NoBit(m, w) ==
  /\ pc[m] = "offer"
  /\ w \in todo[m]
  /\ todo' = [todo EXCEPT ![m] = @ \ {w}]
  /\ IF w \in mark_threads_active
     THEN UNCHANGED <<stack, ready, pc>>
     ELSE /\ \E S \in SUBSET stack[m] :
               /\ Cardinality(S) = Least(count[m], Cardinality(stack[m]))
               /\ stack' = [stack EXCEPT ![w] = S, ![m] = @ \ S]
          /\ ready' = [ready EXCEPT ![w] = @ + 1]
          /\ UNCHANGED pc
  /\ UNCHANGED <<points, bmp, cur, mark_threads_active, mark_threads_done,
                 count, foreign, observed, round>>

\* Mutant: the worker gets its share and is not released.
Offer_NoRelease(m, w) ==
  /\ pc[m] = "offer"
  /\ w \in todo[m]
  /\ todo' = [todo EXCEPT ![m] = @ \ {w}]
  /\ mark_threads_active' = mark_threads_active \cup {w}
  /\ IF w \in mark_threads_active
     THEN UNCHANGED stack
     ELSE \E S \in SUBSET stack[m] :
            /\ Cardinality(S) = Least(count[m], Cardinality(stack[m]))
            /\ stack' = [stack EXCEPT ![w] = S, ![m] = @ \ S]
  /\ UNCHANGED <<points, bmp, cur, ready, mark_threads_done, count, pc,
                 foreign, observed, round>>

\* Mutant: the worker's share stays on the stack of the giver.
Offer_KeepsShare(m, w) ==
  /\ pc[m] = "offer"
  /\ w \in todo[m]
  /\ todo' = [todo EXCEPT ![m] = @ \ {w}]
  /\ mark_threads_active' = mark_threads_active \cup {w}
  /\ IF w \in mark_threads_active
     THEN UNCHANGED <<stack, ready>>
     ELSE /\ stack' = [stack EXCEPT ![w] = stack[m]]
          /\ ready' = [ready EXCEPT ![w] = @ + 1]
  /\ UNCHANGED <<points, bmp, cur, mark_threads_done, count, pc, foreign,
                 observed, round>>

\* gc_dispatch_mark(stack, false): atomic_bit_set tells whether w is idle; an
\* idle one gets its share and is released.  Nobody else touches the stack of a
\* worker between the two, so they are one step.
Offer(m, w) ==
  /\ pc[m] = "offer"
  /\ w \in todo[m]
  /\ todo' = [todo EXCEPT ![m] = @ \ {w}]
  /\ mark_threads_active' = mark_threads_active \cup {w}
  /\ \/ /\ w \in mark_threads_active
        /\ UNCHANGED <<stack, ready, pc>>
     \/ /\ w \notin mark_threads_active
        /\ stack[w] # {}
        /\ Goto(m, "fatal")
        /\ UNCHANGED <<stack, ready>>
     \/ /\ w \notin mark_threads_active
        /\ stack[w] = {}
        /\ \E S \in SUBSET stack[m] :
             /\ Cardinality(S) = Least(count[m], Cardinality(stack[m]))
             /\ stack' = [stack EXCEPT ![w] = S, ![m] = @ \ S]
        /\ ready' = [ready EXCEPT ![w] = @ + 1]
        /\ UNCHANGED pc
  /\ UNCHANGED <<points, bmp, cur, mark_threads_done, count, foreign,
                 observed, round>>

Offered(m) ==
  /\ pc[m] = "offer"
  /\ todo[m] = {}
  /\ Goto(m, "scan")
  /\ UNCHANGED <<points, bmp, stack, cur, mark_threads_active, ready,
                 mark_threads_done, todo, count, foreign, observed, round>>

\* One pointer of the block in hand: atomic_bit_set of its mark bit says
\* whether this marker is the one to push it.
Visit(m) ==
  /\ pc[m] = "scan"
  /\ \E o \in cur[m] :
       /\ cur' = [cur EXCEPT ![m] = @ \ {o}]
       /\ bmp' = bmp \cup {o}
       /\ stack' = [stack EXCEPT ![m] = @ \cup Scannable({o} \ bmp)]
  /\ UNCHANGED <<points, mark_threads_active, ready, mark_threads_done, todo,
                 count, pc, foreign, observed, round>>

Scanned(m) ==
  /\ pc[m] = "scan"
  /\ cur[m] = {}
  /\ Goto(m, "flush")
  /\ UNCHANGED <<points, bmp, stack, cur, mark_threads_active, ready,
                 mark_threads_done, todo, count, foreign, observed, round>>

\* The stack is empty: gc_flush_mark returns.
Flushed(m) ==
  /\ pc[m] = "flush"
  /\ stack[m] = {}
  /\ Goto(m, IF m = Main THEN "wait" ELSE "unset")
  /\ UNCHANGED <<points, bmp, stack, cur, mark_threads_active, ready,
                 mark_threads_done, todo, count, foreign, observed, round>>
-----------------------------------------------------------------------------
(* mark_thread_main.                                                       *)

AcquireReady(w) ==
  /\ pc[w] = "idle"
  /\ ready[w] > 0
  /\ ready' = [ready EXCEPT ![w] = @ - 1]
  /\ Goto(w, "flush")
  /\ UNCHANGED <<points, bmp, stack, cur, mark_threads_active,
                 mark_threads_done, todo, count, foreign, observed, round>>

\* atomic_bit_unset: fatal if the bit was not set.
Unset(w) ==
  /\ pc[w] = "unset"
  /\ mark_threads_active' = mark_threads_active \ {w}
  /\ Goto(w, IF w \in mark_threads_active THEN "check" ELSE "fatal")
  /\ UNCHANGED <<points, bmp, stack, cur, ready, mark_threads_done, todo,
                 count, foreign, observed, round>>

\* The last one, or any that finds no bit set, wakes the collector.
Check(w) ==
  /\ pc[w] = "check"
  /\ mark_threads_done' = IF mark_threads_active = {}
                          THEN mark_threads_done + 1 ELSE mark_threads_done
  /\ Goto(w, "idle")
  /\ UNCHANGED <<points, bmp, stack, cur, mark_threads_active, ready, todo,
                 count, foreign, observed, round>>
-----------------------------------------------------------------------------
Collector ==
  \/ PushRoots
  \/ \E w \in Worker : Share(w) \/ Release(w)
  \/ Shared
  \/ Released
  \/ Wait
  \/ AcquireDone
  \/ Observe
  \/ MarkOver

Flush(m) ==
  \/ Pop(m)
  \/ \E w \in Worker : Offer(m, w)
  \/ Offered(m)
  \/ Visit(m)
  \/ Scanned(m)
  \/ Flushed(m)

MarkThread(w) == AcquireReady(w) \/ Unset(w) \/ Check(w)

Next ==
  \/ Collector
  \/ Collect
  \/ \E m \in Marker : Flush(m)
  \/ \E w \in Worker : MarkThread(w)

Spec == Init /\ [][Next]_vars

\* Every marker is an operating system thread the scheduler runs; nothing makes
\* the program collect again.
Fairness ==
  /\ WF_vars(Collector \/ Flush(Main))
  /\ \A w \in Worker : WF_vars(Flush(w) \/ MarkThread(w))

FairSpec == Spec /\ Fairness
-----------------------------------------------------------------------------
\* The blocks a set of blocks reaches: those in every set that contains it and
\* is closed under the pointers of the heap.
Closed(C) == \A o \in C : points[o] \subseteq C

Reach(S) == {o \in Object : \A C \in SUBSET Object :
                              S \subseteq C /\ Closed(C) => o \in C}

\* What the bridge observes is exactly what the program itself reaches, and
\* what is marked in the end is exactly what it or Python reaches: no block in
\* use is freed, none that is not stays (gc_mark).
MarksExactly ==
  /\ foreign => observed = Reach(Roots)
  /\ pc[Main] = "end" => bmp = Reach(Roots \cup Foreign)

\* None of the assertions of gc_dispatch_mark, gc_mark and mark_thread_main
\* fails, whatever the workers hand to each other.
NoAssertionFails == \A m \in Marker : pc[m] # "fatal"

\* A block is in the hands of one marker at a time, and a worker that has work
\* is one the collector waits for.
WorkIsCounted ==
  /\ \A m, n \in Marker : m # n => stack[m] \cap stack[n] = {}
  /\ \A w \in Worker : stack[w] \cup cur[w] # {} => w \in mark_threads_active

\* A mark ends: the wake-up of the collector is never lost.
MarkEnds == pc[Main] = "roots" ~> pc[Main] = "end"
-----------------------------------------------------------------------------
(* The inductive invariant.                                                *)

\* What the current pass marks from.
PassRoots == IF foreign THEN Roots \cup Foreign ELSE Roots

\* Where each marker can be, and what it has in its hands there.
Places ==
  /\ \A w \in Worker :
       pc[w] \in {"idle", "flush", "offer", "scan", "unset", "check"}
  /\ pc[Main] \notin {"idle", "unset", "check", "fatal"}
  /\ \A m \in Marker : pc[m] \notin {"offer", "scan"} => cur[m] = {}
  /\ \A w \in Worker : pc[w] = "unset" => stack[w] = {}
  /\ pc[Main] \in {"roots", "release", "wait", "acquire", "end"} =>
       stack[Main] = {}

\* A worker whose bit is clear has nothing and does nothing.
Counted ==
  \A w \in Worker \ mark_threads_active :
    stack[w] = {} /\ pc[w] \in {"idle", "check"}

\* The collector has filled the stack of w and not released it yet.
Unreleased(w) ==
  \/ pc[Main] = "share"
  \/ pc[Main] = "release" /\ w \in todo[Main]

\* A worker that was given its share and has not started has one token to
\* start with, and no other worker has any.
Tokens ==
  \A w \in Worker :
    ready[w] = IF /\ w \in mark_threads_active
                  /\ pc[w] \in {"idle", "check"}
                  /\ ~ Unreleased(w)
               THEN 1 ELSE 0

\* While the collector deals out the roots no worker runs, the ones it has
\* served are those whose bit is set, and what is left fits in the shares to
\* come.
Sharing ==
  /\ pc[Main] = "share" =>
       /\ \A w \in Worker : /\ pc[w] \in {"idle", "check"}
                            /\ w \in mark_threads_active <=> w \notin todo[Main]
       /\ Cardinality(stack[Main]) <= count[Main] * Cardinality(todo[Main])
       /\ count[Main] = 0 => todo[Main] = Worker
  /\ pc[Main] = "release" =>
       \A w \in todo[Main] :
         w \in mark_threads_active /\ pc[w] \in {"idle", "check"}

\* Between collections no worker is active.
Between ==
  /\ pc[Main] \in {"roots", "end"} => mark_threads_active = {}
  /\ pc[Main] = "roots" => bmp = {} /\ ~ foreign
  /\ pc[Main] = "end" => foreign

\* Everything marked comes from the roots of the pass.
FromRoots ==
  \A C \in SUBSET Object :
    PassRoots \subseteq C /\ Closed(C) =>
      /\ bmp \subseteq C
      /\ \A m \in Marker : cur[m] \subseteq C

\* A marked block waits on a stack, or its pointers are marked or about to be.
NothingLost ==
  /\ pc[Main] # "roots" => PassRoots \subseteq bmp
  /\ \A m \in Marker : stack[m] \subseteq bmp
  /\ \A o \in bmp :
       \/ \E m \in Marker : o \in stack[m]
       \/ \A p \in points[o] : p \in bmp \/ \E m \in Marker : p \in cur[m]

\* What the bridge observed.
Observed == foreign => observed = Reach(Roots)

IInv ==
  /\ TypeOK
  /\ Places
  /\ Counted
  /\ Tokens
  /\ Sharing
  /\ Between
  /\ FromRoots
  /\ NothingLost
  /\ Observed
=============================================================================
