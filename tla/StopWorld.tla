----------------------------- MODULE StopWorld ------------------------------
(***************************************************************************)
(* The stop-the-world handshake and the thread registry of src/src/gc.c.   *)
(*                                                                         *)
(* A registered thread runs HL code with gc_blocking = 0.  It raises       *)
(* gc_blocking around anything that may wait (hl_blocking) and whenever it *)
(* takes the collector's lock (gc_global_lock); before it does, it saves   *)
(* its registers and stack bounds (gc_save_context), which is all the      *)
(* collector can see of it.  A collector holds the lock, raises            *)
(* stopping_world and spins on every registered thread until its           *)
(* gc_blocking is not 0.  A thread that leaves a blocking region while the *)
(* world is being stopped parks on the lock.                               *)
(*                                                                         *)
(* Every statement that reads or writes a variable another thread reads is *)
(* a step of its own.  Steps are sequentially consistent here; module      *)
(* StopWorldTSO keeps the store buffers of the processors the code runs on.*)
(***************************************************************************)
EXTENDS Naturals

CONSTANTS
  Thread,        \* OS threads that may register with the collector
  NoThread,      \* the global lock's owner when it is free
  MaxBlocking    \* bound on nested hl_blocking(true) calls

ASSUME ThreadAssumption == NoThread \notin Thread
ASSUME BlockingAssumption == MaxBlocking \in Nat \ {0}

VARIABLES
  threads,         \* gc_threads.threads, as a set
  alive,           \* the threads whose hl_thread_info is allocated
  rooted,          \* of each slot, the threads whose slot is in gc_roots
  gc_blocking,     \* hl_thread_info.gc_blocking
  stopping_world,  \* gc_threads.stopping_world
  owner,           \* owner of gc_threads.global_lock
  unseen,          \* threads gc_stop_world has still to wait for
  fresh,           \* does the saved context hold all the thread's references?
  pc,              \* where each thread is
  job              \* what a thread in gc_global_lock took the lock for

vars == <<threads, alive, rooted, gc_blocking, stopping_world, owner, unseen,
          fresh, pc, job>>

Slot == {"exc_value", "exc_handler"}

\* The calls made under the lock.  reg1..reg3 and unreg1..unreg3 are the three
\* lock regions of hl_register_thread and of hl_unregister_thread.
Job == {"none", "alloc", "major", "park",
        "reg1", "reg2", "reg3", "unreg1", "unreg2", "unreg3"}

Label == {"absent",   \* not registered: current_thread is NULL
          "hl",       \* HL code, or a blocking call when gc_blocking > 0
          "enter",    \* hl_blocking(true), context saved
          "test",     \* hl_blocking(false), about to read stopping_world
          "save",     \* gc_global_lock(true), before gc_save_context
          "inc",      \* gc_global_lock(true), before gc_blocking++
          "acquire",  \* gc_global_lock(true), waiting for the lock
          "held",     \* owner of the lock, doing its job
          "stop",     \* gc_stop_world(true), spinning
          "mark",     \* gc_mark, with the world stopped
          "dec",      \* gc_global_lock(false), before gc_blocking--
          "release"}  \* before hl_mutex_release

\* Labels of a thread that owns the global lock.
Owning == {"held", "stop", "mark", "dec", "release"}

TypeOK ==
  /\ threads \subseteq Thread
  /\ alive \subseteq Thread
  /\ rooted \in [Slot -> SUBSET Thread]
  /\ gc_blocking \in [Thread -> Nat]
  /\ stopping_world \in BOOLEAN
  /\ owner \in Thread \cup {NoThread}
  /\ unseen \subseteq Thread
  /\ fresh \in [Thread -> BOOLEAN]
  /\ pc \in [Thread -> Label]
  /\ job \in [Thread -> Job]

Init ==
  /\ threads = {}
  /\ alive = {}
  /\ rooted = [s \in Slot |-> {}]
  /\ gc_blocking = [t \in Thread |-> 0]
  /\ stopping_world = FALSE
  /\ owner = NoThread
  /\ unseen = {}
  /\ fresh = [t \in Thread |-> FALSE]
  /\ pc = [t \in Thread |-> "absent"]
  /\ job = [t \in Thread |-> "none"]

Goto(t, l) == pc' = [pc EXCEPT ![t] = l]

\* HL code runs in t: it may read and write any heap reference.
RunsHL(t) == pc[t] = "hl" /\ gc_blocking[t] = 0
-----------------------------------------------------------------------------
(* HL code and the calls it makes into the runtime.                        *)

\* A step of HL code: references move to registers and stack slots the last
\* saved context does not have.
Mutate(t) ==
  /\ RunsHL(t)
  /\ fresh' = [fresh EXCEPT ![t] = FALSE]
  /\ UNCHANGED <<threads, alive, rooted, gc_blocking, stopping_world, owner,
                 unseen, pc, job>>

\* t calls gc_global_lock(true) for job j.
TakeLockFor(t, j) ==
  /\ job' = [job EXCEPT ![t] = j]
  /\ Goto(t, "save")
  /\ UNCHANGED <<threads, alive, rooted, gc_blocking, stopping_world, owner,
                 unseen, fresh>>

\* hl_gc_alloc_gen: HL objects are never allocated inside a blocking region.
Alloc(t) == RunsHL(t) /\ TakeLockFor(t, "alloc")

\* hl_gc_major.
Major(t) == pc[t] = "hl" /\ TakeLockFor(t, "major")

\* hl_gc_safepoint: waits for the lock only if the world is being stopped.
Safepoint(t) == RunsHL(t) /\ stopping_world /\ TakeLockFor(t, "park")

\* hl_register_thread: the thread info is allocated and zeroed, and the first
\* hl_add_root is about to take the lock.
RegisterThread(t) ==
  /\ pc[t] = "absent"
  /\ alive' = alive \cup {t}
  /\ gc_blocking' = [gc_blocking EXCEPT ![t] = 0]
  /\ job' = [job EXCEPT ![t] = "reg1"]
  /\ Goto(t, "save")
  /\ UNCHANGED <<threads, rooted, stopping_world, owner, unseen, fresh>>

\* Mutant: the thread info is freed with its slots still in gc_roots.
UnregisterThread_KeepRoots(t) == RunsHL(t) /\ TakeLockFor(t, "unreg3")

\* hl_unregister_thread: the first hl_remove_root is about to take the lock.
UnregisterThread(t) == RunsHL(t) /\ TakeLockFor(t, "unreg1")
-----------------------------------------------------------------------------
(* hl_blocking.                                                            *)

\* Mutant: a blocking region is entered on the context of an older one.
BlockingTrue_NoSave(t) ==
  /\ pc[t] = "hl"
  /\ gc_blocking[t] < MaxBlocking
  /\ gc_blocking' = [gc_blocking EXCEPT ![t] = @ + 1]
  /\ UNCHANGED <<threads, alive, rooted, stopping_world, owner, unseen, fresh,
                 pc, job>>

\* hl_blocking(true) from HL code: the context is saved before the counter
\* is raised; a nested call only raises the counter.
BlockingTrue(t) ==
  /\ pc[t] = "hl"
  /\ \/ /\ gc_blocking[t] = 0
        /\ fresh' = [fresh EXCEPT ![t] = TRUE]
        /\ Goto(t, "enter")
        /\ UNCHANGED gc_blocking
     \/ /\ 0 < gc_blocking[t] /\ gc_blocking[t] < MaxBlocking
        /\ gc_blocking' = [gc_blocking EXCEPT ![t] = @ + 1]
        /\ UNCHANGED <<fresh, pc>>
  /\ UNCHANGED <<threads, alive, rooted, stopping_world, owner, unseen, job>>

EnterBlocking(t) ==
  /\ pc[t] = "enter"
  /\ gc_blocking' = [gc_blocking EXCEPT ![t] = @ + 1]
  /\ Goto(t, "hl")
  /\ UNCHANGED <<threads, alive, rooted, stopping_world, owner, unseen, fresh,
                 job>>

\* hl_blocking(false): gc_blocking--, then a test of stopping_world when the
\* outermost region ends.
BlockingFalse(t) ==
  /\ pc[t] = "hl"
  /\ gc_blocking[t] > 0
  /\ gc_blocking' = [gc_blocking EXCEPT ![t] = @ - 1]
  /\ IF gc_blocking[t] = 1 THEN Goto(t, "test") ELSE UNCHANGED pc
  /\ UNCHANGED <<threads, alive, rooted, stopping_world, owner, unseen, fresh,
                 job>>

\* Mutant: a thread leaves its blocking region without reading stopping_world.
TestStopping_Skip(t) ==
  /\ pc[t] = "test"
  /\ Goto(t, "hl")
  /\ UNCHANGED <<threads, alive, rooted, gc_blocking, stopping_world, owner,
                 unseen, fresh, job>>

\* The test itself: back to HL code, or gc_global_lock(true) and (false).
TestStopping(t) ==
  /\ pc[t] = "test"
  /\ \/ /\ stopping_world
        /\ job' = [job EXCEPT ![t] = "park"]
        /\ Goto(t, "save")
     \/ /\ ~ stopping_world
        /\ Goto(t, "hl")
        /\ UNCHANGED job
  /\ UNCHANGED <<threads, alive, rooted, gc_blocking, stopping_world, owner,
                 unseen, fresh>>
-----------------------------------------------------------------------------
(* gc_global_lock.                                                         *)

SaveContext(t) ==
  /\ pc[t] = "save"
  /\ fresh' = [fresh EXCEPT ![t] = TRUE]
  /\ Goto(t, "inc")
  /\ UNCHANGED <<threads, alive, rooted, gc_blocking, stopping_world, owner,
                 unseen, job>>

LockBlocking(t) ==
  /\ pc[t] = "inc"
  /\ gc_blocking' = [gc_blocking EXCEPT ![t] = @ + 1]
  /\ Goto(t, "acquire")
  /\ UNCHANGED <<threads, alive, rooted, stopping_world, owner, unseen, fresh,
                 job>>

AcquireLock(t) ==
  /\ pc[t] = "acquire"
  /\ owner = NoThread
  /\ owner' = t
  /\ Goto(t, "held")
  /\ UNCHANGED <<threads, alive, rooted, gc_blocking, stopping_world, unseen,
                 fresh, job>>

UnlockBlocking(t) ==
  /\ pc[t] = "dec"
  /\ gc_blocking' = [gc_blocking EXCEPT ![t] = @ - 1]
  /\ Goto(t, "release")
  /\ UNCHANGED <<threads, alive, rooted, stopping_world, owner, unseen, fresh,
                 job>>

\* The lock region that follows in hl_register_thread, hl_unregister_thread.
Chained == {"reg1", "reg2", "unreg1", "unreg2"}

NextRegion(j) ==
  CASE j = "reg1" -> "reg2"
    [] j = "reg2" -> "reg3"
    [] j = "unreg1" -> "unreg2"
    [] j = "unreg2" -> "unreg3"

\* hl_mutex_release, then the caller goes on: with the next lock region of
\* (un)registration, or back to HL code.
ReleaseLock(t) ==
  /\ pc[t] = "release"
  /\ owner' = NoThread
  /\ \/ /\ job[t] \in Chained
        /\ job' = [job EXCEPT ![t] = NextRegion(job[t])]
        /\ Goto(t, "save")
     \/ /\ job[t] \notin Chained
        /\ job' = [job EXCEPT ![t] = "none"]
        /\ Goto(t, IF job[t] = "unreg3" THEN "absent" ELSE "hl")
  /\ UNCHANGED <<threads, alive, rooted, gc_blocking, stopping_world, unseen,
                 fresh>>
-----------------------------------------------------------------------------
(* What is done under the lock.                                            *)

SlotOf(j) == IF j \in {"reg1", "unreg1"} THEN "exc_value" ELSE "exc_handler"

\* hl_add_root and hl_remove_root of the two slots of the thread info.
RootSlots(t) ==
  /\ pc[t] = "held"
  /\ \/ /\ job[t] \in {"reg1", "reg2"}
        /\ rooted' = [rooted EXCEPT ![SlotOf(job[t])] = @ \cup {t}]
     \/ /\ job[t] \in {"unreg1", "unreg2"}
        /\ rooted' = [rooted EXCEPT ![SlotOf(job[t])] = @ \ {t}]
  /\ Goto(t, "dec")
  /\ UNCHANGED <<threads, alive, gc_blocking, stopping_world, owner, unseen,
                 fresh, job>>

\* hl_register_thread, third region: the thread joins the list.
JoinList(t) ==
  /\ pc[t] = "held"
  /\ job[t] = "reg3"
  /\ threads' = threads \cup {t}
  /\ Goto(t, "dec")
  /\ UNCHANGED <<alive, rooted, gc_blocking, stopping_world, owner, unseen,
                 fresh, job>>

\* hl_unregister_thread, third region: the thread leaves the list, its info is
\* freed, and the lock is released without touching gc_blocking.
LeaveList(t) ==
  /\ pc[t] = "held"
  /\ job[t] = "unreg3"
  /\ threads' = threads \ {t}
  /\ alive' = alive \ {t}
  /\ Goto(t, "release")
  /\ UNCHANGED <<rooted, gc_blocking, stopping_world, owner, unseen, fresh,
                 job>>

\* gc_major: stopping_world is raised.  An allocation collects when
\* gc_check_mark says so, and again when no page can be mapped.
StopWorldBegin(t) ==
  /\ pc[t] = "held"
  /\ job[t] \in {"alloc", "major"}
  /\ stopping_world' = TRUE
  /\ unseen' = threads
  /\ Goto(t, "stop")
  /\ UNCHANGED <<threads, alive, rooted, gc_blocking, owner, fresh, job>>

\* Mutant: the list is walked without waiting.
SpinPast_NoWait(t, u) ==
  /\ pc[t] = "stop"
  /\ u \in unseen
  /\ unseen' = unseen \ {u}
  /\ UNCHANGED <<threads, alive, rooted, gc_blocking, stopping_world, owner,
                 fresh, pc, job>>

\* gc_stop_world: the spin on one thread of the list ends.
SpinPast(t, u) ==
  /\ pc[t] = "stop"
  /\ u \in unseen
  /\ gc_blocking[u] # 0
  /\ unseen' = unseen \ {u}
  /\ UNCHANGED <<threads, alive, rooted, gc_blocking, stopping_world, owner,
                 fresh, pc, job>>

\* gc_mark starts: it reads every root and every saved context.
MarkBegin(t) ==
  /\ pc[t] = "stop"
  /\ unseen = {}
  /\ Goto(t, "mark")
  /\ UNCHANGED <<threads, alive, rooted, gc_blocking, stopping_world, owner,
                 unseen, fresh, job>>

\* gc_mark is over: gc_stop_world(false), still under the lock.
MarkEnd(t) ==
  /\ pc[t] = "mark"
  /\ stopping_world' = FALSE
  /\ IF job[t] = "major"
     THEN Goto(t, "dec")
     ELSE Goto(t, "held")
  /\ UNCHANGED <<threads, alive, rooted, gc_blocking, owner, unseen, fresh, job>>

\* An allocation is served, or the lock was only taken to wait.
JobDone(t) ==
  /\ pc[t] = "held"
  /\ job[t] \in {"alloc", "park"}
  /\ Goto(t, "dec")
  /\ UNCHANGED <<threads, alive, rooted, gc_blocking, stopping_world, owner,
                 unseen, fresh, job>>
-----------------------------------------------------------------------------
Collector(t) ==
  \/ StopWorldBegin(t)
  \/ \E u \in Thread : SpinPast(t, u)
  \/ MarkBegin(t)
  \/ MarkEnd(t)

Runtime(t) ==
  \/ EnterBlocking(t)
  \/ TestStopping(t)
  \/ SaveContext(t)
  \/ LockBlocking(t)
  \/ AcquireLock(t)
  \/ RootSlots(t)
  \/ JoinList(t)
  \/ LeaveList(t)
  \/ JobDone(t)
  \/ UnlockBlocking(t)
  \/ ReleaseLock(t)

Program(t) ==
  \/ Mutate(t)
  \/ Alloc(t)
  \/ Major(t)
  \/ Safepoint(t)
  \/ RegisterThread(t)
  \/ UnregisterThread(t)
  \/ BlockingTrue(t)
  \/ BlockingFalse(t)

Next == \E t \in Thread : Collector(t) \/ Runtime(t) \/ Program(t)

Spec == Init /\ [][Next]_vars

(***************************************************************************)
(* Fairness.  The runtime's own steps are straight-line code.  A thread    *)
(* that runs HL code is assumed to keep calling the runtime: the compiled  *)
(* code polls nothing by itself (hl_gc_safepoint has no caller in the      *)
(* tree), so a loop that never allocates, blocks or polls does hold up a   *)
(* collection for as long as it runs.  Nothing is assumed of a thread      *)
(* inside a blocking region, nor of who wins the lock.                     *)
(***************************************************************************)
EntersRuntime(t) ==
  /\ RunsHL(t)
  /\ \/ Alloc(t)
     \/ Major(t)
     \/ Safepoint(t)
     \/ BlockingTrue(t)
     \/ UnregisterThread(t)

Fairness ==
  \A t \in Thread :
    /\ WF_vars(Collector(t) \/ Runtime(t))
    /\ WF_vars(EntersRuntime(t))

FairSpec == Spec /\ Fairness
-----------------------------------------------------------------------------
\* While a collector marks, no other thread runs HL code, so no reference moves
\* under it (gc_stop_world, gc_mark).
WorldStopped ==
  \A c \in Thread : pc[c] = "mark" => \A t \in Thread : ~ RunsHL(t)

\* While a collector marks, the context it reads of every registered thread is
\* newer than the last HL step of that thread: gc_save_context always comes
\* before the gc_blocking++ that lets the collector go on.
ScanSeesEveryThread ==
  \A c \in Thread : pc[c] = "mark" => \A t \in threads : fresh[t]

\* The collector only reads memory that is allocated: the thread list and the
\* roots never name a freed hl_thread_info, and the threads it still waits for
\* are registered ones.
NothingDangling ==
  /\ threads \cup unseen \subseteq alive
  /\ \A s \in Slot : rooted[s] \subseteq alive

\* A thread that runs HL code is one the collector waits for, and its pending
\* exception and handler are roots.
RunningIsRegistered ==
  \A t \in Thread :
    pc[t] = "hl" => t \in threads /\ \A s \in Slot : t \in rooted[s]

\* The handshake implements the abstract stopped world.
World == INSTANCE StoppedWorld WITH
           running <- {t \in Thread : RunsHL(t)},
           marking <- \E c \in Thread : pc[c] = "mark"

WorldSpec == World!ASpec
-----------------------------------------------------------------------------
(***************************************************************************)
(* The inductive invariant.  Busy is a thread between the call of          *)
(* gc_global_lock(true) and the return of gc_global_lock(false).           *)
(***************************************************************************)
Busy == {"save", "inc", "acquire", "held", "stop", "mark", "dec", "release"}

\* The labels of a lock region in which its job is not done, and done.
Before == {"save", "inc", "acquire", "held"}
After == {"dec", "release"}

\* A thread that makes an ordinary call, not a registration.
Ordinary(t) ==
  \/ pc[t] \in {"hl", "enter", "test"}
  \/ pc[t] \in Busy /\ job[t] \in {"alloc", "major", "park"}

\* Only the owner of the lock is at a label that owns it.
LockOwned == \A t \in Thread : pc[t] \in Owning <=> owner = t

\* gc_blocking is raised from the increment of gc_global_lock to its decrement.
LockRaised ==
  \A t \in Thread :
    pc[t] \in {"acquire", "held", "stop", "mark", "dec"} => gc_blocking[t] > 0

\* A raised gc_blocking, or one about to be raised, has a saved context.
ContextSaved ==
  \A t \in Thread :
    gc_blocking[t] > 0 \/ pc[t] \in {"enter", "inc"} => fresh[t]

\* Which jobs the thread's place allows.
JobFits ==
  \A t \in Thread :
    /\ pc[t] \in {"stop", "mark"} => job[t] \in {"alloc", "major"}
    /\ pc[t] \in Busy => job[t] # "none"
    /\ pc[t] = "dec" => job[t] # "unreg3"

\* A thread is in the list from the end of its registration to the start of its
\* removal, whatever it calls in between.
Listed ==
  \A t \in Thread :
    t \in threads <=>
      \/ Ordinary(t)
      \/ pc[t] \in Busy /\ job[t] \in {"unreg1", "unreg2"}
      \/ pc[t] \in Before /\ job[t] = "unreg3"
      \/ pc[t] \in After /\ job[t] = "reg3"

\* Its info is allocated before, and freed under the lock after.
Allocated ==
  \A t \in Thread :
    t \in alive <=>
      pc[t] # "absent" /\ ~ (pc[t] = "release" /\ job[t] = "unreg3")

\* The roots of its two slots cover the time it is in the list and running.
ValueRooted ==
  \A t \in Thread :
    t \in rooted["exc_value"] <=>
      \/ Ordinary(t)
      \/ pc[t] \in After /\ job[t] = "reg1"
      \/ pc[t] \in Busy /\ job[t] \in {"reg2", "reg3"}
      \/ pc[t] \in Before /\ job[t] = "unreg1"

HandlerRooted ==
  \A t \in Thread :
    t \in rooted["exc_handler"] <=>
      \/ Ordinary(t)
      \/ pc[t] \in After /\ job[t] = "reg2"
      \/ pc[t] \in Busy /\ job[t] \in {"reg3", "unreg1"}
      \/ pc[t] \in Before /\ job[t] = "unreg2"

\* What the spin has established so far: a thread the collector went past, or
\* never had to wait for, runs no HL code and has a saved context.
Passed ==
  \A c \in Thread :
    pc[c] \in {"stop", "mark"} =>
      /\ stopping_world
      /\ \A t \in Thread \ unseen :
           ~ RunsHL(t) /\ (t \in threads => fresh[t])

\* The threads still waited for are registered, and there are none unless a
\* collector spins.
Waiting ==
  /\ unseen \subseteq threads
  /\ \A t \in unseen : \E c \in Thread : pc[c] = "stop"

IInv ==
  /\ TypeOK
  /\ LockOwned
  /\ LockRaised
  /\ ContextSaved
  /\ JobFits
  /\ Listed
  /\ Allocated
  /\ ValueRooted
  /\ HandlerRooted
  /\ Passed
  /\ Waiting
=============================================================================
