----------------------------- MODULE ThreadSync ------------------------------
(***************************************************************************)
(* What HL threads synchronise with (src/src/std/thread.c), over the       *)
(* stopped world: a deque of messages, a lock (a counter with a condition  *)
(* variable), a mutex that announces its waits to the collector, the       *)
(* exclusive lock of the runtime, which does not, and the start of a       *)
(* thread.  There is one of each.                                          *)
(*                                                                         *)
(* The handshake is what StoppedWorld promises of it: a thread that is in  *)
(* a blocking region, or parked, does not go on while a collector has or   *)
(* wants the world stopped, and a collector marks once no thread runs.     *)
(* A step under a pthread mutex is one step from its lock to its unlock    *)
(* or to the wait; the waits for the mutex are labels of their own.        *)
(***************************************************************************)
EXTENDS Naturals, Sequences, FiniteSets

CONSTANTS
  Thread,     \* the threads of the process
  Main,       \* the one that registers itself, in main()
  NoThread,   \* no thread: a mutex is free, nobody collects
  Msg,        \* heap blocks that are sent from thread to thread
  NoMsg,      \* NULL
  MaxCount,   \* bound on the counter of the lock, and on the nesting of the mutex
  Programs    \* the sets of operations that HL programs make use of

ASSUME MainAssumption == Main \in Thread /\ NoThread \notin Thread
ASSUME MsgAssumption == NoMsg \notin Msg /\ IsFiniteSet(Msg)
ASSUME CountAssumption == MaxCount \in Nat

\* What a program may or may not use: messages, the three operations on a deque,
\* the two on a lock, the two kinds of mutex.
Operation ==
  {"new", "add", "push", "pop", "release", "wait", "mutex", "global"}

ASSUME ProgramsAssumption == Programs \subseteq SUBSET Operation

VARIABLES
  ops,         \* the operations that this program makes use of
  pc,          \* where each thread is
  registered,  \* gc_threads.threads, as a set
  blocked,     \* the threads in a blocking region
  collector,   \* the thread that stops, or has stopped, the world
  held,        \* of each thread, the messages its HL code has on its stack
  hand,        \* of each thread, the message a deque call has in hand
  patient,     \* does the call wait for ever? (no timeout; block = true)
  first, last, next,  \* the deque: its ends, and tqueue.next of each message
  qlock,       \* owner of hl_deque.lock
  counter,     \* hl_lock.counter
  llock,       \* owner of hl_lock.lock
  owner,       \* owner of a mutex that HL code made: is_gc is set
  depth,       \* how often it has it: the mutex is recursive
  exclusive,   \* owner of gc_threads.exclusive_lock: is_gc is not set
  starter,     \* of each thread, the one that waits for it to start
  param        \* of each thread, what its thread_start block refers to

world == <<registered, blocked, collector>>
deque == <<first, last, next, qlock>>
lock == <<counter, llock>>
mutex == <<owner, depth>>
start == <<starter, param>>
state == <<pc, world, held, hand, patient, deque, lock, mutex, exclusive, start>>
vars == <<ops, state>>

Label ==
  {"off", "entry", "registered", "hl", "ended",     \* a thread's life
   "parked", "collect", "mark",                     \* the collector's lock
   "add_lock", "add_in", "push_lock", "push_in",    \* hl_deque_add, _push
   "pop_lock", "pop_in", "pop_sleep", "pop_out",    \* hl_deque_pop
   "rel_lock", "rel_in",                            \* hl_lock_release
   "wait_lock", "wait_in", "wait_sleep",            \* hl_lock_wait
   "late_lock", "wait_out",                         \* ... and its timeout
   "mutex_lock", "mutex_out",                       \* hl_mutex_acquire
   "excl_lock", "excl_in",                          \* hl_global_lock
   "created", "starting"}                           \* hl_thread_start

TypeOK ==
  /\ ops \in Programs
  /\ pc \in [Thread -> Label]
  /\ registered \subseteq Thread
  /\ blocked \subseteq Thread
  /\ {collector, qlock, llock, owner, exclusive} \subseteq Thread \cup {NoThread}
  /\ held \in [Thread -> SUBSET Msg]
  /\ {first, last} \subseteq Msg \cup {NoMsg}
  /\ hand \in [Thread -> Msg \cup {NoMsg}]
  /\ param \in [Thread -> Msg \cup {NoMsg}]
  /\ next \in [Msg -> Msg \cup {NoMsg}]
  /\ patient \in [Thread -> BOOLEAN]
  /\ counter \in Nat
  /\ depth \in Nat /\ (depth = 0 <=> owner = NoThread)
  /\ starter \in [Thread -> Thread \cup {NoThread}]

Init ==
  /\ ops \in Programs
  /\ pc = [t \in Thread |-> IF t = Main THEN "hl" ELSE "off"]
  /\ registered = {Main}
  /\ blocked = {}
  /\ collector = NoThread
  /\ held = [t \in Thread |-> {}]
  /\ hand = [t \in Thread |-> NoMsg]
  /\ patient = [t \in Thread |-> TRUE]
  /\ first = NoMsg
  /\ last = NoMsg
  /\ next = [m \in Msg |-> NoMsg]
  /\ qlock = NoThread
  /\ counter = 0
  /\ llock = NoThread
  /\ owner = NoThread
  /\ depth = 0
  /\ exclusive = NoThread
  /\ starter = [t \in Thread |-> NoThread]
  /\ param = [t \in Thread |-> NoMsg]

At(t, l) == pc[t] = l
Goto(t, l) == pc' = [pc EXCEPT ![t] = l]
Move(t, from, to) == At(t, from) /\ Goto(t, to)

\* A registered thread that runs on: it is not in a blocking region, and does
\* not wait for, or have, the collector's lock.
Runs(t) ==
  /\ t \in registered \ blocked
  /\ pc[t] \notin {"parked", "collect", "mark"}
-----------------------------------------------------------------------------
(* The stopped world.                                                      *)

\* hl_gc_major, or an allocation that collects: the thread stops the world.
Collect(t) ==
  /\ Move(t, "hl", "collect")
  /\ collector = NoThread
  /\ collector' = t
  /\ UNCHANGED <<registered, blocked, held, hand, patient, deque, lock, mutex,
                 exclusive, start>>

\* Another thread collects: an allocation waits for the collector's lock.
Park(t) ==
  /\ Move(t, "hl", "parked")
  /\ collector # NoThread
  /\ UNCHANGED <<world, held, hand, patient, deque, lock, mutex, exclusive,
                 start>>

Unpark(t) ==
  /\ Move(t, "parked", "hl")
  /\ collector = NoThread
  /\ UNCHANGED <<world, held, hand, patient, deque, lock, mutex, exclusive,
                 start>>

Mark(t) ==
  /\ Move(t, "collect", "mark")
  /\ \A u \in Thread : ~ Runs(u)
  /\ UNCHANGED <<world, held, hand, patient, deque, lock, mutex, exclusive,
                 start>>

MarkEnd(t) ==
  /\ Move(t, "mark", "hl")
  /\ collector' = NoThread
  /\ UNCHANGED <<registered, blocked, held, hand, patient, deque, lock, mutex,
                 exclusive, start>>

\* hl_blocking(true) on the way to label l.
Block(t, l) ==
  /\ Move(t, "hl", l)
  /\ blocked' = blocked \cup {t}
  /\ UNCHANGED <<registered, collector>>

\* hl_blocking(false): not while the world is, or is being, stopped.
Unblock(t) ==
  /\ collector = NoThread
  /\ blocked' = blocked \ {t}
  /\ Goto(t, "hl")
  /\ UNCHANGED <<registered, collector>>
-----------------------------------------------------------------------------
(* HL code.                                                                *)

\* The messages something in the process refers to.
Sent == {m \in Msg : m = first \/ m = last \/ \E n \in Msg : next[n] = m}
Used(m) ==
  \/ m \in Sent
  \/ \E t \in Thread : m \in held[t] \/ m \in {hand[t], param[t]}

\* HL code makes a message.
New(t) ==
  /\ At(t, "hl")
  /\ collector = NoThread
  /\ \E m \in Msg :
       /\ ~ Used(m)
       /\ held' = [held EXCEPT ![t] = @ \cup {m}]
  /\ UNCHANGED <<pc, world, hand, patient, deque, lock, mutex, exclusive, start>>

Forget(t) ==
  /\ At(t, "hl")
  /\ \E m \in held[t] : held' = [held EXCEPT ![t] = @ \ {m}]
  /\ UNCHANGED <<pc, world, hand, patient, deque, lock, mutex, exclusive, start>>
-----------------------------------------------------------------------------
(* The deque.  A message stands for its tqueue node.                       *)

\* pthread_mutex_lock(&q->lock): a thread that waits here to add or push runs,
\* as far as the collector can see; one that waits to pop is blocked.
LockQueue(t, from, to) ==
  /\ Move(t, from, to)
  /\ qlock = NoThread
  /\ qlock' = t
  /\ UNCHANGED <<world, held, hand, patient, first, last, next, lock, mutex,
                 exclusive, start>>

\* Mutant: the signal is left out.
SignalQueue_None(p) == pc' = p

\* pthread_cond_signal(&q->wait), with pc otherwise becoming p: one sleeper, if
\* there is one, is woken and waits for the mutex again.
SignalQueue(p) ==
  LET asleep == {u \in Thread : p[u] = "pop_sleep"} IN
  \/ asleep = {} /\ pc' = p
  \/ \E u \in asleep : pc' = [p EXCEPT ![u] = "pop_lock"]

\* hl_deque_add and hl_deque_push allocate the node, with the message on the
\* stack; HL code is assumed to send a message once.
Send(t, l) ==
  /\ Move(t, "hl", l)
  /\ collector = NoThread
  /\ \E m \in held[t] :
       /\ held' = [held EXCEPT ![t] = @ \ {m}]
       /\ hand' = [hand EXCEPT ![t] = m]
  /\ UNCHANGED <<world, patient, deque, lock, mutex, exclusive, start>>

\* Mutant: the link of the last node is not set.
Add_NoLink(t) ==
  /\ At(t, "add_in")
  /\ next' = [next EXCEPT ![hand[t]] = NoMsg]
  /\ first' = IF last = NoMsg THEN hand[t] ELSE first
  /\ last' = hand[t]
  /\ qlock' = NoThread
  /\ hand' = [hand EXCEPT ![t] = NoMsg]
  /\ SignalQueue([pc EXCEPT ![t] = "hl"])
  /\ UNCHANGED <<world, held, patient, lock, mutex, exclusive, start>>

\* hl_deque_add: at the end.
Add(t) ==
  /\ At(t, "add_in")
  /\ next' = [m \in Msg |-> IF m = hand[t] THEN NoMsg
                            ELSE IF m = last THEN hand[t] ELSE next[m]]
  /\ first' = IF last = NoMsg THEN hand[t] ELSE first
  /\ last' = hand[t]
  /\ qlock' = NoThread
  /\ hand' = [hand EXCEPT ![t] = NoMsg]
  /\ SignalQueue([pc EXCEPT ![t] = "hl"])
  /\ UNCHANGED <<world, held, patient, lock, mutex, exclusive, start>>

\* hl_deque_push: at the front.
Push(t) ==
  /\ At(t, "push_in")
  /\ next' = [next EXCEPT ![hand[t]] = first]
  /\ first' = hand[t]
  /\ last' = IF last = NoMsg THEN hand[t] ELSE last
  /\ qlock' = NoThread
  /\ hand' = [hand EXCEPT ![t] = NoMsg]
  /\ SignalQueue([pc EXCEPT ![t] = "hl"])
  /\ UNCHANGED <<world, held, patient, lock, mutex, exclusive, start>>

\* hl_deque_pop(q, block).
PopCall(t) ==
  /\ Block(t, "pop_lock")
  /\ \E b \in BOOLEAN : patient' = [patient EXCEPT ![t] = b]
  /\ UNCHANGED <<held, hand, deque, lock, mutex, exclusive, start>>

\* Mutant: the last message leaves q->last behind.
Pop_KeepLast(t) ==
  /\ At(t, "pop_in")
  /\ first # NoMsg
  /\ hand' = [hand EXCEPT ![t] = first]
  /\ first' = next[first]
  /\ next' = [next EXCEPT ![first] = NoMsg]
  /\ qlock' = NoThread
  /\ IF next[first] = NoMsg
     THEN Goto(t, "pop_out")
     ELSE SignalQueue([pc EXCEPT ![t] = "pop_out"])
  /\ UNCHANGED <<world, held, patient, last, lock, mutex, exclusive, start>>

\* The message is unlinked, a sleeper is woken if there are more, unlock.  (The
\* node goes with it: nothing reads its next any more.)
Pop(t) ==
  /\ At(t, "pop_in")
  /\ first # NoMsg
  /\ hand' = [hand EXCEPT ![t] = first]
  /\ first' = next[first]
  /\ next' = [next EXCEPT ![first] = NoMsg]
  /\ qlock' = NoThread
  /\ IF next[first] = NoMsg
     THEN last' = NoMsg /\ Goto(t, "pop_out")
     ELSE UNCHANGED last /\ SignalQueue([pc EXCEPT ![t] = "pop_out"])
  /\ UNCHANGED <<world, held, patient, lock, mutex, exclusive, start>>

\* The deque is empty: pthread_cond_wait, or unlock and return NULL.
PopEmpty(t) ==
  /\ At(t, "pop_in")
  /\ first = NoMsg
  /\ qlock' = NoThread
  /\ Goto(t, IF patient[t] THEN "pop_sleep" ELSE "pop_out")
  /\ UNCHANGED <<world, held, hand, patient, first, last, next, lock, mutex,
                 exclusive, start>>

\* hl_blocking(false), and the message is returned to HL code.
PopReturn(t) ==
  /\ At(t, "pop_out")
  /\ Unblock(t)
  /\ held' = [held EXCEPT ![t] = @ \cup ({hand[t]} \ {NoMsg})]
  /\ hand' = [hand EXCEPT ![t] = NoMsg]
  /\ patient' = [patient EXCEPT ![t] = TRUE]
  /\ UNCHANGED <<deque, lock, mutex, exclusive, start>>
-----------------------------------------------------------------------------
(* The lock.                                                               *)

LockLock(t, from, to) ==
  /\ Move(t, from, to)
  /\ llock = NoThread
  /\ llock' = t
  /\ UNCHANGED <<world, held, hand, patient, deque, counter, mutex, exclusive,
                 start>>

\* pthread_cond_signal(&l->wait).
SignalLock(p) ==
  LET asleep == {u \in Thread : p[u] = "wait_sleep"} IN
  \/ asleep = {} /\ pc' = p
  \/ \E u \in asleep : pc' = [p EXCEPT ![u] = "wait_lock"]

ReleaseCall(t) ==
  /\ Move(t, "hl", "rel_lock")
  /\ counter < MaxCount
  /\ UNCHANGED <<world, held, hand, patient, deque, lock, mutex, exclusive,
                 start>>

\* hl_lock_release.
LockRelease(t) ==
  /\ At(t, "rel_in")
  /\ counter' = counter + 1
  /\ llock' = NoThread
  /\ SignalLock([pc EXCEPT ![t] = "hl"])
  /\ UNCHANGED <<world, held, hand, patient, deque, mutex, exclusive, start>>

\* hl_lock_wait(l, timeout).
WaitCall(t) ==
  /\ Block(t, "wait_lock")
  /\ \E b \in BOOLEAN : patient' = [patient EXCEPT ![t] = b]
  /\ UNCHANGED <<held, hand, deque, lock, mutex, exclusive, start>>

\* The counter is above zero: it is lowered, and the signal passed on.
LockTake(t) ==
  /\ At(t, "wait_in")
  /\ counter > 0
  /\ counter' = counter - 1
  /\ llock' = NoThread
  /\ IF counter > 1
     THEN SignalLock([pc EXCEPT ![t] = "wait_out"])
     ELSE Goto(t, "wait_out")
  /\ UNCHANGED <<world, held, hand, patient, deque, mutex, exclusive, start>>

LockSleep(t) ==
  /\ Move(t, "wait_in", "wait_sleep")
  /\ counter = 0
  /\ llock' = NoThread
  /\ UNCHANGED <<world, held, hand, patient, deque, counter, mutex, exclusive,
                 start>>

\* pthread_cond_timedwait gives up, gets the mutex back, and false is returned
\* whatever the counter has become.
LockTimeout(t) ==
  /\ Move(t, "wait_sleep", "late_lock")
  /\ ~ patient[t]
  /\ UNCHANGED <<world, held, hand, patient, deque, lock, mutex, exclusive,
                 start>>

LockLate(t) ==
  /\ Move(t, "late_lock", "wait_out")
  /\ llock = NoThread
  /\ UNCHANGED <<world, held, hand, patient, deque, lock, mutex, exclusive,
                 start>>

WaitReturn(t) ==
  /\ At(t, "wait_out")
  /\ Unblock(t)
  /\ patient' = [patient EXCEPT ![t] = TRUE]
  /\ UNCHANGED <<held, hand, deque, lock, mutex, exclusive, start>>
-----------------------------------------------------------------------------
(* The two kinds of mutex.                                                 *)

MayNest(t) == owner = t => depth < MaxCount

\* Mutant: the wait is not announced.
MutexCall_Bare(t) ==
  /\ Move(t, "hl", "mutex_lock")
  /\ MayNest(t)
  /\ UNCHANGED <<world, held, hand, patient, deque, lock, mutex, exclusive,
                 start>>

\* hl_mutex_acquire of a mutex with is_gc, by its owner perhaps.
MutexCall(t) ==
  /\ Block(t, "mutex_lock")
  /\ MayNest(t)
  /\ UNCHANGED <<held, hand, patient, deque, lock, mutex, exclusive, start>>

MutexLock(t) ==
  /\ Move(t, "mutex_lock", "mutex_out")
  /\ owner \in {NoThread, t}
  /\ owner' = t /\ depth' = depth + 1
  /\ UNCHANGED <<world, held, hand, patient, deque, lock, exclusive, start>>

MutexReturn(t) ==
  /\ At(t, "mutex_out")
  /\ Unblock(t)
  /\ UNCHANGED <<held, hand, patient, deque, lock, mutex, exclusive, start>>

\* hl_mutex_try_acquire; when another thread has the mutex nothing happens.
MutexTry(t) ==
  /\ At(t, "hl")
  /\ owner \in {NoThread, t} /\ MayNest(t)
  /\ owner' = t /\ depth' = depth + 1
  /\ UNCHANGED <<pc, world, held, hand, patient, deque, lock, exclusive, start>>

MutexRelease(t) ==
  /\ At(t, "hl")
  /\ owner = t
  /\ depth' = depth - 1
  /\ owner' = IF depth = 1 THEN NoThread ELSE t
  /\ UNCHANGED <<pc, world, held, hand, patient, deque, lock, exclusive, start>>

\* hl_global_lock(true): is_gc is not set, the wait is not announced.
GlobalLockCall(t) ==
  /\ Move(t, "hl", "excl_lock")
  /\ UNCHANGED <<world, held, hand, patient, deque, lock, mutex, exclusive,
                 start>>

GlobalLock(t) ==
  /\ Move(t, "excl_lock", "excl_in")
  /\ exclusive = NoThread
  /\ exclusive' = t
  /\ UNCHANGED <<world, held, hand, patient, deque, lock, mutex, start>>

\* What is done under it (hl_get_obj_rt, hl_get_obj_proto) never calls the
\* collector; then hl_global_lock(false).
GlobalUnlock(t) ==
  /\ Move(t, "excl_in", "hl")
  /\ exclusive' = NoThread
  /\ UNCHANGED <<world, held, hand, patient, deque, lock, mutex, start>>
-----------------------------------------------------------------------------
(* Threads.                                                                *)

\* hl_thread_start(hl_run_thread, c, true): the closure c is in a block that
\* only the caller's frame and the new thread refer to.  (Where pthread_create
\* fails NULL is returned, and the block is dropped as it was made: no step.)
ThreadStart(t, u) ==
  /\ At(u, "off")
  /\ collector = NoThread
  /\ \E m \in held[t] \cup {NoMsg} :
       /\ param' = [param EXCEPT ![u] = m]
       /\ held' = [held EXCEPT ![t] = @ \ {m}]
  /\ starter' = [starter EXCEPT ![u] = t]
  /\ At(t, "hl")
  /\ pc' = [pc EXCEPT ![t] = "created", ![u] = "entry"]
  /\ UNCHANGED <<world, hand, patient, deque, lock, mutex, exclusive>>

\* The caller, which runs on beside the new thread, waits for the start lock.
StartWait(t) ==
  /\ Move(t, "created", "starting")
  /\ blocked' = blocked \cup {t}
  /\ UNCHANGED <<registered, collector, held, hand, patient, deque, lock, mutex,
                 exclusive, start>>

\* gc_thread_entry: hl_register_thread waits for a collection to end.
Register(u) ==
  /\ Move(u, "entry", "registered")
  /\ collector = NoThread
  /\ registered' = registered \cup {u}
  /\ UNCHANGED <<blocked, collector, held, hand, patient, deque, lock, mutex,
                 exclusive, start>>

\* The start lock is released, and callb(param) called.
Entry(u) ==
  /\ Move(u, "registered", "hl")
  /\ held' = [held EXCEPT ![u] = @ \cup ({param[u]} \ {NoMsg})]
  /\ param' = [param EXCEPT ![u] = NoMsg]
  /\ UNCHANGED <<world, hand, patient, deque, lock, mutex, exclusive, starter>>

\* The caller comes back from its wait for the start lock.
Started(t) ==
  /\ At(t, "starting")
  /\ \E u \in Thread :
       /\ starter[u] = t
       /\ pc[u] \notin {"entry", "registered"}
       /\ starter' = [starter EXCEPT ![u] = NoThread]
  /\ Unblock(t)
  /\ UNCHANGED <<held, hand, patient, deque, lock, mutex, exclusive, param>>

\* callb returns, hl_unregister_thread; a mutex that the thread has stays locked.
ThreadEnd(u) ==
  /\ u # Main
  /\ Move(u, "hl", "ended")
  /\ collector = NoThread
  /\ registered' = registered \ {u}
  /\ held' = [held EXCEPT ![u] = {}]
  /\ UNCHANGED <<blocked, collector, hand, patient, deque, lock, mutex,
                 exclusive, start>>
-----------------------------------------------------------------------------
\* Steps of the runtime, which come without being asked for.
Runtime(t) ==
  \/ Unpark(t) \/ Mark(t) \/ MarkEnd(t)
  \/ LockQueue(t, "add_lock", "add_in") \/ Add(t)
  \/ LockQueue(t, "push_lock", "push_in") \/ Push(t)
  \/ LockQueue(t, "pop_lock", "pop_in") \/ Pop(t) \/ PopEmpty(t) \/ PopReturn(t)
  \/ LockLock(t, "rel_lock", "rel_in") \/ LockRelease(t)
  \/ LockLock(t, "wait_lock", "wait_in") \/ LockTake(t) \/ LockSleep(t)
  \/ LockTimeout(t) \/ LockLate(t) \/ WaitReturn(t)
  \/ MutexLock(t) \/ MutexReturn(t)
  \/ GlobalLock(t) \/ GlobalUnlock(t)
  \/ StartWait(t) \/ Register(t) \/ Entry(t) \/ Started(t)

\* Steps that HL code may take.
Program(t) ==
  \/ Collect(t) \/ Park(t) \/ Forget(t) \/ MutexRelease(t) \/ ThreadEnd(t)
  \/ \E u \in Thread : ThreadStart(t, u)
  \/ "new" \in ops /\ New(t)
  \/ "add" \in ops /\ Send(t, "add_lock")
  \/ "push" \in ops /\ Send(t, "push_lock")
  \/ "pop" \in ops /\ PopCall(t)
  \/ "release" \in ops /\ ReleaseCall(t)
  \/ "wait" \in ops /\ WaitCall(t)
  \/ "mutex" \in ops /\ (MutexCall(t) \/ MutexTry(t))
  \/ "global" \in ops /\ GlobalLockCall(t)

Next ==
  /\ \E t \in Thread : Runtime(t) \/ Program(t)
  /\ UNCHANGED ops

Spec == Init /\ [][Next]_vars

(***************************************************************************)
(* Fairness.  The steps of the runtime are straight-line code, and the     *)
(* pthread primitives wake who they say.  HL code calls the allocator      *)
(* again and again, hence parks when another thread collects: as in        *)
(* StopWorld, a loop that never does would hold up a collection.           *)
(***************************************************************************)
Fairness ==
  \A t \in Thread : WF_state(Runtime(t)) /\ SF_state(Park(t))

FairSpec == Spec /\ Fairness
-----------------------------------------------------------------------------
(***************************************************************************)
(* What a mark finds (gc_mark, gc_mark_stack).  hl_register_thread is      *)
(* given the address of a local variable by main(), but the address of the *)
(* heap block _s by gc_thread_entry: stack_cur is not below it where the   *)
(* heap is mapped below the stacks, as on Linux (base_addr), and the stack *)
(* of such a thread is not scanned.  A message in hand of a deque call is  *)
(* in a register, newer than the context that hl_blocking saved.           *)
(***************************************************************************)
StackScanned(t) == t = Main

InQueue == {m \in Msg : m = first \/ \E n \in Msg : next[n] = m}

Found ==
  {m \in Msg :
     \/ m \in InQueue
     \/ \E t \in registered : StackScanned(t) /\ m \in held[t]
     \/ \E u \in Thread : StackScanned(starter[u]) /\ m = param[u]}

Marking == \E t \in Thread : At(t, "mark")

\* gc.c:873, "scan threads stacks & registers": the messages that the HL code of
\* a registered thread has on its stack are found when the heap is marked.
HeldIsFound ==
  Marking => \A t \in registered : held[t] \subseteq Found

\* All that a mark misses is on the stack of a thread other than main(), or in
\* hand of hl_deque_pop between the unlinking and hl_blocking(false): a sender
\* is never stopped with a message in hand, nor is a message that waits in the
\* deque, however its links are moved about, out of the collector's reach.
OnlyTheseAreMissed ==
  Marking =>
    \A m \in Msg :
      Used(m) /\ m \notin Found =>
        \E t \in Thread :
          \/ ~ StackScanned(t) /\ m \in held[t]
          \/ ~ StackScanned(t) /\ \E u \in Thread : starter[u] = t /\ m = param[u]
          \/ At(t, "pop_out") /\ m = hand[t]

\* No lost wake-up, of the lock and of the deque: while there is something to
\* take, whoever sleeps for it will be woken, since some thread is awake that
\* takes it or passes the signal on.
NoWaiterForgotten ==
  /\ counter > 0 /\ (\E t \in Thread : At(t, "wait_sleep")) =>
       \E t \in Thread : pc[t] \in {"wait_lock", "wait_in"}
  /\ first # NoMsg /\ (\E t \in Thread : At(t, "pop_sleep")) =>
       \E t \in Thread : pc[t] \in {"pop_lock", "pop_in"}

\* A collection that is asked for takes place and ends, whoever holds or waits
\* for which of the locks.
CollectionEnds == collector # NoThread ~> collector = NoThread
-----------------------------------------------------------------------------
\* The links of the deque, read as a sequence: from each node, the first n.
Chain(links) ==
  LET chain[n \in Nat] ==
        [m \in Msg \cup {NoMsg} |->
           IF m = NoMsg \/ n = 0 THEN <<>> ELSE <<m>> \o chain[n - 1][links[m]]]
  IN chain
Items == Chain(next)[Cardinality(Msg)][first]

\* Of each thread, the message it is about to send, and the one it has taken.
Outgoing == [t \in Thread |-> IF At(t, "pop_out") THEN NoMsg ELSE hand[t]]
Incoming == [t \in Thread |-> IF At(t, "pop_out") THEN hand[t] ELSE NoMsg]

Deque == INSTANCE AtomicDeque WITH
           items <- Items, sent <- Outgoing, received <- Incoming

\* The linked nodes with their two ends are a double-ended queue: what is added
\* comes out once, in order, to whoever is first under the mutex.
DequeSpec == Deque!ASpec
-----------------------------------------------------------------------------
(* The inductive invariant.                                                *)

Asleep == {"pop_lock", "pop_in", "pop_sleep", "pop_out", "wait_lock", "wait_in",
           "wait_sleep", "late_lock", "wait_out", "mutex_lock", "mutex_out",
           "starting"}
Sending == {"add_lock", "add_in", "push_lock", "push_in"}

\* A thread is in the list while it lives, in a blocking region where it may have
\* to wait for another, and has the collector's lock while it collects.
Placed ==
  /\ Main \in registered
  /\ \A t \in Thread :
       /\ t \in registered <=> pc[t] \notin {"off", "entry", "ended"}
       /\ t \in blocked <=> pc[t] \in Asleep
       /\ collector = t <=> pc[t] \in {"collect", "mark"}

\* The world is stopped while it is marked.
Stopped == Marking => \A t \in Thread : ~ Runs(t)

\* Who can have a message where.
Carried ==
  \A t \in Thread :
    /\ pc[t] \in Sending => hand[t] \in Msg
    /\ hand[t] # NoMsg => pc[t] \in Sending \cup {"pop_out"}
    /\ held[t] # {} => t \in registered
    /\ param[t] # NoMsg =>
         pc[t] \in {"entry", "registered"} /\ starter[t] \in Thread

\* The nodes that the deque is made of, in order: every link is one of theirs.
Linked(f, l, links, s) ==
  /\ s \in Seq(Msg) /\ \A i, j \in DOMAIN s : s[i] = s[j] => i = j
  /\ f = IF s = <<>> THEN NoMsg ELSE s[1]
  /\ l = IF s = <<>> THEN NoMsg ELSE s[Len(s)]
  /\ \A i \in DOMAIN s : links[s[i]] = IF i = Len(s) THEN NoMsg ELSE s[i + 1]
  /\ \A m \in Msg : links[m] # NoMsg => \E i \in DOMAIN s : m = s[i]
QueueLinked == Linked(first, last, next, Items)

\* A message is in one place.
OnePlace ==
  /\ \A t \in Thread : {hand[t], param[t]} \cap InQueue = {} /\ held[t] \cap InQueue = {}
  /\ \A t, u \in Thread :
       /\ {hand[t], param[t]} \cap held[u] = {}
       /\ hand[t] # NoMsg => hand[t] # param[u]
       /\ t # u =>
            /\ held[t] \cap held[u] = {}
            /\ hand[t] # NoMsg => hand[t] # hand[u]
            /\ param[t] # NoMsg => param[t] # param[u]

IInv ==
  /\ TypeOK
  /\ Placed
  /\ Stopped
  /\ Carried
  /\ QueueLinked
  /\ OnePlace
  /\ NoWaiterForgotten
=============================================================================
