---------------------------- MODULE StopWorldTSO ----------------------------
(***************************************************************************)
(* The handshake of StopWorld on processors with store buffers (the total  *)
(* store order of x86, which is what the JIT of this program targets).     *)
(* gc_blocking is a volatile int and stopping_world a plain bool: neither  *)
(* is atomic and no fence separates the store of one from the load of the  *)
(* other, so a store may still sit in its thread's buffer when the thread  *)
(* performs the following load.  The operations of a mutex are locked      *)
(* instructions: they complete with an empty buffer.                       *)
(*                                                                         *)
(* gc_blocking and stopping_world of StopWorld are what their writer has   *)
(* stored; the mem_ variables are what the other threads read.             *)
(***************************************************************************)
EXTENDS StopWorld, Sequences

CONSTANT MaxBuffer   \* bound on the stores a thread has pending

VARIABLES
  mem_blocking,      \* gc_blocking of each thread, in memory
  mem_stopping,      \* stopping_world, in memory
  buffer             \* pending stores of each thread, oldest first

tsoVars == <<vars, mem_blocking, mem_stopping, buffer>>

InitTSO ==
  /\ Init
  /\ mem_blocking = gc_blocking
  /\ mem_stopping = stopping_world
  /\ buffer = [t \in Thread |-> <<>>]

\* The stores that t's step makes to the two shared variables.
Stores(t) ==
  (IF gc_blocking'[t] # gc_blocking[t]
   THEN <<[var |-> "gc_blocking", val |-> gc_blocking'[t]]>> ELSE <<>>) \o
  (IF stopping_world' # stopping_world
   THEN <<[var |-> "stopping_world", val |-> stopping_world']>> ELSE <<>>)

\* A step of t that loads neither variable, its stores going to the buffer.
Buffered(t, A) ==
  /\ A
  /\ buffer' = [buffer EXCEPT ![t] = @ \o Stores(t)]
  /\ Len(buffer'[t]) <= MaxBuffer
  /\ UNCHANGED <<mem_blocking, mem_stopping>>

\* A locked instruction of t.
Locked(t, A) == buffer[t] = <<>> /\ Buffered(t, A)

\* The oldest pending store of t reaches memory.
Drain(t) ==
  /\ buffer[t] # <<>>
  /\ LET s == Head(buffer[t])
     IN  \/ /\ s.var = "gc_blocking"
            /\ mem_blocking' = [mem_blocking EXCEPT ![t] = s.val]
            /\ UNCHANGED mem_stopping
         \/ /\ s.var = "stopping_world"
            /\ mem_stopping' = s.val
            /\ UNCHANGED mem_blocking
  /\ buffer' = [buffer EXCEPT ![t] = Tail(@)]
  /\ UNCHANGED vars

\* hl_blocking(false) and hl_gc_safepoint load stopping_world from memory.
TestStoppingTSO(t) ==
  /\ pc[t] = "test"
  /\ IF mem_stopping
     THEN /\ job' = [job EXCEPT ![t] = "park"]
          /\ Goto(t, "save")
     ELSE /\ Goto(t, "hl")
          /\ UNCHANGED job
  /\ UNCHANGED <<threads, alive, rooted, gc_blocking, stopping_world, owner,
                 unseen, fresh>>

SafepointTSO(t) == RunsHL(t) /\ mem_stopping /\ TakeLockFor(t, "park")

\* The spin loads gc_blocking of another thread from memory, and the
\* collector's own from its buffer.
SpinPastTSO(t, u) ==
  /\ pc[t] = "stop"
  /\ u \in unseen
  /\ IF u = t THEN gc_blocking[u] # 0 ELSE mem_blocking[u] # 0
  /\ unseen' = unseen \ {u}
  /\ UNCHANGED <<threads, alive, rooted, gc_blocking, stopping_world, owner,
                 fresh, pc, job>>

NextTSO ==
  \E t \in Thread :
    \/ Drain(t)
    \/ Locked(t, AcquireLock(t) \/ ReleaseLock(t))
    \/ Buffered(t, TestStoppingTSO(t) \/ SafepointTSO(t))
    \/ \E u \in Thread : Buffered(t, SpinPastTSO(t, u))
    \/ Buffered(t, \/ StopWorldBegin(t) \/ MarkBegin(t) \/ MarkEnd(t)
                   \/ EnterBlocking(t) \/ SaveContext(t) \/ LockBlocking(t)
                   \/ RootSlots(t) \/ JoinList(t) \/ LeaveList(t)
                   \/ JobDone(t) \/ UnlockBlocking(t) \/ Mutate(t)
                   \/ Alloc(t) \/ Major(t) \/ RegisterThread(t)
                   \/ UnregisterThread(t) \/ BlockingTrue(t)
                   \/ BlockingFalse(t))

SpecTSO == InitTSO /\ [][NextTSO]_tsoVars
=============================================================================
