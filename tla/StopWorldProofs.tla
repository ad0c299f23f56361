-------------------------- MODULE StopWorldProofs --------------------------
(***************************************************************************)
(* Proofs about the stop-the-world handshake of StopWorld, for every set   *)
(* of threads.  The argument: gc_blocking is raised only on a saved        *)
(* context (ContextSaved), so a thread the spin goes past is stopped and   *)
(* scannable; it stays so because the only ways back to HL code are the    *)
(* lock, which the collector holds (LockOwned), and the test of            *)
(* stopping_world, which is set (Passed).                                  *)
(*                                                                         *)
(* The last part is about HL threads that call Python (GilWorld).  Every   *)
(* step of GilWorld is a step of StopWorld or leaves its variables alone,  *)
(* so the handshake's inductive invariant carries over; what is new is     *)
(* whose the GIL is and that a bracketed wait keeps gc_blocking raised     *)
(* from hl_blocking(true) to hl_blocking(false).                           *)
(***************************************************************************)
EXTENDS GilWorld, TLAPS

USE ThreadAssumption, BlockingAssumption DEF Goto, RunsHL, IInv

(* The inductive invariant holds before any thread registers. *)
LEMMA InitIInv == Init => IInv
<1> SUFFICES ASSUME Init
             PROVE  IInv
  OBVIOUS
<1> USE DEF Init
<1>1. TypeOK
  BY DEF TypeOK, Label, Job, Slot
<1>2. LockOwned /\ LockRaised /\ ContextSaved /\ JobFits
  BY DEF LockOwned, LockRaised, ContextSaved, JobFits, Owning, Busy
<1>3. Listed /\ Allocated /\ ValueRooted /\ HandlerRooted
  BY DEF Listed, Allocated, ValueRooted, HandlerRooted, Ordinary, Busy,
     Before, After, Slot
<1>4. Passed /\ Waiting
  BY DEF Passed, Waiting
<1> QED
  BY <1>1, <1>2, <1>3, <1>4

(* Every step of every thread preserves the inductive invariant: under each
   action, the types, then the lock and the counter, then the registry, then
   what the spin has established. *)
LEMMA NextIInv == IInv /\ [Next]_vars => IInv'
<1> SUFFICES ASSUME IInv, [Next]_vars
             PROVE  IInv'
  OBVIOUS
<1>1. ASSUME NEW t \in Thread, Mutate(t)
      PROVE  IInv'
  <2>1. TypeOK'
    BY <1>1 DEF Mutate, TypeOK, LockRaised, Label, Job, Slot, SlotOf
  <2>2. LockOwned' /\ LockRaised' /\ ContextSaved' /\ JobFits'
    BY <1>1 DEF Mutate, TypeOK, LockOwned, LockRaised, ContextSaved, JobFits,
       Owning, Busy, Label, Job
  <2>3. Listed' /\ Allocated' /\ ValueRooted' /\ HandlerRooted'
    BY <1>1 DEF Mutate, TypeOK, Listed, Allocated, ValueRooted,
       HandlerRooted, JobFits, Ordinary, Busy, Before, After, Slot, SlotOf
  <2>4. Passed' /\ Waiting'
    BY <1>1 DEF Mutate, TypeOK, Passed, Waiting, LockOwned, Owning,
       ContextSaved, Listed, JobFits, Ordinary, Busy, Before, After
  <2> QED
    BY <2>1, <2>2, <2>3, <2>4
<1>2. ASSUME NEW t \in Thread, Alloc(t)
      PROVE  IInv'
  <2>1. TypeOK'
    BY <1>2 DEF Alloc, TakeLockFor, TypeOK, LockRaised, Label, Job, Slot,
       SlotOf
  <2>2. LockOwned' /\ LockRaised' /\ ContextSaved' /\ JobFits'
    BY <1>2 DEF Alloc, TakeLockFor, TypeOK, LockOwned, LockRaised,
       ContextSaved, JobFits, Owning, Busy, Label, Job
  <2>3. Listed' /\ Allocated' /\ ValueRooted' /\ HandlerRooted'
    BY <1>2 DEF Alloc, TakeLockFor, TypeOK, Listed, Allocated, ValueRooted,
       HandlerRooted, JobFits, Ordinary, Busy, Before, After, Slot, SlotOf
  <2>4. Passed' /\ Waiting'
    BY <1>2 DEF Alloc, TakeLockFor, TypeOK, Passed, Waiting, LockOwned,
       Owning, ContextSaved, Listed, JobFits, Ordinary, Busy, Before, After
  <2> QED
    BY <2>1, <2>2, <2>3, <2>4
<1>3. ASSUME NEW t \in Thread, Major(t)
      PROVE  IInv'
  <2>1. TypeOK'
    BY <1>3 DEF Major, TakeLockFor, TypeOK, LockRaised, Label, Job, Slot,
       SlotOf
  <2>2. LockOwned' /\ LockRaised' /\ ContextSaved' /\ JobFits'
    BY <1>3 DEF Major, TakeLockFor, TypeOK, LockOwned, LockRaised,
       ContextSaved, JobFits, Owning, Busy, Label, Job
  <2>3. Listed' /\ Allocated' /\ ValueRooted' /\ HandlerRooted'
    BY <1>3 DEF Major, TakeLockFor, TypeOK, Listed, Allocated, ValueRooted,
       HandlerRooted, JobFits, Ordinary, Busy, Before, After, Slot, SlotOf
  <2>4. Passed' /\ Waiting'
    BY <1>3 DEF Major, TakeLockFor, TypeOK, Passed, Waiting, LockOwned,
       Owning, ContextSaved, Listed, JobFits, Ordinary, Busy, Before, After
  <2> QED
    BY <2>1, <2>2, <2>3, <2>4
<1>4. ASSUME NEW t \in Thread, Safepoint(t)
      PROVE  IInv'
  <2>1. TypeOK'
    BY <1>4 DEF Safepoint, TakeLockFor, TypeOK, LockRaised, Label, Job, Slot,
       SlotOf
  <2>2. LockOwned' /\ LockRaised' /\ ContextSaved' /\ JobFits'
    BY <1>4 DEF Safepoint, TakeLockFor, TypeOK, LockOwned, LockRaised,
       ContextSaved, JobFits, Owning, Busy, Label, Job
  <2>3. Listed' /\ Allocated' /\ ValueRooted' /\ HandlerRooted'
    BY <1>4 DEF Safepoint, TakeLockFor, TypeOK, Listed, Allocated,
       ValueRooted, HandlerRooted, JobFits, Ordinary, Busy, Before, After,
       Slot, SlotOf
  <2>4. Passed' /\ Waiting'
    BY <1>4 DEF Safepoint, TakeLockFor, TypeOK, Passed, Waiting, LockOwned,
       Owning, ContextSaved, Listed, JobFits, Ordinary, Busy, Before, After
  <2> QED
    BY <2>1, <2>2, <2>3, <2>4
<1>5. ASSUME NEW t \in Thread, RegisterThread(t)
      PROVE  IInv'
  <2>1. TypeOK'
    BY <1>5 DEF RegisterThread, TypeOK, LockRaised, Label, Job, Slot, SlotOf
  <2>2. LockOwned' /\ LockRaised' /\ ContextSaved' /\ JobFits'
    BY <1>5 DEF RegisterThread, TypeOK, LockOwned, LockRaised, ContextSaved,
       JobFits, Owning, Busy, Label, Job
  <2>3. Listed' /\ Allocated' /\ ValueRooted' /\ HandlerRooted'
    BY <1>5 DEF RegisterThread, TypeOK, Listed, Allocated, ValueRooted,
       HandlerRooted, JobFits, Ordinary, Busy, Before, After, Slot, SlotOf
  <2>4. Passed' /\ Waiting'
    BY <1>5 DEF RegisterThread, TypeOK, Passed, Waiting, LockOwned, Owning,
       ContextSaved, Listed, JobFits, Ordinary, Busy, Before, After
  <2> QED
    BY <2>1, <2>2, <2>3, <2>4
<1>6. ASSUME NEW t \in Thread, UnregisterThread(t)
      PROVE  IInv'
  <2>1. TypeOK'
    BY <1>6 DEF UnregisterThread, TakeLockFor, TypeOK, LockRaised, Label,
       Job, Slot, SlotOf
  <2>2. LockOwned' /\ LockRaised' /\ ContextSaved' /\ JobFits'
    BY <1>6 DEF UnregisterThread, TakeLockFor, TypeOK, LockOwned, LockRaised,
       ContextSaved, JobFits, Owning, Busy, Label, Job
  <2>3. Listed' /\ Allocated' /\ ValueRooted' /\ HandlerRooted'
    BY <1>6 DEF UnregisterThread, TakeLockFor, TypeOK, Listed, Allocated,
       ValueRooted, HandlerRooted, JobFits, Ordinary, Busy, Before, After,
       Slot, SlotOf
  <2>4. Passed' /\ Waiting'
    BY <1>6 DEF UnregisterThread, TakeLockFor, TypeOK, Passed, Waiting,
       LockOwned, Owning, ContextSaved, Listed, JobFits, Ordinary, Busy,
       Before, After
  <2> QED
    BY <2>1, <2>2, <2>3, <2>4
<1>7. ASSUME NEW t \in Thread, BlockingTrue(t)
      PROVE  IInv'
  <2>1. TypeOK'
    <3>1. CASE gc_blocking[t] = 0
      <4>1. /\ gc_blocking' = gc_blocking
            /\ fresh' = [fresh EXCEPT ![t] = TRUE]
            /\ pc' = [pc EXCEPT ![t] = "enter"]
        BY <1>7, <3>1 DEF BlockingTrue
      <4> QED
        BY <1>7, <4>1 DEF BlockingTrue, TypeOK, Label
    <3>2. CASE gc_blocking[t] # 0
      <4>1. gc_blocking' = [gc_blocking EXCEPT ![t] = @ + 1]
        BY <1>7, <3>2 DEF BlockingTrue
      <4>2. gc_blocking' \in [Thread -> Nat]
        BY <4>1 DEF TypeOK
      <4> QED
        BY <1>7, <3>2, <4>2 DEF BlockingTrue, TypeOK
    <3> QED
      BY <3>1, <3>2
  <2>2. LockOwned' /\ LockRaised' /\ ContextSaved' /\ JobFits'
    BY <1>7 DEF BlockingTrue, TypeOK, LockOwned, LockRaised, ContextSaved,
       JobFits, Owning, Busy, Label, Job
  <2>3. Listed' /\ Allocated' /\ ValueRooted' /\ HandlerRooted'
    BY <1>7 DEF BlockingTrue, TypeOK, Listed, Allocated, ValueRooted,
       HandlerRooted, JobFits, Ordinary, Busy, Before, After, Slot, SlotOf
  <2>4. Passed' /\ Waiting'
    BY <1>7 DEF BlockingTrue, TypeOK, Passed, Waiting, LockOwned, Owning,
       ContextSaved, Listed, JobFits, Ordinary, Busy, Before, After
  <2> QED
    BY <2>1, <2>2, <2>3, <2>4
<1>8. ASSUME NEW t \in Thread, EnterBlocking(t)
      PROVE  IInv'
  <2>1. TypeOK'
    BY <1>8 DEF EnterBlocking, TypeOK, LockRaised, Label, Job, Slot, SlotOf
  <2>2. LockOwned' /\ LockRaised' /\ ContextSaved' /\ JobFits'
    BY <1>8 DEF EnterBlocking, TypeOK, LockOwned, LockRaised, ContextSaved,
       JobFits, Owning, Busy, Label, Job
  <2>3. Listed' /\ Allocated' /\ ValueRooted' /\ HandlerRooted'
    BY <1>8 DEF EnterBlocking, TypeOK, Listed, Allocated, ValueRooted,
       HandlerRooted, JobFits, Ordinary, Busy, Before, After, Slot, SlotOf
  <2>4. Passed' /\ Waiting'
    BY <1>8 DEF EnterBlocking, TypeOK, Passed, Waiting, LockOwned, Owning,
       ContextSaved, Listed, JobFits, Ordinary, Busy, Before, After
  <2> QED
    BY <2>1, <2>2, <2>3, <2>4
<1>9. ASSUME NEW t \in Thread, BlockingFalse(t)
      PROVE  IInv'
  <2>1. TypeOK'
    BY <1>9 DEF BlockingFalse, TypeOK, LockRaised, Label, Job, Slot, SlotOf
  <2>2. LockOwned' /\ LockRaised' /\ ContextSaved' /\ JobFits'
    BY <1>9 DEF BlockingFalse, TypeOK, LockOwned, LockRaised, ContextSaved,
       JobFits, Owning, Busy, Label, Job
  <2>3. Listed' /\ Allocated' /\ ValueRooted' /\ HandlerRooted'
    BY <1>9 DEF BlockingFalse, TypeOK, Listed, Allocated, ValueRooted,
       HandlerRooted, JobFits, Ordinary, Busy, Before, After, Slot, SlotOf
  <2>4. Passed' /\ Waiting'
    BY <1>9 DEF BlockingFalse, TypeOK, Passed, Waiting, LockOwned, Owning,
       ContextSaved, Listed, JobFits, Ordinary, Busy, Before, After
  <2> QED
    BY <2>1, <2>2, <2>3, <2>4
<1>10. ASSUME NEW t \in Thread, TestStopping(t)
      PROVE  IInv'
  <2>1. TypeOK'
    BY <1>10 DEF TestStopping, TypeOK, LockRaised, Label, Job, Slot, SlotOf
  <2>2. LockOwned' /\ LockRaised' /\ ContextSaved' /\ JobFits'
    BY <1>10 DEF TestStopping, TypeOK, LockOwned, LockRaised, ContextSaved,
       JobFits, Owning, Busy, Label, Job
  <2>3. Listed' /\ Allocated' /\ ValueRooted' /\ HandlerRooted'
    BY <1>10 DEF TestStopping, TypeOK, Listed, Allocated, ValueRooted,
       HandlerRooted, JobFits, Ordinary, Busy, Before, After, Slot, SlotOf
  <2>4. Passed' /\ Waiting'
    BY <1>10 DEF TestStopping, TypeOK, Passed, Waiting, LockOwned, Owning,
       ContextSaved, Listed, JobFits, Ordinary, Busy, Before, After
  <2> QED
    BY <2>1, <2>2, <2>3, <2>4
<1>11. ASSUME NEW t \in Thread, SaveContext(t)
      PROVE  IInv'
  <2>1. TypeOK'
    BY <1>11 DEF SaveContext, TypeOK, LockRaised, Label, Job, Slot, SlotOf
  <2>2. LockOwned' /\ LockRaised' /\ ContextSaved' /\ JobFits'
    BY <1>11 DEF SaveContext, TypeOK, LockOwned, LockRaised, ContextSaved,
       JobFits, Owning, Busy, Label, Job
  <2>3. Listed' /\ Allocated' /\ ValueRooted' /\ HandlerRooted'
    BY <1>11 DEF SaveContext, TypeOK, Listed, Allocated, ValueRooted,
       HandlerRooted, JobFits, Ordinary, Busy, Before, After, Slot, SlotOf
  <2>4. Passed' /\ Waiting'
    BY <1>11 DEF SaveContext, TypeOK, Passed, Waiting, LockOwned, Owning,
       ContextSaved, Listed, JobFits, Ordinary, Busy, Before, After
  <2> QED
    BY <2>1, <2>2, <2>3, <2>4
<1>12. ASSUME NEW t \in Thread, LockBlocking(t)
      PROVE  IInv'
  <2>1. TypeOK'
    BY <1>12 DEF LockBlocking, TypeOK, LockRaised, Label, Job, Slot, SlotOf
  <2>2. LockOwned' /\ LockRaised' /\ ContextSaved' /\ JobFits'
    BY <1>12 DEF LockBlocking, TypeOK, LockOwned, LockRaised, ContextSaved,
       JobFits, Owning, Busy, Label, Job
  <2>3. Listed' /\ Allocated' /\ ValueRooted' /\ HandlerRooted'
    BY <1>12 DEF LockBlocking, TypeOK, Listed, Allocated, ValueRooted,
       HandlerRooted, JobFits, Ordinary, Busy, Before, After, Slot, SlotOf
  <2>4. Passed' /\ Waiting'
    BY <1>12 DEF LockBlocking, TypeOK, Passed, Waiting, LockOwned, Owning,
       ContextSaved, Listed, JobFits, Ordinary, Busy, Before, After
  <2> QED
    BY <2>1, <2>2, <2>3, <2>4
<1>13. ASSUME NEW t \in Thread, AcquireLock(t)
      PROVE  IInv'
  <2>1. TypeOK'
    BY <1>13 DEF AcquireLock, TypeOK, LockRaised, Label, Job, Slot, SlotOf
  <2>2. LockOwned' /\ LockRaised' /\ ContextSaved' /\ JobFits'
    BY <1>13 DEF AcquireLock, TypeOK, LockOwned, LockRaised, ContextSaved,
       JobFits, Owning, Busy, Label, Job
  <2>3. Listed' /\ Allocated' /\ ValueRooted' /\ HandlerRooted'
    BY <1>13 DEF AcquireLock, TypeOK, Listed, Allocated, ValueRooted,
       HandlerRooted, JobFits, Ordinary, Busy, Before, After, Slot, SlotOf
  <2>4. Passed' /\ Waiting'
    BY <1>13 DEF AcquireLock, TypeOK, Passed, Waiting, LockOwned, Owning,
       ContextSaved, Listed, JobFits, Ordinary, Busy, Before, After
  <2> QED
    BY <2>1, <2>2, <2>3, <2>4
<1>14. ASSUME NEW t \in Thread, UnlockBlocking(t)
      PROVE  IInv'
  <2>1. TypeOK'
    BY <1>14 DEF UnlockBlocking, TypeOK, LockRaised, Label, Job, Slot, SlotOf
  <2>2. LockOwned' /\ LockRaised' /\ ContextSaved' /\ JobFits'
    BY <1>14 DEF UnlockBlocking, TypeOK, LockOwned, LockRaised, ContextSaved,
       JobFits, Owning, Busy, Label, Job
  <2>3. Listed' /\ Allocated' /\ ValueRooted' /\ HandlerRooted'
    BY <1>14 DEF UnlockBlocking, TypeOK, Listed, Allocated, ValueRooted,
       HandlerRooted, JobFits, Ordinary, Busy, Before, After, Slot, SlotOf
  <2>4. Passed' /\ Waiting'
    BY <1>14 DEF UnlockBlocking, TypeOK, Passed, Waiting, LockOwned, Owning,
       ContextSaved, Listed, JobFits, Ordinary, Busy, Before, After
  <2> QED
    BY <2>1, <2>2, <2>3, <2>4
<1>15. ASSUME NEW t \in Thread, ReleaseLock(t)
      PROVE  IInv'
  <2>1. TypeOK'
    BY <1>15 DEF ReleaseLock, Chained, NextRegion, Job, TypeOK, LockRaised,
       Label, Job, Slot, SlotOf
  <2>2. LockOwned' /\ LockRaised' /\ ContextSaved' /\ JobFits'
    BY <1>15 DEF ReleaseLock, Chained, NextRegion, Job, TypeOK, LockOwned,
       LockRaised, ContextSaved, JobFits, Owning, Busy, Label, Job
  <2>3. Listed' /\ Allocated' /\ ValueRooted' /\ HandlerRooted'
    <3>1. Listed'
      BY <1>15 DEF ReleaseLock, Chained, NextRegion, Job, TypeOK, Listed,
         JobFits, Ordinary, Busy, Before, After, Slot, SlotOf
    <3>2. Allocated'
      BY <1>15 DEF ReleaseLock, Chained, NextRegion, Job, TypeOK, Allocated,
         JobFits, Ordinary, Busy, Before, After, Slot, SlotOf
    <3>3. ValueRooted'
      BY <1>15 DEF ReleaseLock, Chained, NextRegion, Job, TypeOK,
         ValueRooted, JobFits, Ordinary, Busy, Before, After, Slot, SlotOf
    <3>4. HandlerRooted'
      BY <1>15 DEF ReleaseLock, Chained, NextRegion, Job, TypeOK,
         HandlerRooted, JobFits, Ordinary, Busy, Before, After, Slot, SlotOf
    <3> QED
      BY <3>1, <3>2, <3>3, <3>4
  <2>4. Passed' /\ Waiting'
    BY <1>15 DEF ReleaseLock, Chained, NextRegion, Job, TypeOK, Passed,
       Waiting, LockOwned, Owning, ContextSaved, Listed, JobFits, Ordinary,
       Busy, Before, After
  <2> QED
    BY <2>1, <2>2, <2>3, <2>4
<1>16. ASSUME NEW t \in Thread, RootSlots(t)
      PROVE  IInv'
  <2>1. TypeOK'
    BY <1>16 DEF RootSlots, TypeOK, LockRaised, Label, Job, Slot, SlotOf
  <2>2. LockOwned' /\ LockRaised' /\ ContextSaved' /\ JobFits'
    BY <1>16 DEF RootSlots, TypeOK, LockOwned, LockRaised, ContextSaved,
       JobFits, Owning, Busy, Label, Job
  <2>3. Listed' /\ Allocated' /\ ValueRooted' /\ HandlerRooted'
    BY <1>16 DEF RootSlots, TypeOK, Listed, Allocated, ValueRooted,
       HandlerRooted, JobFits, Ordinary, Busy, Before, After, Slot, SlotOf
  <2>4. Passed' /\ Waiting'
    BY <1>16 DEF RootSlots, TypeOK, Passed, Waiting, LockOwned, Owning,
       ContextSaved, Listed, JobFits, Ordinary, Busy, Before, After
  <2> QED
    BY <2>1, <2>2, <2>3, <2>4
<1>17. ASSUME NEW t \in Thread, JoinList(t)
      PROVE  IInv'
  <2>1. TypeOK'
    BY <1>17 DEF JoinList, TypeOK, LockRaised, Label, Job, Slot, SlotOf
  <2>2. LockOwned' /\ LockRaised' /\ ContextSaved' /\ JobFits'
    BY <1>17 DEF JoinList, TypeOK, LockOwned, LockRaised, ContextSaved,
       JobFits, Owning, Busy, Label, Job
  <2>3. Listed' /\ Allocated' /\ ValueRooted' /\ HandlerRooted'
    BY <1>17 DEF JoinList, TypeOK, Listed, Allocated, ValueRooted,
       HandlerRooted, JobFits, Ordinary, Busy, Before, After, Slot, SlotOf
  <2>4. Passed' /\ Waiting'
    BY <1>17 DEF JoinList, TypeOK, Passed, Waiting, LockOwned, Owning,
       ContextSaved, Listed, JobFits, Ordinary, Busy, Before, After
  <2> QED
    BY <2>1, <2>2, <2>3, <2>4
<1>18. ASSUME NEW t \in Thread, LeaveList(t)
      PROVE  IInv'
  <2>1. TypeOK'
    BY <1>18 DEF LeaveList, TypeOK, LockRaised, Label, Job, Slot, SlotOf
  <2>2. LockOwned' /\ LockRaised' /\ ContextSaved' /\ JobFits'
    BY <1>18 DEF LeaveList, TypeOK, LockOwned, LockRaised, ContextSaved,
       JobFits, Owning, Busy, Label, Job
  <2>3. Listed' /\ Allocated' /\ ValueRooted' /\ HandlerRooted'
    BY <1>18 DEF LeaveList, TypeOK, Listed, Allocated, ValueRooted,
       HandlerRooted, JobFits, Ordinary, Busy, Before, After, Slot, SlotOf
  <2>4. Passed' /\ Waiting'
    BY <1>18 DEF LeaveList, TypeOK, Passed, Waiting, LockOwned, Owning,
       ContextSaved, Listed, JobFits, Ordinary, Busy, Before, After
  <2> QED
    BY <2>1, <2>2, <2>3, <2>4
<1>19. ASSUME NEW t \in Thread, StopWorldBegin(t)
      PROVE  IInv'
  <2>1. TypeOK'
    BY <1>19 DEF StopWorldBegin, TypeOK, LockRaised, Label, Job, Slot, SlotOf
  <2>2. LockOwned' /\ LockRaised' /\ ContextSaved' /\ JobFits'
    BY <1>19 DEF StopWorldBegin, TypeOK, LockOwned, LockRaised, ContextSaved,
       JobFits, Owning, Busy, Label, Job
  <2>3. Listed' /\ Allocated' /\ ValueRooted' /\ HandlerRooted'
    BY <1>19 DEF StopWorldBegin, TypeOK, Listed, Allocated, ValueRooted,
       HandlerRooted, JobFits, Ordinary, Busy, Before, After, Slot, SlotOf
  <2>4. Passed' /\ Waiting'
    BY <1>19 DEF StopWorldBegin, TypeOK, Passed, Waiting, LockOwned, Owning,
       ContextSaved, Listed, JobFits, Ordinary, Busy, Before, After
  <2> QED
    BY <2>1, <2>2, <2>3, <2>4
<1>20. ASSUME NEW t \in Thread, MarkBegin(t)
      PROVE  IInv'
  <2>1. TypeOK'
    BY <1>20 DEF MarkBegin, TypeOK, LockRaised, Label, Job, Slot, SlotOf
  <2>2. LockOwned' /\ LockRaised' /\ ContextSaved' /\ JobFits'
    BY <1>20 DEF MarkBegin, TypeOK, LockOwned, LockRaised, ContextSaved,
       JobFits, Owning, Busy, Label, Job
  <2>3. Listed' /\ Allocated' /\ ValueRooted' /\ HandlerRooted'
    BY <1>20 DEF MarkBegin, TypeOK, Listed, Allocated, ValueRooted,
       HandlerRooted, JobFits, Ordinary, Busy, Before, After, Slot, SlotOf
  <2>4. Passed' /\ Waiting'
    BY <1>20 DEF MarkBegin, TypeOK, Passed, Waiting, LockOwned, Owning,
       ContextSaved, Listed, JobFits, Ordinary, Busy, Before, After
  <2> QED
    BY <2>1, <2>2, <2>3, <2>4
<1>21. ASSUME NEW t \in Thread, MarkEnd(t)
      PROVE  IInv'
  <2>1. TypeOK'
    BY <1>21 DEF MarkEnd, TypeOK, LockRaised, Label, Job, Slot, SlotOf
  <2>2. LockOwned' /\ LockRaised' /\ ContextSaved' /\ JobFits'
    BY <1>21 DEF MarkEnd, TypeOK, LockOwned, LockRaised, ContextSaved,
       JobFits, Owning, Busy, Label, Job
  <2>3. Listed' /\ Allocated' /\ ValueRooted' /\ HandlerRooted'
    BY <1>21 DEF MarkEnd, TypeOK, Listed, Allocated, ValueRooted,
       HandlerRooted, JobFits, Ordinary, Busy, Before, After, Slot, SlotOf
  <2>4. Passed' /\ Waiting'
    BY <1>21 DEF MarkEnd, TypeOK, Passed, Waiting, LockOwned, Owning,
       ContextSaved, Listed, JobFits, Ordinary, Busy, Before, After
  <2> QED
    BY <2>1, <2>2, <2>3, <2>4
<1>22. ASSUME NEW t \in Thread, JobDone(t)
      PROVE  IInv'
  <2>1. TypeOK'
    BY <1>22 DEF JobDone, TypeOK, LockRaised, Label, Job, Slot, SlotOf
  <2>2. LockOwned' /\ LockRaised' /\ ContextSaved' /\ JobFits'
    BY <1>22 DEF JobDone, TypeOK, LockOwned, LockRaised, ContextSaved,
       JobFits, Owning, Busy, Label, Job
  <2>3. Listed' /\ Allocated' /\ ValueRooted' /\ HandlerRooted'
    BY <1>22 DEF JobDone, TypeOK, Listed, Allocated, ValueRooted,
       HandlerRooted, JobFits, Ordinary, Busy, Before, After, Slot, SlotOf
  <2>4. Passed' /\ Waiting'
    BY <1>22 DEF JobDone, TypeOK, Passed, Waiting, LockOwned, Owning,
       ContextSaved, Listed, JobFits, Ordinary, Busy, Before, After
  <2> QED
    BY <2>1, <2>2, <2>3, <2>4
<1>23. ASSUME NEW t \in Thread, NEW u \in Thread, SpinPast(t, u)
      PROVE  IInv'
  <2>1. TypeOK'
    BY <1>23 DEF SpinPast, TypeOK, LockRaised, Label, Job, Slot, SlotOf
  <2>2. LockOwned' /\ LockRaised' /\ ContextSaved' /\ JobFits'
    BY <1>23 DEF SpinPast, TypeOK, LockOwned, LockRaised, ContextSaved,
       JobFits, Owning, Busy, Label, Job
  <2>3. Listed' /\ Allocated' /\ ValueRooted' /\ HandlerRooted'
    BY <1>23 DEF SpinPast, TypeOK, Listed, Allocated, ValueRooted,
       HandlerRooted, JobFits, Ordinary, Busy, Before, After, Slot, SlotOf
  <2>4. Passed' /\ Waiting'
    BY <1>23 DEF SpinPast, TypeOK, Passed, Waiting, LockOwned, Owning,
       ContextSaved, Listed, JobFits, Ordinary, Busy, Before, After
  <2> QED
    BY <2>1, <2>2, <2>3, <2>4
<1>24. CASE UNCHANGED vars
  BY <1>24 DEF vars, TypeOK, LockOwned, LockRaised, ContextSaved, JobFits,
     Listed, Allocated, ValueRooted, HandlerRooted, Passed, Waiting, Ordinary
<1> QED
  BY <1>1, <1>2, <1>3, <1>4, <1>5, <1>6, <1>7, <1>8, <1>9, <1>10, <1>11,
     <1>12, <1>13, <1>14, <1>15, <1>16, <1>17, <1>18, <1>19, <1>20, <1>21,
     <1>22, <1>23, <1>24 DEF Next, Collector, Runtime, Program

(* Along every behaviour, for every set of threads: the inductive invariant. *)
THEOREM Invariance == Spec => []IInv
  BY InitIInv, NextIInv, PTL DEF Spec

(* Every variable keeps its type, whatever the threads do. *)
THEOREM TypeCorrect == Spec => []TypeOK
<1>1. IInv => TypeOK
  OBVIOUS
<1> QED
  BY <1>1, Invariance, PTL

(* The invariant leaves no thread in HL code while a collector marks. *)
LEMMA InvariantStopsTheWorld == IInv => WorldStopped
<1> SUFFICES ASSUME IInv, NEW c \in Thread, pc[c] = "mark",
                    NEW t \in Thread
             PROVE  ~ RunsHL(t)
  BY DEF WorldStopped
<1>1. CASE t \in unseen
  <2>1. PICK d \in Thread : pc[d] = "stop"
    BY <1>1 DEF Waiting
  <2>2. owner = c /\ owner = d
    BY <2>1 DEF LockOwned, Owning
  <2> QED
    BY <2>1, <2>2
<1>2. CASE t \notin unseen
  BY <1>2 DEF Passed
<1> QED
  BY <1>1, <1>2

(* While gc_mark runs, no thread runs HL code: neither one that was running when
   gc_stop_world began, nor one that left a blocking region or registered
   since. *)
THEOREM StopsTheWorld == Spec => []WorldStopped
  BY InvariantStopsTheWorld, Invariance, PTL

(* The invariant leaves no context out of date while a collector marks. *)
LEMMA InvariantScansTheThreads == IInv => ScanSeesEveryThread
<1> SUFFICES ASSUME IInv, NEW c \in Thread, pc[c] = "mark",
                    NEW t \in threads
             PROVE  fresh[t]
  BY DEF ScanSeesEveryThread
<1>1. t \in Thread
  BY DEF TypeOK
<1>2. t \notin unseen
  <2> SUFFICES ASSUME t \in unseen
               PROVE  FALSE
    OBVIOUS
  <2>1. PICK d \in Thread : pc[d] = "stop"
    BY DEF Waiting
  <2>2. owner = c /\ owner = d
    BY <2>1 DEF LockOwned, Owning
  <2> QED
    BY <2>1, <2>2
<1> QED
  BY <1>1, <1>2 DEF Passed

(* While gc_mark runs, the saved context of every registered thread is newer
   than its last HL step: the conservative scan misses no reference. *)
THEOREM ScansTheThreads == Spec => []ScanSeesEveryThread
  BY InvariantScansTheThreads, Invariance, PTL

(* The collector's list, its roots and the threads it waits for never name a
   freed hl_thread_info. *)
THEOREM NeverDangling == Spec => []NothingDangling
<1>1. IInv => NothingDangling
  <2> SUFFICES ASSUME IInv
               PROVE  NothingDangling
    OBVIOUS
  <2>1. threads \subseteq alive
    BY DEF TypeOK, Listed, Allocated, Ordinary, Busy, Before, After
  <2>2. unseen \subseteq alive
    BY <2>1 DEF Waiting
  <2>3. rooted["exc_value"] \subseteq alive
    BY DEF TypeOK, ValueRooted, Allocated, Ordinary, Busy, Before, After, Slot
  <2>4. rooted["exc_handler"] \subseteq alive
    BY DEF TypeOK, HandlerRooted, Allocated, Ordinary, Busy, Before, After,
       Slot
  <2> QED
    BY <2>1, <2>2, <2>3, <2>4 DEF NothingDangling, Slot
<1> QED
  BY <1>1, Invariance, PTL

(* A thread that runs HL code is in the list and has both its roots. *)
THEOREM RunsRegistered == Spec => []RunningIsRegistered
<1>1. IInv => RunningIsRegistered
  BY DEF RunningIsRegistered, Listed, ValueRooted, HandlerRooted, Ordinary,
     Slot
<1> QED
  BY <1>1, Invariance, PTL

(* The handshake implements the abstract stopped world: a step of a thread
   either changes neither who runs HL code nor whether the heap is marked, or
   it is one of the abstract steps. *)
THEOREM ImplementsStoppedWorld == Spec => WorldSpec
<1> DEFINE Running == {t \in Thread : RunsHL(t)}
           Marking == \E c \in Thread : pc[c] = "mark"
<1>1. Init => World!AInit
  BY DEF Init, World!AInit
<1>2. IInv /\ IInv' /\ [Next]_vars => [World!ANext]_(World!avars)
  <2> SUFFICES ASSUME IInv, IInv', [Next]_vars
               PROVE  [World!ANext]_(World!avars)
    OBVIOUS
  <2> USE DEF World!ANext, World!avars
  <2>a. ASSUME Running' = Running, Marking' = Marking
        PROVE  [World!ANext]_(World!avars)
    BY <2>a
  <2>b. ASSUME NEW t \in Thread, Running' = Running \ {t}, Marking' = Marking
        PROVE  [World!ANext]_(World!avars)
    BY <2>b DEF World!Pause
  <2>c. ASSUME NEW t \in Thread, ~ Marking, Marking' = Marking,
               Running' = Running \cup {t}
        PROVE  [World!ANext]_(World!avars)
    BY <2>c DEF World!Resume
  <2>1. ASSUME NEW t \in Thread, Mutate(t)
        PROVE  [World!ANext]_(World!avars)
    <3>1. \A v \in Thread : RunsHL(v)' <=> RunsHL(v)
      BY <2>1 DEF Mutate, TypeOK, LockRaised
    <3>2. \A v \in Thread : pc'[v] = "mark" <=> pc[v] = "mark"
      BY <2>1 DEF Mutate, TypeOK
    <3> QED
      BY <3>1, <3>2, <2>a
  <2>2. ASSUME NEW t \in Thread, RegisterThread(t)
        PROVE  [World!ANext]_(World!avars)
    <3>1. \A v \in Thread : RunsHL(v)' <=> RunsHL(v)
      BY <2>2 DEF RegisterThread, TypeOK, LockRaised
    <3>2. \A v \in Thread : pc'[v] = "mark" <=> pc[v] = "mark"
      BY <2>2 DEF RegisterThread, TypeOK
    <3> QED
      BY <3>1, <3>2, <2>a
  <2>3. ASSUME NEW t \in Thread, EnterBlocking(t)
        PROVE  [World!ANext]_(World!avars)
    <3>1. \A v \in Thread : RunsHL(v)' <=> RunsHL(v)
      BY <2>3 DEF EnterBlocking, TypeOK, LockRaised
    <3>2. \A v \in Thread : pc'[v] = "mark" <=> pc[v] = "mark"
      BY <2>3 DEF EnterBlocking, TypeOK
    <3> QED
      BY <3>1, <3>2, <2>a
  <2>4. ASSUME NEW t \in Thread, BlockingFalse(t)
        PROVE  [World!ANext]_(World!avars)
    <3>1. \A v \in Thread : RunsHL(v)' <=> RunsHL(v)
      BY <2>4 DEF BlockingFalse, TypeOK, LockRaised
    <3>2. \A v \in Thread : pc'[v] = "mark" <=> pc[v] = "mark"
      BY <2>4 DEF BlockingFalse, TypeOK
    <3> QED
      BY <3>1, <3>2, <2>a
  <2>5. ASSUME NEW t \in Thread, SaveContext(t)
        PROVE  [World!ANext]_(World!avars)
    <3>1. \A v \in Thread : RunsHL(v)' <=> RunsHL(v)
      BY <2>5 DEF SaveContext, TypeOK, LockRaised
    <3>2. \A v \in Thread : pc'[v] = "mark" <=> pc[v] = "mark"
      BY <2>5 DEF SaveContext, TypeOK
    <3> QED
      BY <3>1, <3>2, <2>a
  <2>6. ASSUME NEW t \in Thread, LockBlocking(t)
        PROVE  [World!ANext]_(World!avars)
    <3>1. \A v \in Thread : RunsHL(v)' <=> RunsHL(v)
      BY <2>6 DEF LockBlocking, TypeOK, LockRaised
    <3>2. \A v \in Thread : pc'[v] = "mark" <=> pc[v] = "mark"
      BY <2>6 DEF LockBlocking, TypeOK
    <3> QED
      BY <3>1, <3>2, <2>a
  <2>7. ASSUME NEW t \in Thread, AcquireLock(t)
        PROVE  [World!ANext]_(World!avars)
    <3>1. \A v \in Thread : RunsHL(v)' <=> RunsHL(v)
      BY <2>7 DEF AcquireLock, TypeOK, LockRaised
    <3>2. \A v \in Thread : pc'[v] = "mark" <=> pc[v] = "mark"
      BY <2>7 DEF AcquireLock, TypeOK
    <3> QED
      BY <3>1, <3>2, <2>a
  <2>8. ASSUME NEW t \in Thread, UnlockBlocking(t)
        PROVE  [World!ANext]_(World!avars)
    <3>1. \A v \in Thread : RunsHL(v)' <=> RunsHL(v)
      BY <2>8 DEF UnlockBlocking, TypeOK, LockRaised
    <3>2. \A v \in Thread : pc'[v] = "mark" <=> pc[v] = "mark"
      BY <2>8 DEF UnlockBlocking, TypeOK
    <3> QED
      BY <3>1, <3>2, <2>a
  <2>9. ASSUME NEW t \in Thread, RootSlots(t)
        PROVE  [World!ANext]_(World!avars)
    <3>1. \A v \in Thread : RunsHL(v)' <=> RunsHL(v)
      BY <2>9 DEF RootSlots, TypeOK, LockRaised
    <3>2. \A v \in Thread : pc'[v] = "mark" <=> pc[v] = "mark"
      BY <2>9 DEF RootSlots, TypeOK
    <3> QED
      BY <3>1, <3>2, <2>a
  <2>10. ASSUME NEW t \in Thread, JoinList(t)
        PROVE  [World!ANext]_(World!avars)
    <3>1. \A v \in Thread : RunsHL(v)' <=> RunsHL(v)
      BY <2>10 DEF JoinList, TypeOK, LockRaised
    <3>2. \A v \in Thread : pc'[v] = "mark" <=> pc[v] = "mark"
      BY <2>10 DEF JoinList, TypeOK
    <3> QED
      BY <3>1, <3>2, <2>a
  <2>11. ASSUME NEW t \in Thread, LeaveList(t)
        PROVE  [World!ANext]_(World!avars)
    <3>1. \A v \in Thread : RunsHL(v)' <=> RunsHL(v)
      BY <2>11 DEF LeaveList, TypeOK, LockRaised
    <3>2. \A v \in Thread : pc'[v] = "mark" <=> pc[v] = "mark"
      BY <2>11 DEF LeaveList, TypeOK
    <3> QED
      BY <3>1, <3>2, <2>a
  <2>12. ASSUME NEW t \in Thread, StopWorldBegin(t)
        PROVE  [World!ANext]_(World!avars)
    <3>1. \A v \in Thread : RunsHL(v)' <=> RunsHL(v)
      BY <2>12 DEF StopWorldBegin, TypeOK, LockRaised
    <3>2. \A v \in Thread : pc'[v] = "mark" <=> pc[v] = "mark"
      BY <2>12 DEF StopWorldBegin, TypeOK
    <3> QED
      BY <3>1, <3>2, <2>a
  <2>13. ASSUME NEW t \in Thread, JobDone(t)
        PROVE  [World!ANext]_(World!avars)
    <3>1. \A v \in Thread : RunsHL(v)' <=> RunsHL(v)
      BY <2>13 DEF JobDone, TypeOK, LockRaised
    <3>2. \A v \in Thread : pc'[v] = "mark" <=> pc[v] = "mark"
      BY <2>13 DEF JobDone, TypeOK
    <3> QED
      BY <3>1, <3>2, <2>a
  <2>14. ASSUME NEW t \in Thread, NEW u \in Thread, SpinPast(t, u)
        PROVE  [World!ANext]_(World!avars)
    <3>1. \A v \in Thread : RunsHL(v)' <=> RunsHL(v)
      BY <2>14 DEF SpinPast, TypeOK, LockRaised
    <3>2. \A v \in Thread : pc'[v] = "mark" <=> pc[v] = "mark"
      BY <2>14 DEF SpinPast, TypeOK
    <3> QED
      BY <3>1, <3>2, <2>a
  <2>15. ASSUME NEW t \in Thread, UnregisterThread(t)
        PROVE  [World!ANext]_(World!avars)
    <3>1. \A v \in Thread : RunsHL(v)' <=> RunsHL(v) /\ v # t
      BY <2>15 DEF UnregisterThread, TakeLockFor, TypeOK
    <3>2. \A v \in Thread : pc'[v] = "mark" <=> pc[v] = "mark"
      BY <2>15 DEF UnregisterThread, TakeLockFor, TypeOK
    <3> QED
      BY <3>1, <3>2, <2>b
  <2>16. ASSUME NEW t \in Thread, Alloc(t)
        PROVE  [World!ANext]_(World!avars)
    <3>1. \A v \in Thread : RunsHL(v)' <=> RunsHL(v) /\ v # t
      BY <2>16 DEF Alloc, TakeLockFor, TypeOK
    <3>2. \A v \in Thread : pc'[v] = "mark" <=> pc[v] = "mark"
      BY <2>16 DEF Alloc, TakeLockFor, TypeOK
    <3> QED
      BY <3>1, <3>2, <2>b
  <2>17. ASSUME NEW t \in Thread, Major(t)
        PROVE  [World!ANext]_(World!avars)
    <3>1. \A v \in Thread : RunsHL(v)' <=> RunsHL(v) /\ v # t
      BY <2>17 DEF Major, TakeLockFor, TypeOK
    <3>2. \A v \in Thread : pc'[v] = "mark" <=> pc[v] = "mark"
      BY <2>17 DEF Major, TakeLockFor, TypeOK
    <3> QED
      BY <3>1, <3>2, <2>b
  <2>18. ASSUME NEW t \in Thread, Safepoint(t)
        PROVE  [World!ANext]_(World!avars)
    <3>1. \A v \in Thread : RunsHL(v)' <=> RunsHL(v) /\ v # t
      BY <2>18 DEF Safepoint, TakeLockFor, TypeOK
    <3>2. \A v \in Thread : pc'[v] = "mark" <=> pc[v] = "mark"
      BY <2>18 DEF Safepoint, TakeLockFor, TypeOK
    <3> QED
      BY <3>1, <3>2, <2>b
  <2>19. ASSUME NEW t \in Thread, BlockingTrue(t)
        PROVE  [World!ANext]_(World!avars)
    <3>1. CASE gc_blocking[t] = 0
      <4>1. \A v \in Thread : RunsHL(v)' <=> RunsHL(v) /\ v # t
        BY <2>19, <3>1 DEF BlockingTrue, TypeOK
      <4>2. \A v \in Thread : pc'[v] = "mark" <=> pc[v] = "mark"
        BY <2>19, <3>1 DEF BlockingTrue, TypeOK
      <4> QED
        BY <4>1, <4>2, <2>b
    <3>2. CASE gc_blocking[t] # 0
      <4>1. \A v \in Thread : RunsHL(v)' <=> RunsHL(v)
        BY <2>19, <3>2 DEF BlockingTrue, TypeOK
      <4>2. \A v \in Thread : pc'[v] = "mark" <=> pc[v] = "mark"
        BY <2>19, <3>2 DEF BlockingTrue, TypeOK
      <4> QED
        BY <4>1, <4>2, <2>a
    <3> QED
      BY <3>1, <3>2
  <2>20. ASSUME NEW t \in Thread, TestStopping(t)
        PROVE  [World!ANext]_(World!avars)
    <3>1. \A v \in Thread : pc'[v] = "mark" <=> pc[v] = "mark"
      BY <2>20 DEF TestStopping, TypeOK
    <3>2. CASE RunsHL(t)'
      <4>1. \A v \in Thread : RunsHL(v)' <=> RunsHL(v) \/ v = t
        BY <2>20, <3>2 DEF TestStopping, TypeOK
      <4>2. ~ Marking
        BY <2>20, <3>2 DEF TestStopping, TypeOK, Passed
      <4> QED
        BY <3>1, <4>1, <4>2, <2>c
    <3>3. CASE ~ RunsHL(t)'
      <4>1. \A v \in Thread : RunsHL(v)' <=> RunsHL(v)
        BY <2>20, <3>3 DEF TestStopping, TypeOK
      <4> QED
        BY <3>1, <4>1, <2>a
    <3> QED
      BY <3>2, <3>3
  <2>21. ASSUME NEW t \in Thread, ReleaseLock(t)
        PROVE  [World!ANext]_(World!avars)
    <3>1. \A v \in Thread : pc'[v] = "mark" <=> pc[v] = "mark"
      BY <2>21 DEF ReleaseLock, Chained, NextRegion, TypeOK
    <3>2. CASE RunsHL(t)'
      <4>1. \A v \in Thread : RunsHL(v)' <=> RunsHL(v) \/ v = t
        BY <2>21, <3>2 DEF ReleaseLock, Chained, NextRegion, TypeOK
      <4>2. ~ Marking
        BY <2>21, <3>2 DEF ReleaseLock, TypeOK, LockOwned, Owning
      <4> QED
        BY <3>1, <4>1, <4>2, <2>c
    <3>3. CASE ~ RunsHL(t)'
      <4>1. \A v \in Thread : RunsHL(v)' <=> RunsHL(v)
        BY <2>21, <3>3 DEF ReleaseLock, Chained, NextRegion, TypeOK
      <4> QED
        BY <3>1, <4>1, <2>a
    <3> QED
      BY <3>2, <3>3
  <2>22. ASSUME NEW t \in Thread, MarkBegin(t)
        PROVE  [World!ANext]_(World!avars)
    <3>1. Running' = {} /\ Running = {}
      BY <2>22 DEF MarkBegin, TypeOK, Passed
    <3>2. Marking'
      BY <2>22 DEF MarkBegin, TypeOK
    <3> QED
      BY <3>1, <3>2 DEF World!BeginMark
  <2>23. ASSUME NEW t \in Thread, MarkEnd(t)
        PROVE  [World!ANext]_(World!avars)
    <3>1. \A v \in Thread : RunsHL(v)' <=> RunsHL(v)
      BY <2>23 DEF MarkEnd, TypeOK
    <3>2. ~ Marking'
      BY <2>23 DEF MarkEnd, TypeOK, LockOwned, Owning
    <3> QED
      BY <3>1, <3>2 DEF World!EndMark
  <2>24. CASE UNCHANGED vars
    BY <2>24, <2>a DEF vars
  <2> QED
    BY <2>1, <2>2, <2>3, <2>4, <2>5, <2>6, <2>7, <2>8, <2>9, <2>10, <2>11,
       <2>12, <2>13, <2>14, <2>15, <2>16, <2>17, <2>18, <2>19, <2>20, <2>21,
       <2>22, <2>23, <2>24 DEF Next, Collector, Runtime, Program
<1> QED
  BY <1>1, <1>2, Invariance, PTL DEF Spec, WorldSpec, World!ASpec
-----------------------------------------------------------------------------
(* The threads that call Python (GilWorld).                                *)

(* Starting from registered threads, the handshake's invariant and the GIL's
   hold. *)
LEMMA GilInitInv == GilInit => GilInv
<1> SUFFICES ASSUME GilInit
             PROVE  GilInv
  OBVIOUS
<1> USE ThreadAssumption, BlockingAssumption DEF GilInit
<1>1. TypeOK /\ GilTypeOK
  BY DEF TypeOK, GilTypeOK, Label, Job, Slot, Phase
<1>2. LockOwned /\ LockRaised /\ ContextSaved /\ JobFits
  BY DEF LockOwned, LockRaised, ContextSaved, JobFits, Owning, Busy
<1>3. Listed /\ Allocated /\ ValueRooted /\ HandlerRooted
  BY DEF Listed, Allocated, ValueRooted, HandlerRooted, Ordinary, Busy,
     Before, After, Slot
<1>4. Passed /\ Waiting
  BY DEF Passed, Waiting
<1>5. GilOwned /\ CrossingBlocked /\ BareIdle
  BY DEF GilOwned, CrossingBlocked, BareIdle, Holding
<1> QED
  BY <1>1, <1>2, <1>3, <1>4, <1>5 DEF IInv, GilInv

(* Every step of GilWorld is, for the handshake, one of its own steps. *)
LEMMA GilStepIsStep == GilNext => [Next]_vars
  BY MainAssumption
     DEF GilNext, HeapUse, Handshake, Crossing, BareCrossing, Next, Program,
         Collector, Runtime, WaitForGil, TakeGil, EnterPython, LeavePython,
         DropGil, BackToHL, CallHL, AllowThreads, AllowedMajor,
         EndAllowThreads, GoAway, ComeBack, MainReturns, RetakeGil

(* Of the handshake's steps, only the gc_blocking++ that ends hl_blocking(true)
   belongs to a thread inside a crossing; the others are made by threads that
   are in none, and move no other thread. *)
LEMMA HandshakeKeepsCrossings ==
  ASSUME GilInv, NEW t \in Thread, Handshake(t)
  PROVE  CrossingBlocked' /\ BareIdle'
<1>1. CASE EnterBlocking(t) /\ UNCHANGED gilVars
  BY <1>1 DEF GilInv, IInv, TypeOK, EnterBlocking, Goto, gilVars,
     CrossingBlocked, BareIdle
<1>2. CASE Handshake(t) /\ ~ EnterBlocking(t)
  <2>1. pc[t] \notin {"hl", "enter", "absent"}
    BY <1>2 DEF Handshake, Collector, Runtime, StopWorldBegin, SpinPast,
       MarkBegin, MarkEnd, TestStopping, SaveContext, LockBlocking,
       AcquireLock, RootSlots, JoinList, LeaveList, JobDone, UnlockBlocking,
       ReleaseLock
  <2>2. phase[t] \notin {"take", "took", "drop", "dropped", "bare"}
    BY <2>1 DEF GilInv, CrossingBlocked, BareIdle
  <2>3. \A u \in Thread \ {t} : /\ pc'[u] = pc[u]
                                /\ gc_blocking'[u] = gc_blocking[u]
    BY <1>2 DEF GilInv, IInv, TypeOK, Handshake, Collector, Runtime,
       StopWorldBegin, SpinPast, MarkBegin, MarkEnd, TestStopping,
       SaveContext, LockBlocking, AcquireLock, RootSlots, JoinList, LeaveList,
       JobDone, UnlockBlocking, ReleaseLock, Goto
  <2>4. phase' = phase
    BY <1>2 DEF Handshake, gilVars
  <2> QED
    BY <2>2, <2>3, <2>4 DEF GilInv, CrossingBlocked, BareIdle
<1> QED
  BY <1>1, <1>2 DEF Handshake

(* Every step preserves the invariant. *)
LEMMA GilNextInv == GilInv /\ [GilNext]_allVars => GilInv'
<1> SUFFICES ASSUME GilInv, [GilNext]_allVars
             PROVE  GilInv'
  OBVIOUS
<1>1. IInv'
  BY GilStepIsStep, NextIInv DEF GilInv, allVars, vars
<1>2. ASSUME NEW t \in Thread, Handshake(t)
      PROVE  GilInv'
  <2>1. GilTypeOK' /\ GilOwned'
    BY <1>1, <1>2 DEF GilInv, IInv, GilTypeOK, GilOwned, Handshake, gilVars
  <2> QED
    BY <1>1, <1>2, <2>1, HandshakeKeepsCrossings DEF GilInv
<1>3. ASSUME NEW t \in Thread, HeapUse(t)
      PROVE  GilInv'
  <2>1. GilTypeOK' /\ GilOwned'
    BY <1>1, <1>3 DEF GilInv, IInv, GilTypeOK, GilOwned, HeapUse, gilVars
  <2>2. phase' = phase /\ phase[t] \in {"hl", "py"}
    BY <1>3 DEF HeapUse, gilVars
  <2>3. \A u \in Thread \ {t} : /\ pc'[u] = pc[u]
                                /\ gc_blocking'[u] = gc_blocking[u]
    BY <1>3 DEF GilInv, IInv, TypeOK, HeapUse, Mutate, Alloc, Major,
       TakeLockFor, BlockingTrue, BlockingFalse, Goto
  <2>4. CrossingBlocked' /\ BareIdle'
    BY <2>2, <2>3 DEF GilInv, CrossingBlocked, BareIdle
  <2> QED
    BY <1>1, <2>1, <2>4 DEF GilInv
<1>4. ASSUME NEW t \in Thread, Crossing(t)
      PROVE  GilInv'
  <2>1. GilTypeOK' /\ GilOwned'
    BY <1>1, <1>4, ThreadAssumption DEF GilInv, IInv, GilTypeOK, GilOwned,
       Phase, Holding, Become, Crossing, WaitForGil, TakeGil, EnterPython,
       LeavePython, DropGil, BackToHL, CallHL
  <2>2. CrossingBlocked' /\ BareIdle'
    <3>1. CASE WaitForGil(t) \/ LeavePython(t)
      BY <3>1 DEF GilInv, IInv, TypeOK, GilTypeOK, CrossingBlocked, BareIdle,
         Become, WaitForGil, LeavePython, BlockingTrue, RunsHL, Goto
    <3>2. CASE TakeGil(t) \/ DropGil(t) \/ CallHL(t)
      BY <3>2 DEF GilInv, GilTypeOK, CrossingBlocked, BareIdle, Become, vars,
         TakeGil, DropGil, CallHL
    <3>3. CASE EnterPython(t) \/ BackToHL(t)
      BY <3>3 DEF GilInv, IInv, TypeOK, GilTypeOK, CrossingBlocked, BareIdle,
         Become, EnterPython, BackToHL, BlockingFalse, Goto
    <3> QED
      BY <1>4, <3>1, <3>2, <3>3 DEF Crossing
  <2> QED
    BY <1>1, <2>1, <2>2 DEF GilInv
<1>5. ASSUME NEW t \in Thread, BareCrossing(t)
      PROVE  GilInv'
  <2>1. GilTypeOK' /\ GilOwned'
    BY <1>1, <1>5, ThreadAssumption DEF GilInv, IInv, GilTypeOK, GilOwned,
       Phase, Holding, Become, gilVars, BareCrossing, AllowThreads,
       AllowedMajor, EndAllowThreads, GoAway, ComeBack, RetakeGil
  <2>2. CASE AllowedMajor(t)
    <3>1. CrossingBlocked' /\ BareIdle'
      BY <2>2 DEF GilInv, IInv, TypeOK, GilTypeOK, CrossingBlocked, BareIdle,
         gilVars, AllowedMajor, Major, TakeLockFor, Goto
    <3> QED
      BY <1>1, <2>1, <3>1 DEF GilInv
  <2>3. CASE \/ AllowThreads(t) \/ EndAllowThreads(t)
             \/ GoAway(t) \/ ComeBack(t) \/ RetakeGil(t)
    <3>1. CrossingBlocked' /\ BareIdle'
      BY <2>3 DEF GilInv, GilTypeOK, CrossingBlocked, BareIdle, Become, vars,
         AllowThreads, EndAllowThreads, GoAway, ComeBack, RetakeGil, RunsHL
    <3> QED
      BY <1>1, <2>1, <3>1 DEF GilInv
  <2> QED
    BY <1>5, <2>2, <2>3 DEF BareCrossing
<1>6. CASE MainReturns
  <2>1. GilTypeOK' /\ GilOwned'
    BY <1>1, <1>6, MainAssumption DEF GilInv, IInv, GilTypeOK, GilOwned,
       Phase, Holding, Become, MainReturns
  <2>2. CrossingBlocked' /\ BareIdle'
    BY <1>6, MainAssumption DEF GilInv, GilTypeOK, CrossingBlocked, BareIdle,
       Become, vars, MainReturns, RunsHL
  <2> QED
    BY <1>1, <2>1, <2>2 DEF GilInv
<1>7. CASE UNCHANGED allVars
  BY <1>1, <1>7 DEF GilInv, IInv, GilTypeOK, GilOwned, CrossingBlocked,
     BareIdle, allVars, vars
<1> QED
  BY <1>2, <1>3, <1>4, <1>5, <1>6, <1>7 DEF GilNext

(* The handshake's invariant and the GIL's hold of every program with mods. *)
THEOREM GilInvariance == GilSpec => []GilInv
  BY GilInitInv, GilNextInv, PTL DEF GilSpec

(* Python mods do not weaken the stopped world: no thread runs HL or Python
   code on the heap while it is marked. *)
THEOREM GilStopsTheWorld == GilSpec => [](WorldStopped /\ ScanSeesEveryThread)
<1>1. GilInv => WorldStopped /\ ScanSeesEveryThread
  BY InvariantStopsTheWorld, InvariantScansTheThreads DEF GilInv
<1> QED
  BY <1>1, GilInvariance, PTL

(* The waits that hl_blocking brackets are ones the collector walks past. *)
THEOREM BracketedWaits == GilSpec => []BracketedWaitIsSafe
<1>1. GilInv => BracketedWaitIsSafe
  BY DEF GilInv, CrossingBlocked, BracketedWaitIsSafe
<1> QED
  BY <1>1, GilInvariance, PTL

(* Nobody waits for the GIL while it owns the collector's lock. *)
THEOREM LockOrder == GilSpec => []NoGilUnderLock
<1>1. GilInv => NoGilUnderLock
  BY DEF GilInv, IInv, LockOwned, Owning, CrossingBlocked, BareIdle,
     NoGilUnderLock
<1> QED
  BY <1>1, GilInvariance, PTL

(* A circular wait, were there one, is with a bare wait. *)
THEOREM OnlyBareWaitsDeadlock ==
  GilSpec => [](\A t \in Thread : CircularWait(t) => phase[t] = "bare")
<1>1. GilInv => \A t \in Thread : CircularWait(t) => phase[t] = "bare"
  BY DEF GilInv, CrossingBlocked, CircularWait
<1> QED
  BY <1>1, GilInvariance, PTL
=============================================================================
