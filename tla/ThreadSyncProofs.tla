-------------------------- MODULE ThreadSyncProofs ---------------------------
(***************************************************************************)
(* What ThreadSync promises for any number of threads and messages: no     *)
(* waiter of a lock or of a deque is forgotten, the linked nodes are the   *)
(* queue of AtomicDeque, and which messages a collection can miss.  The    *)
(* argument: a thread that may have to wait for another is in a blocking   *)
(* region and in the list (Placed), so when the heap is marked nobody is   *)
(* in the middle of a send (Stopped); a message is in one place            *)
(* (OnePlace), and those in the deque are linked one after the other       *)
(* (QueueLinked), so what is neither linked nor on main()'s stack is where *)
(* OnlyTheseAreMissed says.                                                *)
(***************************************************************************)
EXTENDS ThreadSync, Recursion, FiniteSetTheorems, SequenceTheorems, TLAPS

(* Every step keeps the types. *)
LEMMA TypeStep ==
  ASSUME TypeOK, [Next]_vars
  PROVE  TypeOK'
<1> USE DEF Move, At, Goto, world, deque, lock, mutex, start
<1>1. ASSUME UNCHANGED ops, NEW t \in Thread, Unpark(t)
      PROVE  TypeOK'
  BY <1>1 DEF Unpark, TypeOK, Label
<1>2. ASSUME UNCHANGED ops, NEW t \in Thread, Mark(t)
      PROVE  TypeOK'
  BY <1>2 DEF Mark, TypeOK, Label
<1>3. ASSUME UNCHANGED ops, NEW t \in Thread, MarkEnd(t)
      PROVE  TypeOK'
  BY <1>3 DEF MarkEnd, TypeOK, Label
<1>4. ASSUME UNCHANGED ops, NEW t \in Thread, LockQueue(t, "add_lock", "add_in")
      PROVE  TypeOK'
  BY <1>4 DEF LockQueue, TypeOK, Label
<1>5. ASSUME UNCHANGED ops, NEW t \in Thread, LockQueue(t, "push_lock", "push_in")
      PROVE  TypeOK'
  BY <1>5 DEF LockQueue, TypeOK, Label
<1>6. ASSUME UNCHANGED ops, NEW t \in Thread, LockQueue(t, "pop_lock", "pop_in")
      PROVE  TypeOK'
  BY <1>6 DEF LockQueue, TypeOK, Label
<1>7. ASSUME UNCHANGED ops, NEW t \in Thread, Add(t)
      PROVE  TypeOK'
  BY <1>7 DEF Add, SignalQueue, TypeOK, Label
<1>8. ASSUME UNCHANGED ops, NEW t \in Thread, Push(t)
      PROVE  TypeOK'
  <2>1. hand[t] \in Msg \cup {NoMsg} /\ pc' \in [Thread -> Label]
    BY <1>8 DEF Push, SignalQueue, TypeOK, Label
  <2>2. /\ hand' \in [Thread -> Msg \cup {NoMsg}]
        /\ next' \in [Msg -> Msg \cup {NoMsg}]
        /\ {first', last'} \subseteq Msg \cup {NoMsg}
    BY <1>8, <2>1 DEF Push, TypeOK
  <2> QED
    BY <1>8, <2>1, <2>2 DEF Push, TypeOK
<1>9. ASSUME UNCHANGED ops, NEW t \in Thread, Pop(t)
      PROVE  TypeOK'
  <2>1. /\ hand' \in [Thread -> Msg \cup {NoMsg}]
        /\ next' \in [Msg -> Msg \cup {NoMsg}]
        /\ {first', last'} \subseteq Msg \cup {NoMsg}
    BY <1>9 DEF Pop, TypeOK
  <2>2. pc' \in [Thread -> Label]
    BY <1>9 DEF Pop, SignalQueue, TypeOK, Label
  <2> QED
    BY <1>9, <2>1, <2>2 DEF Pop, TypeOK
<1>10. ASSUME UNCHANGED ops, NEW t \in Thread, PopEmpty(t)
      PROVE  TypeOK'
  BY <1>10 DEF PopEmpty, TypeOK, Label
<1>11. ASSUME UNCHANGED ops, NEW t \in Thread, PopReturn(t)
      PROVE  TypeOK'
  BY <1>11 DEF PopReturn, Unblock, TypeOK, Label
<1>12. ASSUME UNCHANGED ops, NEW t \in Thread, LockLock(t, "rel_lock", "rel_in")
      PROVE  TypeOK'
  BY <1>12 DEF LockLock, TypeOK, Label
<1>13. ASSUME UNCHANGED ops, NEW t \in Thread, LockLock(t, "wait_lock", "wait_in")
      PROVE  TypeOK'
  BY <1>13 DEF LockLock, TypeOK, Label
<1>14. ASSUME UNCHANGED ops, NEW t \in Thread, LockRelease(t)
      PROVE  TypeOK'
  BY <1>14 DEF LockRelease, SignalLock, TypeOK, Label
<1>15. ASSUME UNCHANGED ops, NEW t \in Thread, LockTake(t)
      PROVE  TypeOK'
  BY <1>15 DEF LockTake, SignalLock, TypeOK, Label
<1>16. ASSUME UNCHANGED ops, NEW t \in Thread, LockSleep(t)
      PROVE  TypeOK'
  BY <1>16 DEF LockSleep, TypeOK, Label
<1>17. ASSUME UNCHANGED ops, NEW t \in Thread, LockTimeout(t)
      PROVE  TypeOK'
  BY <1>17 DEF LockTimeout, TypeOK, Label
<1>18. ASSUME UNCHANGED ops, NEW t \in Thread, LockLate(t)
      PROVE  TypeOK'
  BY <1>18 DEF LockLate, TypeOK, Label
<1>19. ASSUME UNCHANGED ops, NEW t \in Thread, WaitReturn(t)
      PROVE  TypeOK'
  BY <1>19 DEF WaitReturn, Unblock, TypeOK, Label
<1>20. ASSUME UNCHANGED ops, NEW t \in Thread, MutexLock(t)
      PROVE  TypeOK'
  BY <1>20, MainAssumption DEF MutexLock, TypeOK, Label
<1>21. ASSUME UNCHANGED ops, NEW t \in Thread, MutexReturn(t)
      PROVE  TypeOK'
  BY <1>21 DEF MutexReturn, Unblock, TypeOK, Label
<1>22. ASSUME UNCHANGED ops, NEW t \in Thread, GlobalLock(t)
      PROVE  TypeOK'
  BY <1>22 DEF GlobalLock, TypeOK, Label
<1>23. ASSUME UNCHANGED ops, NEW t \in Thread, GlobalUnlock(t)
      PROVE  TypeOK'
  BY <1>23 DEF GlobalUnlock, TypeOK, Label
<1>24. ASSUME UNCHANGED ops, NEW t \in Thread, Register(t)
      PROVE  TypeOK'
  BY <1>24 DEF Register, TypeOK, Label
<1>25. ASSUME UNCHANGED ops, NEW t \in Thread, Entry(t)
      PROVE  TypeOK'
  BY <1>25 DEF Entry, TypeOK, Label
<1>26. ASSUME UNCHANGED ops, NEW t \in Thread, Started(t)
      PROVE  TypeOK'
  BY <1>26 DEF Started, Unblock, TypeOK, Label
<1>27. ASSUME UNCHANGED ops, NEW t \in Thread, Collect(t)
      PROVE  TypeOK'
  BY <1>27 DEF Collect, TypeOK, Label
<1>28. ASSUME UNCHANGED ops, NEW t \in Thread, Park(t)
      PROVE  TypeOK'
  BY <1>28 DEF Park, TypeOK, Label
<1>29. ASSUME UNCHANGED ops, NEW t \in Thread, Forget(t)
      PROVE  TypeOK'
  BY <1>29 DEF Forget, TypeOK, Label
<1>30. ASSUME UNCHANGED ops, NEW t \in Thread, MutexRelease(t)
      PROVE  TypeOK'
  BY <1>30, MainAssumption DEF MutexRelease, TypeOK, Label
<1>31. ASSUME UNCHANGED ops, NEW t \in Thread, ThreadEnd(t)
      PROVE  TypeOK'
  BY <1>31 DEF ThreadEnd, TypeOK, Label
<1>32. ASSUME UNCHANGED ops, NEW t \in Thread, NEW u \in Thread, ThreadStart(t, u)
      PROVE  TypeOK'
  BY <1>32 DEF ThreadStart, TypeOK, Label
<1>33. ASSUME UNCHANGED ops, NEW t \in Thread, New(t)
      PROVE  TypeOK'
  BY <1>33 DEF New, TypeOK, Label
<1>34. ASSUME UNCHANGED ops, NEW t \in Thread, Send(t, "add_lock")
      PROVE  TypeOK'
  BY <1>34 DEF Send, TypeOK, Label
<1>35. ASSUME UNCHANGED ops, NEW t \in Thread, Send(t, "push_lock")
      PROVE  TypeOK'
  BY <1>35 DEF Send, TypeOK, Label
<1>36. ASSUME UNCHANGED ops, NEW t \in Thread, PopCall(t)
      PROVE  TypeOK'
  BY <1>36 DEF PopCall, Block, TypeOK, Label
<1>37. ASSUME UNCHANGED ops, NEW t \in Thread, ReleaseCall(t)
      PROVE  TypeOK'
  BY <1>37 DEF ReleaseCall, TypeOK, Label
<1>38. ASSUME UNCHANGED ops, NEW t \in Thread, WaitCall(t)
      PROVE  TypeOK'
  BY <1>38 DEF WaitCall, Block, TypeOK, Label
<1>39. ASSUME UNCHANGED ops, NEW t \in Thread, MutexCall(t)
      PROVE  TypeOK'
  BY <1>39 DEF MutexCall, Block, MayNest, TypeOK, Label
<1>40. ASSUME UNCHANGED ops, NEW t \in Thread, GlobalLockCall(t)
      PROVE  TypeOK'
  BY <1>40 DEF GlobalLockCall, TypeOK, Label
<1>42. ASSUME UNCHANGED ops, NEW t \in Thread, MutexTry(t)
      PROVE  TypeOK'
  BY <1>42, MainAssumption DEF MutexTry, TypeOK, Label
<1>43. ASSUME UNCHANGED ops, NEW t \in Thread, StartWait(t)
      PROVE  TypeOK'
  BY <1>43 DEF StartWait, TypeOK, Label
<1>41. CASE UNCHANGED vars
  BY <1>41 DEF vars, state, TypeOK, Label
<1> QED
  BY <1>1, <1>2, <1>3, <1>4, <1>5, <1>6, <1>7, <1>8, <1>9, <1>10, <1>11,
     <1>12, <1>13, <1>14, <1>15, <1>16, <1>17, <1>18, <1>19, <1>20, <1>21,
     <1>22, <1>23, <1>24, <1>25, <1>26, <1>27, <1>28, <1>29, <1>30, <1>31,
     <1>32, <1>33, <1>34, <1>35, <1>36, <1>37, <1>38, <1>39, <1>40, <1>41, <1>42,
     <1>43
     DEF Next, Runtime, Program

(* Every step leaves each thread where its label says. *)
LEMMA PlacedStep ==
  ASSUME TypeOK, Placed, [Next]_vars
  PROVE  Placed'
<1> USE MainAssumption DEF Move, At, Goto, world, deque, lock, mutex, start
<1>1. ASSUME UNCHANGED ops, NEW t \in Thread, Unpark(t)
      PROVE  Placed'
  BY <1>1 DEF Unpark, TypeOK, Label, Placed, Asleep
<1>2. ASSUME UNCHANGED ops, NEW t \in Thread, Mark(t)
      PROVE  Placed'
  BY <1>2 DEF Mark, TypeOK, Label, Placed, Asleep
<1>3. ASSUME UNCHANGED ops, NEW t \in Thread, MarkEnd(t)
      PROVE  Placed'
  BY <1>3 DEF MarkEnd, TypeOK, Label, Placed, Asleep
<1>4. ASSUME UNCHANGED ops, NEW t \in Thread, LockQueue(t, "add_lock", "add_in")
      PROVE  Placed'
  BY <1>4 DEF LockQueue, TypeOK, Label, Placed, Asleep
<1>5. ASSUME UNCHANGED ops, NEW t \in Thread, LockQueue(t, "push_lock", "push_in")
      PROVE  Placed'
  BY <1>5 DEF LockQueue, TypeOK, Label, Placed, Asleep
<1>6. ASSUME UNCHANGED ops, NEW t \in Thread, LockQueue(t, "pop_lock", "pop_in")
      PROVE  Placed'
  BY <1>6 DEF LockQueue, TypeOK, Label, Placed, Asleep
<1>7. ASSUME UNCHANGED ops, NEW t \in Thread, Add(t)
      PROVE  Placed'
  BY <1>7 DEF Add, SignalQueue, TypeOK, Label, Placed, Asleep
<1>8. ASSUME UNCHANGED ops, NEW t \in Thread, Push(t)
      PROVE  Placed'
  BY <1>8 DEF Push, SignalQueue, TypeOK, Label, Placed, Asleep
<1>9. ASSUME UNCHANGED ops, NEW t \in Thread, Pop(t)
      PROVE  Placed'
  BY <1>9 DEF Pop, SignalQueue, TypeOK, Label, Placed, Asleep
<1>10. ASSUME UNCHANGED ops, NEW t \in Thread, PopEmpty(t)
      PROVE  Placed'
  BY <1>10 DEF PopEmpty, TypeOK, Label, Placed, Asleep
<1>11. ASSUME UNCHANGED ops, NEW t \in Thread, PopReturn(t)
      PROVE  Placed'
  BY <1>11 DEF PopReturn, Unblock, TypeOK, Label, Placed, Asleep
<1>12. ASSUME UNCHANGED ops, NEW t \in Thread, LockLock(t, "rel_lock", "rel_in")
      PROVE  Placed'
  BY <1>12 DEF LockLock, TypeOK, Label, Placed, Asleep
<1>13. ASSUME UNCHANGED ops, NEW t \in Thread, LockLock(t, "wait_lock", "wait_in")
      PROVE  Placed'
  BY <1>13 DEF LockLock, TypeOK, Label, Placed, Asleep
<1>14. ASSUME UNCHANGED ops, NEW t \in Thread, LockRelease(t)
      PROVE  Placed'
  BY <1>14 DEF LockRelease, SignalLock, TypeOK, Label, Placed, Asleep
<1>15. ASSUME UNCHANGED ops, NEW t \in Thread, LockTake(t)
      PROVE  Placed'
  BY <1>15 DEF LockTake, SignalLock, TypeOK, Label, Placed, Asleep
<1>16. ASSUME UNCHANGED ops, NEW t \in Thread, LockSleep(t)
      PROVE  Placed'
  BY <1>16 DEF LockSleep, TypeOK, Label, Placed, Asleep
<1>17. ASSUME UNCHANGED ops, NEW t \in Thread, LockTimeout(t)
      PROVE  Placed'
  BY <1>17 DEF LockTimeout, TypeOK, Label, Placed, Asleep
<1>18. ASSUME UNCHANGED ops, NEW t \in Thread, LockLate(t)
      PROVE  Placed'
  BY <1>18 DEF LockLate, TypeOK, Label, Placed, Asleep
<1>19. ASSUME UNCHANGED ops, NEW t \in Thread, WaitReturn(t)
      PROVE  Placed'
  BY <1>19 DEF WaitReturn, Unblock, TypeOK, Label, Placed, Asleep
<1>20. ASSUME UNCHANGED ops, NEW t \in Thread, MutexLock(t)
      PROVE  Placed'
  BY <1>20 DEF MutexLock, TypeOK, Label, Placed, Asleep
<1>21. ASSUME UNCHANGED ops, NEW t \in Thread, MutexReturn(t)
      PROVE  Placed'
  BY <1>21 DEF MutexReturn, Unblock, TypeOK, Label, Placed, Asleep
<1>22. ASSUME UNCHANGED ops, NEW t \in Thread, GlobalLock(t)
      PROVE  Placed'
  BY <1>22 DEF GlobalLock, TypeOK, Label, Placed, Asleep
<1>23. ASSUME UNCHANGED ops, NEW t \in Thread, GlobalUnlock(t)
      PROVE  Placed'
  BY <1>23 DEF GlobalUnlock, TypeOK, Label, Placed, Asleep
<1>24. ASSUME UNCHANGED ops, NEW t \in Thread, Register(t)
      PROVE  Placed'
  BY <1>24 DEF Register, TypeOK, Label, Placed, Asleep
<1>25. ASSUME UNCHANGED ops, NEW t \in Thread, Entry(t)
      PROVE  Placed'
  BY <1>25 DEF Entry, TypeOK, Label, Placed, Asleep
<1>26. ASSUME UNCHANGED ops, NEW t \in Thread, Started(t)
      PROVE  Placed'
  BY <1>26 DEF Started, Unblock, TypeOK, Label, Placed, Asleep
<1>27. ASSUME UNCHANGED ops, NEW t \in Thread, Collect(t)
      PROVE  Placed'
  BY <1>27 DEF Collect, TypeOK, Label, Placed, Asleep
<1>28. ASSUME UNCHANGED ops, NEW t \in Thread, Park(t)
      PROVE  Placed'
  BY <1>28 DEF Park, TypeOK, Label, Placed, Asleep
<1>29. ASSUME UNCHANGED ops, NEW t \in Thread, Forget(t)
      PROVE  Placed'
  BY <1>29 DEF Forget, TypeOK, Label, Placed, Asleep
<1>30. ASSUME UNCHANGED ops, NEW t \in Thread, MutexRelease(t)
      PROVE  Placed'
  BY <1>30 DEF MutexRelease, TypeOK, Label, Placed, Asleep
<1>31. ASSUME UNCHANGED ops, NEW t \in Thread, ThreadEnd(t)
      PROVE  Placed'
  BY <1>31 DEF ThreadEnd, TypeOK, Label, Placed, Asleep
<1>32. ASSUME UNCHANGED ops, NEW t \in Thread, NEW u \in Thread, ThreadStart(t, u)
      PROVE  Placed'
  BY <1>32 DEF ThreadStart, TypeOK, Label, Placed, Asleep
<1>33. ASSUME UNCHANGED ops, NEW t \in Thread, New(t)
      PROVE  Placed'
  BY <1>33 DEF New, TypeOK, Label, Placed, Asleep
<1>34. ASSUME UNCHANGED ops, NEW t \in Thread, Send(t, "add_lock")
      PROVE  Placed'
  BY <1>34 DEF Send, TypeOK, Label, Placed, Asleep
<1>35. ASSUME UNCHANGED ops, NEW t \in Thread, Send(t, "push_lock")
      PROVE  Placed'
  BY <1>35 DEF Send, TypeOK, Label, Placed, Asleep
<1>36. ASSUME UNCHANGED ops, NEW t \in Thread, PopCall(t)
      PROVE  Placed'
  BY <1>36 DEF PopCall, Block, TypeOK, Label, Placed, Asleep
<1>37. ASSUME UNCHANGED ops, NEW t \in Thread, ReleaseCall(t)
      PROVE  Placed'
  BY <1>37 DEF ReleaseCall, TypeOK, Label, Placed, Asleep
<1>38. ASSUME UNCHANGED ops, NEW t \in Thread, WaitCall(t)
      PROVE  Placed'
  BY <1>38 DEF WaitCall, Block, TypeOK, Label, Placed, Asleep
<1>39. ASSUME UNCHANGED ops, NEW t \in Thread, MutexCall(t)
      PROVE  Placed'
  BY <1>39 DEF MutexCall, Block, MayNest, TypeOK, Label, Placed, Asleep
<1>40. ASSUME UNCHANGED ops, NEW t \in Thread, GlobalLockCall(t)
      PROVE  Placed'
  BY <1>40 DEF GlobalLockCall, TypeOK, Label, Placed, Asleep
<1>42. ASSUME UNCHANGED ops, NEW t \in Thread, MutexTry(t)
      PROVE  Placed'
  BY <1>42 DEF MutexTry, TypeOK, Label, Placed, Asleep
<1>43. ASSUME UNCHANGED ops, NEW t \in Thread, StartWait(t)
      PROVE  Placed'
  BY <1>43 DEF StartWait, TypeOK, Label, Placed, Asleep
<1>41. CASE UNCHANGED vars
  BY <1>41 DEF vars, state, TypeOK, Label, Placed, Asleep
<1> QED
  BY <1>1, <1>2, <1>3, <1>4, <1>5, <1>6, <1>7, <1>8, <1>9, <1>10, <1>11,
     <1>12, <1>13, <1>14, <1>15, <1>16, <1>17, <1>18, <1>19, <1>20, <1>21,
     <1>22, <1>23, <1>24, <1>25, <1>26, <1>27, <1>28, <1>29, <1>30, <1>31,
     <1>32, <1>33, <1>34, <1>35, <1>36, <1>37, <1>38, <1>39, <1>40, <1>41, <1>42,
     <1>43
     DEF Next, Runtime, Program

(* No thread comes to run while the world is marked. *)
LEMMA StoppedStep ==
  ASSUME TypeOK, Placed, Stopped, [Next]_vars
  PROVE  Stopped'
<1> USE MainAssumption DEF Move, At, Goto, world, deque, lock, mutex, start
<1>1. ASSUME UNCHANGED ops, NEW t \in Thread, Unpark(t)
      PROVE  Stopped'
  BY <1>1 DEF Unpark, TypeOK, Placed, Asleep, Stopped, Marking, Runs
<1>2. ASSUME UNCHANGED ops, NEW t \in Thread, Mark(t)
      PROVE  Stopped'
  BY <1>2 DEF Mark, TypeOK, Placed, Asleep, Stopped, Marking, Runs
<1>3. ASSUME UNCHANGED ops, NEW t \in Thread, MarkEnd(t)
      PROVE  Stopped'
  BY <1>3 DEF MarkEnd, TypeOK, Placed, Asleep, Stopped, Marking, Runs
<1>4. ASSUME UNCHANGED ops, NEW t \in Thread, LockQueue(t, "add_lock", "add_in")
      PROVE  Stopped'
  BY <1>4 DEF LockQueue, TypeOK, Placed, Asleep, Stopped, Marking, Runs
<1>5. ASSUME UNCHANGED ops, NEW t \in Thread, LockQueue(t, "push_lock", "push_in")
      PROVE  Stopped'
  BY <1>5 DEF LockQueue, TypeOK, Placed, Asleep, Stopped, Marking, Runs
<1>6. ASSUME UNCHANGED ops, NEW t \in Thread, LockQueue(t, "pop_lock", "pop_in")
      PROVE  Stopped'
  BY <1>6 DEF LockQueue, TypeOK, Placed, Asleep, Stopped, Marking, Runs
<1>7. ASSUME UNCHANGED ops, NEW t \in Thread, Add(t)
      PROVE  Stopped'
  BY <1>7 DEF Add, SignalQueue, TypeOK, Placed, Asleep, Stopped, Marking, Runs
<1>8. ASSUME UNCHANGED ops, NEW t \in Thread, Push(t)
      PROVE  Stopped'
  BY <1>8 DEF Push, SignalQueue, TypeOK, Placed, Asleep, Stopped, Marking, Runs
<1>9. ASSUME UNCHANGED ops, NEW t \in Thread, Pop(t)
      PROVE  Stopped'
  BY <1>9 DEF Pop, SignalQueue, TypeOK, Placed, Asleep, Stopped, Marking, Runs
<1>10. ASSUME UNCHANGED ops, NEW t \in Thread, PopEmpty(t)
      PROVE  Stopped'
  BY <1>10 DEF PopEmpty, TypeOK, Placed, Asleep, Stopped, Marking, Runs
<1>11. ASSUME UNCHANGED ops, NEW t \in Thread, PopReturn(t)
      PROVE  Stopped'
  BY <1>11 DEF PopReturn, Unblock, TypeOK, Placed, Asleep, Stopped, Marking, Runs
<1>12. ASSUME UNCHANGED ops, NEW t \in Thread, LockLock(t, "rel_lock", "rel_in")
      PROVE  Stopped'
  BY <1>12 DEF LockLock, TypeOK, Placed, Asleep, Stopped, Marking, Runs
<1>13. ASSUME UNCHANGED ops, NEW t \in Thread, LockLock(t, "wait_lock", "wait_in")
      PROVE  Stopped'
  BY <1>13 DEF LockLock, TypeOK, Placed, Asleep, Stopped, Marking, Runs
<1>14. ASSUME UNCHANGED ops, NEW t \in Thread, LockRelease(t)
      PROVE  Stopped'
  BY <1>14 DEF LockRelease, SignalLock, TypeOK, Placed, Asleep, Stopped, Marking, Runs
<1>15. ASSUME UNCHANGED ops, NEW t \in Thread, LockTake(t)
      PROVE  Stopped'
  BY <1>15 DEF LockTake, SignalLock, TypeOK, Placed, Asleep, Stopped, Marking, Runs
<1>16. ASSUME UNCHANGED ops, NEW t \in Thread, LockSleep(t)
      PROVE  Stopped'
  BY <1>16 DEF LockSleep, TypeOK, Placed, Asleep, Stopped, Marking, Runs
<1>17. ASSUME UNCHANGED ops, NEW t \in Thread, LockTimeout(t)
      PROVE  Stopped'
  BY <1>17 DEF LockTimeout, TypeOK, Placed, Asleep, Stopped, Marking, Runs
<1>18. ASSUME UNCHANGED ops, NEW t \in Thread, LockLate(t)
      PROVE  Stopped'
  BY <1>18 DEF LockLate, TypeOK, Placed, Asleep, Stopped, Marking, Runs
<1>19. ASSUME UNCHANGED ops, NEW t \in Thread, WaitReturn(t)
      PROVE  Stopped'
  BY <1>19 DEF WaitReturn, Unblock, TypeOK, Placed, Asleep, Stopped, Marking, Runs
<1>20. ASSUME UNCHANGED ops, NEW t \in Thread, MutexLock(t)
      PROVE  Stopped'
  BY <1>20 DEF MutexLock, TypeOK, Placed, Asleep, Stopped, Marking, Runs
<1>21. ASSUME UNCHANGED ops, NEW t \in Thread, MutexReturn(t)
      PROVE  Stopped'
  BY <1>21 DEF MutexReturn, Unblock, TypeOK, Placed, Asleep, Stopped, Marking, Runs
<1>22. ASSUME UNCHANGED ops, NEW t \in Thread, GlobalLock(t)
      PROVE  Stopped'
  BY <1>22 DEF GlobalLock, TypeOK, Placed, Asleep, Stopped, Marking, Runs
<1>23. ASSUME UNCHANGED ops, NEW t \in Thread, GlobalUnlock(t)
      PROVE  Stopped'
  BY <1>23 DEF GlobalUnlock, TypeOK, Placed, Asleep, Stopped, Marking, Runs
<1>24. ASSUME UNCHANGED ops, NEW t \in Thread, Register(t)
      PROVE  Stopped'
  BY <1>24 DEF Register, TypeOK, Placed, Asleep, Stopped, Marking, Runs
<1>25. ASSUME UNCHANGED ops, NEW t \in Thread, Entry(t)
      PROVE  Stopped'
  BY <1>25 DEF Entry, TypeOK, Placed, Asleep, Stopped, Marking, Runs
<1>26. ASSUME UNCHANGED ops, NEW t \in Thread, Started(t)
      PROVE  Stopped'
  BY <1>26 DEF Started, Unblock, TypeOK, Placed, Asleep, Stopped, Marking, Runs
<1>27. ASSUME UNCHANGED ops, NEW t \in Thread, Collect(t)
      PROVE  Stopped'
  BY <1>27 DEF Collect, TypeOK, Placed, Asleep, Stopped, Marking, Runs
<1>28. ASSUME UNCHANGED ops, NEW t \in Thread, Park(t)
      PROVE  Stopped'
  BY <1>28 DEF Park, TypeOK, Placed, Asleep, Stopped, Marking, Runs
<1>29. ASSUME UNCHANGED ops, NEW t \in Thread, Forget(t)
      PROVE  Stopped'
  BY <1>29 DEF Forget, TypeOK, Placed, Asleep, Stopped, Marking, Runs
<1>30. ASSUME UNCHANGED ops, NEW t \in Thread, MutexRelease(t)
      PROVE  Stopped'
  BY <1>30 DEF MutexRelease, TypeOK, Placed, Asleep, Stopped, Marking, Runs
<1>31. ASSUME UNCHANGED ops, NEW t \in Thread, ThreadEnd(t)
      PROVE  Stopped'
  BY <1>31 DEF ThreadEnd, TypeOK, Placed, Asleep, Stopped, Marking, Runs
<1>32. ASSUME UNCHANGED ops, NEW t \in Thread, NEW u \in Thread, ThreadStart(t, u)
      PROVE  Stopped'
  BY <1>32 DEF ThreadStart, TypeOK, Placed, Asleep, Stopped, Marking, Runs
<1>33. ASSUME UNCHANGED ops, NEW t \in Thread, New(t)
      PROVE  Stopped'
  BY <1>33 DEF New, TypeOK, Placed, Asleep, Stopped, Marking, Runs
<1>34. ASSUME UNCHANGED ops, NEW t \in Thread, Send(t, "add_lock")
      PROVE  Stopped'
  BY <1>34 DEF Send, TypeOK, Placed, Asleep, Stopped, Marking, Runs
<1>35. ASSUME UNCHANGED ops, NEW t \in Thread, Send(t, "push_lock")
      PROVE  Stopped'
  BY <1>35 DEF Send, TypeOK, Placed, Asleep, Stopped, Marking, Runs
<1>36. ASSUME UNCHANGED ops, NEW t \in Thread, PopCall(t)
      PROVE  Stopped'
  BY <1>36 DEF PopCall, Block, TypeOK, Placed, Asleep, Stopped, Marking, Runs
<1>37. ASSUME UNCHANGED ops, NEW t \in Thread, ReleaseCall(t)
      PROVE  Stopped'
  BY <1>37 DEF ReleaseCall, TypeOK, Placed, Asleep, Stopped, Marking, Runs
<1>38. ASSUME UNCHANGED ops, NEW t \in Thread, WaitCall(t)
      PROVE  Stopped'
  BY <1>38 DEF WaitCall, Block, TypeOK, Placed, Asleep, Stopped, Marking, Runs
<1>39. ASSUME UNCHANGED ops, NEW t \in Thread, MutexCall(t)
      PROVE  Stopped'
  BY <1>39 DEF MutexCall, Block, MayNest, TypeOK, Placed, Asleep, Stopped, Marking, Runs
<1>40. ASSUME UNCHANGED ops, NEW t \in Thread, GlobalLockCall(t)
      PROVE  Stopped'
  BY <1>40 DEF GlobalLockCall, TypeOK, Placed, Asleep, Stopped, Marking, Runs
<1>42. ASSUME UNCHANGED ops, NEW t \in Thread, MutexTry(t)
      PROVE  Stopped'
  BY <1>42 DEF MutexTry, TypeOK, Placed, Asleep, Stopped, Marking, Runs
<1>43. ASSUME UNCHANGED ops, NEW t \in Thread, StartWait(t)
      PROVE  Stopped'
  BY <1>43 DEF StartWait, TypeOK, Placed, Asleep, Stopped, Marking, Runs
<1>41. CASE UNCHANGED vars
  BY <1>41 DEF vars, state, TypeOK, Placed, Asleep, Stopped, Marking, Runs
<1> QED
  BY <1>1, <1>2, <1>3, <1>4, <1>5, <1>6, <1>7, <1>8, <1>9, <1>10, <1>11,
     <1>12, <1>13, <1>14, <1>15, <1>16, <1>17, <1>18, <1>19, <1>20, <1>21,
     <1>22, <1>23, <1>24, <1>25, <1>26, <1>27, <1>28, <1>29, <1>30, <1>31,
     <1>32, <1>33, <1>34, <1>35, <1>36, <1>37, <1>38, <1>39, <1>40, <1>41, <1>42,
     <1>43
     DEF Next, Runtime, Program

(* Every step keeps messages where their carrier's label says. *)
LEMMA CarriedStep ==
  ASSUME TypeOK, Placed, Carried, [Next]_vars
  PROVE  Carried'
<1> USE MainAssumption, MsgAssumption DEF Move, At, Goto, world, deque, lock, mutex, start
<1>1. ASSUME UNCHANGED ops, NEW t \in Thread, Unpark(t)
      PROVE  Carried'
  BY <1>1 DEF Unpark, TypeOK, Placed, Carried, Sending
<1>2. ASSUME UNCHANGED ops, NEW t \in Thread, Mark(t)
      PROVE  Carried'
  BY <1>2 DEF Mark, TypeOK, Placed, Carried, Sending
<1>3. ASSUME UNCHANGED ops, NEW t \in Thread, MarkEnd(t)
      PROVE  Carried'
  BY <1>3 DEF MarkEnd, TypeOK, Placed, Carried, Sending
<1>4. ASSUME UNCHANGED ops, NEW t \in Thread, LockQueue(t, "add_lock", "add_in")
      PROVE  Carried'
  BY <1>4 DEF LockQueue, TypeOK, Placed, Carried, Sending
<1>5. ASSUME UNCHANGED ops, NEW t \in Thread, LockQueue(t, "push_lock", "push_in")
      PROVE  Carried'
  BY <1>5 DEF LockQueue, TypeOK, Placed, Carried, Sending
<1>6. ASSUME UNCHANGED ops, NEW t \in Thread, LockQueue(t, "pop_lock", "pop_in")
      PROVE  Carried'
  BY <1>6 DEF LockQueue, TypeOK, Placed, Carried, Sending
<1>7. ASSUME UNCHANGED ops, NEW t \in Thread, Add(t)
      PROVE  Carried'
  BY <1>7 DEF Add, SignalQueue, TypeOK, Placed, Carried, Sending
<1>8. ASSUME UNCHANGED ops, NEW t \in Thread, Push(t)
      PROVE  Carried'
  BY <1>8 DEF Push, SignalQueue, TypeOK, Placed, Carried, Sending
<1>9. ASSUME UNCHANGED ops, NEW t \in Thread, Pop(t)
      PROVE  Carried'
  BY <1>9 DEF Pop, SignalQueue, TypeOK, Placed, Carried, Sending
<1>10. ASSUME UNCHANGED ops, NEW t \in Thread, PopEmpty(t)
      PROVE  Carried'
  BY <1>10 DEF PopEmpty, TypeOK, Placed, Carried, Sending
<1>11. ASSUME UNCHANGED ops, NEW t \in Thread, PopReturn(t)
      PROVE  Carried'
  BY <1>11 DEF PopReturn, Unblock, TypeOK, Placed, Carried, Sending
<1>12. ASSUME UNCHANGED ops, NEW t \in Thread, LockLock(t, "rel_lock", "rel_in")
      PROVE  Carried'
  BY <1>12 DEF LockLock, TypeOK, Placed, Carried, Sending
<1>13. ASSUME UNCHANGED ops, NEW t \in Thread, LockLock(t, "wait_lock", "wait_in")
      PROVE  Carried'
  BY <1>13 DEF LockLock, TypeOK, Placed, Carried, Sending
<1>14. ASSUME UNCHANGED ops, NEW t \in Thread, LockRelease(t)
      PROVE  Carried'
  BY <1>14 DEF LockRelease, SignalLock, TypeOK, Placed, Carried, Sending
<1>15. ASSUME UNCHANGED ops, NEW t \in Thread, LockTake(t)
      PROVE  Carried'
  BY <1>15 DEF LockTake, SignalLock, TypeOK, Placed, Carried, Sending
<1>16. ASSUME UNCHANGED ops, NEW t \in Thread, LockSleep(t)
      PROVE  Carried'
  BY <1>16 DEF LockSleep, TypeOK, Placed, Carried, Sending
<1>17. ASSUME UNCHANGED ops, NEW t \in Thread, LockTimeout(t)
      PROVE  Carried'
  BY <1>17 DEF LockTimeout, TypeOK, Placed, Carried, Sending
<1>18. ASSUME UNCHANGED ops, NEW t \in Thread, LockLate(t)
      PROVE  Carried'
  BY <1>18 DEF LockLate, TypeOK, Placed, Carried, Sending
<1>19. ASSUME UNCHANGED ops, NEW t \in Thread, WaitReturn(t)
      PROVE  Carried'
  BY <1>19 DEF WaitReturn, Unblock, TypeOK, Placed, Carried, Sending
<1>20. ASSUME UNCHANGED ops, NEW t \in Thread, MutexLock(t)
      PROVE  Carried'
  BY <1>20 DEF MutexLock, TypeOK, Placed, Carried, Sending
<1>21. ASSUME UNCHANGED ops, NEW t \in Thread, MutexReturn(t)
      PROVE  Carried'
  BY <1>21 DEF MutexReturn, Unblock, TypeOK, Placed, Carried, Sending
<1>22. ASSUME UNCHANGED ops, NEW t \in Thread, GlobalLock(t)
      PROVE  Carried'
  BY <1>22 DEF GlobalLock, TypeOK, Placed, Carried, Sending
<1>23. ASSUME UNCHANGED ops, NEW t \in Thread, GlobalUnlock(t)
      PROVE  Carried'
  BY <1>23 DEF GlobalUnlock, TypeOK, Placed, Carried, Sending
<1>24. ASSUME UNCHANGED ops, NEW t \in Thread, Register(t)
      PROVE  Carried'
  BY <1>24 DEF Register, TypeOK, Placed, Carried, Sending
<1>25. ASSUME UNCHANGED ops, NEW t \in Thread, Entry(t)
      PROVE  Carried'
  BY <1>25 DEF Entry, TypeOK, Placed, Carried, Sending
<1>26. ASSUME UNCHANGED ops, NEW t \in Thread, Started(t)
      PROVE  Carried'
  BY <1>26 DEF Started, Unblock, TypeOK, Placed, Carried, Sending
<1>27. ASSUME UNCHANGED ops, NEW t \in Thread, Collect(t)
      PROVE  Carried'
  BY <1>27 DEF Collect, TypeOK, Placed, Carried, Sending
<1>28. ASSUME UNCHANGED ops, NEW t \in Thread, Park(t)
      PROVE  Carried'
  BY <1>28 DEF Park, TypeOK, Placed, Carried, Sending
<1>29. ASSUME UNCHANGED ops, NEW t \in Thread, Forget(t)
      PROVE  Carried'
  BY <1>29 DEF Forget, TypeOK, Placed, Carried, Sending
<1>30. ASSUME UNCHANGED ops, NEW t \in Thread, MutexRelease(t)
      PROVE  Carried'
  BY <1>30 DEF MutexRelease, TypeOK, Placed, Carried, Sending
<1>31. ASSUME UNCHANGED ops, NEW t \in Thread, ThreadEnd(t)
      PROVE  Carried'
  BY <1>31 DEF ThreadEnd, TypeOK, Placed, Carried, Sending
<1>32. ASSUME UNCHANGED ops, NEW t \in Thread, NEW u \in Thread, ThreadStart(t, u)
      PROVE  Carried'
  BY <1>32 DEF ThreadStart, TypeOK, Placed, Carried, Sending
<1>33. ASSUME UNCHANGED ops, NEW t \in Thread, New(t)
      PROVE  Carried'
  BY <1>33 DEF New, TypeOK, Placed, Carried, Sending
<1>34. ASSUME UNCHANGED ops, NEW t \in Thread, Send(t, "add_lock")
      PROVE  Carried'
  BY <1>34 DEF Send, TypeOK, Placed, Carried, Sending
<1>35. ASSUME UNCHANGED ops, NEW t \in Thread, Send(t, "push_lock")
      PROVE  Carried'
  BY <1>35 DEF Send, TypeOK, Placed, Carried, Sending
<1>36. ASSUME UNCHANGED ops, NEW t \in Thread, PopCall(t)
      PROVE  Carried'
  BY <1>36 DEF PopCall, Block, TypeOK, Placed, Carried, Sending
<1>37. ASSUME UNCHANGED ops, NEW t \in Thread, ReleaseCall(t)
      PROVE  Carried'
  BY <1>37 DEF ReleaseCall, TypeOK, Placed, Carried, Sending
<1>38. ASSUME UNCHANGED ops, NEW t \in Thread, WaitCall(t)
      PROVE  Carried'
  BY <1>38 DEF WaitCall, Block, TypeOK, Placed, Carried, Sending
<1>39. ASSUME UNCHANGED ops, NEW t \in Thread, MutexCall(t)
      PROVE  Carried'
  BY <1>39 DEF MutexCall, Block, MayNest, TypeOK, Placed, Carried, Sending
<1>40. ASSUME UNCHANGED ops, NEW t \in Thread, GlobalLockCall(t)
      PROVE  Carried'
  BY <1>40 DEF GlobalLockCall, TypeOK, Placed, Carried, Sending
<1>42. ASSUME UNCHANGED ops, NEW t \in Thread, MutexTry(t)
      PROVE  Carried'
  BY <1>42 DEF MutexTry, TypeOK, Placed, Carried, Sending
<1>43. ASSUME UNCHANGED ops, NEW t \in Thread, StartWait(t)
      PROVE  Carried'
  BY <1>43 DEF StartWait, TypeOK, Placed, Carried, Sending
<1>41. CASE UNCHANGED vars
  BY <1>41 DEF vars, state, TypeOK, Placed, Carried, Sending
<1> QED
  BY <1>1, <1>2, <1>3, <1>4, <1>5, <1>6, <1>7, <1>8, <1>9, <1>10, <1>11,
     <1>12, <1>13, <1>14, <1>15, <1>16, <1>17, <1>18, <1>19, <1>20, <1>21,
     <1>22, <1>23, <1>24, <1>25, <1>26, <1>27, <1>28, <1>29, <1>30, <1>31,
     <1>32, <1>33, <1>34, <1>35, <1>36, <1>37, <1>38, <1>39, <1>40, <1>41, <1>42,
     <1>43
     DEF Next, Runtime, Program

(* Every step that leaves something to take wakes who takes it. *)
LEMMA WakeStep ==
  ASSUME TypeOK, NoWaiterForgotten, [Next]_vars
  PROVE  NoWaiterForgotten'
<1> USE MsgAssumption DEF Move, At, Goto, world, deque, lock, mutex, start
<1>1. ASSUME UNCHANGED ops, NEW t \in Thread, Unpark(t)
      PROVE  NoWaiterForgotten'
  BY <1>1 DEF Unpark, TypeOK, NoWaiterForgotten
<1>2. ASSUME UNCHANGED ops, NEW t \in Thread, Mark(t)
      PROVE  NoWaiterForgotten'
  BY <1>2 DEF Mark, TypeOK, NoWaiterForgotten
<1>3. ASSUME UNCHANGED ops, NEW t \in Thread, MarkEnd(t)
      PROVE  NoWaiterForgotten'
  BY <1>3 DEF MarkEnd, TypeOK, NoWaiterForgotten
<1>4. ASSUME UNCHANGED ops, NEW t \in Thread, LockQueue(t, "add_lock", "add_in")
      PROVE  NoWaiterForgotten'
  BY <1>4 DEF LockQueue, TypeOK, NoWaiterForgotten
<1>5. ASSUME UNCHANGED ops, NEW t \in Thread, LockQueue(t, "push_lock", "push_in")
      PROVE  NoWaiterForgotten'
  BY <1>5 DEF LockQueue, TypeOK, NoWaiterForgotten
<1>6. ASSUME UNCHANGED ops, NEW t \in Thread, LockQueue(t, "pop_lock", "pop_in")
      PROVE  NoWaiterForgotten'
  BY <1>6 DEF LockQueue, TypeOK, NoWaiterForgotten
<1>7. ASSUME UNCHANGED ops, NEW t \in Thread, Add(t)
      PROVE  NoWaiterForgotten'
  BY <1>7 DEF Add, SignalQueue, TypeOK, NoWaiterForgotten
<1>8. ASSUME UNCHANGED ops, NEW t \in Thread, Push(t)
      PROVE  NoWaiterForgotten'
  BY <1>8 DEF Push, SignalQueue, TypeOK, NoWaiterForgotten
<1>9. ASSUME UNCHANGED ops, NEW t \in Thread, Pop(t)
      PROVE  NoWaiterForgotten'
  BY <1>9 DEF Pop, SignalQueue, TypeOK, NoWaiterForgotten
<1>10. ASSUME UNCHANGED ops, NEW t \in Thread, PopEmpty(t)
      PROVE  NoWaiterForgotten'
  BY <1>10 DEF PopEmpty, TypeOK, NoWaiterForgotten
<1>11. ASSUME UNCHANGED ops, NEW t \in Thread, PopReturn(t)
      PROVE  NoWaiterForgotten'
  BY <1>11 DEF PopReturn, Unblock, TypeOK, NoWaiterForgotten
<1>12. ASSUME UNCHANGED ops, NEW t \in Thread, LockLock(t, "rel_lock", "rel_in")
      PROVE  NoWaiterForgotten'
  BY <1>12 DEF LockLock, TypeOK, NoWaiterForgotten
<1>13. ASSUME UNCHANGED ops, NEW t \in Thread, LockLock(t, "wait_lock", "wait_in")
      PROVE  NoWaiterForgotten'
  BY <1>13 DEF LockLock, TypeOK, NoWaiterForgotten
<1>14. ASSUME UNCHANGED ops, NEW t \in Thread, LockRelease(t)
      PROVE  NoWaiterForgotten'
  BY <1>14 DEF LockRelease, SignalLock, TypeOK, NoWaiterForgotten
<1>15. ASSUME UNCHANGED ops, NEW t \in Thread, LockTake(t)
      PROVE  NoWaiterForgotten'
  BY <1>15 DEF LockTake, SignalLock, TypeOK, NoWaiterForgotten
<1>16. ASSUME UNCHANGED ops, NEW t \in Thread, LockSleep(t)
      PROVE  NoWaiterForgotten'
  BY <1>16 DEF LockSleep, TypeOK, NoWaiterForgotten
<1>17. ASSUME UNCHANGED ops, NEW t \in Thread, LockTimeout(t)
      PROVE  NoWaiterForgotten'
  BY <1>17 DEF LockTimeout, TypeOK, NoWaiterForgotten
<1>18. ASSUME UNCHANGED ops, NEW t \in Thread, LockLate(t)
      PROVE  NoWaiterForgotten'
  BY <1>18 DEF LockLate, TypeOK, NoWaiterForgotten
<1>19. ASSUME UNCHANGED ops, NEW t \in Thread, WaitReturn(t)
      PROVE  NoWaiterForgotten'
  BY <1>19 DEF WaitReturn, Unblock, TypeOK, NoWaiterForgotten
<1>20. ASSUME UNCHANGED ops, NEW t \in Thread, MutexLock(t)
      PROVE  NoWaiterForgotten'
  BY <1>20 DEF MutexLock, TypeOK, NoWaiterForgotten
<1>21. ASSUME UNCHANGED ops, NEW t \in Thread, MutexReturn(t)
      PROVE  NoWaiterForgotten'
  BY <1>21 DEF MutexReturn, Unblock, TypeOK, NoWaiterForgotten
<1>22. ASSUME UNCHANGED ops, NEW t \in Thread, GlobalLock(t)
      PROVE  NoWaiterForgotten'
  BY <1>22 DEF GlobalLock, TypeOK, NoWaiterForgotten
<1>23. ASSUME UNCHANGED ops, NEW t \in Thread, GlobalUnlock(t)
      PROVE  NoWaiterForgotten'
  BY <1>23 DEF GlobalUnlock, TypeOK, NoWaiterForgotten
<1>24. ASSUME UNCHANGED ops, NEW t \in Thread, Register(t)
      PROVE  NoWaiterForgotten'
  BY <1>24 DEF Register, TypeOK, NoWaiterForgotten
<1>25. ASSUME UNCHANGED ops, NEW t \in Thread, Entry(t)
      PROVE  NoWaiterForgotten'
  BY <1>25 DEF Entry, TypeOK, NoWaiterForgotten
<1>26. ASSUME UNCHANGED ops, NEW t \in Thread, Started(t)
      PROVE  NoWaiterForgotten'
  BY <1>26 DEF Started, Unblock, TypeOK, NoWaiterForgotten
<1>27. ASSUME UNCHANGED ops, NEW t \in Thread, Collect(t)
      PROVE  NoWaiterForgotten'
  BY <1>27 DEF Collect, TypeOK, NoWaiterForgotten
<1>28. ASSUME UNCHANGED ops, NEW t \in Thread, Park(t)
      PROVE  NoWaiterForgotten'
  BY <1>28 DEF Park, TypeOK, NoWaiterForgotten
<1>29. ASSUME UNCHANGED ops, NEW t \in Thread, Forget(t)
      PROVE  NoWaiterForgotten'
  BY <1>29 DEF Forget, TypeOK, NoWaiterForgotten
<1>30. ASSUME UNCHANGED ops, NEW t \in Thread, MutexRelease(t)
      PROVE  NoWaiterForgotten'
  BY <1>30 DEF MutexRelease, TypeOK, NoWaiterForgotten
<1>31. ASSUME UNCHANGED ops, NEW t \in Thread, ThreadEnd(t)
      PROVE  NoWaiterForgotten'
  BY <1>31 DEF ThreadEnd, TypeOK, NoWaiterForgotten
<1>32. ASSUME UNCHANGED ops, NEW t \in Thread, NEW u \in Thread, ThreadStart(t, u)
      PROVE  NoWaiterForgotten'
  BY <1>32 DEF ThreadStart, TypeOK, NoWaiterForgotten
<1>33. ASSUME UNCHANGED ops, NEW t \in Thread, New(t)
      PROVE  NoWaiterForgotten'
  BY <1>33 DEF New, TypeOK, NoWaiterForgotten
<1>34. ASSUME UNCHANGED ops, NEW t \in Thread, Send(t, "add_lock")
      PROVE  NoWaiterForgotten'
  BY <1>34 DEF Send, TypeOK, NoWaiterForgotten
<1>35. ASSUME UNCHANGED ops, NEW t \in Thread, Send(t, "push_lock")
      PROVE  NoWaiterForgotten'
  BY <1>35 DEF Send, TypeOK, NoWaiterForgotten
<1>36. ASSUME UNCHANGED ops, NEW t \in Thread, PopCall(t)
      PROVE  NoWaiterForgotten'
  BY <1>36 DEF PopCall, Block, TypeOK, NoWaiterForgotten
<1>37. ASSUME UNCHANGED ops, NEW t \in Thread, ReleaseCall(t)
      PROVE  NoWaiterForgotten'
  BY <1>37 DEF ReleaseCall, TypeOK, NoWaiterForgotten
<1>38. ASSUME UNCHANGED ops, NEW t \in Thread, WaitCall(t)
      PROVE  NoWaiterForgotten'
  BY <1>38 DEF WaitCall, Block, TypeOK, NoWaiterForgotten
<1>39. ASSUME UNCHANGED ops, NEW t \in Thread, MutexCall(t)
      PROVE  NoWaiterForgotten'
  BY <1>39 DEF MutexCall, Block, MayNest, TypeOK, NoWaiterForgotten
<1>40. ASSUME UNCHANGED ops, NEW t \in Thread, GlobalLockCall(t)
      PROVE  NoWaiterForgotten'
  BY <1>40 DEF GlobalLockCall, TypeOK, NoWaiterForgotten
<1>42. ASSUME UNCHANGED ops, NEW t \in Thread, MutexTry(t)
      PROVE  NoWaiterForgotten'
  BY <1>42 DEF MutexTry, TypeOK, NoWaiterForgotten
<1>43. ASSUME UNCHANGED ops, NEW t \in Thread, StartWait(t)
      PROVE  NoWaiterForgotten'
  BY <1>43 DEF StartWait, TypeOK, NoWaiterForgotten
<1>41. CASE UNCHANGED vars
  BY <1>41 DEF vars, state, TypeOK, NoWaiterForgotten
<1> QED
  BY <1>1, <1>2, <1>3, <1>4, <1>5, <1>6, <1>7, <1>8, <1>9, <1>10, <1>11,
     <1>12, <1>13, <1>14, <1>15, <1>16, <1>17, <1>18, <1>19, <1>20, <1>21,
     <1>22, <1>23, <1>24, <1>25, <1>26, <1>27, <1>28, <1>29, <1>30, <1>31,
     <1>32, <1>33, <1>34, <1>35, <1>36, <1>37, <1>38, <1>39, <1>40, <1>41, <1>42,
     <1>43
     DEF Next, Runtime, Program

-----------------------------------------------------------------------------
(* The deque. *)

\* The recursive function Chain, round by round.
LEMMA ChainSteps ==
  ASSUME NEW links \in [Msg -> Msg \cup {NoMsg}]
  PROVE  /\ \A m \in Msg \cup {NoMsg} : Chain(links)[0][m] = <<>>
         /\ \A n \in Nat :
              /\ Chain(links)[n + 1][NoMsg] = <<>>
              /\ \A m \in Msg :
                   Chain(links)[n + 1][m] = <<m>> \o Chain(links)[n][links[m]]
<1> DEFINE Node == Msg \cup {NoMsg}
           S == [Node -> Seq(Msg)]
           none == [m \in Node |-> <<>>]
           Longer(g) == [m \in Node |-> IF m = NoMsg THEN <<>> ELSE <<m>> \o g[links[m]]]
           step == [n \in Nat |-> [g \in S |-> Longer(g)]]
           Is(f) == f = [n \in Nat |->
                      [m \in Node |-> IF m = NoMsg \/ n = 0 THEN <<>>
                                      ELSE <<m>> \o f[n - 1][links[m]]]]
<1>1. none \in S
  BY EmptySeq
<1>2. ASSUME NEW g \in S PROVE Longer(g) \in S
  <2>1. ASSUME NEW m \in Node
        PROVE  (IF m = NoMsg THEN <<>> ELSE <<m>> \o g[links[m]]) \in Seq(Msg)
    <3>1. CASE m = NoMsg
      BY <3>1, EmptySeq
    <3>2. CASE m # NoMsg
      <4>1. <<m>> \in Seq(Msg) /\ g[links[m]] \in Seq(Msg)
        BY <3>2
      <4> QED
        BY <3>2, <4>1, ConcatProperties
    <3> QED
      BY <3>1, <3>2
  <2> QED
    BY <2>1
<1> HIDE DEF S, Longer
<1>3. step \in [Nat -> [S -> S]]
  BY <1>2
<1>4. PICK f : f \in [Nat -> S] /\ f[0] = none /\ \A n \in Nat : f[n + 1] = step[n + 1][f[n]]
  <2> HIDE DEF step, none
  <2>1. PICK f : Iterates(f, S, none, step)
    BY <1>1, <1>3, Iteration, Zenon
  <2> QED
    BY <2>1, Zenon DEF Iterates
<1>5. \A n \in Nat : f[n + 1] = Longer(f[n])
  <2>1. \A n \in Nat : n + 1 \in Nat /\ f[n] \in S
    BY <1>4
  <2>2. \A n \in Nat, g \in S : step[n][g] = Longer(g)
    OBVIOUS
  <2> HIDE DEF step
  <2> QED
    BY <1>4, <2>1, <2>2, Zenon
<1>6. Is(f)
  <2>1. ASSUME NEW n \in Nat
        PROVE  f[n] = [m \in Node |-> IF m = NoMsg \/ n = 0 THEN <<>>
                                      ELSE <<m>> \o f[n - 1][links[m]]]
    <3>1. CASE n = 0
      BY <1>4, <3>1
    <3>2. CASE n # 0
      <4>1. n - 1 \in Nat /\ (n - 1) + 1 = n
        BY <3>2
      <4>2. f[n] = Longer(f[n - 1])
        BY <1>5, <4>1
      <4> QED
        BY <3>2, <4>2 DEF Longer
    <3> QED
      BY <3>1, <3>2
  <2> HIDE DEF step
  <2> QED
    BY <1>4, <2>1
<1>7. Chain(links) = CHOOSE g : Is(g)
  BY DEF Chain
<1> HIDE DEF Is
<1>8. Is(Chain(links))
  BY <1>6, <1>7, Zenon
<1> DEFINE g == Chain(links)
<1> HIDE DEF g
<1>9. g = [n \in Nat |-> [m \in Node |-> IF m = NoMsg \/ n = 0 THEN <<>>
                                         ELSE <<m>> \o g[n - 1][links[m]]]]
  BY <1>8, Zenon DEF Is, g
<1>10. ASSUME NEW n \in Nat, NEW m \in Node
       PROVE  g[n][m] = IF m = NoMsg \/ n = 0 THEN <<>> ELSE <<m>> \o g[n - 1][links[m]]
  <2> DEFINE At1(k, h, x) == IF x = NoMsg \/ k = 0 THEN <<>> ELSE <<x>> \o h[links[x]]
             Row(k, h) == [x \in Node |-> At1(k, h, x)]
  <2>1. g = [k \in Nat |-> Row(k, g[k - 1])]
    BY <1>9, Zenon
  <2> HIDE DEF Row
  <2>2. g[n] = Row(n, g[n - 1])
    BY <2>1
  <2> HIDE DEF At1, Node
  <2>3. g[n][m] = At1(n, g[n - 1], m)
    BY <2>2 DEF Row
  <2> QED
    BY <2>3, Zenon DEF At1
<1>11. /\ \A m \in Node : g[0][m] = <<>>
       /\ \A n \in Nat : /\ g[n + 1][NoMsg] = <<>>
                         /\ \A m \in Msg : g[n + 1][m] = <<m>> \o g[n][links[m]]
  <2>1. NoMsg \in Node /\ \A m \in Msg : m \in Node /\ m # NoMsg
    BY MsgAssumption
  <2> HIDE DEF Node
  <2>2. \A m \in Node : g[0][m] = <<>>
    BY <1>10, Zenon
  <2>3. ASSUME NEW n \in Nat
        PROVE  /\ g[n + 1][NoMsg] = <<>>
               /\ \A m \in Msg : g[n + 1][m] = <<m>> \o g[n][links[m]]
    <3>1. n + 1 \in Nat /\ n + 1 # 0 /\ (n + 1) - 1 = n
      OBVIOUS
    <3>2. g[n + 1][NoMsg] = <<>>
      BY <1>10, <2>1, <3>1, Zenon
    <3>3. ASSUME NEW m \in Msg PROVE g[n + 1][m] = <<m>> \o g[n][links[m]]
      BY <1>10, <2>1, <3>1, Zenon
    <3> QED
      BY <3>2, <3>3
  <2> QED
    BY <2>2, <2>3
<1> QED
  BY <1>11 DEF g

\* A deque whose nodes are s reads as s.
LEMMA Reads ==
  ASSUME NEW links \in [Msg -> Msg \cup {NoMsg}], NEW f, NEW l, NEW s,
         Linked(f, l, links, s)
  PROVE  Chain(links)[Cardinality(Msg)][f] = s
<1> DEFINE c == Chain(links)
           From(i) == IF i > Len(s) THEN NoMsg ELSE s[i]
           T == {n \in Nat : \A i \in 1 .. Len(s) + 1 :
                   Len(s) + 1 <= n + i => c[n][From(i)] = SubSeq(s, i, Len(s))}
<1>1. /\ s \in Seq(Msg) /\ Len(s) \in Nat /\ DOMAIN s = 1 .. Len(s)
      /\ \A i \in 1 .. Len(s) : s[i] \in Msg
  BY LenProperties DEF Linked
<1>2. /\ \A m \in Msg \cup {NoMsg} : c[0][m] = <<>>
      /\ \A n \in Nat : /\ c[n + 1][NoMsg] = <<>>
                        /\ \A m \in Msg : c[n + 1][m] = <<m>> \o c[n][links[m]]
  BY ChainSteps
<1> HIDE DEF c
<1>3. SubSeq(s, Len(s) + 1, Len(s)) = <<>>
  BY <1>1, SubSeqEmpty
<1>4. 0 \in T
  <2>1. ASSUME NEW i \in 1 .. Len(s) + 1, Len(s) + 1 <= 0 + i
        PROVE  c[0][From(i)] = SubSeq(s, i, Len(s))
    <3>1. i = Len(s) + 1 /\ From(i) = NoMsg
      BY <1>1, <2>1
    <3> QED
      BY <1>2, <1>3, <3>1
  <2> QED
    BY <2>1
<1>5. ASSUME NEW n \in Nat, n \in T PROVE n + 1 \in T
  <2>1. ASSUME NEW i \in 1 .. Len(s) + 1, Len(s) + 1 <= (n + 1) + i
        PROVE  c[n + 1][From(i)] = SubSeq(s, i, Len(s))
    <3>1. CASE i = Len(s) + 1
      <4>1. From(i) = NoMsg
        BY <1>1, <3>1
      <4> QED
        BY <1>2, <1>3, <3>1, <4>1
    <3>2. CASE i # Len(s) + 1
      <4>1. /\ i \in 1 .. Len(s) /\ From(i) = s[i] /\ i + 1 \in 1 .. Len(s) + 1
            /\ Len(s) + 1 <= n + (i + 1)
        BY <1>1, <2>1, <3>2
      <4>2. links[s[i]] = From(i + 1)
        <5>1. links[s[i]] = IF i = Len(s) THEN NoMsg ELSE s[i + 1]
          BY <1>1, <4>1 DEF Linked
        <5> QED
          BY <1>1, <4>1, <5>1
      <4>3. c[n][From(i + 1)] = SubSeq(s, i + 1, Len(s))
        BY <1>5, <4>1
      <4>4. SubSeq(s, i, Len(s)) = <<s[i]>> \o SubSeq(s, i + 1, Len(s))
        <5>1. Len(s) \in i .. Len(s)
          BY <1>1, <4>1
        <5> QED
          BY <1>1, <4>1, <5>1, SubSeqRecursiveFirst
      <4>5. s[i] \in Msg
        BY <1>1, <4>1
      <4> HIDE DEF From
      <4> QED
        BY <1>2, <4>1, <4>2, <4>3, <4>4, <4>5
    <3> QED
      BY <3>1, <3>2
  <2> HIDE DEF From
  <2> QED
    BY <2>1
<1>6. \A n \in Nat : n \in T
  <2> HIDE DEF T
  <2> QED
    BY <1>4, <1>5, Induction
<1>7. Cardinality(Msg) \in Nat /\ Len(s) <= Cardinality(Msg)
  <2>1. IsFiniteSet(Msg)
    BY MsgAssumption
  <2>2. s \in Injection(1 .. Len(s), Msg)
    <3>1. s \in [1 .. Len(s) -> Msg]
      BY <1>1, LenProperties
    <3>2. \A i, j \in 1 .. Len(s) : s[i] = s[j] => i = j
      BY <1>1 DEF Linked
    <3> QED
      BY <3>1, <3>2 DEF Injection, IsInjective
  <2>3. Cardinality(1 .. Len(s)) <= Cardinality(Msg)
    BY <2>1, <2>2, FS_Injection
  <2>4. Cardinality(1 .. Len(s)) = Len(s)
    BY <1>1, FS_Interval
  <2> QED
    BY <2>1, <2>3, <2>4, FS_CardinalityType
<1>8. c[Cardinality(Msg)][From(1)] = SubSeq(s, 1, Len(s))
  <2>1. 1 \in 1 .. Len(s) + 1 /\ Len(s) + 1 <= Cardinality(Msg) + 1
    BY <1>1, <1>7
  <2> HIDE DEF From
  <2> QED
    BY <1>6, <1>7, <2>1
<1>9. From(1) = f
  BY <1>1, EmptySeq DEF Linked
<1> QED
  BY <1>1, <1>8, <1>9, SubSeqFull DEF c
\* The nodes of the deque: one is last, none before the first, none has two
\* before it; and nodes that are not in it have no next.
QueueShape ==
  /\ first = NoMsg <=> last = NoMsg
  /\ last # NoMsg => last \in InQueue /\ next[last] = NoMsg
  /\ \A m \in Msg : next[m] # NoMsg => m \in InQueue /\ next[m] # first
  /\ \A m, n \in Msg : next[m] # NoMsg /\ next[m] = next[n] => m = n

\* A deque of linked nodes has that shape.
LEMMA ShapeOfLinked ==
  ASSUME TypeOK, NEW s, Linked(first, last, next, s)
  PROVE  /\ QueueShape
         /\ InQueue = {s[i] : i \in DOMAIN s}
         /\ s = <<>> <=> first = NoMsg
<1>1. /\ s \in Seq(Msg) /\ Len(s) \in Nat /\ DOMAIN s = 1 .. Len(s)
      /\ \A i \in 1 .. Len(s) : s[i] \in Msg
      /\ s = <<>> <=> Len(s) = 0
  BY LenProperties, EmptySeq DEF Linked
<1>2. s = <<>> <=> first = NoMsg
  BY <1>1, MsgAssumption DEF Linked
<1>3. ASSUME NEW m \in Msg, next[m] # NoMsg
      PROVE  \E i \in 1 .. Len(s) : m = s[i] /\ i + 1 \in 1 .. Len(s) /\ next[m] = s[i + 1]
  <2>1. PICK i \in DOMAIN s : m = s[i]
    BY <1>3 DEF Linked
  <2>2. next[s[i]] = IF i = Len(s) THEN NoMsg ELSE s[i + 1]
    BY DEF Linked
  <2> QED
    BY <1>1, <1>3, <2>1, <2>2
<1>4. InQueue = {s[i] : i \in DOMAIN s}
  <2>1. ASSUME NEW m \in InQueue PROVE \E i \in DOMAIN s : m = s[i]
    <3>1. CASE m = first
      <4>1. s # <<>> /\ s[1] = m /\ 1 \in DOMAIN s
        BY <1>1, <3>1, MsgAssumption DEF InQueue, Linked
      <4> QED
        BY <4>1
    <3>2. CASE m # first
      <4>1. PICK n \in Msg : next[n] = m
        BY <3>2 DEF InQueue
      <4>2. next[n] # NoMsg
        BY <4>1, MsgAssumption DEF InQueue
      <4> QED
        BY <1>1, <1>3, <4>1, <4>2
    <3> QED
      BY <3>1, <3>2
  <2>2. ASSUME NEW i \in DOMAIN s PROVE s[i] \in InQueue
    <3>1. CASE i = 1
      BY <1>1, <3>1 DEF InQueue, Linked
    <3>2. CASE i # 1
      <4>1. i - 1 \in DOMAIN s /\ (i - 1) + 1 = i /\ i - 1 # Len(s)
        BY <1>1, <3>2
      <4>2. next[s[i - 1]] = s[i]
        <5>1. next[s[i - 1]] = IF i - 1 = Len(s) THEN NoMsg ELSE s[(i - 1) + 1]
          BY <4>1 DEF Linked
        <5> QED
          BY <4>1, <5>1
      <4> QED
        BY <1>1, <4>1, <4>2 DEF InQueue
    <3> QED
      BY <3>1, <3>2
  <2> QED
    BY <2>1, <2>2
<1>5. first = NoMsg <=> last = NoMsg
  BY <1>1, MsgAssumption DEF Linked
<1>6. last # NoMsg => last \in InQueue /\ next[last] = NoMsg
  <2> SUFFICES ASSUME last # NoMsg PROVE last \in InQueue /\ next[last] = NoMsg
    OBVIOUS
  <2>1. Len(s) \in DOMAIN s /\ last = s[Len(s)]
    BY <1>1 DEF Linked
  <2>2. next[s[Len(s)]] = NoMsg
    BY <2>1 DEF Linked
  <2> QED
    BY <1>4, <2>1, <2>2
<1>7. ASSUME NEW m \in Msg, next[m] # NoMsg PROVE m \in InQueue /\ next[m] # first
  <2>1. PICK i \in 1 .. Len(s) : m = s[i] /\ i + 1 \in 1 .. Len(s) /\ next[m] = s[i + 1]
    BY <1>3, <1>7
  <2>2. first = s[1] /\ 1 \in DOMAIN s /\ i + 1 # 1
    BY <1>1, <2>1 DEF Linked
  <2>3. s[i + 1] # s[1]
    BY <1>1, <2>1, <2>2 DEF Linked
  <2> QED
    BY <1>1, <1>4, <2>1, <2>2, <2>3
<1>8. ASSUME NEW m \in Msg, NEW n \in Msg, next[m] # NoMsg, next[m] = next[n] PROVE m = n
  <2>1. PICK i \in 1 .. Len(s) : m = s[i] /\ i + 1 \in 1 .. Len(s) /\ next[m] = s[i + 1]
    BY <1>3, <1>8
  <2>2. PICK j \in 1 .. Len(s) : n = s[j] /\ j + 1 \in 1 .. Len(s) /\ next[n] = s[j + 1]
    BY <1>3, <1>8
  <2>3. i + 1 = j + 1
    BY <1>1, <1>8, <2>1, <2>2 DEF Linked
  <2> QED
    BY <1>1, <2>1, <2>2, <2>3
<1> QED
  BY <1>2, <1>4, <1>5, <1>6, <1>7, <1>8 DEF QueueShape

\* A node that is added comes last.
LEMMA Appended ==
  ASSUME NEW links \in [Msg -> Msg \cup {NoMsg}], NEW f, NEW l, NEW s,
         Linked(f, l, links, s), NEW m \in Msg, \A i \in DOMAIN s : s[i] # m
  PROVE  Linked(IF l = NoMsg THEN m ELSE f, m,
                [x \in Msg |-> IF x = m THEN NoMsg ELSE IF x = l THEN m ELSE links[x]],
                Append(s, m))
<1> DEFINE r == Append(s, m)
           links2 == [x \in Msg |-> IF x = m THEN NoMsg ELSE IF x = l THEN m ELSE links[x]]
<1>1. /\ s \in Seq(Msg) /\ Len(s) \in Nat /\ DOMAIN s = 1 .. Len(s)
      /\ \A i \in 1 .. Len(s) : s[i] \in Msg
      /\ s = <<>> <=> Len(s) = 0
  BY LenProperties, EmptySeq DEF Linked
<1>2. /\ r \in Seq(Msg) /\ r # <<>> /\ Len(r) = Len(s) + 1
      /\ \A i \in 1 .. Len(s) : r[i] = s[i]
      /\ r[Len(s) + 1] = m
      /\ DOMAIN r = 1 .. Len(s) + 1
  BY <1>1, AppendProperties, LenProperties
<1> HIDE DEF r
<1>3. l = IF s = <<>> THEN NoMsg ELSE s[Len(s)]
  BY DEF Linked
<1>4. ASSUME NEW i \in DOMAIN r, NEW j \in DOMAIN r, r[i] = r[j] PROVE i = j
  BY <1>1, <1>2, <1>4 DEF Linked
<1>5. (IF l = NoMsg THEN m ELSE f) = r[1]
  BY <1>1, <1>2, <1>3, MsgAssumption DEF Linked
<1>6. ASSUME NEW i \in DOMAIN r PROVE links2[r[i]] = IF i = Len(r) THEN NoMsg ELSE r[i + 1]
  <2>1. CASE i = Len(r)
    BY <1>1, <1>2, <2>1
  <2>2. CASE i # Len(r)
    <3>1. i \in 1 .. Len(s) /\ r[i] = s[i] /\ s[i] \in Msg /\ s[i] # m
      BY <1>1, <1>2, <2>2
    <3>2. links[s[i]] = IF i = Len(s) THEN NoMsg ELSE s[i + 1]
      BY <1>1, <3>1 DEF Linked
    <3>3. CASE i = Len(s)
      <4>1. l = s[i] /\ r[i + 1] = m
        BY <1>1, <1>2, <1>3, <3>1, <3>3
      <4> QED
        BY <2>2, <3>1, <4>1
    <3>4. CASE i # Len(s)
      <4>1. s[i] # l
        BY <1>1, <1>3, <3>1, <3>4 DEF Linked
      <4>2. i + 1 \in 1 .. Len(s) /\ r[i + 1] = s[i + 1]
        BY <1>1, <1>2, <3>1, <3>4
      <4> QED
        BY <2>2, <3>1, <3>2, <3>4, <4>1, <4>2
    <3> QED
      BY <3>3, <3>4
  <2> QED
    BY <2>1, <2>2
<1>7. ASSUME NEW x \in Msg, links2[x] # NoMsg PROVE \E i \in DOMAIN r : x = r[i]
  <2>1. CASE x = l
    <3>1. Len(s) \in 1 .. Len(s) /\ x = s[Len(s)]
      BY <1>1, <1>3, <2>1, MsgAssumption
    <3> QED
      BY <1>1, <1>2, <3>1
  <2>2. CASE x # l
    <3>1. links[x] # NoMsg
      BY <1>7, <2>2
    <3>2. PICK i \in DOMAIN s : x = s[i]
      BY <3>1 DEF Linked
    <3> QED
      BY <1>1, <1>2, <3>2
  <2> QED
    BY <2>1, <2>2
<1>8. m = r[Len(r)]
  BY <1>1, <1>2
<1> HIDE DEF links2
<1>9. Linked(IF l = NoMsg THEN m ELSE f, m, links2, r)
  BY <1>2, <1>4, <1>5, <1>6, <1>7, <1>8 DEF Linked
<1> QED
  BY <1>9 DEF links2, r

\* A node that is pushed comes first.
LEMMA Pushed ==
  ASSUME NEW links \in [Msg -> Msg \cup {NoMsg}], NEW f, NEW l, NEW s,
         Linked(f, l, links, s), NEW m \in Msg, \A i \in DOMAIN s : s[i] # m
  PROVE  Linked(m, IF l = NoMsg THEN m ELSE l, [links EXCEPT ![m] = f], <<m>> \o s)
<1> DEFINE r == <<m>> \o s
           links2 == [links EXCEPT ![m] = f]
<1>1. /\ s \in Seq(Msg) /\ Len(s) \in Nat /\ DOMAIN s = 1 .. Len(s)
      /\ \A i \in 1 .. Len(s) : s[i] \in Msg
      /\ s = <<>> <=> Len(s) = 0
  BY LenProperties, EmptySeq DEF Linked
<1>2. /\ r \in Seq(Msg) /\ r # <<>> /\ Len(r) = Len(s) + 1
      /\ r[1] = m
      /\ \A i \in 1 .. Len(s) : r[i + 1] = s[i]
      /\ DOMAIN r = 1 .. Len(s) + 1
  <2>1. <<m>> \in Seq(Msg) /\ Len(<<m>>) = 1 /\ <<m>>[1] = m
    OBVIOUS
  <2>2. /\ r \in Seq(Msg) /\ Len(r) = 1 + Len(s)
        /\ \A i \in 1 .. 1 + Len(s) : r[i] = IF i <= 1 THEN <<m>>[i] ELSE s[i - 1]
    BY <1>1, <2>1, ConcatProperties
  <2>3. DOMAIN r = 1 .. Len(r)
    BY <2>2, LenProperties
  <2> HIDE DEF r
  <2>4. \A i \in 1 .. Len(s) :
          i + 1 \in 1 .. 1 + Len(s) /\ ~ (i + 1 <= 1) /\ (i + 1) - 1 = i
    BY <1>1
  <2>5. \A i \in 1 .. Len(s) : r[i + 1] = s[i]
    BY <2>2, <2>4
  <2>6. r # <<>> /\ Len(r) = Len(s) + 1 /\ r[1] = m
    BY <1>1, <2>1, <2>2, EmptySeq
  <2> QED
    BY <1>1, <2>2, <2>3, <2>5, <2>6
<1> HIDE DEF r
<1>3. \A i \in 1 .. Len(s) + 1 : i # 1 => i - 1 \in 1 .. Len(s) /\ r[i] = s[i - 1]
  <2>1. \A i \in 1 .. Len(s) + 1 : i # 1 => i - 1 \in 1 .. Len(s) /\ (i - 1) + 1 = i
    BY <1>1
  <2> QED
    BY <1>2, <2>1
<1>4. ASSUME NEW i \in DOMAIN r, NEW j \in DOMAIN r, r[i] = r[j] PROVE i = j
  <2>1. \A k \in 1 .. Len(s) + 1 : k = 1 <=> r[k] = m
    BY <1>1, <1>2, <1>3
  <2>2. CASE i = 1 \/ j = 1
    BY <1>2, <1>4, <2>1, <2>2
  <2>3. CASE i # 1 /\ j # 1
    <3>1. /\ i - 1 \in DOMAIN s /\ r[i] = s[i - 1]
          /\ j - 1 \in DOMAIN s /\ r[j] = s[j - 1]
      BY <1>1, <1>2, <1>3, <2>3
    <3>2. i - 1 = j - 1
      BY <1>4, <3>1 DEF Linked
    <3> QED
      BY <1>1, <1>2, <3>2
  <2> QED
    BY <2>2, <2>3
<1>5. (IF l = NoMsg THEN m ELSE l) = r[Len(r)]
  <2>1. l = IF s = <<>> THEN NoMsg ELSE s[Len(s)]
    BY DEF Linked
  <2> QED
    BY <1>1, <1>2, <2>1, MsgAssumption
<1>6. ASSUME NEW i \in DOMAIN r PROVE links2[r[i]] = IF i = Len(r) THEN NoMsg ELSE r[i + 1]
  <2>1. CASE i = 1
    BY <1>1, <1>2, <2>1 DEF Linked
  <2>2. CASE i # 1
    <3>1. i - 1 \in DOMAIN s /\ r[i] = s[i - 1] /\ s[i - 1] \in Msg /\ s[i - 1] # m
      BY <1>1, <1>2, <1>3, <2>2
    <3>2. links[s[i - 1]] = IF i - 1 = Len(s) THEN NoMsg ELSE s[(i - 1) + 1]
      BY <3>1 DEF Linked
    <3>3. i # Len(r) => i \in 1 .. Len(s) /\ (i - 1) + 1 = i
      BY <1>1, <1>2, <2>2
    <3>4. i - 1 = Len(s) <=> i = Len(r)
      BY <1>1, <1>2
    <3> QED
      BY <1>2, <3>1, <3>2, <3>3, <3>4
  <2> QED
    BY <2>1, <2>2
<1>7. ASSUME NEW x \in Msg, links2[x] # NoMsg PROVE \E i \in DOMAIN r : x = r[i]
  <2>1. CASE x = m
    BY <1>1, <1>2, <2>1
  <2>2. CASE x # m
    <3>1. PICK i \in DOMAIN s : x = s[i]
      BY <1>7, <2>2 DEF Linked
    <3>2. i + 1 \in DOMAIN r
      BY <1>1, <1>2
    <3> QED
      BY <1>1, <1>2, <3>1, <3>2
  <2> QED
    BY <2>1, <2>2
<1> HIDE DEF links2
<1>8. Linked(m, IF l = NoMsg THEN m ELSE l, links2, r)
  BY <1>2, <1>4, <1>5, <1>6, <1>7 DEF Linked
<1> QED
  BY <1>8 DEF links2, r

\* What is left is linked when the first node is taken out.
LEMMA Popped ==
  ASSUME NEW links \in [Msg -> Msg \cup {NoMsg}], NEW f, NEW l, NEW s,
         Linked(f, l, links, s), s # <<>>
  PROVE  /\ f \in Msg /\ f = Head(s) /\ (links[f] = NoMsg <=> Tail(s) = <<>>)
         /\ Linked(links[f], IF links[f] = NoMsg THEN NoMsg ELSE l,
                   [links EXCEPT ![f] = NoMsg], Tail(s))
<1> DEFINE r == Tail(s)
           links2 == [links EXCEPT ![f] = NoMsg]
<1>1. /\ s \in Seq(Msg) /\ Len(s) \in Nat /\ DOMAIN s = 1 .. Len(s)
      /\ \A i \in 1 .. Len(s) : s[i] \in Msg
      /\ Len(s) # 0 /\ Head(s) = s[1] /\ f = s[1]
  BY LenProperties, EmptySeq DEF Linked
<1>2. /\ r \in Seq(Msg) /\ Len(r) = Len(s) - 1
      /\ \A i \in 1 .. Len(s) - 1 : r[i] = s[i + 1]
      /\ DOMAIN r = 1 .. Len(s) - 1
      /\ r = <<>> <=> Len(r) = 0
  <2>1. /\ r \in Seq(Msg) /\ Len(r) = Len(s) - 1
        /\ \A i \in 1 .. Len(r) : r[i] = s[i + 1]
    BY <1>1, HeadTailProperties
  <2>2. DOMAIN r = 1 .. Len(r) /\ (r = <<>> <=> Len(r) = 0)
    BY <2>1, LenProperties, EmptySeq
  <2> QED
    BY <2>1, <2>2
<1> HIDE DEF r
<1>3. \A i \in 1 .. Len(s) - 1 : i + 1 \in 1 .. Len(s) /\ i + 1 # 1 /\ i + 1 \in DOMAIN s
  BY <1>1
<1>4. ASSUME NEW i \in DOMAIN r, NEW j \in DOMAIN r, r[i] = r[j] PROVE i = j
  <2>1. /\ i + 1 \in DOMAIN s /\ r[i] = s[i + 1]
        /\ j + 1 \in DOMAIN s /\ r[j] = s[j + 1]
    BY <1>2, <1>3
  <2>2. i + 1 = j + 1
    BY <1>4, <2>1 DEF Linked
  <2> QED
    BY <1>1, <1>2, <2>2
<1>5. links[f] = IF 1 = Len(s) THEN NoMsg ELSE s[2]
  <2>1. 1 \in DOMAIN s /\ 1 + 1 = 2
    BY <1>1
  <2> QED
    BY <1>1, <2>1 DEF Linked
<1>6. links[f] = IF r = <<>> THEN NoMsg ELSE r[1]
  BY <1>1, <1>2, <1>5
<1>7. links[f] = NoMsg <=> r = <<>>
  <2>1. r # <<>> => r[1] \in Msg
    BY <1>1, <1>2, <1>3
  <2> QED
    BY <1>6, <2>1, MsgAssumption
<1>8. r # <<>> => l = r[Len(r)]
  <2>1. l = s[Len(s)]
    BY <1>1, EmptySeq DEF Linked
  <2> QED
    BY <1>1, <1>2, <2>1
<1>9. ASSUME NEW i \in DOMAIN r PROVE links2[r[i]] = IF i = Len(r) THEN NoMsg ELSE r[i + 1]
  <2>1. i + 1 \in DOMAIN s /\ r[i] = s[i + 1] /\ s[i + 1] \in Msg
    BY <1>1, <1>2, <1>3
  <2>2. s[i + 1] # f
    BY <1>1, <1>2, <1>3, <2>1 DEF Linked
  <2>3. links[s[i + 1]] = IF i + 1 = Len(s) THEN NoMsg ELSE s[(i + 1) + 1]
    BY <2>1 DEF Linked
  <2>4. i + 1 = Len(s) <=> i = Len(r)
    BY <1>1, <1>2
  <2>5. i # Len(r) => r[i + 1] = s[(i + 1) + 1]
    BY <1>1, <1>2
  <2> QED
    BY <2>1, <2>2, <2>3, <2>4, <2>5
<1>10. ASSUME NEW x \in Msg, links2[x] # NoMsg PROVE \E i \in DOMAIN r : x = r[i]
  <2>1. x # f /\ links[x] # NoMsg
    BY <1>10
  <2>2. PICK i \in DOMAIN s : x = s[i]
    BY <2>1 DEF Linked
  <2>3. i # 1 /\ i - 1 \in DOMAIN r /\ (i - 1) + 1 = i
    BY <1>1, <1>2, <2>1, <2>2
  <2>4. r[i - 1] = s[i]
    BY <1>2, <2>3
  <2> QED
    BY <2>2, <2>3, <2>4
<1> HIDE DEF links2
<1>11. Linked(links[f], IF links[f] = NoMsg THEN NoMsg ELSE l, links2, r)
  BY <1>2, <1>4, <1>6, <1>7, <1>8, <1>9, <1>10 DEF Linked
<1> QED
  BY <1>1, <1>7, <1>11 DEF links2, r


\* The same nodes are linked, and nobody's message changes its side.
LEMMA Quiet ==
  ASSUME QueueLinked, UNCHANGED <<first, last, next, hand>>,
         \A t \in Thread : hand[t] # NoMsg => (pc'[t] = "pop_out" <=> pc[t] = "pop_out")
  PROVE  QueueLinked' /\ UNCHANGED Deque!avars
<1>1. Items' = Items
  BY DEF Items
<1>2. QueueLinked'
  BY <1>1 DEF QueueLinked
<1>3. Outgoing' = Outgoing /\ Incoming' = Incoming
  <2>1. \A t \in Thread :
          /\ (IF pc'[t] = "pop_out" THEN NoMsg ELSE hand[t])
               = IF pc[t] = "pop_out" THEN NoMsg ELSE hand[t]
          /\ (IF pc'[t] = "pop_out" THEN hand[t] ELSE NoMsg)
               = IF pc[t] = "pop_out" THEN hand[t] ELSE NoMsg
    OBVIOUS
  <2> QED
    BY <2>1 DEF Outgoing, Incoming, At
<1> QED
  BY <1>1, <1>2, <1>3 DEF Deque!avars

\* A message leaves a thread's hand for the deque.
LEMMA Inserts ==
  ASSUME TypeOK, NEW t \in Thread, pc[t] # "pop_out", hand[t] \in Msg,
         Items' = Append(Items, hand[t]) \/ Items' = <<hand[t]>> \o Items,
         hand' = [hand EXCEPT ![t] = NoMsg],
         \A u \in Thread : u # t => (pc'[u] = "pop_out" <=> pc[u] = "pop_out")
  PROVE  Deque!Insert(t)
<1>1. Outgoing[t] = hand[t] /\ Outgoing[t] # NoMsg
  BY MsgAssumption DEF Outgoing, At
<1>2. Outgoing' = [Outgoing EXCEPT ![t] = NoMsg]
  <2>1. \A u \in Thread :
          (IF pc'[u] = "pop_out" THEN NoMsg ELSE hand'[u])
            = IF u = t THEN NoMsg ELSE IF pc[u] = "pop_out" THEN NoMsg ELSE hand[u]
    BY DEF TypeOK
  <2> QED
    BY <2>1 DEF Outgoing, At
<1>3. Incoming' = Incoming
  <2>1. \A u \in Thread :
          (IF pc'[u] = "pop_out" THEN hand'[u] ELSE NoMsg)
            = IF pc[u] = "pop_out" THEN hand[u] ELSE NoMsg
    BY DEF TypeOK
  <2> QED
    BY <2>1 DEF Incoming, At
<1> QED
  BY <1>1, <1>2, <1>3 DEF Deque!Insert

\* An operation on the deque makes r of its nodes.
LEMMA Reread ==
  ASSUME TypeOK', NEW r, Linked(first', last', next', r)
  PROVE  QueueLinked' /\ Items' = r
<1>1. next' \in [Msg -> Msg \cup {NoMsg}]
  BY DEF TypeOK
<1>2. Chain(next')[Cardinality(Msg)][first'] = r
  BY <1>1, Reads
<1>3. Items' = r
  BY <1>2 DEF Items
<1> QED
  BY <1>3 DEF QueueLinked

\* A thread takes a message to be sent in hand.
LEMMA Sends ==
  ASSUME TypeOK, QueueLinked, UNCHANGED <<first, last, next>>,
         NEW t \in Thread, NEW m \in Msg, hand[t] = NoMsg,
         hand' = [hand EXCEPT ![t] = m], pc'[t] # "pop_out",
         \A u \in Thread : u # t => pc'[u] = pc[u]
  PROVE  QueueLinked' /\ Deque!ANext
<1>1. QueueLinked' /\ Items' = Items
  BY DEF QueueLinked, Items
<1>2. Outgoing[t] = NoMsg /\ Outgoing' = [Outgoing EXCEPT ![t] = m]
  <2>1. \A u \in Thread :
          (IF pc'[u] = "pop_out" THEN NoMsg ELSE hand'[u])
            = IF u = t THEN m ELSE IF pc[u] = "pop_out" THEN NoMsg ELSE hand[u]
    BY DEF TypeOK
  <2> QED
    BY <2>1 DEF Outgoing, At
<1>3. Incoming' = Incoming
  <2>1. \A u \in Thread :
          (IF pc'[u] = "pop_out" THEN hand'[u] ELSE NoMsg)
            = IF pc[u] = "pop_out" THEN hand[u] ELSE NoMsg
    BY DEF TypeOK
  <2> QED
    BY <2>1 DEF Incoming, At
<1>4. Deque!Send(t)
  BY <1>1, <1>2, <1>3 DEF Deque!Send
<1> QED
  BY <1>1, <1>4 DEF Deque!ANext

\* Every step keeps the nodes linked, and is an operation of the deque or none.
LEMMA DequeStep ==
  ASSUME TypeOK, TypeOK', Carried, QueueLinked, OnePlace, [Next]_vars
  PROVE  QueueLinked' /\ [Deque!ANext]_(Deque!avars)
<1> DEFINE Goal == QueueLinked' /\ [Deque!ANext]_(Deque!avars)
<1> USE MsgAssumption DEF Move, At, Goto, world, deque, lock, mutex, start
<1>1. ASSUME UNCHANGED ops, NEW t \in Thread, Unpark(t)
      PROVE  Goal
  BY <1>1, Quiet DEF Unpark, TypeOK, Carried, Sending
<1>2. ASSUME UNCHANGED ops, NEW t \in Thread, Mark(t)
      PROVE  Goal
  BY <1>2, Quiet DEF Mark, TypeOK, Carried, Sending
<1>3. ASSUME UNCHANGED ops, NEW t \in Thread, MarkEnd(t)
      PROVE  Goal
  BY <1>3, Quiet DEF MarkEnd, TypeOK, Carried, Sending
<1>4. ASSUME UNCHANGED ops, NEW t \in Thread, LockQueue(t, "add_lock", "add_in")
      PROVE  Goal
  BY <1>4, Quiet DEF LockQueue, TypeOK, Carried, Sending
<1>5. ASSUME UNCHANGED ops, NEW t \in Thread, LockQueue(t, "push_lock", "push_in")
      PROVE  Goal
  BY <1>5, Quiet DEF LockQueue, TypeOK, Carried, Sending
<1>6. ASSUME UNCHANGED ops, NEW t \in Thread, LockQueue(t, "pop_lock", "pop_in")
      PROVE  Goal
  BY <1>6, Quiet DEF LockQueue, TypeOK, Carried, Sending
<1>7. ASSUME UNCHANGED ops, NEW t \in Thread, Add(t)
      PROVE  Goal
  <2>1. /\ hand[t] \in Msg /\ pc[t] # "pop_out" /\ hand' = [hand EXCEPT ![t] = NoMsg]
        /\ \A i \in DOMAIN Items : Items[i] # hand[t]
    <3>1. hand[t] \in Msg /\ hand[t] \notin InQueue
      BY <1>7 DEF Add, Carried, Sending, OnePlace
    <3>2. InQueue = {Items[i] : i \in DOMAIN Items}
      BY ShapeOfLinked DEF QueueLinked
    <3> QED
      BY <1>7, <3>1, <3>2 DEF Add
  <2>2. \A u \in Thread : u # t => (pc'[u] = "pop_out" <=> pc[u] = "pop_out")
    BY <1>7 DEF Add, SignalQueue, TypeOK
  <2>3. Linked(first', last', next', Append(Items, hand[t]))
    <3>1. next \in [Msg -> Msg \cup {NoMsg}]
      BY DEF TypeOK
    <3>2. Linked(IF last = NoMsg THEN hand[t] ELSE first, hand[t],
                 [x \in Msg |-> IF x = hand[t] THEN NoMsg
                                ELSE IF x = last THEN hand[t] ELSE next[x]],
                 Append(Items, hand[t]))
      BY <2>1, <3>1, Appended DEF QueueLinked
    <3> QED
      BY <1>7, <3>2, Zenon DEF Add
  <2>4. QueueLinked' /\ Items' = Append(Items, hand[t])
    BY <2>3, Reread
  <2>5. Deque!Insert(t)
    BY <2>1, <2>2, <2>4, Inserts
  <2> QED
    BY <2>4, <2>5 DEF Deque!ANext
<1>8. ASSUME UNCHANGED ops, NEW t \in Thread, Push(t)
      PROVE  Goal
  <2>1. /\ hand[t] \in Msg /\ pc[t] # "pop_out" /\ hand' = [hand EXCEPT ![t] = NoMsg]
        /\ \A i \in DOMAIN Items : Items[i] # hand[t]
    <3>1. hand[t] \in Msg /\ hand[t] \notin InQueue
      BY <1>8 DEF Push, Carried, Sending, OnePlace
    <3>2. InQueue = {Items[i] : i \in DOMAIN Items}
      BY ShapeOfLinked DEF QueueLinked
    <3> QED
      BY <1>8, <3>1, <3>2 DEF Push
  <2>2. \A u \in Thread : u # t => (pc'[u] = "pop_out" <=> pc[u] = "pop_out")
    BY <1>8 DEF Push, SignalQueue, TypeOK
  <2>3. Linked(first', last', next', <<hand[t]>> \o Items)
    <3>1. next \in [Msg -> Msg \cup {NoMsg}]
      BY DEF TypeOK
    <3>2. Linked(hand[t], IF last = NoMsg THEN hand[t] ELSE last,
                 [next EXCEPT ![hand[t]] = first], <<hand[t]>> \o Items)
      BY <2>1, <3>1, Pushed DEF QueueLinked
    <3> QED
      BY <1>8, <3>2, Zenon DEF Push
  <2>4. QueueLinked' /\ Items' = <<hand[t]>> \o Items
    BY <2>3, Reread
  <2>5. Deque!Insert(t)
    BY <2>1, <2>2, <2>4, Inserts
  <2> QED
    BY <2>4, <2>5 DEF Deque!ANext
<1>9. ASSUME UNCHANGED ops, NEW t \in Thread, Pop(t)
      PROVE  Goal
  <2>1. /\ next \in [Msg -> Msg \cup {NoMsg}] /\ hand \in [Thread -> Msg \cup {NoMsg}]
        /\ hand' = [hand EXCEPT ![t] = first] /\ pc[t] = "pop_in" /\ hand[t] = NoMsg
        /\ first # NoMsg
    BY <1>9 DEF Pop, TypeOK, Carried, Sending
  <2>2. pc'[t] = "pop_out" /\ \A u \in Thread : u # t => (pc'[u] = "pop_out" <=> pc[u] = "pop_out")
    BY <1>9 DEF Pop, SignalQueue, TypeOK
  <2>3. Items # <<>>
    BY <2>1, ShapeOfLinked DEF QueueLinked
  <2>4. /\ first \in Msg /\ first = Head(Items)
        /\ Linked(next[first], IF next[first] = NoMsg THEN NoMsg ELSE last,
                  [next EXCEPT ![first] = NoMsg], Tail(Items))
    <3>1. Linked(first, last, next, Items)
      BY DEF QueueLinked
    <3>2. next \in [Msg -> Msg \cup {NoMsg}]
      BY <2>1
    <3> HIDE MsgAssumption DEF At, Goto, Move, world, deque, lock, mutex, start
    <3>3. /\ first \in Msg /\ first = Head(Items) /\ (next[first] = NoMsg <=> Tail(Items) = <<>>)
          /\ Linked(next[first], IF next[first] = NoMsg THEN NoMsg ELSE last,
                   [next EXCEPT ![first] = NoMsg], Tail(Items))
      BY <2>3, <3>1, <3>2, Popped
    <3> QED
      BY <3>3, Zenon
  <2>5. Linked(first', last', next', Tail(Items))
    <3>1. /\ first' = next[first] /\ next' = [next EXCEPT ![first] = NoMsg]
          /\ last' = IF next[first] = NoMsg THEN NoMsg ELSE last
      BY <1>9 DEF Pop
    <3> QED
      BY <2>4, <3>1, Zenon
  <2>6. QueueLinked' /\ Items' = Tail(Items)
    BY <2>5, Reread
  <2>7. Incoming[t] = NoMsg /\ Incoming' = [Incoming EXCEPT ![t] = Head(Items)]
    <3>1. \A u \in Thread :
            (IF pc'[u] = "pop_out" THEN hand'[u] ELSE NoMsg)
              = IF u = t THEN first ELSE IF pc[u] = "pop_out" THEN hand[u] ELSE NoMsg
      BY <2>1, <2>2
    <3> QED
      BY <2>1, <2>4, <3>1 DEF Incoming
  <2>8. Outgoing' = Outgoing
    <3>1. \A u \in Thread :
            (IF pc'[u] = "pop_out" THEN NoMsg ELSE hand'[u])
              = IF pc[u] = "pop_out" THEN NoMsg ELSE hand[u]
      BY <2>1, <2>2
    <3> QED
      BY <3>1 DEF Outgoing
  <2>9. Deque!RemoveFirst(t)
    BY <2>3, <2>6, <2>7, <2>8 DEF Deque!RemoveFirst
  <2> QED
    BY <2>6, <2>9 DEF Deque!ANext
<1>10. ASSUME UNCHANGED ops, NEW t \in Thread, PopEmpty(t)
      PROVE  Goal
  BY <1>10, Quiet DEF PopEmpty, TypeOK, Carried, Sending
<1>11. ASSUME UNCHANGED ops, NEW t \in Thread, PopReturn(t)
      PROVE  Goal
  <2>1. /\ UNCHANGED <<first, last, next>> /\ hand \in [Thread -> Msg \cup {NoMsg}]
        /\ hand' = [hand EXCEPT ![t] = NoMsg] /\ pc[t] = "pop_out" /\ pc'[t] = "hl"
        /\ \A u \in Thread : u # t => pc'[u] = pc[u]
    BY <1>11 DEF PopReturn, Unblock, TypeOK
  <2>2. QueueLinked' /\ Items' = Items
    BY <2>1 DEF QueueLinked, Items
  <2>3. Outgoing' = Outgoing
    <3>1. \A u \in Thread :
            (IF pc'[u] = "pop_out" THEN NoMsg ELSE hand'[u])
              = IF pc[u] = "pop_out" THEN NoMsg ELSE hand[u]
      BY <2>1
    <3> QED
      BY <3>1 DEF Outgoing
  <2>4. Incoming[t] = hand[t] /\ Incoming' = [Incoming EXCEPT ![t] = NoMsg]
    <3>1. \A u \in Thread :
            (IF pc'[u] = "pop_out" THEN hand'[u] ELSE NoMsg)
              = IF u = t THEN NoMsg ELSE IF pc[u] = "pop_out" THEN hand[u] ELSE NoMsg
      BY <2>1
    <3> QED
      BY <2>1, <3>1 DEF Incoming
  <2>5. CASE hand[t] = NoMsg
    <3>1. Incoming' = Incoming
      BY <2>4, <2>5 DEF Incoming
    <3> QED
      BY <2>2, <2>3, <3>1 DEF Deque!avars
  <2>6. CASE hand[t] # NoMsg
    <3>1. Deque!Receive(t)
      BY <2>2, <2>3, <2>4, <2>6 DEF Deque!Receive
    <3> QED
      BY <2>2, <3>1 DEF Deque!ANext
  <2> QED
    BY <2>5, <2>6
<1>12. ASSUME UNCHANGED ops, NEW t \in Thread, LockLock(t, "rel_lock", "rel_in")
      PROVE  Goal
  BY <1>12, Quiet DEF LockLock, TypeOK, Carried, Sending
<1>13. ASSUME UNCHANGED ops, NEW t \in Thread, LockLock(t, "wait_lock", "wait_in")
      PROVE  Goal
  BY <1>13, Quiet DEF LockLock, TypeOK, Carried, Sending
<1>14. ASSUME UNCHANGED ops, NEW t \in Thread, LockRelease(t)
      PROVE  Goal
  BY <1>14, Quiet DEF LockRelease, SignalLock, TypeOK, Carried, Sending
<1>15. ASSUME UNCHANGED ops, NEW t \in Thread, LockTake(t)
      PROVE  Goal
  BY <1>15, Quiet DEF LockTake, SignalLock, TypeOK, Carried, Sending
<1>16. ASSUME UNCHANGED ops, NEW t \in Thread, LockSleep(t)
      PROVE  Goal
  BY <1>16, Quiet DEF LockSleep, TypeOK, Carried, Sending
<1>17. ASSUME UNCHANGED ops, NEW t \in Thread, LockTimeout(t)
      PROVE  Goal
  BY <1>17, Quiet DEF LockTimeout, TypeOK, Carried, Sending
<1>18. ASSUME UNCHANGED ops, NEW t \in Thread, LockLate(t)
      PROVE  Goal
  BY <1>18, Quiet DEF LockLate, TypeOK, Carried, Sending
<1>19. ASSUME UNCHANGED ops, NEW t \in Thread, WaitReturn(t)
      PROVE  Goal
  BY <1>19, Quiet DEF WaitReturn, Unblock, TypeOK, Carried, Sending
<1>20. ASSUME UNCHANGED ops, NEW t \in Thread, MutexLock(t)
      PROVE  Goal
  BY <1>20, Quiet DEF MutexLock, TypeOK, Carried, Sending
<1>21. ASSUME UNCHANGED ops, NEW t \in Thread, MutexReturn(t)
      PROVE  Goal
  BY <1>21, Quiet DEF MutexReturn, Unblock, TypeOK, Carried, Sending
<1>22. ASSUME UNCHANGED ops, NEW t \in Thread, GlobalLock(t)
      PROVE  Goal
  BY <1>22, Quiet DEF GlobalLock, TypeOK, Carried, Sending
<1>23. ASSUME UNCHANGED ops, NEW t \in Thread, GlobalUnlock(t)
      PROVE  Goal
  BY <1>23, Quiet DEF GlobalUnlock, TypeOK, Carried, Sending
<1>24. ASSUME UNCHANGED ops, NEW t \in Thread, Register(t)
      PROVE  Goal
  BY <1>24, Quiet DEF Register, TypeOK, Carried, Sending
<1>25. ASSUME UNCHANGED ops, NEW t \in Thread, Entry(t)
      PROVE  Goal
  BY <1>25, Quiet DEF Entry, TypeOK, Carried, Sending
<1>26. ASSUME UNCHANGED ops, NEW t \in Thread, Started(t)
      PROVE  Goal
  BY <1>26, Quiet DEF Started, Unblock, TypeOK, Carried, Sending
<1>27. ASSUME UNCHANGED ops, NEW t \in Thread, Collect(t)
      PROVE  Goal
  BY <1>27, Quiet DEF Collect, TypeOK, Carried, Sending
<1>28. ASSUME UNCHANGED ops, NEW t \in Thread, Park(t)
      PROVE  Goal
  BY <1>28, Quiet DEF Park, TypeOK, Carried, Sending
<1>29. ASSUME UNCHANGED ops, NEW t \in Thread, Forget(t)
      PROVE  Goal
  BY <1>29, Quiet DEF Forget, TypeOK, Carried, Sending
<1>30. ASSUME UNCHANGED ops, NEW t \in Thread, MutexRelease(t)
      PROVE  Goal
  BY <1>30, Quiet DEF MutexRelease, TypeOK, Carried, Sending
<1>31. ASSUME UNCHANGED ops, NEW t \in Thread, ThreadEnd(t)
      PROVE  Goal
  BY <1>31, Quiet DEF ThreadEnd, TypeOK, Carried, Sending
<1>32. ASSUME UNCHANGED ops, NEW t \in Thread, NEW u \in Thread, ThreadStart(t, u)
      PROVE  Goal
  BY <1>32, Quiet DEF ThreadStart, TypeOK, Carried, Sending
<1>33. ASSUME UNCHANGED ops, NEW t \in Thread, New(t)
      PROVE  Goal
  BY <1>33, Quiet DEF New, TypeOK, Carried, Sending
<1>34. ASSUME UNCHANGED ops, NEW t \in Thread, Send(t, "add_lock")
      PROVE  Goal
  BY <1>34, Sends DEF Send, TypeOK, Carried, Sending
<1>35. ASSUME UNCHANGED ops, NEW t \in Thread, Send(t, "push_lock")
      PROVE  Goal
  BY <1>35, Sends DEF Send, TypeOK, Carried, Sending
<1>36. ASSUME UNCHANGED ops, NEW t \in Thread, PopCall(t)
      PROVE  Goal
  BY <1>36, Quiet DEF PopCall, Block, TypeOK, Carried, Sending
<1>37. ASSUME UNCHANGED ops, NEW t \in Thread, ReleaseCall(t)
      PROVE  Goal
  BY <1>37, Quiet DEF ReleaseCall, TypeOK, Carried, Sending
<1>38. ASSUME UNCHANGED ops, NEW t \in Thread, WaitCall(t)
      PROVE  Goal
  BY <1>38, Quiet DEF WaitCall, Block, TypeOK, Carried, Sending
<1>39. ASSUME UNCHANGED ops, NEW t \in Thread, MutexCall(t)
      PROVE  Goal
  BY <1>39, Quiet DEF MutexCall, Block, MayNest, TypeOK, Carried, Sending
<1>40. ASSUME UNCHANGED ops, NEW t \in Thread, GlobalLockCall(t)
      PROVE  Goal
  BY <1>40, Quiet DEF GlobalLockCall, TypeOK, Carried, Sending
<1>42. ASSUME UNCHANGED ops, NEW t \in Thread, MutexTry(t)
      PROVE  Goal
  BY <1>42, Quiet DEF MutexTry, TypeOK, Carried, Sending
<1>43. ASSUME UNCHANGED ops, NEW t \in Thread, StartWait(t)
      PROVE  Goal
  BY <1>43, Quiet DEF StartWait, TypeOK, Carried, Sending
<1>41. CASE UNCHANGED vars
  BY <1>41, Quiet DEF vars, state
<1> QED
  BY <1>1, <1>2, <1>3, <1>4, <1>5, <1>6, <1>7, <1>8, <1>9, <1>10, <1>11,
     <1>12, <1>13, <1>14, <1>15, <1>16, <1>17, <1>18, <1>19, <1>20, <1>21,
     <1>22, <1>23, <1>24, <1>25, <1>26, <1>27, <1>28, <1>29, <1>30, <1>31,
     <1>32, <1>33, <1>34, <1>35, <1>36, <1>37, <1>38, <1>39, <1>40, <1>41, <1>42,
     <1>43
     DEF Next, Runtime, Program
-----------------------------------------------------------------------------
(* No step makes a second copy of a message. *)
LEMMA OnePlaceStep ==
  ASSUME TypeOK, Placed, Carried, QueueShape, OnePlace, [Next]_vars
  PROVE  OnePlace'
<1> USE MsgAssumption DEF Move, At, Goto, world, deque, lock, mutex, start
<1>1. ASSUME UNCHANGED ops, NEW t \in Thread, Unpark(t)
      PROVE  OnePlace'
  BY <1>1 DEF Unpark, TypeOK, Placed, Carried, QueueShape, OnePlace, InQueue, Sending, Used, Sent
<1>2. ASSUME UNCHANGED ops, NEW t \in Thread, Mark(t)
      PROVE  OnePlace'
  BY <1>2 DEF Mark, TypeOK, Placed, Carried, QueueShape, OnePlace, InQueue, Sending, Used, Sent
<1>3. ASSUME UNCHANGED ops, NEW t \in Thread, MarkEnd(t)
      PROVE  OnePlace'
  BY <1>3 DEF MarkEnd, TypeOK, Placed, Carried, QueueShape, OnePlace, InQueue, Sending, Used, Sent
<1>4. ASSUME UNCHANGED ops, NEW t \in Thread, LockQueue(t, "add_lock", "add_in")
      PROVE  OnePlace'
  BY <1>4 DEF LockQueue, TypeOK, Placed, Carried, QueueShape, OnePlace, InQueue, Sending, Used, Sent
<1>5. ASSUME UNCHANGED ops, NEW t \in Thread, LockQueue(t, "push_lock", "push_in")
      PROVE  OnePlace'
  BY <1>5 DEF LockQueue, TypeOK, Placed, Carried, QueueShape, OnePlace, InQueue, Sending, Used, Sent
<1>6. ASSUME UNCHANGED ops, NEW t \in Thread, LockQueue(t, "pop_lock", "pop_in")
      PROVE  OnePlace'
  BY <1>6 DEF LockQueue, TypeOK, Placed, Carried, QueueShape, OnePlace, InQueue, Sending, Used, Sent
<1>7. ASSUME UNCHANGED ops, NEW t \in Thread, Add(t)
      PROVE  OnePlace'
  BY <1>7 DEF Add, SignalQueue, TypeOK, Placed, Carried, QueueShape, OnePlace, InQueue, Sending, Used, Sent
<1>8. ASSUME UNCHANGED ops, NEW t \in Thread, Push(t)
      PROVE  OnePlace'
  BY <1>8 DEF Push, SignalQueue, TypeOK, Placed, Carried, QueueShape, OnePlace, InQueue, Sending, Used, Sent
<1>9. ASSUME UNCHANGED ops, NEW t \in Thread, Pop(t)
      PROVE  OnePlace'
  BY <1>9 DEF Pop, SignalQueue, TypeOK, Placed, Carried, QueueShape, OnePlace, InQueue, Sending, Used, Sent
<1>10. ASSUME UNCHANGED ops, NEW t \in Thread, PopEmpty(t)
      PROVE  OnePlace'
  BY <1>10 DEF PopEmpty, TypeOK, Placed, Carried, QueueShape, OnePlace, InQueue, Sending, Used, Sent
<1>11. ASSUME UNCHANGED ops, NEW t \in Thread, PopReturn(t)
      PROVE  OnePlace'
  BY <1>11 DEF PopReturn, Unblock, TypeOK, Placed, Carried, QueueShape, OnePlace, InQueue, Sending, Used, Sent
<1>12. ASSUME UNCHANGED ops, NEW t \in Thread, LockLock(t, "rel_lock", "rel_in")
      PROVE  OnePlace'
  BY <1>12 DEF LockLock, TypeOK, Placed, Carried, QueueShape, OnePlace, InQueue, Sending, Used, Sent
<1>13. ASSUME UNCHANGED ops, NEW t \in Thread, LockLock(t, "wait_lock", "wait_in")
      PROVE  OnePlace'
  BY <1>13 DEF LockLock, TypeOK, Placed, Carried, QueueShape, OnePlace, InQueue, Sending, Used, Sent
<1>14. ASSUME UNCHANGED ops, NEW t \in Thread, LockRelease(t)
      PROVE  OnePlace'
  BY <1>14 DEF LockRelease, SignalLock, TypeOK, Placed, Carried, QueueShape, OnePlace, InQueue, Sending, Used, Sent
<1>15. ASSUME UNCHANGED ops, NEW t \in Thread, LockTake(t)
      PROVE  OnePlace'
  BY <1>15 DEF LockTake, SignalLock, TypeOK, Placed, Carried, QueueShape, OnePlace, InQueue, Sending, Used, Sent
<1>16. ASSUME UNCHANGED ops, NEW t \in Thread, LockSleep(t)
      PROVE  OnePlace'
  BY <1>16 DEF LockSleep, TypeOK, Placed, Carried, QueueShape, OnePlace, InQueue, Sending, Used, Sent
<1>17. ASSUME UNCHANGED ops, NEW t \in Thread, LockTimeout(t)
      PROVE  OnePlace'
  BY <1>17 DEF LockTimeout, TypeOK, Placed, Carried, QueueShape, OnePlace, InQueue, Sending, Used, Sent
<1>18. ASSUME UNCHANGED ops, NEW t \in Thread, LockLate(t)
      PROVE  OnePlace'
  BY <1>18 DEF LockLate, TypeOK, Placed, Carried, QueueShape, OnePlace, InQueue, Sending, Used, Sent
<1>19. ASSUME UNCHANGED ops, NEW t \in Thread, WaitReturn(t)
      PROVE  OnePlace'
  BY <1>19 DEF WaitReturn, Unblock, TypeOK, Placed, Carried, QueueShape, OnePlace, InQueue, Sending, Used, Sent
<1>20. ASSUME UNCHANGED ops, NEW t \in Thread, MutexLock(t)
      PROVE  OnePlace'
  BY <1>20 DEF MutexLock, TypeOK, Placed, Carried, QueueShape, OnePlace, InQueue, Sending, Used, Sent
<1>21. ASSUME UNCHANGED ops, NEW t \in Thread, MutexReturn(t)
      PROVE  OnePlace'
  BY <1>21 DEF MutexReturn, Unblock, TypeOK, Placed, Carried, QueueShape, OnePlace, InQueue, Sending, Used, Sent
<1>22. ASSUME UNCHANGED ops, NEW t \in Thread, GlobalLock(t)
      PROVE  OnePlace'
  BY <1>22 DEF GlobalLock, TypeOK, Placed, Carried, QueueShape, OnePlace, InQueue, Sending, Used, Sent
<1>23. ASSUME UNCHANGED ops, NEW t \in Thread, GlobalUnlock(t)
      PROVE  OnePlace'
  BY <1>23 DEF GlobalUnlock, TypeOK, Placed, Carried, QueueShape, OnePlace, InQueue, Sending, Used, Sent
<1>24. ASSUME UNCHANGED ops, NEW t \in Thread, Register(t)
      PROVE  OnePlace'
  BY <1>24 DEF Register, TypeOK, Placed, Carried, QueueShape, OnePlace, InQueue, Sending, Used, Sent
<1>25. ASSUME UNCHANGED ops, NEW t \in Thread, Entry(t)
      PROVE  OnePlace'
  BY <1>25 DEF Entry, TypeOK, Placed, Carried, QueueShape, OnePlace, InQueue, Sending, Used, Sent
<1>26. ASSUME UNCHANGED ops, NEW t \in Thread, Started(t)
      PROVE  OnePlace'
  BY <1>26 DEF Started, Unblock, TypeOK, Placed, Carried, QueueShape, OnePlace, InQueue, Sending, Used, Sent
<1>27. ASSUME UNCHANGED ops, NEW t \in Thread, Collect(t)
      PROVE  OnePlace'
  BY <1>27 DEF Collect, TypeOK, Placed, Carried, QueueShape, OnePlace, InQueue, Sending, Used, Sent
<1>28. ASSUME UNCHANGED ops, NEW t \in Thread, Park(t)
      PROVE  OnePlace'
  BY <1>28 DEF Park, TypeOK, Placed, Carried, QueueShape, OnePlace, InQueue, Sending, Used, Sent
<1>29. ASSUME UNCHANGED ops, NEW t \in Thread, Forget(t)
      PROVE  OnePlace'
  BY <1>29 DEF Forget, TypeOK, Placed, Carried, QueueShape, OnePlace, InQueue, Sending, Used, Sent
<1>30. ASSUME UNCHANGED ops, NEW t \in Thread, MutexRelease(t)
      PROVE  OnePlace'
  BY <1>30 DEF MutexRelease, TypeOK, Placed, Carried, QueueShape, OnePlace, InQueue, Sending, Used, Sent
<1>31. ASSUME UNCHANGED ops, NEW t \in Thread, ThreadEnd(t)
      PROVE  OnePlace'
  BY <1>31 DEF ThreadEnd, TypeOK, Placed, Carried, QueueShape, OnePlace, InQueue, Sending, Used, Sent
<1>32. ASSUME UNCHANGED ops, NEW t \in Thread, NEW u \in Thread, ThreadStart(t, u)
      PROVE  OnePlace'
  BY <1>32 DEF ThreadStart, TypeOK, Placed, Carried, QueueShape, OnePlace, InQueue, Sending, Used, Sent
<1>33. ASSUME UNCHANGED ops, NEW t \in Thread, New(t)
      PROVE  OnePlace'
  BY <1>33 DEF New, TypeOK, Placed, Carried, QueueShape, OnePlace, InQueue, Sending, Used, Sent
<1>34. ASSUME UNCHANGED ops, NEW t \in Thread, Send(t, "add_lock")
      PROVE  OnePlace'
  BY <1>34 DEF Send, TypeOK, Placed, Carried, QueueShape, OnePlace, InQueue, Sending, Used, Sent
<1>35. ASSUME UNCHANGED ops, NEW t \in Thread, Send(t, "push_lock")
      PROVE  OnePlace'
  BY <1>35 DEF Send, TypeOK, Placed, Carried, QueueShape, OnePlace, InQueue, Sending, Used, Sent
<1>36. ASSUME UNCHANGED ops, NEW t \in Thread, PopCall(t)
      PROVE  OnePlace'
  BY <1>36 DEF PopCall, Block, TypeOK, Placed, Carried, QueueShape, OnePlace, InQueue, Sending, Used, Sent
<1>37. ASSUME UNCHANGED ops, NEW t \in Thread, ReleaseCall(t)
      PROVE  OnePlace'
  BY <1>37 DEF ReleaseCall, TypeOK, Placed, Carried, QueueShape, OnePlace, InQueue, Sending, Used, Sent
<1>38. ASSUME UNCHANGED ops, NEW t \in Thread, WaitCall(t)
      PROVE  OnePlace'
  BY <1>38 DEF WaitCall, Block, TypeOK, Placed, Carried, QueueShape, OnePlace, InQueue, Sending, Used, Sent
<1>39. ASSUME UNCHANGED ops, NEW t \in Thread, MutexCall(t)
      PROVE  OnePlace'
  BY <1>39 DEF MutexCall, Block, MayNest, TypeOK, Placed, Carried, QueueShape, OnePlace, InQueue, Sending, Used, Sent
<1>40. ASSUME UNCHANGED ops, NEW t \in Thread, GlobalLockCall(t)
      PROVE  OnePlace'
  BY <1>40 DEF GlobalLockCall, TypeOK, Placed, Carried, QueueShape, OnePlace, InQueue, Sending, Used, Sent
<1>42. ASSUME UNCHANGED ops, NEW t \in Thread, MutexTry(t)
      PROVE  OnePlace'
  BY <1>42 DEF MutexTry, TypeOK, Placed, Carried, QueueShape, OnePlace, InQueue, Sending, Used, Sent
<1>43. ASSUME UNCHANGED ops, NEW t \in Thread, StartWait(t)
      PROVE  OnePlace'
  BY <1>43 DEF StartWait, TypeOK, Placed, Carried, QueueShape, OnePlace, InQueue, Sending, Used, Sent
<1>41. CASE UNCHANGED vars
  BY <1>41 DEF vars, state, TypeOK, Placed, Carried, QueueShape, OnePlace, InQueue, Sending, Used, Sent
<1> QED
  BY <1>1, <1>2, <1>3, <1>4, <1>5, <1>6, <1>7, <1>8, <1>9, <1>10, <1>11,
     <1>12, <1>13, <1>14, <1>15, <1>16, <1>17, <1>18, <1>19, <1>20, <1>21,
     <1>22, <1>23, <1>24, <1>25, <1>26, <1>27, <1>28, <1>29, <1>30, <1>31,
     <1>32, <1>33, <1>34, <1>35, <1>36, <1>37, <1>38, <1>39, <1>40, <1>41, <1>42,
     <1>43
     DEF Next, Runtime, Program

(* At the start only main() runs, and there are no messages. *)
LEMMA InitIInv ==
  ASSUME Init
  PROVE  IInv /\ Items = <<>>
<1> USE MainAssumption, MsgAssumption DEF Init
<1>1. TypeOK
  BY DEF TypeOK, Label
<1>2. Placed /\ Stopped /\ Carried
  BY DEF Placed, Asleep, Stopped, Marking, At, Carried, Sending
<1>3. OnePlace
  <2>1. InQueue = {}
    BY DEF InQueue
  <2> QED
    BY <2>1 DEF OnePlace
<1>4. QueueLinked /\ Items = <<>>
  <2>1. next \in [Msg -> Msg \cup {NoMsg}]
    BY <1>1 DEF TypeOK
  <2>2. Linked(first, last, next, <<>>)
    BY EmptySeq DEF Linked
  <2>3. Items = <<>>
    BY <2>1, <2>2, Reads DEF Items
  <2> QED
    BY <2>2, <2>3 DEF QueueLinked
<1>5. NoWaiterForgotten
  BY DEF NoWaiterForgotten, At
<1> QED
  BY <1>1, <1>2, <1>3, <1>4, <1>5 DEF IInv

(* Every step keeps the inductive invariant. *)
LEMMA NextIInv ==
  ASSUME IInv, [Next]_vars
  PROVE  IInv' /\ [Deque!ANext]_(Deque!avars)
<1>1. TypeOK /\ Placed /\ Stopped /\ Carried /\ QueueLinked /\ OnePlace /\ NoWaiterForgotten
  BY DEF IInv
<1>2. TypeOK'
  BY <1>1, TypeStep
<1>3. QueueLinked' /\ [Deque!ANext]_(Deque!avars)
  BY <1>1, <1>2, DequeStep
<1>4. QueueShape
  BY <1>1, ShapeOfLinked DEF QueueLinked
<1> QED
  BY <1>1, <1>2, <1>3, <1>4, PlacedStep, StoppedStep, CarriedStep, OnePlaceStep,
     WakeStep DEF IInv

(* The inductive invariant holds of every behaviour. *)
THEOREM Invariance == Spec => []IInv
<1>1. Init => IInv
  BY InitIInv
<1>2. IInv /\ [Next]_vars => IInv'
  BY NextIInv
<1> QED
  BY <1>1, <1>2, PTL DEF Spec

(* The linked nodes with their two ends are the queue of AtomicDeque
   (DequeSpec): what is in the deque is a sequence, of which hl_deque_add makes
   the end longer and hl_deque_push the beginning, and from which hl_deque_pop
   takes the first, one thread at a time; nothing else disturbs it. *)
THEOREM ImplementsDeque == Spec => DequeSpec
<1>1. Init => Deque!AInit
  <2> SUFFICES ASSUME Init PROVE Deque!AInit
    OBVIOUS
  <2>1. Items = <<>>
    BY InitIInv
  <2>2. Outgoing = [t \in Thread |-> NoMsg] /\ Incoming = [t \in Thread |-> NoMsg]
    BY MainAssumption DEF Init, Outgoing, Incoming, At
  <2> QED
    BY <2>1, <2>2 DEF Deque!AInit
<1>2. IInv /\ [Next]_vars => [Deque!ANext]_(Deque!avars)
  BY NextIInv
<1> QED
  BY <1>1, <1>2, Invariance, PTL DEF Spec, DequeSpec, Deque!ASpec

(* No lost wake-up (NoWaiterForgotten): hl_lock_wait and hl_deque_pop sleep
   only while there is nothing to take, and hl_lock_release, hl_deque_add and
   hl_deque_push, and the calls that took one of several, wake somebody. *)
THEOREM NeverForgotten == Spec => []NoWaiterForgotten
<1>1. IInv => NoWaiterForgotten
  BY DEF IInv
<1> QED
  BY <1>1, Invariance, PTL

(* What a mark misses (OnlyTheseAreMissed), for every number of threads. *)
LEMMA InvMissed == IInv => OnlyTheseAreMissed
<1> SUFFICES ASSUME IInv, Marking,
                    NEW m \in Msg, Used(m), m \notin Found
             PROVE  \E t \in Thread :
                      \/ ~ StackScanned(t) /\ m \in held[t]
                      \/ ~ StackScanned(t)
                         /\ \E u \in Thread : starter[u] = t /\ m = param[u]
                      \/ At(t, "pop_out") /\ m = hand[t]
  BY DEF OnlyTheseAreMissed
<1> USE MainAssumption, MsgAssumption DEF IInv
<1>1. m \notin Sent
  <2>1. QueueShape
    BY ShapeOfLinked DEF QueueLinked
  <2>2. last = m => m \in InQueue
    BY <2>1 DEF QueueShape
  <2> QED
    BY <2>2 DEF Sent, Found, InQueue
<1>2. PICK t \in Thread : m \in held[t] \/ m = hand[t] \/ m = param[t]
  BY <1>1 DEF Used
<1>3. CASE m \in held[t]
  BY <1>3 DEF Found, StackScanned, Placed
<1>4. CASE m = hand[t]
  <2>1. pc[t] \notin Sending
    <3> SUFFICES ASSUME pc[t] \in Sending
                 PROVE  Runs(t)
      BY DEF Stopped
    <3> QED
      BY DEF Runs, Placed, Asleep, Sending
  <2> QED
    BY <1>4, <2>1 DEF Carried, At
<1>5. CASE m = param[t]
  <2>1. starter[t] \in Thread
    BY <1>5 DEF Carried
  <2>2. ~ StackScanned(starter[t])
    BY <1>5 DEF Found
  <2> QED
    BY <1>5, <2>1, <2>2
<1> QED
  BY <1>2, <1>3, <1>4, <1>5

(* A collection finds every message that is sent and not received, however the
   deque is being changed, but for those of OnlyTheseAreMissed. *)
THEOREM OnlyTheseMissed == Spec => []OnlyTheseAreMissed
  BY Invariance, InvMissed, PTL
=============================================================================
