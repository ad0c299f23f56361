------------------------- MODULE MarkThreadsProofs --------------------------
(***************************************************************************)
(* Proofs about the mark phase (MarkThreads), for every number of mark     *)
(* threads and every heap.  The argument: a block that is marked and whose *)
(* pointers are not is always in somebody's hands (NothingLost), a worker  *)
(* with something in its hands has its bit set (Counted), so when the      *)
(* collector finds no bit set the marked blocks are closed under pointers; *)
(* and everything marked comes from the roots of the pass (FromRoots).     *)
(***************************************************************************)
EXTENDS MarkThreads, FiniteSetTheorems, TLAPS

USE WorkerAssumption, RootAssumption, HeapAssumption DEF IInv

(* Sets of blocks and of workers are finite. *)
LEMMA FiniteSets ==
  /\ \A S \in SUBSET Object : IsFiniteSet(S) /\ Cardinality(S) \in Nat
  /\ \A S \in SUBSET Worker : IsFiniteSet(S) /\ Cardinality(S) \in Nat
  BY FiniteAssumption, FS_Subset, FS_CardinalityType

(* The share of each worker is a natural number, and the shares are large
   enough for all the blocks. *)
LEMMA Shares ==
  ASSUME NEW n \in Nat, NEW k \in Nat \ {0}
  PROVE  /\ (n + k - 1) \div k \in Nat
         /\ n <= ((n + k - 1) \div k) * k
  OBVIOUS

(* When nobody has anything in hand, what is marked is what the roots of the
   pass reach. *)
LEMMA MarkedIsReached ==
  ASSUME TypeOK, FromRoots, NothingLost, pc[Main] # "roots",
         \A m \in Marker : stack[m] = {} /\ cur[m] = {}
  PROVE  bmp = Reach(PassRoots)
<1>1. bmp \in SUBSET Object /\ PassRoots \subseteq bmp
  BY DEF TypeOK, NothingLost
<1>2. Closed(bmp)
  BY DEF Closed, NothingLost, TypeOK
<1>3. \A o \in Reach(PassRoots) : o \in bmp
  BY <1>1, <1>2 DEF Reach
<1>4. \A o \in bmp : o \in Reach(PassRoots)
  BY <1>1 DEF Reach, FromRoots
<1> QED
  BY <1>3, <1>4

(* Before the first collection nothing is marked and nobody has work. *)
LEMMA InitIInv == Init => IInv
<1> SUFFICES ASSUME Init
             PROVE  IInv
  OBVIOUS
<1> USE DEF Init
<1>1. TypeOK
  <2>1. round \in 0..MaxRounds
    BY RoundAssumption
  <2>2. pc \in [Marker -> Label]
    BY DEF Label, Marker
  <2>3. /\ stack \in [Marker -> SUBSET Object]
        /\ cur \in [Marker -> SUBSET Object]
        /\ todo \in [Marker -> SUBSET Worker]
        /\ count \in [Marker -> Nat]
        /\ ready \in [Worker -> Nat]
    OBVIOUS
  <2> QED
    BY <2>1, <2>2, <2>3 DEF TypeOK
<1>2. Places /\ Counted /\ Tokens /\ Sharing /\ Between
  BY DEF Places, Counted, Tokens, Sharing, Between, Marker
<1>3. FromRoots /\ NothingLost /\ Observed
  BY DEF FromRoots, NothingLost, Observed, Marker
<1> QED
  BY <1>1, <1>2, <1>3

(* Every step of every marker preserves the inductive invariant. *)
LEMMA NextIInv == IInv /\ [Next]_vars => IInv'
<1> SUFFICES ASSUME IInv, [Next]_vars
             PROVE  IInv'
  OBVIOUS
<1>1. CASE PushRoots
  <2>1. TypeOK'
    <3>1. count' \in [Marker -> Nat]
      <4>1. CASE Worker = {}
        BY <1>1, <4>1 DEF PushRoots, TypeOK
      <4>2. CASE Worker # {}
        <5>1. /\ Cardinality(Scannable(Roots)) \in Nat
              /\ Cardinality(Worker) \in Nat \ {0}
          BY <4>2, FiniteSets, FS_EmptySet DEF Scannable
        <5>2. (Cardinality(Scannable(Roots)) + Cardinality(Worker) - 1)
                \div Cardinality(Worker) \in Nat
          BY <5>1, Shares
        <5> QED
          BY <1>1, <4>2, <5>2 DEF PushRoots, TypeOK
      <4> QED
        BY <4>1, <4>2
    <3> QED
      BY <1>1, <3>1 DEF PushRoots, TypeOK, Label, Marker, Goto, Scannable
  <2>2. Places' /\ Counted'
    BY <1>1 DEF PushRoots, Marker, Goto, TypeOK, Places, Counted
  <2>3. Tokens' /\ Between'
    BY <1>1 DEF PushRoots, Marker, Goto, TypeOK, Places, Counted, Tokens,
       Unreleased, Sharing, Between
  <2>4. Sharing'
    <3>1. CASE Worker = {}
      BY <1>1, <3>1 DEF PushRoots, Goto, TypeOK, Marker, Sharing
    <3>2. CASE Worker # {}
      <4> DEFINE n == Cardinality(Scannable(Roots))
                 k == Cardinality(Worker)
      <4>1. n \in Nat /\ k \in Nat \ {0}
        BY <3>2, FiniteSets, FS_EmptySet DEF Scannable
      <4>2. n <= ((n + k - 1) \div k) * k
        BY <4>1, Shares
      <4>3. /\ stack'[Main] = Scannable(Roots)
            /\ todo'[Main] = Worker
            /\ count'[Main] = (n + k - 1) \div k
            /\ pc' = [pc EXCEPT ![Main] = "share"]
            /\ mark_threads_active' = {}
        BY <1>1, <3>2 DEF PushRoots, Goto, TypeOK, Marker, Between
      <4>4. \A w \in Worker : pc'[w] \in {"idle", "check"}
        BY <1>1, <4>3 DEF PushRoots, TypeOK, Marker, Counted, Between
      <4>5. Cardinality(stack'[Main]) <=
              count'[Main] * Cardinality(todo'[Main])
        BY <4>2, <4>3
      <4> QED
        BY <4>3, <4>4, <4>5 DEF Sharing, TypeOK, Marker
    <3> QED
      BY <3>1, <3>2
  <2>5. FromRoots'
    BY <1>1 DEF PushRoots, Marker, Goto, TypeOK, FromRoots, PassRoots, Closed
  <2>6. NothingLost' /\ Observed'
    <3>1. /\ bmp' = Roots /\ points' = points /\ foreign' = foreign
          /\ ~ foreign
          /\ stack' = [stack EXCEPT ![Main] = Roots \ Raw]
      BY <1>1 DEF PushRoots, Scannable, Between
    <3>2. \A w \in Worker : stack'[w] = {}
      BY <1>1, <3>1 DEF TypeOK, Marker, Counted, Between, PushRoots
    <3>3. \A o \in Roots \ Raw : o \in stack'[Main]
      BY <3>1 DEF TypeOK, Marker
    <3>4. \A o \in Roots \cap Raw : points'[o] = {}
      BY <3>1 DEF TypeOK
    <3> QED
      BY <3>1, <3>2, <3>3, <3>4 DEF NothingLost, PassRoots, Observed, Marker,
         TypeOK
  <2> QED
    BY <2>1, <2>2, <2>3, <2>4, <2>5, <2>6
<1>2. ASSUME NEW w \in Worker, Share(w)
      PROVE  IInv'
  <2>1. TypeOK'
    BY <1>2 DEF Share, Marker, Goto, TypeOK, Label
  <2>2. Places' /\ Counted'
    <3>1. stack[w] = {}
      BY <1>2 DEF Share, Sharing, Counted
    <3>2. /\ pc' = pc /\ pc[Main] = "share" /\ cur' = cur
          /\ mark_threads_active' = mark_threads_active \cup {w}
          /\ \E S : stack' = [stack EXCEPT ![w] = S, ![Main] = @ \ S]
      BY <1>2, <3>1 DEF Share
    <3>3. \A v \in Worker \ {w} : stack'[v] = stack[v]
      BY <3>2 DEF TypeOK, Marker
    <3>4. pc[w] \in {"idle", "check"}
      BY <1>2 DEF Share, Sharing
    <3> QED
      BY <3>2, <3>3, <3>4 DEF Places, Counted
  <2>3. Tokens' /\ Between'
    BY <1>2 DEF Share, Marker, Goto, TypeOK, Places, Counted, Tokens,
       Unreleased, Sharing, Between
  <2>4. Sharing'
    <3>1. stack[w] = {} /\ w \notin mark_threads_active
      BY <1>2 DEF Share, Sharing, Counted
    <3>2. PICK S \in SUBSET stack[Main] :
            /\ Cardinality(S) = Least(count[Main], Cardinality(stack[Main]))
            /\ stack' = [stack EXCEPT ![w] = S, ![Main] = @ \ S]
      BY <1>2, <3>1 DEF Share
    <3>3. /\ todo' = [todo EXCEPT ![Main] = @ \ {w}]
          /\ count' = count /\ pc' = pc /\ count[Main] > 0
          /\ mark_threads_active' = mark_threads_active \cup {w}
      BY <1>2, <3>1 DEF Share
    <3>4. Cardinality(stack'[Main]) <= count[Main] * Cardinality(todo'[Main])
      <4> DEFINE a == Cardinality(stack[Main])
                 b == Cardinality(todo[Main])
                 c == count[Main]
      <4>1. stack[Main] \in SUBSET Object /\ todo[Main] \in SUBSET Worker
        BY DEF TypeOK, Marker
      <4>2. a \in Nat /\ b \in Nat /\ c \in Nat \ {0} /\ IsFiniteSet(S)
        BY <3>3, <4>1, FiniteSets DEF TypeOK, Marker
      <4>3. Cardinality(todo[Main] \ {w}) = b - 1 /\ b - 1 \in Nat
        <5>1. w \in todo[Main] /\ IsFiniteSet(todo[Main])
          BY <1>2, <4>1, FiniteSets DEF Share
        <5>2. Cardinality(todo[Main] \ {w}) = b - 1
          BY <5>1, FS_RemoveElement
        <5>3. todo[Main] \ {w} \in SUBSET Worker
          BY <4>1
        <5> QED
          BY <5>2, <5>3, FiniteSets
      <4>4. Cardinality(stack[Main] \ S) = a - Cardinality(S)
        <5>1. IsFiniteSet(stack[Main])
          BY <4>1, FiniteSets
        <5>2. stack[Main] \cap S = S
          OBVIOUS
        <5> QED
          BY <5>1, <5>2, FS_Difference
      <4>5. a <= c * b
        BY <1>2 DEF Share, Sharing
      <4>6. a - Cardinality(S) <= c * (b - 1)
        <5>1. c * (b - 1) = c * b - c /\ c * (b - 1) >= 0
          BY <4>2, <4>3
        <5>2. CASE a <= c
          BY <3>2, <4>2, <5>1, <5>2 DEF Least
        <5>3. CASE ~ a <= c
          <6>1. Cardinality(S) = c
            BY <3>2, <4>2, <5>3 DEF Least
          <6>2. c * b \in Nat
            BY <4>2
          <6> QED
            BY <4>2, <4>5, <5>1, <6>1, <6>2
        <5> QED
          BY <5>2, <5>3
      <4>7. stack'[Main] = stack[Main] \ S /\ todo'[Main] = todo[Main] \ {w}
        BY <3>2, <3>3 DEF TypeOK, Marker
      <4> QED
        BY <4>3, <4>4, <4>6, <4>7
    <3>5. \A v \in Worker : /\ pc'[v] \in {"idle", "check"}
                            /\ v \in mark_threads_active' <=> v \notin todo'[Main]
      BY <1>2, <3>3 DEF Share, Sharing, TypeOK, Marker
    <3>6. pc'[Main] = "share" /\ count'[Main] > 0
      BY <1>2, <3>3 DEF Share
    <3> QED
      BY <3>3, <3>4, <3>5, <3>6 DEF Sharing, TypeOK, Marker
  <2>5. FromRoots'
    BY <1>2 DEF Share, Marker, Goto, TypeOK, FromRoots, PassRoots, Closed
  <2>6. NothingLost' /\ Observed'
    BY <1>2 DEF Share, Marker, Goto, TypeOK, NothingLost, PassRoots, Observed,
       Reach, Closed
  <2> QED
    BY <2>1, <2>2, <2>3, <2>4, <2>5, <2>6
<1>3. CASE Shared
  <2>1. TypeOK'
    BY <1>3 DEF Shared, Marker, Goto, TypeOK, Label
  <2>2. Places' /\ Counted'
    <3>1. stack[Main] \in SUBSET Object /\ count[Main] \in Nat
      BY DEF TypeOK, Marker
    <3>2. Cardinality(stack[Main]) <= 0
      <4>1. Cardinality(stack[Main]) <= count[Main] * Cardinality(todo[Main])
        BY <1>3 DEF Shared, Sharing
      <4>2. CASE count[Main] = 0
        <5>1. Cardinality(todo[Main]) \in Nat
          BY FiniteSets DEF TypeOK, Marker
        <5> QED
          BY <4>1, <4>2, <5>1
      <4>3. CASE todo[Main] = {}
        BY <3>1, <4>1, <4>3, FS_EmptySet
      <4> QED
        BY <1>3, <4>2, <4>3 DEF Shared
    <3>3. stack[Main] = {}
      BY <3>1, <3>2, FiniteSets, FS_EmptySet
    <3> QED
      BY <1>3, <3>3 DEF Shared, Marker, Goto, TypeOK, Places, Counted
  <2>3. Tokens' /\ Between'
    BY <1>3 DEF Shared, Marker, Goto, TypeOK, Places, Counted, Tokens,
       Unreleased, Sharing, Between
  <2>4. Sharing'
    BY <1>3 DEF Shared, Marker, Goto, TypeOK, Places, Counted, Sharing,
       Between
  <2>5. FromRoots'
    BY <1>3 DEF Shared, Marker, Goto, TypeOK, FromRoots, PassRoots, Closed
  <2>6. NothingLost' /\ Observed'
    BY <1>3 DEF Shared, Marker, Goto, TypeOK, NothingLost, PassRoots,
       Observed, Reach, Closed
  <2> QED
    BY <2>1, <2>2, <2>3, <2>4, <2>5, <2>6
<1>4. ASSUME NEW w \in Worker, Release(w)
      PROVE  IInv'
  <2>1. TypeOK'
    BY <1>4 DEF Release, Marker, TypeOK, Label
  <2>2. Places' /\ Counted'
    BY <1>4 DEF Release, Marker, TypeOK, Places, Counted
  <2>3. Tokens' /\ Between'
    BY <1>4 DEF Release, Marker, TypeOK, Places, Counted, Tokens, Unreleased,
       Sharing, Between
  <2>4. Sharing'
    BY <1>4 DEF Release, Marker, TypeOK, Places, Counted, Sharing, Between
  <2>5. FromRoots'
    BY <1>4 DEF Release, Marker, TypeOK, FromRoots, PassRoots, Closed
  <2>6. NothingLost' /\ Observed'
    BY <1>4 DEF Release, Marker, TypeOK, NothingLost, PassRoots, Observed,
       Reach, Closed
  <2> QED
    BY <2>1, <2>2, <2>3, <2>4, <2>5, <2>6
<1>5. CASE Released
  <2>1. TypeOK'
    BY <1>5 DEF Released, Marker, Goto, TypeOK, Label
  <2>2. Places' /\ Counted'
    BY <1>5 DEF Released, Marker, Goto, TypeOK, Places, Counted
  <2>3. Tokens' /\ Between'
    BY <1>5 DEF Released, Marker, Goto, TypeOK, Places, Counted, Tokens,
       Unreleased, Sharing, Between
  <2>4. Sharing'
    BY <1>5 DEF Released, Marker, Goto, TypeOK, Places, Counted, Sharing,
       Between
  <2>5. FromRoots'
    BY <1>5 DEF Released, Marker, Goto, TypeOK, FromRoots, PassRoots, Closed
  <2>6. NothingLost' /\ Observed'
    BY <1>5 DEF Released, Marker, Goto, TypeOK, NothingLost, PassRoots,
       Observed, Reach, Closed
  <2> QED
    BY <2>1, <2>2, <2>3, <2>4, <2>5, <2>6
<1>6. CASE Wait
  <2>1. TypeOK'
    BY <1>6 DEF Wait, Marker, Goto, TypeOK, Label
  <2>2. Places' /\ Counted'
    BY <1>6 DEF Wait, Marker, Goto, TypeOK, Places, Counted
  <2>3. Tokens' /\ Between'
    BY <1>6 DEF Wait, Marker, Goto, TypeOK, Places, Counted, Tokens,
       Unreleased, Sharing, Between
  <2>4. Sharing'
    BY <1>6 DEF Wait, Marker, Goto, TypeOK, Places, Counted, Sharing, Between
  <2>5. FromRoots'
    BY <1>6 DEF Wait, Marker, Goto, TypeOK, FromRoots, PassRoots, Closed
  <2>6. NothingLost' /\ Observed'
    BY <1>6 DEF Wait, Marker, Goto, TypeOK, NothingLost, PassRoots, Observed,
       Reach, Closed
  <2> QED
    BY <2>1, <2>2, <2>3, <2>4, <2>5, <2>6
<1>7. CASE AcquireDone
  <2>1. TypeOK'
    BY <1>7 DEF AcquireDone, Marker, Goto, TypeOK, Label
  <2>2. Places' /\ Counted'
    BY <1>7 DEF AcquireDone, Marker, Goto, TypeOK, Places, Counted
  <2>3. Tokens' /\ Between'
    BY <1>7 DEF AcquireDone, Marker, Goto, TypeOK, Places, Counted, Tokens,
       Unreleased, Sharing, Between
  <2>4. Sharing'
    BY <1>7 DEF AcquireDone, Marker, Goto, TypeOK, Places, Counted, Sharing,
       Between
  <2>5. FromRoots'
    BY <1>7 DEF AcquireDone, Marker, Goto, TypeOK, FromRoots, PassRoots,
       Closed
  <2>6. NothingLost' /\ Observed'
    BY <1>7 DEF AcquireDone, Marker, Goto, TypeOK, NothingLost, PassRoots,
       Observed, Reach, Closed
  <2> QED
    BY <2>1, <2>2, <2>3, <2>4, <2>5, <2>6
<1>8. CASE Observe
  <2>1. TypeOK'
    <3>1. bmp' \subseteq Object /\ observed' \subseteq Object
      BY <1>8 DEF Observe, TypeOK
    <3>2. stack' \in [Marker -> SUBSET Object]
      BY <1>8 DEF Observe, Scannable, TypeOK
    <3>3. pc' \in [Marker -> Label] /\ foreign' \in BOOLEAN
      BY <1>8 DEF Observe, Goto, Label, TypeOK
    <3> QED
      BY <1>8, <3>1, <3>2, <3>3 DEF Observe, TypeOK
  <2>2. Places' /\ Counted'
    BY <1>8 DEF Observe, Marker, Goto, TypeOK, Places, Counted
  <2>3. Tokens' /\ Between'
    BY <1>8 DEF Observe, Marker, Goto, TypeOK, Places, Counted, Tokens,
       Unreleased, Sharing, Between
  <2>4. Sharing'
    BY <1>8 DEF Observe, Marker, Goto, TypeOK, Places, Counted, Sharing,
       Between
  <2>5. FromRoots'
    BY <1>8 DEF Observe, Marker, Goto, TypeOK, FromRoots, PassRoots, Closed
  <2>6. NothingLost' /\ Observed'
    <3>1. \A m \in Marker : stack[m] = {} /\ cur[m] = {}
      BY <1>8 DEF Observe, Places, Counted, Marker
    <3>2. /\ observed' = bmp /\ points' = points /\ cur' = cur /\ foreign'
          /\ bmp' = bmp \cup Foreign
          /\ stack' = [stack EXCEPT ![Main] = (Foreign \ bmp) \ Raw]
          /\ ~ foreign /\ pc[Main] = "wait"
      BY <1>8, <3>1 DEF Observe, Scannable, Marker
    <3>3. bmp = Reach(Roots)
      BY <3>1, <3>2, MarkedIsReached DEF PassRoots
    <3>4. Reach(Roots)' = Reach(Roots)
      BY <3>2 DEF Reach, Closed
    <3>5. \A o \in bmp' : \/ \E m \in Marker : o \in stack'[m]
                          \/ points'[o] \subseteq bmp'
      <4>1. \A o \in bmp : points[o] \subseteq bmp
        BY <3>1 DEF NothingLost
      <4>2. \A o \in (Foreign \ bmp) \ Raw : o \in stack'[Main]
        BY <3>2 DEF TypeOK, Marker
      <4>3. \A o \in Foreign \cap Raw : points[o] = {}
        BY DEF TypeOK
      <4> QED
        BY <3>2, <4>1, <4>2, <4>3 DEF Marker
    <3>6. \A m \in Marker : stack'[m] \subseteq bmp'
      BY <3>1, <3>2 DEF TypeOK
    <3>7. PassRoots' \subseteq bmp'
      BY <3>2 DEF NothingLost, PassRoots
    <3> QED
      BY <3>2, <3>3, <3>4, <3>5, <3>6, <3>7 DEF NothingLost, Observed
  <2> QED
    BY <2>1, <2>2, <2>3, <2>4, <2>5, <2>6
<1>9. CASE MarkOver
  <2>1. TypeOK'
    BY <1>9 DEF MarkOver, Marker, Goto, TypeOK, Label
  <2>2. Places' /\ Counted'
    BY <1>9 DEF MarkOver, Marker, Goto, TypeOK, Places, Counted
  <2>3. Tokens' /\ Between'
    BY <1>9 DEF MarkOver, Marker, Goto, TypeOK, Places, Counted, Tokens,
       Unreleased, Sharing, Between
  <2>4. Sharing'
    BY <1>9 DEF MarkOver, Marker, Goto, TypeOK, Places, Counted, Sharing,
       Between
  <2>5. FromRoots'
    BY <1>9 DEF MarkOver, Marker, Goto, TypeOK, FromRoots, PassRoots, Closed
  <2>6. NothingLost' /\ Observed'
    BY <1>9 DEF MarkOver, Marker, Goto, TypeOK, NothingLost, PassRoots,
       Observed, Reach, Closed
  <2> QED
    BY <2>1, <2>2, <2>3, <2>4, <2>5, <2>6
<1>10. CASE Collect
  <2>1. TypeOK'
    <3>1. round' \in 0..MaxRounds
      BY <1>10, RoundAssumption DEF Collect, TypeOK
    <3>2. pc' \in [Marker -> Label]
      BY <1>10 DEF Collect, Goto, Label, TypeOK
    <3> QED
      BY <1>10, <3>1, <3>2 DEF Collect, TypeOK
  <2>2. Places' /\ Counted'
    BY <1>10 DEF Collect, Marker, Goto, TypeOK, Places, Counted
  <2>3. Tokens' /\ Between'
    BY <1>10 DEF Collect, Marker, Goto, TypeOK, Places, Counted, Tokens,
       Unreleased, Sharing, Between
  <2>4. Sharing'
    BY <1>10 DEF Collect, Marker, Goto, TypeOK, Places, Counted, Sharing,
       Between
  <2>5. FromRoots'
    <3>1. \A m \in Marker : cur[m] = {}
      BY <1>10 DEF Collect, Places, Counted, Between, Marker
    <3> QED
      BY <1>10, <3>1 DEF Collect, FromRoots
  <2>6. NothingLost' /\ Observed'
    <3>1. \A m \in Marker : stack[m] = {}
      BY <1>10 DEF Collect, Places, Counted, Between, Marker
    <3> QED
      BY <1>10, <3>1 DEF Collect, Goto, TypeOK, Marker, NothingLost, Observed
  <2> QED
    BY <2>1, <2>2, <2>3, <2>4, <2>5, <2>6
<1>11. ASSUME NEW m \in Marker, Pop(m)
      PROVE  IInv'
  <2>1. TypeOK'
    <3>1. PICK o \in stack[m] : /\ stack' = [stack EXCEPT ![m] = @ \ {o}]
                                /\ cur' = [cur EXCEPT ![m] = points[o]]
      BY <1>11 DEF Pop
    <3>2. stack' \in [Marker -> SUBSET Object]
          /\ cur' \in [Marker -> SUBSET Object]
      BY <3>1 DEF TypeOK
    <3>3. count' \in [Marker -> Nat]
      <4> DEFINE i == Cardinality(Worker \ mark_threads_active)
                 n == Cardinality(stack'[m])
      <4>1. CASE UNCHANGED count
        BY <4>1 DEF TypeOK
      <4>2. CASE i > 0 /\ count' = [count EXCEPT ![m] = n \div (i + 1)]
        <5>1. i \in Nat /\ n \in Nat
          BY <3>2, FiniteSets DEF TypeOK
        <5>2. n \div (i + 1) \in Nat
          BY <5>1
        <5> QED
          BY <4>2, <5>2 DEF TypeOK
      <4> QED
        BY <1>11, <4>1, <4>2 DEF Pop
    <3> QED
      BY <1>11, <3>2, <3>3 DEF Pop, Marker, Goto, TypeOK, Label
  <2>2. Places' /\ Counted'
    BY <1>11 DEF Pop, Marker, Goto, TypeOK, Places, Counted
  <2>3. Tokens' /\ Between'
    BY <1>11 DEF Pop, Marker, Goto, TypeOK, Places, Counted, Tokens,
       Unreleased, Sharing, Between
  <2>4. Sharing'
    BY <1>11 DEF Pop, Marker, Goto, TypeOK, Places, Counted, Sharing, Between
  <2>5. FromRoots'
    <3>1. PICK o \in stack[m] : cur' = [cur EXCEPT ![m] = points[o]]
      BY <1>11 DEF Pop
    <3>2. bmp' = bmp /\ points' = points /\ foreign' = foreign
      BY <1>11 DEF Pop
    <3>3. o \in bmp
      BY <3>1 DEF NothingLost
    <3> SUFFICES ASSUME NEW C \in SUBSET Object, PassRoots \subseteq C,
                        Closed(C)
                 PROVE  bmp \subseteq C /\ \A n \in Marker : cur'[n] \subseteq C
      BY <3>2 DEF FromRoots, PassRoots, Closed
    <3>4. bmp \subseteq C /\ \A n \in Marker : cur[n] \subseteq C
      BY DEF FromRoots
    <3>5. points[o] \subseteq C
      BY <3>3, <3>4 DEF Closed
    <3> QED
      BY <3>1, <3>4, <3>5 DEF TypeOK
  <2>6. NothingLost' /\ Observed'
    <3>1. PICK o \in stack[m] : /\ stack' = [stack EXCEPT ![m] = @ \ {o}]
                                /\ cur' = [cur EXCEPT ![m] = points[o]]
      BY <1>11 DEF Pop
    <3>2. /\ bmp' = bmp /\ points' = points /\ foreign' = foreign
          /\ observed' = observed /\ pc[m] = "flush"
      BY <1>11 DEF Pop
    <3>3. cur[m] = {}
      BY <3>2 DEF Places
    <3>4. \A q \in bmp' : \/ \E n \in Marker : q \in stack'[n]
                          \/ \A p \in points'[q] :
                               p \in bmp' \/ \E n \in Marker : p \in cur'[n]
      <4> SUFFICES ASSUME NEW q \in bmp, \A n \in Marker : q \notin stack'[n],
                          NEW p \in points[q], p \notin bmp
                   PROVE  \E n \in Marker : p \in cur'[n]
        BY <3>2
      <4>1. CASE q = o
        BY <3>1, <4>1 DEF TypeOK
      <4>2. CASE q # o
        <5>1. \A n \in Marker : q \notin stack[n]
          BY <3>1, <4>2 DEF TypeOK
        <5>2. PICK n \in Marker : p \in cur[n]
          BY <5>1 DEF NothingLost
        <5> QED
          BY <3>1, <3>3, <5>2 DEF TypeOK
      <4> QED
        BY <4>1, <4>2
    <3>5. \A n \in Marker : stack'[n] \subseteq bmp'
      BY <3>1, <3>2 DEF NothingLost, TypeOK
    <3>6. Reach(Roots)' = Reach(Roots)
      BY <3>2 DEF Reach, Closed
    <3>7. pc'[Main] # "roots" => pc[Main] # "roots"
      BY <1>11 DEF Pop, Goto, TypeOK, Marker
    <3>8. NothingLost'
      BY <3>2, <3>4, <3>5, <3>7 DEF NothingLost, PassRoots
    <3> QED
      BY <3>2, <3>6, <3>8 DEF Observed
  <2> QED
    BY <2>1, <2>2, <2>3, <2>4, <2>5, <2>6
<1>12. ASSUME NEW m \in Marker, NEW w \in Worker, Offer(m, w)
      PROVE  IInv'
  <2>1. TypeOK'
    BY <1>12 DEF Offer, Marker, Goto, TypeOK, Label
  <2>2. Places' /\ Counted'
    BY <1>12 DEF Offer, Marker, Goto, TypeOK, Places, Counted
  <2>3. Tokens' /\ Between'
    BY <1>12 DEF Offer, Marker, Goto, TypeOK, Places, Counted, Tokens,
       Unreleased, Sharing, Between
  <2>4. Sharing'
    BY <1>12 DEF Offer, Marker, Goto, TypeOK, Places, Counted, Sharing,
       Between
  <2>5. FromRoots'
    BY <1>12 DEF Offer, Marker, Goto, TypeOK, FromRoots, PassRoots, Closed
  <2>6. NothingLost' /\ Observed'
    BY <1>12 DEF Offer, Marker, Goto, TypeOK, NothingLost, PassRoots,
       Observed, Reach, Closed
  <2> QED
    BY <2>1, <2>2, <2>3, <2>4, <2>5, <2>6
<1>13. ASSUME NEW m \in Marker, Offered(m)
      PROVE  IInv'
  <2>1. TypeOK'
    BY <1>13 DEF Offered, Marker, Goto, TypeOK, Label
  <2>2. Places' /\ Counted'
    BY <1>13 DEF Offered, Marker, Goto, TypeOK, Places, Counted
  <2>3. Tokens' /\ Between'
    BY <1>13 DEF Offered, Marker, Goto, TypeOK, Places, Counted, Tokens,
       Unreleased, Sharing, Between
  <2>4. Sharing'
    BY <1>13 DEF Offered, Marker, Goto, TypeOK, Places, Counted, Sharing,
       Between
  <2>5. FromRoots'
    BY <1>13 DEF Offered, Marker, Goto, TypeOK, FromRoots, PassRoots, Closed
  <2>6. NothingLost' /\ Observed'
    BY <1>13 DEF Offered, Marker, Goto, TypeOK, NothingLost, PassRoots,
       Observed, Reach, Closed
  <2> QED
    BY <2>1, <2>2, <2>3, <2>4, <2>5, <2>6
<1>14. ASSUME NEW m \in Marker, Visit(m)
      PROVE  IInv'
  <2>1. TypeOK'
    BY <1>14 DEF Visit, Marker, TypeOK, Label, Scannable
  <2>2. Places' /\ Counted'
    BY <1>14 DEF Visit, Marker, TypeOK, Places, Counted
  <2>3. Tokens' /\ Between'
    BY <1>14 DEF Visit, Marker, TypeOK, Places, Counted, Tokens, Unreleased,
       Sharing, Between
  <2>4. Sharing'
    BY <1>14 DEF Visit, Marker, TypeOK, Places, Counted, Sharing, Between
  <2>5. FromRoots'
    BY <1>14 DEF Visit, Marker, TypeOK, FromRoots, PassRoots, Closed
  <2>6. NothingLost' /\ Observed'
    <3>1. PICK o \in cur[m] :
            /\ cur' = [cur EXCEPT ![m] = @ \ {o}]
            /\ bmp' = bmp \cup {o}
            /\ stack' = [stack EXCEPT ![m] = @ \cup (({o} \ bmp) \ Raw)]
      BY <1>14 DEF Visit, Scannable
    <3>2. /\ points' = points /\ foreign' = foreign /\ pc' = pc
          /\ observed' = observed
      BY <1>14 DEF Visit
    <3>3. \A n \in Marker : stack[n] \subseteq stack'[n]
      BY <3>1 DEF TypeOK
    <3>4. \A n \in Marker : \A p \in cur[n] : p = o \/ p \in cur'[n]
      BY <3>1 DEF TypeOK
    <3>5. o \in bmp \/ o \in stack'[m] \/ points[o] = {}
      <4>1. o \in Object
        BY <3>1 DEF TypeOK
      <4>2. o \in Raw => points[o] = {}
        BY <4>1 DEF TypeOK
      <4> QED
        BY <3>1, <4>2 DEF TypeOK
    <3>6. \A q \in bmp' : \/ \E n \in Marker : q \in stack'[n]
                          \/ \A p \in points'[q] :
                               p \in bmp' \/ \E n \in Marker : p \in cur'[n]
      <4> SUFFICES ASSUME NEW q \in bmp', \A n \in Marker : q \notin stack'[n],
                          NEW p \in points[q], p \notin bmp'
                   PROVE  \E n \in Marker : p \in cur'[n]
        BY <3>2
      <4>1. q \in bmp
        BY <3>1, <3>5
      <4>2. PICK n \in Marker : p \in cur[n]
        BY <3>1, <3>3, <4>1 DEF NothingLost
      <4> QED
        BY <3>1, <3>4, <4>2
    <3>7. \A n \in Marker : stack'[n] \subseteq bmp'
      BY <3>1 DEF NothingLost, TypeOK
    <3>8. Reach(Roots)' = Reach(Roots)
      BY <3>2 DEF Reach, Closed
    <3>9. NothingLost'
      BY <3>1, <3>2, <3>6, <3>7 DEF NothingLost, PassRoots
    <3> QED
      BY <3>2, <3>8, <3>9 DEF Observed
  <2> QED
    BY <2>1, <2>2, <2>3, <2>4, <2>5, <2>6
<1>15. ASSUME NEW m \in Marker, Scanned(m)
      PROVE  IInv'
  <2>1. TypeOK'
    BY <1>15 DEF Scanned, Marker, Goto, TypeOK, Label
  <2>2. Places' /\ Counted'
    BY <1>15 DEF Scanned, Marker, Goto, TypeOK, Places, Counted
  <2>3. Tokens' /\ Between'
    BY <1>15 DEF Scanned, Marker, Goto, TypeOK, Places, Counted, Tokens,
       Unreleased, Sharing, Between
  <2>4. Sharing'
    BY <1>15 DEF Scanned, Marker, Goto, TypeOK, Places, Counted, Sharing,
       Between
  <2>5. FromRoots'
    BY <1>15 DEF Scanned, Marker, Goto, TypeOK, FromRoots, PassRoots, Closed
  <2>6. NothingLost' /\ Observed'
    BY <1>15 DEF Scanned, Marker, Goto, TypeOK, NothingLost, PassRoots,
       Observed, Reach, Closed
  <2> QED
    BY <2>1, <2>2, <2>3, <2>4, <2>5, <2>6
<1>16. ASSUME NEW m \in Marker, Flushed(m)
      PROVE  IInv'
  <2>1. TypeOK'
    BY <1>16 DEF Flushed, Marker, Goto, TypeOK, Label
  <2>2. Places' /\ Counted'
    BY <1>16 DEF Flushed, Marker, Goto, TypeOK, Places, Counted
  <2>3. Tokens' /\ Between'
    BY <1>16 DEF Flushed, Marker, Goto, TypeOK, Places, Counted, Tokens,
       Unreleased, Sharing, Between
  <2>4. Sharing'
    BY <1>16 DEF Flushed, Marker, Goto, TypeOK, Places, Counted, Sharing,
       Between
  <2>5. FromRoots'
    BY <1>16 DEF Flushed, Marker, Goto, TypeOK, FromRoots, PassRoots, Closed
  <2>6. NothingLost' /\ Observed'
    BY <1>16 DEF Flushed, Marker, Goto, TypeOK, NothingLost, PassRoots,
       Observed, Reach, Closed
  <2> QED
    BY <2>1, <2>2, <2>3, <2>4, <2>5, <2>6
<1>17. ASSUME NEW w \in Worker, AcquireReady(w)
      PROVE  IInv'
  <2>1. TypeOK'
    BY <1>17 DEF AcquireReady, Marker, Goto, TypeOK, Label
  <2>2. Places' /\ Counted'
    <3>1. w \in mark_threads_active
      BY <1>17 DEF AcquireReady, Tokens
    <3> QED
      BY <1>17, <3>1 DEF AcquireReady, Marker, Goto, TypeOK, Places, Counted
  <2>3. Tokens' /\ Between'
    BY <1>17 DEF AcquireReady, Marker, Goto, TypeOK, Places, Counted, Tokens,
       Unreleased, Sharing, Between
  <2>4. Sharing'
    <3>1. ~ Unreleased(w)
      BY <1>17 DEF AcquireReady, Tokens
    <3> QED
      BY <1>17, <3>1 DEF AcquireReady, Unreleased, Marker, Goto, TypeOK, Sharing
  <2>5. FromRoots'
    BY <1>17 DEF AcquireReady, Marker, Goto, TypeOK, FromRoots, PassRoots,
       Closed
  <2>6. NothingLost' /\ Observed'
    BY <1>17 DEF AcquireReady, Marker, Goto, TypeOK, NothingLost, PassRoots,
       Observed, Reach, Closed
  <2> QED
    BY <2>1, <2>2, <2>3, <2>4, <2>5, <2>6
<1>18. ASSUME NEW w \in Worker, Unset(w)
      PROVE  IInv'
  <2>1. TypeOK'
    BY <1>18 DEF Unset, Marker, Goto, TypeOK, Label
  <2>2. Places' /\ Counted'
    BY <1>18 DEF Unset, Marker, Goto, TypeOK, Places, Counted
  <2>3. Tokens' /\ Between'
    BY <1>18 DEF Unset, Marker, Goto, TypeOK, Places, Counted, Tokens,
       Unreleased, Sharing, Between
  <2>4. Sharing'
    BY <1>18 DEF Unset, Marker, Goto, TypeOK, Places, Counted, Sharing,
       Between
  <2>5. FromRoots'
    BY <1>18 DEF Unset, Marker, Goto, TypeOK, FromRoots, PassRoots, Closed
  <2>6. NothingLost' /\ Observed'
    BY <1>18 DEF Unset, Marker, Goto, TypeOK, NothingLost, PassRoots,
       Observed, Reach, Closed
  <2> QED
    BY <2>1, <2>2, <2>3, <2>4, <2>5, <2>6
<1>19. ASSUME NEW w \in Worker, Check(w)
      PROVE  IInv'
  <2>1. TypeOK'
    BY <1>19 DEF Check, Marker, Goto, TypeOK, Label
  <2>2. Places' /\ Counted'
    BY <1>19 DEF Check, Marker, Goto, TypeOK, Places, Counted
  <2>3. Tokens' /\ Between'
    BY <1>19 DEF Check, Marker, Goto, TypeOK, Places, Counted, Tokens,
       Unreleased, Sharing, Between
  <2>4. Sharing'
    BY <1>19 DEF Check, Marker, Goto, TypeOK, Places, Counted, Sharing,
       Between
  <2>5. FromRoots'
    BY <1>19 DEF Check, Marker, Goto, TypeOK, FromRoots, PassRoots, Closed
  <2>6. NothingLost' /\ Observed'
    BY <1>19 DEF Check, Marker, Goto, TypeOK, NothingLost, PassRoots,
       Observed, Reach, Closed
  <2> QED
    BY <2>1, <2>2, <2>3, <2>4, <2>5, <2>6
<1>20. CASE UNCHANGED vars
  <2>1. TypeOK' /\ Places' /\ Counted' /\ Tokens' /\ Sharing' /\ Between'
    BY <1>20 DEF vars, TypeOK, Places, Counted, Tokens, Unreleased, Sharing,
       Between
  <2>2. FromRoots' /\ NothingLost'
    BY <1>20 DEF vars, FromRoots, PassRoots, NothingLost, Closed
  <2>3. Reach(Roots)' = Reach(Roots)
    BY <1>20 DEF vars, Reach, Closed
  <2> QED
    BY <1>20, <2>1, <2>2, <2>3 DEF vars, Observed
<1> QED
  BY <1>1, <1>2, <1>3, <1>4, <1>5, <1>6, <1>7, <1>8, <1>9, <1>10, <1>11,
     <1>12, <1>13, <1>14, <1>15, <1>16, <1>17, <1>18, <1>19, <1>20 DEF Next,
     Collector, Flush, MarkThread

(* The inductive invariant holds of every mark phase. *)
THEOREM Invariance == Spec => []IInv
  BY InitIInv, NextIInv, PTL DEF Spec

(* The bridge observes exactly what the program reaches, and what is marked in
   the end is exactly what the program or Python reaches. *)
THEOREM MarkIsExact == Spec => []MarksExactly
<1>1. IInv => MarksExactly
  <2> SUFFICES ASSUME IInv
               PROVE  MarksExactly
    OBVIOUS
  <2>1. CASE pc[Main] = "end"
    <3>1. \A m \in Marker : stack[m] = {} /\ cur[m] = {}
      BY <2>1 DEF Places, Counted, Between, Marker
    <3>2. foreign
      BY <2>1 DEF Between
    <3>3. bmp = Reach(PassRoots)
      BY <2>1, <3>1, MarkedIsReached
    <3> QED
      BY <3>2, <3>3 DEF MarksExactly, PassRoots, Observed
  <2> QED
    BY <2>1 DEF MarksExactly, Observed
<1> QED
  BY <1>1, Invariance, PTL

(* No assertion of the mark phase fails. *)
THEOREM AssertionsHold == Spec => []NoAssertionFails
<1>1. IInv => NoAssertionFails
  BY DEF Places, NoAssertionFails, Marker
<1> QED
  BY <1>1, Invariance, PTL

(* No allocation is on two stacks. *)
Distinct == \A m, n \in Marker : m # n => stack[m] \cap stack[n] = {}

(* A block is pushed by the one marker that sets its mark bit, and a share is
   taken off the stack it comes from. *)
LEMMA NextDistinct ==
  ASSUME IInv, Distinct, [Next]_vars
  PROVE  Distinct'
<1> USE DEF Distinct, Marker
<1>1. CASE PushRoots
  <2>1. \A w \in Worker : stack[w] = {}
    BY <1>1 DEF PushRoots, IInv, Between, Counted
  <2> QED
    BY <1>1, <2>1 DEF PushRoots, IInv, TypeOK
<1>2. ASSUME NEW w \in Worker, Share(w)
      PROVE  Distinct'
  <2>1. CASE UNCHANGED stack
    BY <2>1
  <2>2. CASE ~ UNCHANGED stack
    <3>1. PICK S \in SUBSET stack[Main] :
            stack' = [stack EXCEPT ![w] = S, ![Main] = @ \ S]
      BY <1>2, <2>2 DEF Share
    <3> QED
      BY <3>1, WorkerAssumption DEF IInv, TypeOK
  <2> QED
    BY <2>1, <2>2
<1>3. CASE Observe
  <2>1. CASE UNCHANGED stack
    BY <2>1
  <2>2. CASE ~ UNCHANGED stack
    <3>1. /\ \A w \in Worker : stack[w] = {}
          /\ stack' = [stack EXCEPT ![Main] = Scannable(Foreign \ bmp)]
      BY <1>3, <2>2 DEF Observe
    <3> QED
      BY <3>1 DEF IInv, TypeOK
  <2> QED
    BY <2>1, <2>2
<1>4. ASSUME NEW m \in Marker, Pop(m)
      PROVE  Distinct'
  <2>1. PICK o \in stack[m] : stack' = [stack EXCEPT ![m] = @ \ {o}]
    BY <1>4 DEF Pop
  <2> QED
    BY <2>1 DEF IInv, TypeOK
<1>5. ASSUME NEW m \in Marker, NEW w \in Worker, Offer(m, w)
      PROVE  Distinct'
  <2>1. CASE UNCHANGED stack
    BY <2>1
  <2>2. CASE ~ UNCHANGED stack
    <3>1. w # m
      BY <1>5, <2>2 DEF Offer, IInv, Counted
    <3>2. PICK S \in SUBSET stack[m] :
            stack' = [stack EXCEPT ![w] = S, ![m] = @ \ S]
      BY <1>5, <2>2 DEF Offer
    <3> QED
      BY <3>1, <3>2 DEF IInv, TypeOK
  <2> QED
    BY <2>1, <2>2
<1>6. ASSUME NEW m \in Marker, Visit(m)
      PROVE  Distinct'
  <2>1. PICK o \in cur[m] :
          stack' = [stack EXCEPT ![m] = @ \cup Scannable({o} \ bmp)]
    BY <1>6 DEF Visit
  <2>2. \A n \in Marker : stack[n] \subseteq bmp
    BY DEF IInv, NothingLost
  <2> QED
    BY <2>1, <2>2 DEF Scannable, IInv, TypeOK
<1>7. CASE UNCHANGED stack
  BY <1>7
<1> QED
  BY <1>1, <1>2, <1>3, <1>4, <1>5, <1>6, <1>7 DEF Next, Collector, Flush,
     MarkThread, Release, Shared, Released, Wait, AcquireDone, MarkOver, Collect,
     Offered, Scanned, Flushed, AcquireReady, Unset, Check, vars

(* No allocation is on two stacks, and a worker that has some is one that the
   collector waits for. *)
THEOREM WorkCounted == Spec => []WorkIsCounted
<1>1. Init => Distinct
  BY DEF Init, Distinct
<1>2. IInv /\ Distinct /\ [Next]_vars => Distinct'
  BY NextDistinct
<1>3. IInv /\ Distinct => WorkIsCounted
  <2> SUFFICES ASSUME IInv, Distinct
               PROVE  WorkIsCounted
    OBVIOUS
  <2>1. ASSUME NEW w \in Worker, w \notin mark_threads_active
        PROVE  stack[w] = {} /\ cur[w] = {}
    BY <2>1 DEF IInv, Places, Counted, Marker
  <2> QED
    BY <2>1 DEF WorkIsCounted, Distinct
<1> QED
  BY <1>1, <1>2, <1>3, Invariance, PTL DEF Spec
=============================================================================
