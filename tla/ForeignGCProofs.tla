-------------------------- MODULE ForeignGCProofs ---------------------------
(***************************************************************************)
(* Proofs about ForeignGC, for any set of addresses.  The collectors are   *)
(* reachability computations; four facts about the least closed set, and   *)
(* two about reference counts, are all the proofs use of them.             *)
(***************************************************************************)
EXTENDS ForeignGC, FiniteSetTheorems, TLAPS

-----------------------------------------------------------------------------
(* What is reached are addresses. *)
LEMMA ReachedType == \A step, S : Reached(step, S) \subseteq Obj
  BY DEF Reached

(* Everything is reached from itself. *)
LEMMA ReachedHas ==
  ASSUME NEW step, NEW S \in SUBSET Obj
  PROVE  S \subseteq Reached(step, S)
  BY DEF Reached

(* What is reached is closed under the references. *)
LEMMA ReachedClosed ==
  ASSUME NEW step \in [Obj -> SUBSET Obj], NEW S, NEW o \in Reached(step, S)
  PROVE  step[o] \subseteq Reached(step, S)
<1>1. o \in Obj /\ step[o] \subseteq Obj
  BY DEF Reached
<1> SUFFICES ASSUME NEW p \in step[o], NEW C \in SUBSET Obj,
                    S \subseteq C, \A c \in C : step[c] \subseteq C
             PROVE  p \in C
  BY <1>1 DEF Reached
<1>2. o \in C
  BY DEF Reached
<1> QED
  BY <1>2

(* Every closed set has all that is reached from its elements. *)
LEMMA ReachedLeast ==
  ASSUME NEW step, NEW S, NEW C \in SUBSET Obj,
         S \subseteq C, \A c \in C : step[c] \subseteq C
  PROVE  Reached(step, S) \subseteq C
  BY DEF Reached

(* A reference count is above zero only in alive, is for what is held from
   outside, and for what one above zero refers to. *)
LEMMA CountedFacts ==
  ASSUME NEW alive \in SUBSET Obj, NEW step \in [Obj -> SUBSET Obj],
         NEW roots \in SUBSET Obj
  PROVE  /\ Counted(alive, step, roots) \subseteq alive
         /\ roots \cap alive \subseteq Counted(alive, step, roots)
         /\ \A o \in Counted(alive, step, roots) :
              step[o] \cap alive \subseteq Counted(alive, step, roots)
<1> DEFINE inside == [o \in Obj |-> IF o \in alive THEN step[o] \cap alive ELSE {}]
           start == (roots \cap alive) \cup {o \in alive : o \in Reached(inside, inside[o])}
<1>1. Counted(alive, step, roots) = Reached(inside, start)
  BY DEF Counted
<1>2. inside \in [Obj -> SUBSET Obj] /\ start \in SUBSET Obj
  OBVIOUS
<1>3. Reached(inside, start) \subseteq alive
  <2>1. start \subseteq alive /\ \A c \in alive : inside[c] \subseteq alive
    OBVIOUS
  <2> HIDE DEF inside, start
  <2> QED
    BY <2>1, ReachedLeast
<1>4. start \subseteq Reached(inside, start)
  <2> HIDE DEF inside, start
  <2> QED
    BY <1>2, ReachedHas
<1>5. ASSUME NEW o \in Reached(inside, start)
      PROVE  step[o] \cap alive \subseteq Reached(inside, start)
  <2>1. inside[o] = step[o] \cap alive
    BY <1>3
  <2> HIDE DEF inside, start
  <2> QED
    BY <1>2, <2>1, ReachedClosed
<1> QED
  BY <1>1, <1>3, <1>4, <1>5

(* What is held from outside leads to keeps a count above zero. *)
LEMMA CountedKeeps ==
  ASSUME NEW alive \in SUBSET Obj, NEW step \in [Obj -> SUBSET Obj],
         NEW roots \in SUBSET Obj, Reached(step, roots) \subseteq alive
  PROVE  Reached(step, roots) \subseteq Counted(alive, step, roots)
<1> DEFINE C == Counted(alive, step, roots) \cap Reached(step, roots)
<1>1. roots \subseteq Reached(step, roots)
  BY ReachedHas
<1>2. roots \subseteq C
  BY <1>1, CountedFacts
<1>3. ASSUME NEW c \in C PROVE step[c] \subseteq C
  BY <1>3, CountedFacts, ReachedClosed
<1>4. C \in SUBSET Obj
  BY ReachedType
<1>5. Reached(step, roots) \subseteq C
  <2> HIDE DEF C
  <2> QED
    BY <1>2, <1>3, <1>4, ReachedLeast
<1> QED
  BY <1>5

-----------------------------------------------------------------------------
(* What the HL collector marks. *)
LEMMA MarkedFacts ==
  ASSUME TypeOK
  PROVE  /\ Marked \subseteq Obj /\ native \subseteq Marked
         /\ \A o \in Marked : refs[o] \subseteq Marked
         /\ Kept \subseteq Obj /\ native \cup handle \subseteq Kept
         /\ \A o \in Kept : refs[o] \subseteq Kept
         /\ Marked \subseteq Kept
<1>1. /\ Marked \subseteq Obj /\ native \subseteq Marked
      /\ \A o \in Marked : refs[o] \subseteq Marked
  BY ReachedType, ReachedHas, ReachedClosed DEF TypeOK, Marked
<1>2. /\ Kept \subseteq Obj /\ native \cup handle \subseteq Kept
      /\ \A o \in Kept : refs[o] \subseteq Kept
  BY ReachedType, ReachedHas, ReachedClosed DEF TypeOK, Kept
<1>3. Marked \subseteq Kept
  BY <1>2, ReachedLeast DEF Marked
<1> QED
  BY <1>1, <1>2, <1>3

(* All that is marked is allocated. *)
LEMMA KeptIsAllocated ==
  ASSUME TypeOK, Coherent
  PROVE  Kept \subseteq heap
<1>1. heap \in SUBSET Obj /\ native \cup handle \subseteq heap
      /\ \A c \in heap : refs[c] \subseteq heap
  BY DEF TypeOK, Coherent
<1> QED
  BY <1>1, ReachedLeast DEF Kept

(* What the program reaches. *)
LEMMA UsedFacts ==
  ASSUME TypeOK
  PROVE  /\ Used \subseteq Obj /\ native \cup held \subseteq Used
         /\ \A o \in Used : refs[o] \cup pyrefs[o] \subseteq Used
         /\ Marked \subseteq Used
<1>1. Links \in [Obj -> SUBSET Obj] /\ \A o \in Obj : Links[o] = refs[o] \cup pyrefs[o]
  BY DEF TypeOK, Links
<1>2. native \cup held \in SUBSET Obj
  BY DEF TypeOK
<1>3. /\ Used \subseteq Obj /\ native \cup held \subseteq Used
      /\ \A o \in Used : refs[o] \cup pyrefs[o] \subseteq Used
  <2>1. Used \subseteq Obj /\ native \cup held \subseteq Used
    BY <1>2, ReachedType, ReachedHas DEF Used
  <2>2. \A o \in Used : Links[o] \subseteq Used
    BY <1>1, ReachedClosed DEF Used
  <2> QED
    BY <1>1, <2>1, <2>2
<1>4. Marked \subseteq Used
  BY <1>3, ReachedLeast DEF Marked
<1> QED
  BY <1>3, <1>4

(* The program reaches allocated blocks only. *)
LEMMA UsedIsKept ==
  ASSUME TypeOK, Coherent
  PROVE  Used \subseteq Kept
<1>1. \A o \in Kept : Links[o] \subseteq Kept
  <2>1. \A o \in Kept : o \in Obj /\ refs[o] \subseteq Kept /\ pyrefs[o] \subseteq Kept
    BY MarkedFacts DEF Coherent
  <2> QED
    BY <2>1 DEF Links
<1>2. native \cup held \subseteq Kept
  BY MarkedFacts DEF Coherent
<1>3. Kept \in SUBSET Obj
  BY MarkedFacts
<1> QED
  BY <1>1, <1>2, <1>3, ReachedLeast DEF Used

(* The graph Python sees is closed over the wrappers there are. *)
LEMMA ShownFacts ==
  ASSUME TypeOK, Coherent
  PROVE  /\ Shown \in [Obj -> SUBSET Obj]
         /\ \A o \in Obj : Shown[o] = pyrefs[o] \cup edges[o]
         /\ \A o \in Obj : Shown[o] \subseteq handle
  BY DEF TypeOK, Coherent, Shown

\* What a deallocation leaves: a coherent graph of wrappers, and with it all
\* that the roots lead to.
Left(alive, step, roots, f) ==
  /\ handle' \subseteq handle /\ roots \cap alive \subseteq handle'
  /\ inst' = inst \cap handle'
  /\ pyrefs' \in [Obj -> SUBSET Obj] /\ edges' \in [Obj -> SUBSET Obj]
  /\ \A o \in Obj : pyrefs'[o] \subseteq handle' /\ (o \notin inst' => pyrefs'[o] = {})
  /\ \A o \in Obj : edges'[o] \subseteq inst' /\ (o \notin handle' => edges'[o] = {})
  /\ \A o \in handle' : edges'[o] = edges[o]
  /\ \A o \in Obj : pyrefs'[o] \subseteq f[o]
  /\ Reached(step, roots) \subseteq alive => Reached(step, roots) \subseteq handle'

(* A deallocation leaves the wrappers so. *)
LEMMA DeallocateFacts ==
  ASSUME TypeOK, Coherent, NEW alive \in SUBSET handle,
         NEW step \in [Obj -> SUBSET Obj], NEW roots \in SUBSET Obj,
         NEW f \in [Obj -> SUBSET Obj],
         \A o \in alive : step[o] \subseteq alive,
         \A o \in Obj : f[o] \cup edges[o] \subseteq step[o],
         \A o \in Obj : o \notin inst => f[o] = {},
         Deallocate(Counted(alive, step, roots), f)
  PROVE  Left(alive, step, roots, f)
<1> DEFINE live == Counted(alive, step, roots)
<1>1. alive \in SUBSET Obj /\ handle \subseteq Obj /\ inst \subseteq handle
  BY DEF TypeOK, Coherent
<1>2. live \subseteq alive /\ roots \cap alive \subseteq live
      /\ \A o \in live : step[o] \subseteq live
  BY <1>1, CountedFacts
<1>3. Reached(step, roots) \subseteq alive => Reached(step, roots) \subseteq live
  BY <1>1, CountedKeeps
<1>4. /\ handle' = handle \cap live /\ inst' = inst \cap live
      /\ pyrefs' = [o \in Obj |-> IF o \in live THEN f[o] ELSE {}]
      /\ edges' = [o \in Obj |-> IF o \in live THEN edges[o] ELSE {}]
  BY DEF Deallocate
<1> HIDE DEF live
<1>5. handle' = live
  BY <1>2, <1>4
<1>6. \A o \in Obj : edges[o] \subseteq inst /\ f[o] \subseteq step[o] /\ edges[o] \subseteq step[o]
  BY DEF Coherent
<1>7. edges \in [Obj -> SUBSET Obj]
  BY DEF TypeOK
<1>8. \A o \in Obj : pyrefs'[o] \subseteq handle' /\ (o \notin inst' => pyrefs'[o] = {})
  BY <1>1, <1>2, <1>4, <1>5, <1>6
<1>9. \A o \in Obj : edges'[o] \subseteq inst' /\ (o \notin handle' => edges'[o] = {})
  BY <1>1, <1>2, <1>4, <1>5, <1>6
<1>10. pyrefs' \in [Obj -> SUBSET Obj] /\ edges' \in [Obj -> SUBSET Obj]
  BY <1>4, <1>7
<1>11. (\A o \in handle' : edges'[o] = edges[o]) /\ \A o \in Obj : pyrefs'[o] \subseteq f[o]
  BY <1>1, <1>2, <1>4, <1>5
<1> QED
  BY <1>1, <1>2, <1>3, <1>4, <1>5, <1>8, <1>9, <1>10, <1>11 DEF Left

-----------------------------------------------------------------------------
(* The invariant holds initially. *)
LEMMA InitBridge == Init => IInv
<1> SUFFICES ASSUME Init PROVE IInv
  OBVIOUS
<1>1. TypeOK
  BY DEF Init, TypeOK, None, Zero, Label
<1>2. Coherent /\ Retained
  BY DEF Init, Coherent, Retained, None
<1>3. Used = {}
  <2>1. \A c \in {} : Links[c] \subseteq {}
    OBVIOUS
  <2>2. native \cup held \subseteq {} /\ {} \in SUBSET Obj
    BY DEF Init
  <2> QED
    BY <2>1, <2>2, ReachedLeast DEF Used
<1> QED
  BY <1>1, <1>2, <1>3 DEF Init, IInv, BridgeInv, ObservationHolds, SnapshotCovers,
     IdentityKept

(* HL code allocates, stores and forgets. *)
LEMMA HLBridge ==
  ASSUME BridgeInv, HLCode
  PROVE  BridgeInv'
<1> USE DEF BridgeInv
<1>0. Marked \subseteq heap
  BY MarkedFacts, KeptIsAllocated
<1>1. ASSUME NEW o \in Obj, HLAlloc(o) PROVE BridgeInv'
  <2>1. TypeOK'
    BY <1>1 DEF HLAlloc, TypeOK, pyVars, peerVars, traceVars
  <2>2. Coherent' /\ Retained'
    BY <1>1 DEF HLAlloc, TypeOK, Coherent, Retained, pyVars, peerVars, traceVars
  <2> QED
    BY <2>1, <2>2
<1>2. ASSUME NEW o \in Obj, HLKeep(o) \/ HLForget(o) PROVE BridgeInv'
  <2>1. TypeOK'
    BY <1>2 DEF HLKeep, HLForget, TypeOK, pyVars, peerVars, traceVars
  <2>2. Coherent' /\ Retained'
    BY <1>0, <1>2 DEF HLKeep, HLForget, TypeOK, Coherent, Retained, pyVars,
       peerVars, traceVars
  <2> QED
    BY <2>1, <2>2
<1>3. ASSUME NEW o \in Obj, NEW S \in SUBSET Obj, HLStore(o, S) PROVE BridgeInv'
  <2>1. TypeOK'
    BY <1>3 DEF HLStore, TypeOK, pyVars, peerVars, traceVars
  <2>2. Coherent' /\ Retained'
    BY <1>0, <1>3 DEF HLStore, TypeOK, Coherent, Retained, pyVars, peerVars,
       traceVars
  <2> QED
    BY <2>1, <2>2
<1> QED
  BY <1>1, <1>2, <1>3 DEF HLCode

(* Either of the collections of HL frees only blocks without a wrapper. *)
LEMMA SweepBridge ==
  ASSUME BridgeInv, Sweep, UNCHANGED <<native, pyVars, peers, strong>>
  PROVE  /\ heap' \subseteq Obj /\ refs' \in [Obj -> SUBSET Obj]
         /\ dead' \subseteq peers /\ native_live' \subseteq Obj
         /\ native' \subseteq heap' /\ handle' \subseteq heap' /\ peers' \ dead' \subseteq heap'
         /\ \A o \in Obj : refs'[o] \subseteq heap' /\ (o \notin heap' => refs'[o] = {})
         /\ inst' \subseteq peers' \ dead'
<1> USE DEF BridgeInv
<1>1. /\ Kept \subseteq Obj /\ native \cup handle \subseteq Kept
      /\ \A o \in Kept : refs[o] \subseteq Kept
  BY MarkedFacts
<1> QED
  BY <1>1 DEF Sweep, TypeOK, Coherent, pyVars

LEMMA MajorBridge ==
  ASSUME BridgeInv, Major \/ LateMajor \/ RefreshMajor
  PROVE  BridgeInv'
<1> USE DEF BridgeInv
<1>1. Sweep /\ UNCHANGED <<native, pyVars, peers, strong, collecting>>
  BY DEF Major, LateMajor, RefreshMajor
<1>2. Coherent'
  BY <1>1, SweepBridge DEF Major, LateMajor, RefreshMajor, Coherent, pyVars
<1>3. Retained'
  BY <1>1 DEF Major, LateMajor, RefreshMajor, Retained, pyVars
<1>4. snapshot_edges' \in [Obj -> SUBSET Obj] /\ count' \in [Obj -> Nat]
  <2>1. CASE UNCHANGED traceVars
    BY <2>1 DEF TypeOK, traceVars
  <2>2. CASE Trace
    <3>1. \A h \in Obj : Visited(h) \in SUBSET Obj /\ IsFiniteSet(Visited(h))
      BY ReachedType, ObjAssumption, FS_Subset DEF Visited
    <3>2. \A h \in Obj : Cardinality(Visited(h)) \in Nat
      BY <3>1, FS_CardinalityType
    <3> QED
      BY <2>2, <3>1, <3>2 DEF Trace, TypeOK, traceVars
  <2> QED
    BY <2>1, <2>2 DEF Major, LateMajor, RefreshMajor
<1>5. TypeOK'
  BY <1>1, <1>4, SweepBridge DEF Major, LateMajor, RefreshMajor, TypeOK, pyVars,
     Label
<1> QED
  BY <1>2, <1>3, <1>5

(* The release of the dead peers, with the strong references taken again. *)
LEMMA RetainFacts ==
  ASSUME BridgeInv, Retain
  PROVE  /\ peers' \subseteq peers /\ dead' \subseteq dead
         /\ peers' \ dead' = peers \ dead
         /\ strong' \subseteq inst /\ native_live' \subseteq Obj /\ dead' \subseteq peers'
         /\ ~ collecting => strong' = inst
         /\ strong \subseteq strong'
  BY DEF BridgeInv, TypeOK, Coherent, Retain, peerVars

(* Python code allocates, binds and moves references. *)
LEMMA PyBridge ==
  ASSUME BridgeInv, PyCode
  PROVE  BridgeInv'
<1> USE DEF BridgeInv
<1>0. Marked \subseteq heap
  BY MarkedFacts, KeptIsAllocated
<1>1. ASSUME NEW o \in Obj, PyAlloc(o) PROVE BridgeInv'
  <2>1. TypeOK'
    BY <1>1 DEF PyAlloc, TypeOK, peerVars, traceVars
  <2>2. Coherent' /\ Retained'
    BY <1>1 DEF PyAlloc, TypeOK, Coherent, Retained, peerVars, traceVars
  <2> QED
    BY <2>1, <2>2
<1>2. ASSUME NEW o \in Obj, Bind(o) PROVE BridgeInv'
  <2>1. TypeOK'
    BY <1>2 DEF Bind, TypeOK, heapVars, traceVars
  <2>2. Coherent' /\ Retained'
    BY <1>2 DEF Bind, BindRefused, TypeOK, Coherent, Retained, heapVars, traceVars
  <2> QED
    BY <2>1, <2>2
<1>3. ASSUME NEW o \in Obj, PyReceive(o) PROVE BridgeInv'
  <2>1. o \in heap
    BY <1>0, <1>3 DEF PyReceive, TypeOK, Coherent
  <2>2. TypeOK'
    BY <1>3 DEF PyReceive, TypeOK, heapVars, peerVars, traceVars
  <2>3. Coherent' /\ Retained'
    BY <1>3, <2>1 DEF PyReceive, TypeOK, Coherent, Retained, heapVars, peerVars,
       traceVars
  <2> QED
    BY <2>2, <2>3
<1>4. ASSUME NEW o \in Obj, PyPass(o) PROVE BridgeInv'
  <2>1. TypeOK'
    BY <1>4, RetainFacts DEF PyPass, TypeOK, Coherent, pyVars, traceVars
  <2>2. Coherent' /\ Retained'
    BY <1>4, RetainFacts DEF PyPass, TypeOK, Coherent, Retained, pyVars, traceVars
  <2> QED
    BY <2>1, <2>2
<1>5. ASSUME NEW o \in Obj, NEW S \in SUBSET Obj, PyStore(o, S) PROVE BridgeInv'
  <2>1. TypeOK'
    BY <1>5, RetainFacts DEF PyStore, TypeOK, Coherent, pyVars, traceVars
  <2>2. Coherent' /\ Retained'
    BY <1>5, RetainFacts DEF PyStore, TypeOK, Coherent, Retained, pyVars, traceVars
  <2> QED
    BY <2>1, <2>2
<1>6. ASSUME NEW o \in Obj, PyForget(o) PROVE BridgeInv'
  <2> DEFINE roots == held' \cup strong
  <2>1. roots \in SUBSET Obj /\ roots \subseteq handle /\ held' \subseteq held
    BY <1>6 DEF PyForget, TypeOK, Coherent
  <2>2. Deallocate(Counted(handle, Shown, roots), pyrefs)
    BY <1>6 DEF PyForget
  <2>3. pyrefs \in [Obj -> SUBSET Obj] /\ \A x \in Obj : x \notin inst => pyrefs[x] = {}
    BY DEF TypeOK, Coherent
  <2>9. /\ Shown \in [Obj -> SUBSET Obj] /\ \A x \in handle : Shown[x] \subseteq handle
        /\ \A x \in Obj : pyrefs[x] \cup edges[x] \subseteq Shown[x]
    BY ShownFacts DEF TypeOK
  <2> HIDE DEF roots
  <2>4. /\ handle' \subseteq handle /\ roots \cap handle \subseteq handle'
        /\ inst' = inst \cap handle'
        /\ pyrefs' \in [Obj -> SUBSET Obj] /\ edges' \in [Obj -> SUBSET Obj]
        /\ \A x \in Obj : pyrefs'[x] \subseteq handle' /\ (x \notin inst' => pyrefs'[x] = {})
        /\ \A x \in Obj : edges'[x] \subseteq inst' /\ (x \notin handle' => edges'[x] = {})
    <3>1. handle \in SUBSET handle /\ TypeOK /\ Coherent
      OBVIOUS
    <3>2. Left(handle, Shown, roots, pyrefs)
      BY <2>1, <2>2, <2>3, <2>9, <3>1, DeallocateFacts
    <3> QED
      BY <3>2 DEF Left
  <2>5. TypeOK'
    BY <1>6, <2>1, <2>4 DEF PyForget, TypeOK, heapVars, peerVars, traceVars
  <2>6. strong' = inst /\ inst' = inst
    BY <1>6, <2>1, <2>4 DEF PyForget, Coherent, Retained, peerVars, roots
  <2>7. held' \subseteq handle'
    BY <2>1, <2>4 DEF roots
  <2>8. Coherent' /\ Retained'
    BY <1>6, <2>4, <2>6, <2>7 DEF PyForget, Coherent, Retained, heapVars, peerVars
  <2> QED
    BY <2>5, <2>8
<1>7. ASSUME NEW o \in Obj, NEW S \in SUBSET Obj, PyAssign(o, S) PROVE BridgeInv'
  <2> DEFINE roots == held \cup strong
             step == [Shown EXCEPT ![o] = S \cup edges[o]]
             f == [pyrefs EXCEPT ![o] = S]
  <2>1. roots \in SUBSET Obj /\ roots \subseteq handle /\ S \subseteq handle /\ o \in inst
    BY <1>7 DEF PyAssign, TypeOK, Coherent
  <2>2. Deallocate(Counted(handle, step, roots), f)
    BY <1>7 DEF PyAssign
  <2>3. /\ f \in [Obj -> SUBSET Obj] /\ \A x \in Obj : x \notin inst => f[x] = {}
        /\ step \in [Obj -> SUBSET Obj] /\ \A x \in handle : step[x] \subseteq handle
        /\ \A x \in Obj : f[x] \cup edges[x] \subseteq step[x]
    <3>1. edges[o] \subseteq handle /\ edges[o] \subseteq Obj
      BY DEF Coherent, TypeOK
    <3> QED
      BY <2>1, <3>1, ShownFacts DEF TypeOK, Coherent
  <2> HIDE DEF roots, step, f
  <2>4. /\ handle' \subseteq handle /\ roots \cap handle \subseteq handle'
        /\ inst' = inst \cap handle'
        /\ pyrefs' \in [Obj -> SUBSET Obj] /\ edges' \in [Obj -> SUBSET Obj]
        /\ \A x \in Obj : pyrefs'[x] \subseteq handle' /\ (x \notin inst' => pyrefs'[x] = {})
        /\ \A x \in Obj : edges'[x] \subseteq inst' /\ (x \notin handle' => edges'[x] = {})
    <3>1. handle \in SUBSET handle /\ TypeOK /\ Coherent
      OBVIOUS
    <3>2. Left(handle, step, roots, f)
      BY <2>1, <2>2, <2>3, <3>1, DeallocateFacts
    <3> QED
      BY <3>2 DEF Left
  <2>5. TypeOK'
    BY <1>7, <2>1, <2>4 DEF PyAssign, TypeOK, heapVars, peerVars, traceVars
  <2>6. strong' = inst /\ inst' = inst
    BY <1>7, <2>1, <2>4 DEF PyAssign, Coherent, Retained, peerVars, roots
  <2>7. held' \subseteq handle'
    BY <1>7, <2>1, <2>4 DEF PyAssign, roots
  <2>8. Coherent' /\ Retained'
    BY <1>7, <2>4, <2>6, <2>7 DEF PyAssign, Coherent, Retained, heapVars, peerVars
  <2> QED
    BY <2>5, <2>8
<1> QED
  BY <1>1, <1>2, <1>3, <1>4, <1>5, <1>6, <1>7 DEF PyCode

(* Python releases what HL does not reach: what the remaining references lead
   to is left. *)
LEMMA ReleaseLeft ==
  ASSUME BridgeInv, ReleasePeers
  PROVE  /\ Left(handle, Shown, held \cup strong', pyrefs)
         /\ strong' = strong \cap native_live /\ strong' \subseteq handle
         /\ Reached(Shown, held \cup strong') \subseteq handle
<1> USE DEF BridgeInv
<1> DEFINE roots == held \cup strong'
<1>1. strong' = strong \cap native_live /\ strong' \subseteq handle
  BY DEF ReleasePeers, TypeOK, Coherent
<1>2. roots \in SUBSET Obj /\ roots \subseteq handle
  BY <1>1 DEF TypeOK, Coherent
<1>3. Deallocate(Counted(handle, Shown, roots), pyrefs)
  BY DEF ReleasePeers
<1>4. pyrefs \in [Obj -> SUBSET Obj] /\ \A x \in Obj : x \notin inst => pyrefs[x] = {}
  BY DEF TypeOK, Coherent
<1>5. /\ Shown \in [Obj -> SUBSET Obj] /\ \A x \in handle : Shown[x] \subseteq handle
      /\ \A x \in Obj : pyrefs[x] \cup edges[x] \subseteq Shown[x]
  BY ShownFacts DEF TypeOK
<1> HIDE DEF roots
<1>6. handle \in SUBSET handle /\ handle \in SUBSET Obj /\ TypeOK /\ Coherent
  BY DEF TypeOK
<1>7. Left(handle, Shown, roots, pyrefs)
  BY <1>2, <1>3, <1>4, <1>5, <1>6, DeallocateFacts
<1>8. Reached(Shown, roots) \subseteq handle
  BY <1>2, <1>5, <1>6, ReachedLeast
<1> QED
  BY <1>1, <1>7, <1>8 DEF roots

(* A collection of Python leaves what is referenced from outside the young
   wrappers, and what that leads to. *)
LEMMA CollectLeft ==
  ASSUME BridgeInv, NEW young \in SUBSET handle, PyCollect(young)
  PROVE  \E alive \in SUBSET handle :
           /\ Left(alive, Shown, held \cup strong, pyrefs)
           /\ Reached(Shown, held \cup strong) \subseteq alive
           /\ held \cup strong \subseteq alive
<1> USE DEF BridgeInv
<1> DEFINE roots == held \cup strong
           outside == roots \cup (handle \ young)
           garbage == young \ Reached(Shown, outside)
           alive == handle \ garbage
<1>1. roots \in SUBSET Obj /\ outside \in SUBSET Obj /\ roots \subseteq handle
      /\ outside \subseteq handle /\ handle \in SUBSET Obj
  BY DEF TypeOK, Coherent
<1>2. Deallocate(Counted(alive, Shown, roots), pyrefs)
  BY DEF PyCollect
<1>3. pyrefs \in [Obj -> SUBSET Obj] /\ \A x \in Obj : x \notin inst => pyrefs[x] = {}
  BY DEF TypeOK, Coherent
<1>4. /\ Shown \in [Obj -> SUBSET Obj] /\ \A x \in handle : Shown[x] \subseteq handle
      /\ \A x \in Obj : pyrefs[x] \cup edges[x] \subseteq Shown[x]
  BY ShownFacts DEF TypeOK
<1>5. outside \subseteq Reached(Shown, outside) /\ Reached(Shown, outside) \subseteq handle
      /\ \A x \in Reached(Shown, outside) : Shown[x] \subseteq Reached(Shown, outside)
  <2> HIDE DEF roots, outside
  <2> QED
    BY <1>1, <1>4, ReachedHas, ReachedLeast, ReachedClosed
<1>6. alive = Reached(Shown, outside)
  <2> HIDE DEF roots
  <2> QED
    BY <1>1, <1>5
<1>7. alive \in SUBSET handle /\ roots \subseteq alive /\ \A x \in alive : Shown[x] \subseteq alive
  <2> HIDE DEF roots
  <2> QED
    BY <1>5, <1>6
<1>8. Reached(Shown, roots) \subseteq alive
  <2> HIDE DEF roots, alive
  <2> QED
    BY <1>1, <1>7, ReachedLeast
<1>9. TypeOK /\ Coherent
  OBVIOUS
<1>10. Left(alive, Shown, roots, pyrefs)
  <2> HIDE DEF roots, alive
  <2> QED
    BY <1>1, <1>2, <1>3, <1>4, <1>7, <1>9, DeallocateFacts
<1> QED
  BY <1>7, <1>8, <1>10

(* The steps of a collection of Python. *)
LEMMA CollectionBridge ==
  ASSUME BridgeInv,
         Collection \/ RefreshFails \/ Crash \/ Destructor
           \/ \E young \in SUBSET handle : PyCollect(young)
  PROVE  BridgeInv'
<1> USE DEF BridgeInv
<1>1. CASE StartCollection \/ RefreshFails \/ Crash
  <2>1. TypeOK'
    <3>1. None \in [Obj -> SUBSET Obj] /\ Zero \in [Obj -> Nat]
      BY DEF None, Zero
    <3> QED
      BY <1>1, <3>1 DEF StartCollection, RefreshFails, Crash, TypeOK, Label,
         heapVars, pyVars, peerVars, traceVars
  <2>2. Coherent'
    BY <1>1 DEF StartCollection, RefreshFails, Crash, Coherent, heapVars, pyVars,
       peerVars
  <2>3. Retained'
    BY <1>1 DEF StartCollection, RefreshFails, Crash, Coherent, Retained, pyVars,
       peerVars
  <2> QED
    BY <2>1, <2>2, <2>3
<1>2. CASE RefreshMajor
  BY <1>2, MajorBridge
<1>3. CASE Materialize
  <2>1. edges' \in [Obj -> SUBSET inst] /\ \A h \in Obj : h \notin handle => edges'[h] = {}
    BY <1>3 DEF Materialize
  <2>2. edges' \in [Obj -> SUBSET Obj] /\ \A h \in Obj : edges'[h] \subseteq inst
    BY <2>1 DEF TypeOK
  <2>3. TypeOK'
    BY <1>3, <2>2 DEF Materialize, TypeOK, Label, None, Zero, heapVars, peerVars
  <2>4. Coherent' /\ Retained'
    BY <1>3, <2>1, <2>2 DEF Materialize, Coherent, Retained, heapVars, peerVars
  <2> QED
    BY <2>3, <2>4
<1>4. CASE ReleasePeers
  <2>1. /\ Left(handle, Shown, held \cup strong', pyrefs)
        /\ strong' = strong \cap native_live /\ strong' \subseteq handle
    BY <1>4, ReleaseLeft
  <2>2. TypeOK'
    BY <1>4, <2>1 DEF ReleasePeers, Left, TypeOK, Label, heapVars, traceVars
  <2>3. held' \subseteq handle' /\ strong' \subseteq inst' /\ inst' \subseteq inst
        /\ handle' \subseteq handle
    BY <1>4, <2>1 DEF ReleasePeers, Left, Coherent
  <2>4. Coherent'
    BY <1>4, <2>1, <2>3 DEF ReleasePeers, Left, Coherent, heapVars
  <2>5. Retained'
    BY <1>4 DEF ReleasePeers, Coherent, Retained
  <2> QED
    BY <2>2, <2>4, <2>5
<1>5. ASSUME NEW young \in SUBSET handle, PyCollect(young) PROVE BridgeInv'
  <2>1. PICK alive \in SUBSET handle :
           /\ Left(alive, Shown, held \cup strong, pyrefs)
           /\ held \cup strong \subseteq alive
    BY <1>5, CollectLeft
  <2>2. TypeOK'
    BY <1>5, <2>1 DEF PyCollect, Left, TypeOK, Label, heapVars, peerVars, traceVars
  <2>3. held' \subseteq handle' /\ strong' \subseteq inst' /\ inst' \subseteq inst
        /\ handle' \subseteq handle
    BY <1>5, <2>1 DEF PyCollect, Left, Coherent, peerVars
  <2>4. Coherent'
    BY <1>5, <2>1, <2>3 DEF PyCollect, Left, Coherent, heapVars, peerVars
  <2>5. Retained'
    BY <1>5, <2>3 DEF PyCollect, Retained, peerVars
  <2> QED
    BY <2>2, <2>4, <2>5
<1>6. CASE Destructor
  <2>1. TypeOK'
    BY <1>6, RetainFacts DEF Destructor, TypeOK, Coherent, heapVars, pyVars, traceVars
  <2>2. Coherent'
    BY <1>6, RetainFacts DEF Destructor, Coherent, heapVars, pyVars
  <2>3. Retained'
    BY <1>6, RetainFacts DEF Destructor, Retained, pyVars
  <2> QED
    BY <2>1, <2>2, <2>3
<1>7. CASE StopCollection
  <2>1. TypeOK'
    BY <1>7 DEF StopCollection, TypeOK, Label, heapVars, pyVars, traceVars
  <2>2. Coherent' /\ Retained'
    BY <1>7 DEF StopCollection, Coherent, Retained, heapVars, pyVars
  <2> QED
    BY <2>1, <2>2
<1> QED
  BY <1>1, <1>2, <1>3, <1>4, <1>5, <1>6, <1>7 DEF Collection

(* Both heaps and the registry stay coherent, and instances retained. *)
LEMMA NextBridge == BridgeInv /\ [Next]_vars => BridgeInv'
<1> SUFFICES ASSUME BridgeInv, [Next]_vars PROVE BridgeInv'
  OBVIOUS
<1>1. CASE UNCHANGED vars
  BY <1>1 DEF vars, heapVars, pyVars, peerVars, traceVars, BridgeInv, TypeOK,
     Coherent, Retained
<1> QED
  BY <1>1, HLBridge, PyBridge, MajorBridge, CollectionBridge DEF Next

-----------------------------------------------------------------------------
(* HL reaches nothing new but the blocks N that are new. *)
LEMMA MarkedShrinks ==
  ASSUME TypeOK, NEW N \in SUBSET Obj, native' \subseteq Marked \cup N,
         \A o \in Marked \cup N : refs'[o] \subseteq Marked \cup N
  PROVE  Marked' \subseteq Marked \cup N
<1>1. Marked \cup N \in SUBSET Obj
  BY MarkedFacts
<1> QED
  BY <1>1, ReachedLeast DEF Marked

(* Nor does a wrapper, but what HL reaches. *)
LEMMA SeenShrinks ==
  ASSUME TypeOK, NEW h \in Obj, \A o \in Obj : refs'[o] \subseteq refs[o] \cup Marked
  PROVE  Reached(refs', {h}) \subseteq Reached(refs, {h}) \cup Marked
<1> DEFINE C == Reached(refs, {h}) \cup Marked
<1>1. C \in SUBSET Obj /\ {h} \in SUBSET Obj
  BY MarkedFacts, ReachedType
<1>2. {h} \subseteq C
  BY <1>1, ReachedHas
<1>3. refs \in [Obj -> SUBSET Obj]
  BY DEF TypeOK
<1>4. \A c \in C : refs[c] \subseteq C
  BY <1>3, MarkedFacts, ReachedClosed
<1>5. \A c \in C : refs'[c] \subseteq C
  BY <1>1, <1>4
<1> HIDE DEF C
<1>6. Reached(refs', {h}) \subseteq C
  BY <1>1, <1>2, <1>5, ReachedLeast
<1> QED
  BY <1>6 DEF C

(* Nor does the program. *)
LEMMA UsedShrinks ==
  ASSUME TypeOK, NEW N \in SUBSET Obj, native' \cup held' \subseteq Used \cup N,
         TypeOK',
         \A o \in Used \cup N : refs'[o] \cup pyrefs'[o] \subseteq Used \cup N
  PROVE  Used' \subseteq Used \cup N
<1>1. Used \cup N \in SUBSET Obj
  BY UsedFacts
<1>2. \A o \in Used \cup N : Links'[o] \subseteq Used \cup N
  BY <1>1 DEF Links
<1> QED
  BY <1>1, <1>2, ReachedLeast DEF Used

LEMMA UsedShrinksAll ==
  ASSUME TypeOK, TypeOK', native' \cup held' \subseteq Used,
         \A o \in Used : refs'[o] \cup pyrefs'[o] \subseteq Used
  PROVE  Used' \subseteq Used
<1> DEFINE N == {}
<1>1. N \in SUBSET Obj /\ Used \cup N = Used
  OBVIOUS
<1> HIDE DEF N
<1>2. Used' \subseteq Used \cup N
  BY <1>1, UsedShrinks
<1> QED
  BY <1>1, <1>2

(* What HL reaches is still what was observed. *)
LEMMA NextObservation == IInv /\ [Next]_vars => ObservationHolds'
<1> SUFFICES ASSUME IInv, [Next]_vars PROVE ObservationHolds'
  OBVIOUS
<1> USE DEF IInv, BridgeInv
<1>1. CASE HLCode
  <2>1. /\ native' \subseteq Marked \cup (heap' \ heap) /\ heap' \ heap \in SUBSET Obj
        /\ \A o \in Marked \cup (heap' \ heap) : refs'[o] \subseteq Marked \cup (heap' \ heap)
    BY <1>1, MarkedFacts DEF HLCode, HLAlloc, HLStore, HLKeep, HLForget, TypeOK, Coherent
  <2>2. Marked' \subseteq Marked \cup (heap' \ heap)
    BY <2>1, MarkedShrinks
  <2>3. UNCHANGED <<peers, dead, inst, strong, native_live, collecting, pc>>
    BY <1>1 DEF HLCode, HLAlloc, HLStore, HLKeep, HLForget, pyVars, peerVars
  <2>4. (peers \ dead) \cap Marked' \subseteq Marked /\ inst \cap Marked' \subseteq Marked
    BY <2>2 DEF Coherent
  <2> QED
    BY <2>3, <2>4 DEF ObservationHolds
<1>2. CASE Major \/ LateMajor \/ RefreshMajor
  <2>1. Sweep /\ UNCHANGED <<native, pyVars, peers, strong, collecting>>
    BY <1>2 DEF Major, LateMajor, RefreshMajor
  <2>2. \A o \in Marked : refs'[o] \subseteq Marked
    BY <2>1, MarkedFacts DEF Sweep
  <2>3. Marked' \subseteq Marked \cup {}
    BY <2>1, <2>2, MarkedFacts, MarkedShrinks
  <2>4. peers' \ dead' \subseteq peers \ dead /\ native_live' = (peers \ dead) \cap Marked
    BY <2>1 DEF Sweep
  <2> QED
    BY <1>2, <2>1, <2>3, <2>4 DEF Major, LateMajor, RefreshMajor, ObservationHolds, pyVars
<1>3. CASE PyCode \/ StartCollection \/ RefreshFails \/ Crash \/ StopCollection
           \/ \E young \in SUBSET handle : PyCollect(young)
  <2>1. pc' \in {"idle", "lock", "crashed", "stop"} \/ (pc' = "collect" /\ ~ collecting')
    BY <1>3 DEF PyCode, PyAlloc, Bind, PyReceive, PyPass, PyForget, PyStore, PyAssign,
       StartCollection, RefreshFails, Crash, StopCollection, PyCollect
  <2> QED
    BY <2>1 DEF ObservationHolds
<1>4. CASE Materialize
  BY <1>4 DEF Materialize, ObservationHolds, heapVars, peerVars, Marked
<1>5. CASE ReleasePeers
  <2>1. strong' = strong \cap native_live /\ inst' \subseteq inst /\ Marked' = Marked
    BY <1>5, ReleaseLeft DEF ReleasePeers, Left, heapVars, Marked
  <2>2. strong = inst /\ inst \subseteq peers \ dead
    BY <1>5 DEF ReleasePeers, Coherent, Retained
  <2> QED
    BY <1>5, <2>1, <2>2 DEF ReleasePeers, ObservationHolds
<1>6. CASE Destructor
  <2>1. strong \subseteq strong' /\ Marked' = Marked
    BY <1>6, RetainFacts DEF Destructor, heapVars, Marked
  <2> QED
    BY <1>6, <2>1 DEF Destructor, ObservationHolds, pyVars
<1>7. CASE UNCHANGED vars
  BY <1>7 DEF vars, heapVars, pyVars, peerVars, ObservationHolds, Marked
<1> QED
  BY <1>1, <1>2, <1>3, <1>4, <1>5, <1>6, <1>7 DEF Next, Collection

(* The snapshot still covers what the wrappers reach. *)
LEMMA NextSnapshot == IInv /\ [Next]_vars => SnapshotCovers'
<1> SUFFICES ASSUME IInv, [Next]_vars PROVE SnapshotCovers'
  OBVIOUS
<1> USE DEF IInv, BridgeInv
<1>0. inst \subseteq peers \ dead /\ handle \subseteq Obj /\ inst \subseteq Obj
  BY DEF TypeOK, Coherent
<1>1. CASE HLCode
  <2>1. \A o \in Obj : refs'[o] \subseteq refs[o] \cup Marked
    BY <1>1 DEF HLCode, HLAlloc, HLStore, HLKeep, HLForget, TypeOK
  <2>2. \A h \in handle : Reached(refs', {h}) \subseteq Reached(refs, {h}) \cup Marked
    BY <1>0, <2>1, SeenShrinks
  <2>3. UNCHANGED <<handle, edges, inst, strong, native_live, snapshot_edges, collecting, pc>>
    BY <1>1 DEF HLCode, HLAlloc, HLStore, HLKeep, HLForget, pyVars, peerVars, traceVars
  <2> QED
    BY <1>0, <2>2, <2>3 DEF SnapshotCovers, ObservationHolds
<1>2. CASE Major \/ LateMajor
  <2>1. Sweep /\ UNCHANGED <<handle, edges, inst, strong, collecting, pc>>
        /\ pc \notin {"traced", "edged"}
    BY <1>2 DEF Major, LateMajor, pyVars
  <2>2. \A o \in Obj : refs'[o] \subseteq refs[o] \cup Marked
    BY <2>1 DEF Sweep
  <2>3. \A h \in handle : Reached(refs', {h}) \subseteq Reached(refs, {h}) \cup Marked
    BY <1>0, <2>2, SeenShrinks
  <2> QED
    BY <2>1, <2>3 DEF SnapshotCovers, ObservationHolds
<1>3. CASE RefreshMajor
  <2>1. Sweep /\ Trace /\ pc' = "traced" /\ UNCHANGED <<handle, inst>>
    BY <1>3 DEF RefreshMajor, pyVars
  <2>2. \A o \in Obj : refs'[o] \subseteq refs[o] \cup Marked
    BY <2>1 DEF Sweep
  <2>3. \A h \in handle : Reached(refs', {h}) \subseteq Reached(refs, {h}) \cup Marked
    BY <1>0, <2>2, SeenShrinks
  <2>4. native_live' = (peers \ dead) \cap Marked
    BY <2>1 DEF Sweep
  <2>5. inst = {} \/ \A h \in handle :
                       snapshot_edges'[h] = Reached(refs, {h}) \cap (peers \ dead)
    BY <1>0, <2>1 DEF Trace, Visited
  <2> QED
    BY <1>0, <2>1, <2>3, <2>4, <2>5 DEF SnapshotCovers
<1>4. CASE Materialize
  <2>1. \A h \in handle : (snapshot_edges[h] \ dead) \cap inst \subseteq edges'[h]
    BY <1>0, <1>4 DEF Materialize
  <2>2. pc = "traced" /\ pc' = "edged" /\ UNCHANGED <<refs, handle, inst, native_live>>
    BY <1>4 DEF Materialize, heapVars, peerVars
  <2> QED
    BY <1>0, <2>1, <2>2 DEF SnapshotCovers
<1>5. CASE ReleasePeers
  <2>1. /\ strong' = strong \cap native_live /\ inst' \subseteq inst
        /\ handle' \subseteq handle /\ \A h \in handle' : edges'[h] = edges[h]
    BY <1>5, ReleaseLeft DEF Left
  <2>2. strong = inst /\ pc = "edged" /\ pc' = "collect" /\ refs' = refs
    BY <1>5 DEF ReleasePeers, Retained, heapVars
  <2> QED
    BY <2>1, <2>2 DEF SnapshotCovers
<1>6. CASE Destructor
  <2>1. strong \subseteq strong' /\ UNCHANGED <<refs, handle, inst, edges, collecting, pc>>
        /\ pc \notin {"traced", "edged"}
    BY <1>6, RetainFacts DEF Destructor, heapVars, pyVars
  <2> QED
    BY <2>1 DEF SnapshotCovers
<1>7. CASE PyCode \/ StartCollection \/ RefreshFails \/ Crash \/ StopCollection
           \/ \E young \in SUBSET handle : PyCollect(young)
  <2>1. pc' \in {"idle", "lock", "crashed", "stop"} \/ (pc' = "collect" /\ ~ collecting')
    BY <1>7 DEF PyCode, PyAlloc, Bind, PyReceive, PyPass, PyForget, PyStore, PyAssign,
       StartCollection, RefreshFails, Crash, StopCollection, PyCollect
  <2> QED
    BY <2>1 DEF SnapshotCovers
<1>8. CASE UNCHANGED vars
  BY <1>8 DEF vars, heapVars, pyVars, peerVars, traceVars, SnapshotCovers
<1> QED
  BY <1>1, <1>2, <1>3, <1>4, <1>5, <1>6, <1>7, <1>8 DEF Next, Collection

(* The argument that a collection of Python is safe.  Let X be the instances
   with a strong reference while it collects.  If HL reaches no other one by
   itself, and the edges show all others that a wrapper reaches through HL,
   then Python finds, from its own references and X, every instance the program
   reaches through either heap. *)
LEMMA CollectorSeesAll ==
  ASSUME BridgeInv, IdentityKept, NEW X \in SUBSET handle,
         inst \cap Marked \subseteq X,
         \A h \in handle : inst \cap Reached(refs, {h}) \subseteq X \cup edges[h]
  PROVE  Used \cap (peers \ dead) \subseteq Reached(Shown, held \cup X)
<1> USE DEF BridgeInv
<1> DEFINE R == Reached(Shown, held \cup X)
           C == Marked \cup UNION {Reached(refs, {h}) : h \in R \cap handle}
<1>0. handle \subseteq Obj /\ held \subseteq handle /\ inst \subseteq Obj
      /\ refs \in [Obj -> SUBSET Obj] /\ held \cup X \in SUBSET Obj
  BY DEF TypeOK, Coherent
<1>1. held \cup X \subseteq R /\ \A o \in R : Shown[o] \subseteq R
  BY <1>0, ShownFacts, ReachedHas, ReachedClosed
<1>2. C \in SUBSET Obj
  <2>1. Marked \subseteq Obj /\ \A h \in R : Reached(refs, {h}) \subseteq Obj
    BY MarkedFacts, ReachedType
  <2> QED
    BY <2>1
<1>3. \A h \in R \cap handle : h \in Reached(refs, {h}) /\ Reached(refs, {h}) \subseteq C
  <2>1. \A h \in Obj : h \in Reached(refs, {h})
    BY ReachedHas
  <2> QED
    BY <1>0, <2>1
<1>4. native \cup held \subseteq C
  <2>1. native \subseteq C
    BY MarkedFacts
  <2>2. held \subseteq C
    BY <1>0, <1>1, <1>3
  <2> QED
    BY <2>1, <2>2
<1>5. inst \cap C \subseteq R
  <2>1. \A h \in R \cap handle : edges[h] \subseteq R
    BY <1>0, <1>1, ShownFacts
  <2>2. \A h \in R \cap handle : inst \cap Reached(refs, {h}) \subseteq R
    BY <1>1, <2>1
  <2> QED
    BY <1>1, <2>2
<1>6. \A c \in C : refs[c] \subseteq C
  <2>1. \A c \in Marked : refs[c] \subseteq C
    BY MarkedFacts
  <2>2. ASSUME NEW h \in R \cap handle, NEW c \in Reached(refs, {h}) PROVE refs[c] \subseteq C
    BY <1>0, <1>3, ReachedClosed
  <2> QED
    BY <2>1, <2>2
<1>7. \A c \in C : pyrefs[c] \subseteq C
  <2>1. ASSUME NEW c \in C, c \in inst PROVE pyrefs[c] \subseteq C
    <3>1. c \in R /\ c \in Obj
      BY <1>0, <1>5, <2>1
    <3>2. pyrefs[c] \subseteq R \cap handle
      BY <1>1, <3>1, ShownFacts DEF Coherent
    <3> QED
      BY <1>3, <3>2
  <2>2. \A c \in C : c \notin inst => pyrefs[c] = {}
    BY <1>2 DEF Coherent
  <2> QED
    BY <2>1, <2>2
<1>8. \A c \in C : Links[c] \subseteq C
  BY <1>2, <1>6, <1>7 DEF Links
<1> HIDE DEF C, R
<1>9. Used \subseteq C
  BY <1>2, <1>4, <1>8, ReachedLeast DEF Used
<1> QED
  BY <1>5, <1>9 DEF IdentityKept, R

(* No step frees the instance of a bound block the program reaches. *)
LEMMA NextIdentity == IInv /\ [Next]_vars => IdentityKept'
<1> SUFFICES ASSUME IInv, [Next]_vars PROVE IdentityKept'
  OBVIOUS
<1> USE DEF IInv, BridgeInv
<1>0. TypeOK' /\ Coherent'
  BY NextBridge
<1>1. inst \subseteq peers \ dead /\ peers \ dead \subseteq heap
  BY DEF Coherent
<1>2. CASE HLCode \/ \E o \in Obj : PyAlloc(o)
  <2> DEFINE N == heap' \ heap
  <2>1. N \in SUBSET Obj
    BY <1>0 DEF TypeOK
  <2>2. native' \cup held' \subseteq Used \cup N
    BY <1>2, UsedFacts DEF HLCode, HLAlloc, HLStore, HLKeep, HLForget, PyAlloc, pyVars,
       TypeOK
  <2>3. \A o \in N : refs'[o] = {} /\ pyrefs'[o] = {}
    BY <1>1, <1>2, <2>1 DEF HLCode, HLAlloc, HLStore, HLKeep, HLForget, PyAlloc, pyVars,
       Coherent
  <2>4. \A o \in Used : refs'[o] \cup pyrefs'[o] \subseteq Used
    BY <1>2, UsedFacts DEF HLCode, HLAlloc, HLStore, HLKeep, HLForget, PyAlloc, pyVars,
       TypeOK
  <2> HIDE DEF N
  <2>5. Used' \subseteq Used \cup N
    BY <1>0, <2>1, <2>2, <2>3, <2>4, UsedShrinks
  <2>6. UNCHANGED <<peers, dead, inst>>
    BY <1>2 DEF HLCode, HLAlloc, HLStore, HLKeep, HLForget, PyAlloc, pyVars, peerVars
  <2> QED
    BY <1>1, <2>5, <2>6 DEF IdentityKept, N
<1>3. ASSUME NEW o \in Obj, Bind(o) PROVE IdentityKept'
  BY <1>3 DEF Bind, IdentityKept, Used, Links, heapVars
<1>4. ASSUME NEW o \in Obj,
             PyReceive(o) \/ PyPass(o) \/ \E S \in SUBSET Obj : PyStore(o, S)
      PROVE  IdentityKept'
  <2>1. native' \cup held' \subseteq Used
    BY <1>4, UsedFacts DEF PyReceive, PyPass, PyStore, heapVars, pyVars
  <2>2. \A x \in Used : refs'[x] \cup pyrefs'[x] \subseteq Used
    BY <1>4, UsedFacts DEF PyReceive, PyPass, PyStore, heapVars, pyVars, TypeOK
  <2>3. Used' \subseteq Used
    BY <1>0, <2>1, <2>2, UsedShrinksAll
  <2>4. peers' \ dead' = peers \ dead /\ inst' = inst
    BY <1>4, RetainFacts DEF PyReceive, PyPass, PyStore, pyVars, peerVars
  <2> QED
    BY <2>3, <2>4 DEF IdentityKept
<1>5. ASSUME NEW o \in Obj,
             PyForget(o) \/ \E S \in SUBSET Obj : PyAssign(o, S)
      PROVE  IdentityKept'
  <2>1. inst' \subseteq inst /\ UNCHANGED <<heap, refs, native, peers, dead, strong>>
        /\ held' \subseteq held /\ pc = "idle" /\ pc' = "idle"
    BY <1>5 DEF PyForget, PyAssign, Deallocate, heapVars, peerVars
  <2>2. strong = inst /\ strong' \subseteq inst'
    BY <1>0, <2>1 DEF Coherent, Retained
  <2>3. \A x \in Used : pyrefs'[x] \subseteq Used
    <3>1. Used \subseteq Obj /\ \A x \in Used : pyrefs[x] \subseteq Used
      BY UsedFacts
    <3>2. CASE PyForget(o)
      BY <3>1, <3>2 DEF PyForget, Deallocate
    <3>3. ASSUME NEW S \in SUBSET Obj, PyAssign(o, S)
          PROVE  \A x \in Used : pyrefs'[x] \subseteq Used
      <4>1. S \subseteq Used
        BY <3>3, UsedFacts DEF PyAssign
      <4>2. \A x \in Obj : [pyrefs EXCEPT ![o] = S][x] \in {pyrefs[x], S}
        BY DEF TypeOK
      <4>3. \A x \in Obj : pyrefs'[x] \in {pyrefs[x], S, {}}
        BY <3>3, <4>2 DEF PyAssign, Deallocate
      <4> QED
        BY <3>1, <4>1, <4>3
    <3> QED
      BY <1>5, <3>2, <3>3
  <2>4. native' \cup held' \subseteq Used
        /\ \A x \in Used : refs'[x] \cup pyrefs'[x] \subseteq Used
    BY <2>1, <2>3, UsedFacts
  <2>5. Used' \subseteq Used
    BY <1>0, <2>4, UsedShrinksAll
  <2> QED
    BY <2>1, <2>2, <2>5 DEF IdentityKept
<1>6. CASE Major \/ LateMajor \/ RefreshMajor
  <2>1. Sweep /\ UNCHANGED <<native, held, pyrefs, inst, peers>>
    BY <1>6 DEF Major, LateMajor, RefreshMajor, pyVars
  <2>2. native' \cup held' \subseteq Used
        /\ \A x \in Used : refs'[x] \cup pyrefs'[x] \subseteq Used
    BY <2>1, UsedFacts DEF Sweep
  <2>3. Used' \subseteq Used
    BY <1>0, <2>2, UsedShrinksAll
  <2> QED
    BY <2>1, <2>3 DEF Sweep, IdentityKept
<1>7. CASE StartCollection \/ Materialize \/ RefreshFails \/ Crash \/ UNCHANGED vars
  BY <1>7 DEF StartCollection, Materialize, RefreshFails, Crash, vars, heapVars, pyVars,
     peerVars, IdentityKept, Used, Links
<1>8. CASE StopCollection \/ Destructor
  <2>1. UNCHANGED <<refs, native, pyrefs, held, inst>>
    BY <1>8 DEF StopCollection, Destructor, heapVars, pyVars
  <2>2. peers' \ dead' = peers \ dead
    BY <1>8, RetainFacts DEF StopCollection, Destructor
  <2> QED
    BY <2>1, <2>2 DEF IdentityKept, Used, Links
<1>9. ASSUME refs' = refs, native' = native, held' = held, peers' \ dead' = peers \ dead,
             \A x \in Obj : pyrefs'[x] \subseteq pyrefs[x], inst' = inst \cap handle',
             Used \cap (peers \ dead) \subseteq handle'
      PROVE  IdentityKept'
  <2>1. native' \cup held' \subseteq Used
        /\ \A x \in Used : refs'[x] \cup pyrefs'[x] \subseteq Used
    BY <1>9, UsedFacts
  <2>2. Used' \subseteq Used
    BY <1>0, <2>1, UsedShrinksAll
  <2> QED
    BY <1>9, <2>2 DEF IdentityKept
<1>10. CASE ReleasePeers
  <2>1. /\ Left(handle, Shown, held \cup strong', pyrefs)
        /\ strong' = strong \cap native_live /\ strong' \subseteq handle
        /\ Reached(Shown, held \cup strong') \subseteq handle
    BY <1>10, ReleaseLeft
  <2>2. strong = inst /\ pc = "edged"
    BY <1>10 DEF ReleasePeers, Retained
  <2>3. inst \cap Marked \subseteq strong'
        /\ \A h \in handle : inst \cap Reached(refs, {h}) \subseteq strong' \cup edges[h]
    BY <1>1, <2>1, <2>2 DEF ObservationHolds, SnapshotCovers
  <2>4. Used \cap (peers \ dead) \subseteq Reached(Shown, held \cup strong')
    BY <2>1, <2>3, CollectorSeesAll
  <2>5. Reached(Shown, held \cup strong') \subseteq handle'
    BY <2>1 DEF Left
  <2> QED
    BY <1>9, <1>10, <2>1, <2>4, <2>5 DEF ReleasePeers, Left, heapVars
<1>11. ASSUME NEW young \in SUBSET handle, PyCollect(young) PROVE IdentityKept'
  <2>1. PICK alive \in SUBSET handle :
           /\ Left(alive, Shown, held \cup strong, pyrefs)
           /\ Reached(Shown, held \cup strong) \subseteq alive
    BY <1>11, CollectLeft
  <2>2. strong \in SUBSET handle
    BY DEF Coherent
  <2>3. inst \cap Marked \subseteq strong
        /\ \A h \in handle : inst \cap Reached(refs, {h}) \subseteq strong \cup edges[h]
    BY <1>11 DEF PyCollect, ObservationHolds, SnapshotCovers, Retained
  <2>4. Used \cap (peers \ dead) \subseteq Reached(Shown, held \cup strong)
    BY <2>2, <2>3, CollectorSeesAll
  <2>5. Reached(Shown, held \cup strong) \subseteq handle'
    BY <2>1 DEF Left
  <2> QED
    BY <1>9, <1>11, <2>1, <2>4, <2>5 DEF PyCollect, Left, heapVars, peerVars
<1> QED
  BY <1>2, <1>3, <1>4, <1>5, <1>6, <1>7, <1>8, <1>10, <1>11 DEF Next, PyCode, Collection

-----------------------------------------------------------------------------
(* The inductive invariant of the bridge between the two collectors. *)
THEOREM Invariance == Spec => []IInv
<1>1. IInv /\ [Next]_vars => IInv'
  BY NextBridge, NextObservation, NextSnapshot, NextIdentity DEF IInv
<1> QED
  BY <1>1, InitBridge, PTL DEF Spec

(* A bound instance that the program reaches, through either heap, is not
   collected by Python, however HL code of other threads runs meanwhile. *)
THEOREM IdentityIsKept == Spec => []IdentityKept
<1>1. IInv => IdentityKept
  BY DEF IInv
<1> QED
  BY <1>1, Invariance, PTL

(* A block that the program reaches, through either heap, is not freed. *)
THEOREM UsedIsNotFreed == Spec => []NothingUsedIsFreed
<1>1. IInv => NothingUsedIsFreed
  BY UsedIsKept, KeptIsAllocated DEF IInv, BridgeInv, NothingUsedIsFreed
<1> QED
  BY <1>1, Invariance, PTL

(* The registry of peers, the wrappers and the two heaps hang together, and the
   strong references are complete outside a collection. *)
THEOREM BridgeHolds == Spec => []BridgeInv
<1>1. IInv => BridgeInv
  BY DEF IInv
<1> QED
  BY <1>1, Invariance, PTL

(* What was observed of HL at the trace holds until Python has collected,
   however HL code of other threads moves its references meanwhile. *)
THEOREM ObservationIsKept == Spec => []ObservationHolds
<1>1. IInv => ObservationHolds
  BY DEF IInv
<1> QED
  BY <1>1, Invariance, PTL

(* What was recorded of the wrappers holds until Python has collected. *)
THEOREM SnapshotHolds == Spec => []SnapshotCovers
<1>1. IInv => SnapshotCovers
  BY DEF IInv
<1> QED
  BY <1>1, Invariance, PTL
=============================================================================
