----------------------------- MODULE ForeignGC ------------------------------
(***************************************************************************)
(* Two garbage collectors and the bridge between them                      *)
(* (src/src/hlmod_python.c, src/src/hlmod_ptr.c and the foreign hooks of   *)
(* src/src/gc.c).                                                          *)
(*                                                                         *)
(* A block of the HL heap is seen from Python through a wrapper: an HlPtr, *)
(* whose slot is a deferred root of the HL collector, or the Python        *)
(* instance bound to the block, which holds its HlPtr.  The bridge has a   *)
(* peer for every bound block.  It keeps the instance alive with a strong  *)
(* reference, except while Python collects: then only the instances whose  *)
(* block HL itself reaches keep theirs, and a wrapper shows Python, as its *)
(* edges, the instances of the blocks it reaches through HL.               *)
(*                                                                         *)
(* Obj is the set of addresses: a freed one is allocated again.  A block   *)
(* has one wrapper at most (several are alike for both collectors).  HL    *)
(* code runs on other threads at any time; Python code has the GIL.        *)
(* Callbacks, which are peers too, and __del__ methods that resurrect      *)
(* their instance are left out.                                            *)
(***************************************************************************)
EXTENDS Integers, FiniteSets

CONSTANTS
  Obj,            \* addresses of HL blocks
  MaxFields,      \* bound on the references a block, or an instance, holds
  MaxRecorded     \* bound on what was recorded of a root when another HL
                  \* thread collects while the bridge waits to (0: none does)

ASSUME ObjAssumption == IsFiniteSet(Obj)
ASSUME BoundAssumption == MaxFields \in Nat /\ MaxRecorded \in Nat

VARIABLES
  heap,           \* allocated blocks
  refs,           \* references of a block to others
  native,         \* blocks the roots and the stacks of HL threads name
  handle,         \* blocks with a wrapper: its slot is in python_roots
  edges,          \* of each wrapper's root, the instances it shows Python
  inst,           \* blocks whose bound Python instance is alive
  pyrefs,         \* wrappers an instance refers to
  held,           \* wrappers the variables of running Python code hold
  peers,          \* python_peers, by address
  dead,           \* the peers whose block was finalized
  strong,         \* the peers with a strong reference to the instance
  native_live,    \* the peers HL itself reached when last observed
  collecting,
  snapshot_edges, \* of each root, the peers its last trace recorded
  count,          \* ... and how many entries are read from there on
  pc              \* where the Python collection is

heapVars == <<heap, refs, native>>
pyVars == <<handle, edges, inst, pyrefs, held>>
peerVars == <<peers, dead, strong, native_live>>
traceVars == <<snapshot_edges, count>>
vars == <<heapVars, pyVars, peerVars, collecting, traceVars, pc>>

Label == {"idle",     \* Python code, or HL code, runs
          "lock",     \* refresh_foreign_edges: in hl_gc_major, before the mark
          "traced",   \* ... hl_gc_major has returned
          "edged",    \* ... has returned
          "collect",  \* the "start" callback has returned
          "stop",     \* the collection is over, but for the "stop" callback
          "crashed"}  \* refresh_foreign_edges read a pointer that is none

None == [o \in Obj |-> {}]
Zero == [o \in Obj |-> 0]

TypeOK ==
  /\ heap \subseteq Obj /\ native \subseteq Obj /\ handle \subseteq Obj
  /\ refs \in [Obj -> SUBSET Obj] /\ pyrefs \in [Obj -> SUBSET Obj]
  /\ edges \in [Obj -> SUBSET Obj]
  /\ inst \subseteq Obj /\ held \subseteq Obj
  /\ peers \subseteq Obj /\ dead \subseteq Obj /\ strong \subseteq Obj
  /\ native_live \subseteq Obj
  /\ collecting \in BOOLEAN
  /\ snapshot_edges \in [Obj -> SUBSET Obj] /\ count \in [Obj -> Nat]
  /\ pc \in Label

Init ==
  /\ heap = {} /\ refs = None /\ native = {}
  /\ handle = {} /\ edges = None /\ inst = {} /\ pyrefs = None /\ held = {}
  /\ peers = {} /\ dead = {} /\ strong = {} /\ native_live = {}
  /\ collecting = FALSE
  /\ snapshot_edges = None /\ count = Zero
  /\ pc = "idle"

-----------------------------------------------------------------------------
\* What S reaches along step: the least set closed under it that contains S.
Reached(step, S) ==
  { o \in Obj : \A C \in SUBSET Obj :
      S \subseteq C /\ (\A c \in C : step[c] \subseteq C) => o \in C }

\* What HL reaches from its own roots, and with the deferred ones.
Marked == Reached(refs, native)
Kept == Reached(refs, native \cup handle)

\* Mutant: the deferred roots are not marked after the observation.
Sweep_OnePass ==
  /\ heap' = Marked
  /\ refs' = [o \in Obj |-> IF o \in Marked THEN refs[o] ELSE {}]
  /\ native_live' = (peers \ dead) \cap Marked
  /\ dead' = dead \cup (peers \ Marked)

\* Mutant: the bridge observes before the mark stack is flushed.
Sweep_ObservesEarly ==
  /\ heap' = Kept
  /\ refs' = [o \in Obj |-> IF o \in Kept THEN refs[o] ELSE {}]
  /\ native_live' = (peers \ dead) \cap native
  /\ dead' = dead \cup (peers \ Kept)

\* What an HL major collection does to the heap and to the peers: it observes
\* what is marked before it marks the deferred roots, and it finalizes (and
\* frees) what is not marked in the end.
Sweep ==
  /\ heap' = Kept
  /\ refs' = [o \in Obj |-> IF o \in Kept THEN refs[o] ELSE {}]
  /\ native_live' = (peers \ dead) \cap Marked
  /\ dead' = dead \cup (peers \ Kept)

\* Mutant: the trace skips the peers HL reached when it was last observed.
Visited_NotLive(h) == Reached(refs, {h}) \cap ((peers \ dead) \ native_live)

\* The trace of the deferred roots: each begins where the entries recorded so
\* far end, and counts those it adds, in addition to what it counted before.
Visited(h) == Reached(refs, {h}) \cap (peers \ dead)

Trace ==
  IF peers = {} THEN UNCHANGED traceVars
  ELSE /\ snapshot_edges' = [h \in Obj |-> IF h \in handle THEN Visited(h) ELSE {}]
       /\ count' = [h \in Obj |-> IF h \in handle
                                    THEN count[h] + Cardinality(Visited(h))
                                    ELSE 0]

\* The wrappers whose reference count stays above zero when only those of
\* alive are left, with the references step, and roots are held from outside:
\* what a root or a cycle leads to.
Counted(alive, step, roots) ==
  LET onCycle(inside) == {o \in alive : o \in Reached(inside, inside[o])}
  IN UNION { Reached(inside, (roots \cap alive) \cup onCycle(inside)) :
       inside \in {[o \in Obj |-> IF o \in alive THEN step[o] \cap alive ELSE {}]} }

\* What Python sees a wrapper refer to.
Shown == [o \in Obj |-> pyrefs[o] \cup edges[o]]

\* The wrappers outside live are deallocated, and so are their HlPtr: that
\* removes the root, with its edges.  The others refer to what f says.
Deallocate(live, f) ==
  \E alive \in {live} :
    /\ handle' = handle \cap alive /\ inst' = inst \cap alive
    /\ pyrefs' = [o \in Obj |-> IF o \in alive THEN f[o] ELSE {}]
    /\ edges' = [o \in Obj |-> IF o \in alive THEN edges[o] ELSE {}]

\* Mutant: the strong references are taken even while Python collects.
Retain_Always ==
  /\ peers' = peers \ dead /\ dead' = {}
  /\ strong' = (peers \ dead) \cap inst
  /\ native_live' = native_live \ dead

\* release_peers(false), then a strong reference to each instance still alive.
Retain ==
  IF collecting THEN UNCHANGED peerVars
  ELSE /\ peers' = peers \ dead
       /\ dead' = {}
       /\ strong' = (peers \ dead) \cap inst
       /\ native_live' = native_live \ dead

-----------------------------------------------------------------------------
\* HL code, of any thread, uses what it reaches.

HLAlloc(o) ==
  /\ pc # "crashed" /\ o \notin heap
  /\ heap' = heap \cup {o} /\ native' = native \cup {o}
  /\ UNCHANGED <<refs, pyVars, peerVars, collecting, traceVars, pc>>

HLStore(a, S) ==
  /\ pc # "crashed"
  /\ a \in Marked /\ S \subseteq Marked /\ Cardinality(S) <= MaxFields
  /\ refs' = [refs EXCEPT ![a] = S]
  /\ UNCHANGED <<heap, native, pyVars, peerVars, collecting, traceVars, pc>>

HLKeep(o) ==
  /\ pc # "crashed" /\ o \in Marked
  /\ native' = native \cup {o}
  /\ UNCHANGED <<heap, refs, pyVars, peerVars, collecting, traceVars, pc>>

HLForget(o) ==
  /\ pc # "crashed" /\ o \in native
  /\ native' = native \ {o}
  /\ UNCHANGED <<heap, refs, pyVars, peerVars, collecting, traceVars, pc>>

\* A major collection that no Python collection asked for.  Code that runs
\* Python, or HL called from it, gets to one; the Python collector does so
\* while it runs destructors.
Major ==
  /\ pc \in {"idle", "collect", "stop"}
  /\ Sweep
  /\ UNCHANGED <<native, pyVars, peers, strong, collecting, traceVars, pc>>

\* The same, of another HL thread, while the bridge waits in hl_gc_major for
\* the lock: snapshot_active is set already.
LateMajor ==
  /\ pc = "lock" /\ \A h \in handle : count[h] < MaxRecorded
  /\ Sweep /\ Trace
  /\ UNCHANGED <<native, pyVars, peers, strong, collecting, pc>>

-----------------------------------------------------------------------------
\* Python code runs.

\* hlmod.alloc_obj: a new block and its HlPtr.
PyAlloc(o) ==
  /\ pc = "idle" /\ o \notin heap
  /\ heap' = heap \cup {o}
  /\ handle' = handle \cup {o} /\ held' = held \cup {o}
  /\ UNCHANGED <<refs, native, edges, inst, pyrefs, peerVars, collecting,
                 traceVars, pc>>

\* hlmod.bind_instance: refused when there is a peer at the address.
BindRefused(o) == o \in peers

Bind(o) ==
  /\ pc = "idle" /\ o \in held /\ ~ BindRefused(o)
  /\ peers' = peers \cup {o} /\ strong' = strong \cup {o}
  /\ inst' = inst \cup {o}
  /\ UNCHANGED <<heapVars, handle, edges, pyrefs, held, dead, native_live,
                 collecting, traceVars, pc>>

\* A value of HL comes to Python: from a field of a, or as an argument.  It
\* is the bound instance, or a wrapper made for it.
PyReceive(o) ==
  /\ pc = "idle"
  /\ o \in Marked \/ \E a \in held : o \in refs[a]
  /\ handle' = handle \cup {o} /\ held' = held \cup {o}
  /\ UNCHANGED <<heapVars, edges, inst, pyrefs, peerVars, collecting,
                 traceVars, pc>>

\* Python stores values in a field of a: hlmod_cast_to_hl, then the store.
PyStore(a, S) ==
  /\ pc = "idle" /\ a \in held /\ S \subseteq held /\ Cardinality(S) <= MaxFields
  /\ Retain
  /\ refs' = [refs EXCEPT ![a] = S]
  /\ UNCHANGED <<heap, native, pyVars, collecting, traceVars, pc>>

\* Python passes o to an HL function.
PyPass(o) ==
  /\ pc = "idle" /\ o \in held
  /\ Retain
  /\ native' = native \cup {o}
  /\ UNCHANGED <<heap, refs, pyVars, collecting, traceVars, pc>>

\* What Python code leaves without a reference is deallocated at once.
PyAssign(o, S) ==
  /\ pc = "idle" /\ o \in inst \cap held
  /\ S \subseteq held /\ Cardinality(S) <= MaxFields
  /\ Deallocate(Counted(handle, [Shown EXCEPT ![o] = S \cup edges[o]],
                        held \cup strong),
                [pyrefs EXCEPT ![o] = S])
  /\ UNCHANGED <<heapVars, held, peerVars, collecting, traceVars, pc>>

PyForget(o) ==
  /\ pc = "idle" /\ o \in held
  /\ held' = held \ {o}
  /\ Deallocate(Counted(handle, Shown, held' \cup strong), pyrefs)
  /\ UNCHANGED <<heapVars, peerVars, collecting, traceVars, pc>>

-----------------------------------------------------------------------------
\* A collection of Python, between the two calls of python_gc_callback.

\* "start": the roots and the peers are noted; HlPtr and peers can only
\* change with the GIL, so the snapshot needs no copy of them.
StartCollection ==
  /\ pc = "idle"
  /\ collecting' = TRUE
  /\ snapshot_edges' = None /\ count' = Zero
  /\ pc' = "lock"
  /\ UNCHANGED <<heapVars, pyVars, peerVars>>

RefreshMajor ==
  /\ pc = "lock"
  /\ Sweep /\ Trace
  /\ pc' = "traced"
  /\ UNCHANGED <<native, pyVars, peers, strong, collecting>>

\* A root whose count is too large reads on: the entries of the next roots,
\* then memory nothing was written to.
Overread(h) == count[h] > Cardinality(snapshot_edges[h])

\* The edges of every root are made of its entries; what is read beyond them
\* is any peer, or no peer at all.
Materialize ==
  /\ pc = "traced"
  /\ edges' \in { f \in [Obj -> SUBSET inst] :
        \A h \in Obj :
          /\ h \notin handle => f[h] = {}
          /\ h \in handle => (snapshot_edges[h] \ dead) \cap inst \subseteq f[h]
          /\ h \in handle /\ ~ Overread(h) => f[h] \subseteq snapshot_edges[h] \ dead }
  /\ snapshot_edges' = None /\ count' = Zero
  /\ pc' = "edged"
  /\ UNCHANGED <<heapVars, handle, inst, pyrefs, held, peerVars, collecting>>

Crash ==
  /\ pc = "traced" /\ \E h \in handle : Overread(h)
  /\ pc' = "crashed"
  /\ UNCHANGED <<heapVars, pyVars, peerVars, collecting, traceVars>>

\* There is no memory for the snapshot, the trace or the edges: the callback
\* fails, and Python collects all the same.
RefreshFails ==
  /\ pc \in {"lock", "traced"}
  /\ collecting' = FALSE
  /\ snapshot_edges' = None /\ count' = Zero
  /\ pc' = "collect"
  /\ UNCHANGED <<heapVars, pyVars, peerVars>>

\* Mutant: the peers HL reaches are released as well.
ReleasePeers_Live ==
  /\ pc = "edged"
  /\ peers' = peers \ dead /\ dead' = {} /\ strong' = {}
  /\ native_live' = native_live \ dead
  /\ Deallocate(Counted(handle, Shown, held), pyrefs)
  /\ pc' = "collect"
  /\ UNCHANGED <<heapVars, held, collecting, traceVars>>

\* release_peers(true)
ReleasePeers ==
  /\ pc = "edged"
  /\ peers' = peers \ dead /\ dead' = {}
  /\ strong' = (strong \cap native_live) \ dead
  /\ native_live' = native_live \ dead
  /\ Deallocate(Counted(handle, Shown, held \cup strong'), pyrefs)
  /\ pc' = "collect"
  /\ UNCHANGED <<heapVars, held, collecting, traceVars>>

\* Python collects a generation: those of the young wrappers which nothing
\* outside, and no older wrapper, leads to.
PyCollect(young) ==
  /\ pc = "collect"
  /\ LET garbage == young \ Reached(Shown, held \cup strong \cup (handle \ young))
     IN Deallocate(Counted(handle \ garbage, Shown, held \cup strong), pyrefs)
  /\ pc' = "stop"
  /\ UNCHANGED <<heapVars, held, peerVars, collecting, traceVars>>

\* A destructor, or a __del__ method, converts a value for HL.
Destructor ==
  /\ pc \in {"collect", "stop"}
  /\ Retain
  /\ UNCHANGED <<heapVars, pyVars, collecting, traceVars, pc>>

\* Mutant: the strong references are not taken again.
StopCollection_NoRetain ==
  /\ pc = "stop"
  /\ collecting' = FALSE
  /\ peers' = peers \ dead /\ dead' = {} /\ strong' = strong \ dead
  /\ native_live' = native_live \ dead
  /\ pc' = "idle"
  /\ UNCHANGED <<heapVars, pyVars, traceVars>>

\* "stop": collecting is cleared, and hlmod_python_retain called.
StopCollection ==
  /\ pc = "stop"
  /\ collecting' = FALSE
  /\ peers' = peers \ dead /\ dead' = {}
  /\ strong' = (peers \ dead) \cap inst
  /\ native_live' = native_live \ dead
  /\ pc' = "idle"
  /\ UNCHANGED <<heapVars, pyVars, traceVars>>

-----------------------------------------------------------------------------
HLCode ==
  \E o \in Obj : \/ HLAlloc(o) \/ HLKeep(o) \/ HLForget(o)
                 \/ \E S \in SUBSET Obj : HLStore(o, S)

PyCode ==
  \E o \in Obj : \/ PyAlloc(o) \/ Bind(o) \/ PyReceive(o) \/ PyPass(o)
                 \/ PyForget(o)
                 \/ \E S \in SUBSET Obj : PyStore(o, S) \/ PyAssign(o, S)

Collection ==
  \/ StartCollection \/ RefreshMajor \/ Materialize \/ ReleasePeers
  \/ StopCollection

Next ==
  \/ HLCode \/ PyCode
  \/ Major \/ LateMajor
  \/ Collection \/ RefreshFails \/ Crash \/ Destructor
  \/ \E young \in SUBSET handle : PyCollect(young)

Spec == Init /\ [][Next]_vars

\* Both collectors run again and again; of the Python ones that are owed to it
\* now and then, one has the memory it needs and is over all generations.
\* The program is owed nothing.
Fairness ==
  /\ WF_vars(Major) /\ WF_vars(Collection)
  /\ WF_vars(\E young \in SUBSET handle : PyCollect(young))
  /\ SF_vars(RefreshMajor) /\ SF_vars(Materialize)
  /\ SF_vars(collecting /\ PyCollect(handle))

FairSpec == Spec /\ Fairness

-----------------------------------------------------------------------------
\* How the two heaps and the registry of the bridge hang together.
Coherent ==
  /\ native \subseteq heap /\ handle \subseteq heap /\ peers \ dead \subseteq heap
  /\ \A o \in Obj : refs[o] \subseteq heap /\ (o \notin heap => refs[o] = {})
  /\ held \subseteq handle /\ inst \subseteq handle
  /\ \A o \in Obj : pyrefs[o] \subseteq handle /\ (o \notin inst => pyrefs[o] = {})
  /\ \A o \in Obj : edges[o] \subseteq inst /\ (o \notin handle => edges[o] = {})
  /\ dead \subseteq peers /\ inst \subseteq peers \ dead /\ strong \subseteq inst
  /\ collecting => pc # "idle"
  /\ pc \in {"lock", "traced", "edged"} => collecting

\* While Python does not collect, every bound instance that is alive has a
\* strong reference: Python can free one only in its collections, and in those
\* only if the snapshot of the HL heap was made.
Retained ==
  ~ collecting \/ pc \in {"lock", "traced", "edged"} => strong = inst

BridgeInv == TypeOK /\ Coherent /\ Retained

\* What the program reaches, through both heaps.
Links == [o \in Obj |-> refs[o] \cup pyrefs[o]]
Used == Reached(Links, native \cup held)

\* Nothing the program reaches, from HL or from Python and through both heaps,
\* is freed by the HL collector.
NothingUsedIsFreed == Used \subseteq heap

\* A bound instance the program reaches, if only through HL references, is
\* not collected by Python: the block keeps its one instance.
IdentityKept == Used \cap (peers \ dead) \subseteq inst

\* What HL code may use stays what was observed, however it moved its references
\* since: until the unretained peers are released, native_live has all the bound
\* blocks it may use, and from then on strong has.
ObservationHolds ==
  /\ pc \in {"traced", "edged"} => (peers \ dead) \cap Marked \subseteq native_live
  /\ pc = "collect" /\ collecting => inst \cap Marked \subseteq strong

\* An instance that a wrapper reaches through HL is one Python sees it refer to,
\* unless HL reaches it as well: the trace, made before, has not grown stale.
SnapshotCovers ==
  \A h \in handle :
    /\ pc = "traced" =>
         inst \cap Reached(refs, {h}) \subseteq native_live \cup snapshot_edges[h]
    /\ pc = "edged" =>
         inst \cap Reached(refs, {h}) \subseteq native_live \cup edges[h]
    /\ pc = "collect" /\ collecting =>
         inst \cap Reached(refs, {h}) \subseteq strong \cup edges[h]

\* The inductive invariant.
IInv == BridgeInv /\ ObservationHolds /\ SnapshotCovers /\ IdentityKept

\* Garbage is reclaimed, if it is a cycle through both heaps too.
Reclaimed == \A o \in Obj : (o \in heap /\ o \notin Used) ~> (o \notin heap)

\* A root reads no entry but those its trace recorded, each allocation once.
ReadsWhatWasRecorded == pc = "traced" => \A h \in handle : ~ Overread(h)
=============================================================================
