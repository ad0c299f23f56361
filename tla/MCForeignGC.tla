---------------------------- MODULE MCForeignGC -----------------------------
(* Instances of ForeignGC for TLC.                                          *)
EXTENDS ForeignGC, TLC

CONSTANTS o1, o2

TwoBlocks == {o1, o2}

\* The blocks are alike (for safety only).
Symmetry == Permutations(Obj)

(***************************************************************************)
(* For liveness: the program has built any graph of allocated blocks and   *)
(* bound instances, holds on to any part of it, and then rests while the   *)
(* collectors go on.                                                       *)
(***************************************************************************)
Few(f, o) == Cardinality(f[o]) <= MaxFields

BuiltInit ==
  /\ heap = Obj
  /\ refs \in {f \in [Obj -> SUBSET Obj] : \A o \in Obj : Few(f, o)}
  /\ native \in SUBSET Obj /\ inst \in SUBSET Obj /\ held \in SUBSET Obj
  /\ pyrefs \in {f \in [Obj -> SUBSET Obj] :
                   \A o \in Obj : Few(f, o) /\ (o \notin inst => f[o] = {})}
  /\ handle = held \cup inst \cup UNION {pyrefs[o] : o \in Obj}
  /\ edges = None
  /\ peers = inst /\ dead = {} /\ strong = inst /\ native_live = {}
  /\ collecting = FALSE
  /\ snapshot_edges = None /\ count = Zero
  /\ pc = "idle"

RestNext ==
  \/ Major \/ Collection \/ RefreshFails \/ Destructor
  \/ \E young \in SUBSET handle : PyCollect(young)

RestSpec == BuiltInit /\ [][RestNext]_vars /\ Fairness
=============================================================================
