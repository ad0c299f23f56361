---------------------------- MODULE MCStructures -----------------------------
(***************************************************************************)
(* Instances for TLC of the data structures, which share no state: each    *)
(* behaviour is one of the block allocator, of a hash map, of a dynamic    *)
(* object, or of the ordering of the mods.                                 *)
(***************************************************************************)
EXTENDS Allocator, ModOrder, HashMap, DynObj, TLC

CONSTANTS p1, p2, v1, v2, torn, fails

VARIABLE part   \* the structure this behaviour is about

TwoPages == {p1, p2}
Symmetry == Permutations(TwoPages)

TwoValues == {v1, v2}
SmallPrimes == <<1, 2, 3>>

Declared ==
  [v \in {"A", "B"} |->
     IF v = "A" THEN (1 :> "null_i32") @@ (2 :> "f64") @@ (3 :> "class2")
                ELSE (1 :> "view") @@ (2 :> "null_f64") @@ (3 :> "i32")]
Boxed == ("null_i32" :> "i32") @@ ("null_f64" :> "f64")

\* Each field has a value of its own, and field 3 one that cannot be cast.
OwnStores ==
  (1 :> [type : {"i32", "dynobj"}, value : {1}])
    @@ (2 :> [type : {"i32", "ui8", "f64"}, value : {2}])
    @@ (3 :> [type : {"class1"}, value : {3, 4}] \cup [type : {"i32", "ui16"}, value : {3}])
OwnHad == [v \in {"A", "B"} |-> {[n \in 1 .. 3 |-> n]}]
Data == 1 .. 4 \cup 11 .. 13
Casts == [c \in Type \X Type \X Data |-> IF c[3] \in 1 .. 3 THEN c[3] + 10 ELSE fails]

ASSUME StructuresAssumption == MapAssumption /\ ObjectAssumption

\* The others are in one state.
RestIs(parts) ==
  /\ "heap" \in parts =>
       Init /\ kind = "fixed" /\ profile = FALSE /\ max_blocks = 3
  /\ "map" \in parts => HashInit
  /\ "object" \in parts => o = EmptyObject
  /\ "mods" \in parts => ModsInit /\ found = <<>>

Parts == {"heap", "map", "object", "mods"}

\* The heap starts as HeapSpec starts it (Allocator).  Of pages without sizes no
\* statistics are made here, which doubles their states; the proofs include them.
HeapInit == Init /\ CursorSuffices /\ (profile => HasSizes)

MCInit ==
  /\ part \in Parts
  /\ CASE part = "heap" -> HeapInit
       [] part = "map" -> HashInit
       [] part = "object" -> ObjInit
       [] part = "mods" -> ModsInit
  /\ RestIs(Parts \ {part})

MCNext ==
  /\ UNCHANGED part
  /\ \/ part = "heap" /\ Next /\ UNCHANGED <<m, o, modVars>>
     \/ part = "map" /\ HashNext /\ UNCHANGED <<vars, o, modVars>>
     \/ part = "object" /\ ObjNext /\ UNCHANGED <<vars, m, modVars>>
     \/ part = "mods" /\ ModsNext /\ UNCHANGED <<vars, m, o>>

MCSpec == MCInit /\ [][MCNext]_<<vars, part, m, o, modVars>>
==============================================================================
