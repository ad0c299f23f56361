--------------------------- MODULE AbstractObject ---------------------------
(***************************************************************************)
(* What a dynamic object (src/src/std/obj.c) is to a program: fields with  *)
(* a type and a value each, and the types of the virtuals that view it.    *)
(***************************************************************************)
CONSTANTS
  Name, Type, Datum,
  Virtual,      \* types of virtuals
  Declares,     \* the type a virtual has for each of its fields
  Recastable,   \* <<t, vt>>: the first view of a field of type t makes it a vt
  Cast, NoCast  \* with which value, unless the cast throws

VARIABLES fields, views

\* Empty, or with what the virtual has it is made from.
OInit ==
  \/ fields \in [{} -> [type : Type, value : Datum]] /\ views = {}
  \/ \E v \in Virtual :
       /\ fields \in [DOMAIN Declares[v] -> [type : Type, value : Datum]]
       /\ \A n \in DOMAIN fields : fields[n].type = Declares[v][n]
       /\ views = {v}

OSet ==
  /\ \E n \in Name \cap DOMAIN fields' :
       /\ fields'[n] \in [type : Type, value : Datum]
       /\ fields' = [l \in DOMAIN fields \cup {n} |->
                       IF l = n THEN fields'[n] ELSE fields[l]]
  /\ UNCHANGED views

ORemove ==
  /\ \E n \in DOMAIN fields : fields' = [l \in DOMAIN fields \ {n} |-> fields[l]]
  /\ UNCHANGED views

\* What field n is cast to.
As(v, n) ==
  [type |-> Declares[v][n],
   value |-> Cast[fields[n].type, Declares[v][n], fields[n].value]]

Changes(v) ==
  {n \in DOMAIN Declares[v] \cap DOMAIN fields :
     /\ fields[n].type # Declares[v][n]
     /\ <<fields[n].type, Declares[v][n]>> \in Recastable}

\* The first view casts fields: all it can, or some before a cast that throws.
OFirstView ==
  /\ views = {}
  /\ \E v \in Virtual :
       /\ views' = {v}
       /\ \E done \in SUBSET Changes(v) :
            /\ \A n \in done : As(v, n).value # NoCast
            /\ done = Changes(v) \/ \E n \in Changes(v) \ done : As(v, n).value = NoCast
            /\ fields' = [n \in DOMAIN fields |->
                            IF n \in done THEN As(v, n) ELSE fields[n]]

OLaterView ==
  /\ views # {}
  /\ \E v \in Virtual \ views : views' = views \cup {v}
  /\ UNCHANGED fields

OSpec ==
  OInit /\ [][OSet \/ ORemove \/ OFirstView \/ OLaterView]_<<fields, views>>
=============================================================================
