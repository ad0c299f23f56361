------------------------------- MODULE DynObj --------------------------------
(***************************************************************************)
(* A dynamic object and the virtuals that view it (src/src/std/obj.c): the *)
(* fields are kept in two arrays, of pointers and of raw data, which move  *)
(* when fields are added, removed or change their type; a virtual holds    *)
(* the addresses of the fields it knows, which have to follow.  An object  *)
(* is not shared by threads without a lock of the program: an operation is *)
(* one step.  The objects that its fields refer to are others, and what a  *)
(* cast makes of a value (cast.c, and the castFun of classes, which is HL  *)
(* code) is a constant: it does not come back to this object.              *)
(***************************************************************************)
EXTENDS Integers, Sequences, FiniteSets, SequencesExt

CONSTANTS
  Name,      \* field names by hash, which is the order of the lookup: naturals
  LastName,  \* the last of them
  Pointer,   \* types whose values are pointers
  Raw,       \* types whose values are not, of 1, 2, 4 and 8 bytes
  Boxes,     \* HNULL types: of each, the raw type of what it boxes
  ViewType,  \* HVIRTUAL types, as types of fields
  Class,     \* HOBJ types
  Castable,  \* those with a castFun
  Virtual,   \* types of virtuals that view the object, at most 63 fields each
  Declares,  \* of each, the type of each of its fields
  Datum,     \* what fields hold
  Stores,    \* what is stored in each field, and as what: mix-ups are to show
  Had,       \* what each virtual may hold when it becomes the view of an object
  Cast,      \* what a value becomes that is cast from one type to another
  NoCast,    \* of a cast that throws
  Torn       \* what is read of a place that was not stored as a whole, or NULL

Type == Pointer \cup Raw

\* hl_type_size, in bytes
Size(type) ==
  CASE type \in {"ui8", "bool"} -> 1
    [] type = "ui16" -> 2
    [] type \in {"i32", "f32"} -> 4
    [] OTHER -> 8

\* What the constants have to be.
ObjectAssumption ==
  /\ LastName \in Nat /\ Name \subseteq 0 .. LastName
  /\ Raw \subseteq {"ui8", "bool", "ui16", "i32", "f32", "i64", "f64"}
  /\ Pointer \cap Raw = {}
  /\ DOMAIN Boxes \cup ViewType \cup Class \subseteq Pointer /\ Castable \subseteq Class
  /\ \A v \in Virtual :
       /\ DOMAIN Declares[v] \subseteq Name
       /\ \A n \in DOMAIN Declares[v] : Declares[v][n] \in Type
  /\ \A n \in Name : Stores[n] \subseteq [type : Type, value : Datum]
  /\ \A v \in Virtual : Had[v] \subseteq [DOMAIN Declares[v] -> Datum]
  /\ Cast \in [Type \X Type \X Datum -> Datum \cup {NoCast}] /\ NoCast \notin Datum
  /\ Torn \notin Datum

VARIABLE o   \* the object, with the virtuals that view it

EmptyObject ==
  [fields |-> [n \in {} |-> 0], values |-> <<>>, raw |-> <<>>, virtuals |-> {}]

Array(type) == IF type \in Pointer THEN "values" ELSE "raw"

\* hl_dynobj_field.  An address is relative to where its array is now: lag counts
\* the moves of the array that a copy of the address has not followed.
Address(f) == [array |-> Array(f.type), lag |-> 0, index |-> f.index]

NoField == [array |-> "none", lag |-> 0, index |-> 0]   \* a NULL address

\* Mutant: data is not aligned.
Pad_None(at, type) == 0

\* hl_pad_size
Pad(at, type) == IF at % Size(type) = 0 THEN 0 ELSE Size(type) - (at % Size(type))

RawFields(x) == {n \in DOMAIN x.fields : x.fields[n].type \in Raw}

\* The bytes of the raw data that a field has.
Cells(f) == f.index + 1 .. f.index + Size(f.type)

Read(x, n) ==
  LET f == x.fields[n] IN
  IF f.type \in Pointer THEN x.values[f.index + 1]
  ELSE LET read == {x.raw[i] : i \in Cells(f)}
       IN IF Cardinality(read) = 1 THEN CHOOSE v \in read : TRUE ELSE Torn

Store(x, n, v) ==
  LET f == x.fields[n] IN
  IF f.type \in Pointer
  THEN [x EXCEPT !.values = [@ EXCEPT ![f.index + 1] = v]]
  ELSE [x EXCEPT !.raw = [i \in DOMAIN @ |-> IF i \in Cells(f) THEN v ELSE @[i]]]
-----------------------------------------------------------------------------
(* The virtuals.                                                           *)

\* Mutant: the addresses are not shifted.
Shifted_Not(address, type, array) == address

\* An address into an array that was moved is shifted.
Shifted(address, type, array) ==
  IF address # NoField /\ Array(type) = array
  THEN [address EXCEPT !.lag = @ - 1] ELSE address

\* hl_dynobj_remap_virtuals(o, f, address_offset): the addresses into an array
\* that moved are shifted, then the one of field n is looked up.
Remapped(view, f, n, moved) ==
  [type |-> view.type,
   slot |-> [i \in DOMAIN view.slot |->
               IF i = n
               THEN IF Declares[view.type][n] = f.type THEN Address(f) ELSE NoField
               ELSE IF moved
               THEN Shifted(view.slot[i], Declares[view.type][i], Array(f.type))
               ELSE view.slot[i]]]

RemapVirtuals(x, n, moved) ==
  [x EXCEPT !.virtuals = {Remapped(view, x.fields[n], n, moved) : view \in @}]

\* An array is copied to a new place: all that point into the old one lag behind.
LeftBehind(view, array) ==
  [type |-> view.type,
   slot |-> [i \in DOMAIN view.slot |->
               IF view.slot[i].array = array
               THEN [view.slot[i] EXCEPT !.lag = @ + 1] ELSE view.slot[i]]]

Moved(x, array) == [x EXCEPT !.virtuals = {LeftBehind(view, array) : view \in @}]

\* What a new virtual holds.
View(fields, v) ==
  [type |-> v,
   slot |-> [n \in DOMAIN Declares[v] |->
               IF n \in DOMAIN fields /\ fields[n].type = Declares[v][n]
               THEN Address(fields[n]) ELSE NoField]]
-----------------------------------------------------------------------------
(* hl_dynobj_delete_field                                                  *)

\* Mutant: the values above stay where they are.
Erased_NoMove(values, index) == SubSeq(values, 1, Len(values) - 1)

\* The pointers above move down.
Erased(values, index) == RemoveAt(values, index + 1)

Lowered(at, type, f) ==
  IF f.type \in Pointer /\ type \in Pointer /\ at > f.index THEN at - 1 ELSE at

FieldsWithout(fields, n) ==
  [l \in DOMAIN fields \ {n} |->
     [type |-> fields[l].type,
      index |-> Lowered(fields[l].index, fields[l].type, fields[n]),
      order |-> IF fields[l].order > fields[n].order THEN fields[l].order - 1
                                                     ELSE fields[l].order]]

ViewWithout(view, f, n) ==
  [type |-> view.type,
   slot |-> [i \in DOMAIN view.slot |->
               IF i = n THEN NoField
               ELSE [view.slot[i] EXCEPT
                       !.index = Lowered(@, Declares[view.type][i], f)]]]

\* Raw data stays where it is until a field is added.
DeleteField(x, n) ==
  LET f == x.fields[n] IN
  [x EXCEPT !.values = IF f.type \in Pointer THEN Erased(@, f.index) ELSE @,
            !.fields = FieldsWithout(@, n),
            !.virtuals = {ViewWithout(view, f, n) : view \in @}]
-----------------------------------------------------------------------------
(* hl_dynobj_add_field                                                     *)

Cellful(size, d) == [i \in 1 .. size |-> d]

FieldsWith(fields, n, type, index) ==
  [l \in DOMAIN fields \cup {n} |->
     IF l = n
     THEN [type |-> type, index |-> index, order |-> Cardinality(DOMAIN fields)]
     ELSE fields[l]]

\* A new field at the end of its array, raw data aligned, that holds d.
Added(x, n, type, d) ==
  LET pad == Pad(Len(x.raw), type) IN
  IF type \in Pointer
  THEN [x EXCEPT !.values = Append(@, d),
                 !.fields = FieldsWith(@, n, type, Len(x.values))]
  ELSE [x EXCEPT !.raw = @ \o Cellful(pad, Torn) \o Cellful(Size(type), d),
                 !.fields = FieldsWith(@, n, type, Len(x.raw) + pad)]

\* Raw field n of x is copied behind what has been packed into y; the virtuals
\* follow if it changes place.
PackOne(y, x, n) ==
  LET f == x.fields[n]
      pad == Pad(Len(y.raw), f.type)
      at == Len(y.raw) + pad
      packed == [y EXCEPT
                   !.raw = @ \o Cellful(pad, Torn)
                             \o SubSeq(x.raw, f.index + 1, f.index + Size(f.type)),
                   !.fields = [@ EXCEPT ![n].index = at]]
  IN IF at = f.index THEN packed ELSE RemapVirtuals(packed, n, FALSE)

\* The raw data packed, in the order of the lookup.
Packed(x) ==
  LET upto[n \in 0 .. LastName + 1] ==
        IF n = 0 THEN [x EXCEPT !.raw = <<>>]
        ELSE IF n - 1 \in RawFields(x) THEN PackOne(upto[n - 1], x, n - 1)
        ELSE upto[n - 1]
  IN upto[LastName + 1]

\* The array that the field goes to is copied; raw data is packed if it becomes
\* smaller.
AddField(x, n, type) ==
  LET y == IF type \in Raw /\ Len(Packed(x).raw) < Len(x.raw) THEN Packed(x) ELSE x
  IN RemapVirtuals(Moved(Added(y, n, type, Torn), Array(type)), n, TRUE)
-----------------------------------------------------------------------------
\* hl_obj_lookup_set: the field is made, made anew, or given another type.
LookupSet(x, n, type) ==
  CASE n \notin DOMAIN x.fields -> AddField(x, n, type)
    [] n \in DOMAIN x.fields /\ x.fields[n].type = type -> x
    [] OTHER ->
         IF Array(x.fields[n].type) # Array(type) \/ Size(x.fields[n].type) # Size(type)
         THEN AddField(DeleteField(x, n), n, type)
         ELSE RemapVirtuals([x EXCEPT !.fields = [@ EXCEPT ![n].type = type]], n, FALSE)

Assign(x, n, type, v) == Store(LookupSet(x, n, type), n, v)

\* hl_virtual_make_value: the object that a virtual becomes the view of has its
\* fields, by the order of the lookup, with the values it had.
MadeFrom(v, had) ==
  LET declared == Declares[v]
      upto[n \in 0 .. LastName + 1] ==
        IF n = 0 THEN EmptyObject
        ELSE IF n - 1 \in DOMAIN declared
        THEN Added(upto[n - 1], n - 1, declared[n - 1], had[n - 1])
        ELSE upto[n - 1]
      x == upto[LastName + 1]
  IN [x EXCEPT !.virtuals =
        {[type |-> v, slot |-> [n \in DOMAIN declared |-> Address(x.fields[n])]]}]

\* hl_alloc_dynobj, or a virtual that needs an object.
ObjInit ==
  \/ o = EmptyObject
  \/ \E v \in Virtual : \E had \in Had[v] : o = MadeFrom(v, had)

\* hl_dyn_setp, hl_dyn_seti, hl_dyn_setd, ...
DynSet(n, type, v) == o' = Assign(o, n, type, v)

\* hl_obj_delete_field
ObjDeleteField(n) == n \in DOMAIN o.fields /\ o' = DeleteField(o, n)

\* should_recast: what the first virtual to view a field makes of it.
ShouldRecast(t, vt) ==
  \/ vt = "f64" /\ t = "i32"
  \/ vt \in DOMAIN Boxes /\ Boxes[vt] = t
  \/ vt \in DOMAIN Boxes /\ Boxes[vt] = "f64" /\ t = "i32"
  \/ vt \in ViewType /\ t = "dynobj"
  \/ vt \in Castable /\ t \in Class

NeedRecast(x, v) ==
  {n \in DOMAIN Declares[v] \cap DOMAIN x.fields :
     /\ x.fields[n].type # Declares[v][n]
     /\ ShouldRecast(x.fields[n].type, Declares[v][n])}

\* hl_dyn_getd or hl_dyn_getp, as the type that v declares.
Converted(x, v, n) == Cast[x.fields[n].type, Declares[v][n], Read(x, n)]

\* The fields of s, one after the other.
Recast(x, v, s) ==
  LET upto[i \in 0 .. Len(s)] ==
        IF i = 0 THEN x
        ELSE Assign(upto[i - 1], s[i], Declares[v][s[i]], Converted(upto[i - 1], v, s[i]))
  IN upto[Len(s)]

\* hl_to_virtual: the first view gives fields its own types, in the order in which
\* it declares them (here, in any).  If a cast throws, the rest keep theirs, and the
\* view stays.
ToVirtual(v) ==
  LET viewed == [o EXCEPT !.virtuals = @ \cup {View(o.fields, v)}]
      need == IF o.virtuals = {} THEN NeedRecast(o, v) ELSE {}
      throws(n) == Converted(o, v, n) = NoCast
  IN
  /\ \A view \in o.virtuals : view.type # v
  /\ \E done \in SUBSET need :
       /\ \A n \in done : ~ throws(n)
       /\ done = need \/ \E n \in need \ done : throws(n)
       /\ \E s \in SetToSeqs(done) : o' = Recast(viewed, v, s)

ObjNext ==
  \/ \E n \in Name :
       \/ ObjDeleteField(n)
       \/ \E store \in Stores[n] : DynSet(n, store.type, store.value)
  \/ \E v \in Virtual : ToVirtual(v)

ObjSpec == ObjInit /\ [][ObjNext]_o
-----------------------------------------------------------------------------
\* However the arrays have moved, a virtual holds the address of each of its
\* fields that the object has with the same type, and of no other: code compiled
\* for the virtual reads and writes through it without a check.
VirtualsFollow == \A view \in o.virtuals : view = View(o.fields, view.type)

\* The fields share no place: pointers fill their array, raw data is aligned, in
\* its array, and disjoint; and the orders are those of an array of the fields
\* (hl_obj_fields stores each name at its order).
LayoutIntact ==
  LET indexes(names) == {o.fields[n].index : n \in names}
      pointers == DOMAIN o.fields \ RawFields(o)
  IN
  /\ indexes(pointers) = 0 .. Len(o.values) - 1
  /\ Cardinality(pointers) = Len(o.values)
  /\ \A n \in RawFields(o) :
       /\ Cells(o.fields[n]) \subseteq 1 .. Len(o.raw)
       /\ o.fields[n].index % Size(o.fields[n].type) = 0
       /\ \A l \in RawFields(o) \ {n} : Cells(o.fields[n]) \cap Cells(o.fields[l]) = {}
  /\ {o.fields[n].order : n \in DOMAIN o.fields} = 0 .. Cardinality(DOMAIN o.fields) - 1

\* The fields by name, and the types of the virtuals.
Fields ==
  [n \in DOMAIN o.fields |-> [type |-> o.fields[n].type, value |-> Read(o, n)]]

Views == {view.type : view \in o.virtuals}

Object == INSTANCE AbstractObject WITH
            fields <- Fields, views <- Views,
            Recastable <- {t \in Type \X Type : ShouldRecast(t[1], t[2])}

\* To the program the object is a set of typed fields: only the field that is set
\* or deleted changes, wherever the data of the others is moved to meanwhile; the
\* first view changes those it wants as another type, each to its cast, and a later
\* view changes nothing.
ObjectSpec == Object!OSpec
==============================================================================
