------------------------------ MODULE HashMap -------------------------------
(***************************************************************************)
(* The hash maps of the runtime (src/src/std/maps.h over maps.c, as the    *)
(* int map instantiates them): entries in chains by hash, in arrays that   *)
(* grow, and a free list of entry numbers.  A map is not shared by threads *)
(* without a lock of the program: an operation is one step.                *)
(***************************************************************************)
EXTENDS Integers, Sequences, FiniteSets, SequencesExt, TLC

CONSTANTS
  Key,         \* the keys that are used: naturals, their own hash
  Value,
  SizeInit,    \* H_SIZE_INIT, 3: entries of the first arrays
  CellRatio,   \* 4: entries for a cell, at least (ncells = nentries >> 2)
  Primes,      \* H_PRIMES: the numbers of cells
  Limit,       \* _MLIMIT, 128: from here on, indexes are ints and not chars
  CharRange,   \* 128: the indexes that a signed char holds are those below
  MaxEntries   \* bound on the number of entries

\* What the constants have to be.
MapAssumption ==
  /\ Key \subseteq Nat /\ {SizeInit, CellRatio} \subseteq Nat \ {0}
  /\ CharRange \in Nat \ {0} /\ Limit \in 0 .. CharRange /\ MaxEntries \in Nat
  /\ Primes \in Seq(Nat \ {0})
  /\ \A n \in 0 .. MaxEntries : \E i \in DOMAIN Primes : Primes[i] >= n \div CellRatio

VARIABLE m   \* the map

Nil == -1
-----------------------------------------------------------------------------
(* The free list.  Without buckets it is one range, [head, head+nbuckets); *)
(* with buckets, nbuckets is how many there is room for.                   *)

Bucket(pos, count) == [pos |-> pos, count |-> count]

EmptyList == [listed |-> FALSE, buckets |-> <<>>, head |-> 0, nbuckets |-> 0]

WithBuckets(buckets, room) ==
  [listed |-> TRUE, buckets |-> buckets, head |-> Len(buckets), nbuckets |-> room]

\* Mutant: a bucket joined to the next one is not joined to the one before.
InsertRange_NoMerge(f, pos, count) ==
  LET b == f.buckets
      i == Cardinality({j \in 1 .. f.head : b[j].pos <= pos}) + 1
  IN
  IF i <= f.head /\ b[i].pos = pos + count
  THEN WithBuckets([b EXCEPT ![i] = Bucket(pos, @.count)], f.nbuckets)
  ELSE IF i > 1 /\ b[i - 1].pos + b[i - 1].count = pos
  THEN WithBuckets([b EXCEPT ![i - 1].count = @ + count], f.nbuckets)
  ELSE WithBuckets(InsertAt(b, i, Bucket(pos, count)),
                   IF f.head = f.nbuckets THEN (f.nbuckets * 3 + 1) \div 2 ELSE f.nbuckets)

\* hl_freelist_add_range, with buckets: they are sorted, i is the place of pos.
InsertRange(f, pos, count) ==
  LET b == f.buckets
      i == Cardinality({j \in 1 .. f.head : b[j].pos <= pos}) + 1
      joinsNext == i <= f.head /\ b[i].pos = pos + count
      joinsPrev == i > 1 /\ b[i - 1].pos + b[i - 1].count = pos
  IN
  CASE joinsNext /\ joinsPrev ->
         WithBuckets(RemoveAt([b EXCEPT ![i - 1].count = @ + count + b[i].count], i),
                f.nbuckets)
    [] joinsNext /\ ~ joinsPrev ->
         WithBuckets([b EXCEPT ![i] = Bucket(pos, @.count + count)], f.nbuckets)
    [] ~ joinsNext /\ joinsPrev ->
         WithBuckets([b EXCEPT ![i - 1].count = @ + count], f.nbuckets)
    [] OTHER ->
         WithBuckets(InsertAt(b, i, Bucket(pos, count)),
                     IF f.head = f.nbuckets THEN (f.nbuckets * 3 + 1) \div 2
                                            ELSE f.nbuckets)

\* hl_freelist_add_range: one range as long as it stays one.
AddRange(f, pos, count) ==
  CASE f.listed -> InsertRange(f, pos, count)
    [] ~ f.listed /\ f.nbuckets = 0 ->
         [f EXCEPT !.head = pos, !.nbuckets = count]
    [] ~ f.listed /\ f.nbuckets > 0 /\ f.head + f.nbuckets = pos ->
         [f EXCEPT !.nbuckets = @ + count]
    [] ~ f.listed /\ f.nbuckets > 0 /\ pos + count = f.head ->
         [f EXCEPT !.head = pos, !.nbuckets = @ + count]
    [] OTHER ->
         InsertRange(WithBuckets(<<Bucket(f.head, f.nbuckets)>>, 2), pos, count)

\* hl_freelist_get: an entry number, Nil if there is none, and the list after.
Get(f) ==
  CASE ~ f.listed /\ f.nbuckets = 0 -> <<Nil, f>>
    [] ~ f.listed /\ f.nbuckets > 0 ->
         <<f.head, [f EXCEPT !.head = @ + 1, !.nbuckets = @ - 1]>>
    [] f.listed /\ f.head = 0 -> <<Nil, f>>
    [] OTHER ->
         LET b == f.buckets[f.head]
             left == f.head - 1
         IN <<b.pos + b.count - 1,
              IF b.count > 1
              THEN WithBuckets([f.buckets EXCEPT ![f.head].count = @ - 1], f.nbuckets)
              ELSE WithBuckets(SubSeq(f.buckets, 1, left),
                               IF left < f.nbuckets \div 2 THEN f.nbuckets \div 2
                                                           ELSE f.nbuckets)>>

Free(f) ==
  IF f.listed
  THEN UNION {b.pos .. b.pos + b.count - 1 : b \in ToSet(f.buckets)}
  ELSE f.head .. f.head + f.nbuckets - 1
-----------------------------------------------------------------------------
(* The map.  An entry is its key, its value and the next one of its chain  *)
(* (m->entries, m->values, m->nexts); those that are free have no contents *)
(* that anything reads.                                                    *)

NoEntries == [c \in {} |-> Nil]

EmptyMap == [cells |-> <<>>, entries |-> NoEntries, lfree |-> EmptyList,
          ncells |-> 0, nentries |-> 0, maxentries |-> 0]

Cell(map, k) == (k % map.ncells) + 1

\* m->nexts, and the end of a chain.
Nexts(entries) ==
  [c \in DOMAIN entries \cup {Nil} |-> IF c = Nil THEN Nil ELSE entries[c].next]

\* From start on, what follows what.
Following(start, next) ==
  LET at[n \in Nat] == IF n = 0 THEN start ELSE next[at[n - 1]] IN at

\* The entries of a cell, as they are linked.
Chain(map, cell) ==
  LET at == Following(map.cells[cell], Nexts(map.entries))
      len == CHOOSE n \in 0 .. map.maxentries :
               at[n] = Nil /\ \A i \in 0 .. n - 1 : at[i] # Nil
  IN [i \in 1 .. len |-> at[i - 1]]

\* The entries in the order of keys(), values() and resize.
Chains(map) ==
  LET chains[n \in 0 .. map.ncells] ==
        IF n = 0 THEN <<>> ELSE chains[n - 1] \o Chain(map, n)
  IN chains[map.ncells]

\* find: the entry of a key, or Nil: the chain is followed up to either.
Find(map, k) ==
  LET on == [c \in DOMAIN map.entries \cup {Nil} |->
               IF c = Nil \/ map.entries[c].key = k THEN c ELSE map.entries[c].next]
  IN IF map.maxentries = 0 THEN Nil
     ELSE Following(map.cells[Cell(map, k)], on)[map.maxentries]

\* What the arrays of cells and nexts keep of an index: those of a small map are of
\* signed chars, in which a large one wraps; a negative index ends a chain.
KeptIndex(map, c) ==
  LET char == c % (2 * CharRange) IN
  IF map.maxentries < Limit /\ char >= CharRange THEN Nil
  ELSE IF map.maxentries < Limit THEN char ELSE c

\* set_impl, when no resize is called for: the value is replaced, or an entry
\* taken from the free list and put at the head of its chain.
Put(map, k, v) ==
  LET old == Find(map, k)
      got == Get(map.lfree)
      c == got[1]
      cell == Cell(map, k)
      entry == [key |-> k, value |-> v, next |-> map.cells[cell]]
      more == [d \in DOMAIN map.entries \cup {c} |->
                 IF d = c THEN entry ELSE map.entries[d]]
  IN IF old # Nil THEN [map EXCEPT !.entries[old].value = v]
     ELSE [map EXCEPT !.lfree = got[2],
                      !.entries = more,
                      !.cells[cell] = KeptIndex(map, c),
                      !.nentries = @ + 1]

\* How many entries, and how many cells, the next arrays have.
NextEntries(map) ==
  IF map.maxentries = 0 THEN SizeInit ELSE (map.maxentries * 3 + 1) \div 2
NextCells(n) ==
  LET enough == {i \in DOMAIN Primes : Primes[i] >= n \div CellRatio}
  IN Primes[CHOOSE i \in enough : \A j \in enough : i <= j]

\* Same cells: the arrays are copied.  Indexes of another width than the one they
\* are read with are garbage: here, none.
Expand(map, n) ==
  LET Read(c) == IF map.maxentries < Limit <=> n < Limit THEN c ELSE Nil
      cells == [i \in DOMAIN map.cells |-> Read(map.cells[i])]
      entries == [c \in DOMAIN map.entries |->
                    [map.entries[c] EXCEPT !.next = Read(@)]]
  IN [map EXCEPT !.maxentries = n,
                 !.cells = cells,
                 !.entries = entries,
                 !.lfree = AddRange(@, map.maxentries, n - map.maxentries)]

\* The entries are put into new arrays, cell by cell.
Fresh(n) ==
  [cells |-> [i \in 1 .. NextCells(n) |-> Nil], entries |-> NoEntries,
   lfree |-> AddRange(EmptyList, 0, n),
   ncells |-> NextCells(n), nentries |-> 0, maxentries |-> n]

Remap(map, n) ==
  LET used == Chains(map)
      filled[i \in 0 .. Len(used)] ==
        IF i = 0 THEN Fresh(n)
        ELSE Put(filled[i - 1], map.entries[used[i]].key, map.entries[used[i]].value)
  IN filled[Len(used)]

\* Mutant: arrays with the same cells are copied whatever their width.
Resize_AnyWidth(map) ==
  LET n == NextEntries(map) IN
  IF map.ncells = NextCells(n) THEN Expand(map, n) ELSE Remap(map, n)

\* resize
Resize(map) ==
  LET n == NextEntries(map) IN
  IF map.ncells = NextCells(n) /\ (n < Limit \/ map.maxentries >= Limit)
  THEN Expand(map, n)
  ELSE Remap(map, n)
-----------------------------------------------------------------------------
HashInit == m = EmptyMap

\* set: of a key that is there, or while an entry is free, or after a resize.
Set(k, v) ==
  IF Find(m, k) # Nil \/ Get(m.lfree)[1] # Nil
  THEN m' = Put(m, k, v)
  ELSE NextEntries(m) <= MaxEntries /\ m' = Put(Resize(m), k, v)

\* The chain is closed around entry c.
Unlinked(map, c) ==
  LET cell == Cell(map, map.entries[c].key)
      chain == Chain(map, cell)
      at == CHOOSE i \in DOMAIN chain : chain[i] = c
  IN IF at = 1
     THEN [map EXCEPT !.cells[cell] = map.entries[c].next]
     ELSE [map EXCEPT !.entries[chain[at - 1]].next = map.entries[c].next]

\* remove: the entry is unlinked, and free.
Delete(k) ==
  LET c == Find(m, k) IN
  /\ c # Nil
  /\ m' = [Unlinked(m, c) EXCEPT !.lfree = AddRange(@, c, 1),
                                 !.nentries = @ - 1,
                                 !.entries = [d \in DOMAIN @ \ {c} |-> @[d]]]

Clear == m' = EmptyMap

HashNext ==
  \/ \E k \in Key : Delete(k) \/ \E v \in Value : Set(k, v)
  \/ Clear

HashSpec == HashInit /\ [][HashNext]_m
-----------------------------------------------------------------------------
\* keys() and values() fill an array of nentries elements exactly; the other
\* entries are in the free list, each once, in ranges that are as large as they
\* can be; hence resize, which is called when the list is empty, finds every
\* entry used, as it asserts.
EntriesAccounted ==
  LET f == m.lfree
      used == Chains(m)
  IN
  /\ Len(used) = m.nentries
  /\ IsInjective(used)
  /\ Free(f) = (0 .. m.maxentries - 1) \ ToSet(used)
  /\ f.listed =>
       /\ f.head <= f.nbuckets
       /\ \A i \in 1 .. f.head : f.buckets[i].count > 0
       /\ \A i \in 1 .. f.head - 1 :
            f.buckets[i].pos + f.buckets[i].count < f.buckets[i + 1].pos

Contents ==
  [k \in {l \in Key : Find(m, l) # Nil} |-> m.entries[Find(m, k)].value]

Abstract == INSTANCE AbstractMap WITH map <- Contents

\* Chains, free list and resizing make a map: no operation on one key changes
\* what another one is bound to.
MapSpec == Abstract!ASpec
-----------------------------------------------------------------------------
(* The inductive invariant, of any map and free list that the operations   *)
(* come by.                                                                *)

FreeList ==
  [listed : BOOLEAN, buckets : Seq([pos : Nat, count : Nat \ {0}]),
   head : Nat, nbuckets : Nat]

\* A free list has ranges in order and apart from each other, and room for them.
Ranges(f) ==
  /\ f \in FreeList
  /\ f.listed =>
       /\ f.head = Len(f.buckets) /\ f.head <= f.nbuckets /\ f.nbuckets > 0
       /\ \A i, j \in 1 .. f.head :
            i < j => f.buckets[i].pos + f.buckets[i].count < f.buckets[j].pos

\* What the arrays of a map hold.
MapTypeOK(map) ==
  /\ map \in [cells : Seq({Nil} \cup Nat),
              entries : [DOMAIN map.entries ->
                          [key : Key, value : Value, next : {Nil} \cup Nat]],
              lfree : FreeList,
              ncells : Nat, nentries : Nat, maxentries : Nat]
  /\ map.ncells = Len(map.cells)
  /\ map.maxentries > 0 <=> map.ncells > 0

\* The sequence s is what start leads to, to its end.
Links(start, next, s) ==
  /\ start = IF Len(s) = 0 THEN Nil ELSE s[1]
  /\ \A i \in 1 .. Len(s) : next[s[i]] = IF i = Len(s) THEN Nil ELSE s[i + 1]

\* Each entry is in the chain of its key's cell, once, and no two have a key.
ChainsHold(map) ==
  /\ \A i \in 1 .. map.ncells :
       LET s == Chain(map, i) IN
       /\ s \in Seq(Nat) /\ IsInjective(s) /\ Links(map.cells[i], Nexts(map.entries), s)
       /\ ToSet(s) = {c \in DOMAIN map.entries : Cell(map, map.entries[c].key) = i}
  /\ \A c, d \in DOMAIN map.entries :
       map.entries[c].key = map.entries[d].key => c = d

\* The entries that have no key are free.
RestIsFree(map) ==
  /\ Ranges(map.lfree)
  /\ DOMAIN map.entries \subseteq 0 .. map.maxentries - 1
  /\ map.nentries = Cardinality(DOMAIN map.entries)
  /\ Free(map.lfree) = (0 .. map.maxentries - 1) \ DOMAIN map.entries

MapInv(map) == MapTypeOK(map) /\ ChainsHold(map) /\ RestIsFree(map)

HashInv == MapInv(m)
=============================================================================
